--------------------------- MODULE AnalysisProofs ---------------------------
(***************************************************************************)
(* The invariants of what is computed from the tables, for the             *)
(* specification of MCAnalysis that composes the computations: each from   *)
(* an inductive invariant of its own part, which the others' steps leave   *)
(* alone.                                                                  *)
(***************************************************************************)
EXTENDS MCAnalysis, RiskSizingProofs, SequenceTheorems

-----------------------------------------------------------------------------
(* The parts. *)

\* A step of the specification is a step of a part or leaves it alone.
LEMMA PartsStep ==
  ASSUME [AnalysisNext]_allVars
  PROVE  /\ Levels!Next \/ UNCHANGED levelVars
         /\ Backtest!Next \/ UNCHANGED backtestVars
         /\ Shadow!Next \/ UNCHANGED shadowVars
  BY DEF AnalysisNext, allVars

\* Every part starts as it does alone.
LEMMA PartsStart ==
  ASSUME AnalysisInit
  PROVE  Levels!Init /\ Backtest!Init /\ (Shadow!Init \/ Shadow!Reads(<<>>))
  <1>1. Levels!Init /\ Backtest!Init
    BY LevelsAssumption DEF AnalysisInit, OthersRest, LevelsRest, BacktestRests
  <1>2. Shadow!Init \/ Shadow!Reads(<<>>)
    BY DEF AnalysisInit, OthersRest, ShadowRests
  <1>3. QED
    BY <1>1, <1>2

-----------------------------------------------------------------------------
(* The pairing of paper plans with testnet plans. *)

LEMMA SameCount == ASSUME NEW S PROVE Shadow!Cardinality(S) = Cardinality(S)
  BY Zenon DEF Shadow!Cardinality, Cardinality

\* The rows a report reads are finitely many, and were created at some time.
RowsRead ==
  /\ IsFiniteSet(DOMAIN executed)
  /\ DOMAIN executed \subseteq Nat
  /\ \A i \in DOMAIN executed : executed[i].at \in Int

Ours   == Shadow!Positions(TRUE)
Theirs == Shadow!Positions(FALSE)

\* The pairs are made of plans that are no longer in the queues, each plan in
\* one at most.
PairsApart ==
  /\ pairs \subseteq Ours \X Theirs /\ IsFiniteSet(pairs)
  /\ \A q \in pairs : q[1] \notin paper /\ q[2] \notin testnet
  /\ \A q, r \in pairs : q # r => q[1] # r[1] /\ q[2] # r[2]

Paired(p, t) == \E q \in pairs : q[1] = p \/ q[2] = t

\* What left a queue was paired, or compares with nothing that is left.
LeftAlone ==
  /\ \A t \in Theirs \ testnet : \E q \in pairs : q[2] = t
  /\ \A p \in Ours \ paper, t \in testnet : Paired(p, t) \/ ~Shadow!Comparable(p, t)

\* The counts, to which the report adds what is left in the queues.
Counted ==
  /\ unmatched \in [paper : Nat, testnet : Nat]
  /\ Cardinality(Ours) = Cardinality(pairs) + unmatched.paper
                           + (IF reported THEN 0 ELSE Cardinality(paper))
  /\ Cardinality(Theirs) = Cardinality(pairs) + unmatched.testnet
                             + (IF reported THEN 0 ELSE Cardinality(testnet))

PairInv ==
  /\ RowsRead /\ PairsApart /\ LeftAlone /\ Counted
  /\ paper \subseteq Ours /\ testnet \subseteq Theirs
  /\ reported \in BOOLEAN
  /\ reported => paper = {} \/ testnet = {}

\* A queue is as finite as the rows.
LEMMA QueuesFinite ==
  ASSUME RowsRead, NEW S \in (SUBSET Ours) \cup (SUBSET Theirs)
  PROVE  IsFiniteSet(S) /\ Cardinality(S) \in Nat /\ S \subseteq Nat
  <1>1. S \in SUBSET DOMAIN executed
    BY DEF Ours, Theirs, Shadow!Positions
  <1>2. QED
    BY <1>1, FS_Subset, FS_CardinalityType DEF RowsRead

\* Whatever table there is, the queues start as all of its rows.
LEMMA ReadsPairInv ==
  ASSUME NEW table, NEW n \in Nat, table \in [1..n -> Shadow!Executed], Shadow!Reads(table)
  PROVE  PairInv
  <1>1. Len(table) = n
    OBVIOUS
  <1>2. PICK low \in 1..n + 1 : executed = SubSeq(table, low, n)
    BY <1>1, ShadowAssumption DEF Shadow!Reads, Shadow!Newest
  <1>3. executed = [i \in 1..(n - low + 1) |-> table[i + low - 1]]
    BY <1>1, <1>2
  <1>4. \A i \in 1..(n - low + 1) : i + low - 1 \in 1..n
    BY <1>2
  <1>5. \A i \in 1..n : table[i].at \in Int
    BY ShadowAssumption DEF Shadow!Executed
  <1>6. RowsRead
    <2>1. IsFiniteSet(1..(n - low + 1))
      BY <1>2, FS_Interval
    <2>2. QED
      BY <1>3, <1>4, <1>5, <2>1 DEF RowsRead
  <1>7. paper = Ours /\ testnet = Theirs
    BY DEF Shadow!Reads, Shadow!Queue, Ours, Theirs, Shadow!Positions
  <1>8. pairs = {} /\ unmatched = [paper |-> 0, testnet |-> 0] /\ reported = FALSE
    BY DEF Shadow!Reads
  <1>9. Counted
    <2>1. Cardinality(pairs) = 0 /\ Cardinality(Ours) \in Nat /\ Cardinality(Theirs) \in Nat
      BY <1>6, <1>8, QueuesFinite, FS_EmptySet
    <2>2. QED
      BY <1>7, <1>8, <2>1 DEF Counted
  <1>10. PairsApart /\ LeftAlone
    BY <1>7, <1>8, FS_EmptySet DEF PairsApart, LeftAlone
  <1>11. QED
    BY <1>6, <1>7, <1>8, <1>9, <1>10 DEF PairInv

\* A set of numbers that is not empty has a least one.
LEMMA LeastOfNats ==
  ASSUME NEW S \in SUBSET Nat, S # {}
  PROVE  \E n \in S : \A m \in S : n <= m
  <1> DEFINE T == {0..n : n \in S}
  <1>1. T \subseteq FiniteSubsetsOf(Nat) /\ T # {}
    <2>1. \A n \in S : IsFiniteSet(0..n) /\ 0..n \subseteq Nat
      BY FS_Interval
    <2>2. QED
      BY <2>1 DEF FiniteSubsetsOf
  <1>2. PICK A \in T : \A B \in T : ~(<<B, A>> \in StrictSubsetOrdering(Nat))
    BY <1>1, WFMin, FS_StrictSubsetOrderingWellFounded
  <1>3. PICK n \in S : A = 0..n
    OBVIOUS
  <1>4. ASSUME NEW m \in S, m < n
        PROVE  FALSE
    <2>1. 0..m \in T
      OBVIOUS
    <2>2. 0..m \subseteq Nat /\ 0..n \subseteq Nat /\ 0..m \subseteq 0..n
      BY <1>4
    <2>3. n \in 0..n /\ n \notin 0..m
      BY <1>4
    <2>4. <<0..m, A>> \in StrictSubsetOrdering(Nat)
      BY <1>3, <2>2, <2>3, Zenon DEF StrictSubsetOrdering
    <2>5. QED
      BY <1>2, <2>1, <2>4
  <1>5. QED
    BY <1>4

LEMMA MinOfNats ==
  ASSUME NEW S \in SUBSET Nat, S # {}
  PROVE  Shadow!Min(S) \in S
  BY LeastOfNats DEF Shadow!Min

\* The pair a paper plan is given is among those it compares with.
LEMMA MatchIsCandidate ==
  ASSUME PairInv, NEW p \in Ours, Shadow!Candidates(p) # {}
  PROVE  Shadow!Match(p) \in Shadow!Candidates(p)
  <1> DEFINE C == Shadow!Candidates(p)
             D == {Shadow!Delta(p, t) : t \in C}
             N == {t \in C : \A u \in C : Shadow!Delta(p, t) <= Shadow!Delta(p, u)}
  <1>1. C \subseteq DOMAIN executed /\ C \subseteq Nat /\ p \in DOMAIN executed
    BY DEF PairInv, RowsRead, Shadow!Candidates, Ours, Theirs, Shadow!Positions
  <1>2. D \in SUBSET Nat
    BY <1>1 DEF Shadow!Delta, PairInv, RowsRead
  <1>3. PICK d \in D : \A e \in D : d <= e
    BY <1>2, LeastOfNats
  <1>4. N # {} /\ N \in SUBSET Nat
    BY <1>1, <1>3
  <1>5. Shadow!Min(N) \in N
    BY <1>4, MinOfNats
  <1>6. QED
    BY <1>5 DEF Shadow!Match

LEMMA FirstIsInQueue ==
  ASSUME PairInv, Shadow!Looping
  PROVE  Shadow!First \in paper
  <1>1. paper \in SUBSET Nat /\ paper # {}
    BY DEF PairInv, RowsRead, Shadow!Looping, Ours, Shadow!Positions
  <1>2. QED
    BY <1>1, MinOfNats DEF Shadow!First

LEMMA PairNearestStep ==
  ASSUME PairInv, Shadow!PairNearest
  PROVE  PairInv'
  <1>1. PICK p \in paper : p = Shadow!First
    BY FirstIsInQueue DEF Shadow!PairNearest
  <1>2. p \in Ours /\ Shadow!Candidates(p) # {}
    BY <1>1 DEF Shadow!PairNearest, PairInv
  <1>3. PICK t \in Shadow!Candidates(p) : t = Shadow!Match(p)
    BY <1>2, MatchIsCandidate
  <1>4. t \in testnet /\ t \in Theirs
    BY <1>3 DEF Shadow!Candidates, PairInv
  <1>5. /\ pairs' = pairs \cup {<<p, t>>}
        /\ testnet' = testnet \ {t} /\ paper' = paper \ {p}
        /\ UNCHANGED <<executed, unmatched, reported>>
    BY <1>1, <1>3 DEF Shadow!PairNearest
  <1>6. RowsRead' /\ Ours' = Ours /\ Theirs' = Theirs
    BY <1>5 DEF PairInv, RowsRead, Ours, Theirs, Shadow!Positions
  <1>7. \A i, j : Shadow!Comparable(i, j)' <=> Shadow!Comparable(i, j)
    BY <1>5 DEF Shadow!Comparable, Shadow!Delta
  <1>8. <<p, t>> \notin pairs
    BY DEF PairInv, PairsApart
  <1>9. PairsApart'
    <2>1. IsFiniteSet(pairs')
      BY <1>5, FS_AddElement DEF PairInv, PairsApart
    <2>2. QED
      BY <1>2, <1>4, <1>5, <1>6, <2>1 DEF PairInv, PairsApart
  <1>10. LeftAlone'
    <2>1. ASSUME NEW u \in Theirs, u \notin testnet'
          PROVE  \E q \in pairs' : q[2] = u
      <3>1. CASE u = t
        <4>1. <<p, t>> \in pairs' /\ <<p, t>>[2] = u
          BY <1>5, <3>1
        <4>2. QED
          BY <4>1
      <3>2. CASE u # t
        <4>1. u \in Theirs \ testnet
          BY <1>5, <2>1, <3>2
        <4>2. PICK q \in pairs : q[2] = u
          BY <4>1 DEF PairInv, LeftAlone
        <4>3. QED
          BY <1>5, <4>2
      <3>3. QED
        BY <3>1, <3>2
    <2>2. ASSUME NEW o \in Ours, o \notin paper', NEW u \in testnet'
          PROVE  Paired(o, u)' \/ ~Shadow!Comparable(o, u)'
      <3>1. CASE o = p
        <4>1. <<p, t>> \in pairs' /\ <<p, t>>[1] = o
          BY <1>5, <3>1
        <4>2. QED
          BY <4>1 DEF Paired
      <3>2. CASE o # p
        <4>1. o \in Ours \ paper /\ u \in testnet
          BY <1>5, <2>2, <3>2
        <4>2. Paired(o, u) \/ ~Shadow!Comparable(o, u)
          BY <4>1 DEF PairInv, LeftAlone
        <4>3. Paired(o, u) => Paired(o, u)'
          BY <1>5 DEF Paired
        <4>4. QED
          BY <1>7, <4>2, <4>3
      <3>3. QED
        BY <3>1, <3>2
    <2>3. QED
      BY <1>6, <2>1, <2>2 DEF LeftAlone
  <1>11. Counted'
    <2>1. /\ Cardinality(pairs') = Cardinality(pairs) + 1
          /\ Cardinality(pairs) \in Nat
      BY <1>5, <1>8, FS_AddElement, FS_CardinalityType DEF PairInv, PairsApart
    <2>2. /\ IsFiniteSet(paper) /\ IsFiniteSet(testnet)
          /\ Cardinality(paper) \in Nat /\ Cardinality(testnet) \in Nat
      BY QueuesFinite DEF PairInv
    <2>3. /\ Cardinality(paper') = Cardinality(paper) - 1
          /\ Cardinality(testnet') = Cardinality(testnet) - 1
      BY <1>4, <1>5, <2>2, FS_RemoveElement
    <2>4. reported = FALSE
      BY <1>2, <1>4 DEF PairInv, Shadow!PairNearest, Shadow!Looping
    <2>5. QED
      BY <1>5, <1>6, <2>1, <2>2, <2>3, <2>4 DEF PairInv, Counted
  <1>12. QED
    BY <1>5, <1>6, <1>9, <1>10, <1>11 DEF PairInv

LEMMA LeaveUnmatchedStep ==
  ASSUME PairInv, Shadow!LeaveUnmatched
  PROVE  PairInv'
  <1>1. PICK p \in paper : p = Shadow!First
    BY FirstIsInQueue DEF Shadow!LeaveUnmatched
  <1>2. /\ paper' = paper \ {p} /\ unmatched' = [unmatched EXCEPT !.paper = @ + 1]
        /\ UNCHANGED <<executed, testnet, pairs, reported>>
        /\ testnet # {} /\ paper # {}
        /\ \A t \in testnet : ~Shadow!Comparable(p, t)
    BY <1>1 DEF Shadow!LeaveUnmatched, Shadow!Candidates, Shadow!Looping
  <1>3. RowsRead' /\ Ours' = Ours /\ Theirs' = Theirs
    BY <1>2 DEF PairInv, RowsRead, Ours, Theirs, Shadow!Positions
  <1>4. \A i, j : Shadow!Comparable(i, j)' <=> Shadow!Comparable(i, j)
    BY <1>2 DEF Shadow!Comparable, Shadow!Delta
  <1>5. LeftAlone'
    BY <1>2, <1>3, <1>4 DEF PairInv, LeftAlone, Paired
  <1>6. Counted'
    <2>1. /\ Cardinality(paper) \in Nat
          /\ Cardinality(paper') = Cardinality(paper) - 1
      BY <1>2, QueuesFinite, FS_RemoveElement DEF PairInv
    <2>2. Cardinality(pairs) \in Nat
      BY FS_CardinalityType DEF PairInv, PairsApart
    <2>3. QED
      BY <1>2, <1>3, <2>1, <2>2 DEF PairInv, Counted
  <1>7. QED
    BY <1>2, <1>3, <1>5, <1>6 DEF PairInv, PairsApart

LEMMA ReportStep ==
  ASSUME PairInv, Shadow!Report
  PROVE  PairInv'
  <1>1. /\ unmatched' = [paper   |-> unmatched.paper + Cardinality(paper),
                         testnet |-> unmatched.testnet + Cardinality(testnet)]
        /\ reported = FALSE /\ reported' = TRUE /\ (paper = {} \/ testnet = {})
        /\ UNCHANGED <<executed, paper, testnet, pairs>>
    BY SameCount DEF Shadow!Report, Shadow!Looping, PairInv
  <1>2. RowsRead' /\ Ours' = Ours /\ Theirs' = Theirs
    BY <1>1 DEF PairInv, RowsRead, Ours, Theirs, Shadow!Positions
  <1>3. LeftAlone'
    BY <1>1, <1>2 DEF PairInv, LeftAlone, Paired, Shadow!Comparable, Shadow!Delta
  <1>4. Counted'
    <2>1. Cardinality(paper) \in Nat /\ Cardinality(testnet) \in Nat
      BY QueuesFinite DEF PairInv
    <2>2. Cardinality(pairs) \in Nat
      BY FS_CardinalityType DEF PairInv, PairsApart
    <2>3. QED
      BY <1>1, <1>2, <2>1, <2>2 DEF PairInv, Counted
  <1>5. QED
    BY <1>1, <1>2, <1>3, <1>4 DEF PairInv, PairsApart

\* The pairing keeps its invariant.
LEMMA PairInvHolds == AnalysisSpec => []PairInv
  <1>1. AnalysisInit => PairInv
    <2>1. Shadow!Init => PairInv
      BY ReadsPairInv DEF Shadow!Init, Shadow!Tables
    <2>2. Shadow!Reads(<<>>) => PairInv
      <3>1. <<>> \in [1..0 -> Shadow!Executed]
        OBVIOUS
      <3>2. QED
        BY <3>1, ReadsPairInv
    <2>3. QED
      BY <2>1, <2>2, PartsStart
  <1>2. PairInv /\ [AnalysisNext]_allVars => PairInv'
    <2> SUFFICES ASSUME PairInv, [AnalysisNext]_allVars PROVE PairInv'
      OBVIOUS
    <2>1. CASE Shadow!Next
      BY <2>1, PairNearestStep, LeaveUnmatchedStep, ReportStep DEF Shadow!Next
    <2>2. CASE UNCHANGED shadowVars
      BY <2>2 DEF shadowVars, PairInv, RowsRead, PairsApart, LeftAlone, Paired, Counted,
              Ours, Theirs, Shadow!Positions, Shadow!Comparable, Shadow!Delta
    <2>3. QED
      BY <2>1, <2>2, PartsStep
  <1>3. QED
    BY <1>1, <1>2, PTL DEF AnalysisSpec

\* Every plan of a report is in one pair or counted as unmatched, and the
\* nearest plan in turn leaves out no comparison that could still be made, for
\* any table, times, sides, limit and delta.
THEOREM PairingIsComplete == AnalysisSpec => []NoPairMissed
  <1>1. ASSUME PairInv
        PROVE  NoPairMissed
    <2> SUFFICES ASSUME reported PROVE Shadow!NoPairMissed
      BY DEF NoPairMissed, Shadow!NoPairMissed
    <2>1. /\ Cardinality(Ours) = Cardinality(pairs) + unmatched.paper
          /\ Cardinality(Theirs) = Cardinality(pairs) + unmatched.testnet
      <3>1. unmatched.paper \in Nat /\ unmatched.testnet \in Nat
        BY <1>1 DEF PairInv, Counted
      <3>2. Cardinality(pairs) \in Nat
        BY <1>1, FS_CardinalityType DEF PairInv, PairsApart
      <3>3. QED
        BY <1>1, <3>1, <3>2 DEF PairInv, Counted
    <2>2. ASSUME NEW p \in Ours, NEW t \in Theirs
          PROVE  Paired(p, t) \/ ~Shadow!Comparable(p, t)
      <3>1. CASE t \in testnet
        BY <1>1, <3>1 DEF PairInv, LeftAlone
      <3>2. CASE t \notin testnet
        BY <1>1, <3>2 DEF PairInv, LeftAlone, Paired
      <3>3. QED
        BY <3>1, <3>2
    <2>3. \A q, r \in pairs : q # r => q[1] # r[1] /\ q[2] # r[2]
      BY <1>1 DEF PairInv, PairsApart
    <2>4. QED
      BY <2>1, <2>2, <2>3, SameCount, Zenon DEF Paired, Ours, Theirs, Shadow!NoPairMissed
  <1>2. QED
    BY <1>1, PairInvHolds, PTL

-----------------------------------------------------------------------------
(* The levels of the exits. *)

\* The decimals of a size stand for a unit.
LEMMA UnitIsPositive ==
  ASSUME NEW s \in Steps \cup Ticks
  PROVE  Levels!Unit(s) \in Nat \ {0}
  <1>1. Levels!Whole \in Nat \ {0} /\ s \in Nat \ {0}
    BY PowersAssumption, LevelsAssumption DEF Levels!Powers, Levels!Whole
  <1>2. CASE s >= Levels!Whole
    BY <1>1, <1>2 DEF Levels!Unit
  <1>3. CASE ~(s >= Levels!Whole)
    <2>1. s < Levels!Whole
      BY <1>1, <1>3
    <2>2. \E p \in Levels!Powers : p * p <= 10 * s * s /\ s * s < 10 * p * p
      BY <2>1, PowersAssumption
    <2>3. Levels!Unit(s) \in Levels!Powers
      BY <1>3, <2>2 DEF Levels!Unit
    <2>4. QED
      BY <2>3, PowersAssumption
  <1>4. QED
    BY <1>2, <1>3

\* Division, by a divisor that is not known.
LEMMA Divided ==
  ASSUME NEW n \in Int, NEW d \in Nat \ {0}
  PROVE  \E q \in Int : n \div d = q /\ q * d <= n /\ n < q * d + d
  OBVIOUS

LEMMA Multiple ==
  ASSUME NEW n \in Int, NEW d \in Nat \ {0}, n % d = 0
  PROVE  \E j \in Int : n = j * d
  OBVIOUS

LEMMA Unique ==
  ASSUME NEW n \in Int, NEW d \in Nat \ {0}, NEW q \in Int, q * d <= n, n < q * d + d
  PROVE  n \div d = q
  <1>1. PICK k \in Int : n \div d = k /\ k * d <= n /\ n < k * d + d
    BY Divided
  <1>2. CASE k < q
    <2>1. (k + 1) * d <= q * d
      BY <1>2
    <2>2. QED
      BY <1>1, <2>1
  <1>3. CASE k > q
    <2>1. (q + 1) * d <= k * d
      BY <1>3
    <2>2. QED
      BY <1>1, <2>1
  <1>4. QED
    BY <1>1, <1>2, <1>3

\* Rounded to the decimals of a size, a multiple of it is off by OffGrid.
LEMMA Rounded ==
  ASSUME NEW s \in Steps \cup Ticks, NEW k \in Int,
         NEW r \in Levels!ToDecimals(k * s, s)
  PROVE  /\ Levels!OffGrid(s) \in Nat
         /\ r \in Int /\ k * s - Levels!OffGrid(s) <= r /\ r <= k * s + Levels!OffGrid(s)
         /\ k \in Nat => r \in Nat
  <1>1. PICK u \in Nat \ {0} : u = Levels!Unit(s)
    BY UnitIsPositive
  <1>2. s \in Nat \ {0}
    BY LevelsAssumption
  <1>3. PICK m \in Int : m = k * s
    BY <1>2
  <1>4. PICK q \in Int : m \div u = q /\ q * u <= m /\ m < q * u + u
    BY Divided
  <1>5. PICK b \in Int : b = q * u
    BY <1>1, <1>4
  <1>6. /\ r \in {b, b + u}
        /\ 2 * (IF r >= m THEN r - m ELSE m - r) <= u
    BY <1>1, <1>3, <1>4, <1>5 DEF Levels!ToDecimals, Levels!Distance
  <1>7. CASE s % u = 0
    <2>1. PICK j \in Int : s = j * u
      <3>1. s \in Int /\ u \in Nat \ {0} /\ s % u = 0
        BY <1>1, <1>2, <1>7
      <3>2. QED
        BY <3>1, Multiple, Zenon
    <2>2. m = (k * j) * u /\ k * j \in Int
      BY <1>3, <2>1
    <2>3. m \div u = k * j
      BY <1>1, <2>2, Unique
    <2>4. b = m
      BY <1>4, <1>5, <2>2, <2>3
    <2>5. r = m
      BY <1>1, <1>6, <2>4
    <2>6. Levels!OffGrid(s) = 0
      BY <1>1, <1>2, <1>7 DEF Levels!OffGrid
    <2>7. k \in Nat => k * s \in Nat
      BY <1>2
    <2>8. QED
      BY <1>3, <2>5, <2>6, <2>7
  <1>8. CASE s % u # 0
    <2>1. PICK h \in Nat : h = u \div 2 /\ 2 * h <= u /\ u < 2 * h + 2
      BY <1>1
    <2>2. Levels!OffGrid(s) = h
      BY <1>1, <1>2, <1>8, <2>1 DEF Levels!OffGrid
    <2>3. r \in Int /\ m - h <= r /\ r <= m + h
      BY <1>4, <1>5, <1>6, <2>1
    <2>4. ASSUME k \in Nat PROVE b \in Nat
      <3>1. m \in Nat
        BY <1>2, <1>3, <2>4
      <3>2. q >= 0
        <4>1. q < 0 => (q + 1) * u <= 0
          BY <1>1, <1>4
        <4>2. QED
          BY <1>4, <3>1, <4>1
      <3>3. QED
        BY <1>5, <3>2
    <2>5. QED
      BY <1>1, <1>3, <1>6, <2>1, <2>2, <2>3, <2>4
  <1>9. QED
    BY <1>7, <1>8

\* Rounded to a tick, or left alone when the tick is not known, a level is off
\* by the tick and OffGrid in one direction, by OffGrid in the other.
LEMMA RoundedDown ==
  ASSUME NEW n \in Int, NEW t \in Ticks \cup {0}, tick' = t, NEW r \in Levels!Down(n)
  PROVE  /\ r \in Int /\ Levels!OffGrid(t) \in Nat
         /\ n - t - Levels!OffGrid(t) <= r /\ r <= n + Levels!OffGrid(t)
  <1>1. CASE t = 0
    BY <1>1 DEF Levels!Down, Levels!OffGrid
  <1>2. CASE t # 0
    <2>1. t \in Nat \ {0} /\ t \in Steps \cup Ticks
      BY <1>2, LevelsAssumption
    <2>2. PICK k \in Int : n \div t = k /\ k * t <= n /\ n < k * t + t
      BY <2>1, Divided
    <2>3. r \in Levels!ToDecimals(k * t, t)
      BY <1>2, <2>2 DEF Levels!Down, Levels!Floor
    <2>4. /\ Levels!OffGrid(t) \in Nat /\ r \in Int
          /\ k * t - Levels!OffGrid(t) <= r /\ r <= k * t + Levels!OffGrid(t)
      BY <2>1, <2>3, Rounded
    <2>5. k * t \in Int
      BY <2>1
    <2>6. QED
      BY <2>1, <2>2, <2>4, <2>5
  <1>3. QED
    BY <1>1, <1>2

LEMMA RoundedUp ==
  ASSUME NEW n \in Int, NEW t \in Ticks \cup {0}, tick' = t, NEW r \in Levels!Up(n)
  PROVE  /\ r \in Int /\ Levels!OffGrid(t) \in Nat
         /\ n - Levels!OffGrid(t) <= r /\ r <= n + t + Levels!OffGrid(t)
  <1>1. CASE t = 0
    BY <1>1 DEF Levels!Up, Levels!OffGrid
  <1>2. CASE t # 0
    <2>1. t \in Nat \ {0} /\ t \in Steps \cup Ticks /\ -n \in Int
      BY <1>2, LevelsAssumption
    <2>2. PICK k \in Int : (-n) \div t = k /\ k * t <= -n /\ -n < k * t + t
      BY <2>1, Divided
    <2>3. PICK j \in Int : j = -k
      OBVIOUS
    <2>4. j * t \in Int /\ n <= j * t /\ j * t < n + t
      BY <2>1, <2>2, <2>3
    <2>5. Levels!Ceiling(n, t) = j * t
      BY <2>1, <2>2, <2>3 DEF Levels!Ceiling
    <2>6. r \in Levels!ToDecimals(j * t, t)
      BY <1>2, <2>5 DEF Levels!Up
    <2>7. /\ Levels!OffGrid(t) \in Nat /\ r \in Int
          /\ j * t - Levels!OffGrid(t) <= r /\ r <= j * t + Levels!OffGrid(t)
      BY <2>1, <2>6, Rounded
    <2>8. QED
      BY <2>1, <2>4, <2>7
  <1>3. QED
    BY <1>1, <1>2

\* The numbers of an execution, of which the budget pays for the quantity.
NumbersInv ==
  /\ entering \in Planned
  /\ price \in Nat /\ mark \in Nat /\ seen \in Nat
  /\ step \in Steps \cup {0}
  /\ quantity \in Nat /\ Levels!OffGrid(step) \in Nat
  /\ quantity * Levels!StopDistance
       <= entering.budget + Levels!OffGrid(step) * Levels!StopDistance

\* The exits lie a distance away from fill and mark, but for the rounding.
ExitsInv ==
  LET off == Levels!OffGrid(tick)
  IN /\ tick \in Ticks \cup {0} /\ off \in Nat /\ loss \in Int /\ gain \in Int
     /\ entering.side = "long" =>
          /\ Levels!Below(Levels!StopDistance) - tick - off <= loss
          /\ loss <= Levels!Below(Levels!StopDistance) + off
          /\ Levels!Above(Levels!TargetDistance) - off <= gain
     /\ entering.side = "short" =>
          /\ Levels!Above(Levels!StopDistance) - off <= loss
          /\ loss <= Levels!Above(Levels!StopDistance) + tick + off
          /\ gain <= Levels!Below(Levels!TargetDistance) + off

LevelInv ==
  /\ NumbersInv
  /\ Levels!Protected => ExitsInv
  /\ due # "none" => progress = "failed" /\ due = Levels!Trigger(seen)

LEMMA LevelStart ==
  ASSUME Levels!Init
  PROVE  LevelInv
  <1>1. Levels!OffGrid(0) = 0
    BY DEF Levels!OffGrid
  <1>2. entering \in Planned /\ entering.budget \in Nat
    BY LevelsAssumption DEF Levels!Init
  <1>3. Levels!StopDistance \in Nat
    BY <1>2, LevelsAssumption DEF Levels!StopDistance, Levels!Distance
  <1>4. NumbersInv
    BY <1>1, <1>2, <1>3 DEF Levels!Init, NumbersInv
  <1>5. QED
    BY <1>4 DEF Levels!Init, LevelInv, Levels!Protected

LEMMA PlanNumbers ==
  ASSUME NEW e \in Planned
  PROVE  /\ e.side \in {"long", "short"}
         /\ e.entry \in Nat /\ e.stop \in Nat /\ e.target \in Nat /\ e.budget \in Nat
  BY LevelsAssumption

LEMMA SizeEntryStep ==
  ASSUME LevelInv, Levels!SizeEntry
  PROVE  LevelInv'
  <1>1. PICK s \in Steps : step' = s
    BY DEF Levels!SizeEntry
  <1>2. PICK q \in Levels!Quantities(s) : quantity' = q
    BY <1>1 DEF Levels!SizeEntry
  <1>3. /\ UNCHANGED <<entering, price, mark, loss, gain, tick, seen, due>>
        /\ progress = "approved" /\ progress' \in {"sized", "invalid_quantity"}
    BY DEF Levels!SizeEntry
  <1>4. PICK d \in Nat : d = Levels!StopDistance
    BY PlanNumbers DEF LevelInv, NumbersInv, Levels!StopDistance, Levels!Distance
  <1>5. d = Levels!StopDistance'
    BY <1>3, <1>4 DEF Levels!StopDistance
  <1>6. PICK b \in Nat : b = entering.budget
    BY PlanNumbers DEF LevelInv, NumbersInv
  <1>7. s \in Nat \ {0} /\ s \in Steps \cup Ticks
    BY LevelsAssumption
  <1>8. q \in Nat /\ Levels!OffGrid(s) \in Nat /\ q * d <= b + Levels!OffGrid(s) * d
    <2>1. CASE d = 0
      <3>1. 0 * s = 0 /\ 0 \in Int
        BY <1>7
      <3>2. Levels!OffGrid(s) \in Nat
        BY <1>7, UnitIsPositive DEF Levels!OffGrid
      <3>3. q = 0
        BY <1>4, <2>1 DEF Levels!Quantities
      <3>4. QED
        BY <2>1, <3>2, <3>3
    <2>2. CASE d # 0
      <3>1. PICK m \in Int : b \div d = m /\ m * d <= b /\ b < m * d + d
        BY <2>2, Divided
      <3>2. m >= 0
        <4>1. m < 0 => (m + 1) * d <= 0
          BY <2>2
        <4>2. QED
          BY <2>2, <3>1, <4>1
      <3>3. PICK k \in Int : m \div s = k /\ k * s <= m /\ m < k * s + s
        BY <1>7, Divided
      <3>4. k >= 0
        <4>1. k < 0 => (k + 1) * s <= 0
          BY <1>7
        <4>2. QED
          BY <1>7, <3>2, <3>3, <4>1
      <3>5. q \in Levels!ToDecimals(k * s, s)
        BY <1>2, <1>4, <1>6, <2>2, <3>1, <3>3 DEF Levels!Quantities, Levels!Floor
      <3>6. PICK o \in Nat : o = Levels!OffGrid(s) /\ q \in Nat /\ q <= k * s + o
        <4>1. k \in Nat
          BY <3>4
        <4>2. /\ Levels!OffGrid(s) \in Nat /\ q <= k * s + Levels!OffGrid(s)
              /\ k \in Nat => q \in Nat
          BY <1>7, <3>5, Rounded
        <4>3. QED
          BY <4>1, <4>2
      <3>7. q <= m + o
        BY <1>7, <3>3, <3>6
      <3>8. q * d <= m * d + o * d
        <4>1. PICK z \in Nat : m + o = q + z
          BY <3>2, <3>6, <3>7
        <4>2. (q + z) * d = q * d + z * d /\ z * d \in Nat /\ q * d \in Nat
          BY <3>6
        <4>3. (m + o) * d = m * d + o * d
          BY <3>6
        <4>4. QED
          BY <4>1, <4>2, <4>3
      <3>9. QED
        BY <3>1, <3>6, <3>8
    <2>3. QED
      BY <2>1, <2>2
  <1>9. NumbersInv'
    BY <1>1, <1>2, <1>3, <1>4, <1>5, <1>6, <1>8 DEF LevelInv, NumbersInv
  <1>10. QED
    BY <1>3, <1>9 DEF LevelInv, Levels!Protected

LEMMA EnterStep ==
  ASSUME LevelInv, Levels!Enter \/ Levels!ReadMark
  PROVE  LevelInv'
  <1>1. /\ UNCHANGED <<entering, quantity, step, loss, gain, tick, due>>
        /\ progress \in {"sized", "entered"} /\ progress' \in {"entered", "marked"}
    BY DEF Levels!Enter, Levels!ReadMark
  <1>2. price' \in Nat /\ mark' \in Nat /\ seen' \in Nat
    BY PlanNumbers, LevelsAssumption DEF LevelInv, NumbersInv, Levels!Enter, Levels!ReadMark
  <1>3. NumbersInv'
    BY <1>1, <1>2 DEF LevelInv, NumbersInv, Levels!StopDistance
  <1>4. QED
    BY <1>1, <1>3 DEF LevelInv, Levels!Protected

\* The distances an exit keeps, and the levels they lead to, are numbers.
LEMMA LevelNumbers ==
  ASSUME NumbersInv
  PROVE  /\ Levels!StopDistance \in Nat /\ Levels!TargetDistance \in Nat
         /\ \A d \in Nat : Levels!Below(d) \in Int /\ Levels!Above(d) \in Int
  BY PlanNumbers DEF NumbersInv, Levels!StopDistance, Levels!TargetDistance, Levels!Distance,
     Levels!Below, Levels!Above, Levels!Least, Levels!Most

LEMMA ProtectStep ==
  ASSUME LevelInv, Levels!Protect
  PROVE  LevelInv'
  <1>1. PICK t \in Ticks \cup {0} : tick' = t
    BY DEF Levels!Protect
  <1>2. /\ UNCHANGED <<entering, quantity, step, price, mark, seen, due>>
        /\ progress = "marked" /\ progress' \in {"native", "failed"}
    BY DEF Levels!Protect
  <1>3. NumbersInv'
    BY <1>2 DEF LevelInv, NumbersInv, Levels!StopDistance
  <1>4. /\ Levels!Below(Levels!StopDistance) \in Int /\ Levels!Above(Levels!StopDistance) \in Int
        /\ Levels!Below(Levels!TargetDistance) \in Int /\ Levels!Above(Levels!TargetDistance) \in Int
    BY LevelNumbers DEF LevelInv
  <1>5. /\ UNCHANGED <<Levels!Below(Levels!StopDistance), Levels!Above(Levels!StopDistance)>>
        /\ UNCHANGED <<Levels!Below(Levels!TargetDistance), Levels!Above(Levels!TargetDistance)>>
    BY <1>2 DEF Levels!Below, Levels!Above, Levels!StopDistance, Levels!TargetDistance
  <1>6. Levels!OffGrid(tick)' = Levels!OffGrid(t)
    BY <1>1
  <1>7. ASSUME entering.side = "long"
        PROVE  ExitsInv'
    <2>1. /\ loss' \in Levels!Down(Levels!Below(Levels!StopDistance))
          /\ gain' \in Levels!Up(Levels!Above(Levels!TargetDistance))
      BY <1>7 DEF Levels!Protect
    <2>2. /\ loss' \in Int /\ Levels!OffGrid(t) \in Nat
          /\ Levels!Below(Levels!StopDistance) - t - Levels!OffGrid(t) <= loss'
          /\ loss' <= Levels!Below(Levels!StopDistance) + Levels!OffGrid(t)
      BY <1>1, <1>4, <2>1, RoundedDown
    <2>3. gain' \in Int /\ Levels!Above(Levels!TargetDistance) - Levels!OffGrid(t) <= gain'
      BY <1>1, <1>4, <2>1, RoundedUp
    <2>4. QED
      BY <1>1, <1>2, <1>5, <1>6, <1>7, <2>2, <2>3 DEF ExitsInv
  <1>8. ASSUME entering.side = "short"
        PROVE  ExitsInv'
    <2>1. /\ loss' \in Levels!Up(Levels!Above(Levels!StopDistance))
          /\ gain' \in Levels!Down(Levels!Below(Levels!TargetDistance))
      BY <1>8 DEF Levels!Protect
    <2>2. /\ loss' \in Int /\ Levels!OffGrid(t) \in Nat
          /\ Levels!Above(Levels!StopDistance) - Levels!OffGrid(t) <= loss'
          /\ loss' <= Levels!Above(Levels!StopDistance) + t + Levels!OffGrid(t)
      BY <1>1, <1>4, <2>1, RoundedUp
    <2>3. gain' \in Int /\ gain' <= Levels!Below(Levels!TargetDistance) + Levels!OffGrid(t)
      BY <1>1, <1>4, <2>1, RoundedDown
    <2>4. QED
      BY <1>1, <1>2, <1>5, <1>6, <1>8, <2>2, <2>3 DEF ExitsInv
  <1>9. ExitsInv'
    BY <1>7, <1>8, PlanNumbers DEF LevelInv, NumbersInv
  <1>10. QED
    BY <1>2, <1>3, <1>9 DEF LevelInv

LEMMA SynchroniseStep ==
  ASSUME LevelInv, Levels!Synchronise
  PROVE  LevelInv'
  <1>1. /\ UNCHANGED <<entering, progress, quantity, step, price, mark, loss, gain, tick>>
        /\ progress = "failed"
        /\ seen' \in Prices \cup {seen} /\ due' = Levels!Trigger(seen')
    BY DEF Levels!Synchronise
  <1>2. NumbersInv'
    BY <1>1, LevelsAssumption DEF LevelInv, NumbersInv, Levels!StopDistance
  <1>3. ExitsInv'
    BY <1>1 DEF LevelInv, Levels!Protected, ExitsInv, Levels!StopDistance, Levels!TargetDistance,
       Levels!Below, Levels!Above
  <1>4. due' = Levels!Trigger(seen)'
    BY <1>1 DEF Levels!Trigger, Levels!LocalExitLevels
  <1>5. QED
    BY <1>1, <1>2, <1>3, <1>4 DEF LevelInv

\* Between exits that follow the market there is the fill and the mark.
LEMMA MarketIsBetween ==
  ASSUME NumbersInv, ExitsInv,
         Levels!OffGrid(tick) < Levels!Most(Levels!Least(Levels!StopDistance, Levels!TargetDistance),
                                            mark \div 1000),
         NEW p \in {price, mark}
  PROVE  /\ entering.side = "long" => loss < p /\ p < gain
         /\ entering.side = "short" => gain < p /\ p < loss
  <1>1. PICK sd \in Nat, td \in Nat, m \in Nat, off \in Nat :
          /\ sd = Levels!StopDistance /\ td = Levels!TargetDistance
          /\ m = mark \div 1000 /\ off = Levels!OffGrid(tick)
    BY LevelNumbers DEF NumbersInv, ExitsInv
  <1>2. off < Levels!Most(sd, m) /\ off < Levels!Most(td, m)
    BY <1>1 DEF Levels!Most, Levels!Least
  <1>3. p \in Nat /\ loss \in Int /\ gain \in Int /\ price \in Nat /\ mark \in Nat
    BY DEF NumbersInv, ExitsInv
  <1>4. /\ Levels!Below(sd) + off < p /\ Levels!Below(td) + off < p
        /\ Levels!Above(sd) - off > p /\ Levels!Above(td) - off > p
    BY <1>1, <1>2, <1>3 DEF Levels!Below, Levels!Above, Levels!Most, Levels!Least
  <1>5. /\ Levels!Below(sd) \in Int /\ Levels!Below(td) \in Int
        /\ Levels!Above(sd) \in Int /\ Levels!Above(td) \in Int
    BY LevelNumbers
  <1>6. QED
    BY <1>1, <1>3, <1>4, <1>5 DEF ExitsInv

LEMMA NothingDue ==
  ASSUME LevelInv
  PROVE  Levels!NoExitIsDue
  <1> DEFINE off == Levels!OffGrid(tick)
             least == Levels!Most(Levels!Least(Levels!StopDistance, Levels!TargetDistance),
                                  mark \div 1000)
  <1>1. entering.side \in {"long", "short"} /\ price \in Nat /\ mark \in Nat /\ seen \in Nat
    BY PlanNumbers DEF LevelInv, NumbersInv
  <1>2. ASSUME Levels!Protected, off < least, NEW p \in {price, mark}
        PROVE  /\ entering.side = "long" => loss < p /\ p < gain
               /\ entering.side # "long" => gain < p /\ p < loss
    BY <1>1, <1>2, MarketIsBetween DEF LevelInv
  <1>3. ASSUME due # "none", off < least
        PROVE  seen \notin Levels!Least(price, mark) .. Levels!Most(price, mark)
    <2>1. Levels!Protected /\ due = Levels!Trigger(seen) /\ loss \in Int /\ gain \in Int
      BY <1>3 DEF LevelInv, Levels!Protected, ExitsInv
    <2>2. \/ entering.side = "long" /\ (seen <= loss \/ gain <= seen)
          \/ entering.side # "long" /\ (seen >= loss \/ gain >= seen)
      BY <1>3, <2>1 DEF Levels!Trigger, Levels!LocalExitLevels
    <2>3. \A p \in {price, mark} :
            /\ entering.side = "long" => loss < p /\ p < gain
            /\ entering.side # "long" => gain < p /\ p < loss
      BY <1>2, <1>3, <2>1
    <2>4. QED
      BY <1>1, <2>1, <2>2, <2>3 DEF Levels!Least, Levels!Most
  <1>4. QED
    BY <1>2, <1>3 DEF Levels!NoExitIsDue

LEMMA LossWithinBudget ==
  ASSUME LevelInv
  PROVE  Levels!LossIsBudgeted
  <1> SUFFICES ASSUME Levels!Protected, Levels!StopDistance >= mark \div 1000
               PROVE  quantity * Levels!Distance(price, loss) <=
                        entering.budget + Levels!OffGrid(step) * Levels!StopDistance
                          + quantity * (Levels!Distance(price, mark) + tick + Levels!OffGrid(tick))
    BY DEF Levels!LossIsBudgeted
  <1>1. NumbersInv /\ ExitsInv
    BY DEF LevelInv
  <1>2. PICK sd \in Nat, off \in Nat, q \in Nat, os \in Nat, b \in Nat, gap \in Nat, t \in Nat :
          /\ sd = Levels!StopDistance /\ off = Levels!OffGrid(tick) /\ q = quantity
          /\ os = Levels!OffGrid(step) /\ b = entering.budget
          /\ gap = Levels!Distance(price, mark) /\ t = tick
    <2>1. Levels!Distance(price, mark) \in Nat /\ entering.budget \in Nat /\ tick \in Nat
      BY <1>1, PlanNumbers, LevelsAssumption DEF NumbersInv, ExitsInv, Levels!Distance
    <2>2. QED
      BY <1>1, <2>1, LevelNumbers DEF NumbersInv, ExitsInv
  <1>3. /\ price \in Nat /\ mark \in Nat /\ loss \in Int
        /\ mark \div 1000 \in Nat /\ sd >= mark \div 1000
    BY <1>1, <1>2 DEF NumbersInv, ExitsInv
  <1>4. PICK away \in Nat : away = Levels!Distance(price, loss) /\ away <= sd + gap + t + off
    <2>1. Levels!Below(sd) = Levels!Least(price, mark) - sd
      BY <1>3 DEF Levels!Below, Levels!Most
    <2>2. Levels!Above(sd) = Levels!Most(price, mark) + sd
      BY <1>3 DEF Levels!Above, Levels!Most
    <2>3. CASE entering.side = "long"
      <3>1. /\ (Levels!Least(price, mark) - sd) - t - off <= loss
            /\ loss <= (Levels!Least(price, mark) - sd) + off
        BY <1>1, <1>2, <2>1, <2>3 DEF ExitsInv
      <3>2. QED
        BY <1>2, <1>3, <3>1 DEF Levels!Least, Levels!Distance
    <2>4. CASE entering.side = "short"
      <3>1. /\ (Levels!Most(price, mark) + sd) - off <= loss
            /\ loss <= (Levels!Most(price, mark) + sd) + t + off
        BY <1>1, <1>2, <2>2, <2>4 DEF ExitsInv
      <3>2. PICK top \in Nat : /\ top = Levels!Most(price, mark)
                              /\ price <= top /\ top <= price + gap
        BY <1>2, <1>3 DEF Levels!Most, Levels!Distance
      <3>3. (top + sd) - off <= loss /\ loss <= (top + sd) + t + off
        BY <3>1, <3>2
      <3>4. loss - price <= sd + gap + t + off /\ price - loss <= sd + gap + t + off
        BY <1>3, <3>2, <3>3
      <3>5. /\ Levels!Distance(price, loss) \in Nat
            /\ Levels!Distance(price, loss) <= sd + gap + t + off
        BY <1>3, <3>4 DEF Levels!Distance
      <3>6. QED
        BY <3>5
    <2>5. QED
      BY <1>1, <2>3, <2>4, PlanNumbers DEF NumbersInv
  <1>5. q * sd <= b + os * sd
    BY <1>1, <1>2 DEF NumbersInv
  <1>6. q * away <= q * sd + q * (gap + t + off)
    <2>1. PICK z \in Nat : away + z = sd + (gap + t + off)
      <3>1. (sd + (gap + t + off)) - away \in Nat
        BY <1>4
      <3>2. away + ((sd + (gap + t + off)) - away) = sd + (gap + t + off)
        OBVIOUS
      <3>3. QED
        BY <3>1, <3>2
    <2>2. q * away + q * z = q * sd + q * (gap + t + off) /\ q * z \in Nat
      <3>1. q * (away + z) = q * away + q * z
        OBVIOUS
      <3>2. q * (sd + (gap + t + off)) = q * sd + q * (gap + t + off)
        OBVIOUS
      <3>3. QED
        BY <2>1, <3>1, <3>2
    <2>3. QED
      BY <2>2
  <1>7. q * away <= b + os * sd + q * (gap + t + off)
    <2>1. PICK l \in Int, r \in Int, k \in Int, x \in Int :
            l = q * away /\ r = q * sd /\ k = q * (gap + t + off) /\ x = os * sd
      OBVIOUS
    <2>2. QED
      BY <1>5, <1>6, <2>1
  <1>8. QED
    BY <1>2, <1>4, <1>7

\* So do the levels.
LEMMA LevelInvHolds == AnalysisSpec => []LevelInv
  <1>1. AnalysisInit => LevelInv
    BY PartsStart, LevelStart
  <1>2. LevelInv /\ [AnalysisNext]_allVars => LevelInv'
    <2> SUFFICES ASSUME LevelInv, [AnalysisNext]_allVars PROVE LevelInv'
      OBVIOUS
    <2>1. CASE Levels!Next
      BY <2>1, SizeEntryStep, EnterStep, ProtectStep, SynchroniseStep DEF Levels!Next
    <2>2. CASE UNCHANGED levelVars
      BY <2>2 DEF levelVars, LevelInv, NumbersInv, ExitsInv, Levels!Protected, Levels!Trigger,
         Levels!LocalExitLevels, Levels!StopDistance, Levels!TargetDistance, Levels!Below,
         Levels!Above
    <2>3. QED
      BY <2>1, <2>2, PartsStep
  <1>3. QED
    BY <1>1, <1>2, PTL DEF AnalysisSpec

\* No exit of an execution is due where the market was, and one at its stop
\* costs the plan's budget, for any plans, prices, steps and ticks.
THEOREM ExitsAreDerived == AnalysisSpec => []ExitsFollowMarket
  <1>1. LevelInv => ExitsFollowMarket
    BY NothingDue, LossWithinBudget DEF ExitsFollowMarket, Levels!ExitsFollowMarket
  <1>2. QED
    BY <1>1, LevelInvHolds, PTL

-----------------------------------------------------------------------------
(* The windows of a backtest. *)

\* A scan that keeps the best so far is defined for every number of runs, and
\* ends with one of them.
Scan(runs, n, b) ==
  b = [k \in 1..n |-> IF k = 1 THEN 1
                      ELSE IF Backtest!Better(runs[k], runs[b[k - 1]]) THEN k ELSE b[k - 1]]

LEMMA ScanExists ==
  ASSUME NEW runs, NEW n \in Nat
  PROVE  \E b \in [1..n -> 1..n] : Scan(runs, n, b)
  <1> DEFINE Short == {m \in Nat : ~ \E b \in [1..m -> 1..m] : Scan(runs, m, b)}
  <1> SUFFICES ASSUME Short # {} PROVE FALSE
    OBVIOUS
  <1>1. PICK m \in Short : \A l \in Short : m <= l
    BY LeastOfNats
  <1>2. CASE m = 0
    <2>1. [k \in 1..0 |-> 1] \in [1..0 -> 1..0] /\ Scan(runs, 0, [k \in 1..0 |-> 1])
      BY DEF Scan
    <2>2. QED
      BY <1>1, <1>2, <2>1
  <1>3. CASE m = 1
    <2>1. [k \in 1..1 |-> 1] \in [1..1 -> 1..1] /\ Scan(runs, 1, [k \in 1..1 |-> 1])
      BY DEF Scan
    <2>2. QED
      BY <1>1, <1>3, <2>1
  <1>4. CASE m > 1
    <2>1. m - 1 \in Nat /\ m - 1 \notin Short
      <3>1. m - 1 \in Nat /\ ~(m <= m - 1)
        BY <1>4
      <3>2. QED
        BY <1>1, <3>1, Zenon
    <2>2. PICK b \in [1..(m - 1) -> 1..(m - 1)] : Scan(runs, m - 1, b)
      BY <2>1
    <2> DEFINE c == [k \in 1..m |->
                      IF k < m THEN b[k]
                      ELSE IF Backtest!Better(runs[m], runs[b[m - 1]]) THEN m ELSE b[m - 1]]
    <2>3. m - 1 \in 1..(m - 1) /\ b[m - 1] \in 1..(m - 1)
      BY <1>4, <2>1
    <2>4. c \in [1..m -> 1..m]
      BY <1>4, <2>3
    <2>5. ASSUME NEW k \in 1..m
          PROVE  c[k] = IF k = 1 THEN 1
                        ELSE IF Backtest!Better(runs[k], runs[c[k - 1]]) THEN k ELSE c[k - 1]
      <3>1. CASE k < m
        <4>1. k \in 1..(m - 1) /\ c[k] = b[k] /\ (k # 1 => c[k - 1] = b[k - 1])
          BY <1>4, <3>1
        <4>2. b[k] = IF k = 1 THEN 1
                     ELSE IF Backtest!Better(runs[k], runs[b[k - 1]]) THEN k ELSE b[k - 1]
          BY <2>2, <4>1 DEF Scan
        <4>3. QED
          BY <4>1, <4>2
      <3>2. CASE k = m
        <4>1. m # 1 /\ c[m - 1] = b[m - 1]
          BY <1>4
        <4>2. QED
          BY <3>2, <4>1
      <3>3. QED
        BY <3>1, <3>2
    <2>6. Scan(runs, m, c)
      BY <2>5 DEF Scan
    <2>7. QED
      BY <1>1, <2>4, <2>6
  <1>5. QED
    BY <1>1, <1>2, <1>3, <1>4

LEMMA ScanEndsInRange ==
  ASSUME NEW runs, NEW n \in Nat \ {0}, NEW b, Scan(runs, n, b)
  PROVE  b[n] \in 1..n
  <1> DEFINE Out == {k \in 1..n : b[k] \notin 1..k}
  <1> SUFFICES Out = {}
    OBVIOUS
  <1> SUFFICES ASSUME Out # {} PROVE FALSE
    OBVIOUS
  <1>1. PICK k \in Out : \A l \in Out : k <= l
    <2>1. Out \in SUBSET Nat
      OBVIOUS
    <2>2. QED
      BY <2>1, LeastOfNats, Zenon
  <1>2. b[k] = IF k = 1 THEN 1
               ELSE IF Backtest!Better(runs[k], runs[b[k - 1]]) THEN k ELSE b[k - 1]
    BY DEF Scan
  <1>3. k # 1 => k - 1 \in 1..n /\ k - 1 \notin Out
    BY <1>1
  <1>4. QED
    BY <1>1, <1>2, <1>3

\* The parameters a training part leads to are one of the candidates.
LEMMA BestIsCandidate ==
  ASSUME NEW c
  PROVE  Backtest!Best(c) \in DOMAIN Parameters
  <1> DEFINE runs == [k \in DOMAIN Parameters |->
                        Backtest!Strategy(c, Parameters[k], Backtest!Start, 1)]
  <1>1. PICK n \in Nat \ {0} : n = Len(Parameters) /\ DOMAIN Parameters = 1..n
    BY BacktestAssumption
  <1>2. Backtest!Best(c) = (CHOOSE b : Scan(runs, n, b))[n]
    BY <1>1, Zenon DEF Backtest!Best, Scan
  <1>3. Scan(runs, n, CHOOSE b : Scan(runs, n, b))
    BY ScanExists
  <1>4. QED
    BY <1>1, <1>2, <1>3, ScanEndsInRange

\* A finite set of numbers that is not empty has a greatest one.
LEMMA LeastPart ==
  ASSUME NEW S, IsFiniteSet(S), S # {}, NEW f \in [S -> SUBSET S]
  PROVE  \E n \in S : \A m \in S : f[m] \subseteq f[n] => f[m] = f[n]
  <1>1. PICK T : T = {f[n] : n \in S}
    OBVIOUS
  <1>2. (T \subseteq SUBSET S) /\ T # {}
    BY <1>1
  <1>3. PICK s \in T : \A r \in T : r \subseteq s => r = s
    BY <1>2, LeastSubset
  <1>4. PICK n \in S : s = f[n]
    BY <1>1
  <1>5. \A m \in S : f[m] \in T
    BY <1>1
  <1>6. \A m \in S : f[m] \subseteq s => f[m] = s
    BY <1>3, <1>5
  <1>7. QED
    BY <1>4, <1>6

LEMMA GreatestOfNats ==
  ASSUME NEW S, IsFiniteSet(S), S # {}
  PROVE  S \subseteq Nat => \E n \in S : \A m \in S : m <= n
  <1>1. PICK f \in [S -> SUBSET S] : f = [n \in S |-> {m \in S : n <= m}]
    OBVIOUS
  <1>2. PICK n \in S : \A m \in S : f[m] \subseteq f[n] => f[m] = f[n]
    BY LeastPart
  <1>3. ASSUME S \subseteq Nat, NEW m \in S, n < m
        PROVE  FALSE
    <2>1. n \in Nat /\ m \in Nat /\ \A x \in S : x \in Nat
      BY <1>3
    <2>2. /\ f[m] = {x \in S : m <= x}
          /\ f[n] = {x \in S : n <= x}
      BY <1>1, Zenon
    <2>3. \A x \in S : m <= x => n <= x
      BY <1>3, <2>1
    <2>4. n <= n /\ ~(m <= n)
      BY <1>3, <2>1
    <2>5. QED
      BY <1>2, <2>2, <2>3, <2>4
  <1>4. QED
    BY <1>3

LEMMA MemberOfSeq ==
  ASSUME NEW S, NEW s \in Seq(S), NEW i \in DOMAIN s
  PROVE  s[i] \in S
  OBVIOUS

LEMMA CandidateTypes ==
  ASSUME NEW k \in DOMAIN Parameters
  PROVE  Parameters[k].slow \in Nat
  <1>1. Parameters \in Seq([fast : Nat, slow : Nat, entry : 0 .. 100, exit : 0 .. 100])
    BY BacktestAssumption
  <1>2. Parameters[k] \in [fast : Nat, slow : Nat, entry : 0 .. 100, exit : 0 .. 100]
    BY <1>1, MemberOfSeq, Zenon
  <1>3. QED
    BY <1>2

\* The warm-up is as long as the slowest indicator of any candidate needs.
LEMMA WarmUpIsEnough ==
  ASSUME NEW k \in DOMAIN Parameters
  PROVE  /\ Backtest!MaxWarmUp \in Nat /\ Backtest!Ready(Parameters[k]) \in Nat
         /\ Backtest!Ready(Parameters[k]) <= Backtest!MaxWarmUp + 1
  <1> DEFINE slows == {Parameters[j].slow : j \in DOMAIN Parameters}
             longest == CHOOSE n \in slows : \A j \in DOMAIN Parameters : Parameters[j].slow <= n
  <1>1. PICK n \in Nat \ {0} : n = Len(Parameters) /\ DOMAIN Parameters = 1..n
    BY BacktestAssumption
  <1>2. \A j \in DOMAIN Parameters : Parameters[j].slow \in Nat
    BY CandidateTypes
  <1>3. IsFiniteSet(slows)
    <2>1. IsFiniteSet(DOMAIN Parameters)
      BY <1>1, FS_Interval
    <2> DEFINE f == [j \in DOMAIN Parameters |-> Parameters[j].slow]
    <2>2. f \in Surjection(DOMAIN Parameters, slows)
      BY DEF Surjection
    <2>3. QED
      BY <2>1, <2>2, FS_Surjection
  <1>4. slows \in SUBSET Nat /\ slows # {}
    BY <1>2
  <1>5. \E m \in slows : \A l \in slows : l <= m
    BY <1>3, <1>4, GreatestOfNats, Zenon
  <1>6. longest \in Nat /\ Parameters[k].slow <= longest
    BY <1>4, <1>5
  <1>7. Backtest!MaxWarmUp = IF longest > RsiPeriod + 1 THEN longest ELSE RsiPeriod + 1
    BY Zenon DEF Backtest!MaxWarmUp
  <1>8. PICK l \in Nat, r \in Nat, s \in Nat :
          l = longest /\ r = RsiPeriod /\ s = Parameters[k].slow /\ s <= l
    BY <1>2, <1>6, BacktestAssumption
  <1>9. Backtest!Ready(Parameters[k]) = IF s >= r THEN s + 1 ELSE r + 1
    BY <1>8 DEF Backtest!Ready
  <1>10. Backtest!MaxWarmUp = IF l > r + 1 THEN l ELSE r + 1
    BY <1>7, <1>8
  <1>11. QED
    BY <1>8, <1>9, <1>10

\* What a window remembers of how it was chosen and warmed up.
WindowInv(w) ==
  /\ w.best \in DOMAIN Parameters /\ w.start \in Nat
  /\ w.from = Backtest!WarmUpStart(w.start)

WindowsInv ==
  /\ test.at \in Nat
  /\ \E W : test.windows \in Seq(W) /\ \A w \in W : WindowInv(w)

LEMMA WindowsStep ==
  ASSUME WindowsInv, Backtest!Next
  PROVE  WindowsInv'
  <1>1. CASE UNCHANGED test
    BY <1>1 DEF WindowsInv
  <1>2. CASE Backtest!WalkForward
    <2> DEFINE w == Backtest!Window(loaded, test.at, test.capital)
    <2>1. test'.at = test.at + Testing /\ test'.windows = Append(test.windows, w)
      BY <1>2 DEF Backtest!WalkForward
    <2>2. WindowInv(w)
      <3>1. /\ w.best = Backtest!Best(Backtest!TrainingRows(loaded, test.at))
            /\ w.start = test.at /\ w.from = Backtest!WarmUpStart(test.at)
        BY DEF Backtest!Window
      <3>2. QED
        BY <3>1, BestIsCandidate DEF WindowInv, WindowsInv
    <2>3. PICK W : test.windows \in Seq(W) /\ \A v \in W : WindowInv(v)
      BY DEF WindowsInv
    <2> HIDE DEF w
    <2>4. Append(test.windows, w) \in Seq(W \cup {w})
      BY <2>3
    <2>5. test'.at \in Nat
      BY <2>1, BacktestAssumption DEF WindowsInv
    <2>6. QED
      BY <2>1, <2>2, <2>3, <2>4, <2>5 DEF WindowsInv, WindowInv
  <1>3. QED
    BY <1>1, <1>2 DEF Backtest!Next, Backtest!Load, Backtest!Finish

\* The windows are those of candidates, whatever part is looked at.
LEMMA WindowsInvHolds == AnalysisSpec => []WindowsInv
  <1>1. AnalysisInit => WindowsInv
    <2>1. Backtest!Init => WindowsInv
      <3>1. <<>> \in Seq({})
        OBVIOUS
      <3>2. QED
        BY <3>1 DEF Backtest!Init, Backtest!NoTest, WindowsInv
    <2>2. QED
      BY <2>1, PartsStart
  <1>2. WindowsInv /\ [AnalysisNext]_allVars => WindowsInv'
    <2> SUFFICES ASSUME WindowsInv, [AnalysisNext]_allVars PROVE WindowsInv'
      OBVIOUS
    <2>1. CASE Backtest!Next
      BY <2>1, WindowsStep
    <2>2. CASE UNCHANGED backtestVars
      BY <2>2 DEF backtestVars, WindowsInv, WindowInv
    <2>3. QED
      BY <2>1, <2>2, PartsStep
  <1>3. QED
    BY <1>1, <1>2, PTL DEF AnalysisSpec

\* The first test candle of every window is judged whenever its training part
\* is long enough for the parameters, for any candidates, windows and closes.
THEOREM WarmUpReachesTest == AnalysisSpec => []FirstTestCandleIsJudged
  <1>1. ASSUME WindowsInv
        PROVE  FirstTestCandleIsJudged
    <2> SUFFICES ASSUME NEW k \in DOMAIN test.windows, NEW w, w = test.windows[k],
                        w.start + Training >= Backtest!Ready(Parameters[w.best]) - 1
                 PROVE  w.start + Training - w.from + 1 >= Backtest!Ready(Parameters[w.best])
      BY DEF FirstTestCandleIsJudged, Backtest!FirstTestCandleIsJudged
    <2>1. WindowInv(w)
      BY <1>1 DEF WindowsInv
    <2>2. PICK max \in Nat, ready \in Nat :
            /\ max = Backtest!MaxWarmUp /\ ready = Backtest!Ready(Parameters[w.best])
            /\ ready <= max + 1
      BY <2>1, WarmUpIsEnough DEF WindowInv
    <2>3. PICK s \in Nat, t \in Nat : s = w.start /\ t = Training
      BY <2>1, BacktestAssumption DEF WindowInv
    <2>4. w.from = IF s + t > max THEN s + t - max ELSE 0
      BY <2>1, <2>2, <2>3 DEF WindowInv, Backtest!WarmUpStart
    <2>5. QED
      BY <2>2, <2>3, <2>4
  <1>2. QED
    BY <1>1, WindowsInvHolds, PTL

-----------------------------------------------------------------------------
(* What a recursion over an interval computes. *)

Continues(a, n, S) == \A i \in a..(n - 1) : i \in S => i + 1 \in S

LEMMA UpTo ==
  \A a, n \in Int : \A S : a \in S /\ Continues(a, n, S) => a..n \subseteq S
  <1> SUFFICES ASSUME NEW a \in Int, NEW n \in Int, NEW S,
                      a \in S, \A i \in a..(n - 1) : i \in S => i + 1 \in S
               PROVE  a..n \subseteq S
    BY DEF Continues
  <1> DEFINE Gone == {k \in Nat : a + k \in a..n /\ a + k \notin S}
  <1> SUFFICES ASSUME Gone # {} PROVE FALSE
    <2>1. SUFFICES ASSUME NEW i \in a..n, i \notin S PROVE FALSE
      OBVIOUS
    <2>2. PICK k \in Nat : i = a + k
      BY i - a \in Nat
    <2>3. k \in Gone
      BY <2>1, <2>2
    <2>4. QED
      BY <2>3
  <1>1. PICK k \in Gone : \A l \in Gone : k <= l
    BY LeastOfNats
  <1>2. CASE k = 0
    BY <1>1, <1>2
  <1>3. CASE k # 0
    <2>1. k - 1 \in Nat /\ a + (k - 1) \in a..(n - 1)
      BY <1>1, <1>3
    <2>2. k - 1 \notin Gone
      BY <1>1, <2>1
    <2>3. a + (k - 1) \in S
      BY <2>1, <2>2
    <2>4. (a + (k - 1)) + 1 \in S
      BY <2>1, <2>3
    <2>5. QED
      BY <1>1, <2>1, <2>4
  <1>4. QED
    BY <1>2, <1>3

\* What f computes, starting with x and going on by g.
Computes(a, n, x, g, f) == \A i \in a..n : f[i] = IF i = a THEN x ELSE g[i][f[i - 1]]

Computable(a, n, V, x, g) == \E f \in [a..n -> V] : Computes(a, n, x, g, f)

LEMMA Recursion ==
  \A a, n \in Int : \A V : \A x \in V : \A g :
    g \in [a..n -> [V -> V]] => Computable(a, n, V, x, g)
  <1> SUFFICES ASSUME NEW a \in Int, NEW n \in Int, NEW V, NEW x \in V,
                      NEW g \in [a..n -> [V -> V]]
               PROVE  \E f \in [a..n -> V] : Computes(a, n, x, g, f)
    BY DEF Computable
  <1> USE DEF Computes
  <1> DEFINE Computed(m) == \E f \in [a..m -> V] :
                              \A i \in a..m : f[i] = IF i = a THEN x ELSE g[i][f[i - 1]]
             S == {m \in a..n : Computed(m)}
  <1>1. CASE a > n
    <2>1. [i \in a..n |-> x] \in [a..n -> V] /\ a..n = {}
      BY <1>1
    <2>2. QED
      BY <2>1
  <1>2. CASE a <= n
    <2>1. a \in S
      <3>1. a..a = {a} /\ a \in a..n
        BY <1>2
      <3>2. [i \in a..a |-> x] \in [a..a -> V]
        OBVIOUS
      <3>3. QED
        BY <3>1, <3>2
    <2>2. ASSUME NEW m \in a..(n - 1), m \in S
          PROVE  m + 1 \in S
      <3>1. PICK f \in [a..m -> V] :
              \A i \in a..m : f[i] = IF i = a THEN x ELSE g[i][f[i - 1]]
        BY <2>2
      <3>2. PICK h : h = [i \in a..(m + 1) |-> IF i = m + 1 THEN g[m + 1][f[m]] ELSE f[i]]
        OBVIOUS
      <3>3. m \in a..m /\ m + 1 \in a..n /\ m + 1 # a
        BY <2>2
      <3>4. \A i \in a..(m + 1) : i # m + 1 => i \in a..m
        BY <2>2
      <3>5. h \in [a..(m + 1) -> V]
        BY <3>1, <3>2, <3>3, <3>4
      <3>6. \A i \in a..(m + 1) : h[i] = IF i = m + 1 THEN g[m + 1][f[m]] ELSE f[i]
        BY <3>2
      <3>7. \A i \in a..m : i # a => i - 1 \in a..m /\ i \in a..(m + 1) /\ i # m + 1
                                     /\ i - 1 \in a..(m + 1) /\ i - 1 # m + 1
        BY <2>2
      <3>8. h[m] = f[m] /\ h[a] = x /\ m + 1 - 1 = m
        BY <2>2, <3>1, <3>3, <3>6
      <3>9. ASSUME NEW i \in a..(m + 1)
            PROVE  h[i] = IF i = a THEN x ELSE g[i][h[i - 1]]
        <4>1. CASE i = m + 1
          BY <3>3, <3>6, <3>8, <4>1
        <4>2. CASE i = a
          BY <3>8, <4>2
        <4>3. CASE i # m + 1 /\ i # a
          <5>1. i \in a..m /\ h[i] = f[i] /\ h[i - 1] = f[i - 1]
            BY <3>4, <3>6, <3>7, <4>3
          <5>2. f[i] = g[i][f[i - 1]]
            BY <3>1, <4>3, <5>1
          <5>3. QED
            BY <4>3, <5>1, <5>2
        <4>4. QED
          BY <4>1, <4>2, <4>3
      <3>10. QED
        BY <3>3, <3>5, <3>9
    <2>3. a..n \subseteq S
      <3> HIDE DEF S
      <3>1. Continues(a, n, S)
        BY <2>2 DEF Continues
      <3>2. QED
        BY <2>1, <3>1, UpTo
    <2>4. QED
      BY <1>2, <2>3
  <1>3. QED
    BY <1>1, <1>2

-----------------------------------------------------------------------------
(* The figures of a backtest. *)

\* Capital, and what a trade returned of it.
Money == Int \X Int

LEMMA MoneyParts ==
  \A a \in Money : a[1] \in Int /\ a[2] \in Int /\ a = <<a[1], a[2]>> /\ a # <<>>
  BY DEF Money

LEMMA MoneyTypes ==
  /\ Backtest!Start \in Money
  /\ \A a, b \in Money : Backtest!Times(a, b) \in Money /\ Backtest!Over(a, b) \in Money
  BY DEF Money, Backtest!Start, Backtest!Times, Backtest!Over

LEMMA TimesRules ==
  /\ \A a \in Money : Backtest!Times(a, Backtest!Start) = a /\ Backtest!Times(Backtest!Start, a) = a
  /\ \A a, b, c \in Money :
       Backtest!Times(a, Backtest!Times(b, c)) = Backtest!Times(Backtest!Times(a, b), c)
  /\ \A a, b \in Money : Backtest!Times(a, Backtest!Over(b, a)) = b
  BY MoneyParts DEF Backtest!Start, Backtest!Times, Backtest!Over

LEMMA AboveOrders ==
  \A a, b, c \in Money : ~Backtest!Above(a, b) /\ ~Backtest!Above(b, c) => ~Backtest!Above(a, c)
  BY MoneyParts DEF Backtest!Above

\* What is below a peak that is not below 1 is not above itself over the peak.
LEMMA OverPeak ==
  \A p, c \in Money : ~Backtest!Above(Backtest!Start, p)
                        => ~Backtest!Above(Backtest!Over(c, p), c)
  BY MoneyParts DEF Backtest!Above, Backtest!Start, Backtest!Over

\* The product of the trades, trade by trade.
Products(trades, p) ==
  p = [i \in 0..Len(trades) |-> IF i = 0 THEN Backtest!Start
                                ELSE Backtest!Times(p[i - 1], trades[i])]

Follows(trades, n, p) ==
  /\ p \in [0..n -> Money] /\ p[0] = Backtest!Start
  /\ \A i \in 1..n : p[i] = Backtest!Times(p[i - 1], trades[i])

LEMMA ProductIs ==
  ASSUME NEW trades \in Seq(Money)
  PROVE  \E p : Follows(trades, Len(trades), p) /\ Backtest!Product(trades) = p[Len(trades)]
  <1>1. PICK n \in Nat : n = Len(trades)
    OBVIOUS
  <1>2. \A i \in 1..n : trades[i] \in Money
    BY <1>1
  <1>3. PICK g \in [0..n -> [Money -> Money]] :
          \A i \in 1..n, v \in Money : g[i][v] = Backtest!Times(v, trades[i])
    <2> DEFINE g == [i \in 0..n |-> [v \in Money |->
                                       IF i = 0 THEN v ELSE Backtest!Times(v, trades[i])]]
    <2>1. g \in [0..n -> [Money -> Money]]
      <3>1. \A i \in 0..n : i # 0 => i \in 1..n
        OBVIOUS
      <3>2. QED
        BY <1>2, <3>1, MoneyTypes
    <2>2. \A i \in 1..n, v \in Money : g[i][v] = Backtest!Times(v, trades[i])
      OBVIOUS
    <2> HIDE DEF g
    <2>3. QED
      BY <2>1, <2>2
  <1>4. Computable(0, n, Money, Backtest!Start, g)
    <2>1. 0 \in Int /\ n \in Int /\ Backtest!Start \in Money
      BY MoneyTypes
    <2>2. QED
      BY <2>1, Recursion, Zenon
  <1>5. PICK f \in [0..n -> Money] : Computes(0, n, Backtest!Start, g, f)
    BY <1>4, Zenon DEF Computable
  <1>6. \A i \in 0..n : f[i] = IF i = 0 THEN Backtest!Start ELSE Backtest!Times(f[i - 1], trades[i])
    <2>1. \A i \in 0..n : i # 0 => i \in 1..n /\ i - 1 \in 0..n /\ f[i - 1] \in Money
      OBVIOUS
    <2>2. QED
      BY <1>3, <1>5, <2>1 DEF Computes
  <1>7. Products(trades, f)
    BY <1>1, <1>6 DEF Products
  <1>8. PICK p : p = (CHOOSE q : Products(trades, q)) /\ Products(trades, p)
    BY <1>7
  <1>9. Backtest!Product(trades) = p[n]
    BY <1>1, <1>8, Zenon DEF Backtest!Product, Products
  <1>10. p = [i \in 0..n |-> IF i = 0 THEN Backtest!Start ELSE Backtest!Times(p[i - 1], trades[i])]
    BY <1>1, <1>8 DEF Products
  <1>11. 0 \in 0..n /\ \A i \in 1..n : i \in 0..n /\ i # 0
    OBVIOUS
  <1>12. p[0] = Backtest!Start /\ \A i \in 1..n : p[i] = Backtest!Times(p[i - 1], trades[i])
    BY <1>10, <1>11
  <1>13. \A i \in 0..n : p[i] \in Money
    <2>1. PICK S : S = {i \in 0..n : p[i] \in Money}
      OBVIOUS
    <2>2. 0 \in S
      BY <1>11, <1>12, <2>1, MoneyTypes
    <2>3. ASSUME NEW i \in 0..(n - 1), i \in S
          PROVE  i + 1 \in S
      <3>1. i + 1 \in 0..n /\ i + 1 \in 1..n /\ i + 1 - 1 = i /\ p[i] \in Money
        BY <2>1, <2>3
      <3>2. p[i + 1] = Backtest!Times(p[i], trades[i + 1]) /\ trades[i + 1] \in Money
        BY <1>2, <1>12, <3>1
      <3>3. QED
        BY <2>1, <3>1, <3>2, MoneyTypes
    <2>4. 0..n \subseteq S
      <3>1. Continues(0, n, S) /\ 0 \in Int /\ n \in Int
        BY <2>3 DEF Continues
      <3>2. QED
        BY <2>2, <3>1, UpTo, Zenon
    <2>5. QED
      BY <2>1, <2>4
  <1>14. p \in [0..n -> Money]
    BY <1>10, <1>13
  <1>15. QED
    BY <1>1, <1>9, <1>12, <1>14 DEF Follows

\* Trades that begin with others come to their product first.
LEMMA ProductGoesOn ==
  ASSUME NEW n \in Nat, NEW m \in Nat, n <= m, NEW s, NEW t, NEW p, NEW r,
         Follows(s, n, p), Follows(t, m, r), \A i \in 1..n : s[i] = t[i]
  PROVE  r[n] = p[n] /\ p[n] \in Money
  <1>1. PICK S : S = {i \in 0..n : r[i] = p[i]}
    OBVIOUS
  <1>2. 0 \in S
    BY <1>1 DEF Follows
  <1>3. ASSUME NEW i \in 0..(n - 1), i \in S
        PROVE  i + 1 \in S
    <2>1. i + 1 \in 1..n /\ i + 1 \in 1..m /\ i + 1 - 1 = i /\ r[i] = p[i] /\ i + 1 \in 0..n
      BY <1>1, <1>3
    <2>2. p[i + 1] = Backtest!Times(p[i], s[i + 1]) /\ r[i + 1] = Backtest!Times(r[i], t[i + 1])
      BY <2>1 DEF Follows
    <2>3. r[i + 1] = p[i + 1]
      BY <2>1, <2>2
    <2>4. QED
      BY <1>1, <2>1, <2>3
  <1>4. 0..n \subseteq S
    <2>1. Continues(0, n, S) /\ 0 \in Int /\ n \in Int
      BY <1>3 DEF Continues
    <2>2. QED
      BY <1>2, <2>1, UpTo, Zenon
  <1>5. QED
    BY <1>1, <1>4 DEF Follows

LEMMA ProductTypes ==
  /\ Backtest!Product(<<>>) = Backtest!Start
  /\ \A s \in Seq(Money) : Backtest!Product(s) \in Money
  <1>1. <<>> \in Seq(Money) /\ Len(<<>>) = 0
    OBVIOUS
  <1>2. Backtest!Product(<<>>) = Backtest!Start
    <2>1. PICK p : Follows(<<>>, Len(<<>>), p) /\ Backtest!Product(<<>>) = p[Len(<<>>)]
      BY <1>1, ProductIs
    <2>2. QED
      BY <1>1, <2>1 DEF Follows
  <1>3. ASSUME NEW s \in Seq(Money)
        PROVE  Backtest!Product(s) \in Money
    <2>1. PICK p : Follows(s, Len(s), p) /\ Backtest!Product(s) = p[Len(s)]
      BY ProductIs
    <2>2. QED
      BY <2>1 DEF Follows
  <1>4. QED
    BY <1>2, <1>3

LEMMA ProductOfMore ==
  ASSUME NEW s \in Seq(Money), NEW d \in Money
  PROVE  Backtest!Product(Append(s, d)) = Backtest!Times(Backtest!Product(s), d)
  <1>1. PICK t : t = Append(s, d)
    OBVIOUS
  <1>2. PICK n \in Nat : n = Len(s)
    OBVIOUS
  <1>3. t \in Seq(Money) /\ Len(t) = n + 1 /\ t[n + 1] = d /\ \A i \in 1..n : s[i] = t[i]
    BY <1>1, <1>2
  <1>4. PICK p : Follows(s, n, p) /\ Backtest!Product(s) = p[n]
    BY <1>2, ProductIs
  <1>5. PICK r : Follows(t, n + 1, r) /\ Backtest!Product(t) = r[n + 1]
    BY <1>3, ProductIs
  <1>6. r[n] = p[n]
    <2>1. n <= n + 1 /\ n + 1 \in Nat
      OBVIOUS
    <2>2. QED
      BY <1>3, <1>4, <1>5, <2>1, ProductGoesOn
  <1>7. r[n + 1] = Backtest!Times(r[n], t[n + 1])
    <2>1. n + 1 \in 1..(n + 1) /\ n + 1 - 1 = n
      OBVIOUS
    <2>2. QED
      BY <1>5, <2>1 DEF Follows
  <1>8. QED
    BY <1>1, <1>3, <1>4, <1>5, <1>6, <1>7

LEMMA ProductOfBoth ==
  ASSUME NEW s \in Seq(Money), NEW t \in Seq(Money)
  PROVE  Backtest!Product(s \o t) = Backtest!Times(Backtest!Product(s), Backtest!Product(t))
  <1>1. PICK u : u = s \o t
    OBVIOUS
  <1>2. PICK n \in Nat, m \in Nat : n = Len(s) /\ m = Len(t)
    OBVIOUS
  <1>3. /\ u \in Seq(Money) /\ Len(u) = n + m
        /\ \A i \in 1..n : s[i] = u[i]
        /\ \A i \in 1..m : u[n + i] = t[i]
    BY <1>1, <1>2
  <1>4. PICK p : Follows(s, n, p) /\ Backtest!Product(s) = p[n]
    BY <1>2, ProductIs
  <1>5. PICK q : Follows(t, m, q) /\ Backtest!Product(t) = q[m]
    BY <1>2, ProductIs
  <1>6. PICK r : Follows(u, n + m, r) /\ Backtest!Product(u) = r[n + m]
    BY <1>3, ProductIs
  <1>7. r[n] = p[n] /\ p[n] \in Money
    <2>1. n <= n + m /\ n + m \in Nat
      OBVIOUS
    <2>2. QED
      BY <1>3, <1>4, <1>6, <2>1, ProductGoesOn
  <1>8. PICK S : S = {i \in 0..m : r[n + i] = Backtest!Times(p[n], q[i])}
    OBVIOUS
  <1>9. 0 \in S
    <2>1. q[0] = Backtest!Start /\ 0 \in 0..m /\ n + 0 = n
      BY <1>5 DEF Follows
    <2>2. QED
      BY <1>7, <1>8, <2>1, TimesRules
  <1>10. ASSUME NEW i \in 0..(m - 1), i \in S
         PROVE  i + 1 \in S
    <2>1. PICK j \in 1..m : j = i + 1 /\ j - 1 = i /\ n + j \in 1..(n + m) /\ n + j - 1 = n + i
      BY <1>10
    <2>2. q[j] = Backtest!Times(q[i], t[j]) /\ r[n + j] = Backtest!Times(r[n + i], u[n + j])
      BY <1>5, <1>6, <2>1 DEF Follows
    <2>3. t[j] \in Money /\ q[i] \in Money /\ u[n + j] = t[j]
      <3>1. i \in 0..m
        BY <2>1
      <3>2. QED
        BY <1>2, <1>3, <1>5, <3>1 DEF Follows
    <2>4. r[n + j] = Backtest!Times(Backtest!Times(p[n], q[i]), t[j])
      BY <1>8, <1>10, <2>2, <2>3
    <2>5. r[n + j] = Backtest!Times(p[n], q[j])
      BY <1>7, <2>2, <2>3, <2>4, TimesRules
    <2>6. j \in 0..m
      OBVIOUS
    <2>7. QED
      BY <1>8, <2>1, <2>5, <2>6
  <1>11. 0..m \subseteq S
    <2>1. Continues(0, m, S) /\ 0 \in Int /\ m \in Int
      BY <1>10 DEF Continues
    <2>2. QED
      BY <1>9, <2>1, UpTo, Zenon
  <1>12. m \in S
    BY <1>11
  <1>13. QED
    BY <1>1, <1>4, <1>5, <1>6, <1>8, <1>12

\* The peak of an equity curve and the worst ratio to it, point by point.
Peak(v, point) == IF Backtest!Above(point, v.peak) THEN point ELSE v.peak
Deeper(v, point) ==
  [peak |-> Peak(v, point),
   ratio |-> IF Backtest!Above(v.ratio, Backtest!Over(point, Peak(v, point)))
             THEN Backtest!Over(point, Peak(v, point)) ELSE v.ratio]
WorstTo(curve, w) ==
  w = [i \in 1..Len(curve) |->
         IF i = 1 THEN [peak |-> curve[1], ratio |-> Backtest!Start]
         ELSE LET v == w[i - 1]
                  top == IF Backtest!Above(curve[i], v.peak) THEN curve[i] ELSE v.peak
                  below == Backtest!Over(curve[i], top)
              IN  [peak |-> top,
                   ratio |-> IF Backtest!Above(v.ratio, below) THEN below ELSE v.ratio]]

LEMMA DeeperTypes ==
  \A v \in [peak : Money, ratio : Money], point \in Money :
    Deeper(v, point) \in [peak : Money, ratio : Money]
  BY MoneyTypes DEF Deeper, Peak

LEMMA WorstIs ==
  ASSUME NEW curve \in Seq(Money), curve # <<>>
  PROVE  \E w : /\ Backtest!Worst(curve) = w[Len(curve)].ratio
                /\ w[1] = [peak |-> curve[1], ratio |-> Backtest!Start]
                /\ \A i \in 2..Len(curve) : w[i] = Deeper(w[i - 1], curve[i])
  <1>1. PICK n \in Nat \ {0} : n = Len(curve)
    OBVIOUS
  <1>2. \A i \in 1..n : curve[i] \in Money
    BY <1>1
  <1>3. PICK V : V = [peak : Money, ratio : Money]
    OBVIOUS
  <1>4. PICK x \in V : x = [peak |-> curve[1], ratio |-> Backtest!Start]
    <2>1. 1 \in 1..n
      OBVIOUS
    <2>2. QED
      BY <1>2, <1>3, <2>1, MoneyTypes
  <1>5. PICK g \in [1..n -> [V -> V]] : \A i \in 1..n, v \in V : g[i][v] = Deeper(v, curve[i])
    <2> DEFINE g == [i \in 1..n |-> [v \in V |-> Deeper(v, curve[i])]]
    <2>1. g \in [1..n -> [V -> V]]
      BY <1>2, <1>3, DeeperTypes
    <2>2. \A i \in 1..n, v \in V : g[i][v] = Deeper(v, curve[i])
      OBVIOUS
    <2> HIDE DEF g
    <2>3. QED
      BY <2>1, <2>2
  <1>6. Computable(1, n, V, x, g)
    <2>1. 1 \in Int /\ n \in Int
      OBVIOUS
    <2>2. QED
      BY <2>1, Recursion, Zenon
  <1>7. PICK f \in [1..n -> V] : Computes(1, n, x, g, f)
    BY <1>6, Zenon DEF Computable
  <1>8. \A i \in 1..n : f[i] = IF i = 1 THEN x ELSE Deeper(f[i - 1], curve[i])
    <2>1. \A i \in 1..n : i # 1 => i - 1 \in 1..n /\ f[i - 1] \in V
      OBVIOUS
    <2>2. QED
      BY <1>5, <1>7, <2>1 DEF Computes
  <1>9. WorstTo(curve, f)
    <2>1. f = [i \in 1..n |-> IF i = 1 THEN x ELSE Deeper(f[i - 1], curve[i])]
      BY <1>8
    <2>2. QED
      BY <1>1, <1>4, <2>1, Zenon DEF WorstTo, Deeper, Peak
  <1>10. PICK w : w = (CHOOSE q : WorstTo(curve, q)) /\ WorstTo(curve, w)
    BY <1>9
  <1>11. Backtest!Worst(curve) = w[n].ratio
    BY <1>1, <1>10, Zenon DEF Backtest!Worst, WorstTo
  <1>12. w = [i \in 1..n |-> IF i = 1 THEN x ELSE Deeper(w[i - 1], curve[i])]
    BY <1>1, <1>4, <1>10, Zenon DEF WorstTo, Deeper, Peak
  <1>13. 1 \in 1..n /\ \A i \in 2..n : i \in 1..n /\ i # 1
    OBVIOUS
  <1>14. QED
    BY <1>1, <1>4, <1>11, <1>12, <1>13

\* The drawdown of a curve that starts at 1 is no smaller than the loss at its
\* end.
LEMMA DrawdownCoversLoss ==
  ASSUME NEW curve \in Seq(Money), curve # <<>>, curve[1] = Backtest!Start
  PROVE  ~Backtest!Above(Backtest!Worst(curve), curve[Len(curve)])
  <1>1. PICK n \in Nat \ {0} : n = Len(curve)
    OBVIOUS
  <1>2. \A i \in 1..n : curve[i] \in Money
    BY <1>1
  <1>3. PICK w : /\ Backtest!Worst(curve) = w[n].ratio
                 /\ w[1] = [peak |-> curve[1], ratio |-> Backtest!Start]
                 /\ \A i \in 2..n : w[i] = Deeper(w[i - 1], curve[i])
    BY <1>1, WorstIs
  <1> DEFINE Deep(i) == /\ w[i] \in [peak : Money, ratio : Money]
                        /\ ~Backtest!Above(Backtest!Start, w[i].peak)
                        /\ ~Backtest!Above(w[i].ratio, curve[i])
  <1>4. PICK S : S = {i \in 1..n : Deep(i)}
    OBVIOUS
  <1>5. Deep(1)
    <2>1. ~Backtest!Above(Backtest!Start, Backtest!Start)
      BY DEF Backtest!Above, Backtest!Start
    <2>2. w[1].peak = Backtest!Start /\ w[1].ratio = Backtest!Start
      BY <1>3
    <2>3. w[1] \in [peak : Money, ratio : Money]
      BY <1>3, MoneyTypes
    <2>4. QED
      BY <2>1, <2>2, <2>3
  <1>6. ASSUME NEW i \in 1..(n - 1), i \in S
        PROVE  i + 1 \in S
    <2>1. PICK j \in 2..n : j = i + 1 /\ j - 1 = i
      BY <1>6
    <2>2. Deep(i)
      BY <1>4, <1>6
    <2>3. PICK v \in [peak : Money, ratio : Money], c \in Money :
            v = w[i] /\ c = curve[j]
      BY <1>2, <2>1, <2>2
    <2>4. w[j] = Deeper(v, c)
      BY <1>3, <2>1, <2>3
    <2>5. PICK p \in Money : p = Peak(v, c)
      BY DEF Peak
    <2>6. ~Backtest!Above(Backtest!Start, p)
      <3>1. CASE Backtest!Above(c, v.peak)
        <4>1. p = c /\ ~Backtest!Above(v.peak, c)
          BY <2>5, <3>1, MoneyParts DEF Peak, Backtest!Above
        <4>2. v.peak \in Money /\ Backtest!Start \in Money /\ ~Backtest!Above(Backtest!Start, v.peak)
          BY <2>2, <2>3, MoneyTypes
        <4>3. QED
          BY <4>1, <4>2, AboveOrders
      <3>2. CASE ~Backtest!Above(c, v.peak)
        BY <2>2, <2>3, <2>5, <3>2 DEF Peak
      <3>3. QED
        BY <3>1, <3>2
    <2>7. PICK o \in Money : o = Backtest!Over(c, p) /\ ~Backtest!Above(o, c)
      BY <2>6, OverPeak, MoneyTypes
    <2>8. /\ w[j].peak = p
          /\ w[j].ratio = IF Backtest!Above(v.ratio, o) THEN o ELSE v.ratio
      BY <2>4, <2>5, <2>7 DEF Deeper
    <2>9. ~Backtest!Above(w[j].ratio, c)
      BY <2>7, <2>8, AboveOrders
    <2>10. w[j] \in [peak : Money, ratio : Money]
      BY <2>4, DeeperTypes
    <2>11. QED
      BY <1>4, <2>1, <2>3, <2>6, <2>8, <2>9, <2>10
  <1>7. 1..n \subseteq S
    <2>1. Continues(1, n, S) /\ 1 \in Int /\ n \in Int
      BY <1>6 DEF Continues
    <2>2. 1 \in S
      BY <1>4, <1>5
    <2>3. QED
      BY <2>1, <2>2, UpTo, Zenon
  <1>8. Deep(n)
    BY <1>4, <1>7
  <1>9. QED
    BY <1>1, <1>3, <1>8

\* A simulation on its way: what it cost is what its trades made of the
\* capital, and without a position the curve ends with the money.
Runs == [money : Money, cost : Money \cup {<<>>}, trades : Seq(Money), curve : Seq(Money)]

Balanced(capital, s) ==
  /\ s \in Runs /\ s.curve # <<>> /\ s.curve[1] = capital
  /\ Backtest!Times(capital, Backtest!Product(s.trades)) = IF s.cost = <<>> THEN s.money ELSE s.cost
  /\ s.cost = <<>> => s.money = s.curve[Len(s.curve)]

\* The money after selling at a close, and the value of a position at one.
Cash(s, close) == <<s.money[1] + close, s.money[2] + 1>>
Worth(m, close) == <<m[1] + close, m[2]>>

\* A candle before its point of the curve.
AtCandle(s, close, enter, leave) ==
  CASE enter /\ s.cost = <<>> ->
         [s EXCEPT !.money = <<@[1] - close, @[2] + 1>>, !.cost = s.money]
    [] leave /\ s.cost # <<>> ->
         [s EXCEPT !.money = Cash(s, close), !.cost = <<>>,
                   !.trades = Append(@, Backtest!Over(Cash(s, close), s.cost))]
    [] OTHER -> s

LEMMA TradedKeeps ==
  ASSUME NEW capital \in Money, NEW s, Balanced(capital, s), NEW close \in Int,
         NEW enter \in BOOLEAN, NEW leave \in BOOLEAN
  PROVE  \E t \in Runs :
           /\ t = AtCandle(s, close, enter, leave)
           /\ t.curve = s.curve
           /\ Backtest!Times(capital, Backtest!Product(t.trades))
                = IF t.cost = <<>> THEN t.money ELSE t.cost
  <1>1. s \in Runs /\ s.money \in Money /\ s.cost \in Money \cup {<<>>} /\ s.trades \in Seq(Money)
    BY DEF Balanced, Runs
  <1>2. PICK m \in Money, i \in Int, j \in Int : m = s.money /\ m = <<i, j>> /\ m # <<>>
                                                 /\ m[1] = i /\ m[2] = j
    BY <1>1, MoneyParts
  <1>3. CASE enter /\ s.cost = <<>>
    <2>1. AtCandle(s, close, enter, leave) = [s EXCEPT !.money = <<i - close, j + 1>>, !.cost = m]
      BY <1>2, <1>3 DEF AtCandle
    <2>2. PICK p \in Money : p = <<i - close, j + 1>>
      <3>1. <<i - close, j + 1>> \in Money
        BY DEF Money
      <3>2. QED
        BY <3>1
    <2>3. PICK t : t = [s EXCEPT !.money = p, !.cost = m]
      OBVIOUS
    <2>4. /\ t \in Runs /\ t.curve = s.curve /\ t.trades = s.trades
          /\ t.cost = m
      BY <1>1, <2>3 DEF Runs
    <2>5. Backtest!Times(capital, Backtest!Product(s.trades)) = m
      BY <1>2, <1>3 DEF Balanced
    <2>6. t = AtCandle(s, close, enter, leave)
      BY <2>1, <2>2, <2>3
    <2>7. QED
      BY <1>2, <2>4, <2>5, <2>6
  <1>4. CASE leave /\ s.cost # <<>>
    <2>1. PICK k \in Money : k = s.cost /\ k # <<>>
      BY <1>1, <1>4
    <2>2. PICK p \in Money : p = Cash(s, close)
      <3>1. <<i + close, j + 1>> \in Money /\ Cash(s, close) = <<i + close, j + 1>>
        BY <1>2 DEF Cash, Money
      <3>2. QED
        BY <3>1
    <2>3. PICK d \in Money : d = Backtest!Over(p, k)
      BY MoneyTypes
    <2>4. AtCandle(s, close, enter, leave)
            = [s EXCEPT !.money = p, !.cost = <<>>, !.trades = Append(s.trades, d)]
      BY <1>4, <2>1, <2>2, <2>3 DEF AtCandle
    <2>12. PICK ts \in Seq(Money) : ts = Append(s.trades, d)
      <3>1. Append(s.trades, d) \in Seq(Money)
        BY <1>1
      <3>2. QED
        BY <3>1, Zenon
    <2>5. PICK t : t = [s EXCEPT !.money = p, !.cost = <<>>, !.trades = ts]
      OBVIOUS
    <2>6. /\ t \in Runs /\ t.curve = s.curve /\ t.trades = Append(s.trades, d)
          /\ t.cost = <<>> /\ t.money = p
      BY <1>1, <2>5, <2>12 DEF Runs
    <2>7. PICK r \in Money : r = Backtest!Product(s.trades) /\ Backtest!Times(capital, r) = k
      BY <1>1, <1>4, <2>1, ProductTypes DEF Balanced
    <2>8. Backtest!Product(t.trades) = Backtest!Times(r, d)
      BY <1>1, <2>6, <2>7, ProductOfMore
    <2>9. Backtest!Times(capital, Backtest!Times(r, d)) = p
      BY <2>3, <2>7, TimesRules
    <2>10. t = AtCandle(s, close, enter, leave)
      BY <2>4, <2>5, <2>12
    <2>11. QED
      BY <2>6, <2>8, <2>9, <2>10
  <1>5. CASE ~(enter /\ s.cost = <<>>) /\ ~(leave /\ s.cost # <<>>)
    <2>1. AtCandle(s, close, enter, leave) = s
      BY <1>5 DEF AtCandle
    <2>2. QED
      BY <1>1, <2>1 DEF Balanced
  <1>6. QED
    BY <1>3, <1>4, <1>5

\* A run with one more point on its curve, and one whose last point moved.
Longer(s, t) ==
  Len(t.curve) = Len(s.curve) + 1 /\ \A k \in 1..Len(s.curve) : t.curve[k] = s.curve[k]
Ended(s, t) ==
  /\ t.cost = <<>> /\ Len(t.curve) = Len(s.curve)
  /\ \A k \in 1..Len(s.curve) : k < Len(s.curve) => t.curve[k] = s.curve[k]

LEMMA CandleKeeps ==
  \A capital \in Money, close \in Int, enter, leave \in BOOLEAN : \A s :
    Balanced(capital, s) =>
      /\ Balanced(capital, Backtest!Candle(s, close, enter, leave))
      /\ Longer(s, Backtest!Candle(s, close, enter, leave))
  <1> SUFFICES ASSUME NEW capital \in Money, NEW close \in Int, NEW enter \in BOOLEAN,
                      NEW leave \in BOOLEAN, NEW s, Balanced(capital, s)
               PROVE  /\ Balanced(capital, Backtest!Candle(s, close, enter, leave))
                      /\ Longer(s, Backtest!Candle(s, close, enter, leave))
    OBVIOUS
  <1>1. PICK t \in Runs :
           /\ t = AtCandle(s, close, enter, leave)
           /\ t.curve = s.curve
           /\ Backtest!Times(capital, Backtest!Product(t.trades))
                = IF t.cost = <<>> THEN t.money ELSE t.cost
    BY TradedKeeps
  <1>2. t.money \in Money /\ t.curve \in Seq(Money)
    BY DEF Runs
  <1>3. PICK d \in Money : d = IF t.cost = <<>> THEN t.money
                               ELSE <<t.money[1] + close, t.money[2]>>
    <2>1. <<t.money[1] + close, t.money[2]>> \in Money
      BY <1>2, MoneyParts DEF Money
    <2>2. QED
      BY <1>2, <2>1
  <1>4. Backtest!Candle(s, close, enter, leave) = [t EXCEPT !.curve = Append(t.curve, d)]
    BY <1>1, <1>3 DEF Backtest!Candle, AtCandle, Cash
  <1>9. PICK b \in Seq(Money) : b = Append(t.curve, d)
    <2>1. Append(t.curve, d) \in Seq(Money)
      BY <1>2
    <2>2. QED
      BY <2>1, Zenon
  <1>5. PICK u : u = [t EXCEPT !.curve = b]
    OBVIOUS
  <1>6. /\ u \in Runs /\ u.curve = Append(t.curve, d)
        /\ u.trades = t.trades /\ u.cost = t.cost /\ u.money = t.money
    BY <1>2, <1>5, <1>9 DEF Runs
  <1>7. /\ u.curve # <<>> /\ u.curve[1] = capital /\ Len(u.curve) = Len(s.curve) + 1
        /\ u.curve[Len(u.curve)] = d
        /\ \A k \in 1..Len(s.curve) : u.curve[k] = s.curve[k]
    <2>1. PICK c \in Seq(Money) : c = t.curve /\ c # <<>> /\ c[1] = capital /\ c = s.curve
      BY <1>1, <1>2 DEF Balanced
    <2>2. /\ Append(c, d) # <<>> /\ Append(c, d)[1] = capital
          /\ Len(Append(c, d)) = Len(c) + 1 /\ Append(c, d)[Len(c) + 1] = d
          /\ \A k \in 1..Len(c) : Append(c, d)[k] = c[k]
      BY <2>1
    <2>3. QED
      BY <1>6, <2>1, <2>2
  <1>8. QED
    BY <1>1, <1>3, <1>4, <1>5, <1>6, <1>7, <1>9 DEF Balanced, Longer

\* Selling at the close of the last candle moves its point of the curve.
LEMMA SoldKeeps ==
  \A capital \in Money, close \in Int : \A s :
    Balanced(capital, s) /\ Len(s.curve) > 1 =>
      Balanced(capital, Backtest!Sold(s, close)) /\ Ended(s, Backtest!Sold(s, close))
  <1> SUFFICES ASSUME NEW capital \in Money, NEW close \in Int, NEW s,
                      Balanced(capital, s), Len(s.curve) > 1
               PROVE  Balanced(capital, Backtest!Sold(s, close)) /\ Ended(s, Backtest!Sold(s, close))
    OBVIOUS
  <1>1. s \in Runs /\ s.money \in Money /\ s.cost \in Money \cup {<<>>} /\ s.trades \in Seq(Money)
        /\ s.curve \in Seq(Money)
    BY DEF Balanced, Runs
  <1>2. CASE s.cost = <<>>
    BY <1>2 DEF Backtest!Sold, Ended
  <1>3. CASE s.cost # <<>>
    <2>1. PICK k \in Money : k = s.cost /\ k # <<>>
      BY <1>1, <1>3
    <2>2. PICK p \in Money : p = Cash(s, close)
      <3>1. PICK i \in Int, j \in Int : s.money[1] = i /\ s.money[2] = j
        BY <1>1, MoneyParts
      <3>2. <<i + close, j + 1>> \in Money
        BY DEF Money
      <3>3. QED
        BY <3>1, <3>2 DEF Cash
    <2>3. PICK d \in Money : d = Backtest!Over(p, k)
      BY MoneyTypes
    <2>4. PICK ts \in Seq(Money) : ts = Append(s.trades, d)
      <3>1. Append(s.trades, d) \in Seq(Money)
        BY <1>1
      <3>2. QED
        BY <3>1, Zenon
    <2>5. PICK n \in Nat : n = Len(s.curve) /\ n > 1
      BY <1>1
    <2>6. PICK c : c = [s.curve EXCEPT ![n] = p]
      OBVIOUS
    <2>7. /\ c \in Seq(Money) /\ c # <<>> /\ c[1] = s.curve[1] /\ Len(c) = n /\ c[n] = p
          /\ \A j \in 1..n : j < n => c[j] = s.curve[j]
      BY <1>1, <2>5, <2>6
    <2>8. Backtest!Sold(s, close)
            = [s EXCEPT !.money = p, !.cost = <<>>, !.trades = ts, !.curve = c]
      BY <1>3, <2>1, <2>2, <2>3, <2>4, <2>5, <2>6 DEF Backtest!Sold, Cash
    <2>9. PICK t : t = [s EXCEPT !.money = p, !.cost = <<>>, !.trades = ts, !.curve = c]
      OBVIOUS
    <2>10. /\ t \in Runs /\ t.curve = c /\ t.trades = ts /\ t.cost = <<>> /\ t.money = p
      BY <1>1, <2>7, <2>9 DEF Runs
    <2>11. PICK r \in Money : r = Backtest!Product(s.trades) /\ Backtest!Times(capital, r) = k
      BY <1>1, <1>3, <2>1, ProductTypes DEF Balanced
    <2>12. Backtest!Product(ts) = Backtest!Times(r, d)
      BY <1>1, <2>4, <2>11, ProductOfMore
    <2>13. Backtest!Times(capital, Backtest!Times(r, d)) = p
      BY <2>3, <2>11, TimesRules
    <2>14. s.curve[1] = capital
      BY DEF Balanced
    <2>15. t = Backtest!Sold(s, close)
      BY <2>8, <2>9
    <2>16. Balanced(capital, t)
      BY <2>7, <2>10, <2>12, <2>13, <2>14 DEF Balanced
    <2>17. QED
      BY <2>5, <2>7, <2>10, <2>15, <2>16 DEF Ended
  <1>4. QED
    BY <1>2, <1>3

\* The simulation candle by candle.
SimulatedTo(c, signals, capital, first, s) ==
  s = [i \in first - 1..Len(c) |->
         IF i = first - 1
         THEN [money |-> capital, cost |-> <<>>, trades |-> <<>>, curve |-> <<capital>>]
         ELSE Backtest!Candle(s[i - 1], c[i], i \in signals.enter, i \in signals.leave)]

Fresh(capital) == [money |-> capital, cost |-> <<>>, trades |-> <<>>, curve |-> <<capital>>]

LEMMA FreshIsBalanced ==
  ASSUME NEW capital \in Money
  PROVE  Balanced(capital, Fresh(capital)) /\ Len(Fresh(capital).curve) = 1
  <1>1. /\ <<capital>> \in Seq(Money) /\ <<>> \in Seq(Money) /\ <<capital>> # <<>>
        /\ <<capital>>[1] = capital /\ Len(<<capital>>) = 1
    OBVIOUS
  <1>2. Fresh(capital) \in Runs
    BY <1>1 DEF Fresh, Runs
  <1>3. Backtest!Times(capital, Backtest!Product(<<>>)) = capital
    BY ProductTypes, TimesRules
  <1>4. QED
    BY <1>1, <1>2, <1>3 DEF Fresh, Balanced

\* Candle by candle, with a point of the curve for each.
SimulationSteps(c, signals, capital, a, n, s) ==
  /\ s[a] = Fresh(capital)
  /\ \A i \in a..n : i # a =>
       /\ s[i] = Backtest!Candle(s[i - 1], c[i], i \in signals.enter, i \in signals.leave)
       /\ Longer(s[i - 1], s[i])
  /\ \A i \in a..n : Balanced(capital, s[i]) /\ Len(s[i].curve) = i - a + 1

Simulates(c, signals, capital, first, n, s) ==
  /\ SimulationSteps(c, signals, capital, first - 1, n, s)
  /\ Backtest!Simulate(c, signals, capital, first) = Backtest!Sold(s[n], c[n])

LEMMA SimulationIs ==
  \A n \in Nat \ {0} : \A c \in [1..n -> Int] : \A signals : \A capital \in Money :
    \A first \in 1..n : Len(c) = n => \E s : Simulates(c, signals, capital, first, n, s)
  <1> SUFFICES
        ASSUME NEW n \in Nat \ {0}, NEW c \in [1..n -> Int], Len(c) = n, NEW signals,
               NEW capital \in Money, NEW first \in 1..n
        PROVE  \E s : Simulates(c, signals, capital, first, n, s)
    OBVIOUS
  <1>1. PICK a \in Nat : a = first - 1 /\ a < n
    OBVIOUS
  <1>2. PICK V : V = {s \in Runs : Balanced(capital, s)}
    OBVIOUS
  <1>3. PICK x \in V : x = Fresh(capital) /\ Len(x.curve) = 1
    BY <1>2, FreshIsBalanced DEF Balanced
  <1>4. PICK enter \in [a..n -> BOOLEAN], leave \in [a..n -> BOOLEAN] :
          \A i \in a..n : /\ enter[i] <=> i \in signals.enter
                          /\ leave[i] <=> i \in signals.leave
    <2>1. /\ [i \in a..n |-> i \in signals.enter] \in [a..n -> BOOLEAN]
          /\ [i \in a..n |-> i \in signals.leave] \in [a..n -> BOOLEAN]
      OBVIOUS
    <2>2. QED
      BY <2>1
  <1>5. \A i \in a..n : i # a => i \in 1..n /\ c[i] \in Int /\ i - 1 \in a..n
    BY <1>1
  <1>6. PICK g \in [a..n -> [V -> V]] :
          \A i \in a..n, v \in V : i # a => g[i][v] = Backtest!Candle(v, c[i], enter[i], leave[i])
    <2> DEFINE g == [i \in a..n |-> [v \in V |->
                      IF i = a THEN v ELSE Backtest!Candle(v, c[i], enter[i], leave[i])]]
    <2>1. ASSUME NEW i \in a..n, NEW v \in V, i # a
          PROVE  Backtest!Candle(v, c[i], enter[i], leave[i]) \in V
      <3>1. Balanced(capital, v) /\ c[i] \in Int /\ enter[i] \in BOOLEAN /\ leave[i] \in BOOLEAN
        BY <1>2, <1>5, <2>1
      <3>2. Balanced(capital, Backtest!Candle(v, c[i], enter[i], leave[i]))
        BY <3>1, CandleKeeps, Zenon
      <3>3. QED
        BY <1>2, <3>2 DEF Balanced
    <2>2. g \in [a..n -> [V -> V]]
      BY <2>1
    <2>3. \A i \in a..n, v \in V : i # a => g[i][v] = Backtest!Candle(v, c[i], enter[i], leave[i])
      OBVIOUS
    <2> HIDE DEF g
    <2>4. QED
      BY <2>2, <2>3
  <1>7. Computable(a, n, V, x, g)
    <2>1. a \in Int /\ n \in Int
      OBVIOUS
    <2>2. QED
      BY <2>1, Recursion, Zenon
  <1>8. PICK f \in [a..n -> V] : Computes(a, n, x, g, f)
    BY <1>7, Zenon DEF Computable
  <1>9. \A i \in a..n : f[i] = IF i = a THEN x
                               ELSE Backtest!Candle(f[i - 1], c[i], enter[i], leave[i])
    <2>1. \A i \in a..n : i # a => f[i - 1] \in V
      BY <1>5
    <2>2. QED
      BY <1>6, <1>8, <2>1 DEF Computes
  <1>10. ASSUME NEW i \in a..n, NEW v
         PROVE  Backtest!Candle(v, c[i], enter[i], leave[i])
                  = Backtest!Candle(v, c[i], i \in signals.enter, i \in signals.leave)
    <2>1. enter[i] = (i \in signals.enter) /\ leave[i] = (i \in signals.leave)
      BY <1>4
    <2>2. QED
      BY <2>1, Zenon
  <1>11. SimulatedTo(c, signals, capital, first, f)
    <2>1. f = [i \in a..n |-> IF i = a THEN Fresh(capital)
                              ELSE Backtest!Candle(f[i - 1], c[i], i \in signals.enter,
                                                   i \in signals.leave)]
      <3>1. \A i \in a..n : f[i] = IF i = a THEN Fresh(capital)
                                   ELSE Backtest!Candle(f[i - 1], c[i], i \in signals.enter,
                                                        i \in signals.leave)
        BY <1>3, <1>9, <1>10
      <3>2. QED
        BY <3>1
    <2>2. QED
      BY <1>1, <2>1, Zenon DEF SimulatedTo, Fresh
  <1>12. PICK s : s = (CHOOSE q : SimulatedTo(c, signals, capital, first, q))
                    /\ SimulatedTo(c, signals, capital, first, s)
    BY <1>11
  <1>13. Backtest!Simulate(c, signals, capital, first) = Backtest!Sold(s[n], c[n])
    <2>1. Len(c) # 0
      OBVIOUS
    <2>2. QED
      BY <1>12, <2>1, Zenon DEF Backtest!Simulate, SimulatedTo
  <1>14. \A i \in a..n : s[i] = IF i = a THEN Fresh(capital)
                                ELSE Backtest!Candle(s[i - 1], c[i], enter[i], leave[i])
    <2>1. s = [i \in a..n |-> IF i = a THEN Fresh(capital)
                              ELSE Backtest!Candle(s[i - 1], c[i], i \in signals.enter,
                                                   i \in signals.leave)]
      BY <1>1, <1>12, Zenon DEF SimulatedTo, Fresh
    <2>2. \A i \in a..n : s[i] = IF i = a THEN Fresh(capital)
                                 ELSE Backtest!Candle(s[i - 1], c[i], i \in signals.enter,
                                                      i \in signals.leave)
      BY <2>1, Zenon
    <2>3. QED
      BY <1>10, <2>2
  <1>15. PICK S : S = {i \in a..n : /\ s[i] \in V /\ Len(s[i].curve) = i - a + 1
                                    /\ (i # a => Longer(s[i - 1], s[i]))}
    OBVIOUS
  <1>24. (\A v \in V : Balanced(capital, v)) /\ (\A i \in S : s[i] \in V)
    BY <1>2, <1>15
  <1>16. a \in S
    <2>1. a \in a..n /\ a - a + 1 = 1
      BY <1>1
    <2>2. QED
      BY <1>3, <1>14, <1>15, <2>1
  <1>17. ASSUME NEW i \in a..(n - 1), i \in S
         PROVE  i + 1 \in S
    <2>1. PICK j \in a..n : j = i + 1 /\ j - 1 = i /\ j # a
      OBVIOUS
    <2>2. c[j] \in Int /\ enter[j] \in BOOLEAN /\ leave[j] \in BOOLEAN
      BY <1>5, <2>1
    <2>3. Balanced(capital, s[i]) /\ Len(s[i].curve) = i - a + 1
      BY <1>15, <1>17, <1>24
    <2>4. s[j] = Backtest!Candle(s[i], c[j], enter[j], leave[j])
      BY <1>14, <2>1
    <2>5. Balanced(capital, s[j]) /\ Longer(s[i], s[j])
      <3>1. PICK close \in Int, e \in BOOLEAN, l \in BOOLEAN :
              close = c[j] /\ e = enter[j] /\ l = leave[j]
        BY <2>2
      <3>2. PICK v : v = s[i]
        OBVIOUS
      <3>3. Balanced(capital, v) /\ s[j] = Backtest!Candle(v, close, e, l)
        BY <2>3, <2>4, <3>1, <3>2
      <3>4. /\ Balanced(capital, Backtest!Candle(v, close, e, l))
            /\ Longer(v, Backtest!Candle(v, close, e, l))
        <4>1. capital \in Money /\ close \in Int /\ e \in BOOLEAN /\ l \in BOOLEAN
          OBVIOUS
        <4>2. QED
          BY <3>3, <4>1, CandleKeeps
      <3>5. QED
        BY <3>2, <3>3, <3>4
    <2>6. Len(s[j].curve) = j - a + 1
      BY <2>1, <2>3, <2>5 DEF Longer
    <2>7. s[j] \in V
      BY <1>2, <2>5 DEF Balanced
    <2>8. QED
      BY <1>15, <2>1, <2>5, <2>6, <2>7
  <1>18. a..n \subseteq S
    <2>1. Continues(a, n, S) /\ a \in Int /\ n \in Int
      BY <1>17 DEF Continues
    <2>2. QED
      BY <1>16, <2>1, UpTo, Zenon
  <1>19. \A i \in a..n :
           /\ Balanced(capital, s[i]) /\ Len(s[i].curve) = i - a + 1
           /\ i # a => Longer(s[i - 1], s[i])
    BY <1>15, <1>18, <1>24
  <1>20. \A i \in a..n : i # a =>
           s[i] = Backtest!Candle(s[i - 1], c[i], i \in signals.enter, i \in signals.leave)
    BY <1>10, <1>14
  <1>21. s[a] = Fresh(capital)
    <2>1. a \in a..n
      BY <1>1
    <2>2. QED
      BY <1>14, <2>1
  <1>22. SimulationSteps(c, signals, capital, a, n, s)
    BY <1>19, <1>20, <1>21, Zenon DEF SimulationSteps
  <1>23. QED
    BY <1>1, <1>13, <1>22 DEF Simulates

\* A simulation at its end: without a position, the money its trades made of
\* the capital, and a point of the curve for every candle.
Settled(capital, run, points) ==
  Balanced(capital, run) /\ run.cost = <<>> /\ Len(run.curve) = points + 1

\* Whatever the signals, a simulation settles.
LEMMA SimulationBalances ==
  \A n \in Nat \ {0} : \A c \in [1..n -> Int] : \A signals : \A capital \in Money :
    \A first \in 1..n :
      Len(c) = n => Settled(capital, Backtest!Simulate(c, signals, capital, first), n - first + 1)
  <1> SUFFICES
        ASSUME NEW n \in Nat \ {0}, NEW c \in [1..n -> Int], Len(c) = n, NEW signals,
               NEW capital \in Money, NEW first \in 1..n
        PROVE  /\ Balanced(capital, Backtest!Simulate(c, signals, capital, first))
               /\ Backtest!Simulate(c, signals, capital, first).cost = <<>>
               /\ Len(Backtest!Simulate(c, signals, capital, first).curve) = n - first + 2
    BY DEF Settled
  <1>1. PICK s : Simulates(c, signals, capital, first, n, s)
    BY SimulationIs
  <1>2. PICK a \in Nat : a = first - 1 /\ a < n /\ n \in a..n
    OBVIOUS
  <1>3. PICK v : v = s[n]
    OBVIOUS
  <1>4. PICK close \in Int : close = c[n]
    OBVIOUS
  <1>5. Balanced(capital, v) /\ Len(v.curve) = n - a + 1
    BY <1>1, <1>2, <1>3 DEF Simulates, SimulationSteps
  <1>6. Balanced(capital, Backtest!Sold(v, close)) /\ Ended(v, Backtest!Sold(v, close))
    <2>1. Len(v.curve) > 1
      BY <1>2, <1>5
    <2>2. QED
      BY <1>5, <2>1, SoldKeeps, Zenon
  <1>7. QED
    BY <1>1, <1>2, <1>3, <1>4, <1>5, <1>6 DEF Simulates, Ended

\* The candles of a slice.
LEMMA SliceOf ==
  \A c \in Seq(Nat), from, n \in Nat : from + n <= Len(c) =>
    /\ Backtest!Slice(c, from, n) \in [1..n -> Nat] /\ Len(Backtest!Slice(c, from, n)) = n
    /\ Backtest!Slice(c, from, n) \in Seq(Nat)
    /\ \A i \in 1..n : Backtest!Slice(c, from, n)[i] = c[from + i]
  <1> SUFFICES ASSUME NEW c \in Seq(Nat), NEW from \in Nat, NEW n \in Nat, from + n <= Len(c)
               PROVE  /\ Backtest!Slice(c, from, n) \in [1..n -> Nat]
                      /\ Len(Backtest!Slice(c, from, n)) = n
                      /\ Backtest!Slice(c, from, n) \in Seq(Nat)
                      /\ \A i \in 1..n : Backtest!Slice(c, from, n)[i] = c[from + i]
    OBVIOUS
  <1>1. \A i \in from + 1..from + n : c[i] \in Nat
    OBVIOUS
  <1>2. PICK a \in Int, b \in Int : a = from + 1 /\ b = from + n
    OBVIOUS
  <1>3. PICK s : s = SubSeq(c, a, b)
    OBVIOUS
  <1>4. /\ s \in Seq(Nat) /\ Len(s) = IF a <= b THEN b - a + 1 ELSE 0
        /\ \A i \in 1..b - a + 1 : s[i] = c[a + i - 1]
    BY <1>1, <1>2, <1>3, SubSeqProperties
  <1>5. s = Backtest!Slice(c, from, n)
    BY <1>2, <1>3 DEF Backtest!Slice
  <1>6. /\ s \in Seq(Nat) /\ Len(s) = n
        /\ \A i \in 1..n : s[i] = c[from + i]
    <2>1. b - a + 1 = n /\ \A i \in 1..n : a + i - 1 = from + i
      BY <1>2
    <2>2. Len(s) = n
      BY <1>2, <1>4
    <2>3. QED
      BY <1>4, <2>1, <2>2
  <1>7. s \in [1..n -> Nat]
    BY <1>6
  <1>8. QED
    BY <1>5, <1>6, <1>7

-----------------------------------------------------------------------------
(* The figures across the windows. *)

\* The candles of the request, enough of them for two windows.
CandlesInv ==
  /\ stored \in Seq(Nat) /\ loaded \in Seq(Nat) /\ test.at \in Nat
  /\ stage = "new" => test = Backtest!NoTest
  /\ stage = "running" => Len(loaded) >= Training + 2 * Testing

FiguresInv ==
  /\ CandlesInv
  /\ test.capital \in Money /\ test.trades \in Seq(Money)
  /\ test.curve \in Seq(Money) /\ test.curve # <<>> /\ test.tested \in Seq(Nat)
  /\ Len(test.curve) = 1 + Len(test.tested)
  /\ test.curve[1] = Backtest!Start
  /\ test.capital = Backtest!Product(test.trades)
  /\ test.capital = test.curve[Len(test.curve)]

LEMMA CandlesStart ==
  ASSUME Backtest!Init
  PROVE  CandlesInv
  <1>1. stored \in Seq(Nat)
    <2>1. stored \in Seq(Closes) /\ \A x \in Closes : x \in Nat
      BY BacktestAssumption DEF Backtest!Init
    <2>2. QED
      BY <2>1
  <1>2. /\ loaded = <<>> /\ test = Backtest!NoTest /\ stage = "new"
    BY DEF Backtest!Init
  <1>3. <<>> \in Seq(Nat) /\ test.at = 0
    BY <1>2 DEF Backtest!NoTest
  <1>4. QED
    BY <1>1, <1>2, <1>3 DEF CandlesInv

LEMMA LoadCandles ==
  ASSUME CandlesInv, Backtest!Load
  PROVE  CandlesInv'
  <1>1. PICK limit \in Limits :
          LET n == IF Len(stored) < limit THEN Len(stored) ELSE limit
          IN  /\ loaded' = Backtest!Slice(stored, Len(stored) - n, n)
              /\ stage' = CASE n = 0 -> "not_found"
                            [] n \in 1..Training + 2 * Testing - 1 -> "too_few"
                            [] OTHER -> "running"
    BY Zenon DEF Backtest!Load
  <1>2. PICK k \in Nat : k = Len(stored)
    BY DEF CandlesInv
  <1>3. PICK n \in Nat : n = (IF k < limit THEN k ELSE limit) /\ n <= k
    BY BacktestAssumption
  <1>4. /\ loaded' = Backtest!Slice(stored, k - n, n)
        /\ stage' = CASE n = 0 -> "not_found"
                      [] n \in 1..Training + 2 * Testing - 1 -> "too_few"
                      [] OTHER -> "running"
    BY <1>1, <1>2, <1>3
  <1>5. loaded' \in Seq(Nat) /\ Len(loaded') = n
    <2>1. PICK from \in Nat : from = k - n /\ from + n <= k
      BY <1>3
    <2>2. stored \in Seq(Nat)
      BY DEF CandlesInv
    <2>3. QED
      BY <1>2, <1>4, <2>1, <2>2, SliceOf
  <1>6. PICK w \in Nat : w = Training + 2 * Testing
    BY BacktestAssumption
  <1>7. stage' = "running" => n >= w
    <2>1. CASE n = 0
      BY <1>4, <2>1
    <2>2. CASE n \in 1..w - 1
      <3>1. n # 0 /\ n \in 1..Training + 2 * Testing - 1
        BY <1>6, <2>2, BacktestAssumption
      <3>2. stage' = "too_few"
        BY <1>4, <3>1
      <3>3. QED
        BY <3>2
    <2>3. CASE n # 0 /\ n \notin 1..w - 1
      BY <2>3
    <2>4. QED
      BY <2>1, <2>2, <2>3
  <1>8. stage' # "new" /\ UNCHANGED <<stored, test>>
    BY <1>4 DEF Backtest!Load
  <1>9. QED
    BY <1>5, <1>6, <1>7, <1>8 DEF CandlesInv

\* The candles a window's test is run on end with the Testing of the test.
WindowCandles(c, start) ==
  Backtest!Slice(c, Backtest!WarmUpStart(start),
                 start + Training + Testing - Backtest!WarmUpStart(start))

LEMMA WindowCandlesAre ==
  ASSUME NEW c \in Seq(Nat), NEW start \in Nat,
         start + Training + Testing <= Len(c)
  PROVE  \E n, from, first \in Nat :
           /\ n # 0 /\ first \in 1..n
           /\ from = Backtest!WarmUpStart(start) /\ n = start + Training + Testing - from
           /\ first = n - Testing + 1 /\ from + first = start + Training + 1
           /\ WindowCandles(c, start) \in [1..n -> Nat] /\ Len(WindowCandles(c, start)) = n
           /\ \A i \in 1..n : WindowCandles(c, start)[i] = c[from + i]
  <1>1. PICK t \in Nat \ {0} : t = Training
    BY BacktestAssumption
  <1>2. PICK u \in Nat \ {0} : u = Testing
    BY BacktestAssumption
  <1>3. PICK k \in Nat : k = Len(c)
    OBVIOUS
  <1>4. start + t + u <= k
    BY <1>1, <1>2, <1>3
  <1>5. PICK max \in Nat : max = Backtest!MaxWarmUp
    <2>1. 1 \in DOMAIN Parameters
      BY BacktestAssumption
    <2>2. QED
      BY <2>1, WarmUpIsEnough
  <1>6. PICK from \in Nat : from = Backtest!WarmUpStart(start) /\ from <= start + t
    <2>1. PICK f \in Nat : f = (IF start + t > max THEN start + t - max ELSE 0) /\ f <= start + t
      <3>1. CASE start + t > max
        <4>1. start + t - max \in Nat /\ start + t - max <= start + t
          BY <3>1
        <4>2. QED
          BY <3>1, <4>1
      <3>2. CASE ~(start + t > max)
        BY <3>2
      <3>3. QED
        BY <3>1, <3>2
    <2>2. f = Backtest!WarmUpStart(start)
      BY <1>1, <1>5, <2>1 DEF Backtest!WarmUpStart
    <2>3. QED
      BY <2>1, <2>2
  <1>7. PICK n \in Nat : n = start + t + u - from /\ from + n <= k /\ n # 0 /\ u <= n
    <2>1. start + t + u - from \in Nat /\ from + (start + t + u - from) <= k
          /\ start + t + u - from # 0 /\ u <= start + t + u - from
      BY <1>4, <1>6
    <2>2. QED
      BY <2>1
  <1>8. PICK first \in Nat : first = n - u + 1
    BY <1>7
  <1>9. first \in 1..n /\ from + first = start + t + 1
    BY <1>7, <1>8
  <1>10. WindowCandles(c, start) = Backtest!Slice(c, from, n)
    BY <1>1, <1>2, <1>6, <1>7 DEF WindowCandles
  <1>11. /\ Backtest!Slice(c, from, n) \in [1..n -> Nat] /\ Len(Backtest!Slice(c, from, n)) = n
         /\ \A i \in 1..n : Backtest!Slice(c, from, n)[i] = c[from + i]
    <2>1. c \in Seq(Nat) /\ from \in Nat /\ n \in Nat /\ from + n <= Len(c)
      BY <1>3, <1>7
    <2>2. QED
      BY <2>1, SliceOf, Zenon
  <1>12. /\ n # 0 /\ first \in 1..n
         /\ from = Backtest!WarmUpStart(start) /\ n = start + Training + Testing - from
         /\ first = n - Testing + 1 /\ from + first = start + Training + 1
         /\ WindowCandles(c, start) \in [1..n -> Nat] /\ Len(WindowCandles(c, start)) = n
         /\ \A i \in 1..n : WindowCandles(c, start)[i] = c[from + i]
    BY <1>1, <1>2, <1>6, <1>7, <1>8, <1>9, <1>10, <1>11
  <1>13. QED
    BY <1>12, Zenon

\* What a window leaves behind.
LEMMA WindowRuns ==
  ASSUME NEW all \in Seq(Nat), NEW start \in Nat, start + Training + Testing <= Len(all),
         NEW capital \in Money
  PROVE  \E run : /\ run = Backtest!Window(all, start, capital).run
                  /\ Balanced(capital, run) /\ run.cost = <<>>
                  /\ Len(run.curve) = Testing + 1
  <1>1. PICK n, first \in Nat :
           /\ n # 0 /\ first \in 1..n /\ first = n - Testing + 1
           /\ WindowCandles(all, start) \in [1..n -> Nat] /\ Len(WindowCandles(all, start)) = n
    BY WindowCandlesAre
  <1>9. PICK c : c = WindowCandles(all, start)
    OBVIOUS
  <1>2. PICK p : p = Parameters[Backtest!Best(Backtest!TrainingRows(all, start))]
    OBVIOUS
  <1>3. PICK signals : signals = Backtest!Signals(c, p, first)
    OBVIOUS
  <1>4. PICK run : run = Backtest!Simulate(c, signals, capital, first)
    OBVIOUS
  <1>5. Balanced(capital, run) /\ run.cost = <<>> /\ Len(run.curve) = n - first + 2
    <2>1. c \in [1..n -> Int] /\ Len(c) = n /\ n \in Nat \ {0} /\ first \in 1..n
      BY <1>1, <1>9
    <2>2. Settled(capital, Backtest!Simulate(c, signals, capital, first), n - first + 1)
      <3>1. capital \in Money
        OBVIOUS
      <3>2. QED
        BY <2>1, <3>1, SimulationBalances, Zenon
    <2>3. QED
      BY <1>4, <2>2 DEF Settled
  <1>6. Backtest!Window(all, start, capital).run = run
    BY <1>1, <1>2, <1>3, <1>4, <1>9 DEF Backtest!Window, Backtest!Strategy, WindowCandles
  <1>7. n - first + 2 = Testing + 1
    <2>1. PICK u \in Nat : u = Testing
      BY BacktestAssumption
    <2>2. first = n - u + 1
      BY <1>1, <2>1
    <2>3. QED
      BY <2>1, <2>2
  <1>8. QED
    BY <1>5, <1>6, <1>7

LEMMA WalkCandles ==
  ASSUME CandlesInv, Backtest!WalkForward
  PROVE  CandlesInv' /\ test.at + Training + Testing <= Len(loaded)
  <1>1. PICK k \in Nat : k = Len(loaded)
    BY DEF CandlesInv
  <1>2. PICK t \in Nat : t = Training
    BY BacktestAssumption
  <1>3. PICK u \in Nat : u = Testing
    BY BacktestAssumption
  <1>4. test.at \in Nat /\ test.at <= k - (t + u)
    BY <1>1, <1>2, <1>3 DEF CandlesInv, Backtest!WalkForward, Backtest!LastStart
  <1>5. test'.at = test.at + u /\ UNCHANGED <<stored, loaded, stage>> /\ stage = "running"
    BY <1>3 DEF Backtest!WalkForward
  <1>6. test'.at \in Nat
    BY <1>4, <1>5
  <1>7. QED
    BY <1>1, <1>2, <1>3, <1>4, <1>5, <1>6 DEF CandlesInv

\* The curve of a run after its first point ends where the run does.
LEMMA RestOfCurve ==
  ASSUME NEW curve \in Seq(Money), NEW u \in Nat \ {0}, Len(curve) = u + 1
  PROVE  /\ Tail(curve) \in Seq(Money) /\ Len(Tail(curve)) = u
         /\ Tail(curve)[u] = curve[u + 1]
  OBVIOUS

LEMMA JoinOf ==
  ASSUME NEW S, NEW a \in Seq(S), NEW b \in Seq(S), NEW n \in Nat, NEW u \in Nat \ {0},
         Len(a) = n, Len(b) = u
  PROVE  /\ a \o b \in Seq(S) /\ Len(a \o b) = n + u /\ (a \o b)[n + u] = b[u]
         /\ n > 0 => a \o b # <<>> /\ (a \o b)[1] = a[1]
  <1>1. a \o b \in Seq(S) /\ Len(a \o b) = n + u
    BY ConcatProperties
  <1>2. \A i \in 1..n + u : (a \o b)[i] = IF i <= n THEN a[i] ELSE b[i - n]
    BY ConcatProperties
  <1>3. (a \o b)[n + u] = b[u]
    <2>1. n + u \in 1..n + u /\ ~(n + u <= n) /\ n + u - n = u
      OBVIOUS
    <2>2. QED
      BY <1>2, <2>1
  <1>4. QED
    BY <1>1, <1>2, <1>3

LEMMA WalkFigures ==
  ASSUME FiguresInv, Backtest!WalkForward
  PROVE  FiguresInv'
  <1>1. CandlesInv' /\ test.at + Training + Testing <= Len(loaded)
    BY WalkCandles DEF FiguresInv
  <1>2. PICK u \in Nat \ {0} : u = Testing
    BY BacktestAssumption
  <1>3. PICK t \in Nat : t = Training
    BY BacktestAssumption
  <1>4. loaded \in Seq(Nat) /\ test.at \in Nat /\ test.capital \in Money /\ test.trades \in Seq(Money)
    BY DEF FiguresInv, CandlesInv
  <1>5. PICK run : /\ run = Backtest!Window(loaded, test.at, test.capital).run
                   /\ Balanced(test.capital, run) /\ run.cost = <<>>
                   /\ Len(run.curve) = u + 1
    <2>1. PICK at \in Nat, capital \in Money : at = test.at /\ capital = test.capital
      BY <1>4
    <2>2. at + Training + Testing <= Len(loaded)
      BY <1>1, <2>1
    <2>3. QED
      BY <1>2, <1>4, <2>1, <2>2, WindowRuns
  <1>6. /\ run.money \in Money /\ run.trades \in Seq(Money) /\ run.curve \in Seq(Money)
        /\ run.money = Backtest!Times(test.capital, Backtest!Product(run.trades))
        /\ run.money = run.curve[u + 1]
    BY <1>5 DEF Balanced, Runs
  <1>7. PICK tail \in Seq(Money) : /\ tail = Tail(run.curve) /\ Len(tail) = u
                                   /\ tail[u] = run.money
    <2>1. PICK c \in Seq(Money) : c = run.curve /\ Len(c) = u + 1
      BY <1>5, <1>6
    <2>2. QED
      BY <1>6, <2>1, RestOfCurve
  <1>8. PICK slice \in Seq(Nat) : /\ slice = Backtest!Slice(loaded, test.at + Training, Testing)
                                  /\ Len(slice) = u
    <2>1. PICK from \in Nat : from = test.at + t
      BY <1>4
    <2>2. from + u <= Len(loaded)
      BY <1>1, <1>2, <1>3, <2>1
    <2>3. Backtest!Slice(loaded, from, u) \in Seq(Nat) /\ Len(Backtest!Slice(loaded, from, u)) = u
      BY <1>4, <2>1, <2>2, SliceOf
    <2>4. QED
      BY <1>2, <1>3, <2>1, <2>3
  <1>9. /\ test'.capital = run.money
        /\ test'.trades = test.trades \o run.trades
        /\ test'.curve = test.curve \o tail
        /\ test'.tested = test.tested \o slice
    BY <1>5, <1>7, <1>8 DEF Backtest!WalkForward
  <1>10. test'.capital \in Money /\ test'.trades \in Seq(Money)
    BY <1>4, <1>6, <1>9
  <1>11. test'.capital = Backtest!Product(test'.trades)
    <2>1. PICK s \in Seq(Money) : s = test.trades /\ test.capital = Backtest!Product(s)
      BY <1>4 DEF FiguresInv
    <2>2. PICK v \in Seq(Money) : v = run.trades
      BY <1>6
    <2>3. Backtest!Product(s \o v) = Backtest!Times(Backtest!Product(s), Backtest!Product(v))
      BY ProductOfBoth
    <2>4. QED
      BY <1>6, <1>9, <2>1, <2>2, <2>3
  <1>12. /\ test'.curve \in Seq(Money) /\ test'.curve # <<>> /\ test'.curve[1] = Backtest!Start
         /\ Len(test'.curve) = Len(test.curve) + u
         /\ test'.curve[Len(test'.curve)] = test'.capital
    <2>1. PICK c \in Seq(Money) : c = test.curve /\ c # <<>> /\ c[1] = Backtest!Start
      BY DEF FiguresInv
    <2>2. PICK n \in Nat \ {0} : n = Len(c)
      BY <2>1
    <2>3. /\ c \o tail \in Seq(Money) /\ Len(c \o tail) = n + u /\ c \o tail # <<>>
          /\ (c \o tail)[1] = c[1] /\ (c \o tail)[n + u] = tail[u]
      <3>1. Len(c) = n /\ Len(tail) = u /\ n > 0
        BY <1>7, <2>2
      <3>2. /\ c \o tail \in Seq(Money) /\ Len(c \o tail) = n + u
            /\ (c \o tail)[n + u] = tail[u]
        BY <3>1, JoinOf
      <3>3. c \o tail # <<>> /\ (c \o tail)[1] = c[1]
        BY <3>1, JoinOf
      <3>4. QED
        BY <3>2, <3>3
    <2>4. QED
      BY <1>7, <1>9, <2>1, <2>2, <2>3
  <1>13. test'.tested \in Seq(Nat) /\ Len(test'.tested) = Len(test.tested) + u
    <2>1. PICK d \in Seq(Nat) : d = test.tested
      BY DEF FiguresInv
    <2>2. PICK m \in Nat : m = Len(d)
      OBVIOUS
    <2>3. d \o slice \in Seq(Nat) /\ Len(d \o slice) = m + u
      BY <1>8, <2>2, JoinOf
    <2>4. QED
      BY <1>9, <2>1, <2>2, <2>3
  <1>14. Len(test'.curve) = 1 + Len(test'.tested)
    <2>1. Len(test.curve) = 1 + Len(test.tested) /\ Len(test.tested) \in Nat
      BY DEF FiguresInv
    <2>2. QED
      BY <1>12, <1>13, <2>1
  <1>15. QED
    BY <1>1, <1>10, <1>11, <1>12, <1>13, <1>14 DEF FiguresInv

LEMMA FiguresStart ==
  ASSUME Backtest!Init
  PROVE  FiguresInv
  <1>1. CandlesInv
    BY CandlesStart
  <1>2. /\ test.capital = Backtest!Start /\ test.trades = <<>> /\ test.curve = <<Backtest!Start>>
        /\ test.tested = <<>>
    BY DEF Backtest!Init, Backtest!NoTest
  <1>3. /\ <<>> \in Seq(Money) /\ <<>> \in Seq(Nat) /\ Backtest!Start \in Money
        /\ <<Backtest!Start>> \in Seq(Money) /\ <<Backtest!Start>> # <<>>
        /\ <<Backtest!Start>>[1] = Backtest!Start
        /\ Len(<<Backtest!Start>>) = 1 /\ Len(<<>>) = 0
    BY MoneyTypes
  <1>4. Backtest!Product(<<>>) = Backtest!Start
    BY ProductTypes
  <1>5. QED
    BY <1>1, <1>2, <1>3, <1>4 DEF FiguresInv

LEMMA FiguresStep ==
  ASSUME FiguresInv, [AnalysisNext]_allVars
  PROVE  FiguresInv'
  <1>1. CASE Backtest!Load
    BY <1>1, LoadCandles DEF FiguresInv, Backtest!Load
  <1>2. CASE Backtest!WalkForward
    BY <1>2, WalkFigures
  <1>3. CASE Backtest!Finish
    BY <1>3 DEF Backtest!Finish, FiguresInv, CandlesInv
  <1>4. CASE UNCHANGED backtestVars
    BY <1>4 DEF backtestVars, FiguresInv, CandlesInv
  <1>5. QED
    BY <1>1, <1>2, <1>3, <1>4, PartsStep DEF Backtest!Next

\* The figures stay in step from window to window.
LEMMA FiguresInvHolds == AnalysisSpec => []FiguresInv
  <1>1. AnalysisInit => FiguresInv
    BY PartsStart, FiguresStart
  <1>2. FiguresInv /\ [AnalysisNext]_allVars => FiguresInv'
    BY FiguresStep
  <1>3. QED
    BY <1>1, <1>2, PTL DEF AnalysisSpec

\* The capital of a backtest is the product of its trades and the end of its
\* equity curve, and its drawdown is no smaller than its loss, whatever the
\* candles, the windows and the parameters.
THEOREM FiguresOfBacktestAgree == AnalysisSpec => []FiguresAgree
  <1>1. FiguresInv => FiguresAgree
    <2>1. FiguresInv => ~Backtest!Above(Backtest!Worst(test.curve), test.capital)
      BY DrawdownCoversLoss DEF FiguresInv
    <2>2. QED
      BY <2>1 DEF FiguresInv, FiguresAgree, Backtest!FiguresAgree, Backtest!Report
  <1>2. QED
    BY <1>1, FiguresInvHolds, PTL

-----------------------------------------------------------------------------
(* What a backtest makes of its candles up to a close. *)

SumTo(f, n, s) == s = [i \in 0..n |-> IF i = 0 THEN 0 ELSE s[i - 1] + f[i]]

LEMMA SumTypes ==
  \A n \in Nat : \A f \in [1..n -> Int] : Backtest!Sum(f, n) \in Int
  <1> SUFFICES ASSUME NEW n \in Nat, NEW f \in [1..n -> Int]
               PROVE  Backtest!Sum(f, n) \in Int
    OBVIOUS
  <1>1. PICK g \in [0..n -> [Int -> Int]] :
          \A i \in 0..n, v \in Int : i # 0 => g[i][v] = v + f[i]
    <2> DEFINE g == [i \in 0..n |-> [v \in Int |-> IF i = 0 THEN 0 ELSE v + f[i]]]
    <2>1. g \in [0..n -> [Int -> Int]]
      OBVIOUS
    <2>2. \A i \in 0..n, v \in Int : i # 0 => g[i][v] = v + f[i]
      OBVIOUS
    <2> HIDE DEF g
    <2>3. QED
      BY <2>1, <2>2
  <1>2. Computable(0, n, Int, 0, g)
    <2>1. 0 \in Int /\ n \in Int
      OBVIOUS
    <2>2. QED
      BY <2>1, Recursion, Zenon
  <1>3. PICK s \in [0..n -> Int] : Computes(0, n, 0, g, s)
    BY <1>2, Zenon DEF Computable
  <1>4. \A i \in 0..n : s[i] = IF i = 0 THEN 0 ELSE s[i - 1] + f[i]
    <2>1. \A i \in 0..n : i # 0 => i - 1 \in 0..n /\ s[i - 1] \in Int
      OBVIOUS
    <2>2. QED
      BY <1>1, <1>3, <2>1 DEF Computes
  <1>5. SumTo(f, n, s)
    BY <1>4 DEF SumTo
  <1>6. PICK t : t = (CHOOSE u : SumTo(f, n, u)) /\ SumTo(f, n, t)
    BY <1>5
  <1>7. t[0] = 0 /\ \A i \in 1..n : t[i] = t[i - 1] + f[i]
    <2>1. t = [i \in 0..n |-> IF i = 0 THEN 0 ELSE t[i - 1] + f[i]]
      BY <1>6 DEF SumTo
    <2>2. 0 \in 0..n /\ \A i \in 1..n : i \in 0..n /\ i # 0
      OBVIOUS
    <2>3. QED
      BY <2>1, <2>2
  <1>11. t[0] \in Int /\ \A i \in 1..n : t[i - 1] \in Int => t[i] \in Int
    <2>1. 0 \in Int /\ (\A a, b \in Int : a + b \in Int) /\ (\A i \in 1..n : f[i] \in Int)
      OBVIOUS
    <2>2. QED
      BY <1>7, <2>1, Zenon
  <1>8. t[n] \in Int
    <2>1. PICK S : S = {i \in 0..n : t[i] \in Int}
      OBVIOUS
    <2>2. 0 \in S
      <3>1. 0 \in 0..n
        OBVIOUS
      <3>2. QED
        BY <1>11, <2>1, <3>1
    <2>3. ASSUME NEW i \in 0..(n - 1), i \in S
          PROVE  i + 1 \in S
      <3>1. i + 1 \in 0..n /\ i + 1 # 0 /\ i + 1 - 1 = i /\ i + 1 \in 1..n /\ t[i] \in Int
        BY <2>1, <2>3
      <3>2. t[i + 1] \in Int
        <4>1. PICK j \in 1..n : j = i + 1 /\ j - 1 = i
          BY <3>1
        <4>2. QED
          BY <1>11, <3>1, <4>1, Zenon
      <3>3. QED
        BY <2>1, <3>1, <3>2
    <2>4. 0..n \subseteq S
      <3>1. Continues(0, n, S) /\ 0 \in Int /\ n \in Int
        BY <2>3 DEF Continues
      <3>2. QED
        BY <2>2, <3>1, UpTo, Zenon
    <2>5. QED
      BY <2>1, <2>4
  <1>9. Backtest!Sum(f, n) = t[n]
    BY <1>6, Zenon DEF Backtest!Sum, SumTo
  <1>10. QED
    BY <1>8, <1>9

\* The mean of the first closes, and the next average.
EmaFirst(c, p) == [num |-> Backtest!Sum([j \in 1..p |-> 2 ^ c[j]], p), den |-> p]
EmaNext(p, x, v) == [num |-> 2 * 2 ^ x * v.den + (p - 1) * v.num, den |-> (p + 1) * v.den]
EmaTo(c, p, e) ==
  e = [i \in p..Len(c) |->
         IF i = p THEN [num |-> Backtest!Sum([j \in 1..i |-> 2 ^ c[j]], i), den |-> p]
         ELSE LET v == e[i - 1]
              IN  [num |-> 2 * 2 ^ c[i] * v.den + (p - 1) * v.num, den |-> (p + 1) * v.den]]

EmaSteps(c, p, n) ==
  \A i \in p..n : Backtest!Ema(c, p)[i] =
    IF i = p THEN EmaFirst(c, p) ELSE EmaNext(p, c[i], Backtest!Ema(c, p)[i - 1])

LEMMA EmaIs ==
  \A n \in Nat : \A c \in [1..n -> Nat] : \A p \in Nat \ {0} : Len(c) = n => EmaSteps(c, p, n)
  <1> SUFFICES ASSUME NEW n \in Nat, NEW c \in [1..n -> Nat], NEW p \in Nat \ {0}, Len(c) = n
               PROVE  EmaSteps(c, p, n)
    OBVIOUS
  <1>1. \A i \in 1..n : 2 ^ c[i] \in Int
    OBVIOUS
  <1>2. CASE n < p
    BY <1>2 DEF EmaSteps
  <1>3. CASE p <= n
    <2>1. PICK V : V = [num : Int, den : Int]
      OBVIOUS
    <2>2. EmaFirst(c, p) \in V
      <3>1. [j \in 1..p |-> 2 ^ c[j]] \in [1..p -> Int]
        BY <1>1, <1>3
      <3>2. p \in Nat
        OBVIOUS
      <3>3. Backtest!Sum([j \in 1..p |-> 2 ^ c[j]], p) \in Int
        BY <3>1, <3>2, SumTypes, Zenon
      <3>4. QED
        BY <2>1, <3>3 DEF EmaFirst
    <2>3. \A i \in p..n, v \in V : EmaNext(p, c[i], v) \in V
      BY <1>1, <2>1 DEF EmaNext
    <2>4. PICK x \in V : x = EmaFirst(c, p)
      BY <2>2
    <2>5. PICK g \in [p..n -> [V -> V]] : \A i \in p..n, v \in V : g[i][v] = EmaNext(p, c[i], v)
      <3> DEFINE g == [i \in p..n |-> [v \in V |-> EmaNext(p, c[i], v)]]
      <3>1. g \in [p..n -> [V -> V]]
        BY <2>3
      <3>2. \A i \in p..n, v \in V : g[i][v] = EmaNext(p, c[i], v)
        OBVIOUS
      <3> HIDE DEF g
      <3>3. QED
        BY <3>1, <3>2
    <2>6. Computable(p, n, V, x, g)
      <3>1. p \in Int /\ n \in Int
        OBVIOUS
      <3>2. QED
        BY <3>1, Recursion, Zenon
    <2>7. PICK e \in [p..n -> V] : Computes(p, n, x, g, e)
      BY <2>6, Zenon DEF Computable
    <2>8. e = [i \in p..n |-> IF i = p THEN EmaFirst(c, p) ELSE EmaNext(p, c[i], e[i - 1])]
      <3>1. \A i \in p..n : i # p => i - 1 \in p..n /\ e[i - 1] \in V
        OBVIOUS
      <3>2. \A i \in p..n : e[i] = IF i = p THEN EmaFirst(c, p) ELSE EmaNext(p, c[i], e[i - 1])
        BY <2>4, <2>5, <2>7, <3>1 DEF Computes
      <3>3. QED
        BY <3>2
    <2>9. \A d : EmaTo(c, p, d)
                   <=> d = [i \in p..n |-> IF i = p THEN EmaFirst(c, p)
                                           ELSE EmaNext(p, c[i], d[i - 1])]
      BY Zenon DEF EmaTo, EmaFirst, EmaNext
    <2>10. PICK d : d = (CHOOSE h : EmaTo(c, p, h)) /\ EmaTo(c, p, d)
      BY <2>8, <2>9
    <2>11. Backtest!Ema(c, p) = d
      BY <2>10, Zenon DEF Backtest!Ema, EmaTo
    <2>12. d = [i \in p..n |-> IF i = p THEN EmaFirst(c, p) ELSE EmaNext(p, c[i], d[i - 1])]
      BY <2>10, Zenon DEF EmaTo, EmaFirst, EmaNext
    <2>13. QED
      BY <2>11, <2>12, Zenon DEF EmaSteps
  <1>4. QED
    BY <1>2, <1>3

\* The first averages of gains and losses, and the next.
RsiFirst(c, q) == [gain |-> Backtest!Sum([j \in 1..q |-> Backtest!Gain(c, j)], q),
                   loss |-> Backtest!Sum([j \in 1..q |-> Backtest!Loss(c, j)], q), den |-> q]
RsiNext(c, q, i, v) == [gain |-> (q - 1) * v.gain + Backtest!Gain(c, i - 1) * v.den,
                        loss |-> (q - 1) * v.loss + Backtest!Loss(c, i - 1) * v.den,
                        den  |-> q * v.den]
RsiTo(c, r) ==
  r = [i \in RsiPeriod + 1..Len(c) |->
         IF i = RsiPeriod + 1
         THEN [gain |-> Backtest!Sum([j \in 1..RsiPeriod |-> Backtest!Gain(c, j)], RsiPeriod),
               loss |-> Backtest!Sum([j \in 1..RsiPeriod |-> Backtest!Loss(c, j)], RsiPeriod),
               den |-> RsiPeriod]
         ELSE LET v == r[i - 1]
              IN  [gain |-> (RsiPeriod - 1) * v.gain + Backtest!Gain(c, i - 1) * v.den,
                   loss |-> (RsiPeriod - 1) * v.loss + Backtest!Loss(c, i - 1) * v.den,
                   den  |-> RsiPeriod * v.den]]

RsiSteps(c, n) ==
  \A i \in RsiPeriod + 1..n : Backtest!Rsi(c)[i] =
    IF i = RsiPeriod + 1 THEN RsiFirst(c, RsiPeriod)
    ELSE RsiNext(c, RsiPeriod, i, Backtest!Rsi(c)[i - 1])

LEMMA MovesAre ==
  ASSUME NEW n \in Nat, NEW c \in [1..n -> Nat]
  PROVE  \A i \in 1..n : i < n => Backtest!Gain(c, i) \in Int /\ Backtest!Loss(c, i) \in Int
  <1> SUFFICES ASSUME NEW i \in 1..n, i < n
               PROVE  Backtest!Gain(c, i) \in Int /\ Backtest!Loss(c, i) \in Int
    OBVIOUS
  <1>1. c[i] \in Nat /\ c[i + 1] \in Nat
    OBVIOUS
  <1>2. 2 ^ c[i] \in Int /\ 2 ^ c[i + 1] \in Int
    BY <1>1
  <1>3. PICK a \in Int : a = 2 ^ c[i]
    BY <1>2
  <1>4. PICK b \in Int : b = 2 ^ c[i + 1]
    BY <1>2
  <1>5. /\ Backtest!Gain(c, i) = IF b - a > 0 THEN b - a ELSE 0
        /\ Backtest!Loss(c, i) = IF a - b > 0 THEN a - b ELSE 0
    BY <1>3, <1>4 DEF Backtest!Gain, Backtest!Loss
  <1>6. QED
    BY <1>5

LEMMA RsiIs ==
  \A n \in Nat : \A c \in [1..n -> Nat] : Len(c) = n => RsiSteps(c, n)
  <1> SUFFICES ASSUME NEW n \in Nat, NEW c \in [1..n -> Nat], Len(c) = n
               PROVE  RsiSteps(c, n)
    OBVIOUS
  <1>1. PICK q \in Nat \ {0} : q = RsiPeriod
    BY BacktestAssumption
  <1>2. CASE n < q + 1
    BY <1>1, <1>2 DEF RsiSteps
  <1>3. CASE q + 1 <= n
    <2>1. PICK V : V = [gain : Int, loss : Int, den : Int]
      OBVIOUS
    <2>2. RsiFirst(c, q) \in V
      <3>1. /\ [j \in 1..q |-> Backtest!Gain(c, j)] \in [1..q -> Int]
            /\ [j \in 1..q |-> Backtest!Loss(c, j)] \in [1..q -> Int]
        <4>1. \A j \in 1..q : j \in 1..n /\ j < n
          BY <1>3
        <4>2. QED
          BY <4>1, MovesAre
      <3>2. q \in Nat
        OBVIOUS
      <3>3. /\ Backtest!Sum([j \in 1..q |-> Backtest!Gain(c, j)], q) \in Int
            /\ Backtest!Sum([j \in 1..q |-> Backtest!Loss(c, j)], q) \in Int
        BY <3>1, <3>2, SumTypes, Zenon
      <3>4. QED
        BY <2>1, <3>3 DEF RsiFirst
    <2>3. ASSUME NEW i \in q + 1..n, NEW v \in V, i # q + 1
          PROVE  RsiNext(c, q, i, v) \in V
      <3>1. PICK k \in 1..n : k = i - 1 /\ k < n
        BY <2>3
      <3>2. Backtest!Gain(c, k) \in Int /\ Backtest!Loss(c, k) \in Int
        BY <3>1, MovesAre
      <3>3. PICK a \in Int : a = Backtest!Gain(c, k)
        BY <3>2
      <3>4. PICK b \in Int : b = Backtest!Loss(c, k)
        BY <3>2
      <3>5. v.gain \in Int /\ v.loss \in Int /\ v.den \in Int
        BY <2>1
      <3>6. RsiNext(c, q, i, v) = [gain |-> (q - 1) * v.gain + a * v.den,
                                   loss |-> (q - 1) * v.loss + b * v.den, den |-> q * v.den]
        BY <3>1, <3>3, <3>4 DEF RsiNext
      <3>7. /\ (q - 1) * v.gain + a * v.den \in Int
            /\ (q - 1) * v.loss + b * v.den \in Int
            /\ q * v.den \in Int
        <4>1. PICK r, s, d \in Int : r = v.gain /\ s = v.loss /\ d = v.den
          BY <3>5
        <4>2. (q - 1) * r + a * d \in Int /\ (q - 1) * s + b * d \in Int /\ q * d \in Int
          OBVIOUS
        <4>3. QED
          BY <4>1, <4>2, Zenon
      <3>8. QED
        BY <2>1, <3>6, <3>7
    <2>4. PICK x \in V : x = RsiFirst(c, q)
      BY <2>2
    <2>5. PICK g \in [q + 1..n -> [V -> V]] :
            \A i \in q + 1..n, v \in V : i # q + 1 => g[i][v] = RsiNext(c, q, i, v)
      <3> DEFINE g == [i \in q + 1..n |->
                        [v \in V |-> IF i = q + 1 THEN v ELSE RsiNext(c, q, i, v)]]
      <3>1. g \in [q + 1..n -> [V -> V]]
        BY <2>3
      <3>2. \A i \in q + 1..n, v \in V : i # q + 1 => g[i][v] = RsiNext(c, q, i, v)
        OBVIOUS
      <3> HIDE DEF g
      <3>3. QED
        BY <3>1, <3>2
    <2>14. PICK a \in Nat : a = q + 1
      OBVIOUS
    <2>6. Computable(a, n, V, x, g)
      <3>1. a \in Int /\ n \in Int /\ g \in [a..n -> [V -> V]]
        BY <2>14
      <3>2. QED
        BY <3>1, Recursion, Zenon
    <2>7. PICK e \in [a..n -> V] : Computes(a, n, x, g, e)
      BY <2>6, Zenon DEF Computable
    <2>8. e = [i \in q + 1..n |-> IF i = q + 1 THEN RsiFirst(c, q) ELSE RsiNext(c, q, i, e[i - 1])]
      <3>1. \A i \in a..n : i # a => i - 1 \in a..n /\ e[i - 1] \in V
        OBVIOUS
      <3>2. \A i \in a..n : e[i] = IF i = a THEN RsiFirst(c, q) ELSE RsiNext(c, q, i, e[i - 1])
        BY <2>4, <2>5, <2>7, <2>14, <3>1 DEF Computes
      <3>3. QED
        BY <2>14, <3>2
    <2>9. \A d : RsiTo(c, d)
                   <=> d = [i \in q + 1..n |-> IF i = q + 1 THEN RsiFirst(c, q)
                                               ELSE RsiNext(c, q, i, d[i - 1])]
      BY <1>1, Zenon DEF RsiTo, RsiFirst, RsiNext
    <2>10. PICK d : d = (CHOOSE h : RsiTo(c, h)) /\ RsiTo(c, d)
      BY <2>8, <2>9
    <2>11. Backtest!Rsi(c) = d
      BY <2>10, Zenon DEF Backtest!Rsi, RsiTo
    <2>12. d = [i \in q + 1..n |-> IF i = q + 1 THEN RsiFirst(c, q) ELSE RsiNext(c, q, i, d[i - 1])]
      BY <1>1, <2>10, Zenon DEF RsiTo, RsiFirst, RsiNext
    <2>13. QED
      BY <1>1, <2>11, <2>12, Zenon DEF RsiSteps
  <1>4. QED
    BY <1>2, <1>3

-----------------------------------------------------------------------------
(* Candles that agree before one of them. *)

AgreeBefore(c, d, n, q) ==
  /\ n \in Nat /\ q \in Nat
  /\ c \in [1..n -> Nat] /\ Len(c) = n
  /\ d \in [1..n -> Nat] /\ Len(d) = n
  /\ \A i \in 1..n : i < q => c[i] = d[i]

LEMMA EmaAgrees ==
  ASSUME NEW n, NEW q, NEW c, NEW d, AgreeBefore(c, d, n, q), NEW p \in Nat \ {0}
  PROVE  \A i \in p..n : i < q => Backtest!Ema(c, p)[i] = Backtest!Ema(d, p)[i]
  <1>1. PICK e : e = Backtest!Ema(c, p)
    OBVIOUS
  <1>2. PICK f : f = Backtest!Ema(d, p)
    OBVIOUS
  <1>3. n \in Nat /\ q \in Nat
    BY DEF AgreeBefore
  <1>4. EmaSteps(c, p, n) /\ EmaSteps(d, p, n)
    BY EmaIs DEF AgreeBefore
  <1>5. /\ \A i \in p..n : e[i] = IF i = p THEN EmaFirst(c, p) ELSE EmaNext(p, c[i], e[i - 1])
        /\ \A i \in p..n : f[i] = IF i = p THEN EmaFirst(d, p) ELSE EmaNext(p, d[i], f[i - 1])
    BY <1>1, <1>2, <1>4, Zenon DEF EmaSteps
  <1>6. PICK S : S = {i \in p..n : i < q => e[i] = f[i]}
    OBVIOUS
  <1>7. ASSUME p <= n
        PROVE  p \in S
    <2>1. p \in p..n /\ e[p] = EmaFirst(c, p) /\ f[p] = EmaFirst(d, p)
      BY <1>3, <1>5, <1>7
    <2>2. ASSUME p < q
          PROVE  e[p] = f[p]
      <3>1. \A j \in 1..p : c[j] = d[j]
        BY <1>3, <1>7, <2>2 DEF AgreeBefore
      <3>2. [j \in 1..p |-> 2 ^ c[j]] = [j \in 1..p |-> 2 ^ d[j]]
        BY <3>1
      <3>3. QED
        BY <2>1, <3>2 DEF EmaFirst
    <2>3. QED
      BY <1>6, <2>1, <2>2
  <1>8. ASSUME NEW i \in p..(n - 1), i \in S
        PROVE  i + 1 \in S
    <2>1. PICK j \in p..n : j = i + 1 /\ j - 1 = i /\ j # p
      BY <1>3
    <2>2. ASSUME j < q
          PROVE  e[j] = f[j]
      <3>1. c[j] = d[j] /\ e[i] = f[i]
        BY <1>3, <1>6, <1>8, <2>1, <2>2 DEF AgreeBefore
      <3>2. e[j] = EmaNext(p, c[j], e[i]) /\ f[j] = EmaNext(p, d[j], f[i])
        BY <1>5, <2>1
      <3>3. QED
        BY <3>1, <3>2
    <2>3. QED
      BY <1>6, <2>1, <2>2
  <1>9. p..n \subseteq S
    <2>1. CASE p <= n
      <3>1. Continues(p, n, S) /\ p \in Int /\ n \in Int /\ p \in S
        BY <1>3, <1>7, <1>8, <2>1 DEF Continues
      <3>2. QED
        BY <3>1, UpTo, Zenon
    <2>2. CASE ~(p <= n)
      BY <1>3, <2>2
    <2>3. QED
      BY <2>1, <2>2
  <1>10. QED
    BY <1>1, <1>2, <1>6, <1>9

LEMMA RsiAgrees ==
  ASSUME NEW n, NEW q, NEW c, NEW d, AgreeBefore(c, d, n, q)
  PROVE  \A i \in RsiPeriod + 1..n : i < q => Backtest!Rsi(c)[i] = Backtest!Rsi(d)[i]
  <1>1. PICK e : e = Backtest!Rsi(c)
    OBVIOUS
  <1>2. PICK f : f = Backtest!Rsi(d)
    OBVIOUS
  <1>3. n \in Nat /\ q \in Nat
    BY DEF AgreeBefore
  <1>4. RsiSteps(c, n) /\ RsiSteps(d, n)
    BY RsiIs DEF AgreeBefore
  <1>5. PICK r \in Nat \ {0} : r = RsiPeriod
    BY BacktestAssumption
  <1>6. /\ \A i \in r + 1..n : e[i] = IF i = r + 1 THEN RsiFirst(c, r) ELSE RsiNext(c, r, i, e[i - 1])
        /\ \A i \in r + 1..n : f[i] = IF i = r + 1 THEN RsiFirst(d, r) ELSE RsiNext(d, r, i, f[i - 1])
    BY <1>1, <1>2, <1>4, <1>5, Zenon DEF RsiSteps
  <1>7. PICK S : S = {i \in r + 1..n : i < q => e[i] = f[i]}
    OBVIOUS
  <1>8. ASSUME NEW j \in 1..n, j < n, j + 1 < q
        PROVE  Backtest!Gain(c, j) = Backtest!Gain(d, j) /\ Backtest!Loss(c, j) = Backtest!Loss(d, j)
    <2>1. c[j] = d[j] /\ c[j + 1] = d[j + 1]
      BY <1>3, <1>8 DEF AgreeBefore
    <2>2. QED
      BY <2>1 DEF Backtest!Gain, Backtest!Loss
  <1>9. ASSUME r + 1 <= n
        PROVE  r + 1 \in S
    <2>1. r + 1 \in r + 1..n /\ e[r + 1] = RsiFirst(c, r) /\ f[r + 1] = RsiFirst(d, r)
      BY <1>3, <1>6, <1>9
    <2>2. ASSUME r + 1 < q
          PROVE  e[r + 1] = f[r + 1]
      <3>1. \A j \in 1..r : j \in 1..n /\ j < n /\ j + 1 < q
        BY <1>3, <1>9, <2>2
      <3>2. /\ [j \in 1..r |-> Backtest!Gain(c, j)] = [j \in 1..r |-> Backtest!Gain(d, j)]
            /\ [j \in 1..r |-> Backtest!Loss(c, j)] = [j \in 1..r |-> Backtest!Loss(d, j)]
        BY <1>8, <3>1
      <3>3. QED
        BY <2>1, <3>2 DEF RsiFirst
    <2>3. QED
      BY <1>7, <2>1, <2>2
  <1>10. ASSUME NEW i \in r + 1..(n - 1), i \in S
         PROVE  i + 1 \in S
    <2>1. PICK j \in r + 1..n : j = i + 1 /\ j - 1 = i /\ j # r + 1
      BY <1>3
    <2>2. ASSUME j < q
          PROVE  e[j] = f[j]
      <3>1. i \in 1..n /\ i < n /\ i + 1 < q /\ e[i] = f[i]
        BY <1>3, <1>7, <1>10, <2>1, <2>2
      <3>2. Backtest!Gain(c, i) = Backtest!Gain(d, i) /\ Backtest!Loss(c, i) = Backtest!Loss(d, i)
        BY <1>8, <3>1
      <3>3. e[j] = RsiNext(c, r, j, e[i]) /\ f[j] = RsiNext(d, r, j, f[i])
        BY <1>6, <2>1
      <3>4. RsiNext(c, r, j, e[i]) = RsiNext(d, r, j, e[i])
        BY <2>1, <3>2 DEF RsiNext
      <3>5. QED
        BY <3>1, <3>3, <3>4
    <2>3. QED
      BY <1>7, <2>1, <2>2
  <1>11. r + 1..n \subseteq S
    <2>1. CASE r + 1 <= n
      <3>1. Continues(r + 1, n, S) /\ r + 1 \in Int /\ n \in Int /\ r + 1 \in S
        BY <1>3, <1>9, <1>10, <2>1 DEF Continues
      <3>2. QED
        BY <3>1, UpTo, Zenon
    <2>2. CASE ~(r + 1 <= n)
      BY <1>3, <2>2
    <2>3. QED
      BY <2>1, <2>2
  <1>12. QED
    BY <1>1, <1>2, <1>5, <1>7, <1>11

\* The gap between the averages, and when a candle is judged.
GapAt(c, p, i) ==
  Backtest!Ema(c, p.fast)[i].num * Backtest!Ema(c, p.slow)[i].den
    - Backtest!Ema(c, p.slow)[i].num * Backtest!Ema(c, p.fast)[i].den
Judged(n, p, first) == {i \in 2..n : i >= first /\ i >= Backtest!Ready(p)}

LEMMA SignalsAgree ==
  ASSUME NEW n, NEW q, NEW c, NEW d, AgreeBefore(c, d, n, q), NEW first,
         NEW p, p.fast \in Nat \ {0}, p.slow \in Nat \ {0}, p.fast < p.slow
  PROVE  \A i \in 1..n : i < q =>
           /\ i \in Backtest!Signals(c, p, first).enter <=> i \in Backtest!Signals(d, p, first).enter
           /\ i \in Backtest!Signals(c, p, first).leave <=> i \in Backtest!Signals(d, p, first).leave
  <1> SUFFICES ASSUME NEW i \in 1..n, i < q
               PROVE  /\ i \in Backtest!Signals(c, p, first).enter
                           <=> i \in Backtest!Signals(d, p, first).enter
                      /\ i \in Backtest!Signals(c, p, first).leave
                           <=> i \in Backtest!Signals(d, p, first).leave
    OBVIOUS
  <1>1. n \in Nat /\ q \in Nat /\ Len(c) = n /\ Len(d) = n
    BY DEF AgreeBefore
  <1>2. PICK r \in Nat \ {0} : r = RsiPeriod
    BY BacktestAssumption
  <1>6. \A x \in {c, d} :
          /\ i \in Backtest!Signals(x, p, first).enter
               <=> /\ i \in Judged(n, p, first) /\ GapAt(x, p, i) > 0 /\ GapAt(x, p, i - 1) <= 0
                   /\ Backtest!RsiAtLeast(Backtest!Rsi(x)[i], p.entry)
          /\ i \in Backtest!Signals(x, p, first).leave
               <=> /\ i \in Judged(n, p, first)
                   /\ \/ GapAt(x, p, i) < 0 /\ GapAt(x, p, i - 1) >= 0
                      \/ Backtest!RsiAtMost(Backtest!Rsi(x)[i], p.exit)
    <2> SUFFICES ASSUME NEW x \in {c, d}
                 PROVE  /\ i \in Backtest!Signals(x, p, first).enter
                             <=> /\ i \in Judged(n, p, first)
                                 /\ GapAt(x, p, i) > 0 /\ GapAt(x, p, i - 1) <= 0
                                 /\ Backtest!RsiAtLeast(Backtest!Rsi(x)[i], p.entry)
                        /\ i \in Backtest!Signals(x, p, first).leave
                             <=> /\ i \in Judged(n, p, first)
                                 /\ \/ GapAt(x, p, i) < 0 /\ GapAt(x, p, i - 1) >= 0
                                    \/ Backtest!RsiAtMost(Backtest!Rsi(x)[i], p.exit)
      OBVIOUS
    <2>1. Len(x) = n
      BY <1>1
    <2>2. Backtest!Signals(x, p, first).enter =
            {j \in Judged(n, p, first) : /\ GapAt(x, p, j) > 0 /\ GapAt(x, p, j - 1) <= 0
                                         /\ Backtest!RsiAtLeast(Backtest!Rsi(x)[j], p.entry)}
      BY <2>1, Zenon DEF Backtest!Signals, GapAt, Judged
    <2>3. Backtest!Signals(x, p, first).leave =
            {j \in Judged(n, p, first) : \/ GapAt(x, p, j) < 0 /\ GapAt(x, p, j - 1) >= 0
                                         \/ Backtest!RsiAtMost(Backtest!Rsi(x)[j], p.exit)}
      BY <2>1, Zenon DEF Backtest!Signals, GapAt, Judged
    <2>4. QED
      BY <2>2, <2>3, Zenon
  <1>3. CASE i \notin Judged(n, p, first)
    BY <1>3, <1>6, Zenon
  <1>4. CASE i \in Judged(n, p, first)
    <2>1. i >= Backtest!Ready(p)
      BY <1>4 DEF Judged
    <2>2. Backtest!Ready(p) = IF p.slow >= r THEN p.slow + 1 ELSE r + 1
      BY <1>2 DEF Backtest!Ready
    <2>3. /\ i \in r + 1..n
          /\ i \in p.slow..n /\ i - 1 \in p.slow..n /\ i \in p.fast..n /\ i - 1 \in p.fast..n
          /\ i - 1 < q
      <3>1. PICK s \in Nat, f \in Nat : s = p.slow /\ f = p.fast /\ f < s
        OBVIOUS
      <3>2. i >= s + 1 /\ i >= r + 1
        BY <1>1, <2>1, <2>2, <3>1
      <3>3. QED
        BY <1>1, <3>1, <3>2
    <2>4. Backtest!Rsi(c)[i] = Backtest!Rsi(d)[i]
      BY <1>2, <2>3, RsiAgrees
    <2>5. \A j \in {i, i - 1} :
            /\ Backtest!Ema(c, p.fast)[j] = Backtest!Ema(d, p.fast)[j]
            /\ Backtest!Ema(c, p.slow)[j] = Backtest!Ema(d, p.slow)[j]
      BY <2>3, EmaAgrees
    <2>6. GapAt(c, p, i) = GapAt(d, p, i) /\ GapAt(c, p, i - 1) = GapAt(d, p, i - 1)
      BY <2>5 DEF GapAt
    <2>7. QED
      BY <1>6, <2>4, <2>6, Zenon
  <1>5. QED
    BY <1>3, <1>4

\* Candles and signals that agree before a candle lead to the same points of
\* the curve before it.
AgreeSignals(S, T, n, q) ==
  \A i \in 1..n : i < q => ((i \in S.enter <=> i \in T.enter) /\ (i \in S.leave <=> i \in T.leave))
SamePoints(x, y, m) == \A j \in 1..m : x.curve[j] = y.curve[j]

LEMMA SimulationsAgree ==
  \A n \in Nat \ {0} : \A q, a \in Nat : \A capital \in Money : \A c, d, S, T :
    a < q /\ q <= n /\ AgreeBefore(c, d, n, q) /\ AgreeSignals(S, T, n, q) =>
      SamePoints(Backtest!Simulate(c, S, capital, a + 1), Backtest!Simulate(d, T, capital, a + 1),
                 q - a)
  <1> SUFFICES
        ASSUME NEW n \in Nat \ {0}, NEW q \in Nat, NEW a \in Nat, NEW capital \in Money,
               NEW c, NEW d, NEW S, NEW T, a < q, q <= n,
               AgreeBefore(c, d, n, q), AgreeSignals(S, T, n, q)
        PROVE  SamePoints(Backtest!Simulate(c, S, capital, a + 1),
                          Backtest!Simulate(d, T, capital, a + 1), q - a)
    OBVIOUS
  <1>1. PICK first \in 1..n : first = a + 1 /\ first - 1 = a
    OBVIOUS
  <1>2. /\ c \in [1..n -> Int] /\ Len(c) = n /\ d \in [1..n -> Int] /\ Len(d) = n
        /\ \A i \in 1..n : i < q => c[i] = d[i]
    BY DEF AgreeBefore
  <1>3. PICK s : Simulates(c, S, capital, first, n, s)
    BY <1>2, SimulationIs
  <1>4. PICK t : Simulates(d, T, capital, first, n, t)
    BY <1>2, SimulationIs
  <1>5. /\ SimulationSteps(c, S, capital, a, n, s)
        /\ SimulationSteps(d, T, capital, a, n, t)
    BY <1>1, <1>3, <1>4 DEF Simulates
  <1>6. PICK E : E = {i \in a..(q - 1) : s[i] = t[i]}
    OBVIOUS
  <1>7. a \in E
    <2>1. s[a] = t[a]
      BY <1>5 DEF SimulationSteps
    <2>2. QED
      BY <1>6, <2>1
  <1>8. ASSUME NEW i \in a..((q - 1) - 1), i \in E
        PROVE  i + 1 \in E
    <2>1. PICK j \in a..n : j = i + 1 /\ j - 1 = i /\ j # a /\ j \in a..(q - 1)
      BY <1>8
    <2>2. j \in 1..n /\ j < q /\ s[i] = t[i]
      BY <1>6, <1>8, <2>1
    <2>3. /\ s[j] = Backtest!Candle(s[i], c[j], j \in S.enter, j \in S.leave)
          /\ t[j] = Backtest!Candle(t[i], d[j], j \in T.enter, j \in T.leave)
      BY <1>5, <2>1 DEF SimulationSteps
    <2>4. c[j] = d[j] /\ (j \in S.enter) = (j \in T.enter) /\ (j \in S.leave) = (j \in T.leave)
      <3>1. c[j] = d[j]
        BY <1>2, <2>2
      <3>2. (j \in S.enter <=> j \in T.enter) /\ (j \in S.leave <=> j \in T.leave)
        BY <2>2 DEF AgreeSignals
      <3>3. QED
        BY <3>1, <3>2
    <2>5. s[j] = t[j]
      BY <2>2, <2>3, <2>4, Zenon
    <2>6. QED
      BY <1>6, <2>1, <2>5
  <1>9. a..(q - 1) \subseteq E
    <2>1. Continues(a, q - 1, E) /\ a \in Int /\ q - 1 \in Int
      BY <1>8 DEF Continues
    <2>2. QED
      BY <1>7, <2>1, UpTo, Zenon
  <1>10. PICK k \in a..n : k = q - 1 /\ s[k] = t[k]
    <2>1. q - 1 \in a..(q - 1) /\ q - 1 \in a..n
      OBVIOUS
    <2>2. s[q - 1] = t[q - 1]
      BY <1>6, <1>9, <2>1
    <2>3. QED
      BY <2>1, <2>2
  <1>11. ASSUME NEW x, NEW X, NEW r, SimulationSteps(x, X, capital, a, n, r), x \in [1..n -> Int]
         PROVE  \A j \in 1..(q - a) : Backtest!Sold(r[n], x[n]).curve[j] = r[k].curve[j]
    <2> SUFFICES ASSUME NEW j \in 1..(q - a)
                 PROVE  Backtest!Sold(r[n], x[n]).curve[j] = r[k].curve[j]
      OBVIOUS
    <2>1. PICK G : G = {i \in k..n : r[i].curve[j] = r[k].curve[j]}
      OBVIOUS
    <2>2. k \in G
      BY <2>1
    <2>3. ASSUME NEW i \in k..(n - 1), i \in G
          PROVE  i + 1 \in G
      <3>1. PICK l \in a..n : l = i + 1 /\ l - 1 = i /\ l # a /\ l \in k..n
        BY <2>3
      <3>2. Longer(r[i], r[l]) /\ Len(r[i].curve) = i - a + 1
        BY <1>11, <3>1 DEF SimulationSteps
      <3>3. j \in 1..Len(r[i].curve)
        BY <1>10, <3>2
      <3>4. r[l].curve[j] = r[i].curve[j]
        BY <3>2, <3>3 DEF Longer
      <3>5. r[i].curve[j] = r[k].curve[j]
        BY <2>1, <2>3
      <3>6. QED
        BY <2>1, <3>1, <3>4, <3>5
    <2>4. k..n \subseteq G
      <3>1. Continues(k, n, G) /\ k \in Int /\ n \in Int
        BY <2>3 DEF Continues
      <3>2. QED
        BY <2>2, <3>1, UpTo, Zenon
    <2>5. r[n].curve[j] = r[k].curve[j]
      <3>1. n \in k..n
        OBVIOUS
      <3>2. QED
        BY <2>1, <2>4, <3>1
    <2>6. PICK v : v = r[n]
      OBVIOUS
    <2>7. PICK close \in Int : close = x[n]
      BY <1>11
    <2>8. Balanced(capital, v) /\ Len(v.curve) = n - a + 1
      <3>1. n \in a..n
        OBVIOUS
      <3>2. QED
        BY <1>11, <2>6, <3>1 DEF SimulationSteps
    <2>9. Ended(v, Backtest!Sold(v, close))
      <3>1. Len(v.curve) > 1
        BY <2>8
      <3>2. QED
        BY <2>8, <3>1, SoldKeeps, Zenon
    <2>10. j \in 1..Len(v.curve) /\ j < Len(v.curve)
      BY <2>8
    <2>11. Backtest!Sold(v, close).curve[j] = v.curve[j]
      BY <2>9, <2>10 DEF Ended
    <2>12. QED
      BY <2>5, <2>6, <2>7, <2>11
  <1>12. /\ \A j \in 1..(q - a) : Backtest!Sold(s[n], c[n]).curve[j] = s[k].curve[j]
         /\ \A j \in 1..(q - a) : Backtest!Sold(t[n], d[n]).curve[j] = t[k].curve[j]
    BY <1>2, <1>5, <1>11
  <1>13. /\ Backtest!Simulate(c, S, capital, a + 1) = Backtest!Sold(s[n], c[n])
         /\ Backtest!Simulate(d, T, capital, a + 1) = Backtest!Sold(t[n], d[n])
    BY <1>1, <1>3, <1>4 DEF Simulates
  <1>14. QED
    BY <1>10, <1>12, <1>13 DEF SamePoints

\* A change at a candle of the test leaves the curve before it as it was.
LEMMA WindowLooksBack ==
  ASSUME NEW all \in Seq(Nat), NEW start \in Nat, start + Training + Testing <= Len(all),
         NEW capital \in Money, NEW i \in 1..Testing, NEW e \in Nat,
         NEW w, w = Backtest!Window(all, start, capital),
         NEW o, o = Backtest!Window(Backtest!Change(all, start + Training + i, e), start, capital)
  PROVE  o.best = w.best /\ \A j \in 1..i : o.run.curve[j] = w.run.curve[j]
  <1>1. PICK t \in Nat : t = Training
    BY BacktestAssumption
  <1>2. PICK u \in Nat : u = Testing
    BY BacktestAssumption
  <1>3. PICK k \in Nat : k = Len(all)
    OBVIOUS
  <1>4. PICK at \in 1..k : at = start + t + i
    BY <1>1, <1>2, <1>3
  <1>5. PICK new \in Seq(Nat) : /\ new = Backtest!Change(all, start + Training + i, e)
                                /\ Len(new) = k /\ \A j \in 1..k : j # at => new[j] = all[j]
    <2>1. PICK s : s = [all EXCEPT ![at] = e]
      OBVIOUS
    <2>2. s \in Seq(Nat) /\ Len(s) = k /\ \A j \in 1..k : j # at => s[j] = all[j]
      BY <1>3, <1>4, <2>1
    <2>3. s = Backtest!Change(all, start + Training + i, e)
      BY <1>1, <1>4, <2>1 DEF Backtest!Change
    <2>4. QED
      BY <2>2, <2>3
  <1>6. Backtest!TrainingRows(new, start) = Backtest!TrainingRows(all, start)
    <2>1. start + t <= k
      BY <1>1, <1>2, <1>3
    <2>2. PICK a : a = Backtest!Slice(all, start, t)
      OBVIOUS
    <2>3. PICK b : b = Backtest!Slice(new, start, t)
      OBVIOUS
    <2>4. /\ a \in [1..t -> Nat] /\ \A j \in 1..t : a[j] = all[start + j]
      <3>1. all \in Seq(Nat) /\ start \in Nat /\ t \in Nat /\ start + t <= Len(all)
        BY <1>3, <2>1
      <3>2. QED
        BY <2>2, <3>1, SliceOf, Zenon
    <2>5. /\ b \in [1..t -> Nat] /\ \A j \in 1..t : b[j] = new[start + j]
      <3>1. new \in Seq(Nat) /\ start \in Nat /\ t \in Nat /\ start + t <= Len(new)
        BY <1>5, <2>1
      <3>2. QED
        BY <2>3, <3>1, SliceOf, Zenon
    <2>6. \A j \in 1..t : all[start + j] = new[start + j]
      <3>1. \A j \in 1..t : start + j \in 1..k /\ start + j # at
        BY <1>4, <2>1
      <3>2. QED
        BY <1>5, <3>1
    <2>7. a = b
      <3>1. a = [j \in 1..t |-> all[start + j]] /\ b = [j \in 1..t |-> new[start + j]]
        BY <2>4, <2>5
      <3>2. QED
        BY <2>6, <3>1
    <2>8. QED
      BY <1>1, <2>2, <2>3, <2>7 DEF Backtest!TrainingRows
  <1>7. PICK best : /\ best = Backtest!Best(Backtest!TrainingRows(all, start))
                    /\ best = Backtest!Best(Backtest!TrainingRows(new, start))
                    /\ best \in DOMAIN Parameters
    BY <1>6, BestIsCandidate
  <1>8. PICK n, from, first \in Nat :
           /\ n # 0 /\ first \in 1..n
           /\ from = Backtest!WarmUpStart(start) /\ n = start + Training + Testing - from
           /\ first = n - Testing + 1 /\ from + first = start + Training + 1
           /\ WindowCandles(all, start) \in [1..n -> Nat] /\ Len(WindowCandles(all, start)) = n
           /\ \A j \in 1..n : WindowCandles(all, start)[j] = all[from + j]
    BY WindowCandlesAre
  <1>9. /\ WindowCandles(new, start) \in [1..n -> Nat] /\ Len(WindowCandles(new, start)) = n
        /\ \A j \in 1..n : WindowCandles(new, start)[j] = new[from + j]
    <2>1. start + Training + Testing <= Len(new)
      BY <1>3, <1>5
    <2>2. PICK m, from2, first2 \in Nat :
           /\ m # 0 /\ first2 \in 1..m
           /\ from2 = Backtest!WarmUpStart(start) /\ m = start + Training + Testing - from2
           /\ first2 = m - Testing + 1 /\ from2 + first2 = start + Training + 1
           /\ WindowCandles(new, start) \in [1..m -> Nat] /\ Len(WindowCandles(new, start)) = m
           /\ \A j \in 1..m : WindowCandles(new, start)[j] = new[from2 + j]
      BY <1>5, <2>1, WindowCandlesAre
    <2>3. from2 = from /\ m = n
      BY <1>8, <2>2
    <2>4. QED
      BY <2>2, <2>3
  <1>10. PICK c : c = WindowCandles(all, start)
    OBVIOUS
  <1>11. PICK d : d = WindowCandles(new, start)
    OBVIOUS
  <1>12. PICK a \in Nat : a = first - 1 /\ a + u = n /\ from + a = start + t
    <2>1. first = n - u + 1 /\ from + first = start + t + 1
      BY <1>1, <1>2, <1>8
    <2>2. PICK a \in Nat : a = first - 1
      BY <1>8
    <2>3. a + u = n /\ from + a = start + t
      BY <2>1, <2>2
    <2>4. QED
      BY <2>2, <2>3
  <1>13. PICK q \in Nat : q = a + i /\ a < q /\ q <= n
    BY <1>2, <1>12
  <1>14. AgreeBefore(c, d, n, q)
    <2>1. ASSUME NEW j \in 1..n, j < q
          PROVE  c[j] = d[j]
      <3>1. from + j # at /\ from + j \in 1..k
        BY <1>1, <1>2, <1>3, <1>4, <1>12, <1>13, <2>1
      <3>2. QED
        BY <1>5, <1>8, <1>9, <1>10, <1>11, <3>1
    <2>2. QED
      BY <1>8, <1>9, <1>10, <1>11, <2>1 DEF AgreeBefore
  <1>15. PICK p : p = Parameters[best]
    OBVIOUS
  <1>16. p.fast \in Nat \ {0} /\ p.slow \in Nat \ {0} /\ p.fast < p.slow
    <2>1. p \in [fast : Nat, slow : Nat, entry : 0 .. 100, exit : 0 .. 100]
      <3>1. Parameters \in Seq([fast : Nat, slow : Nat, entry : 0 .. 100, exit : 0 .. 100])
        BY BacktestAssumption
      <3>2. QED
        BY <1>7, <1>15, <3>1, MemberOfSeq, Zenon
    <2>2. 2 <= p.fast /\ p.fast < p.slow
      BY <1>7, <1>15, BacktestAssumption
    <2>3. QED
      BY <2>1, <2>2
  <1>17. PICK S : S = Backtest!Signals(c, p, first)
    OBVIOUS
  <1>18. PICK T : T = Backtest!Signals(d, p, first)
    OBVIOUS
  <1>19. AgreeSignals(S, T, n, q)
    BY <1>14, <1>16, <1>17, <1>18, SignalsAgree DEF AgreeSignals
  <1>20. SamePoints(Backtest!Simulate(c, S, capital, a + 1),
                    Backtest!Simulate(d, T, capital, a + 1), q - a)
    <2>1. n \in Nat \ {0} /\ q \in Nat /\ a \in Nat /\ capital \in Money /\ a < q /\ q <= n
      BY <1>8, <1>13
    <2>2. QED
      BY <1>14, <1>19, <2>1, SimulationsAgree, Zenon
  <1>21. /\ w.best = best /\ w.run = Backtest!Simulate(c, S, capital, first)
         /\ o.best = best /\ o.run = Backtest!Simulate(d, T, capital, first)
    <2>1. Len(c) = n /\ Len(d) = n
      BY <1>8, <1>9, <1>10, <1>11
    <2>2. /\ w.best = best /\ w.run = Backtest!Strategy(c, p, capital, first)
      BY <1>7, <1>8, <1>10, <1>15, <2>1 DEF Backtest!Window, WindowCandles
    <2>3. /\ o.best = best /\ o.run = Backtest!Strategy(d, p, capital, first)
      BY <1>5, <1>7, <1>8, <1>11, <1>15, <2>1 DEF Backtest!Window, WindowCandles
    <2>4. QED
      BY <1>17, <1>18, <2>2, <2>3 DEF Backtest!Strategy
  <1>22. a + 1 = first /\ q - a = i
    BY <1>12, <1>13
  <1>23. QED
    BY <1>20, <1>21, <1>22 DEF SamePoints

\* The last window of the walk is what the candles loaded lead to.
LastWindowInv ==
  /\ \E W : test.windows \in Seq(W)
  /\ test.windows # <<>> =>
       \E start \in Nat, capital \in Money :
         /\ start + Training + Testing <= Len(loaded)
         /\ test.windows[Len(test.windows)] = Backtest!Window(loaded, start, capital)

LEMMA LastWindowStart ==
  ASSUME Backtest!Init
  PROVE  LastWindowInv
  <1>1. test.windows = <<>> /\ <<>> \in Seq({})
    BY DEF Backtest!Init, Backtest!NoTest
  <1>2. QED
    BY <1>1 DEF LastWindowInv

LEMMA LastWindowStep ==
  ASSUME FiguresInv, LastWindowInv, Backtest!Next
  PROVE  LastWindowInv'
  <1>1. CASE Backtest!Load
    <2>1. test = Backtest!NoTest /\ test' = test
      BY <1>1 DEF FiguresInv, CandlesInv, Backtest!Load
    <2>2. test'.windows = <<>> /\ <<>> \in Seq({})
      BY <2>1 DEF Backtest!NoTest
    <2>3. QED
      BY <2>2 DEF LastWindowInv
  <1>2. CASE Backtest!WalkForward
    <2>1. PICK w : w = Backtest!Window(loaded, test.at, test.capital)
      OBVIOUS
    <2>2. test'.windows = Append(test.windows, w) /\ loaded' = loaded
      BY <1>2, <2>1 DEF Backtest!WalkForward
    <2>3. PICK W : test.windows \in Seq(W)
      BY DEF LastWindowInv
    <2>4. /\ Append(test.windows, w) \in Seq(W \cup {w})
          /\ Append(test.windows, w)[Len(Append(test.windows, w))] = w
      BY <2>3
    <2>5. test.at \in Nat /\ test.capital \in Money /\ test.at + Training + Testing <= Len(loaded)
      BY <1>2, WalkCandles DEF FiguresInv, CandlesInv
    <2>6. \E start \in Nat, capital \in Money :
            /\ start + Training + Testing <= Len(loaded')
            /\ test'.windows[Len(test'.windows)] = Backtest!Window(loaded', start, capital)
      <3>1. test'.windows[Len(test'.windows)] = Backtest!Window(loaded', test.at, test.capital)
        BY <2>1, <2>2, <2>4
      <3>2. test.at + Training + Testing <= Len(loaded')
        BY <2>2, <2>5
      <3>3. QED
        BY <2>5, <3>1, <3>2
    <2>7. QED
      BY <2>2, <2>4, <2>6 DEF LastWindowInv
  <1>3. CASE Backtest!Finish
    BY <1>3 DEF Backtest!Finish, LastWindowInv
  <1>4. QED
    BY <1>1, <1>2, <1>3 DEF Backtest!Next

\* No window of a backtest looks ahead of the candle it judges: with another
\* close at any candle of its test it would have chosen the same parameters,
\* and come to the same equity before that candle.
THEOREM NoWindowLooksAhead == AnalysisSpec => []NoLookAhead
  <1>1. AnalysisInit => FiguresInv /\ LastWindowInv
    BY PartsStart, FiguresStart, LastWindowStart
  <1>2. FiguresInv /\ [AnalysisNext]_allVars => FiguresInv'
    BY FiguresStep
  <1>3. FiguresInv /\ LastWindowInv /\ [AnalysisNext]_allVars => LastWindowInv'
    <2> SUFFICES ASSUME FiguresInv, LastWindowInv, [AnalysisNext]_allVars PROVE LastWindowInv'
      OBVIOUS
    <2>1. CASE Backtest!Next
      BY <2>1, LastWindowStep
    <2>2. CASE UNCHANGED backtestVars
      BY <2>2 DEF backtestVars, LastWindowInv
    <2>3. QED
      BY <2>1, <2>2, PartsStep
  <1>4. ASSUME FiguresInv, LastWindowInv
        PROVE  NoLookAhead
    <2> SUFFICES ASSUME test.windows # <<>>, NEW w, w = test.windows[Len(test.windows)],
                        NEW i \in 1..Testing, NEW e \in Closes,
                        NEW o, o = Backtest!Window(
                                     Backtest!Change(loaded, w.start + Training + i, e),
                                     w.start, w.run.curve[1])
                 PROVE  o.best = w.best /\ \A j \in 1..i : o.run.curve[j] = w.run.curve[j]
      BY DEF NoLookAhead, Backtest!NoLookAhead
    <2>1. PICK start \in Nat, capital \in Money :
            /\ start + Training + Testing <= Len(loaded)
            /\ w = Backtest!Window(loaded, start, capital)
      BY <1>4 DEF LastWindowInv
    <2>2. loaded \in Seq(Nat) /\ e \in Nat
      BY <1>4, BacktestAssumption DEF FiguresInv, CandlesInv
    <2>3. w.start = start
      BY <2>1 DEF Backtest!Window
    <2>4. w.run.curve[1] = capital
      <3>1. PICK run : run = Backtest!Window(loaded, start, capital).run /\ Balanced(capital, run)
        BY <2>1, <2>2, WindowRuns
      <3>2. QED
        BY <2>1, <3>1 DEF Balanced
    <2>5. o = Backtest!Window(Backtest!Change(loaded, start + Training + i, e), start, capital)
      BY <2>3, <2>4
    <2>6. PICK all \in Seq(Nat) : all = loaded
      BY <2>2
    <2>7. PICK x \in Nat : x = e
      BY <2>2
    <2>8. start + Training + Testing <= Len(all) /\ w = Backtest!Window(all, start, capital)
          /\ o = Backtest!Window(Backtest!Change(all, start + Training + i, x), start, capital)
      BY <2>1, <2>5, <2>6, <2>7
    <2>9. QED
      BY <2>8, WindowLooksBack
  <1>5. QED
    BY <1>1, <1>2, <1>3, <1>4, PTL DEF AnalysisSpec

-----------------------------------------------------------------------------
(* The signals behind a plan. *)

\* A request whose score is under the least one gets no size.
LEMMA WeakSignalsGetNothing ==
  ASSUME NEW q, NEW S, Room(q, S) \in Int, NEW s \in Sizes(q, S),
         q.volatility \in Int, q.trend \in Int, q.confidence \in Int,
         Score(q) < MinScore
  PROVE  s = 0
  <1>1. ScoreMultiplier(Score(q)) = 0
    BY DEF ScoreMultiplier
  <1>2. VolatilityScore(q.volatility) \in Int
    BY DEF VolatilityScore, Least
  <1>3. Confidence(q) \in Int
    BY <1>2 DEF Confidence, Trending
  <1>4. PICK c \in Int : c = CappedRegime(q)
    <2>1. RegimeMultiplier(Regime(q), Confidence(q)) \in Int
      BY <1>3, RegimeRange
    <2>2. VolatilityScore(q.volatility) * 100 \in Int
      BY <1>2
    <2>3. RegimeMultiplier("alta_volatilidad", VolatilityScore(q.volatility) * 100) \in Int
      BY <2>2, RegimeRange
    <2>4. QED
      BY <2>1, <2>3 DEF CappedRegime, Least
  <1>5. PICK v \in Int : v = VolatilityMultiplier(q.volatility)
    BY VolatilityRange
  <1>6. 0 * c * v = 0
    OBVIOUS
  <1>7. Least(0, MaxTrade * 100) = 0
    BY PolicyAssumption DEF Least
  <1>8. Nearest(0, 100) = {0}
    BY DEF Nearest
  <1>9. Suggested(q) = {0}
    BY <1>1, <1>4, <1>5, <1>6, <1>7, <1>8 DEF Suggested
  <1>10. PICK g \in {72, 84, 92, 100} : g = CorrelationMultiplier(q, S)
    BY CorrelationMultiplierRange
  <1>11. 0 * g = 0
    OBVIOUS
  <1>12. PICK room \in Int : room = Room(q, S)
    OBVIOUS
  <1>13. CASE ~ q.stop \/ room <= 0
    BY <1>12, <1>13 DEF Sizes
  <1>14. CASE q.stop /\ room > 0
    <2>1. s = Least(0, room)
      BY <1>8, <1>9, <1>10, <1>11, <1>12, <1>14 DEF Sizes
    <2>2. QED
      BY <1>14, <2>1 DEF Least
  <1>15. QED
    BY <1>12, <1>13, <1>14

LEMMA CandleNumbers ==
  ASSUME NEW c \in IndicatorSnapshots
  PROVE  c.spread \in Int /\ c.rsi \in 0 .. 100 /\ c.momentum \in Int /\ c.atr \in Nat
  BY CandleAssumption

LEMMA ConfidenceRange ==
  ASSUME NEW c \in IndicatorSnapshots
  PROVE  \E w \in Nat : w = ConfidenceScore(c) /\ w <= 7500
  <1>1. PICK a \in Nat : a = c.atr
    BY CandleNumbers
  <1>2. VolatilityRegime(c) \in {"low", "medium", "high"}
    BY <1>1 DEF VolatilityRegime
  <1>3. PICK w \in Int : w = Least(2000, a * 2) /\ 0 <= w /\ w <= 2000
    BY DEF Least
  <1>4. PICK p \in {0, 600, 1200} : ConfidenceScore(c) = 7500 - p - w
    BY <1>1, <1>2, <1>3 DEF ConfidenceScore
  <1>5. 7500 - p - w \in Nat /\ 7500 - p - w <= 7500
    BY <1>3
  <1>6. QED
    BY <1>4, <1>5

\* What is asked of a candle: numbers, and of signals against the plan's side
\* or of an inactive baseline a score under 51 points.
LEMMA RequestNumbers ==
  ASSUME NEW c \in IndicatorSnapshots, NEW l,
         regimeSnapshot = Failed \/ regimeSnapshot.of \in IndicatorSnapshots
  PROVE  /\ RequestOf(c, l).volatility \in Int /\ RequestOf(c, l).trend \in Int
         /\ RequestOf(c, l).confidence \in Int
  <1>1. ASSUME NEW d \in IndicatorSnapshots
        PROVE  /\ TrendStrength(d) \in Int /\ MomentumScore(d) \in Int
               /\ VolatilityScore(d.atr) \in Int
    BY CandleNumbers DEF TrendStrength, MomentumScore, VolatilityScore, Between, Least,
         Most, Distance
  <1>2. ASSUME NEW d \in IndicatorSnapshots
        PROVE  RegimeConfidence(d) \in Int
    <2>1. Classify(d) \in {"alta_volatilidad", "tendencia_alcista", "tendencia_bajista",
                           "rango_lateral", "transicion"}
      BY DEF Classify
    <2>2. PICK t \in Int, m \in Int, v \in Int :
            t = TrendStrength(d) /\ m = MomentumScore(d) /\ v = VolatilityScore(d.atr)
      BY <1>1
    <2>3. QED
      BY <2>1, <2>2 DEF RegimeConfidence, Distance, Most
  <1>3. QED
    BY <1>1, <1>2, CandleNumbers DEF RequestOf

LEMMA WeakShort ==
  ASSUME NEW c \in IndicatorSnapshots, strategy = "hybrid", SideOf(c) = "short"
  PROVE  \E t \in Nat, p \in Nat :
           t = Technical(c) /\ p = PackConfidence(c) /\ t <= 3650 /\ p <= 7500
  <1>1. PICK rsi \in 0 .. 100, m \in Int : rsi = c.rsi /\ m = c.momentum
    BY CandleNumbers
  <1>2. TrendBias(c) = "bearish" /\ MomentumBias(c) = "bearish"
    BY DEF SideOf
  <1>3. rsi <= 45 /\ m < 0
    BY <1>1, <1>2 DEF MomentumBias
  <1>4. Distance(rsi, 50) = 50 - rsi
    BY <1>3 DEF Distance
  <1>5. PICK r \in Int : r = Between(-800, ((50 - (50 - rsi)) * 100) \div 3 - 800, 800)
                         /\ -800 <= r /\ r <= 700
    BY <1>3 DEF Between, Most, Least
  <1>6. PICK k \in Int : k = Between(-600, m * 50, 600) /\ -600 <= k /\ k <= -50
    BY <1>3 DEF Between, Most, Least
  <1>7. (6 * BiasScore("bearish") + 4 * BiasScore("bearish")) \div 10 = 3000
    BY DEF BiasScore
  <1>8. TechnicalScore(c) = Between(0, 3000 + r + k, 10000)
    BY <1>1, <1>2, <1>4, <1>5, <1>6, <1>7 DEF TechnicalScore
  <1>9. PICK t \in Nat : t = Between(0, 3000 + r + k, 10000) /\ t <= 3650
    <2>1. PICK x \in Int : x = 3000 + r + k /\ 0 <= x /\ x <= 3650
      BY <1>5, <1>6
    <2>2. Between(0, x, 10000) = x
      BY <2>1 DEF Between, Most, Least
    <2>3. QED
      BY <2>1, <2>2
  <1>10. QED
    BY <1>8, <1>9, ConfidenceRange DEF Technical, PackConfidence

LEMMA WeakBaseline ==
  ASSUME NEW c \in IndicatorSnapshots, strategy = "baseline", ~ Active(c)
  PROVE  \E t \in Nat, p \in Nat :
           t = Technical(c) /\ p = PackConfidence(c) /\ t <= 4200 /\ p <= 6000
  <1>1. PICK w \in Nat : w = ConfidenceScore(c) /\ w <= 7500
    BY ConfidenceRange
  <1>2. PICK p \in Nat : p = Most(3500, w - 1500) /\ p <= 6000
    BY <1>1 DEF Most
  <1>3. QED
    BY <1>1, <1>2 DEF Technical, PackConfidence

LEMMA ScoreBound ==
  ASSUME NEW c, NEW l \in Liquidity, NEW t \in Nat, NEW p \in Nat,
         t = Technical(c), p = PackConfidence(c),
         \/ t <= 3650 /\ p <= 7500
         \/ t <= 4200 /\ p <= 6000
  PROVE  Score(RequestOf(c, l)) \in Int /\ Score(RequestOf(c, l)) < 5100
  <1>1. PICK n \in 0 .. 100 : n = l
    BY CandleAssumption
  <1>2. Score(RequestOf(c, l)) = (t * 2) \div 5 + 2000 + (p * 3) \div 20 + n * 5
    BY <1>1 DEF Score, RequestOf
  <1>3. PICK x \in Nat, y \in Nat : x = (t * 2) \div 5 /\ y = (p * 3) \div 20
    OBVIOUS
  <1>4. \/ x <= 1460 /\ y <= 1125
        \/ x <= 1680 /\ y <= 900
    BY <1>3
  <1>5. QED
    BY <1>1, <1>2, <1>3, <1>4

LEMMA WeakScore ==
  ASSUME NEW c \in IndicatorSnapshots, NEW l \in Liquidity,
         \/ strategy = "hybrid" /\ SideOf(c) = "short"
         \/ strategy = "baseline" /\ ~ Active(c)
  PROVE  Score(RequestOf(c, l)) \in Int /\ Score(RequestOf(c, l)) < 5100
  <1>1. CASE strategy = "hybrid" /\ SideOf(c) = "short"
    <2>1. PICK t \in Nat, p \in Nat :
            t = Technical(c) /\ p = PackConfidence(c) /\ t <= 3650 /\ p <= 7500
      BY <1>1, WeakShort
    <2>2. QED
      BY <2>1, ScoreBound
  <1>2. CASE strategy = "baseline" /\ ~ Active(c)
    <2>1. PICK t \in Nat, p \in Nat :
            t = Technical(c) /\ p = PackConfidence(c) /\ t <= 4200 /\ p <= 6000
      BY <1>2, WeakBaseline
    <2>2. QED
      BY <2>1, ScoreBound
  <1>3. QED
    BY <1>1, <1>2

\* What the worker read, it read of a candle that was the latest then.
Seen(s) ==
  \E c \in IndicatorSnapshots, n \in 0 .. closed :
     s = [state |-> "read", of |-> c, number |-> n] /\ (n = closed => c = candle)

\* Two requests between which no candle closed were answered from the same one.
SignalInv ==
  /\ strategy \in {"hybrid", "baseline"} /\ candle \in IndicatorSnapshots
  /\ closed \in {0, 1}
  /\ snapshot = Waiting \/ Seen(snapshot)
  /\ regimeSnapshot \in {Waiting, Failed} \/ Seen(regimeSnapshot)
  /\ Seen(snapshot) /\ Seen(regimeSnapshot) /\ snapshot.number = regimeSnapshot.number =>
       snapshot.of = regimeSnapshot.of
  /\ side = "none" => Init
  /\ side # "none" => /\ Waiting \notin {snapshot, regimeSnapshot}
                      /\ ApprovedFollowSignals

LEMMA SeenIsRead ==
  ASSUME SignalInv, NEW s, Seen(s)
  PROVE  s # Waiting /\ s # Failed /\ s.of \in IndicatorSnapshots /\ s.number \in 0 .. closed
  BY DEF Seen, Waiting, Failed

LEMMA SignalStart ==
  ASSUME SignalInit
  PROVE  SignalInv
  BY DEF SignalInit, SignalInv, Seen, Waiting

LEMMA CloseCandleSignals ==
  ASSUME SignalInv, CloseCandle
  PROVE  SignalInv'
  <1>1. /\ UNCHANGED <<strategy, snapshot, regimeSnapshot, side>> /\ UNCHANGED vars
        /\ candle' \in IndicatorSnapshots /\ closed = 0 /\ closed' = 1
        /\ side = "none"
    BY DEF CloseCandle, SignalInv
  <1>2. ASSUME NEW s, Seen(s)
        PROVE  Seen(s)'
    BY <1>1, <1>2 DEF Seen
  <1>3. ASSUME NEW s, Seen(s)'
        PROVE  s # Waiting
    BY <1>3 DEF Seen, Waiting
  <1>4. snapshot = Waiting \/ regimeSnapshot = Waiting
    BY DEF CloseCandle
  <1>5. Init'
    BY <1>1 DEF SignalInv, Init, vars
  <1>6. (snapshot = Waiting \/ Seen(snapshot))'
    <2>1. PICK s : s = snapshot /\ s = snapshot'
      BY <1>1
    <2>2. s = Waiting \/ Seen(s)'
      BY <1>2, <2>1 DEF SignalInv
    <2>3. QED
      BY <2>1, <2>2 DEF Seen
  <1>7. (regimeSnapshot \in {Waiting, Failed} \/ Seen(regimeSnapshot))'
    <2>1. PICK s : s = regimeSnapshot /\ s = regimeSnapshot'
      BY <1>1
    <2>2. s \in {Waiting, Failed} \/ Seen(s)'
      BY <1>2, <2>1 DEF SignalInv
    <2>3. QED
      BY <2>1, <2>2 DEF Seen
  <1>8. ~ (Seen(snapshot) /\ Seen(regimeSnapshot))'
    <2>1. PICK s, t : s = snapshot' /\ t = regimeSnapshot' /\ (s = Waiting \/ t = Waiting)
      BY <1>1, <1>4
    <2>2. ~ Seen(s)' \/ ~ Seen(t)'
      BY <1>3, <2>1
    <2>3. QED
      BY <2>1, <2>2 DEF Seen
  <1>9. QED
    BY <1>1, <1>5, <1>6, <1>7, <1>8 DEF SignalInv

\* A request is answered from the latest candle; one answered before it from
\* the same candle has its number.
LEMMA ReadSignalsKeep ==
  ASSUME SignalInv, ReadSignals
  PROVE  SignalInv'
  <1>1. /\ UNCHANGED <<strategy, candle, closed, regimeSnapshot, side>> /\ UNCHANGED vars
        /\ snapshot' = [state |-> "read", of |-> candle, number |-> closed]
        /\ side = "none" /\ closed \in {0, 1} /\ candle \in IndicatorSnapshots
    BY DEF ReadSignals, SignalInv, Latest
  <1>2. Seen(snapshot)'
    BY <1>1 DEF Seen
  <1>3. (regimeSnapshot \in {Waiting, Failed} \/ Seen(regimeSnapshot))'
    BY <1>1 DEF SignalInv, Seen
  <1>4. (Seen(regimeSnapshot) /\ snapshot.number = regimeSnapshot.number =>
           snapshot.of = regimeSnapshot.of)'
    BY <1>1 DEF Seen
  <1>5. Init'
    BY <1>1 DEF SignalInv, Init, vars
  <1>6. QED
    BY <1>1, <1>2, <1>3, <1>4, <1>5 DEF SignalInv

LEMMA ReadRegimeKeeps ==
  ASSUME SignalInv, ReadRegime
  PROVE  SignalInv'
  <1>1. /\ UNCHANGED <<strategy, candle, closed, snapshot, side>> /\ UNCHANGED vars
        /\ \/ regimeSnapshot' = Failed
           \/ regimeSnapshot' = [state |-> "read", of |-> candle, number |-> closed]
        /\ side = "none" /\ closed \in {0, 1} /\ candle \in IndicatorSnapshots
    BY DEF ReadRegime, SignalInv, Latest
  <1>2. (regimeSnapshot = Failed \/ Seen(regimeSnapshot))'
    BY <1>1 DEF Seen
  <1>3. (snapshot = Waiting \/ Seen(snapshot))'
    BY <1>1 DEF SignalInv, Seen
  <1>4. (Seen(snapshot) /\ Seen(regimeSnapshot) /\ snapshot.number = regimeSnapshot.number =>
           snapshot.of = regimeSnapshot.of)'
    BY <1>1 DEF Seen, Failed
  <1>5. Init'
    BY <1>1 DEF SignalInv, Init, vars
  <1>6. QED
    BY <1>1, <1>2, <1>3, <1>4, <1>5 DEF SignalInv

\* The regime of a trend has the sign of its averages.
LEMMA TrendsHaveSides ==
  ASSUME NEW c
  PROVE  /\ Classify(c) = "tendencia_bajista" => SideOf(c) = "short"
         /\ Classify(c) = "tendencia_alcista" => SideOf(c) = "long"
         /\ SideOf(c) \in {"short", "long"}
  <1>1. Classify(c) = "tendencia_bajista" =>
          TrendBias(c) = "bearish" /\ MomentumBias(c) = "bearish"
    BY DEF Classify
  <1>2. Classify(c) = "tendencia_alcista" => TrendBias(c) = "bullish"
    BY DEF Classify
  <1>3. QED
    BY <1>1, <1>2 DEF SideOf

LEMMA ActiveSides ==
  ASSUME NEW c \in IndicatorSnapshots, strategy = "baseline", Active(c)
  PROVE  IF SideOf(c) = "long" THEN c.spread > 0 /\ c.rsi >= 50
                               ELSE c.spread < 0 /\ c.rsi <= 50
  BY CandleNumbers DEF Active, SideOf, TrendBias

LEMMA DecidePlanKeeps ==
  ASSUME SignalInv, MinScore >= 5100, DecidePlan
  PROVE  SignalInv'
  <1>1. /\ UNCHANGED <<strategy, candle, closed, snapshot, regimeSnapshot>>
        /\ Waiting \notin {snapshot, regimeSnapshot} /\ side = "none"
        /\ side' = SideOf(snapshot.of) /\ Init
    BY DEF DecidePlan, SignalInv
  <1>2. /\ Seen(snapshot) /\ (regimeSnapshot = Failed \/ Seen(regimeSnapshot))
        /\ strategy \in {"hybrid", "baseline"}
    BY <1>1 DEF SignalInv
  <1>3. PICK c \in IndicatorSnapshots : c = snapshot.of
    BY <1>2, SeenIsRead
  <1>4. regimeSnapshot = Failed \/ regimeSnapshot.of \in IndicatorSnapshots
    BY <1>2, SeenIsRead
  <1>5. PICK l \in Liquidity : Create(RequestOf(c, l), {})
    BY <1>3 DEF DecidePlan
  <1>6. TypeOK /\ plans = <<>>
    BY <1>1 DEF Init, TypeOK
  <1>7. Room(RequestOf(c, l), {}) \in Int
    BY <1>6, RoomRange
  <1>8. PICK size, plan :
          /\ size \in Sizes(RequestOf(c, l), {}) /\ plans' = Append(plans, plan)
          /\ plan.status = "approved" => size > 0
    BY <1>5 DEF Create
  <1>9. plans'[1].status = "approved" => size > 0
    BY <1>6, <1>8
  <1>10. Score(RequestOf(c, l)) < MinScore => size = 0
    BY <1>4, <1>7, <1>8, RequestNumbers, WeakSignalsGetNothing
  <1>11. ASSUME plans'[1].status = "approved"
         PROVE  /\ strategy = "hybrid" => SideOf(c) = "long"
                /\ strategy = "baseline" => Active(c)
    <2>1. ~ (Score(RequestOf(c, l)) < MinScore)
      BY <1>9, <1>10, <1>11
    <2>2. ~ (Score(RequestOf(c, l)) \in Int /\ Score(RequestOf(c, l)) < 5100)
      BY <2>1, PolicyAssumption
    <2>3. /\ ~ (strategy = "hybrid" /\ SideOf(c) = "short")
          /\ ~ (strategy = "baseline" /\ ~ Active(c))
      BY <2>2, WeakScore
    <2>4. QED
      BY <2>3, TrendsHaveSides
  <1>12. regimeSnapshot # Failed /\ regimeSnapshot.number = snapshot.number =>
           regimeSnapshot.of = c
    BY <1>2, <1>3 DEF SignalInv
  <1>13. ApprovedFollowSignals'
    <2>1. ASSUME plans'[1].status = "approved"
          PROVE  /\ strategy = "hybrid" => SideOf(c) = "long"
                 /\ strategy = "baseline" =>
                      IF SideOf(c) = "long" THEN c.spread > 0 /\ c.rsi >= 50
                                            ELSE c.spread < 0 /\ c.rsi <= 50
                 /\ regimeSnapshot # Failed /\ regimeSnapshot.number = snapshot.number =>
                      <<SideOf(c), Classify(regimeSnapshot.of)>> \notin
                          {<<"long", "tendencia_bajista">>, <<"short", "tendencia_alcista">>}
      BY <1>11, <1>12, <2>1, ActiveSides, TrendsHaveSides
    <2>2. side' = SideOf(c)
      BY <1>1, <1>3
    <2>3. QED
      BY <1>1, <1>3, <2>1, <2>2 DEF ApprovedFollowSignals, Failed
  <1>14. side' # "none"
    BY <1>1, TrendsHaveSides
  <1>15. QED
    BY <1>1, <1>13, <1>14 DEF SignalInv, Seen, Waiting, Failed


LEMMA SignalsRestKeep ==
  ASSUME SignalInv, UNCHANGED <<vars, signalVars>>
  PROVE  SignalInv'
  BY DEF SignalInv, Seen, Init, ApprovedFollowSignals, vars, signalVars

\* Beside the other parts, whose steps leave the signals alone.
SignalsInv ==
  IF part = "signals" THEN SignalInv ELSE side = "none"

\* Whatever candle closes between the two requests, and whether the regime is
\* read or not: a plan is approved only along the signals behind it and, read
\* of the same candle, the regime.  A pack against the plan's side has a score
\* under 51 points, which the engine gives no size from as long as it asks for
\* as many; the policy's default is 60.
THEOREM ApprovedPlansFollowSignals ==
  ASSUME MinScore >= 5100
  PROVE  AnalysisSpec => []ApprovedFollowSignals
  <1>1. AnalysisInit => SignalsInv
    <2> SUFFICES ASSUME AnalysisInit PROVE SignalsInv
      OBVIOUS
    <2>1. CASE part = "signals"
      <3>1. SignalInit
        BY <2>1 DEF AnalysisInit, OthersRest
      <3>2. QED
        BY <2>1, <3>1, SignalStart DEF SignalsInv
    <2>2. CASE part # "signals"
      BY <2>2 DEF AnalysisInit, OthersRest, SignalsRest, SignalsInv
    <2>3. QED
      BY <2>1, <2>2
  <1>2. SignalsInv /\ [AnalysisNext]_allVars => SignalsInv'
    <2> SUFFICES ASSUME SignalsInv, [AnalysisNext]_allVars PROVE SignalsInv'
      OBVIOUS
    <2>1. UNCHANGED part
      BY DEF AnalysisNext, allVars
    <2>2. CASE part = "signals"
      <3>1. SignalNext \/ UNCHANGED <<vars, signalVars>>
        BY <2>2 DEF AnalysisNext, allVars
      <3>2. SignalInv
        BY <2>2 DEF SignalsInv
      <3>3. SignalInv'
        BY <3>1, <3>2, CloseCandleSignals, ReadSignalsKeep, ReadRegimeKeeps, DecidePlanKeeps,
           SignalsRestKeep DEF SignalNext
      <3>4. QED
        BY <2>1, <2>2, <3>3 DEF SignalsInv
    <2>3. CASE part # "signals"
      BY <2>1, <2>3 DEF AnalysisNext, allVars, signalVars, SignalsInv
    <2>4. QED
      BY <2>2, <2>3
  <1>3. SignalsInv => ApprovedFollowSignals
    BY DEF SignalsInv, SignalInv, ApprovedFollowSignals
  <1>4. QED
    BY <1>1, <1>2, <1>3, PTL DEF AnalysisSpec

-----------------------------------------------------------------------------
(* The types of every part. *)

\* What the scores of a candle are made of lies in its range.
LEMMA ScoreRanges ==
  ASSUME NEW c \in IndicatorSnapshots
  PROVE  \E t \in Nat, m \in Nat, v \in Nat :
           /\ t = TrendStrength(c) /\ t <= 100
           /\ m = MomentumScore(c) /\ m <= 100000
           /\ v = VolatilityScore(c.atr) /\ v <= 10000
  <1>1. PICK spread \in Int, atr \in Nat : spread = c.spread /\ atr = c.atr
    BY CandleNumbers
  <1>2. PICK rsi \in Int, m \in Int : rsi = c.rsi /\ m = c.momentum
    BY CandleNumbers
  <1>3. PICK t \in Nat : t = TrendStrength(c) /\ t <= 100
    BY <1>1 DEF TrendStrength, Least, Distance
  <1>4. PICK v \in Nat : v = VolatilityScore(c.atr) /\ v <= 10000
    BY <1>1 DEF VolatilityScore, Least
  <1>5. PICK x \in Nat, y \in Nat :
          /\ x = Between(0, 50000 + (c.rsi - 50) * 1400, 100000) /\ x <= 100000
          /\ y = Between(0, 50000 + c.momentum * 1200, 100000) /\ y <= 100000
    BY <1>2 DEF Between, Most, Least
  <1>6. (65 * x + 35 * y) \div 100 \in Nat /\ (65 * x + 35 * y) \div 100 <= 100000
    BY <1>5
  <1>7. QED
    BY <1>3, <1>4, <1>5, <1>6 DEF MomentumScore

LEMMA ConfidenceInRange ==
  ASSUME NEW c \in IndicatorSnapshots
  PROVE  /\ RegimeConfidence(c) \in Int
         /\ 0 <= RegimeConfidence(c) /\ RegimeConfidence(c) <= 1000000
  <1>1. Classify(c) \in {"alta_volatilidad", "tendencia_alcista", "tendencia_bajista",
                         "rango_lateral", "transicion"}
    BY DEF Classify
  <1>2. PICK t \in Nat, m \in Nat, v \in Nat :
          /\ t = TrendStrength(c) /\ t <= 100
          /\ m = MomentumScore(c) /\ m <= 100000
          /\ v = VolatilityScore(c.atr) /\ v <= 10000
    BY ScoreRanges
  <1>3. PICK n \in Nat : n = Most(0, 100000 - 2 * Distance(MomentumScore(c), 50000)) /\ n <= 100000
    BY <1>2 DEF Most, Distance
  <1>4. PICK h \in Nat, g \in Nat :
          /\ h = (m * 7) \div 2 /\ h <= 350000
          /\ g = ((100000 - m) * 7) \div 2 /\ g <= 350000
    BY <1>2
  <1>5. CASE Classify(c) = "alta_volatilidad"
    BY <1>2, <1>5 DEF RegimeConfidence
  <1>6. CASE Classify(c) = "tendencia_alcista"
    <2>1. RegimeConfidence(c) = t * 100 * 45 + h + (10000 - v) * 20
      BY <1>2, <1>4, <1>6 DEF RegimeConfidence
    <2>2. QED
      BY <1>2, <1>4, <2>1
  <1>7. CASE Classify(c) = "tendencia_bajista"
    <2>1. RegimeConfidence(c) = t * 100 * 45 + g + (10000 - v) * 20
      BY <1>2, <1>4, <1>7 DEF RegimeConfidence
    <2>2. QED
      BY <1>2, <1>4, <2>1
  <1>8. CASE Classify(c) = "rango_lateral"
    <2>1. RegimeConfidence(c) = (10000 - t * 100) * 40 + (10000 - v) * 40 + n * 2
      BY <1>2, <1>3, <1>8 DEF RegimeConfidence
    <2>2. QED
      BY <1>2, <1>3, <2>1
  <1>9. CASE Classify(c) = "transicion"
    <2>1. RegimeConfidence(c) = (10000 - t * 100) * 35 + (10000 - v) * 35 + n * 3
      BY <1>2, <1>3, <1>9 DEF RegimeConfidence
    <2>2. QED
      BY <1>2, <1>3, <2>1
  <1>10. QED
    BY <1>1, <1>5, <1>6, <1>7, <1>8, <1>9

\* So do the scores of the pack.
LEMMA PackInRange ==
  ASSUME NEW c \in IndicatorSnapshots, strategy \in {"hybrid", "baseline"}
  PROVE  \E t \in Nat, p \in Nat :
           t = Technical(c) /\ t <= 10000 /\ p = PackConfidence(c) /\ p <= 7500
  <1>1. PICK w \in Nat : w = ConfidenceScore(c) /\ w <= 7500
    BY ConfidenceRange
  <1>2. PICK p \in Nat : p = PackConfidence(c) /\ p <= 7500
    BY <1>1 DEF PackConfidence, Most
  <1>3. PICK rsi \in Int, m \in Int : rsi = c.rsi /\ m = c.momentum
    BY CandleNumbers
  <1>4. TrendBias(c) \in {"bullish", "neutral", "bearish"}
        /\ MomentumBias(c) \in {"bullish", "neutral", "bearish"}
    BY DEF TrendBias, MomentumBias
  <1>5. PICK b \in Int : b = (6 * BiasScore(TrendBias(c)) + 4 * BiasScore(MomentumBias(c))) \div 10
    BY <1>4 DEF BiasScore
  <1>6. PICK r \in Int : r = Between(-800, ((50 - Distance(c.rsi, 50)) * 100) \div 3 - 800, 800)
    BY <1>3 DEF Distance, Between, Most, Least
  <1>7. PICK k \in Int : k = Between(-600, c.momentum * 50, 600)
    BY <1>3 DEF Between, Most, Least
  <1>8. TechnicalScore(c) = Between(0, b + r + k, 10000)
    BY <1>5, <1>6, <1>7 DEF TechnicalScore
  <1>9. PICK t \in Nat : t = TechnicalScore(c) /\ t <= 10000
    <2>1. PICK x \in Int : x = b + r + k
      OBVIOUS
    <2>2. PICK t \in Nat : t = Between(0, x, 10000) /\ t <= 10000
      BY DEF Between, Most, Least
    <2>3. QED
      BY <1>8, <2>1, <2>2
  <1>10. QED
    BY <1>2, <1>9 DEF Technical

\* And the request made of them.
InRange(q) ==
  /\ 2000 <= q.signals /\ q.signals <= 9500
  /\ 0 <= q.trend /\ q.trend <= 100
  /\ -1 <= q.confidence /\ q.confidence <= 1000000

LEMMA RequestInRange ==
  ASSUME NEW c \in IndicatorSnapshots, NEW l, strategy \in {"hybrid", "baseline"},
         regimeSnapshot = Failed \/ regimeSnapshot.of \in IndicatorSnapshots
  PROVE  InRange(RequestOf(c, l))
  <1>1. PICK t \in Nat, p \in Nat :
          t = Technical(c) /\ t <= 10000 /\ p = PackConfidence(c) /\ p <= 7500
    BY PackInRange
  <1>2. PICK s \in Nat : s = (t * 2) \div 5 + 2000 + (p * 3) \div 20 /\ 2000 <= s /\ s <= 9500
    BY <1>1
  <1>3. RequestOf(c, l).signals = s
    BY <1>1, <1>2 DEF RequestOf
  <1>4. PICK u \in Nat : u = RequestOf(c, l).trend /\ u <= 100
    BY ScoreRanges DEF RequestOf
  <1>5. -1 <= RequestOf(c, l).confidence /\ RequestOf(c, l).confidence <= 1000000
    <2>1. CASE regimeSnapshot = Failed
      BY <2>1 DEF RequestOf
    <2>2. CASE regimeSnapshot # Failed
      <3>1. PICK d \in IndicatorSnapshots : d = regimeSnapshot.of
        BY <2>2
      <3>2. PICK z : z = RegimeConfidence(d)
        OBVIOUS
      <3>3. z \in Int /\ 0 <= z /\ z <= 1000000
        BY <3>2, ConfidenceInRange
      <3>4. RequestOf(c, l).confidence = z
        BY <2>2, <3>1, <3>2 DEF RequestOf
      <3>5. QED
        BY <3>3, <3>4
    <2>3. QED
      BY <2>1, <2>2
  <1>6. QED
    BY <1>2, <1>3, <1>4, <1>5 DEF InRange

\* A plan is decided with signals that were read.
SignalTypes ==
  /\ SignalTypeOK /\ snapshot # Failed
  /\ part # "signals" => side = "none"

LEMMA SignalTypesStep ==
  ASSUME SignalTypes, SignalNext
  PROVE  SignalTypeOK' /\ (snapshot # Failed)'
  <1>1. CASE CloseCandle
    BY <1>1 DEF CloseCandle, SignalTypes, SignalTypeOK, vars
  <1>2. Latest \in [state : {"read"}, of : IndicatorSnapshots, number : 0 .. 1]
        /\ Latest # Failed
    BY DEF Latest, Failed, SignalTypes, SignalTypeOK
  <1>3. CASE ReadSignals
    BY <1>2, <1>3 DEF ReadSignals, SignalTypes, SignalTypeOK, vars
  <1>4. CASE ReadRegime
    BY <1>2, <1>4 DEF ReadRegime, SignalTypes, SignalTypeOK, vars
  <1>5. CASE DecidePlan
    <2>1. /\ UNCHANGED <<strategy, candle, closed, snapshot, regimeSnapshot>>
          /\ Waiting \notin {snapshot, regimeSnapshot}
          /\ side' = SideOf(snapshot.of)
      BY <1>5 DEF DecidePlan
    <2>2. snapshot.of \in IndicatorSnapshots
      BY <2>1 DEF SignalTypes, SignalTypeOK
    <2>3. regimeSnapshot = Failed \/ regimeSnapshot.of \in IndicatorSnapshots
      BY <2>1 DEF SignalTypes, SignalTypeOK
    <2>4. PICK l \in Liquidity : Create(RequestOf(snapshot.of, l), {})
      BY <1>5 DEF DecidePlan
    <2>5. last'[1] = RequestOf(snapshot.of, l)
      BY <2>4 DEF Create
    <2>6. strategy \in {"hybrid", "baseline"}
      BY DEF SignalTypes, SignalTypeOK
    <2>7. InRange(last'[1])
      BY <2>2, <2>3, <2>5, <2>6, RequestInRange
    <2>8. side' \in {"none", "long", "short"}
      BY <2>1 DEF SideOf
    <2>9. QED
      BY <2>1, <2>7, <2>8 DEF SignalTypes, SignalTypeOK, InRange
  <1>6. QED
    BY <1>1, <1>3, <1>4, <1>5 DEF SignalNext

LEMMA LevelTypesStep ==
  ASSUME Levels!TypeOK, LevelInv', Levels!Next
  PROVE  Levels!TypeOK'
  <1>1. CASE Levels!SizeEntry
    BY <1>1 DEF Levels!TypeOK, Levels!SizeEntry, LevelInv, NumbersInv
  <1>2. CASE Levels!Enter
    BY <1>2 DEF Levels!TypeOK, Levels!Enter
  <1>3. CASE Levels!ReadMark
    BY <1>3 DEF Levels!TypeOK, Levels!ReadMark
  <1>4. CASE Levels!Protect
    <2>1. UNCHANGED <<entering, quantity, step, price, mark, seen, due>>
          /\ progress' \in {"native", "failed"} /\ tick' \in Ticks \cup {0}
      BY <1>4 DEF Levels!Protect
    <2>2. loss' \in Int /\ gain' \in Int
      BY <2>1 DEF LevelInv, Levels!Protected, ExitsInv
    <2>3. QED
      BY <2>1, <2>2 DEF Levels!TypeOK
  <1>5. CASE Levels!Synchronise
    <2>1. UNCHANGED <<entering, progress, quantity, step, price, mark, loss, gain, tick>>
          /\ seen' \in Prices \cup {seen} /\ due' = Levels!Trigger(seen')
      BY <1>5 DEF Levels!Synchronise
    <2>2. due' \in {"none", "stop_market", "take_profit_market"}
      BY <2>1 DEF Levels!Trigger
    <2>3. QED
      BY <2>1, <2>2 DEF Levels!TypeOK
  <1>6. QED
    BY <1>1, <1>2, <1>3, <1>4, <1>5 DEF Levels!Next

\* The invariant: what the other invariants leave out of the types.
TypesInv ==
  /\ part \in {"sizing", "signals", "levels", "backtest", "shadow"}
  /\ part # "signals" => TypeOK
  /\ SignalTypes /\ Levels!TypeOK
  /\ stage \in {"new", "running", "done", "not_found", "too_few"}
  /\ executed \in Seq(Shadow!Executed)

LEMMA TableRead ==
  ASSUME NEW table, NEW n \in Nat, table \in [1..n -> Shadow!Executed], Shadow!Reads(table)
  PROVE  executed \in Seq(Shadow!Executed)
  <1>1. Len(table) = n /\ table \in Seq(Shadow!Executed)
    OBVIOUS
  <1>2. PICK low \in 1..n + 1 : executed = SubSeq(table, low, n)
    BY <1>1, ShadowAssumption DEF Shadow!Reads, Shadow!Newest
  <1>3. executed = [i \in 1..(n - low + 1) |-> table[i + low - 1]]
    BY <1>1, <1>2
  <1>4. \A i \in 1..(n - low + 1) : i + low - 1 \in 1..n
    BY <1>2
  <1>5. QED
    BY <1>2, <1>3, <1>4

LEMMA TypesStart ==
  ASSUME AnalysisInit
  PROVE  TypesInv
  <1>1. part \in {"sizing", "signals", "levels", "backtest", "shadow"} /\ Init
    <2>1. PICK chosen \in {"sizing", "signals", "levels", "backtest", "shadow"} :
            OthersRest(chosen) /\ (chosen = "sizing" => Init) /\ (chosen = "signals" => SignalInit)
      BY Zenon DEF AnalysisInit
    <2>2. part = chosen /\ (chosen \notin {"sizing", "signals"} => SizingRests)
      BY <2>1, Zenon DEF OthersRest
    <2>3. Init
      <3>1. CASE chosen \in {"sizing", "signals"}
        BY <2>1, <3>1 DEF SignalInit
      <3>2. CASE chosen \notin {"sizing", "signals"}
        BY <2>2, <3>2 DEF SizingRests
      <3>3. QED
        BY <3>1, <3>2
    <2>4. QED
      BY <2>2, <2>3
  <1>2. TypeOK
    BY <1>1 DEF Init, TypeOK
  <1>3. SignalTypes
    <2>1. SignalInit \/ SignalsRest
      BY DEF AnalysisInit, OthersRest
    <2>2. (CHOOSE c \in IndicatorSnapshots : TRUE) \in IndicatorSnapshots
      BY CandleAssumption
    <2>3. QED
      BY <2>1, <2>2 DEF SignalInit, SignalsRest, SignalTypes, SignalTypeOK, Waiting, Failed
  <1>4. Levels!TypeOK
    BY PartsStart DEF Levels!Init, Levels!TypeOK
  <1>5. stage = "new"
    BY PartsStart DEF Backtest!Init
  <1>6. executed \in Seq(Shadow!Executed)
    <2>1. Shadow!Init => executed \in Seq(Shadow!Executed)
      BY TableRead DEF Shadow!Init, Shadow!Tables
    <2>2. Shadow!Reads(<<>>) => executed \in Seq(Shadow!Executed)
      <3>1. <<>> \in [1..0 -> Shadow!Executed]
        OBVIOUS
      <3>2. QED
        BY <3>1, TableRead
    <2>3. QED
      BY <2>1, <2>2, PartsStart
  <1>7. QED
    BY <1>1, <1>2, <1>3, <1>4, <1>5, <1>6 DEF TypesInv

LEMMA TypesStep ==
  ASSUME TypesInv, LevelInv', [AnalysisNext]_allVars
  PROVE  TypesInv'
  <1>1. part' = part
    BY DEF AnalysisNext, allVars
  <1>2. part # "signals" => TypeOK'
    <2> SUFFICES ASSUME part # "signals" PROVE TypeOK'
      OBVIOUS
    <2>1. TypeOK /\ [Next]_vars
      BY DEF TypesInv, AnalysisNext, allVars
    <2>2. QED
      BY <2>1, TypesInductive
  <1>3. SignalTypes'
    <2>1. CASE part = "signals" /\ SignalNext
      BY <1>1, <2>1, SignalTypesStep DEF SignalTypes, TypesInv
    <2>2. CASE part = "signals" /\ ~SignalNext
      <3>1. UNCHANGED <<vars, signalVars>>
        BY <2>2 DEF AnalysisNext, allVars
      <3>2. QED
        BY <1>1, <3>1 DEF SignalTypes, SignalTypeOK, TypesInv, vars, signalVars
    <2>3. CASE part # "signals"
      <3>1. UNCHANGED signalVars /\ side = "none"
        BY <2>3 DEF AnalysisNext, allVars, TypesInv, SignalTypes
      <3>2. QED
        BY <1>1, <3>1 DEF SignalTypes, SignalTypeOK, TypesInv, signalVars
    <2>4. QED
      BY <2>1, <2>2, <2>3
  <1>4. Levels!TypeOK'
    <2>1. CASE Levels!Next
      BY <2>1, LevelTypesStep DEF TypesInv
    <2>2. CASE UNCHANGED levelVars
      BY <2>2 DEF levelVars, Levels!TypeOK, TypesInv
    <2>3. QED
      BY <2>1, <2>2, PartsStep
  <1>5. stage' \in {"new", "running", "done", "not_found", "too_few"}
    <2>1. CASE Backtest!Next
      BY <2>1 DEF Backtest!Next, Backtest!Load, Backtest!WalkForward, Backtest!Finish, TypesInv
    <2>2. CASE UNCHANGED backtestVars
      BY <2>2 DEF backtestVars, TypesInv
    <2>3. QED
      BY <2>1, <2>2, PartsStep
  <1>6. UNCHANGED executed
    BY PartsStep DEF Shadow!Next, Shadow!PairNearest, Shadow!LeaveUnmatched, Shadow!Report,
       shadowVars
  <1>7. QED
    BY <1>1, <1>2, <1>3, <1>4, <1>5, <1>6 DEF TypesInv

\* Every variable of the size, the signals, the levels, a backtest and a report
\* keeps its type, and the scores and confidences stay in their ranges without
\* being clamped, for any policy, candles, plans, closes and tables.
THEOREM AnalysisTypes == AnalysisSpec => []EveryTypeOK
  <1>1. AnalysisInit => TypesInv
    BY TypesStart
  <1>2. TypesInv /\ LevelInv' /\ [AnalysisNext]_allVars => TypesInv'
    BY TypesStep
  <1>3. TypesInv /\ PairInv /\ FiguresInv /\ WindowsInv => EveryTypeOK
    <2> SUFFICES ASSUME TypesInv, PairInv, FiguresInv, WindowsInv PROVE EveryTypeOK
      OBVIOUS
    <2>1. Backtest!TypeOK
      <3>1. \A k \in DOMAIN test.windows : test.windows[k].best \in DOMAIN Parameters
        BY DEF WindowsInv, WindowInv
      <3>2. QED
        BY <3>1 DEF Backtest!TypeOK, TypesInv, FiguresInv
    <2>2. Shadow!TypeOK
      <3>1. Ours \subseteq DOMAIN executed /\ Theirs \subseteq DOMAIN executed
        BY DEF Ours, Theirs, Shadow!Positions
      <3>2. pairs \subseteq (DOMAIN executed) \X (DOMAIN executed)
        BY <3>1 DEF PairInv, PairsApart
      <3>3. QED
        BY <3>1, <3>2 DEF Shadow!TypeOK, TypesInv, PairInv, Counted
    <2>3. QED
      BY <2>1, <2>2 DEF EveryTypeOK, TypesInv, SignalTypes
  <1>4. QED
    BY <1>1, <1>2, <1>3, PairInvHolds, LevelInvHolds, FiguresInvHolds, WindowsInvHolds, PTL
       DEF AnalysisSpec
=============================================================================
