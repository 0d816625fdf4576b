-------------------------- MODULE RiskSizingProofs --------------------------
(***************************************************************************)
(* What a request says of the market's regime allows no larger size at     *)
(* high volatility than the engine's own reading, for every policy and     *)
(* every request.                                                          *)
(***************************************************************************)
EXTENDS RiskSizing, FiniteSetTheorems, WellFoundedInduction, TLAPS

\* Sums over finite sets.

\* g adds f up over each subset of S, one chosen element at a time.
Chosen(s) == CHOOSE x \in s : TRUE
Adds(f, S, g) ==
    g = [s \in SUBSET S |-> IF s = {} THEN 0 ELSE f[Chosen(s)] + g[s \ {Chosen(s)}]]

Total(f, S) == (CHOOSE g : Adds(f, S, g))[S]

\* Of finite subsets of S some least one is in T.
LEMMA LeastSubset ==
    ASSUME NEW S, IsFiniteSet(S), NEW T, T \subseteq SUBSET S, T # {}
    PROVE  \E s \in T : \A r \in T : r \subseteq s => r = s
<1>1. IsWellFoundedOn(StrictSubsetOrdering(S), SUBSET S)
  BY FS_StrictSubsetOrderingWellFounded, FS_FiniteSubsetsOfFinite
<1>2. PICK s \in T : \A r \in T : <<r, s>> \notin StrictSubsetOrdering(S)
  BY <1>1, WFMin
<1> QED BY <1>2 DEF StrictSubsetOrdering

LEMMA AddsTwice ==
    ASSUME NEW f, NEW S, IsFiniteSet(S), NEW g, NEW h, NEW U, S \subseteq U,
           Adds(f, S, g), Adds(f, U, h)
    PROVE  \A s \in SUBSET S : g[s] = h[s]
<1> DEFINE T == {s \in SUBSET S : g[s] # h[s]}
<1> SUFFICES ASSUME T # {} PROVE FALSE
  OBVIOUS
<1>0. T \subseteq SUBSET S
  OBVIOUS
<1>1. PICK s \in T : \A r \in T : r \subseteq s => r = s
  <2> HIDE DEF T
  <2> QED BY <1>0, LeastSubset
<1>2. CASE s = {}
  BY <1>1, <1>2 DEF Adds
<1>3. CASE s # {}
  <2>1. Chosen(s) \in s
    BY <1>3 DEF Chosen
  <2>2. g[s \ {Chosen(s)}] = h[s \ {Chosen(s)}]
    BY <1>1, <2>1
  <2>3. g[s] = f[Chosen(s)] + g[s \ {Chosen(s)}]
    BY <1>3 DEF Adds
  <2>4. h[s] = f[Chosen(s)] + h[s \ {Chosen(s)}]
    BY <1>3 DEF Adds
  <2> QED BY <1>1, <2>2, <2>3, <2>4
<1> QED BY <1>2, <1>3

\* Every finite set can be added up.
LEMMA AddsOnce ==
    ASSUME NEW f, NEW S, IsFiniteSet(S)
    PROVE  \E g : Adds(f, S, g)
<1> DEFINE T == {s \in SUBSET S : ~ \E g : Adds(f, s, g)}
<1> SUFFICES ASSUME T # {} PROVE FALSE
  OBVIOUS
<1>0. T \subseteq SUBSET S
  OBVIOUS
<1>1. PICK s \in T : \A r \in T : r \subseteq s => r = s
  <2> HIDE DEF T
  <2> QED BY <1>0, LeastSubset
<1>2. \A r \in SUBSET s : r # s => Adds(f, r, CHOOSE g : Adds(f, r, g))
  BY <1>1
<1>3. \A r \in SUBSET s : IsFiniteSet(r)
  BY FS_Subset
<1> DEFINE G(r) == (CHOOSE g : Adds(f, r, g))[r]
           H(r) == IF r = {} THEN 0 ELSE f[Chosen(r)] + G(r \ {Chosen(r)})
           h    == [r \in SUBSET s |-> H(r)]
<1>4. \A r : r # {} => Chosen(r) \in r
  BY DEF Chosen
<1>5. ASSUME NEW r \in SUBSET s, r # s
      PROVE  H(r) = G(r)
  <2>1. PICK g : g = (CHOOSE gg : Adds(f, r, gg)) /\ Adds(f, r, g)
    BY <1>2, <1>5
  <2>2. g[r] = IF r = {} THEN 0 ELSE f[Chosen(r)] + g[r \ {Chosen(r)}]
    BY <2>1 DEF Adds
  <2>3. CASE r = {}
    BY <2>1, <2>2, <2>3
  <2>4. CASE r # {}
    <3> DEFINE p == r \ {Chosen(r)}
    <3>1. p \in SUBSET s /\ p # s /\ p \subseteq r
      BY <1>4, <1>5, <2>4
    <3>2. PICK e : e = (CHOOSE ee : Adds(f, p, ee)) /\ Adds(f, p, e)
      BY <1>2, <3>1
    <3>3. e[p] = g[p]
      BY <1>3, <2>1, <3>1, <3>2, AddsTwice
    <3> QED BY <2>1, <2>2, <2>4, <3>2, <3>3
  <2> QED BY <2>3, <2>4
<1>6. Adds(f, s, h)
  <2>1. \A r \in SUBSET s : r # {} => h[r \ {Chosen(r)}] = G(r \ {Chosen(r)})
    <3> SUFFICES ASSUME NEW r \in SUBSET s, r # {}
                 PROVE  h[r \ {Chosen(r)}] = G(r \ {Chosen(r)})
      OBVIOUS
    <3>1. PICK p : p = r \ {Chosen(r)}
      OBVIOUS
    <3>2. p \in SUBSET s /\ p # s
      BY <1>4, <3>1
    <3>3. h[p] = H(p) /\ H(p) = G(p)
      BY <1>5, <3>2
    <3> QED BY <3>1, <3>3
  <2> HIDE DEF G
  <2> QED BY <2>1 DEF Adds
<1> QED BY <1>1, <1>6

LEMMA FoldsToTotal ==
    ASSUME NEW f, NEW S, IsFiniteSet(S)
    PROVE  MapThenSumSet(LAMBDA x : f[x], S) = Total(f, S)
BY AddsOnce DEF MapThenSumSet, MapThenFoldSet, Total, Adds, Chosen

\* One function adds up every subset.
LEMMA TotalsOfSubsets ==
    ASSUME NEW f, NEW S, IsFiniteSet(S)
    PROVE  \E g : Adds(f, S, g) /\ \A s \in SUBSET S : Total(f, s) = g[s]
<1>1. PICK g : Adds(f, S, g)
  BY AddsOnce
<1>2. ASSUME NEW s \in SUBSET S PROVE Total(f, s) = g[s]
  <2>1. IsFiniteSet(s)
    BY FS_Subset
  <2>2. PICK h : h = (CHOOSE e : Adds(f, s, e)) /\ Adds(f, s, h)
    BY <2>1, AddsOnce
  <2>3. h[s] = g[s]
    BY <1>1, <2>1, <2>2, AddsTwice
  <2> QED BY <2>2, <2>3 DEF Total
<1> QED BY <1>1, <1>2

LEMMA TotalOfNone ==
    ASSUME NEW f
    PROVE  Total(f, {}) = 0
<1>1. PICK g : Adds(f, {}, g) /\ Total(f, {}) = g[{}]
  BY FS_EmptySet, TotalsOfSubsets
<1> QED BY <1>1 DEF Adds

LEMMA TotalByChoice ==
    ASSUME NEW f, NEW S, IsFiniteSet(S), S # {}
    PROVE  /\ Chosen(S) \in S
           /\ Total(f, S) = f[Chosen(S)] + Total(f, S \ {Chosen(S)})
<1>1. Chosen(S) \in S
  BY DEF Chosen
<1>2. PICK g : Adds(f, S, g) /\ \A s \in SUBSET S : Total(f, s) = g[s]
  BY TotalsOfSubsets
<1>3. g[S] = f[Chosen(S)] + g[S \ {Chosen(S)}]
  BY <1>2 DEF Adds
<1> QED BY <1>1, <1>2, <1>3

LEMMA TotalIsNat ==
    ASSUME NEW D, NEW f \in [D -> Nat], NEW S \in SUBSET D, IsFiniteSet(S)
    PROVE  Total(f, S) \in Nat
<1> DEFINE T == {s \in SUBSET S : Total(f, s) \notin Nat}
<1> SUFFICES ASSUME T # {} PROVE FALSE
  OBVIOUS
<1>0. T \subseteq SUBSET S
  OBVIOUS
<1>1. PICK s \in T : \A r \in T : r \subseteq s => r = s
  <2> HIDE DEF T
  <2> QED BY <1>0, LeastSubset
<1>2. CASE s = {}
  BY <1>1, <1>2, TotalOfNone
<1>3. CASE s # {}
  <2>1. /\ Chosen(s) \in s
        /\ Total(f, s) = f[Chosen(s)] + Total(f, s \ {Chosen(s)})
    BY <1>3, FS_Subset, TotalByChoice
  <2>2. Total(f, s \ {Chosen(s)}) \in Nat
    BY <1>1, <2>1
  <2>3. f[Chosen(s)] \in Nat
    BY <2>1
  <2> QED BY <1>1, <2>1, <2>2, <2>3
<1> QED BY <1>2, <1>3

\* The order of the elements does not matter: any of them may be added last.
LEMMA TotalTakesOut ==
    ASSUME NEW D, NEW f \in [D -> Nat], NEW S \in SUBSET D, IsFiniteSet(S), NEW z \in S
    PROVE  Total(f, S) = f[z] + Total(f, S \ {z})
<1> DEFINE T == {s \in SUBSET S : \E x \in s : Total(f, s) # f[x] + Total(f, s \ {x})}
<1> SUFFICES ASSUME T # {} PROVE FALSE
  OBVIOUS
<1>0. T \subseteq SUBSET S
  OBVIOUS
<1>1. PICK s \in T : \A r \in T : r \subseteq s => r = s
  <2> HIDE DEF T
  <2> QED BY <1>0, LeastSubset
<1>2. \A r \in SUBSET s : IsFiniteSet(r) /\ Total(f, r) \in Nat
  BY FS_Subset, TotalIsNat
<1>3. PICK x \in s : Total(f, s) # f[x] + Total(f, s \ {x})
  BY <1>1
<1>4. PICK y : y = Chosen(s)
  OBVIOUS
<1>5. y \in s /\ Total(f, s) = f[y] + Total(f, s \ {y})
  BY <1>2, <1>3, <1>4, TotalByChoice
<1>6. x # y
  BY <1>3, <1>5
<1>7. s \ {x} \notin T /\ s \ {y} \notin T
  BY <1>1, <1>5
<1>8. (s \ {x}) \ {y} = (s \ {y}) \ {x}
  OBVIOUS
<1>9. /\ Total(f, s \ {y}) = f[x] + Total(f, (s \ {y}) \ {x})
      /\ Total(f, s \ {x}) = f[y] + Total(f, (s \ {y}) \ {x})
  BY <1>5, <1>6, <1>7, <1>8
<1>10. PICK a \in Nat, b \in Nat, n \in Nat :
          a = f[x] /\ b = f[y] /\ n = Total(f, (s \ {y}) \ {x})
  BY <1>2, <1>5
<1> HIDE DEF T
<1> QED BY <1>3, <1>5, <1>9, <1>10

\* A subset adds up to no more, nor does a function that is nowhere more.
LEMMA TotalMonotone ==
    ASSUME NEW D, NEW f \in [D -> Nat], NEW R \in SUBSET D,
           NEW E, NEW h \in [E -> Nat], NEW S \in SUBSET E, IsFiniteSet(S),
           R \subseteq S, \A x \in R : f[x] <= h[x]
    PROVE  Total(f, R) <= Total(h, S)
<1> DEFINE T == {s \in SUBSET S : ~ Total(f, s \cap R) <= Total(h, s)}
<1> SUFFICES ASSUME T # {} PROVE FALSE
  <2>1. S \cap R = R
    OBVIOUS
  <2> QED BY <2>1
<1>0. T \subseteq SUBSET S
  OBVIOUS
<1>1. PICK s \in T : \A r \in T : r \subseteq s => r = s
  <2> HIDE DEF T
  <2> QED BY <1>0, LeastSubset
<1>2. \A r \in SUBSET s : /\ IsFiniteSet(r) /\ IsFiniteSet(r \cap R)
                          /\ Total(f, r \cap R) \in Nat /\ Total(h, r) \in Nat
  BY FS_Subset, TotalIsNat
<1>3. CASE s = {}
  BY <1>1, <1>3, TotalOfNone
<1>4. CASE s # {}
  <2>1. PICK x \in s : TRUE
    BY <1>4
  <2>2. Total(h, s) = h[x] + Total(h, s \ {x})
    BY <1>2, TotalTakesOut
  <2>3. s \ {x} \notin T
    BY <1>1
  <2>4. PICK a \in Nat, b \in Nat, c \in Nat :
          a = h[x] /\ b = Total(h, s \ {x}) /\ c = Total(f, (s \ {x}) \cap R)
    BY <1>2
  <2>5. c <= b
    BY <2>3, <2>4
  <2>6. CASE x \in R
    <3>1. (s \ {x}) \cap R = (s \cap R) \ {x}
      OBVIOUS
    <3>2. Total(f, s \cap R) = f[x] + Total(f, (s \cap R) \ {x})
      BY <1>2, <2>6, TotalTakesOut
    <3>3. PICK d \in Nat : d = f[x]
      BY <2>6
    <3>4. Total(f, s \cap R) = d + c
      BY <2>4, <3>1, <3>2, <3>3, Zenon
    <3>5. Total(h, s) = a + b /\ d <= a
      BY <2>2, <2>4, <2>6, <3>3
    <3>6. d + c <= a + b
      BY <2>5, <3>5
    <3> QED BY <1>1, <3>4, <3>5, <3>6
  <2>7. CASE x \notin R
    <3>1. (s \ {x}) \cap R = s \cap R
      BY <2>7
    <3>2. Total(f, s \cap R) = c
      BY <2>4, <3>1, Zenon
    <3>3. Total(h, s) = a + b
      BY <2>2, <2>4
    <3>4. c <= a + b
      BY <2>5
    <3> QED BY <1>1, <3>2, <3>3, <3>4
  <2> QED BY <2>6, <2>7
<1> QED BY <1>3, <1>4
-----------------------------------------------------------------------------
\* The latest request is one of those that are made.
LastInv == last # <<>> => last[1] \in Request

LEMMA LastInvariant == Spec => []LastInv
<1>1. Init => LastInv
  BY DEF Init, LastInv
<1>2. ASSUME LastInv, [Next]_vars PROVE LastInv'
  <2>1. ASSUME NEW q \in Request, NEW counted \in SUBSET open, Create(q, counted)
        PROVE  LastInv'
    <3>1. PICK size \in Sizes(q, counted) : last' = <<q, counted, size>>
      BY <2>1 DEF Create
    <3> QED BY <3>1 DEF LastInv
  <2>2. ASSUME NEW i \in open, Close(i) PROVE LastInv'
    BY <2>2 DEF Close, LastInv
  <2>3. CASE UNCHANGED vars
    BY <1>2, <2>3 DEF LastInv, vars
  <2> QED BY <1>2, <2>1, <2>2, <2>3 DEF Next
<1> QED BY <1>1, <1>2, PTL DEF Spec

\* A larger quotient is rounded to no less.
LEMMA NearestMonotone ==
    ASSUME NEW a \in Int, NEW b \in Int, a <= b, NEW s \in Nearest(a, 100)
    PROVE  \E t \in Nearest(b, 100) : s <= t
<1>1. /\ s \in {a \div 100, a \div 100 + 1}
      /\ -100 <= 2 * (s * 100 - a) /\ 2 * (s * 100 - a) <= 100
  BY DEF Nearest
<1>2. a \div 100 \in Int /\ b \div 100 \in Int /\ s \in Int
  BY <1>1
<1>3. b \div 100 \in Nearest(b, 100) \/ b \div 100 + 1 \in Nearest(b, 100)
  BY <1>2 DEF Nearest
<1>4. CASE s <= b \div 100
  BY <1>2, <1>3, <1>4
<1>5. CASE s > b \div 100
  <2>1. s = b \div 100 + 1
    BY <1>1, <1>2, <1>5
  <2>2. s \in Nearest(b, 100)
    BY <1>1, <1>2, <2>1 DEF Nearest
  <2> QED BY <1>2, <2>2
<1> QED BY <1>2, <1>4, <1>5

\* The tables' values.
LEMMA ScoreRange ==
    ASSUME NEW n \in Int
    PROVE  ScoreMultiplier(n) \in {0, 65, 80, 100, 115}
BY PolicyAssumption DEF ScoreMultiplier

LEMMA RegimeRange ==
    ASSUME NEW r, NEW c \in Int
    PROVE  RegimeMultiplier(r, c) \in 0 .. 105
BY DEF RegimeMultiplier

LEMMA VolatilityRange ==
    ASSUME NEW v \in Int
    PROVE  VolatilityMultiplier(v) \in {45, 60, 75, 90, 100}
BY PolicyAssumption DEF VolatilityMultiplier, Most, Least

LEMMA ProductMonotone ==
    ASSUME NEW m \in {0, 65, 80, 100, 115}, NEW v \in {45, 60, 75, 90, 100},
           NEW r \in Nat, NEW c \in Nat, r <= c
    PROVE  m * r * v \in Int /\ m * c * v \in Int /\ m * r * v <= m * c * v
<1>1. m * r \in Nat /\ m * c \in Nat /\ m * r <= m * c
  OBVIOUS
<1> QED BY <1>1

\* A regime from outside counts for no more than the observed volatility.
LEMMA SuggestedMonotone ==
    ASSUME NEW q \in Request, q.volatility >= HighVolatility,
           NEW s \in Suggested(q)
    PROVE  \E t \in Suggested([q EXCEPT !.regime = "none", !.confidence = -1]) :
              s <= t
<1> DEFINE p    == [q EXCEPT !.regime = "none", !.confidence = -1]
           seen == VolatilityScore(q.volatility) * 100
           cap  == RegimeMultiplier("alta_volatilidad", seen)
           m    == ScoreMultiplier(Score(q))
           v    == VolatilityMultiplier(q.volatility)
<1>1. /\ q.volatility \in Nat /\ q.signals \in Int /\ q.liquidity \in Int
      /\ q.trend \in Int /\ q.confidence \in Int
      /\ p.volatility = q.volatility /\ p.signals = q.signals
      /\ p.liquidity = q.liquidity /\ p.regime = "none" /\ p.confidence = -1
  BY RequestAssumption
<1> HIDE DEF p
<1>2. Score(q) \in Int /\ Score(p) = Score(q)
  BY <1>1 DEF Score
<1>3. VolatilityScore(q.volatility) \in Nat /\ seen \in Nat
  BY <1>1 DEF VolatilityScore, Least
<1>4. Regime(p) = "alta_volatilidad"
  BY <1>1, PolicyAssumption DEF Regime
<1>5. Confidence(p) = seen
  <2>1. Confidence(p) = VolatilityScore(p.volatility) * 100
    <3>1. ~ (p.confidence >= 0)
      BY <1>1
    <3> QED BY <3>1, <1>4, SMTT(30) DEF Confidence, Trending
  <2> QED BY <1>1, <2>1
<1>6. Confidence(q) \in Int
  BY <1>1, <1>3 DEF Confidence, VolatilityScore, Least, Regime, Trending
<1>7. RegimeMultiplier(Regime(q), Confidence(q)) \in Nat /\ cap \in Nat
  BY <1>3, <1>6, RegimeRange
<1>8. CappedRegime(p) = cap
  BY <1>1, <1>4, <1>5, <1>7, PolicyAssumption DEF CappedRegime, Least
<1>9. CappedRegime(q) \in Nat /\ CappedRegime(q) <= cap
  BY <1>1, <1>7, PolicyAssumption DEF CappedRegime, Least
<1>10. m \in {0, 65, 80, 100, 115} /\ v \in {45, 60, 75, 90, 100}
  BY <1>1, <1>2, ScoreRange, VolatilityRange
<1>11. PICK r \in Nat : r = CappedRegime(q)
  BY <1>9
<1>12. PICK c \in Nat : c = cap
  BY <1>7
<1> HIDE DEF m, v, cap
<1>13. /\ m * r * v \in Int /\ m * c * v \in Int /\ m * r * v <= m * c * v
  BY <1>9, <1>10, <1>11, <1>12, ProductMonotone
<1>14. PICK a \in Int : a = Least(m * r * v, MaxTrade * 100)
  BY <1>13, PolicyAssumption DEF Least
<1>15. PICK b \in Int : b = Least(m * c * v, MaxTrade * 100)
  BY <1>13, PolicyAssumption DEF Least
<1>16. a <= b
  BY <1>13, <1>14, <1>15, PolicyAssumption DEF Least
<1>17. s \in Nearest(a, 100)
  BY <1>11, <1>14 DEF Suggested, m, v
<1>18. Suggested(p) = Nearest(b, 100)
  BY <1>1, <1>2, <1>8, <1>12, <1>15 DEF Suggested, m, v
<1>19. \E t \in Nearest(b, 100) : s <= t
  BY <1>16, <1>17, NearestMonotone
<1> QED BY <1>18, <1>19 DEF p

\* At high volatility a regime and a confidence that come with the request
\* allow no larger size (OutsideRegimeIsNoBolder), for every policy.
THEOREM OutsideRegimeIsCapped == Spec => []OutsideRegimeIsNoBolder
<1>1. LastInv => OutsideRegimeIsNoBolder
  BY SuggestedMonotone DEF LastInv, OutsideRegimeIsNoBolder
<1> QED BY <1>1, LastInvariant, PTL

-----------------------------------------------------------------------------
(* The limits of the portfolio.                                            *)

StoredPlan == [symbol : Symbol, status : {"approved", "blocked"},
               risk : 0 .. MaxTrade, omitted : SUBSET (1 .. MaxPlans)]

\* Risk of the plans S of p, and what the correlation guard makes of it.
RiskOf(p) == [i \in DOMAIN p |-> p[i].risk]
ShareOf(p, q, limit) ==
    [i \in DOMAIN p |-> Correlation(ClusterOf[q.symbol], ClusterOf[p[i].symbol])
                          * Least(p[i].risk, limit)]

LEMMA RiskAddsUp ==
    ASSUME NEW p, NEW S \in SUBSET DOMAIN p, IsFiniteSet(S)
    PROVE  MapThenSumSet(LAMBDA i : p[i].risk, S) = Total(RiskOf(p), S)
<1>1. PICK g : Adds(RiskOf(p), S, g)
  BY AddsOnce
<1>2. \A s \in SUBSET S : s # {} => RiskOf(p)[Chosen(s)] = p[Chosen(s)].risk
  BY DEF RiskOf, Chosen
<1>3. Adds(RiskOf(p), S, g) <=>
        g = [s \in SUBSET S |-> IF s = {} THEN 0 ELSE p[Chosen(s)].risk + g[s \ {Chosen(s)}]]
  BY <1>2 DEF Adds
<1>4. \A h : h = [s \in SUBSET S |-> IF s = {} THEN 0
                                     ELSE p[Chosen(s)].risk + h[s \ {Chosen(s)}]]
             => Adds(RiskOf(p), S, h)
  BY <1>2 DEF Adds
<1>5. Adds(RiskOf(p), S, CHOOSE h :
        h = [s \in SUBSET S |-> IF s = {} THEN 0
                                ELSE p[Chosen(s)].risk + h[s \ {Chosen(s)}]])
  BY <1>1, <1>3, <1>4
<1>6. \A h : Adds(RiskOf(p), S, h) => h[S] = Total(RiskOf(p), S)
  BY AddsOnce, AddsTwice DEF Total
<1> QED BY <1>5, <1>6 DEF MapThenSumSet, MapThenFoldSet, Chosen

LEMMA SharesAddUp ==
    ASSUME NEW p, NEW q, NEW limit, NEW S \in SUBSET DOMAIN p, IsFiniteSet(S)
    PROVE  MapThenSumSet(LAMBDA i : Correlation(ClusterOf[q.symbol], ClusterOf[p[i].symbol])
                                      * Least(p[i].risk, limit), S)
             = Total(ShareOf(p, q, limit), S)
<1> DEFINE Share(i) == Correlation(ClusterOf[q.symbol], ClusterOf[p[i].symbol])
                         * Least(p[i].risk, limit)
           f == ShareOf(p, q, limit)
<1>1. PICK g : Adds(f, S, g)
  BY AddsOnce
<1>2. \A s \in SUBSET S : s # {} => f[Chosen(s)] = Share(Chosen(s))
  BY DEF ShareOf, Chosen
<1> HIDE DEF Share, f
<1>3. Adds(f, S, g) =>
        g = [s \in SUBSET S |-> IF s = {} THEN 0 ELSE Share(Chosen(s)) + g[s \ {Chosen(s)}]]
  BY <1>2 DEF Adds
<1>4. \A h : h = [s \in SUBSET S |-> IF s = {} THEN 0
                                     ELSE Share(Chosen(s)) + h[s \ {Chosen(s)}]]
             => Adds(f, S, h)
  BY <1>2 DEF Adds
<1>5. Adds(f, S, CHOOSE h :
        h = [s \in SUBSET S |-> IF s = {} THEN 0
                                ELSE Share(Chosen(s)) + h[s \ {Chosen(s)}]])
  BY <1>1, <1>3, <1>4
<1>6. \A h : Adds(f, S, h) => h[S] = Total(f, S)
  BY AddsOnce, AddsTwice DEF Total
<1>7. MapThenSumSet(Share, S) = Total(f, S)
  BY <1>5, <1>6 DEF MapThenSumSet, MapThenFoldSet, Chosen
<1> QED BY <1>7 DEF Share, f

\* One more plan leaves the risk of the others as it was.
LEMMA RiskOfMore ==
    ASSUME NEW p \in Seq(StoredPlan), NEW r \in StoredPlan, NEW n, n = Len(p) + 1,
           NEW S \in SUBSET DOMAIN p
    PROVE  /\ IsFiniteSet(S) /\ IsFiniteSet(S \cup {n})
           /\ Total(RiskOf(p), S) \in Nat
           /\ Total(RiskOf(Append(p, r)), S) = Total(RiskOf(p), S)
           /\ Total(RiskOf(Append(p, r)), S \cup {n}) = r.risk + Total(RiskOf(p), S)
<1> DEFINE b == Append(p, r)
<1>1. /\ DOMAIN p = 1 .. Len(p) /\ DOMAIN b = 1 .. n /\ n \in Nat
      /\ \A i \in DOMAIN p : i \in DOMAIN b /\ b[i] = p[i] /\ p[i] \in StoredPlan
      /\ b[n] = r /\ n \notin DOMAIN p /\ n \in DOMAIN b
  OBVIOUS
<1>2. IsFiniteSet(S) /\ IsFiniteSet(S \cup {n})
  <2>1. 1 \in Int /\ Len(p) \in Int
    OBVIOUS
  <2>2. IsFiniteSet(1 .. Len(p))
    BY <2>1, FS_Interval
  <2>3. IsFiniteSet(S)
    BY <1>1, <2>2, FS_Subset
  <2> QED BY <2>3, FS_AddElement
<1> HIDE DEF b
<1>3. RiskOf(p) \in [DOMAIN p -> Nat] /\ RiskOf(b) \in [DOMAIN b -> Nat]
  BY <1>1, PolicyAssumption DEF RiskOf, StoredPlan
<1>4. \A i \in S : RiskOf(b)[i] = RiskOf(p)[i] /\ RiskOf(b)[i] \in Nat
  BY <1>1, <1>3 DEF RiskOf
<1>5. S \in SUBSET DOMAIN b /\ S \cup {n} \in SUBSET DOMAIN b /\ S \subseteq S
  BY <1>1
<1>6. Total(RiskOf(p), S) \in Nat /\ Total(RiskOf(b), S) \in Nat
  BY <1>2, <1>3, <1>5, TotalIsNat
<1>7. Total(RiskOf(p), S) <= Total(RiskOf(b), S)
  BY <1>2, <1>3, <1>4, <1>5, TotalMonotone
<1>8. Total(RiskOf(b), S) <= Total(RiskOf(p), S)
  BY <1>2, <1>3, <1>4, <1>5, TotalMonotone
<1>9. Total(RiskOf(b), S \cup {n}) = RiskOf(b)[n] + Total(RiskOf(b), (S \cup {n}) \ {n})
  <2>1. PICK T \in SUBSET DOMAIN b : T = S \cup {n}
    BY <1>5
  <2>2. n \in T /\ IsFiniteSet(T)
    BY <1>2, <2>1
  <2>3. Total(RiskOf(b), T) = RiskOf(b)[n] + Total(RiskOf(b), T \ {n})
    BY <1>3, <2>2, TotalTakesOut
  <2> QED BY <2>1, <2>3
<1>10. (S \cup {n}) \ {n} = S
  BY <1>1
<1>11. RiskOf(b)[n] = r.risk
  BY <1>1 DEF RiskOf
<1>12. Total(RiskOf(b), S) = Total(RiskOf(p), S)
  BY <1>6, <1>7, <1>8
<1> QED BY <1>2, <1>6, <1>9, <1>10, <1>11, <1>12 DEF b

LEMMA NearestRange ==
    ASSUME NEW n \in Nat
    PROVE  /\ \E s \in Nearest(n, 100) : TRUE
           /\ \A s \in Nearest(n, 100) :
                s \in Nat /\ \A m \in Nat : n <= m * 100 => s <= m
<1>1. n \div 100 \in Nearest(n, 100) \/ n \div 100 + 1 \in Nearest(n, 100)
  BY DEF Nearest
<1>2. ASSUME NEW s \in Nearest(n, 100)
      PROVE  s \in Nat /\ \A m \in Nat : n <= m * 100 => s <= m
  <2>1. s \in Nat /\ 2 * (s * 100 - n) <= 100
    BY DEF Nearest
  <2> QED BY <2>1
<1> QED BY <1>1, <1>2

LEMMA SuggestedRange ==
    ASSUME NEW q \in Request
    PROVE  /\ \E r \in Suggested(q) : TRUE
           /\ Suggested(q) \subseteq 0 .. MaxTrade
<1> DEFINE m == ScoreMultiplier(Score(q))
           c == CappedRegime(q)
           v == VolatilityMultiplier(q.volatility)
<1>1. /\ q.volatility \in Nat /\ q.signals \in Int /\ q.liquidity \in Int
      /\ q.trend \in Int /\ q.confidence \in Int
  BY RequestAssumption
<1>2. Score(q) \in Int /\ VolatilityScore(q.volatility) \in Nat
  BY <1>1 DEF Score, VolatilityScore, Least
<1>3. Confidence(q) \in Int
  BY <1>1, <1>2 DEF Confidence, VolatilityScore, Least, Regime, Trending
<1>4. c \in Nat
  <2>1. RegimeMultiplier(Regime(q), Confidence(q)) \in Nat
    BY <1>3, RegimeRange
  <2>2. VolatilityScore(q.volatility) * 100 \in Int
    BY <1>2
  <2>3. RegimeMultiplier("alta_volatilidad", VolatilityScore(q.volatility) * 100) \in Nat
    BY <2>2, RegimeRange
  <2> QED BY <2>1, <2>3 DEF CappedRegime, Least
<1>5. m \in Nat /\ v \in Nat
  BY <1>1, <1>2, ScoreRange, VolatilityRange
<1> HIDE DEF m, c, v
<1>6. m * c \in Nat
  BY <1>4, <1>5
<1>7. m * c * v \in Nat
  BY <1>5, <1>6
<1>8. PICK n \in Nat : n = Least(m * c * v, MaxTrade * 100) /\ n <= MaxTrade * 100
  BY <1>7, PolicyAssumption DEF Least
<1>9. Suggested(q) = Nearest(n, 100)
  BY <1>8 DEF Suggested, m, c, v
<1>10. MaxTrade \in Nat
  BY PolicyAssumption
<1> QED BY <1>8, <1>9, <1>10, NearestRange

LEMMA CorrelationRange ==
    ASSUME NEW c, NEW d
    PROVE  Correlation(c, d) \in 50 .. 95
BY DEF Correlation

LEMMA CorrelationMultiplierRange ==
    ASSUME NEW q, NEW S
    PROVE  CorrelationMultiplier(q, S) \in {72, 84, 92, 100}
BY DEF CorrelationMultiplier

LEMMA RoomRange ==
    ASSUME TypeOK, NEW q, NEW S \in SUBSET DOMAIN plans
    PROVE  /\ portfolio.existing + Risk(S) \in Nat /\ AccountLimit \in Nat
           /\ ClusterLimit \in Nat /\ SymbolLimit \in Nat
           /\ Room(q, S) \in Int
           /\ Room(q, S) <= AccountLimit - Least(1000000, portfolio.existing + Risk(S))
           /\ Room(q, S) <= SymbolLimit - Risk(OfSymbol(S, q.symbol))
           /\ Room(q, S) <= ClusterLimit - Risk(InCluster(S, ClusterOf[q.symbol]))
<1>1. ASSUME NEW T \in SUBSET S PROVE Risk(T) \in Nat
  <2>1. DOMAIN plans = 1 .. Len(plans) /\ 1 \in Int /\ Len(plans) \in Int
    BY DEF TypeOK
  <2>2. IsFiniteSet(DOMAIN plans)
    BY <2>1, FS_Interval
  <2>3. IsFiniteSet(T) /\ T \in SUBSET DOMAIN plans
    BY <2>2, FS_Subset
  <2>4. Risk(T) = Total(RiskOf(plans), T)
    BY <2>3, RiskAddsUp DEF Risk
  <2>5. plans \in Seq(StoredPlan)
    BY DEF TypeOK, StoredPlan
  <2>6. \A i \in DOMAIN plans : plans[i] \in StoredPlan
    BY <2>5
  <2>7. RiskOf(plans) \in [DOMAIN plans -> Nat]
    BY <2>6, PolicyAssumption DEF RiskOf, StoredPlan
  <2> QED BY <2>3, <2>4, <2>7, TotalIsNat
<1>2. Risk(OfSymbol(S, q.symbol)) \in Nat /\ Risk(InCluster(S, ClusterOf[q.symbol])) \in Nat
      /\ Risk(S) \in Nat
  BY <1>1 DEF OfSymbol, InCluster
<1>3. /\ portfolio.existing \in Nat /\ portfolio.account \in Nat
      /\ portfolio.cluster \in Nat /\ portfolio.symbol \in Nat
  BY PortfolioAssumption DEF TypeOK
<1>4. AccountLimit \in Nat /\ ClusterLimit \in Nat /\ SymbolLimit \in Nat
  BY <1>3, PolicyAssumption DEF AccountLimit, ClusterLimit, SymbolLimit, Least
<1> QED BY <1>2, <1>3, <1>4 DEF Room, Least

LEMMA SizesRange ==
    ASSUME NEW q \in Request, NEW S, Room(q, S) \in Int, NEW s \in Sizes(q, S)
    PROVE  s \in 0 .. MaxTrade /\ (s > 0 => s <= Room(q, S))
<1>0. PICK room \in Int : room = Room(q, S)
  OBVIOUS
<1>1. CASE ~ q.stop \/ room <= 0
  BY <1>0, <1>1, PolicyAssumption DEF Sizes
<1>2. CASE q.stop /\ room > 0
  <2>0. PICK r \in Suggested(q) :
            \E t \in Nearest(r * CorrelationMultiplier(q, S), 100) : s = Least(t, room)
    BY <1>0, <1>2 DEF Sizes
  <2>1. PICK t \in Nearest(r * CorrelationMultiplier(q, S), 100) : s = Least(t, room)
    BY <2>0
  <2>2. PICK c \in {72, 84, 92, 100} : c = CorrelationMultiplier(q, S)
    BY CorrelationMultiplierRange
  <2>3. r \in 0 .. MaxTrade /\ MaxTrade \in Nat
    BY SuggestedRange, PolicyAssumption
  <2>4. r * c \in Nat /\ r * c <= MaxTrade * 100
    BY <2>2, <2>3
  <2>5. t \in Nat /\ t <= MaxTrade
    BY <2>1, <2>2, <2>3, <2>4, NearestRange
  <2> QED BY <1>0, <1>2, <2>1, <2>3, <2>5 DEF Least
<1> QED BY <1>0, <1>1, <1>2

\* What create_trade_plan stores, for a size the engine may apply.
NewPlan(q, counted, size) ==
    LET approved == size > 0 /\ GatePasses(q, counted, size)
    IN [symbol  |-> q.symbol,
        status  |-> IF approved THEN "approved" ELSE "blocked",
        risk    |-> IF approved THEN size ELSE 0,
        omitted |-> open \ counted]

LEMMA PlansInBounds ==
    ASSUME TypeOK
    PROVE  /\ plans \in Seq(StoredPlan) /\ DOMAIN plans = 1 .. Len(plans) /\ Len(plans) \in Nat
           /\ open \subseteq DOMAIN plans
           /\ \A i \in DOMAIN plans : plans[i] \in StoredPlan
<1>1. plans \in Seq(StoredPlan) /\ open \subseteq DOMAIN plans
  BY DEF TypeOK, StoredPlan
<1> QED BY <1>1

LEMMA Created ==
    ASSUME TypeOK, NEW q \in Request, NEW counted \in SUBSET open, Create(q, counted)
    PROVE  \E size \in Sizes(q, counted) :
             /\ size \in 0 .. MaxTrade
             /\ NewPlan(q, counted, size) \in StoredPlan
             /\ plans' = Append(plans, NewPlan(q, counted, size))
             /\ open' = IF size > 0 /\ GatePasses(q, counted, size)
                        THEN open \cup {Len(plans) + 1} ELSE open
             /\ last' = <<q, counted, size>>
             /\ portfolio' = portfolio
             /\ Len(plans) < MaxPlans
<1>1. PICK size \in Sizes(q, counted) :
             /\ plans' = Append(plans, NewPlan(q, counted, size))
             /\ open' = IF size > 0 /\ GatePasses(q, counted, size)
                        THEN open \cup {Len(plans) + 1} ELSE open
             /\ last' = <<q, counted, size>>
  BY DEF Create, NewPlan
<1>2. counted \in SUBSET DOMAIN plans
  BY PlansInBounds
<1>3. Room(q, counted) \in Int
  BY <1>2, RoomRange
<1>4. size \in 0 .. MaxTrade
  BY <1>3, SizesRange
<1>5. Len(plans) < MaxPlans /\ portfolio' = portfolio
  BY DEF Create
<1>6. open \subseteq 1 .. MaxPlans
  BY <1>5, PlansInBounds, PolicyAssumption
<1>7. q.symbol \in Symbol /\ 0 \in 0 .. MaxTrade
  BY RequestAssumption, PolicyAssumption
<1>8. NewPlan(q, counted, size) \in StoredPlan
  BY <1>4, <1>6, <1>7 DEF NewPlan, StoredPlan
<1> QED BY <1>1, <1>4, <1>5, <1>8

LEMMA TypesInductive ==
    ASSUME TypeOK, [Next]_vars
    PROVE  TypeOK'
<1>0. TypeOK <=> /\ portfolio \in Portfolio
                 /\ plans \in Seq(StoredPlan)
                 /\ open \subseteq {i \in DOMAIN plans : plans[i].status = "approved"}
                 /\ last # <<>> => last[1] \in Request /\ last[2] \subseteq DOMAIN plans
  BY DEF TypeOK, StoredPlan
<1>1. ASSUME NEW q \in Request, NEW counted \in SUBSET open, Create(q, counted)
      PROVE  TypeOK'
  <2>1. PICK size \in Sizes(q, counted) :
             /\ NewPlan(q, counted, size) \in StoredPlan
             /\ plans' = Append(plans, NewPlan(q, counted, size))
             /\ open' = IF size > 0 /\ GatePasses(q, counted, size)
                        THEN open \cup {Len(plans) + 1} ELSE open
             /\ last' = <<q, counted, size>>
             /\ portfolio' = portfolio
    BY <1>1, Created
  <2>2. PICK r \in StoredPlan : r = NewPlan(q, counted, size)
    BY <2>1
  <2>3. /\ plans' \in Seq(StoredPlan) /\ DOMAIN plans' = 1 .. Len(plans) + 1
        /\ \A i \in DOMAIN plans : i \in DOMAIN plans' /\ plans'[i] = plans[i]
        /\ plans'[Len(plans) + 1] = r
    BY <2>1, <2>2, PlansInBounds
  <2>4. size > 0 /\ GatePasses(q, counted, size) => r.status = "approved"
    BY <2>2 DEF NewPlan
  <2>5. Len(plans) + 1 \in DOMAIN plans'
    BY <2>3, PlansInBounds
  <2>6. open' \subseteq {i \in DOMAIN plans' : plans'[i].status = "approved"}
    BY <1>0, <2>1, <2>3, <2>4, <2>5
  <2>7. last'[1] \in Request /\ last'[2] \subseteq DOMAIN plans'
    BY <2>1, <2>3, PlansInBounds
  <2> QED BY <1>0, <2>1, <2>3, <2>6, <2>7 DEF TypeOK, StoredPlan
<1>2. ASSUME NEW i \in open, Close(i)
      PROVE  TypeOK'
  BY <1>2 DEF TypeOK, Close
<1>3. CASE UNCHANGED vars
  BY <1>3 DEF TypeOK, vars
<1> QED BY <1>1, <1>2, <1>3 DEF Next

\* The engine's variables keep their types, for every policy and every account.
THEOREM SizingTypes == Spec => []TypeOK
<1>1. Init => TypeOK
  BY DEF Init, TypeOK
<1> QED BY <1>1, TypesInductive, PTL DEF Spec

LEMMA RiskMonotone ==
    ASSUME NEW p \in Seq(StoredPlan), NEW S \in SUBSET DOMAIN p, NEW R \in SUBSET S
    PROVE  /\ IsFiniteSet(S) /\ IsFiniteSet(R)
           /\ Total(RiskOf(p), R) \in Nat /\ Total(RiskOf(p), S) \in Nat
           /\ Total(RiskOf(p), R) <= Total(RiskOf(p), S)
<1>1. DOMAIN p = 1 .. Len(p) /\ 1 \in Int /\ Len(p) \in Int
  OBVIOUS
<1>2. IsFiniteSet(S) /\ IsFiniteSet(R)
  BY <1>1, FS_Interval, FS_Subset
<1>3. \A i \in DOMAIN p : p[i] \in StoredPlan
  OBVIOUS
<1>4. RiskOf(p) \in [DOMAIN p -> Nat]
  BY <1>3, PolicyAssumption DEF RiskOf, StoredPlan
<1>5. \A x \in R : RiskOf(p)[x] <= RiskOf(p)[x]
  BY <1>4
<1> QED BY <1>2, <1>4, <1>5, TotalIsNat, TotalMonotone

\* What the creation of plan i saw to, if it counted every plan then open: the
\* limits of the account acc for the open plans o up to i.
RiskIn(p, S)        == Total(RiskOf(p), S)
Upto(o, i)          == {j \in o : j <= i}
Alike(p, S, i)      == {j \in S : ClusterOf[p[j].symbol] = ClusterOf[p[i].symbol]}
SameSymbol(p, S, i) == {j \in S : p[j].symbol = p[i].symbol}
AccountOf(acc)      == Least(MaxAccount, acc.account)

Within(p, acc, o, i) ==
    /\ acc.existing + RiskIn(p, Upto(o, i)) < GateAccount
    /\ acc.existing + RiskIn(p, Upto(o, i)) <= AccountOf(acc)
    /\ RiskIn(p, Alike(p, Upto(o, i), i)) <= Least(AccountOf(acc), acc.cluster)
    /\ RiskIn(p, SameSymbol(p, Upto(o, i), i)) <= Least(AccountOf(acc), acc.symbol)

LimitsInv ==
    \A i \in open : plans[i].omitted = {} => Within(plans, portfolio, open, i)

LEMMA AccountTypes ==
    ASSUME NEW acc \in Portfolio
    PROVE  /\ acc.existing \in Nat /\ AccountOf(acc) \in Nat
           /\ Least(AccountOf(acc), acc.cluster) \in Nat
           /\ Least(AccountOf(acc), acc.symbol) \in Nat
BY PortfolioAssumption, PolicyAssumption DEF AccountOf, Least

\* Fewer plans open add up to less.
LEMMA WithinFewer ==
    ASSUME NEW p \in Seq(StoredPlan), NEW acc \in Portfolio, NEW o \in SUBSET DOMAIN p,
           NEW n \in SUBSET o, NEW i \in n, Within(p, acc, o, i)
    PROVE  Within(p, acc, n, i)
<1>1. /\ Upto(n, i) \subseteq Upto(o, i) /\ Upto(o, i) \subseteq DOMAIN p
      /\ Alike(p, Upto(n, i), i) \subseteq Alike(p, Upto(o, i), i)
      /\ Alike(p, Upto(o, i), i) \subseteq DOMAIN p
      /\ SameSymbol(p, Upto(n, i), i) \subseteq SameSymbol(p, Upto(o, i), i)
      /\ SameSymbol(p, Upto(o, i), i) \subseteq DOMAIN p
  BY DEF Upto, Alike, SameSymbol
<1>2. \A S \in SUBSET DOMAIN p : \A R \in SUBSET S :
          RiskIn(p, R) \in Nat /\ RiskIn(p, S) \in Nat /\ RiskIn(p, R) <= RiskIn(p, S)
  BY RiskMonotone DEF RiskIn
<1>3. /\ RiskIn(p, Upto(n, i)) \in Nat /\ RiskIn(p, Upto(o, i)) \in Nat
      /\ RiskIn(p, Upto(n, i)) <= RiskIn(p, Upto(o, i))
      /\ RiskIn(p, Alike(p, Upto(n, i), i)) \in Nat
      /\ RiskIn(p, Alike(p, Upto(o, i), i)) \in Nat
      /\ RiskIn(p, Alike(p, Upto(n, i), i)) <= RiskIn(p, Alike(p, Upto(o, i), i))
      /\ RiskIn(p, SameSymbol(p, Upto(n, i), i)) \in Nat
      /\ RiskIn(p, SameSymbol(p, Upto(o, i), i)) \in Nat
      /\ RiskIn(p, SameSymbol(p, Upto(n, i), i)) <= RiskIn(p, SameSymbol(p, Upto(o, i), i))
  BY <1>1, <1>2
<1>4. /\ acc.existing \in Nat /\ AccountOf(acc) \in Nat /\ GateAccount \in Nat
      /\ Least(AccountOf(acc), acc.cluster) \in Nat
      /\ Least(AccountOf(acc), acc.symbol) \in Nat
  BY AccountTypes, PolicyAssumption
<1>5. /\ acc.existing + RiskIn(p, Upto(n, i)) <= acc.existing + RiskIn(p, Upto(o, i))
      /\ acc.existing + RiskIn(p, Upto(o, i)) \in Nat
      /\ acc.existing + RiskIn(p, Upto(n, i)) \in Nat
  BY <1>3, <1>4
<1>6. \A a, b, c \in Nat : a <= b => (b < c => a < c) /\ (b <= c => a <= c)
  OBVIOUS
<1>7. /\ acc.existing + RiskIn(p, Upto(n, i)) < GateAccount
      /\ acc.existing + RiskIn(p, Upto(n, i)) <= AccountOf(acc)
  BY <1>4, <1>5, <1>6 DEF Within
<1>8. RiskIn(p, Alike(p, Upto(n, i), i)) <= Least(AccountOf(acc), acc.cluster)
  BY <1>3, <1>4, <1>6 DEF Within
<1>9. RiskIn(p, SameSymbol(p, Upto(n, i), i)) <= Least(AccountOf(acc), acc.symbol)
  BY <1>3, <1>4, <1>6 DEF Within
<1> QED BY <1>7, <1>8, <1>9 DEF Within

\* A plan that is added changes nothing for the plans before it.
LEMMA WithinLonger ==
    ASSUME NEW p \in Seq(StoredPlan), NEW r \in StoredPlan, NEW acc,
           NEW o \in SUBSET DOMAIN p, NEW i \in o, Within(p, acc, o, i),
           NEW n \in {o, o \cup {Len(p) + 1}}
    PROVE  Within(Append(p, r), acc, n, i)
<1>1. PICK b : b = Append(p, r)
  OBVIOUS
<1>2. /\ \A j \in DOMAIN p : b[j] = p[j]
      /\ DOMAIN p = 1 .. Len(p) /\ Len(p) \in Nat
  BY <1>1
<1>3. Upto(n, i) = Upto(o, i) /\ Upto(o, i) \subseteq DOMAIN p
  BY <1>2 DEF Upto
<1>4. /\ Alike(b, Upto(n, i), i) = Alike(p, Upto(o, i), i)
      /\ SameSymbol(b, Upto(n, i), i) = SameSymbol(p, Upto(o, i), i)
      /\ Alike(p, Upto(o, i), i) \subseteq DOMAIN p
      /\ SameSymbol(p, Upto(o, i), i) \subseteq DOMAIN p
  BY <1>2, <1>3 DEF Alike, SameSymbol
<1>5. \A S \in SUBSET DOMAIN p : RiskIn(b, S) = RiskIn(p, S)
  BY <1>1, RiskOfMore DEF RiskIn
<1>6. /\ RiskIn(b, Upto(n, i)) = RiskIn(p, Upto(o, i))
      /\ RiskIn(b, Alike(b, Upto(n, i), i)) = RiskIn(p, Alike(p, Upto(o, i), i))
      /\ RiskIn(b, SameSymbol(b, Upto(n, i), i)) = RiskIn(p, SameSymbol(p, Upto(o, i), i))
  BY <1>3, <1>4, <1>5
<1> QED BY <1>1, <1>6 DEF Within

LEMMA RiskIsRiskIn ==
    ASSUME TypeOK, NEW S \in SUBSET DOMAIN plans
    PROVE  Risk(S) = RiskIn(plans, S) /\ RiskIn(plans, S) \in Nat
<1>1. PICK p \in Seq(StoredPlan) : p = plans
  BY PlansInBounds
<1>2. S \in SUBSET DOMAIN p /\ S \in SUBSET S
  BY <1>1
<1>3. IsFiniteSet(S) /\ Total(RiskOf(p), S) \in Nat
  BY <1>2, RiskMonotone
<1> QED BY <1>1, <1>3, RiskAddsUp DEF Risk, RiskIn

\* The room left to a request and the gate hold for the plan that uses them up.
LEMMA WithinNew ==
    ASSUME TypeOK, NEW q \in Request, NEW size \in Nat, size > 0,
           size <= Room(q, open), GatePasses(q, open, size),
           NEW r \in StoredPlan, r.risk = size, r.symbol = q.symbol,
           NEW n, n = Len(plans) + 1
    PROVE  Within(Append(plans, r), portfolio, open \cup {n}, n)
<1>0. PICK p \in Seq(StoredPlan) : p = plans
  BY PlansInBounds
<1>1. PICK o \in SUBSET DOMAIN p : p = plans /\ o = open
  BY <1>0, PlansInBounds
<1>2. PICK b : b = Append(p, r)
  OBVIOUS
<1>3. /\ \A j \in DOMAIN p : b[j] = p[j]
      /\ b[n] = r /\ n = Len(p) + 1
      /\ DOMAIN p = 1 .. Len(p) /\ Len(p) \in Nat
  BY <1>1, <1>2
<1>4. /\ \A j \in o : j <= n /\ b[j] = p[j]
      /\ n <= n
  BY <1>3
<1> DEFINE C == InCluster(o, ClusterOf[q.symbol])
           E == OfSymbol(o, q.symbol)
<1>5. /\ Upto(o \cup {n}, n) = o \cup {n}
      /\ Alike(b, o \cup {n}, n) = C \cup {n}
      /\ SameSymbol(b, o \cup {n}, n) = E \cup {n}
      /\ C \in SUBSET DOMAIN p /\ E \in SUBSET DOMAIN p
  BY <1>1, <1>3, <1>4 DEF Upto, Alike, SameSymbol, InCluster, OfSymbol
<1>6. \A S \in SUBSET DOMAIN p : RiskIn(b, S \cup {n}) = size + RiskIn(p, S)
  BY <1>2, <1>3, RiskOfMore DEF RiskIn
<1>7. PICK c \in SUBSET DOMAIN p, e \in SUBSET DOMAIN p : c = C /\ e = E
  BY <1>5
<1>8. PICK x \in Nat, y \in Nat, z \in Nat :
          x = RiskIn(p, o) /\ y = RiskIn(p, c) /\ z = RiskIn(p, e)
  BY <1>1, <1>5, <1>7, RiskIsRiskIn
<1>9. x = Risk(o) /\ y = Risk(c) /\ z = Risk(e)
  BY <1>1, <1>5, <1>7, <1>8, RiskIsRiskIn
<1>10. /\ RiskIn(b, Upto(o \cup {n}, n)) = size + x
       /\ RiskIn(b, Alike(b, o \cup {n}, n)) = size + y
       /\ RiskIn(b, SameSymbol(b, o \cup {n}, n)) = size + z
  BY <1>5, <1>6, <1>7, <1>8
<1>11. PICK a \in Nat, k \in Nat, s \in Nat, h \in Nat :
          /\ a = AccountLimit /\ k = ClusterLimit /\ s = SymbolLimit
          /\ h = portfolio.existing
  BY <1>1, RoomRange, PortfolioAssumption DEF TypeOK
<1>12. size + Least(1000000, h + x) < GateAccount
  <2>1. Least(1000000, portfolio.existing + Risk(open)) + size < GateAccount
    BY DEF GatePasses
  <2>2. Least(1000000, h + x) + size < GateAccount
    BY <1>1, <1>9, <1>11, <2>1
  <2>3. Least(1000000, h + x) \in Nat
    BY DEF Least
  <2> QED BY <2>2, <2>3, PolicyAssumption
<1>13. /\ size <= a - Least(1000000, h + x)
       /\ size <= s - z /\ size <= k - y
  <2>1. PICK room \in Int : room = Room(q, open)
    BY <1>1, RoomRange
  <2>2. /\ room <= AccountLimit - Least(1000000, portfolio.existing + Risk(open))
        /\ room <= SymbolLimit - Risk(OfSymbol(open, q.symbol))
        /\ room <= ClusterLimit - Risk(InCluster(open, ClusterOf[q.symbol]))
    BY <1>1, <2>1, RoomRange
  <2>3. Least(1000000, h + x) \in Int
    BY DEF Least
  <2>4. /\ room <= a - Least(1000000, h + x)
        /\ room <= s - z /\ room <= k - y
    BY <1>1, <1>7, <1>9, <1>11, <2>2
  <2> QED BY <2>1, <2>3, <2>4
<1>14. h + x < 1000000
  BY <1>12, PolicyAssumption DEF Least
<1>15. h + (size + x) < GateAccount /\ h + (size + x) <= a /\ size + y <= k /\ size + z <= s
  BY <1>12, <1>13, <1>14, PolicyAssumption DEF Least
<1>16. a = AccountOf(portfolio) /\ k = Least(AccountOf(portfolio), portfolio.cluster)
       /\ s = Least(AccountOf(portfolio), portfolio.symbol)
  BY <1>11 DEF AccountOf, AccountLimit, ClusterLimit, SymbolLimit
<1>17. Within(b, portfolio, o \cup {n}, n)
  <2>1. PICK u : u = o \cup {n}
    OBVIOUS
  <2>2. /\ RiskIn(b, Upto(u, n)) = size + x
        /\ RiskIn(b, Alike(b, Upto(u, n), n)) = size + y
        /\ RiskIn(b, SameSymbol(b, Upto(u, n), n)) = size + z
    BY <1>5, <1>10, <2>1
  <2>3. Within(b, portfolio, u, n)
    BY <1>11, <1>15, <1>16, <2>2 DEF Within
  <2> QED BY <2>1, <2>3
<1> QED BY <1>1, <1>2, <1>17

LEMMA LimitsInductive ==
    ASSUME TypeOK, LimitsInv, [Next]_vars
    PROVE  LimitsInv'
<1>0. PICK p \in Seq(StoredPlan) : p = plans
  BY PlansInBounds
<1>1. PICK o \in SUBSET DOMAIN p : o = open /\ portfolio \in Portfolio
  BY <1>0, PlansInBounds DEF TypeOK
<1>2. \A i \in o : p[i].omitted = {} => Within(p, portfolio, o, i)
  BY <1>0, <1>1 DEF LimitsInv
<1>3. ASSUME NEW q \in Request, NEW counted \in SUBSET open, Create(q, counted)
      PROVE  LimitsInv'
  <2>1. PICK size \in Sizes(q, counted) :
             /\ size \in 0 .. MaxTrade
             /\ NewPlan(q, counted, size) \in StoredPlan
             /\ plans' = Append(plans, NewPlan(q, counted, size))
             /\ open' = IF size > 0 /\ GatePasses(q, counted, size)
                        THEN open \cup {Len(plans) + 1} ELSE open
             /\ portfolio' = portfolio
    BY <1>3, Created
  <2>2. PICK r \in StoredPlan : r = NewPlan(q, counted, size)
    BY <2>1
  <2>3. PICK n : n = Len(p) + 1
    OBVIOUS
  <2>4. PICK b : b = Append(p, r)
    OBVIOUS
  <2>5. /\ DOMAIN p = 1 .. Len(p) /\ Len(p) \in Nat /\ b[n] = r /\ n \notin DOMAIN p
        /\ \A i \in DOMAIN p : b[i] = p[i]
    BY <2>3, <2>4
  <2>6. PICK u : u = open'
    OBVIOUS
  <2>7. u \in {o, o \cup {n}}
    BY <1>0, <1>1, <2>1, <2>3, <2>6
  <2>8. ASSUME NEW i \in u, b[i].omitted = {}
        PROVE  Within(b, portfolio, u, i)
    <3>1. CASE i \in o
      <4>1. p[i].omitted = {}
        BY <2>5, <2>8, <3>1
      <4>2. Within(p, portfolio, o, i)
        BY <1>2, <3>1, <4>1
      <4> QED BY <2>3, <2>4, <2>7, <3>1, <4>2, WithinLonger
    <3>2. CASE i \notin o
      <4>1. i = n /\ u = o \cup {n}
        BY <2>7, <2>8, <3>2
      <4>2. size > 0 /\ GatePasses(q, counted, size)
        BY <1>1, <2>1, <2>6, <3>2, <4>1
      <4>3. r.risk = size /\ r.symbol = q.symbol /\ r.omitted = open \ counted
        BY <2>2, <4>2 DEF NewPlan
      <4>4. counted = open
        BY <2>5, <2>8, <4>1, <4>3
      <4>5. size \in Nat /\ size <= Room(q, open)
        <5>1. Room(q, open) \in Int
          BY <1>0, <1>1, RoomRange
        <5>2. size \in Sizes(q, open)
          BY <2>1, <4>4
        <5> QED BY <4>2, <5>1, <5>2, SizesRange, PolicyAssumption
      <4>6. Within(Append(plans, r), portfolio, open \cup {n}, n)
        BY <1>0, <2>3, <4>2, <4>3, <4>4, <4>5, WithinNew
      <4> QED BY <1>0, <1>1, <2>4, <4>1, <4>6
    <3> QED BY <3>1, <3>2
  <2>9. b = plans'
    BY <1>0, <2>1, <2>2, <2>4
  <2> QED BY <2>1, <2>6, <2>8, <2>9 DEF LimitsInv
<1>4. ASSUME NEW k \in open, Close(k)
      PROVE  LimitsInv'
  <2>1. plans' = p /\ portfolio' = portfolio /\ open' \in SUBSET o
    BY <1>0, <1>1, <1>4 DEF Close
  <2>2. ASSUME NEW n \in SUBSET o, NEW i \in n, p[i].omitted = {}
        PROVE  Within(p, portfolio, n, i)
    BY <1>1, <1>2, <2>2, WithinFewer
  <2> QED BY <2>1, <2>2 DEF LimitsInv
<1>5. CASE UNCHANGED vars
  BY <1>5 DEF LimitsInv, vars
<1> QED BY <1>3, <1>4, <1>5 DEF Next

\* Of finitely many plans one is the last.
LEMMA LastOne ==
    ASSUME NEW n \in Nat, NEW S \in SUBSET (1 .. n), S # {}
    PROVE  \E i \in S : \A j \in S : j <= i
<1> DEFINE T == {m \in Nat : \E i \in S : m = n - i}
<1>1. \A i \in S : i \in 1 .. n /\ n - i \in T
  OBVIOUS
<1>2. T \subseteq Nat /\ T # {}
  BY <1>1
<1> HIDE DEF T
<1>3. PICK m \in T : \A k \in T : ~ (<<k, m>> \in OpToRel(<, Nat))
  BY <1>2, NatLessThanWellFounded, WFMin
<1>4. \A k \in T : ~ (k < m)
  BY <1>2, <1>3 DEF OpToRel
<1>5. PICK i \in S : m = n - i
  BY <1>2 DEF T
<1>6. ASSUME NEW j \in S PROVE j <= i
  <2>1. ~ (n - j < m)
    BY <1>1, <1>4
  <2> QED BY <1>1, <1>5, <2>1
<1> QED BY <1>6

LEMMA LimitsFollow ==
    ASSUME TypeOK, LimitsInv
    PROVE  LimitsHold
<1> SUFFICES ASSUME open # {}, \A i \in open : plans[i].omitted = {}
             PROVE  /\ portfolio.existing + Risk(open) < GateAccount
                    /\ portfolio.existing + Risk(open) <= AccountLimit
                    /\ \A c \in Cluster : Risk(InCluster(open, c)) <= ClusterLimit
                    /\ \A s \in Symbol : Risk(OfSymbol(open, s)) <= SymbolLimit
  BY DEF LimitsHold
<1>1. /\ \A i \in open : Within(plans, portfolio, open, i)
      /\ open \in SUBSET DOMAIN plans /\ DOMAIN plans = 1 .. Len(plans) /\ Len(plans) \in Nat
  BY PlansInBounds DEF LimitsInv
<1>2. /\ AccountLimit = AccountOf(portfolio)
      /\ ClusterLimit = Least(AccountOf(portfolio), portfolio.cluster)
      /\ SymbolLimit = Least(AccountOf(portfolio), portfolio.symbol)
  BY DEF AccountLimit, ClusterLimit, SymbolLimit, AccountOf
<1>3. ClusterLimit \in Nat /\ SymbolLimit \in Nat
  BY <1>2, AccountTypes DEF TypeOK
<1>4. Risk({}) = 0
  BY RiskIsRiskIn, TotalOfNone DEF RiskIn
<1>5. /\ portfolio.existing + Risk(open) < GateAccount
      /\ portfolio.existing + Risk(open) <= AccountLimit
  <2>1. PICK i \in open : \A j \in open : j <= i
    BY <1>1, LastOne
  <2>2. Upto(open, i) = open
    BY <2>1 DEF Upto
  <2> QED BY <1>1, <1>2, <2>2, RiskIsRiskIn DEF Within
<1>6. ASSUME NEW c \in Cluster
      PROVE  Risk(InCluster(open, c)) <= ClusterLimit
  <2>1. PICK S \in SUBSET open : S = InCluster(open, c)
    BY DEF InCluster
  <2>2. CASE S = {}
    BY <1>3, <1>4, <2>1, <2>2
  <2>3. CASE S # {}
    <3>1. PICK i \in S : \A j \in S : j <= i
      BY <1>1, <2>3, LastOne
    <3>2. Alike(plans, Upto(open, i), i) = S
      BY <2>1, <3>1 DEF Upto, Alike, InCluster
    <3>3. RiskIn(plans, S) <= ClusterLimit
      BY <1>1, <1>2, <3>2 DEF Within
    <3>4. Risk(S) = RiskIn(plans, S)
      BY <1>1, RiskIsRiskIn
    <3> QED BY <2>1, <3>3, <3>4
  <2> QED BY <2>2, <2>3
<1>7. ASSUME NEW s \in Symbol
      PROVE  Risk(OfSymbol(open, s)) <= SymbolLimit
  <2>1. PICK S \in SUBSET open : S = OfSymbol(open, s)
    BY DEF OfSymbol
  <2>2. CASE S = {}
    BY <1>3, <1>4, <2>1, <2>2
  <2>3. CASE S # {}
    <3>1. PICK i \in S : \A j \in S : j <= i
      BY <1>1, <2>3, LastOne
    <3>2. SameSymbol(plans, Upto(open, i), i) = S
      BY <2>1, <3>1 DEF Upto, SameSymbol, OfSymbol
    <3>3. RiskIn(plans, S) <= SymbolLimit
      BY <1>1, <1>2, <3>2 DEF Within
    <3>4. Risk(S) = RiskIn(plans, S)
      BY <1>1, RiskIsRiskIn
    <3> QED BY <2>1, <3>3, <3>4
  <2> QED BY <2>2, <2>3
<1> QED BY <1>5, <1>6, <1>7

\* Whatever was created, blocked and closed in between, open plans none of
\* which left out another stay within the limits of account, cluster and
\* symbol and under the gate (LimitsHold): RiskEngine.evaluate with
\* FinalDecisionGate, for every policy, every account and any number of plans.
THEOREM LimitsAreKept == Spec => []LimitsHold
<1>1. Init => TypeOK /\ LimitsInv
  BY DEF Init, TypeOK, LimitsInv
<1>2. TypeOK /\ LimitsInv /\ [Next]_vars => TypeOK' /\ LimitsInv'
  BY TypesInductive, LimitsInductive
<1>3. TypeOK /\ LimitsInv => LimitsHold
  BY LimitsFollow
<1> QED BY <1>1, <1>2, <1>3, PTL DEF Spec

-----------------------------------------------------------------------------
(* The size of a plan, as it depends on the plans that are reported: the   *)
(* definitions of RiskSizing for given plans p and account acc.            *)

OfCluster(p, S, c)  == {i \in S : ClusterOf[p[i].symbol] = c}
WithSymbol(p, S, s) == {i \in S : p[i].symbol = s}

RoomIn(p, acc, q, S) ==
    Least(AccountOf(acc) - Least(1000000, acc.existing + RiskIn(p, S)),
          Least(Least(AccountOf(acc), acc.symbol) - RiskIn(p, WithSymbol(p, S, q.symbol)),
                Least(AccountOf(acc), acc.cluster)
                  - RiskIn(p, OfCluster(p, S, ClusterOf[q.symbol]))))

PressureIn(p, acc, q, S) == Total(ShareOf(p, q, AccountOf(acc)), S)

GuardIn(p, acc, q, S) ==
    IF ~ acc.guard \/ PressureIn(p, acc, q, S) < 45 * AccountOf(acc) THEN 100
    ELSE IF PressureIn(p, acc, q, S) >= 80 * AccountOf(acc) THEN 72
    ELSE IF PressureIn(p, acc, q, S) >= 60 * AccountOf(acc) THEN 84 ELSE 92

SizesIn(p, acc, q, S) ==
    IF ~ q.stop \/ RoomIn(p, acc, q, S) <= 0 THEN {0}
    ELSE {Least(s, RoomIn(p, acc, q, S)) :
            s \in UNION {Nearest(r * GuardIn(p, acc, q, S), 100) : r \in Suggested(q)}}

LEMMA SizesNow ==
    ASSUME TypeOK, NEW q, NEW S \in SUBSET DOMAIN plans
    PROVE  Sizes(q, S) = SizesIn(plans, portfolio, q, S)
<1>1. /\ OfSymbol(S, q.symbol) = WithSymbol(plans, S, q.symbol)
      /\ InCluster(S, ClusterOf[q.symbol]) = OfCluster(plans, S, ClusterOf[q.symbol])
      /\ OfSymbol(S, q.symbol) \in SUBSET DOMAIN plans
      /\ InCluster(S, ClusterOf[q.symbol]) \in SUBSET DOMAIN plans
  BY DEF OfSymbol, WithSymbol, InCluster, OfCluster
<1>2. /\ Risk(S) = RiskIn(plans, S)
      /\ Risk(OfSymbol(S, q.symbol)) = RiskIn(plans, WithSymbol(plans, S, q.symbol))
      /\ Risk(InCluster(S, ClusterOf[q.symbol]))
           = RiskIn(plans, OfCluster(plans, S, ClusterOf[q.symbol]))
  BY <1>1, RiskIsRiskIn
<1>3. Room(q, S) = RoomIn(plans, portfolio, q, S)
  BY <1>2 DEF Room, RoomIn, AccountLimit, SymbolLimit, ClusterLimit, AccountOf
<1>4. AccountOf(portfolio) = AccountLimit
  BY DEF AccountOf, AccountLimit
<1>5. IsFiniteSet(S)
  <2>1. 1 \in Int /\ Len(plans) \in Int /\ DOMAIN plans = 1 .. Len(plans)
    BY PlansInBounds
  <2> QED BY <2>1, FS_Interval, FS_Subset
<1>6. MapThenSumSet(LAMBDA i : Correlation(ClusterOf[q.symbol], ClusterOf[plans[i].symbol])
                                 * Least(plans[i].risk, AccountLimit), S)
        = PressureIn(plans, portfolio, q, S)
  <2>1. MapThenSumSet(LAMBDA i : Correlation(ClusterOf[q.symbol], ClusterOf[plans[i].symbol])
                                   * Least(plans[i].risk, AccountLimit), S)
          = Total(ShareOf(plans, q, AccountLimit), S)
    BY <1>5, SharesAddUp
  <2>2. Total(ShareOf(plans, q, AccountLimit), S) = PressureIn(plans, portfolio, q, S)
    BY <1>4 DEF PressureIn
  <2> QED BY <2>1, <2>2
<1>7. CorrelationMultiplier(q, S) = GuardIn(plans, portfolio, q, S)
  BY <1>4, <1>6 DEF CorrelationMultiplier, GuardIn
<1> QED BY <1>3, <1>7 DEF Sizes, SizesIn

LEMMA ShareTypes ==
    ASSUME NEW p \in Seq(StoredPlan), NEW q, NEW limit \in Nat
    PROVE  ShareOf(p, q, limit) \in [DOMAIN p -> Nat]
<1>1. ASSUME NEW i \in DOMAIN p
      PROVE  Correlation(ClusterOf[q.symbol], ClusterOf[p[i].symbol])
               * Least(p[i].risk, limit) \in Nat
  <2>1. PICK c \in 50 .. 95 : c = Correlation(ClusterOf[q.symbol], ClusterOf[p[i].symbol])
    BY CorrelationRange
  <2>2. p[i] \in StoredPlan
    OBVIOUS
  <2>3. PICK r \in Nat : r = Least(p[i].risk, limit)
    BY <2>2, PolicyAssumption DEF StoredPlan, Least
  <2>4. c * r \in Nat
    OBVIOUS
  <2> QED BY <2>1, <2>3, <2>4
<1> QED BY <1>1 DEF ShareOf

\* One more plan leaves the sizes for the plans before it as they were.
LEMMA SizesLonger ==
    ASSUME NEW p \in Seq(StoredPlan), NEW r \in StoredPlan, NEW acc \in Portfolio, NEW q,
           NEW S \in SUBSET DOMAIN p
    PROVE  SizesIn(Append(p, r), acc, q, S) = SizesIn(p, acc, q, S)
<1>0. Append(p, r) \in Seq(StoredPlan)
  OBVIOUS
<1>1. PICK b \in Seq(StoredPlan) : b = Append(p, r)
  BY <1>0
<1>2. /\ \A j \in DOMAIN p : b[j] = p[j] /\ j \in DOMAIN b
      /\ DOMAIN p = 1 .. Len(p) /\ Len(p) \in Nat
  BY <1>1
<1>3. \A T \in SUBSET DOMAIN p : RiskIn(b, T) = RiskIn(p, T)
  BY <1>1, RiskOfMore DEF RiskIn
<1>4. /\ WithSymbol(b, S, q.symbol) = WithSymbol(p, S, q.symbol)
      /\ OfCluster(b, S, ClusterOf[q.symbol]) = OfCluster(p, S, ClusterOf[q.symbol])
      /\ WithSymbol(p, S, q.symbol) \in SUBSET DOMAIN p
      /\ OfCluster(p, S, ClusterOf[q.symbol]) \in SUBSET DOMAIN p
  BY <1>2 DEF WithSymbol, OfCluster
<1>5. RoomIn(b, acc, q, S) = RoomIn(p, acc, q, S)
  BY <1>3, <1>4 DEF RoomIn
<1>6. PICK limit \in Nat : limit = AccountOf(acc)
  BY AccountTypes
<1>7. PICK f \in [DOMAIN p -> Nat], g \in [DOMAIN b -> Nat] :
          f = ShareOf(p, q, limit) /\ g = ShareOf(b, q, limit)
  BY <1>1, ShareTypes
<1>8. \A i \in S : f[i] = g[i] /\ f[i] <= g[i] /\ g[i] <= f[i]
  BY <1>2, <1>7 DEF ShareOf
<1>9. IsFiniteSet(S) /\ S \in SUBSET DOMAIN b /\ S \subseteq S
  BY <1>2, RiskMonotone
<1>10. Total(f, S) = Total(g, S)
  <2>1. Total(f, S) <= Total(g, S) /\ Total(g, S) <= Total(f, S)
    BY <1>8, <1>9, TotalMonotone
  <2>2. Total(f, S) \in Nat /\ Total(g, S) \in Nat
    BY <1>9, TotalIsNat
  <2> QED BY <2>1, <2>2
<1>11. PressureIn(b, acc, q, S) = PressureIn(p, acc, q, S)
  BY <1>6, <1>7, <1>10 DEF PressureIn
<1>12. GuardIn(b, acc, q, S) = GuardIn(p, acc, q, S)
  BY <1>11 DEF GuardIn
<1> QED BY <1>1, <1>5, <1>12 DEF SizesIn

\* Reporting fewer plans leaves no less room, and the guard takes off no more.
LEMMA RoomMonotone ==
    ASSUME NEW p \in Seq(StoredPlan), NEW acc \in Portfolio, NEW q,
           NEW S \in SUBSET DOMAIN p, NEW R \in SUBSET S
    PROVE  /\ RoomIn(p, acc, q, S) \in Int /\ RoomIn(p, acc, q, R) \in Int
           /\ RoomIn(p, acc, q, S) <= RoomIn(p, acc, q, R)
<1>1. /\ WithSymbol(p, R, q.symbol) \subseteq WithSymbol(p, S, q.symbol)
      /\ WithSymbol(p, S, q.symbol) \subseteq DOMAIN p
      /\ OfCluster(p, R, ClusterOf[q.symbol]) \subseteq OfCluster(p, S, ClusterOf[q.symbol])
      /\ OfCluster(p, S, ClusterOf[q.symbol]) \subseteq DOMAIN p
  BY DEF WithSymbol, OfCluster
<1>2. \A T \in SUBSET DOMAIN p : \A U \in SUBSET T :
          RiskIn(p, U) \in Nat /\ RiskIn(p, T) \in Nat /\ RiskIn(p, U) <= RiskIn(p, T)
  BY RiskMonotone DEF RiskIn
<1>3. PICK x \in Nat, y \in Nat : x = RiskIn(p, R) /\ y = RiskIn(p, S) /\ x <= y
  BY <1>2
<1>4. PICK sr \in Nat, ss \in Nat :
          /\ sr = RiskIn(p, WithSymbol(p, R, q.symbol))
          /\ ss = RiskIn(p, WithSymbol(p, S, q.symbol)) /\ sr <= ss
  BY <1>1, <1>2
<1>5. PICK cr \in Nat, cs \in Nat :
          /\ cr = RiskIn(p, OfCluster(p, R, ClusterOf[q.symbol]))
          /\ cs = RiskIn(p, OfCluster(p, S, ClusterOf[q.symbol])) /\ cr <= cs
  BY <1>1, <1>2
<1>6. PICK h \in Nat, a \in Nat, k \in Nat, s \in Nat :
          /\ h = acc.existing /\ a = AccountOf(acc)
          /\ k = Least(AccountOf(acc), acc.cluster) /\ s = Least(AccountOf(acc), acc.symbol)
  BY AccountTypes
<1>7. /\ RoomIn(p, acc, q, R) = Least(a - Least(1000000, h + x), Least(s - sr, k - cr))
      /\ RoomIn(p, acc, q, S) = Least(a - Least(1000000, h + y), Least(s - ss, k - cs))
  BY <1>3, <1>4, <1>5, <1>6 DEF RoomIn
<1>8. \A b, c, d, e \in Int : /\ Least(b, c) \in Int
                              /\ b <= d /\ c <= e => Least(b, c) <= Least(d, e)
  BY DEF Least
<1>9. PICK m \in Int, n \in Int : m = a - Least(1000000, h + x) /\ n = a - Least(1000000, h + y)
                                  /\ n <= m
  BY <1>3 DEF Least
<1>10. /\ s - ss <= s - sr /\ k - cs <= k - cr
       /\ s - ss \in Int /\ s - sr \in Int /\ k - cs \in Int /\ k - cr \in Int
  <2>1. sr <= ss /\ cr <= cs
    BY <1>4, <1>5
  <2> QED BY <2>1
<1>11. /\ Least(s - ss, k - cs) \in Int /\ Least(s - sr, k - cr) \in Int
       /\ Least(s - ss, k - cs) <= Least(s - sr, k - cr)
  BY <1>8, <1>10
<1>12. PICK u \in Int, v \in Int :
           u = Least(s - ss, k - cs) /\ v = Least(s - sr, k - cr) /\ u <= v
  BY <1>11
<1>13. RoomIn(p, acc, q, R) = Least(m, v) /\ RoomIn(p, acc, q, S) = Least(n, u)
  BY <1>7, <1>9, <1>12
<1>14. Least(m, v) \in Int /\ Least(n, u) \in Int /\ Least(n, u) <= Least(m, v)
  BY <1>8, <1>9, <1>12
<1> QED BY <1>13, <1>14

LEMMA GuardMonotone ==
    ASSUME NEW p \in Seq(StoredPlan), NEW acc \in Portfolio, NEW q,
           NEW S \in SUBSET DOMAIN p, NEW R \in SUBSET S
    PROVE  /\ GuardIn(p, acc, q, S) \in 72 .. 100 /\ GuardIn(p, acc, q, R) \in 72 .. 100
           /\ GuardIn(p, acc, q, S) <= GuardIn(p, acc, q, R)
<1>1. PICK limit \in Nat : limit = AccountOf(acc)
  BY AccountTypes
<1>2. PICK f \in [DOMAIN p -> Nat] : f = ShareOf(p, q, limit)
  BY ShareTypes
<1>3. \A i \in R : f[i] <= f[i]
  OBVIOUS
<1>4. IsFiniteSet(S) /\ IsFiniteSet(R) /\ R \in SUBSET DOMAIN p
  BY RiskMonotone
<1>5. /\ Total(f, R) \in Nat /\ Total(f, S) \in Nat
      /\ Total(f, R) <= Total(f, S)
  BY <1>3, <1>4, TotalIsNat, TotalMonotone
<1>6. PICK x \in Nat, y \in Nat :
          /\ x = PressureIn(p, acc, q, R) /\ y = PressureIn(p, acc, q, S) /\ x <= y
  BY <1>1, <1>2, <1>5 DEF PressureIn
<1>7. /\ GuardIn(p, acc, q, R) =
           IF ~ acc.guard \/ x < 45 * limit THEN 100
           ELSE IF x >= 80 * limit THEN 72 ELSE IF x >= 60 * limit THEN 84 ELSE 92
      /\ GuardIn(p, acc, q, S) =
           IF ~ acc.guard \/ y < 45 * limit THEN 100
           ELSE IF y >= 80 * limit THEN 72 ELSE IF y >= 60 * limit THEN 84 ELSE 92
  BY <1>1, <1>6 DEF GuardIn
<1> QED BY <1>6, <1>7

\* A size for the plans S is no more than one for fewer of them.
LEMMA SizesMonotone ==
    ASSUME NEW p \in Seq(StoredPlan), NEW acc \in Portfolio, NEW q \in Request,
           NEW S \in SUBSET DOMAIN p, NEW R \in SUBSET S, NEW s \in SizesIn(p, acc, q, S)
    PROVE  \E t \in SizesIn(p, acc, q, R) : s <= t
<1>1. PICK x \in Int, y \in Int :
          x = RoomIn(p, acc, q, S) /\ y = RoomIn(p, acc, q, R) /\ x <= y
  BY RoomMonotone
<1>2. PICK g \in 72 .. 100, h \in 72 .. 100 :
          g = GuardIn(p, acc, q, S) /\ h = GuardIn(p, acc, q, R) /\ g <= h
  BY GuardMonotone
<1>3. PICK r0 \in Suggested(q) : Suggested(q) \subseteq Nat
  BY SuggestedRange, PolicyAssumption
<1>4. ASSUME NEW r \in Nat
      PROVE  r * g \in Nat /\ r * h \in Nat /\ r * g <= r * h
  <2>0. h - g \in Nat /\ h = g + (h - g)
    BY <1>2
  <2>1. PICK d \in Nat : h = g + d
    BY <2>0
  <2>2. r * h = r * g + r * d
    BY <2>1
  <2>3. r * g \in Nat /\ r * h \in Nat /\ r * d \in Nat
    OBVIOUS
  <2> QED BY <2>2, <2>3
<1>5. CASE ~ q.stop \/ x <= 0
  <2>1. s = 0
    BY <1>1, <1>5 DEF SizesIn
  <2>2. CASE ~ q.stop \/ y <= 0
    BY <1>1, <2>1, <2>2 DEF SizesIn
  <2>3. CASE q.stop /\ y > 0
    <3>1. PICK t \in Nearest(r0 * h, 100) : t \in Nat
      BY <1>3, <1>4, NearestRange
    <3>2. Least(t, y) \in SizesIn(p, acc, q, R)
      BY <1>1, <1>2, <2>3, <3>1 DEF SizesIn
    <3> QED BY <2>1, <2>3, <3>1, <3>2 DEF Least
  <2> QED BY <2>2, <2>3
<1>6. CASE q.stop /\ x > 0
  <2>1. PICK r \in Suggested(q) : \E t \in Nearest(r * g, 100) : s = Least(t, x)
    BY <1>1, <1>2, <1>6 DEF SizesIn
  <2>2. PICK t \in Nearest(r * g, 100) : s = Least(t, x)
    BY <2>1
  <2>3. r * g \in Int /\ r * h \in Int /\ r * g <= r * h /\ r * g \in Nat /\ r * h \in Nat
    <3>1. r \in Nat
      BY <1>3
    <3>2. r * g \in Nat /\ r * h \in Nat /\ r * g <= r * h
      BY <1>4, <3>1, Zenon
    <3> QED BY <3>2
  <2>4. PICK u \in Nearest(r * h, 100) : t <= u
    BY <2>3, NearestMonotone
  <2>5. t \in Nat /\ u \in Nat
    BY <2>3, NearestRange
  <2>6. Least(u, y) \in SizesIn(p, acc, q, R)
    BY <1>1, <1>2, <1>6 DEF SizesIn
  <2> QED BY <1>1, <2>2, <2>4, <2>5, <2>6 DEF Least
<1> QED BY <1>1, <1>5, <1>6

\* The latest size is one for what was counted then, also in the tables now.
LastSize ==
    last # <<>> => /\ last[1] \in Request /\ last[2] \in SUBSET DOMAIN plans
                   /\ last[3] \in SizesIn(plans, portfolio, last[1], last[2])

LEMMA LastSizeInductive ==
    ASSUME TypeOK, LastSize, [Next]_vars
    PROVE  LastSize'
<1>1. ASSUME NEW q \in Request, NEW counted \in SUBSET open, Create(q, counted)
      PROVE  LastSize'
  <2>1. PICK size \in Sizes(q, counted) :
             /\ NewPlan(q, counted, size) \in StoredPlan
             /\ plans' = Append(plans, NewPlan(q, counted, size))
             /\ last' = <<q, counted, size>>
             /\ portfolio' = portfolio
    BY <1>1, Created
  <2>2. PICK r \in StoredPlan : r = NewPlan(q, counted, size)
    BY <2>1
  <2>3. PICK p \in Seq(StoredPlan) : p = plans
    BY PlansInBounds
  <2>4. PICK S \in SUBSET DOMAIN p : S = counted
    BY <2>3, PlansInBounds
  <2>5. size \in SizesIn(p, portfolio, q, S)
    BY <2>1, <2>3, <2>4, SizesNow
  <2>6. PICK acc \in Portfolio : acc = portfolio
    BY DEF TypeOK
  <2>7. SizesIn(Append(p, r), acc, q, S) = SizesIn(p, acc, q, S)
    BY SizesLonger
  <2>8. PICK b : b = Append(p, r) /\ S \in SUBSET DOMAIN b
    <3>1. DOMAIN Append(p, r) = 1 .. Len(p) + 1 /\ DOMAIN p = 1 .. Len(p) /\ Len(p) \in Nat
      OBVIOUS
    <3>2. 1 .. Len(p) \subseteq 1 .. Len(p) + 1
      BY <3>1
    <3>3. S \in SUBSET DOMAIN Append(p, r)
      BY <3>1, <3>2
    <3> QED BY <3>3
  <2>9. plans' = b /\ portfolio' = acc /\ last'[1] = q /\ last'[2] = S /\ last'[3] = size
    BY <2>1, <2>2, <2>3, <2>4, <2>6, <2>8
  <2>10. size \in SizesIn(b, acc, q, S)
    BY <2>5, <2>6, <2>7, <2>8
  <2> QED BY <2>8, <2>9, <2>10 DEF LastSize
<1>2. ASSUME NEW k \in open, Close(k)
      PROVE  LastSize'
  BY <1>2 DEF LastSize, Close
<1>3. CASE UNCHANGED vars
  BY <1>3 DEF LastSize, vars
<1> QED BY <1>1, <1>2, <1>3 DEF Next

LEMMA ReportingFollows ==
    ASSUME TypeOK, LastSize
    PROVE  ReportingNeverPays
<1> SUFFICES ASSUME last # <<>>, NEW fewer \in SUBSET last[2]
             PROVE  \E size \in Sizes(last[1], fewer) : last[3] <= size
  BY DEF ReportingNeverPays
<1>1. PICK p \in Seq(StoredPlan) : p = plans
  BY PlansInBounds
<1>2. PICK acc \in Portfolio : acc = portfolio
  BY DEF TypeOK
<1>3. PICK q \in Request : q = last[1]
  BY DEF LastSize
<1>4. PICK S \in SUBSET DOMAIN p : S = last[2]
  BY <1>1 DEF LastSize
<1>5. PICK s \in SizesIn(p, acc, q, S) : s = last[3]
  BY <1>1, <1>2, <1>3, <1>4 DEF LastSize
<1>6. PICK R \in SUBSET S : R = fewer
  BY <1>4
<1>7. \E t \in SizesIn(p, acc, q, R) : s <= t
  BY SizesMonotone
<1>8. Sizes(q, R) = SizesIn(p, acc, q, R)
  BY <1>1, <1>2, <1>4, SizesNow
<1> QED BY <1>3, <1>5, <1>6, <1>7, <1>8

\* A request that reports more open plans is never given a larger size than
\* one that reports fewer (ReportingNeverPays): the room left and the
\* correlation guard of the engine both fall with what is counted.
THEOREM ReportingMoreNeverPays == Spec => []ReportingNeverPays
<1>1. Init => TypeOK /\ LastSize
  BY DEF Init, TypeOK, LastSize
<1>2. TypeOK /\ LastSize /\ [Next]_vars => TypeOK' /\ LastSize'
  BY TypesInductive, LastSizeInductive
<1>3. TypeOK /\ LastSize => ReportingNeverPays
  BY ReportingFollows
<1> QED BY <1>1, <1>2, <1>3, PTL DEF Spec
=============================================================================
