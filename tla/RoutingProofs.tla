---------------------------- MODULE RoutingProofs ---------------------------
(***************************************************************************)
(* Lemmas on the placement decision: what First and Choice return, for     *)
(* every ranking and every load.                                           *)
(***************************************************************************)
EXTENDS Routing, WellFoundedInduction, FiniteSetTheorems, TLAPS

-----------------------------------------------------------------------------
\* Ranking.

\* A natural-valued function on a set that is not empty has a minimum.
LEMMA MinimumExists ==
    ASSUME NEW S, S # {}, NEW f \in [S -> Nat]
    PROVE  \E a \in S : \A b \in S : f[a] <= f[b]
<1> DEFINE T == {0..f[a] : a \in S}
           R == StrictSubsetOrdering(Nat)
<1>1. T \subseteq FiniteSubsetsOf(Nat) /\ T # {}
  <2>1. \A a \in S : f[a] \in Nat /\ IsFiniteSet(0..f[a])
    BY FS_Interval
  <2>2. QED
    BY <2>1 DEF FiniteSubsetsOf
<1>2. IsWellFoundedOn(R, FiniteSubsetsOf(Nat))
  BY FS_StrictSubsetOrderingWellFounded
<1>3. PICK X \in T : \A Y \in T : ~ (<<Y, X>> \in R)
  <2> HIDE DEF T, R
  <2> QED
    BY <1>1, <1>2, WFMin
<1>4. PICK a \in S : X = 0..f[a]
  OBVIOUS
<1>5. ASSUME NEW b \in S
      PROVE  f[a] <= f[b]
  <2>1. SUFFICES ASSUME f[b] < f[a]
                 PROVE  FALSE
    OBVIOUS
  <2>2. 0..f[b] \in SUBSET Nat /\ 0..f[a] \in SUBSET Nat
    OBVIOUS
  <2>3. 0..f[b] \subseteq 0..f[a] /\ f[a] \in 0..f[a] /\ f[a] \notin 0..f[b]
    BY <2>1
  <2>4. <<0..f[b], 0..f[a]>> \in R
    BY <2>2, <2>3 DEF StrictSubsetOrdering
  <2>5. QED
    BY <1>3, <1>4, <2>4
<1>6. QED
  BY <1>5

\* First returns the top-ranked account of a set of accounts, and ties are out
\* of the question.
LEMMA FirstIsTop ==
    ASSUME NEW fp \in Fps, NEW S \in SUBSET Accounts, S # {}
    PROVE  /\ First(fp, S) \in S
           /\ \A b \in S : Score[fp][First(fp, S)] <= Score[fp][b]
<1> DEFINE g == [a \in S |-> Score[fp][a]]
<1>1. g \in [S -> Nat]
  BY RoutingAssumption
<1>2. \E a \in S : \A b \in S : g[a] <= g[b]
  <2> HIDE DEF g
  <2> QED
    BY <1>1, MinimumExists
<1>3. \E a \in S : \A b \in S : Score[fp][a] <= Score[fp][b]
  BY <1>2
<1>4. QED
  BY <1>3 DEF First

\* The top of a set stays the top of every subset that keeps it.
LEMMA TopOfSubset ==
    ASSUME NEW fp \in Fps, NEW S \in SUBSET Accounts, NEW U \in SUBSET S,
           First(fp, S) \in U
    PROVE  First(fp, U) = First(fp, S)
<1> DEFINE x == First(fp, S)
           y == First(fp, U)
<1>1. y \in U /\ x \in S /\ U \subseteq Accounts
  BY FirstIsTop
<1>2. Score[fp][x] <= Score[fp][y] /\ Score[fp][y] <= Score[fp][x]
  BY <1>1, FirstIsTop
<1>3. x \in Accounts /\ y \in Accounts
  BY <1>1
<1>4. Score[fp][x] \in Nat /\ Score[fp][y] \in Nat
  <2> HIDE DEF x, y
  <2> QED
    BY <1>3, RoutingAssumption
<1>5. Score[fp][x] = Score[fp][y]
  <2> HIDE DEF x, y
  <2> QED
    BY <1>2, <1>4
<1>6. QED
  <2> HIDE DEF x, y
  <2>1. x = y
    BY <1>3, <1>5, RoutingAssumption
  <2>2. QED
    BY <2>1 DEF x, y

-----------------------------------------------------------------------------
\* Placement.

\* Choice stays in the pool, and returns either an account with room or, when
\* there is none, a least used one.
LEMMA ChoiceIsSound ==
    ASSUME NEW u \in [Accounts -> Nat], NEW pool \in Pools, NEW fp \in Fps,
           NEW need \in Needs, Members[pool] # {}
    PROVE  LET a == Choice(u, pool, fp, need)
           IN  /\ a \in Members[pool] /\ a \in Accounts
               /\ \/ Fits(u, a, need)
                  \/ /\ Fitting(u, pool, need) = {}
                     /\ \A b \in Members[pool] : u[a] <= u[b]
<1>1. Members[pool] \in SUBSET Accounts
  BY RoutingAssumption
<1>2. CASE Fitting(u, pool, need) # {}
  <2>1. Fitting(u, pool, need) \in SUBSET Accounts
    BY <1>1 DEF Fitting
  <2>2. Choice(u, pool, fp, need) \in Fitting(u, pool, need)
    BY <1>2, <2>1, FirstIsTop DEF Choice
  <2>3. QED
    BY <1>1, <2>2 DEF Fitting
<1>3. CASE Fitting(u, pool, need) = {}
  <2> DEFINE g == [a \in Members[pool] |-> u[a]]
  <2>1. g \in [Members[pool] -> Nat]
    BY <1>1
  <2>2. \E a \in Members[pool] : \A b \in Members[pool] : g[a] <= g[b]
    <3> HIDE DEF g
    <3> QED
      BY <2>1, MinimumExists
  <2>3. LeastUsed(u, pool) # {} /\ LeastUsed(u, pool) \in SUBSET Accounts
    BY <1>1, <2>2 DEF LeastUsed
  <2>4. First(fp, LeastUsed(u, pool)) \in LeastUsed(u, pool)
    BY <2>3, FirstIsTop
  <2>5. QED
    BY <1>1, <1>3, <2>4 DEF Choice, LeastUsed
<1>4. QED
  BY <1>2, <1>3
=============================================================================
