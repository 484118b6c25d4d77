---------------------------- MODULE RouterProofs ----------------------------
(***************************************************************************)
(* The router's counters and placements, for every finite set of accounts, *)
(* all pools, budgets, rankings and request sizes.                         *)
(***************************************************************************)
EXTENDS Router, RoutingProofs

\* What a step that picks does to the counters: one account of the pool is
\* charged, and it had room, or the whole pool was full and it was a least
\* used one.
LEMMA PickCharges ==
    ASSUME TypeOK, NEW pool \in Pools, NEW fp \in Fps, NEW need \in Needs,
           Pick(pool, fp, need)
    PROVE  \E a \in Members[pool] :
              /\ a \in Accounts
              /\ last' = [pool |-> pool, fp |-> fp, need |-> need, acct |-> a,
                          affinity |-> Affinity(used, pool, fp, need)]
              /\ a = Choice(used, pool, fp, need)
              /\ used' \in [Accounts -> Nat]
              /\ used'[a] = used[a] + need
              /\ \A b \in Accounts \ {a} : used'[b] = used[b]
              /\ \/ Fits(used, a, need)
                 \/ /\ Fitting(used, pool, need) = {}
                    /\ \A b \in Members[pool] : used[a] <= used[b]
<1> DEFINE a == Choice(used, pool, fp, need)
<1>1. used \in [Accounts -> Nat] /\ Members[pool] # {} /\ need \in Nat
  BY RoutingAssumption DEF TypeOK, Pick
<1>2. /\ a \in Members[pool] /\ a \in Accounts
      /\ \/ Fits(used, a, need)
         \/ /\ Fitting(used, pool, need) = {}
            /\ \A b \in Members[pool] : used[a] <= used[b]
  BY <1>1, ChoiceIsSound
<1>3. /\ used' = [used EXCEPT ![a] = @ + need]
      /\ last' = [pool |-> pool, fp |-> fp, need |-> need, acct |-> a,
                  affinity |-> Affinity(used, pool, fp, need)]
  BY DEF Pick, Charged
<1> HIDE DEF a
<1>4. /\ used' \in [Accounts -> Nat]
      /\ used'[a] = used[a] + need
      /\ \A b \in Accounts \ {a} : used'[b] = used[b]
  BY <1>1, <1>2, <1>3
<1>5. QED
  BY <1>2, <1>3, <1>4 DEF a

\* The placement is kept.
LEMMA PlacementKept ==
    ASSUME TypeOK, NEW pool \in Pools, NEW fp \in Fps, NEW need \in Needs,
           Pick(pool, fp, need)
    PROVE  \E e \in Placement :
              /\ e.acct = Choice(used, pool, fp, need)
              /\ e.need = need
              /\ placed' = [placed EXCEPT ![pool][fp] = Smallest(@ \cup {e})]
<1>1. PICK a \in Accounts :
         /\ a = Choice(used, pool, fp, need)
         /\ last'.acct = a
  <2>1. PICK a \in Members[pool] :
           /\ a \in Accounts
           /\ last' = [pool |-> pool, fp |-> fp, need |-> need, acct |-> a,
                       affinity |-> Affinity(used, pool, fp, need)]
           /\ a = Choice(used, pool, fp, need)
    BY PickCharges
  <2>2. QED
    BY <2>1
<1>2. PICK e \in Placement : e = [acct |-> a, need |-> need]
  BY <1>1 DEF Placement
<1>3. QED
  BY <1>1, <1>2 DEF Pick

-----------------------------------------------------------------------------
\* The theorems.

\* Type correctness: the counters stay natural numbers.
THEOREM RouterTypeCorrect == Spec => []TypeOK
<1>1. Init => TypeOK
  BY RoutingAssumption DEF Init, TypeOK
<1>2. TypeOK /\ [Next]_vars => TypeOK'
  <2> SUFFICES ASSUME TypeOK, [Next]_vars
               PROVE  TypeOK'
    OBVIOUS
  <2>1. ASSUME NEW pool \in Pools, NEW fp \in Fps, NEW need \in Needs,
               Pick(pool, fp, need)
        PROVE  TypeOK'
    <3>1. PICK a \in Accounts :
             /\ used' \in [Accounts -> Nat]
             /\ last' = [pool |-> pool, fp |-> fp, need |-> need, acct |-> a,
                         affinity |-> Affinity(used, pool, fp, need)]
      BY <2>1, PickCharges
    <3>2. Affinity(used, pool, fp, need) \in BOOLEAN
      BY DEF Affinity
    <3>3. last' \in Picked
      BY <3>1, <3>2 DEF Picked
    <3>4. PICK e \in Placement :
             placed' = [placed EXCEPT ![pool][fp] = Smallest(@ \cup {e})]
      BY <2>1, PlacementKept
    <3>5. \A S \in SUBSET Placement : Smallest(S \cup {e}) \in SUBSET Placement
      BY DEF Smallest
    <3>6. placed' \in [Pools -> [Fps -> SUBSET Placement]]
      BY <3>4, <3>5 DEF TypeOK
    <3>7. QED
      BY <3>1, <3>3, <3>6 DEF TypeOK
  <2>2. CASE UNCHANGED vars
    BY <2>2 DEF vars, TypeOK
  <2>3. QED
    BY <2>1, <2>2 DEF Next
<1>3. QED
  BY <1>1, <1>2, PTL DEF Spec

\* No account gets ahead of a whole pool by more than one request beyond its
\* budget.  The step that takes an account over its budget finds it least used
\* in a full pool; afterwards the others can only catch up.
THEOREM RouterSpreadsOverload == Spec => []OverloadIsSpread
<1>1. Init => OverloadIsSpread
  BY RoutingAssumption DEF Init, OverloadIsSpread
<1>2. TypeOK /\ OverloadIsSpread /\ [Next]_vars => OverloadIsSpread'
  <2> SUFFICES ASSUME TypeOK, OverloadIsSpread, [Next]_vars
               PROVE  OverloadIsSpread'
    OBVIOUS
  <2>1. ASSUME NEW pool \in Pools, NEW fp \in Fps, NEW need \in Needs,
               Pick(pool, fp, need)
        PROVE  OverloadIsSpread'
    <3>1. PICK c \in Members[pool] :
             /\ c \in Accounts
             /\ used' \in [Accounts -> Nat]
             /\ used'[c] = used[c] + need
             /\ \A b \in Accounts \ {c} : used'[b] = used[b]
             /\ \/ Fits(used, c, need)
                \/ \A b \in Members[pool] : used[c] <= used[b]
      BY <2>1, PickCharges
    <3>2. /\ used \in [Accounts -> Nat] /\ need \in Nat
          /\ Budget \in [Accounts -> Nat]
          /\ \A p \in Pools : Members[p] \subseteq Accounts
          /\ \A n \in Needs : n \in Nat
      BY RoutingAssumption DEF TypeOK
    <3>3. \A b \in Accounts : used[b] <= used'[b]
      BY <3>1, <3>2
    <3> SUFFICES ASSUME NEW a \in Accounts, Budget[a] > 0, used'[a] > Budget[a]
                 PROVE  \E p \in Pools, n \in Needs :
                           /\ a \in Members[p]
                           /\ \A b \in Members[p] : used'[a] <= used'[b] + n
      BY DEF OverloadIsSpread
    <3>4. CASE a = c
      <4>1. \A b \in Members[pool] : used[a] <= used[b]
        BY <3>1, <3>2, <3>4 DEF Fits
      <4>2. \A b \in Members[pool] : used'[a] <= used'[b] + need
        BY <3>1, <3>2, <3>3, <3>4, <4>1
      <4>3. QED
        BY <3>1, <3>4, <4>2
    <3>5. CASE a # c
      <4>1. used'[a] = used[a]
        BY <3>1, <3>5
      <4>2. PICK p \in Pools, n \in Needs :
               /\ a \in Members[p]
               /\ \A b \in Members[p] : used[a] <= used[b] + n
        BY <4>1 DEF OverloadIsSpread
      <4>3. \A b \in Members[p] : used'[a] <= used'[b] + n
        BY <3>1, <3>2, <3>3, <4>1, <4>2
      <4>4. QED
        BY <4>2, <4>3
    <3>6. QED
      BY <3>4, <3>5
  <2>2. CASE UNCHANGED vars
    BY <2>2 DEF vars, OverloadIsSpread
  <2>3. QED
    BY <2>1, <2>2 DEF Next
<1>3. QED
  BY <1>1, <1>2, RouterTypeCorrect, PTL DEF Spec

\* A pick takes an account over its budget only when every account of the pool
\* that was asked was full for the request.
THEOREM RouterFillsPoolFirst == Spec => OverBudgetOnlyWhenPoolFull
<1> DEFINE OnlyWhenFull ==
      \A a \in Accounts :
          Budget[a] > 0 /\ used'[a] > used[a] /\ used'[a] > Budget[a] =>
              \A b \in Members[last'.pool] :
                  Budget[b] > 0 /\ used[b] + last'.need > Budget[b]
<1>1. TypeOK /\ [Next]_vars => [OnlyWhenFull]_vars
  <2> SUFFICES ASSUME TypeOK, NEW pool \in Pools, NEW fp \in Fps,
                      NEW need \in Needs, Pick(pool, fp, need)
               PROVE  OnlyWhenFull
    BY DEF Next
  <2>1. PICK c \in Members[pool] :
           /\ c \in Accounts
           /\ last'.pool = pool /\ last'.need = need
           /\ used'[c] = used[c] + need
           /\ \A b \in Accounts \ {c} : used'[b] = used[b]
           /\ Fits(used, c, need) \/ Fitting(used, pool, need) = {}
    <3>1. PICK c \in Members[pool] :
           /\ c \in Accounts
           /\ last' = [pool |-> pool, fp |-> fp, need |-> need, acct |-> c,
                       affinity |-> Affinity(used, pool, fp, need)]
           /\ used'[c] = used[c] + need
           /\ \A b \in Accounts \ {c} : used'[b] = used[b]
           /\ Fits(used, c, need) \/ Fitting(used, pool, need) = {}
      BY PickCharges
    <3>2. QED
      BY <3>1
  <2>2. /\ used \in [Accounts -> Nat] /\ need \in Nat
        /\ Budget \in [Accounts -> Nat] /\ Members[pool] \subseteq Accounts
    BY RoutingAssumption DEF TypeOK
  <2> SUFFICES ASSUME NEW a \in Accounts, Budget[a] > 0,
                      used'[a] > used[a], used'[a] > Budget[a]
               PROVE  \A b \in Members[pool] :
                         Budget[b] > 0 /\ used[b] + need > Budget[b]
    BY <2>1
  <2>3. a = c
    BY <2>1, <2>2
  <2>4. Fitting(used, pool, need) = {}
    BY <2>1, <2>2, <2>3 DEF Fits
  <2>5. QED
    BY <2>2, <2>4 DEF Fitting, Fits
<1>2. QED
  BY <1>1, RouterTypeCorrect, PTL DEF Spec, OverBudgetOnlyWhenPoolFull

\* Charging makes no room: an account that is full for a request stays full
\* for it.
LEMMA ChargingMakesNoRoom ==
    ASSUME TypeOK, NEW pool \in Pools, NEW fp \in Fps, NEW need \in Needs,
           Pick(pool, fp, need), NEW b \in Accounts, NEW n \in Needs,
           ~Fits(used, b, n)
    PROVE  ~Fits(used', b, n)
<1>1. PICK c \in Members[pool] :
         /\ c \in Accounts
         /\ used' \in [Accounts -> Nat]
         /\ used'[c] = used[c] + need
         /\ \A x \in Accounts \ {c} : used'[x] = used[x]
  BY PickCharges
<1>2. /\ used \in [Accounts -> Nat] /\ need \in Nat /\ n \in Nat
      /\ Budget \in [Accounts -> Nat]
  BY RoutingAssumption DEF TypeOK
<1>3. used[b] <= used'[b]
  BY <1>1, <1>2
<1>4. QED
  BY <1>1, <1>2, <1>3 DEF Fits

\* Why prefix fp of a pool is where e says: all that ranks before was full for
\* that request, or the whole pool was.
Settled(pool, fp, e) ==
    /\ e.acct \in Members[pool]
    /\ \/ \A b \in Members[pool] :
             Score[fp][b] < Score[fp][e.acct] => ~Fits(used, b, e.need)
       \/ \A b \in Members[pool] : ~Fits(used, b, e.need)

AllSettled ==
    \A pool \in Pools, fp \in Fps : \A e \in placed[pool][fp] :
        Settled(pool, fp, e)

\* Who comes first among those with room has nobody with room before it.
LEMMA ChoiceIsSettled ==
    ASSUME TypeOK, NEW pool \in Pools, NEW fp \in Fps, NEW need \in Needs,
           Members[pool] # {}, NEW e \in Placement,
           e.acct = Choice(used, pool, fp, need), e.need = need
    PROVE  Settled(pool, fp, e)
<1>1. /\ used \in [Accounts -> Nat] /\ Members[pool] \in SUBSET Accounts
      /\ Score \in [Fps -> [Accounts -> Nat]]
  BY RoutingAssumption DEF TypeOK
<1>2. e.acct = Choice(used, pool, fp, need) /\ e.need = need
  OBVIOUS
<1>3. e.acct \in Members[pool]
  BY <1>1, <1>2, ChoiceIsSound
<1>4. CASE Fitting(used, pool, need) = {}
  BY <1>2, <1>3, <1>4 DEF Fitting, Settled
<1>5. CASE Fitting(used, pool, need) # {}
  <2>1. e.acct = First(fp, Fitting(used, pool, need))
    BY <1>2, <1>5 DEF Choice
  <2>2. Fitting(used, pool, need) \in SUBSET Accounts
    BY <1>1 DEF Fitting
  <2>3. \A b \in Fitting(used, pool, need) : Score[fp][e.acct] <= Score[fp][b]
    BY <1>5, <2>1, <2>2, FirstIsTop
  <2>4. ASSUME NEW b \in Members[pool], Score[fp][b] < Score[fp][e.acct]
        PROVE  ~Fits(used, b, need)
    <3>1. Score[fp][b] \in Nat /\ Score[fp][e.acct] \in Nat
      BY <1>1, <1>3
    <3>2. b \notin Fitting(used, pool, need)
      BY <2>3, <2>4, <3>1
    <3>3. QED
      BY <3>2 DEF Fitting
  <2>5. QED
    BY <1>2, <1>3, <2>4 DEF Settled
<1>6. QED
  BY <1>4, <1>5

\* A prefix only moves on.  Why it is where it is stays true, for charging
\* makes no room; so whoever has room for a request as large ranks after every
\* account the prefix has been on, and those have no room.
THEOREM RouterMovesPrefixesOn == Spec => PrefixNeverMovesBack
<1>1. Init => AllSettled
  BY DEF Init, AllSettled
<1>2. TypeOK /\ AllSettled /\ [Next]_vars => AllSettled'
  <2> SUFFICES ASSUME TypeOK, AllSettled, [Next]_vars
               PROVE  AllSettled'
    OBVIOUS
  <2>1. ASSUME NEW pool \in Pools, NEW fp \in Fps, NEW need \in Needs,
               Pick(pool, fp, need)
        PROVE  AllSettled'
    <3>1. PICK e \in Placement :
             /\ e.acct = Choice(used, pool, fp, need)
             /\ e.need = need
             /\ placed' = [placed EXCEPT ![pool][fp] = Smallest(@ \cup {e})]
      BY <2>1, PlacementKept
    <3>2. Settled(pool, fp, e)
      <4>1. Members[pool] # {}
        BY <2>1 DEF Pick
      <4>2. QED
        BY <3>1, <4>1, ChoiceIsSettled
    <3> SUFFICES ASSUME NEW p \in Pools, NEW f \in Fps, NEW x \in placed'[p][f]
                 PROVE  Settled(p, f, x)'
      BY DEF AllSettled
    <3>3. placed \in [Pools -> [Fps -> SUBSET Placement]]
      BY DEF TypeOK
    <3>4. x \in placed[p][f] \/ (p = pool /\ f = fp /\ x = e)
      <4>1. placed'[p][f] \subseteq
               placed[p][f] \cup (IF p = pool /\ f = fp THEN {e} ELSE {})
        BY <3>1, <3>3 DEF Smallest
      <4>2. QED
        BY <4>1
    <3>5. Settled(p, f, x)
      BY <3>2, <3>4 DEF AllSettled
    <3>6. x \in Placement
      BY <3>3, <3>4
    <3>7. x.need \in Needs /\ Members[p] \subseteq Accounts
      BY <3>6, RoutingAssumption DEF Placement
    <3>8. \A b \in Members[p] : ~Fits(used, b, x.need) => ~Fits(used', b, x.need)
      BY <2>1, <3>7, ChargingMakesNoRoom
    <3>9. QED
      BY <3>5, <3>8 DEF Settled
  <2>2. CASE UNCHANGED vars
    BY <2>2 DEF vars, AllSettled, Settled, Fits
  <2>3. QED
    BY <2>1, <2>2 DEF Next
<1> DEFINE AllMoveOn == \A e \in placed[last'.pool][last'.fp] : MovesOn(e)
<1>3. TypeOK /\ AllSettled /\ [Next]_vars => [AllMoveOn]_vars
  <2> SUFFICES ASSUME TypeOK, AllSettled, NEW pool \in Pools, NEW fp \in Fps,
                      NEW need \in Needs, Pick(pool, fp, need)
               PROVE  AllMoveOn
    BY DEF Next
  <2>1. /\ last'.pool = pool /\ last'.fp = fp /\ last'.need = need
        /\ last'.acct = Choice(used, pool, fp, need)
        /\ Members[pool] # {}
    BY DEF Pick
  <2>2. /\ used \in [Accounts -> Nat] /\ Members[pool] \in SUBSET Accounts
        /\ Score \in [Fps -> [Accounts -> Nat]]
        /\ Budget \in [Accounts -> Nat] /\ Needs \subseteq Nat
        /\ \A a, b \in Accounts : Score[fp][a] = Score[fp][b] => a = b
    BY RoutingAssumption DEF TypeOK
  <2> SUFFICES ASSUME NEW e \in placed[pool][fp], e.need <= need,
                      e.acct # last'.acct, Fitting(used, pool, need) # {}
               PROVE  /\ ~Fits(used, e.acct, need)
                      /\ Score[fp][e.acct] < Score[fp][last'.acct]
    BY <2>1 DEF MovesOn
  <2> DEFINE a == last'.acct
  <2>3. e \in Placement /\ e.need \in Nat /\ e.need \in Needs
    <3>1. placed \in [Pools -> [Fps -> SUBSET Placement]]
      BY DEF TypeOK
    <3>2. e \in Placement
      BY <3>1
    <3>3. QED
      BY <2>2, <3>2 DEF Placement
  <2>4. \A b \in Members[pool] : Fits(used, b, need) => Fits(used, b, e.need)
    BY <2>2, <2>3 DEF Fits
  <2>5. a \in Members[pool] /\ Fits(used, a, need)
    <3>1. a = First(fp, Fitting(used, pool, need))
      BY <2>1 DEF Choice
    <3>2. Fitting(used, pool, need) \in SUBSET Accounts
      BY <2>2 DEF Fitting
    <3>3. a \in Fitting(used, pool, need)
      BY <3>1, <3>2, FirstIsTop
    <3>4. QED
      BY <3>3 DEF Fitting
  <2>6. Settled(pool, fp, e)
    BY DEF AllSettled
  <2>7. Score[fp][e.acct] < Score[fp][a]
    <3>1. ~(Score[fp][a] < Score[fp][e.acct])
      BY <2>4, <2>5, <2>6 DEF Settled
    <3>2. e.acct \in Accounts /\ a \in Accounts
      BY <2>2, <2>5, <2>6 DEF Settled
    <3>3. Score[fp][a] \in Nat /\ Score[fp][e.acct] \in Nat
      BY <2>2, <3>2
    <3>4. Score[fp][a] # Score[fp][e.acct]
      BY <2>2, <3>2
    <3>5. QED
      BY <3>1, <3>3, <3>4
  <2>8. ~Fits(used, e.acct, need)
    <3>1. PICK c \in Placement : c.acct = a /\ c.need = need
      <4>1. [acct |-> a, need |-> need] \in Placement
        BY <2>2, <2>5 DEF Placement
      <4>2. QED
        BY <4>1
    <3>2. Settled(pool, fp, c) /\ c.acct = a /\ c.need = need
      BY <2>1, <3>1, ChoiceIsSettled
    <3>3. QED
      BY <2>5, <2>6, <2>7, <3>2 DEF Settled
  <2>9. QED
    BY <2>7, <2>8
<1>4. QED
  BY <1>1, <1>2, <1>3, RouterTypeCorrect, PTL DEF Spec, PrefixNeverMovesBack

\* A false flag tells of saturation: either the top-ranked account was passed
\* over because it was full, or the pool was full and it was least used.
THEOREM RouterMissesTellSaturation == Spec => []MissMeansSaturation
<1>1. Init => MissMeansSaturation
  BY DEF Init, MissMeansSaturation
<1>2. TypeOK /\ MissMeansSaturation /\ [Next]_vars => MissMeansSaturation'
  <2> SUFFICES ASSUME TypeOK, MissMeansSaturation, [Next]_vars
               PROVE  MissMeansSaturation'
    OBVIOUS
  <2>1. ASSUME NEW pool \in Pools, NEW fp \in Fps, NEW need \in Needs,
               Pick(pool, fp, need)
        PROVE  MissMeansSaturation'
    <3> DEFINE top == First(fp, Members[pool])
               a == Choice(used, pool, fp, need)
               miss == Affinity(used, pool, fp, need)
    <3>1. last' = [pool |-> pool, fp |-> fp, need |-> need, acct |-> a,
                   affinity |-> miss]
      BY <2>1 DEF Pick
    <3>2. Members[pool] \in SUBSET Accounts /\ Members[pool] # {}
      BY <2>1, RoutingAssumption DEF Pick
    <3>3. top \in Members[pool] /\ top \in Accounts
      BY <3>2, FirstIsTop
    <3>4. ASSUME ~miss
          PROVE  /\ ~Fits(used, top, need)
                 /\ a = top => \A b \in Members[pool] : ~Fits(used, b, need)
      <4>1. CASE Fitting(used, pool, need) = {}
        BY <3>3, <4>1 DEF Fitting
      <4>2. CASE Fitting(used, pool, need) # {}
        <5>1. a = First(fp, Fitting(used, pool, need)) /\ a # top
          BY <3>4, <4>2 DEF Choice, Affinity
        <5>2. Fitting(used, pool, need) \in SUBSET Members[pool]
          BY DEF Fitting
        <5>3. top \notin Fitting(used, pool, need)
          BY <3>2, <5>1, <5>2, TopOfSubset
        <5>4. QED
          BY <3>3, <5>1, <5>3 DEF Fitting
      <4>3. QED
        BY <4>1, <4>2
    <3> HIDE DEF a, miss, top
    <3>5. ASSUME ~miss
          PROVE  /\ ~Fits(used', top, need)
                 /\ a = top => \A b \in Members[pool] : ~Fits(used', b, need)
      BY <2>1, <3>2, <3>3, <3>4, <3>5, ChargingMakesNoRoom
    <3>6. QED
      BY <3>1, <3>5 DEF MissMeansSaturation, top
  <2>2. CASE UNCHANGED vars
    BY <2>2 DEF vars, MissMeansSaturation, Fits
  <2>3. QED
    BY <2>1, <2>2 DEF Next
<1>3. QED
  BY <1>1, <1>2, RouterTypeCorrect, PTL DEF Spec

\* The account has used its budget up.
Saturated(a) == Budget[a] > 0 /\ used[a] >= Budget[a]

\* There is no window at whose end a counter starts again: from the moment an
\* account has used its budget up, in whatever instance of the router, its
\* budget never returns.
THEOREM RouterNeverReturnsBudget ==
    ASSUME NEW a \in Accounts
    PROVE  Spec /\ <>Saturated(a) => ~BudgetReturns
<1>1. TypeOK /\ Saturated(a) /\ [Next]_vars => Saturated(a)'
  <2> SUFFICES ASSUME TypeOK, Saturated(a), [Next]_vars
               PROVE  used'[a] >= Budget[a]
    BY DEF Saturated
  <2>1. ASSUME NEW pool \in Pools, NEW fp \in Fps, NEW need \in Needs,
               Pick(pool, fp, need)
        PROVE  used'[a] >= Budget[a]
    <3>1. PICK c \in Members[pool] :
             /\ c \in Accounts
             /\ used'[c] = used[c] + need
             /\ \A b \in Accounts \ {c} : used'[b] = used[b]
      BY <2>1, PickCharges
    <3>2. /\ used[a] \in Nat /\ need \in Nat /\ Budget[a] \in Nat
          /\ used[a] >= Budget[a]
      BY RoutingAssumption DEF TypeOK, Saturated
    <3>3. QED
      BY <3>1, <3>2
  <2>2. CASE UNCHANGED vars
    BY <2>2 DEF vars, Saturated
  <2>3. QED
    BY <2>1, <2>2 DEF Next
<1>2. TypeOK => (Saturated(a) => ~(used[a] < Budget[a]))
  BY RoutingAssumption DEF TypeOK, Saturated
<1>3. BudgetReturns => (Saturated(a) ~> (used[a] < Budget[a]))
  BY DEF BudgetReturns, Saturated
<1>4. QED
  BY <1>1, <1>2, <1>3, RouterTypeCorrect, PTL DEF Spec
=============================================================================
