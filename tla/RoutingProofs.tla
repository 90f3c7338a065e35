--------------------------- MODULE RoutingProofs ----------------------------
(* What a conversation is routed to, for any catalog, any numbers and any    *)
(* number of turns, and what its classifiers do. First the mathematics the   *)
(* choices rest on: a finite set of candidates has a least one, a recursive  *)
(* sum is a number. Then what the choices range over, and then the           *)
(* properties; after them the classifiers' calls, for any number of callers, *)
(* slots and attempts, and what the docstring of irp.py claims of its        *)
(* ranking, for any candidates; last what a loaded route may count as direct *)
(* evidence, for any number of processes on one cache.                       *)
EXTENDS Classify, Evidence, FiniteSetTheorems, WellFoundedInduction, TLAPS

(* Induction. The induction theorems of the library take the formula as a    *)
(* parameter; what is used instead is a set of numbers with its least one.   *)

\* A set of naturals that has a member has a least one.
LEMMA NatLeast ==
  ASSUME NEW T \in SUBSET Nat, NEW n \in T
  PROVE  \E x \in T : \A y \in T : x <= y
<1> DEFINE S == 0..n
           F == {0..m : m \in {t \in T : t <= n}}
<1>0. IsFiniteSet(S)
  BY FS_Interval
<1>1. IsWellFoundedOn(StrictSubsetOrdering(S), SUBSET S)
  BY <1>0, FS_StrictSubsetOrderingWellFounded, FS_FiniteSubsetsOfFinite
<1>2. F \subseteq SUBSET S /\ F # {}
  OBVIOUS
<1>3. PICK X \in F : \A Y \in F : ~(<<Y, X>> \in StrictSubsetOrdering(S))
  <2> HIDE DEF F, S
  <2> QED
    BY <1>1, <1>2, WFMin
<1>4. PICK x \in T : x <= n /\ X = 0..x
  BY <1>3
<1>5. ASSUME NEW y \in T, y < x PROVE FALSE
  <2>1. 0..y \in F /\ 0..y \subseteq S /\ X \subseteq S
    BY <1>4, <1>5
  <2>2. 0..y # X /\ 0..y \subseteq X
    BY <1>4, <1>5
  <2>3. <<0..y, X>> \in StrictSubsetOrdering(S)
    BY <2>1, <2>2 DEF StrictSubsetOrdering
  <2> QED
    BY <1>3, <2>1, <2>3
<1> QED
  BY <1>4, <1>5

\* What holds of 0 and is handed on from each i < n to i + 1 holds up to n;
\* what holds is being in a set.
LEMMA Climb ==
  ASSUME NEW n \in Nat, NEW H, 0 \in H, \A i \in 1..n : i - 1 \in H => i \in H
  PROVE  0..n \subseteq H
<1> SUFFICES ASSUME NEW i \in 0..n, i \notin H PROVE FALSE
  OBVIOUS
<1> DEFINE T == {j \in 0..n : j \notin H}
<1>1. T \in SUBSET Nat /\ i \in T
  OBVIOUS
<1>2. PICK x \in T : \A y \in T : x <= y
  BY <1>1, NatLeast
<1>3. x # 0 /\ x \in 1..n /\ x - 1 \in 0..n /\ x - 1 < x
  BY <1>2
<1> QED
  BY <1>2, <1>3

\* A recursive definition by steps, N being the step, has a solution.
Solves(f, x, N, m) == f[0] = x /\ \A i \in 1..m : f[i] = N[<<i, f[i - 1]>>]

LEMMA StepsHaveSolution ==
  ASSUME NEW n \in Nat, NEW x \in Int, NEW N \in [(1..n) \X Int -> Int]
  PROVE  \E f \in [0..n -> Int] : Solves(f, x, N, n)
<1> DEFINE Solvable(m) == \E f \in [0..m -> Int] : Solves(f, x, N, m)
           H == {m \in 0..n : Solvable(m)}
<1>1. Solvable(0)
  <2> DEFINE ev == [i \in 0..0 |-> x]
  <2>1. ev \in [0..0 -> Int] /\ Solves(ev, x, N, 0)
    BY DEF Solves
  <2> QED
    BY <2>1
<1>2. ASSUME NEW m \in 1..n, Solvable(m - 1) PROVE Solvable(m)
  <2>1. PICK f \in [0..(m - 1) -> Int] : Solves(f, x, N, m - 1)
    BY <1>2
  <2> DEFINE ev == [i \in 0..m |-> IF i = m THEN N[<<m, f[m - 1]>>] ELSE f[i]]
  <2>2. <<m, f[m - 1]>> \in (1..n) \X Int
    OBVIOUS
  <2>3. N[<<m, f[m - 1]>>] \in Int
    BY <2>2
  <2>4. ev \in [0..m -> Int]
    BY <2>3
  <2>5. ev[0] = x
    BY <2>1 DEF Solves
  <2>6. ASSUME NEW i \in 1..m PROVE ev[i] = N[<<i, ev[i - 1]>>]
    <3>1. CASE i = m
      <4>1. ev[m] = N[<<m, f[m - 1]>>] /\ ev[m - 1] = f[m - 1]
        OBVIOUS
      <4> HIDE DEF ev
      <4> QED
        BY <3>1, <4>1
    <3>2. CASE i # m
      <4>1. i \in 1..(m - 1) /\ i - 1 \in 0..(m - 1) /\ i - 1 # m
        BY <3>2
      <4>2. ev[i] = f[i] /\ ev[i - 1] = f[i - 1]
        BY <3>2, <4>1
      <4> HIDE DEF ev
      <4> QED
        BY <2>1, <4>1, <4>2 DEF Solves
    <3> QED
      BY <3>1, <3>2
  <2> HIDE DEF ev
  <2>7. Solves(ev, x, N, m)
    BY <2>5, <2>6 DEF Solves
  <2> QED
    BY <2>4, <2>7
<1> HIDE DEF Solvable
<1>3. 0 \in H /\ \A m \in 1..n : m - 1 \in H => m \in H
  BY <1>1, <1>2
<1>4. 0..n \subseteq H
  <2> HIDE DEF H
  <2> QED
    BY <1>3, Climb
<1>5. Solvable(n)
  BY <1>4
<1> QED
  BY <1>5 DEF Solvable

\* There is the function of the sums of a sequence of numbers.
LEMMA SumsExist ==
  ASSUME NEW n \in Nat, NEW c \in [1..n -> Int]
  PROVE  \E f \in [0..n -> Int] : f = [i \in 0..n |-> IF i = 0 THEN 0 ELSE f[i - 1] + c[i]]
<1> DEFINE N == [p \in (1..n) \X Int |-> p[2] + c[p[1]]]
<1>1. N \in [(1..n) \X Int -> Int]
  OBVIOUS
<1>2. PICK f \in [0..n -> Int] : Solves(f, 0, N, n)
  <2> HIDE DEF N
  <2>1. 0 \in Int
    OBVIOUS
  <2> QED
    BY <1>1, <2>1, StepsHaveSolution, Zenon
<1>3. ASSUME NEW i \in 1..n PROVE f[i] = f[i - 1] + c[i]
  <2>1. f[i] = N[<<i, f[i - 1]>>]
    BY <1>2 DEF Solves
  <2>2. <<i, f[i - 1]>> \in (1..n) \X Int
    OBVIOUS
  <2> QED
    BY <2>1, <2>2
<1>4. \A i \in 0..n : f[i] = IF i = 0 THEN 0 ELSE f[i - 1] + c[i]
  <2>1. f[0] = 0
    BY <1>2 DEF Solves
  <2> QED
    BY <1>3, <2>1
<1>5. f = [i \in 0..n |-> IF i = 0 THEN 0 ELSE f[i - 1] + c[i]]
  BY <1>4
<1> QED
  BY <1>5

\* Halving a number leaves a number.
LEMMA HalvedIsNumber ==
  ASSUME NEW n \in Nat, NEW x \in Int
  PROVE  Halved(x, n) \in Int
<1> DEFINE N == [p \in (1..n) \X Int |-> p[2] \div 2]
           h == CHOOSE f : f = [i \in 0..n |-> IF i = 0 THEN x ELSE f[i - 1] \div 2]
<1>1. N \in [(1..n) \X Int -> Int]
  OBVIOUS
<1>2. PICK f \in [0..n -> Int] : Solves(f, x, N, n)
  <2> HIDE DEF N
  <2> QED
    BY <1>1, StepsHaveSolution, Zenon
<1>3. ASSUME NEW i \in 1..n PROVE f[i] = f[i - 1] \div 2
  <2>1. f[i] = N[<<i, f[i - 1]>>]
    BY <1>2 DEF Solves
  <2>2. <<i, f[i - 1]>> \in (1..n) \X Int
    OBVIOUS
  <2> QED
    BY <2>1, <2>2
<1>4. f = [i \in 0..n |-> IF i = 0 THEN x ELSE f[i - 1] \div 2]
  <2>1. f[0] = x
    BY <1>2 DEF Solves
  <2>2. \A i \in 0..n : f[i] = IF i = 0 THEN x ELSE f[i - 1] \div 2
    BY <1>3, <2>1
  <2> QED
    BY <2>2
<1>5. h = [i \in 0..n |-> IF i = 0 THEN x ELSE h[i - 1] \div 2]
  BY <1>4
<1>6. Halved(x, n) = h[n]
  BY DEF Halved
<1> HIDE DEF h
<1> DEFINE H == {i \in 0..n : h[i] \in Int}
<1>7. 0 \in H /\ \A i \in 1..n : i - 1 \in H => i \in H
  <2>1. \A i \in 0..n : h[i] = IF i = 0 THEN x ELSE h[i - 1] \div 2
    BY <1>5
  <2>2. h[0] = x
    BY <2>1
  <2>3. ASSUME NEW i \in 1..n, h[i - 1] \in Int PROVE h[i] \in Int
    <3>1. i \in 0..n /\ i # 0
      OBVIOUS
    <3>2. h[i] = h[i - 1] \div 2
      BY <2>1, <3>1, Zenon
    <3> QED
      BY <2>3, <3>2
  <2> QED
    BY <2>2, <2>3
<1>8. 0..n \subseteq H
  <2> HIDE DEF H
  <2> QED
    BY <1>7, Climb
<1>9. h[n] \in Int
  BY <1>8
<1> QED
  BY <1>6, <1>9

----------------------------------------------------------------------------
(* The least of a finite set *)

\* a comes before b, by the first key and then by the second.
Precedes(a, b) == a[1] < b[1] \/ (a[1] = b[1] /\ a[2] <= b[2])

\* Among finitely many members there is one whose keys are the least.
LEMMA LeastExists ==
  ASSUME NEW S, IsFiniteSet(S), S # {}, NEW f, \A m \in S : f[m][1] \in Int /\ f[m][2] \in Int
  PROVE  \E m \in S : \A x \in S : Precedes(f[m], f[x])
<1> DEFINE D(x) == {y \in S : Precedes(f[y], f[x])}
           F == {D(x) : x \in S}
<1>1. IsWellFoundedOn(StrictSubsetOrdering(S), SUBSET S)
  BY FS_StrictSubsetOrderingWellFounded, FS_FiniteSubsetsOfFinite
<1>2. F \subseteq SUBSET S /\ F # {}
  OBVIOUS
<1>3. PICK X \in F : \A Y \in F : ~(<<Y, X>> \in StrictSubsetOrdering(S))
  <2> HIDE DEF F
  <2> QED
    BY <1>1, <1>2, WFMin
<1>4. PICK m \in S : X = D(m)
  BY <1>3
<1>5. ASSUME NEW x \in S, ~Precedes(f[m], f[x]) PROVE FALSE
  <2>1. Precedes(f[x], f[m]) /\ Precedes(f[m], f[m])
    BY <1>5 DEF Precedes
  <2>2. ASSUME NEW y \in S, Precedes(f[y], f[x]) PROVE Precedes(f[y], f[m])
    BY <1>5, <2>1, <2>2 DEF Precedes
  <2>3. D(x) \subseteq D(m) /\ m \in D(m) /\ m \notin D(x)
    BY <1>5, <2>1, <2>2
  <2>4. D(x) \in F /\ D(x) \subseteq S /\ D(m) \subseteq S
    OBVIOUS
  <2>5. D(x) # D(m)
    BY <2>3
  <2> HIDE DEF D
  <2>6. <<D(x), X>> \in StrictSubsetOrdering(S)
    BY <1>4, <2>3, <2>4, <2>5 DEF StrictSubsetOrdering
  <2> QED
    BY <1>3, <2>4, <2>6
<1> QED
  BY <1>5

\* First is a member of its set, and none has a lesser first key.
LEMMA FirstIsLeast ==
  ASSUME NEW S, IsFiniteSet(S), S # {}, NEW f \in [S -> Int], NEW h \in [S -> Int]
  PROVE  LET o == LeastKey({<<f[m], h[m], m>> : m \in S})[3]
         IN  o \in S /\ \A x \in S : f[o] <= f[x]
<1> DEFINE ev == [m \in S |-> <<f[m], h[m], m>>]
           keyed == {<<f[m], h[m], m>> : m \in S}
           least == LeastKey(keyed)
<1>1. \A m \in S : ev[m] = <<f[m], h[m], m>> /\ ev[m][1] \in Int /\ ev[m][2] \in Int
  OBVIOUS
<1>2. PICK m \in S : \A x \in S : Precedes(ev[m], ev[x])
  <2> HIDE DEF ev
  <2> QED
    BY <1>1, LeastExists
<1>3. ev[m] \in keyed /\ \A x \in keyed : Precedes(ev[m], x)
  BY <1>2
<1>4. least \in keyed /\ \A x \in keyed : Precedes(least, x)
  <2> HIDE DEF ev, keyed
  <2> QED
    BY <1>3 DEF LeastKey, Precedes
<1>5. PICK n \in S : least = <<f[n], h[n], n>>
  BY <1>4
<1>6. least[3] = n /\ \A x \in S : Precedes(<<f[n], h[n], n>>, <<f[x], h[x], x>>)
  BY <1>4, <1>5
<1>7. \A x \in S : f[n] <= f[x]
  BY <1>6 DEF Precedes
<1> QED
  BY <1>6, <1>7

----------------------------------------------------------------------------
(* What is compared is a number *)

\* What a decision is made from.
Request ==
  [category : Category, difficulty : Int, prompt : Nat, output : Nat, now : Int, steps : Nat,
   growth : Nat, tools : BOOLEAN, vision : BOOLEAN, followUp : 0..10, stakes : Nat,
   detect : 0..10, remaining : Nat, stated : Nat \cup {None}]

Pacing == [open : BOOLEAN, multiplier : Nat]
Context == [routes : SUBSET Names, quota : [PlanName -> Pacing]]
Warmth == [tokens : Int, at : Int]
Conversation ==
  [current : Names \cup {None}, warm : [Names -> Warmth \cup {None}], floor : Int, floorAt : Int]

LEMMA StrengthIsWeighed ==
  ASSUME NEW m, IsModelInfo(m), NEW category
  PROVE  Weight[EvidenceStrength(m, category)] \in 0..10
<1>1. \A x \in {"direct", "derived", "weak", "none"} : Weight[x] \in 0..10
  BY DEF Weight
<1>2. EvidenceStrength(m, category) \in {"direct", "derived", "weak", "none"}
  BY DEF EvidenceStrength, IsModelInfo, Weight
<1> QED
  BY <1>1, <1>2

LEMMA CapIsNumber ==
  ASSUME NEW m, IsModelInfo(m), NEW category, NEW discount \in Int
  PROVE  Cap(m, category, discount) \in Int
<1> DEFINE base == IF category \in DOMAIN m.capability THEN m.capability[category]
                   ELSE IF "general" \in DOMAIN m.capability THEN m.capability["general"]
                   ELSE Neutral
           w == Weight[EvidenceStrength(m, category)]
           score == base - Most(0, m.benchmaxxing) \div 2
           shrink == discount * (10 - w)
<1>1. base \in Int
  BY DEF IsModelInfo, Neutral
<1>2. w \in Int
  BY StrengthIsWeighed
<1>3. Most(0, m.benchmaxxing) \in Int
  BY DEF IsModelInfo, Most
<1> HIDE DEF base, w
<1>4. score \in Int /\ shrink \in Int
  BY <1>1, <1>2, <1>3
<1> HIDE DEF score, shrink
<1>5. (score * (1000 - shrink) + Neutral * shrink) \div 1000 \in Int
  BY <1>4 DEF Neutral
<1> QED
  BY <1>5 DEF Cap, base, w, score, shrink

\* A price list and a cache a cost can be computed from.
Billed(m) == m.prices \in Prices /\ m.cache \in CacheRules

LEMMA TurnCostIsNumber ==
  ASSUME NEW m, Billed(m), NEW prompt \in Int, NEW warmTokens \in Int, NEW output \in Int
  PROVE  TurnCost(m, prompt, warmTokens, output) \in Int
<1> DEFINE p == m.prices
           warm == Within(0, warmTokens, prompt)
<1>1. warm \in Int
  BY DEF Within, Most, Least
<1>2. /\ p.in \in Int /\ p.out \in Int /\ ReadPrice(p) \in Int /\ WritePrice(p) \in Int
      /\ m.cache.min \in Int /\ m.cache.hit \in Int
  BY DEF Billed, Prices, CacheRules, ReadPrice, WritePrice
<1> HIDE DEF p, warm
<1>3. 10 * (prompt * p.in + output * p.out) \in Int
  BY <1>2
<1>4. warm * (m.cache.hit * ReadPrice(p) + (10 - m.cache.hit) * WritePrice(p)) \in Int
  BY <1>1, <1>2
<1>5. 10 * ((prompt - warm) * WritePrice(p) + output * p.out) \in Int
  BY <1>1, <1>2
<1> QED
  BY <1>3, <1>4, <1>5 DEF TurnCost, p, warm

LEMMA PricedIsBilled ==
  ASSUME NEW r \in Names, NEW ctx \in Context
  PROVE  Billed(Priced(Model[r], ctx))
<1> DEFINE m == Model[r]
           by == ctx.quota[m.plan].multiplier
           ref == Model[m.reference]
<1>1. IsModelInfo(m) /\ m.reference \in Names \cup {None}
  BY Models
<1>2. CASE m.plan = None \/ m.reference = None \/ by = 0
  <2>1. Priced(m, ctx) = m
    BY <1>2 DEF Priced
  <2> QED
    BY <1>1, <2>1 DEF Billed, IsModelInfo
<1>3. CASE ~(m.plan = None \/ m.reference = None \/ by = 0)
  <2> DEFINE scaled == [o \in DOMAIN ref.prices |-> Scaled(ref.prices[o], by)]
  <2>1. m.plan \in PlanName /\ m.reference \in Names
    BY <1>1, <1>3 DEF PlanName
  <2>2. by \in Nat /\ IsModelInfo(ref)
    BY <2>1, Models DEF Context, Pacing
  <2>3. ref.prices \in Prices /\ ref.cache \in CacheRules
    BY <2>2 DEF IsModelInfo
  <2>4. ASSUME NEW x \in Nat \cup {None} PROVE Scaled(x, by) \in Nat \cup {None} /\ (x # None => Scaled(x, by) \in Nat)
    <3> HIDE DEF by
    <3>1. CASE x = None
      BY <3>1 DEF Scaled
    <3>2. CASE x # None
      <4>1. x * by \in Nat
        BY <2>2, <3>2
      <4>2. (x * by) \div 10 \in Nat
        BY <4>1
      <4> QED
        BY <3>2, <4>2 DEF Scaled
    <3> QED
      BY <3>1, <3>2
  <2>5. Priced(m, ctx) = [m EXCEPT !.prices = scaled, !.cache = ref.cache]
    BY <1>3 DEF Priced
  <2>6. scaled \in Prices
    <3> HIDE DEF by
    <3> QED
      BY <2>3, <2>4 DEF Prices
  <2>7. {"prices", "cache"} \subseteq DOMAIN m
    BY <1>1 DEF IsModelInfo
  <2> HIDE DEF scaled, m, ref
  <2>8. Priced(m, ctx).prices = scaled /\ Priced(m, ctx).cache = ref.cache
    BY <2>5, <2>7
  <2> QED
    BY <2>3, <2>6, <2>8 DEF Billed, m
<1> QED
  BY <1>2, <1>3

LEMMA CallsCostIsNumber ==
  ASSUME NEW m, Billed(m), NEW req \in Request, NEW warm \in Int, NEW per \in Int
  PROVE  CallsCost(m, req, warm, per) \in Int
<1> DEFINE prompt(i) == req.prompt + i * req.growth
           term(i) == TurnCost(m, prompt(i - 1), IF i = 1 THEN warm ELSE prompt(i - 2) + per, per)
           n == req.steps
           c == [i \in 1..n |-> term(i)]
           ev == CHOOSE f : f = [i \in 0..n |-> IF i = 0 THEN 0 ELSE f[i - 1] + term(i)]
<1>1. n \in Nat /\ req.prompt \in Int /\ req.growth \in Int
  BY DEF Request
<1>2. ASSUME NEW i \in 1..n PROVE term(i) \in Int
  <2>1. prompt(i - 1) \in Int /\ prompt(i - 2) + per \in Int
    BY <1>1
  <2> HIDE DEF prompt
  <2> QED
    BY <2>1, TurnCostIsNumber
<1> HIDE DEF n
<1>3. c \in [1..n -> Int]
  BY <1>2
<1>4. \A i \in 1..n : c[i] = term(i)
  OBVIOUS
<1> HIDE DEF term, c
<1>5. PICK s : s = [i \in 0..n |-> IF i = 0 THEN 0 ELSE s[i - 1] + c[i]]
  BY <1>1, <1>3, SumsExist
<1>6. s = [i \in 0..n |-> IF i = 0 THEN 0 ELSE s[i - 1] + term(i)]
  BY <1>1, <1>4, <1>5
<1>7. ev = [i \in 0..n |-> IF i = 0 THEN 0 ELSE ev[i - 1] + term(i)]
  BY <1>6
<1> HIDE DEF ev
<1> DEFINE H == {i \in 0..n : ev[i] \in Int}
<1>8. 0 \in H /\ \A i \in 1..n : i - 1 \in H => i \in H
  <2>1. \A i \in 0..n : ev[i] = IF i = 0 THEN 0 ELSE ev[i - 1] + term(i)
    BY <1>7
  <2>2. ev[0] = 0
    BY <1>1, <2>1
  <2>3. ASSUME NEW i \in 1..n, ev[i - 1] \in Int PROVE ev[i] \in Int
    <3>1. i \in 0..n /\ i # 0
      BY <1>1
    <3>2. ev[i] = ev[i - 1] + term(i)
      BY <2>1, <3>1, Zenon
    <3> QED
      BY <1>2, <2>3, <3>2
  <2> QED
    BY <1>1, <2>2, <2>3
<1>9. ev[n] \in Int
  <2>1. 0..n \subseteq H
    <3> HIDE DEF H
    <3> QED
      BY <1>1, <1>8, Climb
  <2> QED
    BY <1>1, <2>1
<1>10. CallsCost(m, req, warm, per) = ev[n]
  BY DEF CallsCost, ev, term, n
<1> QED
  BY <1>9, <1>10

LEMMA TurnCallCostIsNumber ==
  ASSUME NEW r \in Names, NEW req \in Request, NEW warm \in Int, NEW ctx \in Context
  PROVE  TurnCallCost(r, req, warm, ctx) \in Int
<1> DEFINE m == Model[r]
           per == Most(1, ((req.output * m.appetite) \div 10) \div Most(1, req.steps))
<1>1. IsModelInfo(m) /\ Billed(Priced(m, ctx))
  BY Models, PricedIsBilled
<1>2. req.output * m.appetite \in Nat /\ Most(1, req.steps) \in Nat \ {0}
  BY <1>1 DEF IsModelInfo, Request, Most
<1>3. ((req.output * m.appetite) \div 10) \div Most(1, req.steps) \in Int
  BY <1>2
<1>4. per \in Int
  BY <1>3 DEF Most
<1> HIDE DEF m, per
<1>5. CallsCost(Priced(m, ctx), req, warm, per) \in Int
  BY <1>1, <1>4, CallsCostIsNumber
<1> QED
  BY <1>5 DEF TurnCallCost, Infinite, m, per

LEMMA WarmTokensIsNumber ==
  ASSUME NEW conv \in Conversation, NEW r \in Names, NEW now
  PROVE  WarmTokens(conv, r, now) \in Int
BY DEF WarmTokens, Conversation, Warmth

LEMMA CallCostIsNumber ==
  ASSUME NEW conv \in Conversation, NEW r \in Names, NEW req \in Request, NEW ctx \in Context
  PROVE  CallCost(r, conv, req, ctx) \in Int
BY WarmTokensIsNumber, TurnCallCostIsNumber DEF CallCost

LEMMA CurveIsNumber ==
  ASSUME NEW s, IsSuccess(s), NEW m, IsModelInfo(m), NEW category, NEW d \in Int
  PROVE  Curve(s, m, category, d) \in Int
<1> DEFINE cap == Cap(m, category, s.discount)
           raw == (cap - (s.offset + s.slope * d)) \div s.scale
           cut == IF m.taskTokens = None THEN 0
                  ELSE s.lengthPenalty * LogRatio(Most(m.taskTokens, 1), Most(m.maxOutput, 1))
           value == Logistic[Within(-5, raw - cut, 5)]
<1>1. /\ s.offset \in Int /\ s.slope \in Int /\ s.scale \in Nat \ {0} /\ s.discount \in Int
      /\ s.floor \in Int /\ s.ceiling \in Int /\ s.lengthPenalty \in Int
  BY DEF IsSuccess
<1>2. cap \in Int
  BY <1>1, CapIsNumber
<1> HIDE DEF cap
<1>3. cap - (s.offset + s.slope * d) \in Int
  BY <1>1, <1>2
<1>4. raw \in Int
  BY <1>1, <1>3
<1>5. LogRatio(Most(m.taskTokens, 1), Most(m.maxOutput, 1)) \in Int
  BY DEF LogRatio
<1>6. cut \in Int
  BY <1>1, <1>5
<1> HIDE DEF raw, cut
<1>7. Within(-5, raw - cut, 5) \in -5..5
  BY <1>4, <1>6 DEF Within, Most, Least
<1>8. value \in Int
  BY <1>7, LogisticRises
<1> HIDE DEF value
<1>9. (s.ceiling - s.floor) * value \in Int
  BY <1>1, <1>8
<1>10. s.floor + ((s.ceiling - s.floor) * value) \div 10 \in Int
  BY <1>1, <1>9
<1>11. Within(s.floor, value, s.ceiling) \in Int
  BY <1>1, <1>8 DEF Within, Most, Least
<1> QED
  BY <1>10, <1>11 DEF Curve, cap, raw, cut, value

LEMMA SuccessIsNumber ==
  ASSUME NEW s, IsSuccess(s), NEW m, IsModelInfo(m), NEW category, NEW d \in Int
  PROVE  P(s, m, category, d) \in Int
<1> DEFINE cell == <<m.key, category, Bucket(d)>>
           curve == Curve(s, m, category, d)
<1>1. curve \in Int
  BY CurveIsNumber
<1> HIDE DEF cell, curve
<1>2. CASE cell \notin DOMAIN s.measured
  BY <1>1, <1>2 DEF P, WithCell, cell, curve
<1>3. CASE cell \in DOMAIN s.measured /\ s.priorN = None
  BY <1>3 DEF P, WithCell, cell, curve, IsSuccess
<1>4. CASE cell \in DOMAIN s.measured /\ s.priorN # None
  <2>1. s.measured[cell] \in Int /\ s.priorN \in Nat /\ s.measuredN \in Nat \ {0}
    BY <1>4 DEF IsSuccess
  <2>2. s.priorN * curve + s.measuredN * s.measured[cell] \in Int /\ s.priorN + s.measuredN \in Nat \ {0}
    BY <1>1, <2>1
  <2>3. (s.priorN * curve + s.measuredN * s.measured[cell]) \div (s.priorN + s.measuredN) \in Int
    BY <2>2
  <2> QED
    BY <1>4, <2>3 DEF P, WithCell, cell, curve
<1> QED
  BY <1>2, <1>3, <1>4

----------------------------------------------------------------------------
(* What the choices range over *)

LEMMA ImageFinite ==
  ASSUME NEW S, IsFiniteSet(S), NEW f
  PROVE  IsFiniteSet({f[x] : x \in S})
<1> DEFINE T == {f[x] : x \in S}
           ev == [x \in S |-> f[x]]
<1>1. ev \in Surjection(S, T)
  BY DEF Surjection
<1> QED
  BY <1>1, FS_Surjection

LEMMA PoolFinite ==
  ASSUME NEW pool \in SUBSET Names
  PROVE  IsFiniteSet(pool)
BY Models, FS_Subset

LEMMA RouteNumbers ==
  ASSUME NEW r \in Names, NEW category
  PROVE  /\ RawCap(r, category) \in Int /\ -RawCap(r, category) \in Int
         /\ ListBlended(r) \in Int /\ Model[r].latency \in Int
<1>1. IsModelInfo(Model[r])
  BY Models
<1>2. RawCap(r, category) \in Int
  BY <1>1, CapIsNumber DEF RawCap
<1>3. Model[r].prices.in \in Int /\ Model[r].prices.out \in Int
  BY <1>1 DEF IsModelInfo, Prices
<1> QED
  BY <1>1, <1>2, <1>3 DEF ListBlended, IsModelInfo

LEMMA RouteSucceeds ==
  ASSUME NEW c, IsSetup(c), NEW r \in Names, NEW req, NEW d \in Int
  PROVE  Success(c, r, req, d) \in Int /\ -Success(c, r, req, d) \in Int
<1>1. Success(c, r, req, d) \in Int
  BY Models, SuccessIsNumber DEF Success, IsSetup
<1> QED
  BY <1>1

\* A candidate is offered, and its plan, if it has one, may be used and is open.
LEMMA CandidatesRange ==
  ASSUME NEW req, NEW ctx \in Context, NEW plansToo, NEW r \in Candidates(req, ctx, plansToo)
  PROVE  /\ r \in Names /\ r \in ctx.routes
         /\ Model[r].plan # None => plansToo /\ ctx.quota[Model[r].plan].open
<1> DEFINE usable == {x \in ctx.routes : Model[x].plan = None \/ (plansToo /\ PlanOpen(Model[x], ctx))}
<1>1. r \in usable
  BY DEF Candidates, FittingIn, EligibleOr
<1> QED
  BY <1>1 DEF PlanOpen, Context

LEMMA StrongestRange ==
  ASSUME NEW pool \in SUBSET Names, pool # {}, NEW category
  PROVE  Strongest(pool, category) \in pool
<1> DEFINE f == [r \in pool |-> -RawCap(r, category)]
           h == [r \in pool |-> ListBlended(r)]
<1>1. f \in [pool -> Int] /\ h \in [pool -> Int]
  BY RouteNumbers
<1>2. {<<f[r], h[r], r>> : r \in pool} = {<<-RawCap(r, category), ListBlended(r), r>> : r \in pool}
  OBVIOUS
<1> HIDE DEF f, h
<1>3. LeastKey({<<f[r], h[r], r>> : r \in pool})[3] \in pool
  BY <1>1, PoolFinite, FirstIsLeast
<1> QED
  BY <1>2, <1>3 DEF Strongest, First

LEMMA TargetRange ==
  ASSUME NEW c, IsSetup(c), NEW req \in Request, NEW pool \in SUBSET Names, pool # {}, NEW ok \in SUBSET pool
  PROVE  TargetIn(c, req, pool, ok) \in pool
<1>1. CASE ok = {}
  <2> DEFINE f == [r \in pool |-> -Success(c, r, req, req.difficulty)]
             h == [r \in pool |-> ListBlended(r)]
  <2>1. f \in [pool -> Int] /\ h \in [pool -> Int]
    BY RouteNumbers, RouteSucceeds DEF Request
  <2>2. {<<f[r], h[r], r>> : r \in pool}
          = {<<-Success(c, r, req, req.difficulty), ListBlended(r), r>> : r \in pool}
    OBVIOUS
  <2> HIDE DEF f, h
  <2>3. LeastKey({<<f[r], h[r], r>> : r \in pool})[3] \in pool
    BY <2>1, PoolFinite, FirstIsLeast
  <2> QED
    BY <1>1, <2>2, <2>3 DEF TargetIn, First
<1>2. CASE ok # {}
  <2> DEFINE f == [r \in ok |-> ListBlended(r)]
             h == [r \in ok |-> -RawCap(r, req.category)]
  <2>1. f \in [ok -> Int] /\ h \in [ok -> Int]
    BY RouteNumbers
  <2>2. {<<f[r], h[r], r>> : r \in ok} = {<<ListBlended(r), -RawCap(r, req.category), r>> : r \in ok}
    OBVIOUS
  <2> HIDE DEF f, h
  <2>3. LeastKey({<<f[r], h[r], r>> : r \in ok})[3] \in ok
    BY <1>2, <2>1, PoolFinite, FirstIsLeast
  <2> QED
    BY <1>2, <2>2, <2>3 DEF TargetIn, First
<1> QED
  BY <1>1, <1>2

LEMMA CheapestRange ==
  ASSUME NEW c, NEW conv \in Conversation, NEW req \in Request, NEW ctx \in Context,
         NEW pool \in SUBSET Names, pool # {}, NEW ok \in SUBSET pool
  PROVE  Cheapest(c, conv, req, ctx, pool, ok) \in pool
<1>1. CASE ok = {}
  BY <1>1, StrongestRange DEF Cheapest
<1>2. CASE ok # {}
  <2> DEFINE f == [r \in ok |-> CallCost(r, conv, req, ctx)]
             h == [r \in ok |-> -RawCap(r, req.category)]
  <2>1. f \in [ok -> Int] /\ h \in [ok -> Int]
    BY RouteNumbers, CallCostIsNumber
  <2>2. {<<f[r], h[r], r>> : r \in ok} = {<<CallCost(r, conv, req, ctx), -RawCap(r, req.category), r>> : r \in ok}
    OBVIOUS
  <2> HIDE DEF f, h
  <2>3. LeastKey({<<f[r], h[r], r>> : r \in ok})[3] \in ok
    BY <1>2, <2>1, PoolFinite, FirstIsLeast
  <2> QED
    BY <1>2, <2>2, <2>3 DEF Cheapest, First
<1> QED
  BY <1>1, <1>2

----------------------------------------------------------------------------
(* What policy F and the record rank *)

Offer == [route : Names, cost : Int, p : Int, cap : Int]
Scored == [route : Names, cap : Int, value : Int]

LEMMA OffersTyped ==
  ASSUME NEW c, IsSetup(c), NEW conv \in Conversation, NEW req \in Request, NEW ctx \in Context,
         NEW d \in Int, NEW pool \in SUBSET Names
  PROVE  LET offers == Offers(c, conv, req, ctx, d, pool)
         IN  offers \subseteq Offer /\ IsFiniteSet(offers) /\ \A o \in offers : o.route \in pool
<1> DEFINE f == [r \in pool |-> [route |-> r, cost |-> CallCost(r, conv, req, ctx),
                                 p |-> Success(c, r, req, d), cap |-> RawCap(r, req.category)]]
<1>1. \A r \in pool : /\ CallCost(r, conv, req, ctx) \in Int /\ Success(c, r, req, d) \in Int
                      /\ RawCap(r, req.category) \in Int
  BY CallCostIsNumber, RouteSucceeds, RouteNumbers
<1>2. \A r \in pool : f[r] \in Offer /\ f[r].route = r
  BY <1>1 DEF Offer
<1>3. Offers(c, conv, req, ctx, d, pool) = {f[r] : r \in pool}
  BY DEF Offers
<1> HIDE DEF f
<1>4. IsFiniteSet({f[r] : r \in pool})
  BY PoolFinite, ImageFinite
<1> QED
  BY <1>2, <1>3, <1>4

LEMMA RetriedIsNumber ==
  ASSUME NEW o, NEW again \in Offer, NEW req \in Request
  PROVE  Retried(o, again, req).call \in Int /\ Retried(o, again, req).usd \in Int
<1> DEFINE asked == (10 - req.detect) * Catch
           share == asked + 10 * req.detect
           ordinary == again.cost + ((10 - again.p) * (10 - req.detect) * req.stakes) \div 100
           judged == again.cost + ((10 - Fix) * req.stakes) \div 10
<1>1. /\ req.detect \in 0..10 /\ req.stakes \in Int /\ again.cost \in Int /\ again.p \in Int
  BY DEF Request, Offer
<1>2. asked \in Int /\ share \in Int /\ share > 0
  BY <1>1 DEF Catch
<1>3. (10 - again.p) * (10 - req.detect) * req.stakes \in Int
  BY <1>1
<1>4. ordinary \in Int
  BY <1>1, <1>3
<1>5. judged \in Int
  BY <1>1 DEF Fix
<1> HIDE DEF asked, share, ordinary, judged
<1>6. (share - asked) * ordinary + asked * judged \in Int
  BY <1>2, <1>4, <1>5
<1>7. ((share - asked) * ordinary + asked * judged) \div share \in Int
  BY <1>2, <1>6
<1> QED
  BY <1>1, <1>4, <1>7 DEF Retried, asked, share, ordinary, judged

LEMMA RetryIsNumber ==
  ASSUME NEW o \in Offer, NEW stronger \in SUBSET Offer, IsFiniteSet(stronger), NEW req \in Request
  PROVE  Retry(o, stronger, req).call \in Int /\ Retry(o, stronger, req).usd \in Int
<1>1. o.cost \in Int /\ o.p \in Int /\ req.stakes \in Int
  BY DEF Offer, Request
<1>2. CASE stronger = {}
  <2>1. (10 - o.p) * req.stakes \in Int
    BY <1>1
  <2>2. o.cost + ((10 - o.p) * req.stakes) \div 10 \in Int
    BY <1>1, <2>1
  <2> QED
    BY <1>1, <1>2, <2>2 DEF Retry
<1>3. CASE stronger # {}
  <2> DEFINE f == [x \in stronger |-> -((1000 * x.p) \div Most(x.cost, 1))]
             h == [x \in stronger |-> Zero(x)]
             again == LeastKey({<<f[x], h[x], x>> : x \in stronger})[3]
  <2>1. ASSUME NEW x \in stronger PROVE -((1000 * x.p) \div Most(x.cost, 1)) \in Int
    <3>1. x.p \in Int /\ Most(x.cost, 1) \in Int /\ Most(x.cost, 1) > 0
      BY DEF Offer, Most
    <3>2. (1000 * x.p) \div Most(x.cost, 1) \in Int
      BY <3>1
    <3> QED
      BY <3>2
  <2>2. f \in [stronger -> Int] /\ h \in [stronger -> Int]
    BY <2>1 DEF Zero
  <2>3. {<<f[x], h[x], x>> : x \in stronger}
          = {<<-((1000 * x.p) \div Most(x.cost, 1)), Zero(x), x>> : x \in stronger}
    OBVIOUS
  <2> HIDE DEF f, h
  <2>4. again \in stronger
    BY <1>3, <2>2, FirstIsLeast
  <2>5. Retry(o, stronger, req) = Retried(o, again, req)
    BY <1>3, <2>3 DEF Retry, First
  <2> HIDE DEF again
  <2> QED
    BY <2>4, <2>5, RetriedIsNumber
<1> QED
  BY <1>2, <1>3

LEMMA ValueIsNumber ==
  ASSUME NEW offers \in SUBSET Offer, IsFiniteSet(offers), NEW o \in offers,
         NEW req \in Request, NEW ctx \in Context
  PROVE  Value(o, offers, req, ctx) \in Int
<1> DEFINE retry == Retry(o, {x \in offers : x.cap > o.cap + 1}, req)
           detect == IF o.route \in Checked THEN req.detect + ((10 - req.detect) * Catch) \div 10
                     ELSE req.detect
           call == CheckedCall(o, retry)
           fail == Fail(o, retry, detect, req)
           after == [req EXCEPT !.prompt = @ + req.growth * req.steps]
           later == Later(o, after, ctx)
<1>1. o \in Offer /\ o.cost \in Int /\ o.p \in Int /\ o.route \in Names
  BY DEF Offer
<1>2. retry.call \in Int /\ retry.usd \in Int
  <2>1. IsFiniteSet({x \in offers : x.cap > o.cap + 1})
    BY FS_Subset
  <2> QED
    BY <1>1, <2>1, RetryIsNumber
<1> HIDE DEF retry
<1>3. detect \in Int
  BY DEF Request, Catch
<1> HIDE DEF detect
<1>4. call \in Int
  <2>1. o.p * FalseFlag * retry.call \in Int
    BY <1>1, <1>2 DEF FalseFlag
  <2>2. (o.p * FalseFlag * retry.call) \div 100 \in Int
    BY <2>1
  <2> QED
    BY <1>1, <2>2 DEF CheckedCall, JudgeUsd
<1>5. fail \in Int
  <2>1. req.stakes \in Int
    BY DEF Request
  <2>2. detect * retry.usd + (10 - detect) * req.stakes \in Int
    BY <1>2, <1>3, <2>1
  <2>3. (10 - o.p) * (detect * retry.usd + (10 - detect) * req.stakes) \in Int
    BY <1>1, <2>2
  <2>4. ((10 - o.p) * (detect * retry.usd + (10 - detect) * req.stakes)) \div 100 \in Int
    BY <2>3
  <2> QED
    BY <2>4 DEF Fail
<1>6. after \in Request /\ after.prompt \in Int
  <2>1. req.prompt + req.growth * req.steps \in Nat
    BY DEF Request
  <2> QED
    BY <2>1 DEF Request
<1> HIDE DEF after
<1>7. later \in Int
  BY <1>1, <1>6, TurnCallCostIsNumber DEF Later
<1> HIDE DEF call, fail, later
<1>8. Value(o, offers, req, ctx) = WithLater(call, fail, later, req)
  BY DEF Value, ValueOf, retry, detect, call, fail, after, later
<1>9. Least(3, req.remaining + 1) \in Int
  BY DEF Least, Request
<1>10. (Least(3, req.remaining + 1) - 1) * (later + fail) \in Int
  BY <1>5, <1>7, <1>9
<1>11. call + fail + ((Least(3, req.remaining + 1) - 1) * (later + fail)) \div 2 \in Int
  BY <1>4, <1>5, <1>10
<1> QED
  BY <1>8, <1>11 DEF WithLater

LEMMA RankIsNumber ==
  ASSUME NEW c, NEW offers \in SUBSET Offer, IsFiniteSet(offers), NEW o \in offers,
         NEW req \in Request, NEW ctx \in Context
  PROVE  Rank(c, o, offers, req, ctx) \in Int
<1>1. o.cost \in Int /\ Most(o.p, 1) \in Int /\ Most(o.p, 1) > 0
  BY DEF Offer, Most
<1>2. (10 * o.cost) \div Most(o.p, 1) \in Int
  BY <1>1
<1> QED
  BY <1>2, ValueIsNumber DEF Rank

\* What is ranked are candidates, finitely many, each with a value.
LEMMA RankedTyped ==
  ASSUME NEW c, IsSetup(c), NEW conv \in Conversation, NEW req \in Request, NEW ctx \in Context,
         NEW d \in Int
  PROVE  LET scored == Ranked(c, conv, req, ctx, d)
         IN  /\ scored \subseteq Scored /\ IsFiniteSet(scored)
             /\ \A o \in scored : o.route \in Candidates(req, ctx, PlansAllowed(c.policy))
<1> DEFINE pool == Candidates(req, ctx, PlansAllowed(c.policy))
           offers == Offers(c, conv, req, ctx, d, pool)
           f == [o \in offers |-> [route |-> o.route, cap |-> o.cap, value |-> Rank(c, o, offers, req, ctx)]]
<1>1. pool \in SUBSET Names
  BY CandidatesRange
<1> HIDE DEF pool
<1>2. offers \subseteq Offer /\ IsFiniteSet(offers) /\ \A o \in offers : o.route \in pool
  BY <1>1, OffersTyped
<1> HIDE DEF offers
<1>3. \A o \in offers : Rank(c, o, offers, req, ctx) \in Int
  BY <1>2, RankIsNumber
<1>4. \A o \in offers : f[o] \in Scored /\ f[o].route \in pool
  BY <1>2, <1>3 DEF Scored, Offer
<1>5. Ranked(c, conv, req, ctx, d) = {f[o] : o \in offers}
  BY DEF Ranked, RankedOffers, offers, pool
<1> HIDE DEF f
<1>6. IsFiniteSet({f[o] : o \in offers})
  BY <1>2, ImageFinite
<1> QED
  BY <1>4, <1>5, <1>6 DEF pool

LEMMA DifficultyIsNumber ==
  ASSUME NEW c, NEW conv \in Conversation, NEW req \in Request
  PROVE  /\ Lifted(req, DecayedFloor(conv, req.now)) \in Int /\ EffectiveDifficulty(conv, req) \in Int
         /\ RankDifficulty(c, conv, req) \in Int
<1>1. /\ req.difficulty \in Int /\ req.followUp \in Int /\ req.now \in Int
      /\ conv.floor \in Int /\ conv.floorAt \in Int
  BY DEF Request, Conversation
<1>2. ASSUME NEW floor \in Int PROVE Lifted(req, floor) \in Int
  <2>1. Most(0, floor - req.difficulty) * req.followUp \in Int
    BY <1>1 DEF Most
  <2>2. (Most(0, floor - req.difficulty) * req.followUp) \div 10 \in Int
    BY <2>1
  <2> QED
    BY <1>1, <2>2 DEF Lifted
<1>3. DecayedFloor(conv, req.now) \in Int
  <2>1. Most(0, req.now - conv.floorAt) \in Nat
    BY <1>1 DEF Most
  <2>2. Most(0, req.now - conv.floorAt) \div HalfLife \in Nat
    BY <2>1, RoutingNumbers
  <2> QED
    BY <1>1, <2>2, HalvedIsNumber DEF DecayedFloor
<1> QED
  BY <1>1, <1>2, <1>3 DEF EffectiveDifficulty, RankDifficulty

----------------------------------------------------------------------------
(* The choice *)

\* None of what was ranked beats own, but for the margin under which a
\* conversation stays.
LeastBy(own, why, scored) ==
  \A o \in scored : 100 * own.value <= o.value * (IF why = "stay" THEN 100 + Margin ELSE 100)

LEMMA TimesGrows ==
  ASSUME NEW a \in Int, NEW b \in Int, NEW m \in Nat, a <= b
  PROVE  a * m <= b * m
<1>1. (b - a) * m >= 0
  OBVIOUS
<1> QED
  BY <1>1

LEMMA ExpectedIsLeast ==
  ASSUME NEW conv, NEW scored \in SUBSET Scored, IsFiniteSet(scored), scored # {}
  PROVE  LET ch == Expected(conv, scored)
         IN  /\ ch.why \in {"stay", "expected"}
             /\ \E own \in scored : own.route = ch.route /\ LeastBy(own, ch.why, scored)
<1> DEFINE f == [o \in scored |-> o.value]
           h == [o \in scored |-> -o.cap]
           best == LeastKey({<<f[o], h[o], o>> : o \in scored})[3]
           ch == Expected(conv, scored)
<1>1. f \in [scored -> Int] /\ h \in [scored -> Int]
  BY DEF Scored
<1>2. {<<f[o], h[o], o>> : o \in scored} = {<<o.value, -o.cap, o>> : o \in scored}
  OBVIOUS
<1>3. \A o \in scored : f[o] = o.value /\ o.value \in Int
  BY DEF Scored
<1>4. First(scored, LAMBDA o : o.value, LAMBDA o : -o.cap) = best
  BY <1>2 DEF First
<1> HIDE DEF f, h
<1>5. best \in scored /\ \A o \in scored : best.value <= o.value
  BY <1>1, <1>3, FirstIsLeast
<1> HIDE DEF best
<1>6. CASE \E o \in scored : o.route = conv.current /\ 100 * o.value <= best.value * (100 + Margin)
  <2>1. PICK own \in scored : own.route = conv.current /\ 100 * own.value <= best.value * (100 + Margin)
    BY <1>6
  <2>2. ch = [route |-> conv.current, why |-> "stay"]
    BY <1>4, <1>6 DEF Expected
  <2>3. ASSUME NEW o \in scored PROVE 100 * own.value <= o.value * (100 + Margin)
    <3>1. best.value \in Int /\ o.value \in Int /\ own.value \in Int /\ 100 + Margin \in Nat
      BY <1>3, <1>5, RoutingNumbers
    <3>2. best.value * (100 + Margin) <= o.value * (100 + Margin)
      BY <1>5, <3>1, TimesGrows
    <3>3. best.value * (100 + Margin) \in Int /\ o.value * (100 + Margin) \in Int /\ 100 * own.value \in Int
      BY <3>1
    <3> QED
      BY <2>1, <3>2, <3>3
  <2> HIDE DEF ch
  <2> QED
    BY <2>1, <2>2, <2>3 DEF LeastBy, ch
<1>7. CASE ~\E o \in scored : o.route = conv.current /\ 100 * o.value <= best.value * (100 + Margin)
  <2>1. ch = [route |-> best.route, why |-> "expected"]
    BY <1>4, <1>7 DEF Expected
  <2>2. \A o \in scored : 100 * best.value <= o.value * 100
    BY <1>3, <1>5
  <2> HIDE DEF ch
  <2> QED
    BY <1>5, <2>1, <2>2 DEF LeastBy, ch
<1> QED
  BY <1>6, <1>7

\* What a choice r, made for the reason why, is answerable for.
MayUse(c, conv, req, ctx, r) ==
  \/ r \in Candidates(req, ctx, PlansAllowed(c.policy))
  \/ c.policy = "C_ev_switch" /\ r = conv.current /\ r \in ctx.routes

Justified(c, conv, req, ctx, r, why) ==
  /\ MayUse(c, conv, req, ctx, r)
  /\ why \notin {"loop", "force"}
  /\ why \in {"expected", "stay"} =>
       \E own \in Evaluate(c, conv, req, ctx) :
         own.route = r /\ LeastBy(own, why, Evaluate(c, conv, req, ctx))

LEMMA StayRange ==
  ASSUME NEW c, NEW conv, NEW req, NEW pool, NEW d, NEW cheapest \in pool
  PROVE  StayOr(c, conv, req, pool, d, cheapest) \in pool
BY DEF StayOr, Downgrade

LEMMA TargetAllowed ==
  ASSUME NEW c, IsSetup(c), NEW req \in Request, NEW ctx \in Context, NEW bar
  PROVE  LET t == Target(c, req, ctx, bar) IN t = None \/ t \in Candidates(req, ctx, FALSE)
<1> DEFINE pool == Candidates(req, ctx, FALSE)
           ok == Reaching(c, req, pool, bar)
<1>1. pool \in SUBSET Names /\ ok \in SUBSET pool
  BY CandidatesRange DEF Reaching
<1>2. Target(c, req, ctx, bar) = TargetIn(c, req, pool, ok)
  BY DEF Target, TargetAmong
<1> HIDE DEF pool, ok
<1>3. CASE pool = {}
  BY <1>2, <1>3 DEF TargetIn
<1>4. CASE pool # {}
  <2>1. TargetIn(c, req, pool, ok) \in pool
    BY <1>1, <1>4, TargetRange
  <2> QED
    BY <1>2, <2>1 DEF pool
<1> QED
  BY <1>3, <1>4 DEF pool

LEMMA ChooseDEAllowed ==
  ASSUME NEW c, IsSetup(c), NEW conv \in Conversation, NEW req \in Request, NEW ctx \in Context
  PROVE  LET r == ChooseDE(c, conv, req, ctx)
         IN  r = None \/ r \in Candidates(req, ctx, PlansAllowed(c.policy))
<1> DEFINE pool == Candidates(req, ctx, PlansAllowed(c.policy))
           d == Lifted(req, DecayedFloor(conv, req.now))
           ok == {r \in pool : Success(c, r, req, d) >= 6}
           cheapest == Cheapest(c, conv, req, ctx, pool, ok)
<1>1. pool \in SUBSET Names
  BY CandidatesRange
<1>2. ChooseDE(c, conv, req, ctx) = StayOr(c, conv, req, pool, d, cheapest)
  BY DEF ChooseDE, ChooseAmong
<1>3. ok \in SUBSET pool
  OBVIOUS
<1> HIDE DEF pool, d, ok
<1>4. CASE pool = {}
  <2>1. cheapest = None
    BY <1>3, <1>4 DEF Cheapest, Strongest
  <2> QED
    BY <1>2, <2>1 DEF StayOr
<1>5. CASE pool # {}
  <2>1. cheapest \in pool
    BY <1>1, <1>3, <1>5, CheapestRange
  <2> HIDE DEF cheapest
  <2> QED
    BY <1>2, <2>1, StayRange DEF pool
<1> QED
  BY <1>4, <1>5

LEMMA ChooseFJustified ==
  ASSUME NEW c, IsSetup(c), c.policy = "F_expected", NEW conv \in Conversation, NEW req \in Request,
         NEW ctx \in Context
  PROVE  LET ch == ChooseF(c, conv, req, ctx)
         IN  ch.route = None \/ Justified(c, conv, req, ctx, ch.route, ch.why)
<1> DEFINE ch == ChooseF(c, conv, req, ctx)
           scored == Evaluate(c, conv, req, ctx)
<1>1. Lifted(req, DecayedFloor(conv, req.now)) \in Int
  BY DifficultyIsNumber
<1>2. scored = Ranked(c, conv, req, ctx, Lifted(req, DecayedFloor(conv, req.now)))
  BY DEF Evaluate, RankDifficulty
<1>3. /\ scored \subseteq Scored /\ IsFiniteSet(scored)
      /\ \A o \in scored : o.route \in Candidates(req, ctx, PlansAllowed(c.policy))
  <2> HIDE DEF scored
  <2> QED
    BY <1>1, <1>2, RankedTyped
<1>4. PlansAllowed(c.policy) = TRUE
  BY DEF PlansAllowed
<1>5. CASE RuleApplies(req) /\ PaidRule.route \in Candidates(req, ctx, TRUE)
  <2>1. ch = [route |-> PaidRule.route, why |-> "rule"]
    BY <1>5 DEF ChooseF
  <2> HIDE DEF ch, scored
  <2>2. ch.route = PaidRule.route /\ ch.why = "rule"
    BY <2>1
  <2>3. MayUse(c, conv, req, ctx, ch.route)
    BY <1>4, <1>5, <2>2 DEF MayUse
  <2>4. Justified(c, conv, req, ctx, ch.route, ch.why)
    BY <2>2, <2>3 DEF Justified
  <2> QED
    BY <2>4 DEF ch
<1>6. CASE ~(RuleApplies(req) /\ PaidRule.route \in Candidates(req, ctx, TRUE))
  <2>1. ch = Expected(conv, scored)
    BY <1>2, <1>6 DEF ChooseF
  <2> HIDE DEF ch
  <2>2. CASE scored = {}
    <3>1. ch = [route |-> None, why |-> "none"]
      BY <2>1, <2>2 DEF Expected
    <3> QED
      BY <3>1 DEF ch
  <2>3. CASE scored # {}
    <3> HIDE DEF scored
    <3>1. /\ ch.why \in {"stay", "expected"}
          /\ \E own \in scored : own.route = ch.route /\ LeastBy(own, ch.why, scored)
      BY <1>3, <2>1, <2>3, ExpectedIsLeast
    <3> QED
      BY <1>3, <3>1 DEF Justified, MayUse, ch, scored
  <2> QED
    BY <2>2, <2>3
<1> QED
  BY <1>5, <1>6

\* Whatever the policy chooses, it may use, and can show why.
LEMMA ChoiceJustified ==
  ASSUME NEW c, IsSetup(c), NEW conv \in Conversation, NEW req \in Request, NEW ctx \in Context
  PROVE  LET ch == Choose(c, conv, req, ctx)
         IN  ch.route = None \/ Justified(c, conv, req, ctx, ch.route, ch.why)
<1> DEFINE ch == Choose(c, conv, req, ctx)
           pool == Candidates(req, ctx, FALSE)
<1>1. c.policy \in PolicyName
  BY DEF IsSetup
<1>2. c.policy \in {"A_static", "B_naive", "C_ev_switch"} => PlansAllowed(c.policy) = FALSE
  BY DEF PlansAllowed
<1>3. ASSUME NEW r, ch = [route |-> r, why |-> "policy"], r = None \/ MayUse(c, conv, req, ctx, r)
      PROVE  ch.route = None \/ Justified(c, conv, req, ctx, ch.route, ch.why)
  <2> HIDE DEF ch
  <2> QED
    BY <1>3 DEF Justified
<1>4. CASE c.policy = "A_static"
  <2>1. ch = [route |-> Strongest(pool, req.category), why |-> "policy"]
    BY <1>4 DEF Choose
  <2>2. pool \in SUBSET Names
    BY CandidatesRange
  <2> HIDE DEF ch, pool
  <2>3. Strongest(pool, req.category) = None \/ Strongest(pool, req.category) \in pool
    <3>1. CASE pool = {}
      BY <3>1 DEF Strongest
    <3>2. CASE pool # {}
      BY <2>2, <3>2, StrongestRange
    <3> QED
      BY <3>1, <3>2
  <2>4. Strongest(pool, req.category) = None \/ MayUse(c, conv, req, ctx, Strongest(pool, req.category))
    BY <1>2, <1>4, <2>3 DEF MayUse, pool
  <2> QED
    BY <1>3, <2>1, <2>4 DEF ch
<1>5. CASE c.policy = "B_naive"
  <2>1. ch = [route |-> Target(c, req, ctx, 8), why |-> "policy"]
    BY <1>5 DEF Choose
  <2> HIDE DEF ch
  <2>2. Target(c, req, ctx, 8) = None \/ MayUse(c, conv, req, ctx, Target(c, req, ctx, 8))
    BY <1>2, <1>5, TargetAllowed DEF MayUse
  <2> QED
    BY <1>3, <2>1, <2>2 DEF ch
<1>6. CASE c.policy = "C_ev_switch"
  <2> DEFINE t == Target(c, req, ctx, 8)
             r == ChooseC(c, conv, req, ctx)
  <2>1. ch = [route |-> r, why |-> "policy"]
    BY <1>6 DEF Choose
  <2>2. r = LeaveFor(c, conv, req, ctx, t)
    BY DEF ChooseC
  <2>3. t = None \/ t \in pool
    BY TargetAllowed
  <2> HIDE DEF ch, t, r, pool
  <2>4. r = t \/ (r = conv.current /\ conv.current \in ctx.routes)
    BY <2>2 DEF LeaveFor, Downgrade
  <2>5. r = None \/ MayUse(c, conv, req, ctx, r)
    BY <1>2, <1>6, <2>3, <2>4 DEF MayUse, pool
  <2> QED
    BY <1>3, <2>1, <2>5 DEF ch
<1>7. CASE c.policy \in {"D_escalate", "E_escalate_sub"}
  <2>1. ch = [route |-> ChooseDE(c, conv, req, ctx), why |-> "policy"]
    BY <1>7 DEF Choose
  <2> HIDE DEF ch
  <2>2. ChooseDE(c, conv, req, ctx) = None \/ MayUse(c, conv, req, ctx, ChooseDE(c, conv, req, ctx))
    BY ChooseDEAllowed DEF MayUse
  <2> QED
    BY <1>3, <2>1, <2>2 DEF ch
<1>8. CASE c.policy = "F_expected"
  <2>1. ch = ChooseF(c, conv, req, ctx)
    BY <1>8 DEF Choose
  <2> QED
    BY <1>8, <2>1, ChooseFJustified
<1> QED
  BY <1>1, <1>4, <1>5, <1>6, <1>7, <1>8 DEF PolicyName

LEMMA FirstOfScored ==
  ASSUME NEW usable \in SUBSET Scored, IsFiniteSet(usable), usable # {}
  PROVE  First(usable, LAMBDA o : o.value, Zero) \in usable
<1> DEFINE f == [o \in usable |-> o.value]
           h == [o \in usable |-> Zero(o)]
<1>1. f \in [usable -> Int] /\ h \in [usable -> Int]
  BY DEF Scored, Zero
<1>2. {<<f[o], h[o], o>> : o \in usable} = {<<o.value, Zero(o), o>> : o \in usable}
  OBVIOUS
<1> HIDE DEF f, h
<1>3. LeastKey({<<f[o], h[o], o>> : o \in usable})[3] \in usable
  BY <1>1, FirstIsLeast
<1> QED
  BY <1>2, <1>3 DEF First

LEMMA EvaluateTyped ==
  ASSUME NEW c, IsSetup(c), NEW conv \in Conversation, NEW req \in Request, NEW ctx \in Context
  PROVE  LET scored == Evaluate(c, conv, req, ctx)
         IN  /\ scored \subseteq Scored /\ IsFiniteSet(scored)
             /\ \A o \in scored : o.route \in Candidates(req, ctx, PlansAllowed(c.policy))
<1>1. RankDifficulty(c, conv, req) \in Int
  BY DifficultyIsNumber
<1> QED
  BY <1>1, RankedTyped DEF Evaluate

\* A choice that avoids a truncation is as justified as the one it replaces.
LEMMA AvoidJustified ==
  ASSUME NEW c, IsSetup(c), NEW conv \in Conversation, NEW req \in Request, NEW ctx \in Context,
         NEW choice, Justified(c, conv, req, ctx, choice.route, choice.why), NEW flagged
  PROVE  LET a == AvoidTruncation(c, conv, req, ctx, choice, flagged)
         IN  Justified(c, conv, req, ctx, a.route, a.why)
<1> DEFINE scored == Evaluate(c, conv, req, ctx)
           usable == LongEnough(scored, choice, req, flagged)
           a == AvoidTruncation(c, conv, req, ctx, choice, flagged)
<1>1. CASE choice.route \notin flagged \/ usable = {}
  <2>1. a = choice
    BY <1>1 DEF AvoidTruncation, Avoiding
  <2> QED
    BY <2>1
<1>2. CASE choice.route \in flagged /\ usable # {}
  <2> DEFINE first == First(usable, LAMBDA o : o.value, Zero)
  <2>1. a = [route |-> first.route, why |-> "avoid"]
    BY <1>2 DEF AvoidTruncation, Avoiding
  <2>2. /\ scored \subseteq Scored /\ IsFiniteSet(scored)
        /\ \A o \in scored : o.route \in Candidates(req, ctx, PlansAllowed(c.policy))
    BY EvaluateTyped
  <2>3. usable \subseteq scored
    BY DEF LongEnough
  <2> HIDE DEF scored, usable
  <2>4. IsFiniteSet(usable) /\ usable \in SUBSET Scored
    BY <2>2, <2>3, FS_Subset
  <2>5. first \in usable
    BY <1>2, <2>4, FirstOfScored
  <2> HIDE DEF first, a
  <2>6. a.why = "avoid" /\ a.route \in Candidates(req, ctx, PlansAllowed(c.policy))
    BY <2>1, <2>2, <2>3, <2>5
  <2>7. Justified(c, conv, req, ctx, a.route, a.why)
    BY <2>6 DEF Justified, MayUse
  <2> QED
    BY <2>7 DEF a
<1> QED
  BY <1>1, <1>2

\* What a failure leads to: nothing, the route that failed, or a candidate.
LEMMA OnFailureRange ==
  ASSUME NEW c, IsSetup(c), NEW conv \in Conversation, NEW req \in Request, NEW ctx \in Context,
         NEW failed, NEW tried
  PROVE  LET r == OnFailure(c, conv, req, ctx, failed, tried)
         IN  r = None \/ r = failed \/ r \in Candidates(req, ctx, PlansAllowed(c.policy))
<1> DEFINE pool == Candidates(req, ctx, PlansAllowed(c.policy))
           d == Most(EffectiveDifficulty(conv, req), req.difficulty)
           better == AboveFailed(pool \ tried, req, failed)
           r == OnFailure(c, conv, req, ctx, failed, tried)
<1>1. CASE c.policy = "A_static"
  BY <1>1 DEF OnFailure
<1>2. CASE c.policy # "A_static"
  <2>1. r = PerSuccess(c, conv, req, ctx, d, better)
    BY <1>2 DEF OnFailure
  <2>2. better \subseteq pool /\ pool \subseteq Names
    BY CandidatesRange DEF AboveFailed
  <2>3. d \in Int
    BY DifficultyIsNumber DEF Most, Request
  <2> HIDE DEF d, better, pool, r
  <2>4. CASE better = {}
    BY <2>1, <2>4 DEF PerSuccess, r
  <2>5. CASE better # {}
    <3> DEFINE f == [x \in better |-> (100 * CallCost(x, conv, req, ctx)) \div Most(Success(c, x, req, d), 1)]
               h == [x \in better |-> Zero(x)]
    <3>1. ASSUME NEW x \in better
          PROVE  (100 * CallCost(x, conv, req, ctx)) \div Most(Success(c, x, req, d), 1) \in Int
      <4>1. x \in Names
        BY <2>2
      <4>2. CallCost(x, conv, req, ctx) \in Int /\ Success(c, x, req, d) \in Int
        BY <2>3, <4>1, CallCostIsNumber, RouteSucceeds
      <4>3. Most(Success(c, x, req, d), 1) \in Int /\ Most(Success(c, x, req, d), 1) > 0
        BY <4>2 DEF Most
      <4> QED
        BY <4>2, <4>3
    <3>2. f \in [better -> Int] /\ h \in [better -> Int]
      BY <3>1 DEF Zero
    <3>3. {<<f[x], h[x], x>> : x \in better}
            = {<<(100 * CallCost(x, conv, req, ctx)) \div Most(Success(c, x, req, d), 1), Zero(x), x>> : x \in better}
      OBVIOUS
    <3> HIDE DEF f, h
    <3>4. IsFiniteSet(better)
      BY <2>2, PoolFinite
    <3>5. LeastKey({<<f[x], h[x], x>> : x \in better})[3] \in better
      BY <2>5, <3>2, <3>4, FirstIsLeast
    <3>6. r \in better
      BY <2>1, <2>5, <3>3, <3>5 DEF PerSuccess, First
    <3> QED
      BY <2>2, <3>6 DEF pool, r
  <2> QED
    BY <2>4, <2>5
<1> QED
  BY <1>1, <1>2

\* An operator's tier chooses among the candidates, or leaves the choice.
LEMMA TierRange ==
  ASSUME NEW c, NEW req \in Request, NEW ctx \in Context, NEW tier, NEW chosen
  PROVE  LET r == TierChoice(tier, req, ctx, chosen, c)
         IN  r = chosen \/ r \in Candidates(req, ctx, PlansAllowed(c.policy))
<1> DEFINE all == Candidates(req, ctx, PlansAllowed(c.policy))
           pool == {r \in all : Eligible(Model[r], req.vision, req.tools, req.prompt)}
           r == TierChoice(tier, req, ctx, chosen, c)
<1>1. r = TierIn(tier, req, ctx, chosen, pool)
  BY DEF TierChoice
<1>2. pool \subseteq all /\ pool \in SUBSET Names /\ IsFiniteSet(pool)
  BY CandidatesRange, PoolFinite
<1> HIDE DEF all, pool, r
<1>3. CASE pool = {} \/ (tier # "strong" /\ ~(req.difficulty < 7))
  BY <1>1, <1>3 DEF TierIn, r
<1>4. CASE pool # {} /\ tier = "strong"
  <2> DEFINE f == [x \in pool |-> -RawCap(x, req.category)]
             h == [x \in pool |-> Model[x].latency]
  <2>1. f \in [pool -> Int] /\ h \in [pool -> Int]
    BY <1>2, RouteNumbers
  <2>2. {<<f[x], h[x], x>> : x \in pool} = {<<-RawCap(x, req.category), Model[x].latency, x>> : x \in pool}
    OBVIOUS
  <2> HIDE DEF f, h
  <2>3. LeastKey({<<f[x], h[x], x>> : x \in pool})[3] \in pool
    BY <1>2, <1>4, <2>1, FirstIsLeast
  <2>4. r \in pool
    BY <1>1, <1>4, <2>2, <2>3 DEF TierIn, First
  <2> QED
    BY <1>2, <2>4 DEF all, r
<1>5. CASE pool # {} /\ tier # "strong" /\ req.difficulty < 7
  <2> DEFINE f == [x \in pool |-> ListPrice(Priced(Model[x], ctx))]
             h == [x \in pool |-> -RawCap(x, req.category)]
  <2>1. \A x \in Names : ListPrice(Priced(Model[x], ctx)) \in Int
    BY PricedIsBilled DEF ListPrice, Billed, Prices
  <2>2. f \in [pool -> Int] /\ h \in [pool -> Int]
    BY <1>2, <2>1, RouteNumbers
  <2>3. {<<f[x], h[x], x>> : x \in pool}
          = {<<ListPrice(Priced(Model[x], ctx)), -RawCap(x, req.category), x>> : x \in pool}
    OBVIOUS
  <2> HIDE DEF f, h
  <2>4. LeastKey({<<f[x], h[x], x>> : x \in pool})[3] \in pool
    BY <1>2, <1>5, <2>2, FirstIsLeast
  <2>5. r \in pool
    BY <1>1, <1>5, <2>3, <2>4 DEF TierIn, First
  <2> QED
    BY <1>2, <2>5 DEF all, r
<1> QED
  BY <1>3, <1>4, <1>5
----------------------------------------------------------------------------
(* What is asked *)

LEMMA RequestTyped ==
  ASSUME NEW ask, ask = None \/ IsAsk(ask), NEW prompt \in Nat, NEW stated \in Nat \cup {None},
         NEW now \in Int, NEW hasTools \in BOOLEAN
  PROVE  TurnRequest(ask, prompt, stated, now, hasTools) \in Request
<1> DEFINE req == TurnRequest(ask, prompt, stated, now, hasTools)
<1>0. Stakes[1] \in Nat /\ Stakes[2] \in Nat /\ Stakes[3] \in Nat /\ Stakes[4] \in Nat
  BY DEF Stakes
<1>1. CASE ask = None
  <2>1. /\ (IF hasTools THEN "agentic" ELSE "general") \in Category
        /\ (IF stated = None THEN 2 ELSE stated) \in Nat
    BY DEF Category
  <2>2. req =
          [category |-> IF hasTools THEN "agentic" ELSE "general", difficulty |-> 5,
           prompt |-> prompt, output |-> IF stated = None THEN 2 ELSE stated, now |-> now,
           steps |-> 1, growth |-> 2, tools |-> hasTools, vision |-> FALSE, followUp |-> 5,
           stakes |-> Stakes[3], detect |-> 6, remaining |-> 3, stated |-> stated]
    BY <1>1 DEF TurnRequest
  <2> HIDE DEF req
  <2> QED
    BY <1>0, <2>1, <2>2 DEF Request, req
<1>2. CASE ask # None
  <2> DEFINE agentic == hasTools /\ ask.tools
             output == IF agentic THEN 6 ELSE IF stated = None THEN 4 ELSE Least(stated, 4)
             steps == IF agentic THEN 3 ELSE 1
             detect == IF agentic THEN 8 ELSE 5
  <2>1. IsAsk(ask)
    BY <1>2
  <2>2. /\ ask.category \in Category /\ ask.difficulty \in Int /\ ask.followUp \in 0..10
        /\ ask.vision \in BOOLEAN /\ ask.stakes \in 1..4
    BY <2>1 DEF IsAsk
  <2>3. Stakes[ask.stakes] \in Nat
    BY <1>0, <2>2
  <2>4. output \in Nat /\ steps \in Nat /\ detect \in 0..10
    BY DEF Least
  <2>5. req =
          [category |-> ask.category, difficulty |-> ask.difficulty, prompt |-> prompt,
           output |-> output, now |-> now, steps |-> steps, growth |-> 2, tools |-> hasTools,
           vision |-> ask.vision, followUp |-> ask.followUp, stakes |-> Stakes[ask.stakes],
           detect |-> detect, remaining |-> 3, stated |-> stated]
    BY <1>2 DEF TurnRequest
  <2> HIDE DEF req, output, steps, detect, agentic
  <2> QED
    BY <2>2, <2>3, <2>4, <2>5 DEF Request, req
<1> QED
  BY <1>1, <1>2

LEMMA RequestVaried ==
  ASSUME NEW req \in Request
  PROVE  /\ \A d \in Int : [req EXCEPT !.difficulty = d, !.stakes = 200] \in Request
         /\ [req EXCEPT !.steps = 4, !.output = 8, !.remaining = 0] \in Request
<1>1. ASSUME NEW d \in Int PROVE [req EXCEPT !.difficulty = d, !.stakes = 200] \in Request
  <2> DEFINE harder == [req EXCEPT !.difficulty = d]
             costly == [harder EXCEPT !.stakes = 200]
  <2>1. harder \in Request
    BY DEF Request
  <2>2. [req EXCEPT !.difficulty = d, !.stakes = 200] = costly
    OBVIOUS
  <2> HIDE DEF harder
  <2>3. costly \in Request
    BY <2>1 DEF Request
  <2> HIDE DEF costly
  <2> QED
    BY <2>2, <2>3
<1>2. [req EXCEPT !.steps = 4, !.output = 8, !.remaining = 0] \in Request
  BY DEF Request
<1> QED
  BY <1>1, <1>2

LEMMA ColdTyped == Cold \in Conversation
BY DEF Cold, Conversation
----------------------------------------------------------------------------
(* The record of a decision *)

\* PlanWasOpen and RecordExplains, of a record made in state s.
OpenWhen(s, last) ==
  LET mine == Model[last.selection.selected].plan
      since == Most(0, last.at - QuotaTTL - Staleness)
  IN (last.selection.turnStart /\ last.selection.why # "force" /\ mine # None)
     => \E t \in since..last.at : Use(s, mine, t) < HardStop

Explained(last) ==
  LET made == last.selection
  IN made.why \in {"expected", "stay"}
     => \E own \in last.candidates : own[1] = made.selected /\ \A other \in last.candidates :
          100 * own[2] <= other[2] * (IF made.why = "stay" THEN 100 + Margin ELSE 100)

RecordSound(s, last) == OpenWhen(s, last) /\ Explained(last)

\* A plan the router believes open was read below its hard stop no longer
\* than the allowed staleness before the router read it.
Fresh(s) ==
  \A p \in PlanName : s.quota.plans[p].open =>
    \E t \in 0..s.quota.at : s.quota.at - t <= Staleness /\ Use(s, p, t) < HardStop

\* A policy that may not use plans is on none.
PlanFree(c, r) == ~PlansAllowed(c.policy) /\ r \in Names => Model[r].plan = None

LEMMA RouteHasPlanName ==
  ASSUME NEW r \in Names, Model[r].plan # None
  PROVE  Model[r].plan \in PlanName
BY DEF PlanName

LEMMA OpenLately ==
  ASSUME NEW s, s.now \in Nat, s.quota.at \in Int, s.quota.at <= s.now,
         s.now - s.quota.at <= QuotaTTL, Fresh(s), NEW p \in PlanName, s.quota.plans[p].open
  PROVE  \E t \in Most(0, s.now - QuotaTTL - Staleness)..s.now : Use(s, p, t) < HardStop
<1>1. PICK t \in 0..s.quota.at : s.quota.at - t <= Staleness /\ Use(s, p, t) < HardStop
  BY DEF Fresh
<1>2. t \in Int /\ 0 <= t /\ t <= s.now /\ s.now - QuotaTTL - Staleness <= t
  BY <1>1, RoutingNumbers
<1>3. t \in Most(0, s.now - QuotaTTL - Staleness)..s.now
  BY <1>2, RoutingNumbers DEF Most
<1> QED
  BY <1>1, <1>3

LEMMA RecordFields ==
  ASSUME NEW c, NEW conv, NEW req, NEW ctx, NEW r, NEW why, NEW ask, NEW turnStart
  PROVE  LET last == Explain(c, conv, req, ctx, r, why, ask, turnStart)
             listed == CandidateEvaluations(c, conv, req, ctx, r, turnStart)
         IN  /\ last.at = req.now /\ last.selection.selected = r /\ last.selection.why = why
             /\ last.selection.turnStart = turnStart
             /\ last.candidates = {<<o.route, o.value>> : o \in listed}
BY DEF Explain, Record, RouteSelection

\* The record of a justified choice is sound.
LEMMA RecordIsSound ==
  ASSUME NEW s, IsSetup(s.c), s.now \in Nat, s.quota.at \in Int, s.quota.at <= s.now,
         s.now - s.quota.at <= QuotaTTL, Fresh(s),
         NEW conv \in Conversation, PlanFree(s.c, conv.current),
         NEW req \in Request, req.now = s.now,
         NEW ctx \in Context, ctx.quota = s.quota.plans,
         NEW r, NEW why, Justified(s.c, conv, req, ctx, r, why), NEW ask
  PROVE  RecordSound(s, Explain(s.c, conv, req, ctx, r, why, ask, TRUE))
<1> DEFINE last == Explain(s.c, conv, req, ctx, r, why, ask, TRUE)
           scored == Evaluate(s.c, conv, req, ctx)
<1>1. /\ last.at = s.now /\ last.selection.selected = r /\ last.selection.why = why
      /\ last.selection.turnStart = TRUE
      /\ last.candidates = {<<o.route, o.value>> : o \in WithChosen(scored, r, req)}
  <2>1. CandidateEvaluations(s.c, conv, req, ctx, r, TRUE) = WithChosen(scored, r, req)
    BY DEF CandidateEvaluations
  <2>2. /\ last.at = req.now /\ last.selection.selected = r /\ last.selection.why = why
        /\ last.selection.turnStart = TRUE
        /\ last.candidates = {<<o.route, o.value>> : o \in CandidateEvaluations(s.c, conv, req, ctx, r, TRUE)}
    <3>1. last.selection.turnStart = TRUE
      BY DEF Explain, Record, RouteSelection
    <3>2. /\ last.at = req.now /\ last.selection.selected = r /\ last.selection.why = why
          /\ last.candidates = {<<o.route, o.value>> : o \in CandidateEvaluations(s.c, conv, req, ctx, r, TRUE)}
      BY DEF Explain, Record, RouteSelection
    <3> QED
      BY <3>1, <3>2
  <2> HIDE DEF last, scored
  <2> QED
    BY <2>1, <2>2
<1> HIDE DEF last
<1>2. OpenWhen(s, last)
  <2>1. SUFFICES ASSUME Model[r].plan # None
                 PROVE  \E t \in Most(0, s.now - QuotaTTL - Staleness)..s.now :
                          Use(s, Model[r].plan, t) < HardStop
    BY <1>1 DEF OpenWhen
  <2>2. r \in Names /\ ctx.quota[Model[r].plan].open
    <3>1. CASE r \in Candidates(req, ctx, PlansAllowed(s.c.policy))
      BY <2>1, <3>1, CandidatesRange
    <3>2. CASE s.c.policy = "C_ev_switch" /\ r = conv.current /\ r \in ctx.routes
      BY <2>1, <3>2 DEF PlanFree, PlansAllowed, Context
    <3> QED
      BY <3>1, <3>2 DEF Justified, MayUse
  <2> QED
    BY <2>1, <2>2, RouteHasPlanName, OpenLately
<1>3. Explained(last)
  <2> SUFFICES ASSUME why \in {"expected", "stay"}
               PROVE  \E own \in last.candidates : own[1] = r /\ \A other \in last.candidates :
                        100 * own[2] <= other[2] * (IF why = "stay" THEN 100 + Margin ELSE 100)
    BY <1>1 DEF Explained
  <2>1. PICK own \in scored : own.route = r /\ LeastBy(own, why, scored)
    BY DEF Justified
  <2> HIDE DEF scored
  <2>2. last.candidates = {<<o.route, o.value>> : o \in scored}
    BY <1>1, <2>1 DEF WithChosen
  <2>3. <<own.route, own.value>> \in last.candidates
    BY <2>1, <2>2
  <2>4. ASSUME NEW other \in last.candidates
        PROVE  100 * own.value <= other[2] * (IF why = "stay" THEN 100 + Margin ELSE 100)
    <3>1. PICK o \in scored : other = <<o.route, o.value>>
      BY <2>2
    <3> QED
      BY <2>1, <3>1 DEF LeastBy
  <2> QED
    BY <2>1, <2>3, <2>4
<1> QED
  BY <1>2, <1>3 DEF RecordSound, last

\* The two properties do not ask about an operator's own choice, nor about
\* the inside of a tool loop.
LEMMA ExemptRecords ==
  ASSUME NEW s, NEW c, NEW conv, NEW req, NEW ctx, NEW r, NEW ask
  PROVE  /\ RecordSound(s, Explain(c, conv, req, ctx, r, "loop", ask, FALSE))
         /\ RecordSound(s, Explain(c, conv, req, ctx, r, "force", ask, TRUE))
<1>1. ASSUME NEW why, NEW turnStart, why \notin {"expected", "stay"}, ~turnStart \/ why = "force"
      PROVE  RecordSound(s, Explain(c, conv, req, ctx, r, why, ask, turnStart))
  <2> DEFINE last == Explain(c, conv, req, ctx, r, why, ask, turnStart)
  <2>1. last.selection.why = why /\ last.selection.turnStart = turnStart
    BY RecordFields
  <2> HIDE DEF last
  <2>2. RecordSound(s, last)
    BY <1>1, <2>1 DEF RecordSound, OpenWhen, Explained
  <2> QED
    BY <2>2 DEF last
<1> QED
  BY <1>1
----------------------------------------------------------------------------
(* The invariant *)

Fields == {"c", "now", "turns", "conv", "calls", "last", "quota", "commands", "held"}

Call == [route : Names, at : Nat, prompt : Nat \ {0}]

\* What a command was last heard to say was measured at some time so far.
Heard(s) ==
  \A p \in PlanName :
    \/ s.commands[p] = None
    \/ s.commands[p].state = None
    \/ \E t \in 0..s.now : s.commands[p].state = QuotaState(s, p, t)

\* A provider holds what it was sent from the start of the call, for as long
\* as it says.
HeldFrom(s, r, at) == at <= s.now /\ s.held[r] >= at + Model[r].cache.ttl

CallsHeld(s) ==
  \A call \in s.calls :
    /\ call.at <= s.now
    /\ call.prompt >= Model[call.route].cache.min => HeldFrom(s, call.route, call.at)

WarmHeld(s) == \A r \in Names : s.conv.warm[r] # None => HeldFrom(s, r, s.conv.warm[r].at)

WithoutPlan(s) == PlanFree(s.c, s.conv.current) /\ \A call \in s.calls : PlanFree(s.c, call.route)

Typed(s) ==
  /\ DOMAIN s = Fields /\ s.c \in Setups /\ s.now \in Nat /\ s.conv \in Conversation
  /\ s.calls \subseteq Call /\ s.held \in [Names -> Int]
  /\ s.quota.at \in Int /\ s.quota.at <= s.now /\ s.quota.plans \in [PlanName -> Pacing]

Sound(s) ==
  /\ Typed(s) /\ Fresh(s) /\ Heard(s) /\ CallsHeld(s) /\ WarmHeld(s) /\ WithoutPlan(s)
  /\ s.last # None => RecordSound(s, s.last)

\* A state is only looked at through its setup where a record is judged.
LEMMA RecordTravels ==
  ASSUME NEW s, NEW u, u.c = s.c, NEW last, RecordSound(s, last)
  PROVE  RecordSound(u, last)
BY DEF RecordSound, OpenWhen, Use

LEMMA UseTravels ==
  ASSUME NEW s, NEW u, u.c = s.c, NEW p, NEW t
  PROVE  Use(u, p, t) = Use(s, p, t) /\ QuotaState(u, p, t) = QuotaState(s, p, t)
BY DEF Use, QuotaState

\* An open plan is one whose reading is recent enough and below the stop.
LEMMA DecidedOpen ==
  ASSUME NEW reading, NEW now \in Int, reading # None => reading.at \in Int /\ reading.used \in Int
                                                        /\ reading.resets \in Int
  PROVE  /\ Decide(reading, now) \in Pacing
         /\ Decide(reading, now).open =>
              reading # None /\ now - reading.at <= Staleness /\ reading.used < HardStop
<1>0. Closed \in Pacing /\ ~Closed.open
  BY DEF Closed, Pacing
<1>1. CASE \/ reading = None \/ now - reading.at > Staleness \/ reading.used >= HardStop
           \/ reading.session >= SessionStop
  BY <1>0, <1>1 DEF Decide
<1>2. CASE /\ reading # None /\ ~(now - reading.at > Staleness) /\ ~(reading.used >= HardStop)
           /\ ~(reading.session >= SessionStop)
  <2> DEFINE remaining == Most(0, reading.resets - now)
             elapsed == Most(1, Week - remaining)
             projected == (10 * reading.used * (elapsed + remaining)) \div elapsed
             reserve == IF remaining <= 2 THEN 85 ELSE 65
             slack == reserve - projected
             multiplier == IF slack >= 15 THEN 0 ELSE 10 - (10 * slack) \div 15
  <2>1. Decide(reading, now) = IF slack <= 0 THEN Closed ELSE [open |-> TRUE, multiplier |-> multiplier]
    BY <1>2 DEF Decide
  <2>2. remaining \in Int /\ elapsed \in Int /\ elapsed > 0
    BY <1>2 DEF Most, Week
  <2>3. projected \in Int
    <3>1. reading.used \in Int /\ elapsed + remaining \in Int
      BY <1>2, <2>2
    <3> HIDE DEF remaining, elapsed
    <3>2. 10 * reading.used * (elapsed + remaining) \in Int
      BY <3>1
    <3> QED
      BY <2>2, <3>2
  <2> HIDE DEF projected, remaining, elapsed
  <2>4. slack \in Int
    BY <2>3
  <2> HIDE DEF slack
  <2>5. slack > 0 => multiplier \in Nat
    BY <2>4
  <2> HIDE DEF multiplier
  <2>6. Decide(reading, now) \in Pacing
    BY <1>0, <2>1, <2>4, <2>5 DEF Pacing
  <2>7. now - reading.at <= Staleness /\ reading.used < HardStop
    BY <1>2, RoutingNumbers DEF HardStop
  <2> QED
    BY <1>2, <2>6, <2>7
<1> QED
  BY <1>1, <1>2

LEMMA StateReadable ==
  ASSUME NEW s, s.c \in Setups, NEW p \in PlanName, NEW t \in Int
  PROVE  LET q == QuotaState(s, p, t)
         IN  q.at = t /\ q.used = Use(s, p, t) /\ q.used \in Int /\ q.resets \in Int
BY RoutingNumbers DEF QuotaState, Use

\* Looking at the plans again keeps everything, and what is then believed of
\* them is no older than the router's own cache allows.
LEMMA RefreshedSound ==
  ASSUME NEW s, Sound(s), NEW said, said = None \/ said \in 0..s.now
  PROVE  LET u == Refreshed(s, said)
         IN  /\ Sound(u) /\ u.c = s.c /\ u.now = s.now /\ u.conv = s.conv
             /\ u.now - u.quota.at <= QuotaTTL
<1>1. CASE s.now - s.quota.at <= QuotaTTL
  BY <1>1 DEF Refreshed
<1>2. CASE ~(s.now - s.quota.at <= QuotaTTL)
  <2> DEFINE commands == Asked(s, said)
             plans == ReadQuota(s, commands)
             u == Refreshed(s, said)
  <2>0. /\ Typed(s) /\ Fresh(s) /\ Heard(s) /\ CallsHeld(s) /\ WarmHeld(s) /\ WithoutPlan(s)
        /\ s.last # None => RecordSound(s, s.last)
    BY DEF Sound
  <2>00. DOMAIN s = Fields /\ s.now \in Nat /\ s.c \in Setups
    BY <2>0 DEF Typed
  <2>1. u = [s EXCEPT !.commands = commands, !.quota = [at |-> s.now, plans |-> plans]]
    BY <1>2 DEF Refreshed, WithCommands
  <2>2. ASSUME NEW p \in PlanName
        PROVE  \/ commands[p].state = None
               \/ \E t \in 0..s.now : commands[p].state = QuotaState(s, p, t)
    <3>1. commands[p] =
            IF s.commands[p] # None /\ s.now - s.commands[p].at < CommandTTL THEN s.commands[p]
            ELSE [at |-> s.now, state |-> IF said = None THEN None ELSE QuotaState(s, p, said)]
      BY DEF Asked
    <3> HIDE DEF commands
    <3>2. CASE s.commands[p] # None /\ s.now - s.commands[p].at < CommandTTL
      BY <2>0, <3>1, <3>2 DEF Heard
    <3>3. CASE ~(s.commands[p] # None /\ s.now - s.commands[p].at < CommandTTL)
      <4>1. commands[p] = [at |-> s.now, state |-> IF said = None THEN None ELSE QuotaState(s, p, said)]
        BY <3>1, <3>3
      <4>2. commands[p].state = IF said = None THEN None ELSE QuotaState(s, p, said)
        BY <4>1
      <4> QED
        BY <4>2
    <3> QED
      BY <3>2, <3>3
  <2> HIDE DEF commands
  <2>3. ASSUME NEW p \in PlanName
        PROVE  /\ plans[p] \in Pacing
               /\ plans[p].open => \E t \in 0..s.now : s.now - t <= Staleness /\ Use(s, p, t) < HardStop
    <3> DEFINE reading == IF commands[p].state # None THEN commands[p].state ELSE BudgetFile(s, p)
    <3>1. plans[p] = Decide(reading, s.now)
      BY DEF ReadQuota, CommandKey
    <3>2. PICK t \in 0..s.now : reading = QuotaState(s, p, t)
      BY <2>2, <2>00 DEF BudgetFile
    <3> HIDE DEF reading, plans
    <3>3. reading.at = t /\ reading.used = Use(s, p, t) /\ reading.used \in Int /\ reading.resets \in Int
      BY <2>00, <3>2, StateReadable
    <3>4. reading.at \in Int /\ s.now \in Int
      BY <2>00, <3>3
    <3>5. /\ plans[p] \in Pacing
          /\ plans[p].open => s.now - reading.at <= Staleness /\ reading.used < HardStop
      BY <3>1, <3>3, <3>4, DecidedOpen
    <3> QED
      BY <3>3, <3>5
  <2>4. plans = [p \in PlanName |-> plans[p]]
    BY DEF ReadQuota
  <2> HIDE DEF plans
  <2>5. plans \in [PlanName -> Pacing]
    BY <2>3, <2>4
  <2> HIDE DEF u
  <2>6. /\ DOMAIN u = Fields /\ u.c = s.c /\ u.now = s.now /\ u.conv = s.conv /\ u.calls = s.calls
        /\ u.held = s.held /\ u.last = s.last /\ u.commands = commands
        /\ u.quota = [at |-> s.now, plans |-> plans]
    BY <2>1, <2>00 DEF Fields
  <2>7. u.quota.at = s.now /\ u.quota.plans = plans
    BY <2>6
  <2>8. Typed(u)
    BY <2>0, <2>5, <2>6, <2>7 DEF Typed
  <2>9. Fresh(u)
    BY <2>3, <2>6, <2>7, UseTravels DEF Fresh
  <2>10. Heard(u)
    BY <2>2, <2>6, UseTravels DEF Heard
  <2>11. CallsHeld(u) /\ WarmHeld(u) /\ WithoutPlan(u)
    BY <2>0, <2>6 DEF CallsHeld, WarmHeld, WithoutPlan, HeldFrom
  <2>12. u.last # None => RecordSound(u, u.last)
    BY <2>0, <2>6, RecordTravels
  <2>13. u.now - u.quota.at <= QuotaTTL
    BY <2>00, <2>6, <2>7, RoutingNumbers
  <2> QED
    BY <2>6, <2>8, <2>9, <2>10, <2>11, <2>12, <2>13 DEF Sound, u
<1> QED
  BY <1>1, <1>2

\* A call that starts, whatever its route was chosen for.
Begun(s, u, r, prompt) ==
  /\ DOMAIN u = Fields /\ u.c = s.c /\ u.now = s.now /\ u.quota = s.quota /\ u.commands = s.commands
  /\ u.conv \in Conversation /\ u.conv.warm = s.conv.warm /\ u.conv.current = s.conv.current
  /\ u.calls = s.calls \cup {[route |-> r, at |-> s.now, prompt |-> prompt]}
  /\ u.held = [s.held EXCEPT ![r] = IF prompt >= Model[r].cache.min THEN s.now + Model[r].cache.ttl
                                    ELSE s.held[r]]

LEMMA RouteCaches ==
  ASSUME NEW r \in Names
  PROVE  Model[r].cache.min \in Nat /\ Model[r].cache.ttl \in Nat
BY Models DEF IsModelInfo, CacheRules

LEMMA CallSound ==
  ASSUME NEW s, Sound(s), NEW r \in Names, PlanFree(s.c, r), NEW prompt \in Nat \ {0},
         NEW u, Begun(s, u, r, prompt), u.last # None => RecordSound(s, u.last)
  PROVE  Sound(u)
<1> DEFINE made == [route |-> r, at |-> s.now, prompt |-> prompt]
<1>0. Typed(s) /\ Fresh(s) /\ Heard(s) /\ CallsHeld(s) /\ WarmHeld(s) /\ WithoutPlan(s)
  BY DEF Sound
<1>1. s.now \in Nat /\ s.held \in [Names -> Int] /\ s.calls \subseteq Call /\ s.conv \in Conversation
  BY <1>0 DEF Typed
<1>2. /\ DOMAIN u = Fields /\ u.c = s.c /\ u.now = s.now /\ u.quota = s.quota /\ u.commands = s.commands
      /\ u.conv \in Conversation /\ u.conv.warm = s.conv.warm /\ u.conv.current = s.conv.current
      /\ u.calls = s.calls \cup {made}
      /\ u.held = [s.held EXCEPT ![r] = IF prompt >= Model[r].cache.min THEN s.now + Model[r].cache.ttl
                                        ELSE s.held[r]]
  BY DEF Begun
<1>3. made \in Call /\ made.route = r /\ made.at = s.now /\ made.prompt = prompt
  BY <1>1 DEF Call
<1> HIDE DEF made
<1>4. Model[r].cache.min \in Nat /\ Model[r].cache.ttl \in Nat
  BY RouteCaches
<1>5. /\ u.held[r] = (IF prompt >= Model[r].cache.min THEN s.now + Model[r].cache.ttl ELSE s.held[r])
      /\ \A x \in Names : x # r => u.held[x] = s.held[x]
      /\ u.held \in [Names -> Int]
  BY <1>1, <1>2, <1>4
<1>6. Typed(u)
  BY <1>0, <1>2, <1>3, <1>5 DEF Typed
<1>7. Fresh(u) /\ Heard(u)
  BY <1>0, <1>2, UseTravels DEF Fresh, Heard
<1>8. ASSUME NEW x \in Names, NEW at \in Int, HeldFrom(s, x, at)
      PROVE  HeldFrom(u, x, at)
  <2>1. Model[x].cache.ttl \in Nat /\ s.held[x] \in Int /\ at <= s.now
        /\ s.held[x] >= at + Model[x].cache.ttl
    BY <1>1, <1>8, RouteCaches DEF HeldFrom
  <2>2. u.held[x] >= at + Model[x].cache.ttl
    BY <1>1, <1>4, <1>5, <2>1
  <2> QED
    BY <1>2, <2>1, <2>2 DEF HeldFrom
<1>9. CallsHeld(u)
  <2> SUFFICES ASSUME NEW call \in u.calls
               PROVE  /\ call.at <= u.now
                      /\ call.prompt >= Model[call.route].cache.min => HeldFrom(u, call.route, call.at)
    BY DEF CallsHeld
  <2>1. CASE call \in s.calls
    <3>1. call.route \in Names /\ call.at \in Int
      BY <1>1, <2>1 DEF Call
    <3> QED
      BY <1>0, <1>2, <1>8, <2>1, <3>1 DEF CallsHeld
  <2>2. CASE call = made
    BY <1>1, <1>2, <1>3, <1>4, <1>5, <2>2 DEF HeldFrom
  <2> QED
    BY <1>2, <2>1, <2>2
<1>10. WarmHeld(u)
  <2> SUFFICES ASSUME NEW x \in Names, u.conv.warm[x] # None
               PROVE  HeldFrom(u, x, u.conv.warm[x].at)
    BY DEF WarmHeld
  <2>1. s.conv.warm[x] \in Warmth \cup {None} /\ u.conv.warm[x] = s.conv.warm[x]
    BY <1>1, <1>2 DEF Conversation
  <2>2. s.conv.warm[x].at \in Int
    BY <2>1 DEF Warmth
  <2> QED
    BY <1>0, <1>8, <2>1, <2>2 DEF WarmHeld
<1>11. WithoutPlan(u)
  BY <1>0, <1>2, <1>3 DEF WithoutPlan
<1>12. u.last # None => RecordSound(u, u.last)
  BY <1>2, RecordTravels
<1> QED
  BY <1>6, <1>7, <1>9, <1>10, <1>11, <1>12 DEF Sound

\* What is justified may be called: it is a route, and none of a plan's
\* where the policy may not use plans.
LEMMA JustifiedCallable ==
  ASSUME NEW c, NEW conv, PlanFree(c, conv.current), NEW req, NEW ctx \in Context, NEW r,
         MayUse(c, conv, req, ctx, r)
  PROVE  r \in Names /\ PlanFree(c, r)
<1>1. CASE r \in Candidates(req, ctx, PlansAllowed(c.policy))
  BY <1>1, CandidatesRange DEF PlanFree
<1>2. CASE c.policy = "C_ev_switch" /\ r = conv.current /\ r \in ctx.routes
  BY <1>2 DEF Context
<1> QED
  BY <1>1, <1>2 DEF MayUse

----------------------------------------------------------------------------
(* The steps *)

\* A decision that calls nothing.
LEMMA DecisionSound ==
  ASSUME NEW s, Sound(s), NEW u, DOMAIN u = Fields, u.c = s.c, u.now = s.now, u.conv = s.conv,
         u.calls = s.calls, u.quota = s.quota, u.commands = s.commands, u.held = s.held,
         u.last # None => RecordSound(s, u.last)
  PROVE  Sound(u)
<1>1. Typed(s) /\ Fresh(s) /\ Heard(s) /\ CallsHeld(s) /\ WarmHeld(s) /\ WithoutPlan(s)
  BY DEF Sound
<1>2. Typed(u)
  BY <1>1 DEF Typed
<1>3. Fresh(u) /\ Heard(u)
  BY <1>1, UseTravels DEF Fresh, Heard
<1>4. CallsHeld(u) /\ WarmHeld(u) /\ WithoutPlan(u)
  BY <1>1 DEF CallsHeld, WarmHeld, WithoutPlan, HeldFrom
<1>5. u.last # None => RecordSound(u, u.last)
  BY RecordTravels
<1> QED
  BY <1>2, <1>3, <1>4, <1>5 DEF Sound

LEMMA CalledFields ==
  ASSUME NEW s, Typed(s), NEW r \in Names, NEW prompt
  PROVE  LET u == Called(s, r, prompt)
         IN  /\ DOMAIN u = Fields /\ u.c = s.c /\ u.now = s.now /\ u.conv = s.conv
             /\ u.quota = s.quota /\ u.commands = s.commands
             /\ u.calls = s.calls \cup {[route |-> r, at |-> s.now, prompt |-> prompt]}
             /\ u.held = [s.held EXCEPT ![r] = IF prompt >= Model[r].cache.min
                                               THEN s.now + Model[r].cache.ttl ELSE s.held[r]]
<1>1. DOMAIN s = Fields
  BY DEF Typed
<1> QED
  BY <1>1 DEF Called, Fields

LEMMA UserTurnSound ==
  ASSUME NEW s, Sound(s), s.now - s.quota.at <= QuotaTTL, NEW t, IsTurn(t),
         NEW ctx \in Context, ctx.quota = s.quota.plans
  PROVE  Sound(UserTurn(s, t, ctx))
<1> DEFINE req == TurnRequest(t.ask, t.prompt, t.stated, s.now, t.tools)
           choice == Choose(s.c, s.conv, req, ctx)
           flagged == IF t.cut THEN {choice.route} ELSE {}
           final == AvoidTruncation(s.c, s.conv, req, ctx, choice, flagged)
           u == UserTurn(s, t, ctx)
<1>0. /\ Typed(s) /\ Fresh(s) /\ IsSetup(s.c) /\ s.now \in Nat /\ s.conv \in Conversation
      /\ s.quota.at \in Int /\ s.quota.at <= s.now /\ PlanFree(s.c, s.conv.current)
      /\ DOMAIN s = Fields
  BY SetupsTyped DEF Sound, Typed, WithoutPlan
<1>1. req \in Request /\ req.now = s.now /\ t.prompt \in Nat \ {0}
  <2>1. /\ t.ask = None \/ IsAsk(t.ask)
        /\ t.prompt \in Nat \ {0} /\ t.stated \in Nat \cup {None} /\ t.tools \in BOOLEAN
    BY DEF IsTurn
  <2>2. req \in Request
    <3>1. s.now \in Int /\ t.prompt \in Nat
      BY <1>0, <2>1
    <3> QED
      BY <2>1, <3>1, RequestTyped, Zenon
  <2>3. req.now = s.now
    BY DEF TurnRequest
  <2> QED
    BY <2>1, <2>2, <2>3
<1>2. u = IF choice.route = None THEN [s EXCEPT !.turns = s.turns + 1, !.last = None]
          ELSE Final(s, t, ctx, req, final)
  BY DEF UserTurn, Routed, Chosen
<1> HIDE DEF req
<1>3. choice.route = None \/ Justified(s.c, s.conv, req, ctx, choice.route, choice.why)
  BY <1>0, <1>1, ChoiceJustified
<1> HIDE DEF choice, flagged, u
<1>4. CASE choice.route = None
  <2>1. u = [s EXCEPT !.turns = s.turns + 1, !.last = None]
    BY <1>2, <1>4
  <2>2. /\ DOMAIN u = Fields /\ u.c = s.c /\ u.now = s.now /\ u.conv = s.conv /\ u.calls = s.calls
        /\ u.quota = s.quota /\ u.commands = s.commands /\ u.held = s.held /\ u.last = None
    BY <1>0, <2>1 DEF Fields
  <2>3. Sound(u)
    BY <2>2, DecisionSound
  <2> QED
    BY <2>3 DEF u
<1>5. CASE choice.route # None
  <2> DEFINE record == Explain(s.c, s.conv, req, ctx, final.route, final.why, t.ask, TRUE)
             called == Called(s, final.route, t.prompt)
  <2>1. Justified(s.c, s.conv, req, ctx, final.route, final.why)
    BY <1>0, <1>1, <1>3, <1>5, AvoidJustified
  <2>2. u = [called EXCEPT !.last = record]
    BY <1>2, <1>5 DEF Final
  <2> HIDE DEF final
  <2>3. final.route \in Names /\ PlanFree(s.c, final.route)
    BY <1>0, <2>1, JustifiedCallable DEF Justified
  <2>4. RecordSound(s, record)
    BY <1>0, <1>1, <2>1, RecordIsSound
  <2>5. /\ DOMAIN called = Fields /\ called.c = s.c /\ called.now = s.now /\ called.conv = s.conv
        /\ called.quota = s.quota /\ called.commands = s.commands
        /\ called.calls = s.calls \cup {[route |-> final.route, at |-> s.now, prompt |-> t.prompt]}
        /\ called.held = [s.held EXCEPT ![final.route] =
                            IF t.prompt >= Model[final.route].cache.min
                            THEN s.now + Model[final.route].cache.ttl ELSE s.held[final.route]]
    BY <1>0, <2>3, CalledFields
  <2> HIDE DEF record, called
  <2>6. /\ DOMAIN u = Fields /\ u.c = called.c /\ u.now = called.now /\ u.conv = called.conv
        /\ u.quota = called.quota /\ u.commands = called.commands /\ u.calls = called.calls
        /\ u.held = called.held /\ u.last = record
    BY <2>2, <2>5 DEF Fields
  <2>7. Begun(s, u, final.route, t.prompt)
    BY <1>0, <2>5, <2>6 DEF Begun
  <2>8. Sound(u)
    BY <1>1, <2>3, <2>4, <2>6, <2>7, CallSound
  <2> QED
    BY <2>8 DEF u
<1> QED
  BY <1>4, <1>5

LEMMA RaisedTyped ==
  ASSUME NEW c, IsSetup(c), NEW conv \in Conversation, NEW req \in Request, NEW failed \in Names
  PROVE  LET raised == Raised(c, conv, req, failed)
         IN raised \in Conversation /\ raised.warm = conv.warm /\ raised.current = conv.current
<1> DEFINE m == Model[failed]
           d == DifficultyAt(c.success, m, req.category)
           raised == Raised(c, conv, req, failed)
<1>1. Cap(m, req.category, c.success.discount) \in Int
  BY Models, CapIsNumber DEF IsSetup, IsSuccess
<1>2. c.success.offset \in Int /\ c.success.slope \in Nat \ {0}
  BY DEF IsSetup, IsSuccess
<1>3. d \in Int
  <2>1. (Cap(m, req.category, c.success.discount) - c.success.offset) \div c.success.slope \in Int
    BY <1>1, <1>2
  <2> QED
    BY <2>1 DEF DifficultyAt, Within, Most, Least
<1>4. conv.floor \in Int /\ req.difficulty \in Int /\ req.now \in Int
  BY DEF Conversation, Request
<1> DEFINE floor == Most(conv.floor, Most(d, req.difficulty))
<1>5. floor \in Int
  BY <1>3, <1>4 DEF Most
<1>6. raised = IF Remembers(c.policy) THEN [conv EXCEPT !.floor = floor, !.floorAt = req.now] ELSE conv
  BY DEF Raised
<1> HIDE DEF d, floor, raised
<1>7. raised \in Conversation /\ raised.warm = conv.warm /\ raised.current = conv.current
  BY <1>4, <1>5, <1>6 DEF Conversation
<1> QED
  BY <1>7 DEF raised

LEMMA InLoopSound ==
  ASSUME NEW s, Sound(s), NEW t, IsTurn(t), NEW ctx \in Context, s.conv.current \in ctx.routes
  PROVE  Sound(InLoop(s, t, ctx))
<1> DEFINE plain == TurnRequest(None, t.prompt, t.stated, s.now, TRUE)
           req == [plain EXCEPT !.difficulty = s.conv.floor, !.stakes = 200]
           old == s.conv.current
           raised == Raised(s.c, s.conv, req, old)
           next == OnFailure(s.c, raised, req, ctx, old, {old})
           conv == IF t.errors THEN raised ELSE s.conv
           r == IF t.errors /\ next # None THEN next ELSE old
           called == Called(s, r, t.prompt)
           record == Explain(s.c, conv, req, ctx, r, "loop", None, FALSE)
           u == InLoop(s, t, ctx)
<1>0. /\ Typed(s) /\ IsSetup(s.c) /\ s.now \in Nat /\ s.conv \in Conversation
      /\ PlanFree(s.c, old) /\ DOMAIN s = Fields
  BY SetupsTyped DEF Sound, Typed, WithoutPlan
<1>1. req \in Request /\ t.prompt \in Nat \ {0}
  <2>1. t.prompt \in Nat \ {0} /\ t.stated \in Nat \cup {None}
    BY DEF IsTurn
  <2>2. plain \in Request
    <3>1. s.now \in Int /\ t.prompt \in Nat
      BY <1>0, <2>1
    <3> QED
      BY <2>1, <3>1, RequestTyped, Zenon
  <2>3. s.conv.floor \in Int
    BY <1>0 DEF Conversation
  <2> HIDE DEF plain
  <2> QED
    BY <2>1, <2>2, <2>3, RequestVaried
<1>2. old \in Names
  BY DEF Context
<1>3. u = [called EXCEPT !.conv = conv, !.last = record]
  <2>1. CASE t.errors /\ next # None
    BY <2>1 DEF InLoop, InTurn, Staying, Failing, Looped
  <2>2. CASE t.errors /\ next = None
    BY <2>2 DEF InLoop, InTurn, Staying, Failing, Looped
  <2>3. CASE ~t.errors
    BY <2>3 DEF InLoop, InTurn, Staying, Looped
  <2> QED
    BY <2>1, <2>2, <2>3
<1> HIDE DEF u, req
<1>4. raised \in Conversation /\ raised.warm = s.conv.warm /\ raised.current = old
  BY <1>0, <1>1, <1>2, RaisedTyped
<1> HIDE DEF raised
<1>5. conv \in Conversation /\ conv.warm = s.conv.warm /\ conv.current = old
  BY <1>0, <1>4
<1>6. r \in Names /\ PlanFree(s.c, r)
  <2>1. next = None \/ next = old \/ next \in Candidates(req, ctx, PlansAllowed(s.c.policy))
    BY <1>0, <1>1, <1>4, OnFailureRange
  <2> HIDE DEF next
  <2>2. CASE r = old
    BY <1>0, <1>2, <2>2
  <2>3. CASE r \in Candidates(req, ctx, PlansAllowed(s.c.policy))
    BY <1>0, <2>3, JustifiedCallable DEF MayUse
  <2> QED
    BY <2>1, <2>2, <2>3
<1> HIDE DEF r, conv, next
<1>7. RecordSound(s, record)
  BY ExemptRecords
<1>8. /\ DOMAIN called = Fields /\ called.c = s.c /\ called.now = s.now /\ called.conv = s.conv
      /\ called.quota = s.quota /\ called.commands = s.commands
      /\ called.calls = s.calls \cup {[route |-> r, at |-> s.now, prompt |-> t.prompt]}
      /\ called.held = [s.held EXCEPT ![r] = IF t.prompt >= Model[r].cache.min
                                             THEN s.now + Model[r].cache.ttl ELSE s.held[r]]
  BY <1>0, <1>6, CalledFields
<1> HIDE DEF record, called
<1>9. /\ DOMAIN u = Fields /\ u.c = called.c /\ u.now = called.now /\ u.conv = conv
      /\ u.quota = called.quota /\ u.commands = called.commands /\ u.calls = called.calls
      /\ u.held = called.held /\ u.last = record
  BY <1>3, <1>8 DEF Fields
<1>10. Begun(s, u, r, t.prompt)
  BY <1>5, <1>8, <1>9 DEF Begun
<1>11. Sound(u)
  BY <1>1, <1>6, <1>7, <1>9, <1>10, CallSound
<1> QED
  BY <1>11 DEF u

LEMMA TurnSound ==
  ASSUME NEW s, Sound(s), s.now - s.quota.at <= QuotaTTL, NEW t, IsTurn(t)
  PROVE  Sound(WithPlans(s, t))
<1> DEFINE ctx == [routes |-> Offered(t.exclude), quota |-> s.quota.plans]
<1>1. ctx \in Context /\ ctx.quota = s.quota.plans
  BY DEF Sound, Typed, Context, Offered
<1>2. WithPlans(s, t) = Sent(s, t, ctx)
  BY DEF WithPlans
<1> HIDE DEF ctx
<1>3. CASE t.continues /\ s.conv.current \in ctx.routes
  BY <1>1, <1>2, <1>3, InLoopSound DEF Sent
<1>4. CASE ~(t.continues /\ s.conv.current \in ctx.routes)
  BY <1>1, <1>2, <1>4, UserTurnSound DEF Sent
<1> QED
  BY <1>3, <1>4

LEMMA JobSound ==
  ASSUME NEW s, Sound(s), s.now - s.quota.at <= QuotaTTL, s.now = g.now, NEW j, IsJob(j)
  PROVE  Sound(JobIn(s, j))
<1> DEFINE plain == TurnRequest(j.ask, j.prompt, None, g.now, TRUE)
           req == [plain EXCEPT !.steps = 4, !.output = 8, !.remaining = 0]
           ctx == [routes |-> j.only, quota |-> s.quota.plans]
           chosen == Choose(s.c, Cold, req, ctx)
           r == IF j.force # None THEN j.force
                ELSE IF j.tier = "auto" THEN chosen.route
                ELSE TierChoice(j.tier, req, ctx, chosen.route, s.c)
           why == IF r = chosen.route THEN chosen.why ELSE IF j.force # None THEN "force" ELSE "tier"
           last == JobRouted(s, j, req, ctx)
           u == JobIn(s, j)
<1>0. /\ Typed(s) /\ Fresh(s) /\ IsSetup(s.c) /\ s.now \in Nat /\ DOMAIN s = Fields
      /\ s.quota.at \in Int /\ s.quota.at <= s.now
  BY SetupsTyped DEF Sound, Typed
<1>1. req \in Request /\ req.now = s.now
  <2>1. (j.ask = None \/ IsAsk(j.ask)) /\ j.prompt \in Nat \ {0}
    BY DEF IsJob
  <2>2. plain \in Request
    <3>1. g.now \in Int /\ j.prompt \in Nat /\ None \in Nat \cup {None} /\ TRUE \in BOOLEAN
      BY <1>0, <2>1
    <3> QED
      BY <2>1, <3>1, RequestTyped, Zenon
  <2>3. plain.now = s.now
    BY DEF TurnRequest
  <2> HIDE DEF plain
  <2>4. req \in Request
    BY <2>2, RequestVaried
  <2>5. req.now = s.now
    BY <2>2, <2>3 DEF Request
  <2> QED
    BY <2>4, <2>5
<1>2. ctx \in Context /\ ctx.quota = s.quota.plans
  BY <1>0 DEF Typed, Context, IsJob
<1>3. Cold \in Conversation /\ PlanFree(s.c, Cold.current)
  BY ColdTyped, Models DEF Cold, PlanFree
<1>4. u = [s EXCEPT !.turns = s.turns + 1, !.last = last]
  BY DEF JobIn
<1>5. last = IF chosen.route = None THEN None ELSE Explain(s.c, Cold, req, ctx, r, why, j.ask, TRUE)
  BY DEF JobRouted, JobChosen, JobExplained
<1> HIDE DEF req, ctx, u, last
<1>6. ASSUME chosen.route # None
      PROVE  RecordSound(s, Explain(s.c, Cold, req, ctx, r, why, j.ask, TRUE))
  <2>1. Justified(s.c, Cold, req, ctx, chosen.route, chosen.why)
    BY <1>0, <1>1, <1>2, <1>3, <1>6, ChoiceJustified
  <2> HIDE DEF chosen
  <2>2. CASE r = chosen.route
    <3>1. why = chosen.why
      BY <2>2
    <3> HIDE DEF why, r
    <3>2. Justified(s.c, Cold, req, ctx, r, why)
      BY <2>1, <2>2, <3>1
    <3> QED
      BY <1>0, <1>1, <1>2, <1>3, <3>2, RecordIsSound
  <2>3. CASE r # chosen.route /\ j.force # None
    <3>1. why = "force"
      BY <2>3
    <3> QED
      BY <3>1, ExemptRecords
  <2>4. CASE r # chosen.route /\ j.force = None
    <3>1. why = "tier"
      BY <2>4
    <3>2. r = TierChoice(j.tier, req, ctx, chosen.route, s.c)
      BY <2>4
    <3> HIDE DEF why, r
    <3>3. r \in Candidates(req, ctx, PlansAllowed(s.c.policy))
      BY <1>1, <1>2, <2>4, <3>2, TierRange
    <3>4. Justified(s.c, Cold, req, ctx, r, why)
      BY <3>1, <3>3 DEF Justified, MayUse
    <3> QED
      BY <1>0, <1>1, <1>2, <1>3, <3>4, RecordIsSound
  <2> QED
    BY <2>2, <2>3, <2>4
<1> HIDE DEF r, why, chosen
<1>7. last # None => RecordSound(s, last)
  BY <1>5, <1>6
<1>8. /\ DOMAIN u = Fields /\ u.c = s.c /\ u.now = s.now /\ u.conv = s.conv /\ u.calls = s.calls
      /\ u.quota = s.quota /\ u.commands = s.commands /\ u.held = s.held /\ u.last = last
  BY <1>0, <1>4 DEF Fields
<1>9. Sound(u)
  BY <1>7, <1>8, DecisionSound
<1> QED
  BY <1>9 DEF u

\* Whichever way usage is reported, it adds up to what was sent.
LEMMA ReportedTokens ==
  ASSUME NEW call \in Call
  PROVE  LET usage == Reported(call)
             tokens == IF TotalInput(usage) = 0 THEN call.prompt ELSE TotalInput(usage)
         IN tokens = call.prompt /\ usage.output \in Int
<1>1. call.prompt \in Nat \ {0}
  BY DEF Call
<1>2. CASE Model[call.route].plan = None
  <2>1. Reported(call) = [uncached |-> Most(0, call.prompt - 1 - 0), read |-> 1, written |-> 0, output |-> 2]
    BY <1>2 DEF Reported, OpenAIUsage
  <2>2. TotalInput(Reported(call)) = call.prompt
    BY <1>1, <2>1 DEF TotalInput, Most
  <2> QED
    BY <2>1, <2>2
<1>3. CASE Model[call.route].plan # None
  <2>1. Reported(call) = [uncached |-> 0, read |-> 0, written |-> 0, output |-> 0]
    BY <1>3 DEF Reported, AnthropicUsage
  <2>2. TotalInput(Reported(call)) = 0
    BY <2>1 DEF TotalInput
  <2> QED
    BY <2>1, <2>2
<1> QED
  BY <1>2, <1>3

LEMMA CallEndSound ==
  ASSUME Sound(g), NEW call \in g.calls, NEW answered \in BOOLEAN, CallEnds(call, answered)
  PROVE  Sound(g')
<1> DEFINE usage == Reported(call)
           tokens == IF TotalInput(usage) = 0 THEN call.prompt ELSE TotalInput(usage)
           warm == tokens >= Model[call.route].cache.min /\ Model[call.route].cache.ttl > 0
           entry == IF warm THEN [tokens |-> tokens + usage.output, at |-> call.at]
                    ELSE g.conv.warm[call.route]
           conv == [g.conv EXCEPT !.current = call.route, !.warm[call.route] = entry]
<1>0. Typed(g) /\ Fresh(g) /\ Heard(g) /\ CallsHeld(g) /\ WarmHeld(g) /\ WithoutPlan(g)
  BY DEF Sound
<1>1. g.now \in Nat /\ g.calls \subseteq Call /\ g.conv \in Conversation /\ DOMAIN g = Fields
  BY <1>0 DEF Typed
<1>2. call \in Call /\ call.route \in Names /\ call.at \in Nat /\ call.prompt \in Nat
  BY <1>1 DEF Call
<1>3. g' = [g EXCEPT !.calls = g.calls \ {call}, !.conv = IF answered THEN conv ELSE g.conv]
  BY DEF CallEnds, RecordCall
<1>4. tokens = call.prompt /\ usage.output \in Int
  BY <1>2, ReportedTokens
<1> HIDE DEF tokens, usage
<1>5. entry \in Warmth \cup {None}
  <2>1. g.conv.warm[call.route] \in Warmth \cup {None}
    BY <1>1, <1>2 DEF Conversation
  <2>2. tokens + usage.output \in Int
    BY <1>2, <1>4
  <2> QED
    BY <1>2, <2>1, <2>2 DEF Warmth
<1>6. entry # None => HeldFrom(g, call.route, entry.at)
  <2>1. CASE warm
    <3>1. entry.at = call.at
      BY <2>1
    <3> QED
      BY <1>0, <1>4, <2>1, <3>1 DEF CallsHeld
  <2>2. CASE ~warm
    BY <1>0, <1>2, <2>2 DEF WarmHeld
  <2> QED
    BY <2>1, <2>2
<1> HIDE DEF entry
<1>7. /\ conv \in Conversation /\ conv.current = call.route /\ conv.warm[call.route] = entry
      /\ \A x \in Names : x # call.route => conv.warm[x] = g.conv.warm[x]
  BY <1>1, <1>2, <1>5 DEF Conversation
<1> HIDE DEF conv
<1>8. /\ DOMAIN g' = Fields /\ g'.c = g.c /\ g'.now = g.now /\ g'.calls = g.calls \ {call}
      /\ g'.conv = (IF answered THEN conv ELSE g.conv) /\ g'.quota = g.quota
      /\ g'.commands = g.commands /\ g'.held = g.held /\ g'.last = g.last
  BY <1>1, <1>3 DEF Fields
<1>9. Typed(g')
  BY <1>0, <1>7, <1>8 DEF Typed
<1>10. Fresh(g') /\ Heard(g')
  BY <1>0, <1>8, UseTravels DEF Fresh, Heard
<1>11. CallsHeld(g')
  BY <1>0, <1>8 DEF CallsHeld, HeldFrom
<1>12. WarmHeld(g')
  <2> SUFFICES ASSUME NEW x \in Names, g'.conv.warm[x] # None
               PROVE  HeldFrom(g, x, g'.conv.warm[x].at)
    BY <1>8 DEF WarmHeld, HeldFrom
  <2>1. CASE ~answered
    BY <1>0, <1>8, <2>1 DEF WarmHeld
  <2>2. CASE answered /\ x = call.route
    BY <1>6, <1>7, <1>8, <2>2
  <2>3. CASE answered /\ x # call.route
    BY <1>0, <1>7, <1>8, <2>3 DEF WarmHeld
  <2> QED
    BY <2>1, <2>2, <2>3
<1>13. WithoutPlan(g')
  BY <1>0, <1>7, <1>8 DEF WithoutPlan
<1>14. g'.last # None => RecordSound(g', g'.last)
  BY <1>8, RecordTravels DEF Sound
<1> QED
  BY <1>9, <1>10, <1>11, <1>12, <1>13, <1>14 DEF Sound

LEMMA TickSound ==
  ASSUME Sound(g), Tick
  PROVE  Sound(g')
<1>0. Typed(g) /\ Fresh(g) /\ Heard(g) /\ CallsHeld(g) /\ WarmHeld(g) /\ WithoutPlan(g)
  BY DEF Sound
<1>1. g.now \in Nat /\ DOMAIN g = Fields
  BY <1>0 DEF Typed
<1>2. /\ DOMAIN g' = Fields /\ g'.c = g.c /\ g'.now = g.now + 1 /\ g'.calls = g.calls
      /\ g'.conv = g.conv /\ g'.quota = g.quota /\ g'.commands = g.commands
      /\ g'.held = g.held /\ g'.last = g.last
  BY <1>1 DEF Tick, Fields
<1>3. Typed(g')
  BY <1>0, <1>1, <1>2 DEF Typed
<1>4. Fresh(g')
  BY <1>0, <1>2, UseTravels DEF Fresh
<1>5. Heard(g')
  <2> SUFFICES ASSUME NEW p \in PlanName, g.commands[p] # None, g.commands[p].state # None
               PROVE  \E t \in 0..g'.now : g.commands[p].state = QuotaState(g', p, t)
    BY <1>2 DEF Heard
  <2>1. PICK t \in 0..g.now : g.commands[p].state = QuotaState(g, p, t)
    BY <1>0 DEF Heard
  <2>2. t \in 0..g'.now
    BY <1>1, <1>2, <2>1
  <2> QED
    BY <1>2, <2>1, <2>2, UseTravels
<1>6. \A x \in Names, at \in Int : HeldFrom(g, x, at) => HeldFrom(g', x, at)
  BY <1>1, <1>2 DEF HeldFrom
<1>7. CallsHeld(g')
  <2> SUFFICES ASSUME NEW call \in g.calls
               PROVE  /\ call.at <= g'.now
                      /\ call.prompt >= Model[call.route].cache.min => HeldFrom(g', call.route, call.at)
    BY <1>2 DEF CallsHeld
  <2>1. call.route \in Names /\ call.at \in Nat
    BY <1>0 DEF Typed, Call
  <2>2. /\ call.at <= g.now
        /\ call.prompt >= Model[call.route].cache.min => HeldFrom(g, call.route, call.at)
    BY <1>0 DEF CallsHeld
  <2> QED
    BY <1>1, <1>2, <1>6, <2>1, <2>2
<1>8. WarmHeld(g')
  <2> SUFFICES ASSUME NEW x \in Names, g.conv.warm[x] # None
               PROVE  HeldFrom(g', x, g.conv.warm[x].at)
    BY <1>2 DEF WarmHeld
  <2>1. g.conv.warm[x].at \in Int
    BY <1>0 DEF Typed, Conversation, Warmth
  <2> QED
    BY <1>0, <1>6, <2>1 DEF WarmHeld
<1>9. WithoutPlan(g')
  BY <1>0, <1>2 DEF WithoutPlan
<1>10. g'.last # None => RecordSound(g', g'.last)
  BY <1>2, RecordTravels DEF Sound
<1> QED
  BY <1>3, <1>4, <1>5, <1>7, <1>8, <1>9, <1>10 DEF Sound

LEMMA StartSound ==
  ASSUME NEW setup \in Setups
  PROVE  Sound(RoutingStart(setup))
<1> DEFINE s == RoutingStart(setup)
<1>1. /\ DOMAIN s = Fields /\ s.c = setup /\ s.now = 0 /\ s.conv = Cold /\ s.calls = {}
      /\ s.last = None /\ s.commands = [p \in PlanName |-> None]
      /\ s.held = [r \in Names |-> -1]
      /\ s.quota = [at |-> -100, plans |-> [p \in PlanName |-> Closed]]
  BY DEF RoutingStart, Fields
<1> HIDE DEF s
<1>2. s.quota.at = -100 /\ s.quota.plans = [p \in PlanName |-> Closed]
  BY <1>1
<1>3. Closed \in Pacing /\ ~Closed.open
  BY DEF Closed, Pacing
<1>4. Typed(s)
  BY <1>1, <1>2, <1>3, ColdTyped DEF Typed
<1>5. Fresh(s) /\ Heard(s)
  BY <1>1, <1>2, <1>3 DEF Fresh, Heard
<1>6. CallsHeld(s) /\ WarmHeld(s)
  BY <1>1 DEF CallsHeld, WarmHeld, Cold
<1>7. WithoutPlan(s)
  BY <1>1, Models DEF WithoutPlan, PlanFree, Cold
<1>8. Sound(s)
  BY <1>1, <1>4, <1>5, <1>6, <1>7 DEF Sound
<1> QED
  BY <1>8 DEF s

LEMMA StepSound ==
  ASSUME Sound(g), RoutingNext
  PROVE  Sound(g')
<1>0. IsSetup(g.c) /\ g.now \in Nat
  BY SetupsTyped DEF Sound, Typed
<1>1. ASSUME NEW t \in g.c.turns, NEW said \in {None, 0, g.now}, Turn(t, said)
      PROVE  Sound(g')
  <2> DEFINE u == Refreshed(g, said)
  <2>1. said = None \/ said \in 0..g.now
    BY <1>0
  <2>2. Sound(u) /\ u.now - u.quota.at <= QuotaTTL
    BY <2>1, RefreshedSound
  <2>3. g' = WithPlans(u, t)
    BY <1>1 DEF Turn
  <2>4. IsTurn(t)
    BY <1>0 DEF IsSetup
  <2> HIDE DEF u
  <2> QED
    BY <2>2, <2>3, <2>4, TurnSound
<1>2. ASSUME NEW j \in g.c.jobs, NEW said \in {None, g.now}, Job(j, said)
      PROVE  Sound(g')
  <2> DEFINE u == Refreshed(g, said)
  <2>1. said = None \/ said \in 0..g.now
    BY <1>0
  <2>2. Sound(u) /\ u.now - u.quota.at <= QuotaTTL /\ u.now = g.now
    BY <2>1, RefreshedSound
  <2>3. g' = JobIn(u, j)
    BY <1>2 DEF Job
  <2>4. IsJob(j)
    BY <1>0 DEF IsSetup
  <2> HIDE DEF u
  <2> QED
    BY <2>2, <2>3, <2>4, JobSound
<1>3. ASSUME NEW call \in g.calls, NEW answered \in BOOLEAN, CallEnds(call, answered)
      PROVE  Sound(g')
  BY <1>3, CallEndSound
<1>4. CASE Tick
  BY <1>4, TickSound
<1> QED
  BY <1>1, <1>2, <1>3, <1>4 DEF RoutingNext

RoutingInv == Sound(g)

\* The invariant the three properties rest on: the record is borne out, what
\* the router believes of plans and caches was so when it was read or sent,
\* and a policy that may not use plans is on none.
THEOREM RoutingIsSound == RoutingSpec => []RoutingInv
<1>1. RoutingInit => RoutingInv
  BY StartSound DEF RoutingInit, RoutingInv
<1>2. RoutingInv /\ [RoutingNext]_g => RoutingInv'
  <2> SUFFICES ASSUME Sound(g), [RoutingNext]_g PROVE Sound(g')
    BY DEF RoutingInv
  <2>1. CASE RoutingNext
    BY <2>1, StepSound
  <2>2. CASE g' = g
    BY <2>2
  <2> QED
    BY <2>1, <2>2
<1> QED
  BY <1>1, <1>2, PTL DEF RoutingSpec

\* A plan is chosen only if it was below its hard stop within the staleness
\* the router allows and the time it keeps a decision, whatever the usage
\* command says and when it fails, under every policy (Router.quota,
\* quota.decide, Candidates).
THEOREM PlansWereOpen == RoutingSpec => []PlanWasOpen
<1>1. RoutingInv => PlanWasOpen
  BY DEF RoutingInv, Sound, RecordSound, OpenWhen, PlanWasOpen, Decided
<1> QED
  BY <1>1, RoutingIsSound, PTL

\* What the router counts as warm, the provider still holds, in whatever
\* order calls end (cache_index.commit).
THEOREM WarmWasHeld == RoutingSpec => []WarmIsHeld
<1>1. ASSUME Sound(g), NEW r \in Names, WarmTokens(g.conv, r, g.now) > 0
      PROVE  g.held[r] >= g.now
  <2> DEFINE w == g.conv.warm[r]
  <2>1. w # None /\ IsWarm(Model[r], w.at, g.now, Safety)
    BY <1>1 DEF WarmTokens
  <2>2. w \in Warmth \cup {None} /\ g.now \in Nat /\ g.held[r] \in Int
    BY <1>1 DEF Sound, Typed, Conversation
  <2>3. w.at \in Int
    BY <2>1, <2>2 DEF Warmth
  <2>4. g.held[r] >= w.at + Model[r].cache.ttl
    BY <1>1, <2>1 DEF Sound, WarmHeld, HeldFrom
  <2> HIDE DEF w
  <2> QED
    BY <2>1, <2>2, <2>3, <2>4, RouteCaches, RoutingNumbers DEF IsWarm, Most
<1>2. RoutingInv => WarmIsHeld
  BY <1>1 DEF RoutingInv, WarmIsHeld
<1> QED
  BY <1>2, RoutingIsSound, PTL

\* What policy F chose is the least of the values that the record, computed
\* after the choice and separately, lists (router.explain).
THEOREM RecordsExplain == RoutingSpec => []RecordExplains
<1>1. RoutingInv => RecordExplains
  BY DEF RoutingInv, Sound, RecordSound, Explained, RecordExplains, Decided
<1> QED
  BY <1>1, RoutingIsSound, PTL

----------------------------------------------------------------------------
(* The invariant of the calls *)

StateFields == {"setup", "asked", "session", "tokenizer", "sessions", "lock", "free", "calls"}
CallFields == {"pc", "via", "backend", "attempt", "body", "busy", "said", "told", "entries"}

Local == {"check", "lock", "load", "open", "use"}

\* The one local model there may be.
Configured(s) == ClassifierFromConfig(s.setup.policy)

Shaped(s) ==
  /\ DOMAIN s = StateFields /\ DOMAIN s.calls = Caller
  /\ \A c \in Caller : DOMAIN s.calls[c] = CallFields
  /\ {s.session, s.tokenizer} \subseteq BOOLEAN /\ s.free \in Int
  /\ Configured(s) # "busy"

\* Where a call stands with the model. `open` is on either side of the
\* session, depending on which of the two a model shows first.
AtLoad(s, c, d) ==
  /\ d.pc \in Local => d.backend = Configured(s) /\ d.backend \in LocalModels
  /\ d.pc \in {"load", "open"} => s.lock = c
  /\ d.pc = "load" => ~s.session
  /\ d.pc = "open" => \/ d.backend = "route-head" /\ s.session
                      \/ d.backend = "local-s1" /\ ~s.session /\ s.tokenizer
  /\ d.pc = "use" => d.backend = "route-head" \/ s.tokenizer

\* What a ranking may say it is based on, and what it is computed from.
Based(d) ==
  /\ d.via = "rank" => d.body \in Acceptable
  /\ d.backend # "busy"
  /\ d.pc \in {"released", "busy"} => d.via = "rank"
  /\ d.pc \in {"done", "failed", "released"} => d.said.difficulty \in Int /\ d.said.source # "busy"
  /\ d.entries # {} => RankingOf(d.body, d.entries)
  /\ d.pc = "failed" => d.said.source = "fallback"
  /\ d.told = "busy" => d.busy = Concurrency
  /\ d.told \in LocalModels \cup Hosted =>
       /\ d.said.source = d.told /\ d.said.flag \in 0..10
       /\ d.pc \in {"done", "released"}

\* There is a session once, and with it its tokenizer, but for the one model.
OneModel(s) ==
  /\ s.sessions = IF s.session THEN 1 ELSE 0
  /\ s.session => Configured(s) = "route-head" \/ s.tokenizer

Occupies(d) == d.via = "rank" /\ d.pc \notin {"idle", "released", "busy"}

Slots(s) == s.free + Cardinality({c \in Caller : Occupies(s.calls[c])}) = Concurrency

Settled(s) ==
  /\ Shaped(s) /\ OneModel(s) /\ Slots(s)
  /\ \A c \in Caller : AtLoad(s, c, s.calls[c]) /\ Based(s.calls[c])

SettledInv == Settled(k)

\* A step of c: c's call becomes d, and what the calls share changes.
Becomes(c, d, session, tokenizer, sessions, lock, free) ==
  /\ DOMAIN k' = StateFields /\ k'.setup = k.setup /\ k'.session = session /\ k'.tokenizer = tokenizer
  /\ k'.sessions = sessions /\ k'.lock = lock /\ k'.free = free
  /\ k'.calls = [k.calls EXCEPT ![c] = d]

\* The slots of the others are as they were.
LEMMA SlotsKept ==
  ASSUME Settled(k), NEW c \in Caller, NEW d, DOMAIN k'.calls = Caller,
         k'.calls = [k.calls EXCEPT ![c] = d], k.free \in Int,
         \/ (Occupies(d) <=> Occupies(k.calls[c])) /\ k'.free = k.free
         \/ Occupies(d) /\ ~Occupies(k.calls[c]) /\ k'.free = k.free - 1
         \/ ~Occupies(d) /\ Occupies(k.calls[c]) /\ k'.free = k.free + 1
  PROVE  Slots(k')
<1> DEFINE old == {x \in Caller : Occupies(k.calls[x])}
           new == {x \in Caller : Occupies(k'.calls[x])}
<1>1. k'.calls[c] = d /\ \A x \in Caller : x # c => k'.calls[x] = k.calls[x]
  BY DEF Settled, Shaped
<1>2. IsFiniteSet(old) /\ Cardinality(old) \in Nat /\ k.free + Cardinality(old) = Concurrency
  <2>1. IsFiniteSet(old)
    BY ClassifyNumbers, FS_Subset
  <2> QED
    BY <2>1, FS_CardinalityType DEF Settled, Slots
<1>3. CASE (Occupies(d) <=> Occupies(k.calls[c])) /\ k'.free = k.free
  <2>1. new = old
    BY <1>1, <1>3
  <2> QED
    BY <1>2, <1>3, <2>1 DEF Slots
<1>4. CASE Occupies(d) /\ ~Occupies(k.calls[c]) /\ k'.free = k.free - 1
  <2>1. new = old \cup {c} /\ c \notin old
    BY <1>1, <1>4
  <2> HIDE DEF new, old
  <2>2. Cardinality(new) = Cardinality(old) + 1
    BY <1>2, <2>1, FS_AddElement
  <2>3. k'.free + Cardinality(new) = Concurrency
    BY <1>2, <1>4, <2>2
  <2> QED
    BY <2>3 DEF Slots, new
<1>5. CASE ~Occupies(d) /\ Occupies(k.calls[c]) /\ k'.free = k.free + 1
  <2>1. new = old \ {c} /\ c \in old
    BY <1>1, <1>5
  <2> HIDE DEF new, old
  <2>2. Cardinality(new) = Cardinality(old) - 1
    BY <1>2, <2>1, FS_RemoveElement
  <2>3. k'.free + Cardinality(new) = Concurrency
    BY <1>2, <1>5, <2>2
  <2> QED
    BY <2>3 DEF Slots, new
<1> QED
  BY <1>3, <1>4, <1>5

\* What a step owes the others: it leaves lock and session alone, or the lock
\* was free or its own.
LEMMA StepSettles ==
  ASSUME Settled(k), NEW c \in Caller, NEW d, NEW session \in BOOLEAN, NEW tokenizer \in BOOLEAN,
         NEW sessions, NEW lock, NEW free \in Int,
         Becomes(c, d, session, tokenizer, sessions, lock, free),
         DOMAIN d = CallFields, AtLoad(k', c, d), Based(d), OneModel(k'),
         tokenizer = k.tokenizer \/ tokenizer = TRUE,
         (lock = k.lock /\ session = k.session) \/ k.lock = None \/ k.lock = c,
         \/ (Occupies(d) <=> Occupies(k.calls[c])) /\ free = k.free
         \/ Occupies(d) /\ ~Occupies(k.calls[c]) /\ free = k.free - 1
         \/ ~Occupies(d) /\ Occupies(k.calls[c]) /\ free = k.free + 1
  PROVE  Settled(k')
<1>1. Shaped(k) /\ \A x \in Caller : AtLoad(k, x, k.calls[x]) /\ Based(k.calls[x])
  BY DEF Settled
<1>2. /\ DOMAIN k' = StateFields /\ k'.setup = k.setup /\ k'.session = session /\ k'.tokenizer = tokenizer
      /\ k'.lock = lock /\ k'.free = free /\ k'.calls = [k.calls EXCEPT ![c] = d]
  BY DEF Becomes
<1>3. /\ DOMAIN k'.calls = Caller /\ k'.calls[c] = d
      /\ \A x \in Caller : x # c => k'.calls[x] = k.calls[x]
  BY <1>1, <1>2 DEF Shaped
<1>4. Shaped(k')
  BY <1>1, <1>2, <1>3 DEF Shaped, Configured
<1>5. Slots(k')
  BY <1>1, <1>2, <1>3, SlotsKept DEF Shaped
<1>6. ASSUME NEW x \in Caller, x # c PROVE AtLoad(k', x, k.calls[x])
  <2>1. AtLoad(k, x, k.calls[x]) /\ Configured(k') = Configured(k)
    BY <1>1, <1>2 DEF Configured
  <2>2. CASE lock = k.lock /\ session = k.session
    BY <1>2, <2>1, <2>2 DEF AtLoad
  <2>3. CASE k.lock = None \/ k.lock = c
    <3>1. x # None
      BY ClassifyNumbers
    <3>2. k.calls[x].pc \notin {"load", "open"}
      BY <1>6, <2>1, <2>3, <3>1 DEF AtLoad
    <3> QED
      BY <1>2, <2>1, <3>2 DEF AtLoad
  <2> QED
    BY <2>2, <2>3
<1> QED
  BY <1>1, <1>3, <1>4, <1>5, <1>6 DEF Settled

\* A step that changes the call alone and no slot.
LEMMA CallSettles ==
  ASSUME Settled(k), NEW c \in Caller, NEW d, DOMAIN d = CallFields,
         Becomes(c, d, k.session, k.tokenizer, k.sessions, k.lock, k.free),
         (Occupies(d) <=> Occupies(k.calls[c])), Based(d),
         AtLoad(k, c, d)
  PROVE  Settled(k')
<1>1. k.session \in BOOLEAN /\ k.tokenizer \in BOOLEAN /\ k.free \in Int /\ OneModel(k)
  BY DEF Settled, Shaped
<1>2. k'.setup = k.setup /\ k'.session = k.session /\ k'.tokenizer = k.tokenizer /\ k'.lock = k.lock
      /\ k'.sessions = k.sessions
  BY DEF Becomes
<1>3. AtLoad(k', c, d) /\ OneModel(k')
  BY <1>1, <1>2 DEF AtLoad, OneModel, Configured
<1> QED
  BY <1>1, <1>3, StepSettles

----------------------------------------------------------------------------
(* The steps of a call *)

LEMMA NothingCalled ==
  /\ DOMAIN NoCall = CallFields /\ NoCall.pc = "idle" /\ NoCall.via = None /\ NoCall.told = None
  /\ NoCall.said = None /\ NoCall.backend = None /\ NoCall.entries = {}
BY DEF NoCall, CallFields

LEMMA FirstSteps ==
  ASSUME NEW backend, NEW keys
  PROVE  /\ FirstStep(backend, keys) \in {"check", "failed", "none", "post"}
         /\ FirstStep(backend, keys) = "check" => backend \in LocalModels
BY DEF FirstStep

LEMMA OpenedFields ==
  ASSUME NEW c, NEW via, NEW backend, NEW body
  PROVE  LET d == Opens(c, via, backend, body)
         IN  /\ DOMAIN d = CallFields /\ d.via = via /\ d.backend = backend /\ d.told = None
             /\ d.body = body /\ d.entries = {} /\ d.pc = FirstStep(backend, k.setup.policy.keys)
             /\ d.pc = "failed" => d.said = FALLBACK
<1> DEFINE d == Opens(c, via, backend, body)
           pc == FirstStep(backend, k.setup.policy.keys)
           said == CASE pc = "failed" -> FALLBACK [] OTHER -> None
<1>1. d = [NoCall EXCEPT !.via = via, !.backend = backend, !.body = body, !.pc = pc, !.said = said]
  BY DEF Opens
<1>2. pc = "failed" => said = FALLBACK
  OBVIOUS
<1> HIDE DEF pc, said
<1>3. /\ DOMAIN d = CallFields /\ d.via = via /\ d.backend = backend /\ d.told = None
      /\ d.body = body /\ d.entries = {} /\ d.pc = pc /\ d.said = said
  BY <1>1 DEF NoCall, CallFields
<1> HIDE DEF d
<1> QED
  BY <1>2, <1>3 DEF d, pc

LEMMA OpenedSettles ==
  ASSUME Settled(k), NEW c, NEW via, NEW backend, NEW body, backend # "busy",
         backend \in LocalModels => backend = Configured(k), via = "rank" => body \in Acceptable
  PROVE  LET d == Opens(c, via, backend, body)
         IN  AtLoad(k, c, d) /\ Based(d) /\ (via # "rank" => ~Occupies(d)) /\ (via = "rank" => Occupies(d))
<1> DEFINE d == Opens(c, via, backend, body)
<1>1. /\ d.via = via /\ d.backend = backend /\ d.told = None /\ d.body = body /\ d.entries = {}
      /\ d.pc = FirstStep(backend, k.setup.policy.keys)
      /\ d.pc = "failed" => d.said = FALLBACK
  BY OpenedFields
<1>2. d.pc \in {"check", "failed", "none", "post"} /\ (d.pc = "check" => backend \in LocalModels)
  BY <1>1, FirstSteps
<1> HIDE DEF d
<1>3. AtLoad(k, c, d)
  BY <1>1, <1>2 DEF AtLoad, Local
<1>4. FALLBACK.source = "fallback" /\ FALLBACK.difficulty \in Int
  BY DEF FALLBACK, Classified
<1>5. Based(d)
  BY <1>1, <1>2, <1>4, ClassifyNumbers DEF Based
<1> QED
  BY <1>1, <1>2, <1>3, <1>5 DEF Occupies, d

LEMMA JudgesAreHosted ==
  ASSUME NEW policy
  PROVE  JudgeFromConfig(policy) \notin LocalModels \cup {"busy"}
<1>1. None \notin LocalModels \cup {"busy"}
  BY ClassifyNumbers
<1>2. ByDefault(policy) \in {"hosted", "heuristic"}
  BY DEF ByDefault
<1> DEFINE backend == IF policy.judge = "same-as-classifier" THEN policy.classifier ELSE policy.judge
<1>3. JudgeFromConfig(policy) =
        CASE backend \in {None, "hosted", "jev"} -> ByDefault(policy)
          [] backend \in {"none", "disabled", "heuristic", "local"} -> "heuristic"
          [] backend = "local-jev" -> backend
          [] OTHER -> None
  BY DEF JudgeFromConfig
<1> HIDE DEF backend
<1>4. JudgeFromConfig(policy) \in {ByDefault(policy), "heuristic", "local-jev", None}
  <2>1. CASE backend \in {None, "hosted", "jev"} \/ backend \in {"none", "disabled", "heuristic", "local"}
             \/ backend = "local-jev"
    BY <1>3, <2>1
  <2>2. CASE ~(backend \in {None, "hosted", "jev"} \/ backend \in {"none", "disabled", "heuristic", "local"}
               \/ backend = "local-jev")
    BY <1>3, <2>2
  <2> QED
    BY <2>1, <2>2
<1> QED
  BY <1>1, <1>2, <1>4 DEF LocalModels

\* A step of c on a field of its call alone.
LEMMA Shapes ==
  ASSUME Settled(k), NEW c \in Caller
  PROVE  /\ DOMAIN k = StateFields /\ DOMAIN k.calls = Caller /\ DOMAIN k.calls[c] = CallFields
         /\ k.session \in BOOLEAN /\ k.tokenizer \in BOOLEAN /\ k.free \in Int /\ OneModel(k)
         /\ AtLoad(k, c, k.calls[c]) /\ Based(k.calls[c]) /\ Configured(k) # "busy"
BY DEF Settled, Shaped

LEMMA AskSettles ==
  ASSUME Settled(k), NEW c \in Caller, AskTurn(c) \/ AskJudge(c)
  PROVE  Settled(k')
<1>0. /\ DOMAIN k = StateFields /\ DOMAIN k.calls = Caller
      /\ k.calls[c].pc = "idle" /\ Configured(k) # "busy"
  BY Shapes DEF AskTurn, AskJudge, Asks
<1>1. ~Occupies(k.calls[c])
  BY <1>0 DEF Occupies
<1>2. ASSUME NEW via, via # "rank", NEW backend, backend # "busy",
             backend \in LocalModels => backend = Configured(k),
             k' = [k EXCEPT !.asked = @ + 1, !.calls[c] = Opens(c, via, backend, None)]
      PROVE  Settled(k')
  <2> DEFINE d == Opens(c, via, backend, None)
  <2>1. AtLoad(k, c, d) /\ Based(d) /\ ~Occupies(d) /\ DOMAIN d = CallFields
    BY <1>2, OpenedSettles, OpenedFields
  <2> HIDE DEF d
  <2>2. k' = [k EXCEPT !.asked = @ + 1, !.calls[c] = d]
    BY <1>2 DEF d
  <2>3. Becomes(c, d, k.session, k.tokenizer, k.sessions, k.lock, k.free)
    BY <1>0, <2>2 DEF Becomes, StateFields
  <2> QED
    BY <1>1, <2>1, <2>3, CallSettles
<1>3. CASE AskTurn(c)
  BY <1>0, <1>2, <1>3 DEF AskTurn, Configured
<1>4. CASE AskJudge(c)
  BY <1>2, <1>4, JudgesAreHosted DEF AskJudge
<1> QED
  BY <1>3, <1>4

\* A call that moves on, being answered or not, keeps what it is about.
Same(d, ev) ==
  /\ DOMAIN d = CallFields /\ d.via = ev.via /\ d.backend = ev.backend /\ d.told = ev.told
  /\ d.busy = ev.busy /\ d.body = ev.body /\ d.entries = ev.entries

LEMMA Moved ==
  ASSUME NEW ev, DOMAIN ev = CallFields, NEW pc
  PROVE  Same([ev EXCEPT !.pc = pc], ev) /\ [ev EXCEPT !.pc = pc].pc = pc
         /\ [ev EXCEPT !.pc = pc].said = ev.said
BY DEF Same, CallFields

\* A call that stands before its answer has been told no model's name.
LEMMA NotYetTold ==
  ASSUME NEW ev, Based(ev), ev.pc \notin {"done", "released"}
  PROVE  ev.told \notin LocalModels \cup Hosted
BY DEF Based

LEMMA MoveBased ==
  ASSUME NEW ev, Based(ev), ev.pc \notin {"done", "released"}, NEW d, Same(d, ev),
         d.pc \notin {"released", "busy"},
         d.pc \in {"done", "failed"} => d.said.difficulty \in Int /\ d.said.source # "busy",
         d.pc = "failed" => d.said.source = "fallback"
  PROVE  Based(d)
BY NotYetTold DEF Based, Same

LEMMA CheckSettles ==
  ASSUME Settled(k), NEW c \in Caller, Check(c)
  PROVE  Settled(k')
<1> DEFINE ev == k.calls[c]
           d == [ev EXCEPT !.pc = IF k.session THEN "use" ELSE "lock"]
<1>1. /\ DOMAIN k = StateFields /\ DOMAIN k.calls = Caller /\ DOMAIN ev = CallFields /\ OneModel(k)
      /\ AtLoad(k, c, ev) /\ Based(ev) /\ ev.pc = "check"
  BY Shapes DEF Check
<1>2. k' = [k EXCEPT !.calls[c] = d]
  BY DEF Check
<1>3. Same(d, ev) /\ d.pc = IF k.session THEN "use" ELSE "lock"
  BY <1>1, Moved
<1> HIDE DEF d, ev
<1>4. Becomes(c, d, k.session, k.tokenizer, k.sessions, k.lock, k.free)
  BY <1>1, <1>2 DEF Becomes, StateFields
<1>5. Based(d) /\ (Occupies(d) <=> Occupies(ev))
  BY <1>1, <1>3, MoveBased DEF Occupies, Same
<1>6. AtLoad(k, c, d)
  BY <1>1, <1>3 DEF AtLoad, Same, OneModel, Local
<1> QED
  BY <1>3, <1>4, <1>5, <1>6, CallSettles DEF Same, ev

LEMMA LockSettles ==
  ASSUME Settled(k), NEW c \in Caller, Lock(c)
  PROVE  Settled(k')
<1> DEFINE ev == k.calls[c]
           d == [ev EXCEPT !.pc = IF k.session THEN "use" ELSE "load"]
           lock == IF k.session THEN k.lock ELSE c
<1>1. /\ DOMAIN k = StateFields /\ DOMAIN k.calls = Caller /\ DOMAIN ev = CallFields /\ OneModel(k)
      /\ AtLoad(k, c, ev) /\ Based(ev) /\ ev.pc = "lock" /\ k.lock = None
      /\ k.session \in BOOLEAN /\ k.tokenizer \in BOOLEAN /\ k.free \in Int
  BY Shapes DEF Lock
<1>2. Becomes(c, d, k.session, k.tokenizer, k.sessions, lock, k.free)
  <2>1. CASE k.session
    BY <1>1, <2>1 DEF Lock, Becomes, StateFields
  <2>2. CASE ~k.session
    BY <1>1, <2>2 DEF Lock, Becomes, StateFields
  <2> QED
    BY <2>1, <2>2
<1>3. Same(d, ev) /\ d.pc = IF k.session THEN "use" ELSE "load"
  BY <1>1, Moved
<1> HIDE DEF d, ev
<1>4. Based(d) /\ (Occupies(d) <=> Occupies(ev))
  BY <1>1, <1>3, MoveBased DEF Occupies, Same
<1>5. AtLoad(k', c, d) /\ OneModel(k')
  BY <1>1, <1>2, <1>3 DEF AtLoad, Same, OneModel, Local, Becomes, Configured
<1> HIDE DEF lock
<1> QED
  BY <1>1, <1>2, <1>3, <1>4, <1>5, StepSettles DEF Same, ev

\* A load that fails gives the lock back; the next call tries again.
LEMMA FailureSettles ==
  ASSUME Settled(k), NEW c \in Caller, k.calls[c].pc \in {"load", "open"}, ~k.session,
         k' = Failed(k, c)
  PROVE  Settled(k')
<1> DEFINE ev == k.calls[c]
           d == [ev EXCEPT !.pc = "failed", !.said = FALLBACK]
<1>1. /\ DOMAIN k = StateFields /\ DOMAIN k.calls = Caller /\ DOMAIN ev = CallFields /\ OneModel(k)
      /\ AtLoad(k, c, ev) /\ Based(ev) /\ k.lock = c
      /\ k.session \in BOOLEAN /\ k.tokenizer \in BOOLEAN /\ k.free \in Int
  BY Shapes DEF AtLoad
<1>2. Becomes(c, d, k.session, k.tokenizer, k.sessions, None, k.free)
  BY <1>1 DEF Failed, Becomes, StateFields
<1>3. Same(d, ev) /\ d.pc = "failed" /\ d.said = FALLBACK
  BY <1>1 DEF Same, CallFields
<1>4. ev.pc \in {"load", "open"}
  OBVIOUS
<1> HIDE DEF d, ev
<1>5. Based(d) /\ (Occupies(d) <=> Occupies(ev))
  BY <1>1, <1>3, <1>4, MoveBased DEF Occupies, Same, FALLBACK, Classified
<1>6. AtLoad(k', c, d) /\ OneModel(k')
  BY <1>1, <1>2, <1>3 DEF AtLoad, OneModel, Local, Becomes, Configured
<1>7. DOMAIN d = CallFields
  BY ONLY <1>1, <1>3 DEF Same
<1>8. Occupies(d) <=> Occupies(k.calls[c])
  BY ONLY <1>5 DEF ev
<1>9. Settled(k) /\ c \in Caller
  OBVIOUS
<1> QED
  BY ONLY <1>1, <1>2, <1>5, <1>6, <1>7, <1>8, <1>9, StepSettles

LEMMA LoadSettles ==
  ASSUME Settled(k), NEW c \in Caller, NEW ok \in BOOLEAN, Load(c, ok)
  PROVE  Settled(k')
<1> DEFINE ev == k.calls[c]
           d(pc) == [ev EXCEPT !.pc = pc]
<1>1. /\ DOMAIN k = StateFields /\ DOMAIN k.calls = Caller /\ DOMAIN ev = CallFields /\ OneModel(k)
      /\ AtLoad(k, c, ev) /\ Based(ev) /\ ev.pc = "load"
      /\ k.session \in BOOLEAN /\ k.tokenizer \in BOOLEAN /\ k.free \in Int
  BY Shapes DEF Load
<1>2. /\ k.lock = c /\ ~k.session /\ k.sessions = 0 /\ ev.backend = Configured(k)
      /\ ev.backend \in {"laya", "local-s1", "route-head"}
  BY <1>1 DEF AtLoad, OneModel, Local, LocalModels
<1>3. \A pc : Same(d(pc), ev) /\ d(pc).pc = pc /\ d(pc).said = ev.said
  BY <1>1, Moved
<1>4. CASE ~ok
  BY <1>1, <1>2, <1>4, FailureSettles DEF Load
<1>5. CASE ok /\ ev.backend = "laya"
  <2>1. Becomes(c, d("use"), TRUE, TRUE, k.sessions + 1, None, k.free)
    BY <1>1, <1>5 DEF Load, WithSession, Becomes, StateFields
  <2>2. Based(d("use")) /\ (Occupies(d("use")) <=> Occupies(ev))
    BY <1>1, <1>3, MoveBased DEF Occupies, Same
  <2>3. AtLoad(k', c, d("use")) /\ OneModel(k')
    <3>1. /\ k'.session /\ k'.tokenizer /\ k'.sessions = 1 /\ k'.setup = k.setup
          /\ d("use").pc = "use" /\ d("use").backend = Configured(k) /\ Configured(k) \in LocalModels
      BY <1>2, <1>3, <1>5, <2>1 DEF Becomes, Same, LocalModels
    <3> QED
      BY <3>1 DEF AtLoad, OneModel, Configured
  <2>4. DOMAIN d("use") = CallFields
    BY <1>3 DEF Same
  <2> HIDE DEF d
  <2> QED
    BY <1>1, <1>2, <2>1, <2>2, <2>3, <2>4, StepSettles
<1>6. CASE ok /\ ev.backend = "local-s1"
  <2>1. Becomes(c, d("open"), k.session, TRUE, k.sessions, k.lock, k.free)
    BY <1>1, <1>6 DEF Load, Becomes, StateFields
  <2>2. Based(d("open")) /\ (Occupies(d("open")) <=> Occupies(ev))
    BY <1>1, <1>3, MoveBased DEF Occupies, Same
  <2>3. AtLoad(k', c, d("open")) /\ OneModel(k')
    BY <1>1, <1>2, <1>3, <1>6, <2>1 DEF AtLoad, Same, OneModel, Local, LocalModels, Becomes, Configured
  <2>4. DOMAIN d("open") = CallFields
    BY <1>3 DEF Same
  <2> HIDE DEF d
  <2> QED
    BY <1>1, <1>2, <2>1, <2>2, <2>3, <2>4, StepSettles
<1>7. CASE ok /\ ev.backend = "route-head"
  <2>1. Becomes(c, d("open"), TRUE, k.tokenizer, k.sessions + 1, k.lock, k.free)
    BY <1>1, <1>7 DEF Load, WithSession, Becomes, StateFields
  <2>2. Based(d("open")) /\ (Occupies(d("open")) <=> Occupies(ev))
    BY <1>1, <1>3, MoveBased DEF Occupies, Same
  <2>3. AtLoad(k', c, d("open")) /\ OneModel(k')
    <3>1. /\ k'.session /\ k'.sessions = 1 /\ k'.lock = c /\ k'.setup = k.setup
          /\ d("open").pc = "open" /\ d("open").backend = "route-head" /\ Configured(k) = "route-head"
      BY <1>2, <1>3, <1>7, <2>1 DEF Becomes, Same
    <3> QED
      BY <3>1 DEF AtLoad, OneModel, Configured, LocalModels
  <2>4. DOMAIN d("open") = CallFields
    BY <1>3 DEF Same
  <2> HIDE DEF d
  <2> QED
    BY <1>1, <1>2, <2>1, <2>2, <2>3, <2>4, StepSettles
<1> QED
  BY <1>2, <1>4, <1>5, <1>6, <1>7

LEMMA OpenSessionSettles ==
  ASSUME Settled(k), NEW c \in Caller, NEW ok \in BOOLEAN, OpenSession(c, ok)
  PROVE  Settled(k')
<1> DEFINE ev == k.calls[c]
           d == [ev EXCEPT !.pc = "use"]
<1>1. /\ DOMAIN k = StateFields /\ DOMAIN k.calls = Caller /\ DOMAIN ev = CallFields /\ OneModel(k)
      /\ AtLoad(k, c, ev) /\ Based(ev) /\ ev.pc = "open" /\ (k.session => ok)
      /\ k.session \in BOOLEAN /\ k.tokenizer \in BOOLEAN /\ k.free \in Int
  BY Shapes DEF OpenSession
<1>2. /\ k.lock = c /\ ev.backend = Configured(k) /\ ev.backend \in LocalModels
      /\ \/ ev.backend = "route-head" /\ k.session
         \/ ev.backend = "local-s1" /\ ~k.session /\ k.tokenizer
  BY <1>1 DEF AtLoad, Local
<1>3. Same(d, ev) /\ d.pc = "use" /\ DOMAIN d = CallFields
  BY <1>1, Moved DEF Same
<1>4. Based(d) /\ (Occupies(d) <=> Occupies(ev))
  BY <1>1, <1>3, MoveBased DEF Occupies, Same
<1>5. CASE ~ok
  BY <1>1, <1>5, FailureSettles DEF OpenSession
<1>6. CASE ok /\ ev.backend = "local-s1"
  <2>1. Becomes(c, d, TRUE, k.tokenizer, k.sessions + 1, None, k.free)
    BY <1>1, <1>6 DEF OpenSession, WithSession, Becomes, StateFields
  <2> HIDE DEF d
  <2>2. AtLoad(k', c, d) /\ OneModel(k')
    <3>1. /\ k'.session /\ k'.tokenizer /\ k'.setup = k.setup /\ k.sessions = 0
          /\ d.pc = "use" /\ d.backend = Configured(k) /\ Configured(k) \in LocalModels
      BY <1>1, <1>2, <1>3, <1>6, <2>1 DEF Becomes, Same, OneModel
    <3>2. k'.sessions = 1
      BY <2>1, <3>1 DEF Becomes
    <3> QED
      BY <3>1, <3>2 DEF AtLoad, OneModel, Configured
  <2> QED
    BY <1>1, <1>2, <1>3, <1>4, <2>1, <2>2, StepSettles
<1>7. CASE ok /\ ev.backend = "route-head"
  <2>1. Becomes(c, d, k.session, TRUE, k.sessions, None, k.free)
    BY <1>1, <1>7 DEF OpenSession, Becomes, StateFields
  <2> HIDE DEF d
  <2>2. AtLoad(k', c, d) /\ OneModel(k')
    BY <1>1, <1>2, <1>3, <1>7, <2>1 DEF AtLoad, Same, OneModel, Local, Becomes, Configured
  <2> QED
    BY <1>1, <1>2, <1>3, <1>4, <2>1, <2>2, StepSettles
<1> QED
  BY <1>2, <1>5, <1>6, <1>7

----------------------------------------------------------------------------
(* Answers *)

LEMMA ScoreIsNumber ==
  ASSUME NEW score \in Int \cup {None}
  PROVE  Score01(score) \in Int
<1>1. CASE score = None
  BY <1>1 DEF Score01
<1>2. CASE score # None
  <2>1. score \in Int /\ (10 * score) \div 4 \in Int
    BY <1>2
  <2> QED
    BY <1>2, <2>1 DEF Score01, Within, Most, Least
<1> QED
  BY <1>1, <1>2

LEMMA LettersGraded ==
  ASSUME NEW reply \in Letters
  PROVE  EvaluateLetters(reply).score \in Int \cup {None}
<1> DEFINE probs == AskLetter(2, reply)
<1>1. probs = None \/ (probs[1] \in Int /\ probs[2] \in Int)
  <2>1. CASE reply.top # None
    <3>1. probs = Softmax[reply.top]
      BY <2>1 DEF AskLetter
    <3> HIDE DEF probs
    <3> QED
      BY <2>1, <3>1, AnswersTyped
  <2>2. CASE reply.top = None /\ reply.text \in 1..2
    <3>1. probs = [i \in 1..2 |-> IF i = reply.text THEN 10 ELSE 0]
      BY <2>2 DEF AskLetter
    <3> HIDE DEF probs
    <3> QED
      BY <3>1
  <2>3. CASE reply.top = None /\ reply.text \notin 1..2
    BY <2>3 DEF AskLetter
  <2> QED
    BY <2>1, <2>2, <2>3
<1>2. EvaluateLetters(reply) =
        IF probs = None THEN [objects |-> TRUE, choice |-> None, score |-> None, noul |-> None]
        ELSE [objects |-> TRUE, choice |-> IF probs[1] >= probs[2] THEN "coding" ELSE "general",
              score |-> (4 * probs[2]) \div 10, noul |-> probs[1]]
  BY DEF EvaluateLetters
<1> HIDE DEF probs
<1>3. CASE probs = None
  BY <1>2, <1>3
<1>4. CASE probs # None
  <2>1. (4 * probs[2]) \div 10 \in Int
    BY <1>1, <1>4
  <2> QED
    BY <1>2, <1>4, <2>1
<1> QED
  BY <1>3, <1>4

Graded(said) == said.difficulty \in Int /\ said.source # "busy"

LEMMA AnswersGraded ==
  ASSUME NEW answer, answer.score \in Int \cup {None}, NEW backend, backend # "busy"
  PROVE  Graded(ClassificationFromAnswers(answer, backend)) /\ Graded(Judgement(answer, backend))
<1>1. Graded(RAISED) /\ Graded(FALLBACK)
  BY DEF RAISED, FALLBACK, Classified, Graded
<1>2. Graded(ClassificationFromAnswers(answer, backend))
  <2>1. CASE Sufficient(answer)
    <3>1. ClassificationFromAnswers(answer, backend)
            = Classified(answer.choice, Score01(answer.score), answer.noul, backend)
      BY <2>1 DEF ClassificationFromAnswers, Sufficient
    <3>2. /\ ClassificationFromAnswers(answer, backend).difficulty = Score01(answer.score)
          /\ ClassificationFromAnswers(answer, backend).source = backend
      BY <3>1 DEF Classified
    <3> QED
      BY <3>2, ScoreIsNumber DEF Graded
  <2>2. CASE ~Sufficient(answer) /\ ~answer.objects /\ backend = "hosted"
    BY <1>1, <2>2 DEF ClassificationFromAnswers
  <2>3. CASE ~Sufficient(answer) /\ ~(~answer.objects /\ backend = "hosted")
    BY <1>1, <2>3 DEF ClassificationFromAnswers
  <2> QED
    BY <2>1, <2>2, <2>3
<1>3. Graded(Judgement(answer, backend))
  <2>1. CASE answer.objects /\ answer.noul # None
    BY <2>1 DEF Judgement, Classified, Graded
  <2>2. CASE ~(answer.objects /\ answer.noul # None) /\ ~answer.objects /\ backend = "hosted"
    BY <1>1, <2>2 DEF Judgement
  <2>3. CASE ~(answer.objects /\ answer.noul # None) /\ ~(~answer.objects /\ backend = "hosted")
    BY <1>1, <2>3 DEF Judgement
  <2> QED
    BY <2>1, <2>2, <2>3
<1> QED
  BY <1>2, <1>3

\* A call that gets an answer, or none.
LEMMA AnswerSettles ==
  ASSUME Settled(k), NEW c \in Caller, k.calls[c].pc \in {"use", "post"},
         NEW pc \in {"done", "failed"}, NEW said, Graded(said),
         pc = "failed" => said = FALLBACK,
         k' = [k EXCEPT !.calls[c].pc = pc, !.calls[c].said = said]
  PROVE  Settled(k')
<1> DEFINE ev == k.calls[c]
           d == [ev EXCEPT !.pc = pc, !.said = said]
<1>1. /\ DOMAIN k = StateFields /\ DOMAIN k.calls = Caller /\ DOMAIN ev = CallFields
      /\ AtLoad(k, c, ev) /\ Based(ev) /\ ev.pc \in {"use", "post"}
  BY Shapes
<1>2. Becomes(c, d, k.session, k.tokenizer, k.sessions, k.lock, k.free)
  BY <1>1 DEF Becomes, StateFields
<1>3. Same(d, ev) /\ d.pc = pc /\ d.said = said
  BY <1>1 DEF Same, CallFields
<1> HIDE DEF d, ev
<1>4. FALLBACK.source = "fallback"
  BY DEF FALLBACK, Classified
<1>5. Based(d) /\ (Occupies(d) <=> Occupies(ev))
  BY <1>1, <1>3, <1>4, MoveBased DEF Occupies, Same, Graded
<1>6. AtLoad(k, c, d)
  BY <1>3 DEF AtLoad, Local
<1> QED
  BY <1>2, <1>3, <1>5, <1>6, CallSettles DEF Same, ev

LEMMA InferSettles ==
  ASSUME Settled(k), NEW c \in Caller, NEW answer, answer.score \in Int \cup {None}, Infer(c, answer)
  PROVE  Settled(k')
<1> DEFINE said == IF k.tokenizer /\ Sufficient(answer)
                   THEN ClassificationFromAnswers(answer, k.calls[c].backend) ELSE FALLBACK
<1>1. Graded(said)
  BY Shapes, AnswersGraded DEF FALLBACK, Classified, Graded, Based
<1>2. k.calls[c].pc = "use" /\ k' = [k EXCEPT !.calls[c].pc = "done", !.calls[c].said = said]
  BY DEF Infer
<1> HIDE DEF said
<1> QED
  BY <1>1, <1>2, AnswerSettles

LEMMA HttpAnswerSettles ==
  ASSUME Settled(k), NEW c \in Caller, NEW answer, answer.score \in Int \cup {None}, HttpAnswer(c, answer)
  PROVE  Settled(k')
<1> DEFINE said == Understood(c, answer)
<1>1. Graded(said)
  BY Shapes, AnswersGraded DEF Understood, Based
<1>2. k.calls[c].pc = "post" /\ k' = [k EXCEPT !.calls[c].pc = "done", !.calls[c].said = said]
  BY DEF HttpAnswer
<1> HIDE DEF said
<1> QED
  BY <1>1, <1>2, AnswerSettles

LEMMA HttpErrorSettles ==
  ASSUME Settled(k), NEW c \in Caller, NEW again, HttpError(c, again)
  PROVE  Settled(k')
<1> DEFINE ev == k.calls[c]
           more == again /\ ev.backend = "hosted" /\ ev.attempt < MaxAttempts - 1
           d == [ev EXCEPT !.attempt = ev.attempt + 1]
<1>1. /\ DOMAIN k = StateFields /\ DOMAIN k.calls = Caller /\ DOMAIN ev = CallFields
      /\ AtLoad(k, c, ev) /\ Based(ev) /\ ev.pc = "post"
  BY Shapes DEF HttpError
<1>2. CASE more
  <2>1. Becomes(c, d, k.session, k.tokenizer, k.sessions, k.lock, k.free)
    BY <1>1, <1>2 DEF HttpError, Becomes, StateFields
  <2>2. Same(d, ev) /\ d.pc = "post"
    BY <1>1 DEF Same, CallFields
  <2> HIDE DEF d, ev
  <2>3. Based(d) /\ (Occupies(d) <=> Occupies(ev))
    BY <1>1, <2>2, MoveBased DEF Occupies, Same
  <2>4. AtLoad(k, c, d)
    BY <2>2 DEF AtLoad, Local
  <2> QED
    BY <2>1, <2>2, <2>3, <2>4, CallSettles DEF Same, ev
<1>3. CASE ~more
  <2>1. k' = [k EXCEPT !.calls[c].pc = "failed", !.calls[c].said = FALLBACK]
    BY <1>3 DEF HttpError
  <2>2. Graded(FALLBACK)
    BY DEF FALLBACK, Classified, Graded
  <2> QED
    BY <1>1, <2>1, <2>2, AnswerSettles
<1> QED
  BY <1>2, <1>3

\* The caller that has its answer leaves; so does one whose ranking is sent.
LEMMA LeaveSettles ==
  ASSUME Settled(k), NEW c \in Caller, Return(c) \/ SendRanking(c)
  PROVE  Settled(k')
<1>1. /\ DOMAIN k = StateFields /\ DOMAIN k.calls = Caller
  BY Shapes
<1>2. ~Occupies(k.calls[c]) /\ ~Occupies(NoCall)
  BY NothingCalled DEF Return, Told, SendRanking, Occupies
<1>3. k' = [k EXCEPT !.calls[c] = NoCall]
  BY DEF Return, SendRanking
<1>4. Becomes(c, NoCall, k.session, k.tokenizer, k.sessions, k.lock, k.free)
  BY <1>1, <1>3 DEF Becomes, StateFields
<1>5. Based(NoCall) /\ AtLoad(k, c, NoCall)
  BY NothingCalled, ClassifyNumbers DEF Based, AtLoad, Local
<1> QED
  BY <1>2, <1>4, <1>5, NothingCalled, CallSettles

----------------------------------------------------------------------------
(* The slots *)

LEMMA UnderWayOccupies ==
  ASSUME Settled(k)
  PROVE  /\ UnderWay = {c \in Caller : Occupies(k.calls[c])} /\ Cardinality(UnderWay) \in Nat
         /\ k.free + Cardinality(UnderWay) = Concurrency
<1>1. UnderWay = {c \in Caller : Occupies(k.calls[c])}
  BY DEF UnderWay, Occupies
<1>2. IsFiniteSet(UnderWay)
  BY ClassifyNumbers, FS_Subset DEF UnderWay
<1> QED
  BY <1>1, <1>2, FS_CardinalityType DEF Settled, Slots

LEMMA RankRefusedSettles ==
  ASSUME Settled(k), NEW c \in Caller, RankRefused(c)
  PROVE  Settled(k')
<1>1. DOMAIN k = StateFields
  BY Shapes
<1>2. /\ DOMAIN k' = StateFields /\ k'.setup = k.setup /\ k'.session = k.session
      /\ k'.tokenizer = k.tokenizer /\ k'.sessions = k.sessions /\ k'.lock = k.lock
      /\ k'.free = k.free /\ k'.calls = k.calls
  BY <1>1 DEF RankRefused, StateFields
<1> QED
  BY <1>2 DEF Settled, Shaped, OneModel, Slots, AtLoad, Configured

\* A ranking asked for with no slot free finds every slot taken.
LEMMA BusySettles ==
  ASSUME Settled(k), NEW c \in Caller, NEW body \in Acceptable, k.calls[c].pc = "idle", k.free = 0,
         k' = [k EXCEPT !.asked = @ + 1, !.calls[c] = [NoCall EXCEPT
                 !.pc = "busy", !.via = "rank", !.body = body, !.busy = Cardinality(UnderWay), !.told = "busy"]]
  PROVE  Settled(k')
<1> DEFINE n == Cardinality(UnderWay)
           d == [NoCall EXCEPT !.pc = "busy", !.via = "rank", !.body = body, !.busy = n, !.told = "busy"]
<1>1. DOMAIN k = StateFields /\ DOMAIN k.calls = Caller
  BY Shapes
<1>2. n = Concurrency
  BY UnderWayOccupies
<1> HIDE DEF n
<1>3. /\ DOMAIN d = CallFields /\ d.pc = "busy" /\ d.via = "rank" /\ d.body = body /\ d.busy = n
      /\ d.told = "busy" /\ d.backend = None /\ d.entries = {}
  BY DEF NoCall, CallFields
<1>4. k' = [k EXCEPT !.asked = @ + 1, !.calls[c] = d]
  BY DEF n
<1> HIDE DEF d
<1>5. Becomes(c, d, k.session, k.tokenizer, k.sessions, k.lock, k.free)
  BY <1>1, <1>4 DEF Becomes, StateFields
<1>6. Based(d) /\ AtLoad(k, c, d)
  BY <1>2, <1>3, ClassifyNumbers DEF Based, AtLoad, Local, LocalModels, Hosted
<1>7. ~Occupies(d) /\ ~Occupies(k.calls[c])
  BY <1>3 DEF Occupies
<1> QED
  BY <1>3, <1>5, <1>6, <1>7, CallSettles

LEMMA AskRankSettles ==
  ASSUME Settled(k), NEW c \in Caller, NEW body, AskRank(c, body)
  PROVE  Settled(k')
<1> DEFINE d == Opens(c, "rank", Configured(k), body)
           free == k.free - 1
<1>1. /\ DOMAIN k = StateFields /\ DOMAIN k.calls = Caller /\ OneModel(k)
      /\ k.session \in BOOLEAN /\ k.tokenizer \in BOOLEAN /\ k.free \in Int /\ Configured(k) # "busy"
  BY Shapes
<1>2. k.calls[c].pc = "idle" /\ body \in Acceptable
  BY DEF AskRank, Asks
<1>3. CASE k.free = 0
  BY <1>2, <1>3, BusySettles DEF AskRank
<1>4. CASE k.free # 0
  <2>1. k' = [k EXCEPT !.asked = @ + 1, !.free = @ - 1, !.calls[c] = d]
    BY <1>4 DEF AskRank, Configured
  <2>2. AtLoad(k, c, d) /\ Based(d) /\ Occupies(d) /\ DOMAIN d = CallFields
    BY <1>1, <1>2, OpenedSettles, OpenedFields
  <2> HIDE DEF d
  <2>3. Becomes(c, d, k.session, k.tokenizer, k.sessions, k.lock, free)
    BY <1>1, <2>1 DEF Becomes, StateFields
  <2>6. free \in Int /\ free = k.free - 1
    BY <1>1
  <2> HIDE DEF free
  <2>4. AtLoad(k', c, d) /\ OneModel(k')
    BY <1>1, <2>2, <2>3 DEF AtLoad, OneModel, Configured, Becomes
  <2>5. ~Occupies(k.calls[c])
    BY <1>2 DEF Occupies
  <2> QED
    BY <1>1, <2>2, <2>3, <2>4, <2>5, <2>6, StepSettles
<1> QED
  BY <1>3, <1>4

LEMMA GiveSlotBackSettles ==
  ASSUME Settled(k), NEW c \in Caller, GiveSlotBack(c)
  PROVE  Settled(k')
<1> DEFINE ev == k.calls[c]
           d == [ev EXCEPT !.pc = "released"]
           free == k.free + 1
<1>1. /\ DOMAIN k = StateFields /\ DOMAIN k.calls = Caller /\ DOMAIN ev = CallFields /\ OneModel(k)
      /\ Based(ev) /\ ev.via = "rank" /\ ev.pc \in {"done", "failed"}
      /\ k.session \in BOOLEAN /\ k.tokenizer \in BOOLEAN /\ k.free \in Int
  BY Shapes DEF GiveSlotBack
<1>2. Becomes(c, d, k.session, k.tokenizer, k.sessions, k.lock, free)
  BY <1>1 DEF GiveSlotBack, Becomes, StateFields
<1>6. free \in Int /\ free = k.free + 1
  BY <1>1
<1>3. Same(d, ev) /\ d.pc = "released" /\ d.said = ev.said
  BY <1>1, Moved
<1> HIDE DEF d, ev, free
<1>4. Based(d) /\ ~Occupies(d) /\ Occupies(ev)
  BY <1>1, <1>3 DEF Based, Same, Occupies
<1>5. AtLoad(k', c, d) /\ OneModel(k')
  BY <1>1, <1>2, <1>3 DEF AtLoad, OneModel, Local, Configured, Becomes
<1> QED
  BY <1>1, <1>2, <1>3, <1>4, <1>5, <1>6, StepSettles DEF Same, ev

\* Being told something concerns the call alone.
LEMMA RanksSettles ==
  ASSUME Settled(k), NEW c \in Caller, NEW basis, k' = Ranks(c, basis), basis # "busy",
         basis \in LocalModels \cup Hosted =>
           /\ k.calls[c].said.source = basis /\ k.calls[c].said.flag \in 0..10
           /\ k.calls[c].pc \in {"done", "released"}
  PROVE  Settled(k')
<1> DEFINE ev == k.calls[c]
           d == [ev EXCEPT !.told = basis]
<1>1. /\ DOMAIN k = StateFields /\ DOMAIN k.calls = Caller /\ DOMAIN ev = CallFields
      /\ Based(ev) /\ AtLoad(k, c, ev)
  BY Shapes
<1>2. Becomes(c, d, k.session, k.tokenizer, k.sessions, k.lock, k.free)
  BY <1>1 DEF Ranks, Becomes, StateFields
<1>3. /\ DOMAIN d = CallFields /\ d.pc = ev.pc /\ d.via = ev.via /\ d.backend = ev.backend /\ d.told = basis
      /\ d.said = ev.said /\ d.busy = ev.busy /\ d.body = ev.body /\ d.entries = ev.entries
  BY <1>1 DEF CallFields
<1>4. basis \in LocalModels \cup Hosted =>
        ev.said.source = basis /\ ev.said.flag \in 0..10 /\ ev.pc \in {"done", "released"}
  OBVIOUS
<1> HIDE DEF d, ev
<1>5. Based(d) /\ (Occupies(d) <=> Occupies(ev))
  BY <1>1, <1>3, <1>4 DEF Based, Occupies
<1>6. AtLoad(k, c, d)
  BY <1>1, <1>3 DEF AtLoad
<1> QED
  BY <1>2, <1>3, <1>5, <1>6, CallSettles DEF ev

LEMMA TakeResultSettles ==
  ASSUME Settled(k), NEW c \in Caller, TakeResult(c) \/ TimesOut(c)
  PROVE  Settled(k')
<1> DEFINE ev == k.calls[c]
           said == ev.said
           basis == CASE said.source \in {"fallback", "raised"} -> "error"
                      [] said.source \notin {"fallback", "raised"} /\ said.flag \notin 0..10 -> "malformed"
                      [] OTHER -> said.source
<1>1. CASE TimesOut(c)
  BY <1>1, RanksSettles DEF TimesOut, LocalModels, Hosted
<1>2. CASE TakeResult(c)
  <2>1. k' = Ranks(c, basis) /\ ev.pc \in {"done", "failed", "released"}
    BY <1>2 DEF TakeResult
  <2>2. Based(ev)
    BY Shapes
  <2>3. \/ basis = "error"
        \/ basis = "malformed"
        \/ basis = said.source /\ said.source \notin {"fallback", "raised"} /\ said.flag \in 0..10
    <3>1. CASE said.source \in {"fallback", "raised"}
      BY <3>1
    <3>2. CASE said.source \notin {"fallback", "raised"} /\ said.flag \notin 0..10
      BY <3>2
    <3>3. CASE said.source \notin {"fallback", "raised"} /\ said.flag \in 0..10
      BY <3>3
    <3> QED
      BY <3>1, <3>2, <3>3
  <2> HIDE DEF basis
  <2>4. basis # "busy"
    BY <2>1, <2>2, <2>3 DEF Based
  <2>5. basis \in LocalModels \cup Hosted =>
          said.source = basis /\ said.flag \in 0..10 /\ ev.pc \in {"done", "released"}
    BY <2>1, <2>2, <2>3 DEF Based, LocalModels, Hosted
  <2> QED
    BY <2>1, <2>4, <2>5, RanksSettles
<1> QED
  BY <1>1, <1>2

----------------------------------------------------------------------------
(* Ranking *)

IsEntry(ev) == ev.quality \in Int /\ ev.cost \in Int

\* A candidate that leads has no worse an objective than any other.
LEMMA LeaderIsLeast ==
  ASSUME NEW entries, \A ev \in entries : IsEntry(ev), NEW scale \in Int, NEW t \in 0..10,
         NEW a \in Leading(entries, t, scale), NEW b \in entries
  PROVE  Objective(a, t, scale) <= Objective(b, t, scale)
<1>1. a \in entries /\ Before(a, b, t, scale)
  BY DEF Leading
<1>2. IsEntry(a) /\ IsEntry(b)
  BY <1>1
<1>3. Objective(a, t, scale) \in Int /\ Objective(b, t, scale) \in Int
  BY <1>2 DEF IsEntry, Objective, Cost, Quality
<1> QED
  BY <1>1, <1>3 DEF Before

\* The heart of it: two optima at two preferences, the products named.
LEMMA TwoOptima ==
  ASSUME NEW t1 \in 0..10, NEW t2 \in 0..10, t1 < t2,
         NEW c1 \in Int, NEW c2 \in Int, NEW q1 \in Int, NEW q2 \in Int,
         10 * (t1 * c1) - (10 - t1) * q1 <= 10 * (t1 * c2) - (10 - t1) * q2,
         10 * (t2 * c2) - (10 - t2) * q2 <= 10 * (t2 * c1) - (10 - t2) * q1
  PROVE  c2 <= c1
<1> QED
  BY SMTT(60)

\* The docstring's claim of irp.py: the cost of the winner never rises with
\* the preference for cheapness, whatever is ranked.
THEOREM CostFallsWithPreference ==
  ASSUME NEW entries, \A ev \in entries : IsEntry(ev), NEW scale \in Int
  PROVE  PreferenceLowersCost(entries, scale)
<1> SUFFICES ASSUME NEW t1 \in 0..10, NEW t2 \in 0..10, t1 < t2,
                    NEW a \in Leading(entries, t1, scale), NEW b \in Leading(entries, t2, scale)
             PROVE  b.cost <= a.cost
  BY DEF PreferenceLowersCost
<1>1. IsEntry(a) /\ IsEntry(b) /\ a \in entries /\ b \in entries
  BY DEF Leading
<1>2. Objective(a, t1, scale) <= Objective(b, t1, scale)
  BY <1>1, LeaderIsLeast
<1>3. Objective(b, t2, scale) <= Objective(a, t2, scale)
  BY <1>1, LeaderIsLeast
<1>4. a.cost \in Int /\ b.cost \in Int /\ a.quality * scale \in Int /\ b.quality * scale \in Int
  BY <1>1 DEF IsEntry
<1> QED
  BY <1>2, <1>3, <1>4, TwoOptima DEF Objective, Cost, Quality

\* The scale is a number: there is a dearest candidate.
LEMMA ScaleIsNumber ==
  ASSUME NEW entries, IsFiniteSet(entries), entries # {}, \A ev \in entries : IsEntry(ev)
  PROVE  Scale(entries) \in Int
<1> DEFINE f == [ev \in entries |-> <<-ev.cost, 0>>]
           costs == {ev.cost : ev \in entries}
<1>1. \A ev \in entries : f[ev][1] = -ev.cost /\ f[ev][1] \in Int /\ f[ev][2] \in Int
  BY DEF IsEntry
<1> HIDE DEF f
<1>2. PICK m \in entries : \A x \in entries : Precedes(f[m], f[x])
  BY <1>1, LeastExists
<1>3. \A x \in entries : m.cost >= x.cost
  BY <1>1, <1>2 DEF Precedes, IsEntry
<1>4. m.cost \in costs /\ \A y \in costs : m.cost >= y
  BY <1>3
<1>5. Scale(entries) = CHOOSE x \in costs : \A y \in costs : x >= y
  BY DEF Scale
<1>6. \A y \in costs : y \in Int
  BY DEF IsEntry
<1> HIDE DEF costs
<1> QED
  BY <1>4, <1>5, <1>6

\* Whatever the classifier said, or did not say.
LEMMA RankRequestNumbers ==
  ASSUME NEW body, IsBody(body), NEW cls, cls = None \/ cls.difficulty \in Int
  PROVE  RankRequest(body, cls).difficulty \in Int /\ RankRequest(body, cls).output \in Int
<1> DEFINE ask == IF cls = None THEN None
                  ELSE [category |-> cls.category, difficulty |-> cls.difficulty, tools |-> cls.flag >= 5,
                        vision |-> FALSE, followUp |-> cls.flag, stakes |-> 2, confidence |-> 5]
           req == TurnRequest(ask, body.prompt, body.stated, 0, body.tools)
<1>1. body.stated \in Nat \cup {None}
  BY DEF IsBody
<1>2. RankRequest(body, cls) = req
  BY DEF RankRequest
<1>3. ask = None \/ (ask # None /\ ask.difficulty \in Int)
  OBVIOUS
<1> HIDE DEF ask
<1>4. CASE ask = None
  <2>1. (IF body.stated = None THEN 2 ELSE body.stated) \in Int
    BY <1>1
  <2>2. req.difficulty = 5 /\ req.output = IF body.stated = None THEN 2 ELSE body.stated
    BY <1>4 DEF TurnRequest
  <2> QED
    BY <1>2, <2>1, <2>2
<1>5. CASE ask # None
  <2> DEFINE agentic == body.tools /\ ask.tools
             output == IF agentic THEN 6 ELSE IF body.stated = None THEN 4 ELSE Least(body.stated, 4)
  <2>1. output \in Int
    BY <1>1 DEF Least
  <2>2. req.difficulty = ask.difficulty /\ req.output = output
    BY <1>5 DEF TurnRequest
  <2> QED
    BY <1>2, <1>3, <1>5, <2>1, <2>2
<1> QED
  BY <1>4, <1>5

\* More output costs no less.
LEMMA PriceGrows ==
  ASSUME NEW x, IsCandidate(x), x.output >= 0, NEW prompt \in Int, NEW a \in Int, NEW b \in Int, a <= b
  PROVE  /\ CallPrice(x, prompt, a) \in Int /\ CallPrice(x, prompt, b) \in Int
         /\ CallPrice(x, prompt, a) <= CallPrice(x, prompt, b)
<1> DEFINE rest == (Most(prompt, x.cached) - x.cached) * x.input + x.cached * x.read
<1>1. x.input \in Int /\ x.read \in Int /\ x.output \in Nat /\ x.cached \in Int
  BY DEF IsCandidate
<1>2. rest \in Int
  BY <1>1 DEF Most
<1>3. CallPrice(x, prompt, a) = rest + a * x.output /\ CallPrice(x, prompt, b) = rest + b * x.output
  BY DEF CallPrice
<1>4. a * x.output \in Int /\ b * x.output \in Int /\ a * x.output <= b * x.output
  BY <1>1
<1> HIDE DEF rest
<1> QED
  BY <1>2, <1>3, <1>4

\* What is held within the limit costs no more than the bound checked before.
LEMMA EntryBounded ==
  ASSUME NEW body \in Acceptable, NEW i \in Scorable(body), NEW req, req.output \in Int
  PROVE  LET x == body.candidates[i]
             m == Model[x.model]
         IN  /\ CallPrice(x, body.prompt, ExpectedOutput(m, body, req)) \in Int
             /\ CallPrice(x, body.prompt, ExpectedOutput(m, body, req)) <= UpperCost(body, i)
<1> DEFINE x == body.candidates[i]
           m == Model[x.model]
           wanted == (req.output * m.appetite) \div 10
           limit == OutputLimit(m, body)
           out == Least(wanted, limit)
<1>1. IsBody(body) /\ Valid(body) /\ i \in DOMAIN body.candidates /\ x.model \in Names
  BY BodiesTyped DEF Acceptable, Scorable, Names
<1>2. IsCandidate(x) /\ x.output >= 0 /\ body.prompt \in Int /\ body.n \in Nat /\ body.stated \in Nat \cup {None}
  <2>1. IsCandidate(x)
    BY <1>1 DEF IsBody
  <2>2. x.output >= 0
    BY <1>1 DEF Valid
  <2>3. body.prompt \in Int /\ body.n \in Nat /\ body.stated \in Nat \cup {None}
    BY <1>1 DEF IsBody
  <2> QED
    BY <2>1, <2>2, <2>3
<1>3. m.appetite \in Nat /\ m.maxOutput \in Nat
  <2>1. IsModelInfo(m)
    BY <1>1, Models
  <2> HIDE DEF m
  <2> QED
    BY <2>1 DEF IsModelInfo
<1>4. wanted \in Int /\ limit \in Int
  BY <1>2, <1>3 DEF OutputLimit, Least
<1> HIDE DEF wanted, limit
<1>5. out \in Int /\ out <= limit
  BY <1>4 DEF Least
<1> HIDE DEF out
<1>6. out * body.n \in Int /\ limit * body.n \in Int /\ out * body.n <= limit * body.n
  BY <1>2, <1>4, <1>5
<1>7. ExpectedOutput(m, body, req) = out * body.n
  BY DEF ExpectedOutput, out, wanted, limit
<1>8. UpperCost(body, i) = CallPrice(x, body.prompt, limit * body.n)
  BY DEF UpperCost, limit
<1> HIDE DEF x, m
<1>9. /\ CallPrice(x, body.prompt, out * body.n) \in Int
      /\ CallPrice(x, body.prompt, out * body.n) <= CallPrice(x, body.prompt, limit * body.n)
  BY <1>2, <1>6, PriceGrows
<1> QED
  BY <1>7, <1>8, <1>9 DEF x, m

LEMMA EntriesAreSound ==
  ASSUME NEW body \in Acceptable, NEW cls, cls = None \/ cls.difficulty \in Int
  PROVE  RankingOf(body, Entries(body, RankRequest(body, cls)))
<1> DEFINE req == RankRequest(body, cls)
           cost(i) == CallPrice(body.candidates[i], body.prompt,
                                ExpectedOutput(Model[body.candidates[i].model], body, req))
           quality(i) == P(SuccessV1(<<>>), Model[body.candidates[i].model], req.category, req.difficulty)
           ev == [i \in Scorable(body) |-> [id |-> body.candidates[i].id, quality |-> quality(i), cost |-> cost(i)]]
           entries == {ev[i] : i \in Scorable(body)}
<1>1. IsBody(body) /\ Valid(body) /\ Scorable(body) # {}
  BY BodiesTyped DEF Acceptable
<1>2. req.difficulty \in Int /\ req.output \in Int
  BY <1>1, RankRequestNumbers
<1> HIDE DEF req
<1>3. \A i \in Scorable(body) : cost(i) \in Int /\ cost(i) <= UpperCost(body, i)
  BY <1>2, EntryBounded
<1>4. \A i \in Scorable(body) : quality(i) \in Int
  <2>1. IsSuccess(SuccessV1(<<>>))
    BY DEF IsSuccess, SuccessV1
  <2>2. \A i \in Scorable(body) : IsModelInfo(Model[body.candidates[i].model])
    BY Models DEF Scorable, Names
  <2> QED
    BY <1>2, <2>1, <2>2, SuccessIsNumber
<1>5. Entries(body, req) = entries
  BY DEF Entries
<1> HIDE DEF cost, quality
<1>6. \A i \in Scorable(body) : /\ ev[i].id = body.candidates[i].id /\ ev[i].cost = cost(i)
                                /\ ev[i].quality = quality(i)
  OBVIOUS
<1> HIDE DEF ev
<1>7. \A x \in entries : IsEntry(x)
  BY <1>3, <1>4, <1>6 DEF IsEntry
<1>8. \A x \in entries : \E i \in Scorable(body) : body.candidates[i].id = x.id /\ x.cost <= UpperCost(body, i)
  BY <1>3, <1>6
<1>9. IsFiniteSet(entries) /\ entries # {}
  <2>1. DOMAIN body.candidates = 1..Len(body.candidates) /\ Len(body.candidates) \in Nat
    BY <1>1 DEF IsBody
  <2>2. IsFiniteSet(DOMAIN body.candidates)
    BY <2>1, FS_Interval
  <2>3. IsFiniteSet(Scorable(body))
    BY <2>2, FS_Subset DEF Scorable
  <2> QED
    BY <1>1, <2>3, ImageFinite
<1> HIDE DEF entries
<1>10. PreferenceLowersCost(entries, Scale(entries))
  BY <1>7, <1>9, ScaleIsNumber, CostFallsWithPreference
<1> QED
  BY <1>5, <1>8, <1>10 DEF RankingOf, req

LEMMA ScoreEntriesSettles ==
  ASSUME Settled(k), NEW c \in Caller, ScoreEntries(c)
  PROVE  Settled(k')
<1> DEFINE ev == k.calls[c]
           cls == IF ev.told \in LocalModels \cup Hosted THEN ev.said ELSE None
           entries == Entries(ev.body, RankRequest(ev.body, cls))
           d == [ev EXCEPT !.entries = entries]
<1>1. /\ DOMAIN k = StateFields /\ DOMAIN k.calls = Caller /\ DOMAIN ev = CallFields
      /\ Based(ev) /\ AtLoad(k, c, ev)
  BY Shapes
<1>2. /\ k' = [k EXCEPT !.calls[c].entries = entries]
  BY DEF ScoreEntries
<1>3. ev.body \in Acceptable
  BY <1>1 DEF Based, ScoreEntries
<1>4. cls = None \/ cls.difficulty \in Int
  BY <1>1 DEF Based
<1>5. RankingOf(ev.body, entries)
  BY <1>3, <1>4, EntriesAreSound
<1> HIDE DEF entries, cls
<1>6. Becomes(c, d, k.session, k.tokenizer, k.sessions, k.lock, k.free)
  BY <1>1, <1>2 DEF Becomes, StateFields
<1>7. /\ DOMAIN d = CallFields /\ d.pc = ev.pc /\ d.via = ev.via /\ d.backend = ev.backend /\ d.told = ev.told
      /\ d.said = ev.said /\ d.busy = ev.busy /\ d.body = ev.body /\ d.entries = entries
  BY <1>1 DEF CallFields
<1> HIDE DEF d, ev
<1>8. Based(d) /\ (Occupies(d) <=> Occupies(ev))
  BY <1>1, <1>5, <1>7 DEF Based, Occupies
<1>9. AtLoad(k, c, d)
  BY <1>1, <1>7 DEF AtLoad
<1> QED
  BY <1>6, <1>7, <1>8, <1>9, CallSettles DEF ev

----------------------------------------------------------------------------
(* The behaviours *)

LEMMA LoadsSettle ==
  ASSUME Settled(k), NEW c \in Caller, Loads(c)
  PROVE  Settled(k')
BY CheckSettles, LockSettles, LoadSettles, OpenSessionSettles DEF Loads

LEMMA SpeaksSettle ==
  ASSUME Settled(k), NEW c \in Caller, Speaks(c)
  PROVE  Settled(k')
<1> DEFINE answers == IF k.calls[c].backend = "local-jev" THEN {EvaluateLetters(reply) : reply \in Letters}
                      ELSE Replies
<1>1. ASSUME NEW answer \in answers PROVE answer.score \in Int \cup {None}
  BY LettersGraded, AnswersTyped
<1>2. \/ \E answer \in answers : Infer(c, answer) \/ HttpAnswer(c, answer)
      \/ \E again \in BOOLEAN : HttpError(c, again)
  BY DEF Speaks
<1> HIDE DEF answers
<1> QED
  BY <1>1, <1>2, InferSettles, HttpAnswerSettles, HttpErrorSettles

LEMMA RankCallSettles ==
  ASSUME Settled(k), NEW c \in Caller, RankCall(c), ~SendRanking(c)
  PROVE  Settled(k')
BY AskRankSettles, RankRefusedSettles, GiveSlotBackSettles, TakeResultSettles, ScoreEntriesSettles DEF RankCall

LEMMA StepKeepsSettled ==
  ASSUME Settled(k), [ClassifyNext]_k
  PROVE  Settled(k')
<1>1. CASE ClassifyNext
  <2>1. PICK c \in Caller :
          \/ AskTurn(c) \/ AskJudge(c)
          \/ Loads(c)
          \/ Speaks(c)
          \/ Return(c)
          \/ RankCall(c)
    BY <1>1 DEF ClassifyNext
  <2> QED
    BY <2>1, AskSettles, LoadsSettle, SpeaksSettle, LeaveSettles, RankCallSettles
<1>2. CASE UNCHANGED k
  BY <1>2
<1> QED
  BY <1>1, <1>2

LEMMA StartSettled ==
  ASSUME ClassifyInit
  PROVE  Settled(k)
<1>1. PICK setup \in ClassifierSetups : Starts(setup.policy) /\ k = ClassifyStart(setup)
  BY DEF ClassifyInit
<1>2. /\ DOMAIN k = StateFields /\ k.setup = setup /\ k.session = FALSE /\ k.tokenizer = FALSE
      /\ k.sessions = 0 /\ k.free = Concurrency /\ k.calls = [c \in Caller |-> NoCall]
  BY <1>1 DEF ClassifyStart, StateFields
<1>3. Configured(k) # "busy"
  BY <1>1, <1>2 DEF Configured, Starts, LocalModels, Hosted
<1>4. \A c \in Caller : k.calls[c] = NoCall
  BY <1>2
<1>5. Shaped(k)
  <2>1. DOMAIN k.calls = Caller /\ \A c \in Caller : DOMAIN k.calls[c] = CallFields
    BY <1>2, <1>4, NothingCalled
  <2>2. {k.session, k.tokenizer} \subseteq BOOLEAN
    BY <1>2
  <2>3. k.free \in Int
    BY <1>2, ClassifyNumbers
  <2> QED
    BY <1>2, <1>3, <2>1, <2>2, <2>3 DEF Shaped
<1>6. OneModel(k)
  BY <1>2 DEF OneModel
<1>7. Slots(k)
  <2>1. {c \in Caller : Occupies(k.calls[c])} = {}
    BY <1>4, NothingCalled DEF Occupies
  <2> QED
    BY <1>2, <2>1, FS_EmptySet, ClassifyNumbers DEF Slots
<1>8. \A c \in Caller : AtLoad(k, c, k.calls[c]) /\ Based(k.calls[c])
  BY <1>4, NothingCalled, ClassifyNumbers DEF Based, AtLoad, Local
<1> QED
  BY <1>5, <1>6, <1>7, <1>8 DEF Settled

\* The calls' invariant: a model is loaded by whoever holds its lock, the
\* slots are counted, and a basis is only named once it was heard.
THEOREM CallsStaySettled == ClassifySpec => []SettledInv
<1>1. ClassifyInit => SettledInv
  BY StartSettled DEF SettledInv
<1>2. SettledInv /\ [ClassifyNext]_k => SettledInv'
  BY StepKeepsSettled DEF SettledInv
<1> QED
  BY <1>1, <1>2, PTL DEF ClassifySpec

\* A slot is given back for every call that took one, whatever fails, times
\* out or finishes late; a ranking names its basis truly; and one session is
\* opened however many calls arrive before it is there.
THEOREM CallsAreSettled == ClassifySpec => []CallsSettled
<1>1. SettledInv => CallsSettled
  <2> SUFFICES ASSUME Settled(k) PROVE CallsSettled
    BY DEF SettledInv
  <2>1. SlotsAreCalls
    BY UnderWayOccupies DEF SlotsAreCalls
  <2>2. BasisHonest
    BY DEF Settled, Based, BasisHonest
  <2>3. OneSession
    BY DEF Settled, AtLoad, OneModel, OneSession
  <2> QED
    BY <2>1, <2>2, <2>3 DEF CallsSettled
<1> QED
  BY <1>1, CallsStaySettled, PTL

\* Every ranking that is sent has a cost that falls with the preference, and
\* no entry above the bound checked before anything was asked.
THEOREM RankingsAreSound == ClassifySpec => []RankingSound
<1>1. SettledInv => RankingSound
  BY DEF SettledInv, Settled, Based, RankingSound
<1> QED
  BY <1>1, CallsStaySettled, PTL
----------------------------------------------------------------------------
(* The cache every process of a user shares, and what may count as direct   *)

LoadSteps == {"stat", "cached", "network", "open", "write", "replace", "fallback"}
Served == {"network", "cache"}

\* When a document was served, as seen by the load that uses it.
Lately(s, at) == at \in Int /\ at > s.since - TTL - MaxSlow

Inode(v, now) ==
  /\ DOMAIN v = {"at", "state", "mtime"} /\ v.mtime \in Int /\ v.mtime <= now
  /\ v.state # "empty" => v.at \in Int /\ v.at >= v.mtime - MaxSlow

CacheEntry(f, now) ==
  /\ DOMAIN f = {"disk", "tmp", "inode"} /\ {f.disk, f.tmp} \subseteq {NoFile} \cup Inodes
  /\ DOMAIN f.inode = Inodes /\ \A i \in Inodes : Inode(f.inode[i], now)

\* One process: how long it has been loading, what it has open, and that what
\* it was served or found fresh is no older than the cache allows.
Process(s, now) ==
  /\ DOMAIN s = {"pc", "job", "cfg", "todo", "got", "offline", "age", "body", "handle", "slow",
                 "since", "loaded"}
  /\ s.pc \in {"idle", "building", "up"} \cup LoadSteps
  /\ s.slow \in 0..MaxSlow /\ s.since \in Int
  /\ s.pc \in {"building"} \cup LoadSteps => s.since + s.slow = now
  /\ s.pc \in LoadSteps => s.todo \in Seq(Need) /\ s.todo # <<>>
  /\ IF s.pc \in {"write", "replace"} THEN s.handle \in Inodes ELSE s.handle = NoFile
  /\ s.pc \in {"open", "write", "replace"} => s.body \in Int /\ s.since <= s.body /\ s.body <= now
  /\ s.age = None \/ s.age \in Int
  /\ s.pc = "cached" => FreshEnough(s)
  /\ \A n \in DOMAIN s.got :
       /\ s.got[n].source \in Served \cup {"stale-cache", "bundled-snapshot", "missing"}
       /\ s.got[n].source \in Served => Lately(s, s.got[n].at)

\* A process that has written: whatever the temporary name means was written
\* since it started, whoever wrote it.
Overwritten(s, f) ==
  s.pc \in {"write", "replace"} /\ f.tmp # NoFile /\ f.inode[f.tmp].state # "empty" =>
    f.inode[f.tmp].mtime >= s.since

\* A process that found the file fresh may find another one in its place when
\* it reads, but none that was served too long ago.
StillFresh(s, f) ==
  /\ s.pc \in LoadSteps \ {"stat"} /\ s.age # None /\ s.age < Ttl(s)
  /\ f.disk # NoFile /\ f.inode[f.disk].state = "whole"
  => Lately(s, f.inode[f.disk].at)

Beheld(s, f) == s.pc \in LoadSteps => Overwritten(s, f) /\ StillFresh(s, f)

\* What an answer that counts rests on.
Grounded(s) ==
  s.pc = "up" /\ s.loaded # None =>
    \A m \in s.loaded.models, c \in Category :
      EvidenceStrength(m, c) = "direct" =>
        \/ c \in m.override
        \/ \E n \in DOMAIN s.got : n[1] = m.name /\ n[2] = "own" /\ Lately(s, s.got[n].at)

Shared ==
  /\ DOMAIN e = {"now", "loads", "file", "snapshot", "reader"} /\ e.now \in Nat
  /\ DOMAIN e.file = Path /\ \A path \in Path : CacheEntry(e.file[path], e.now)
  /\ DOMAIN e.reader = Reader

Wanting(s) == Head(s.todo)[3]

Each(s) == /\ Process(s, e.now) /\ Grounded(s)
           /\ s.pc \in LoadSteps => Beheld(s, e.file[Wanting(s)])

EvidenceInv == Shared /\ \A p \in Reader : Each(e.reader[p])

Quick == MaxSlow < TTL

LEMMA Numbers == TTL \in Nat /\ MaxSlow \in Nat /\ IsFiniteSet(Reader)
BY EvidenceNumbers

LEMMA WantsPath ==
  ASSUME NEW s, s.todo \in Seq(Need), s.todo # <<>>
  PROVE  Head(s.todo) \in Need /\ Wanting(s) \in Path /\ Tail(s.todo) \in Seq(Need)
<1>1. Head(s.todo) \in Need /\ Tail(s.todo) \in Seq(Need)
  OBVIOUS
<1> QED
  BY <1>1 DEF Need, Wanting

\* There is always an inode to create a file in.
LEMMA InodeLeft ==
  ASSUME NEW F, NEW p \in Reader, NEW open,
         open \subseteq {F.disk} \cup {e.reader[q].handle : q \in Reader \ {p}} \cup {NoFile}
  PROVE  Min(Inodes \ open) \in Inodes
<1> DEFINE N == Cardinality(Reader)
<1>1. N \in Nat
  BY Numbers, FS_CardinalityType
<1>2. IsFiniteSet(1..(N + 1)) /\ Cardinality(1..(N + 1)) = N + 1
  <2>1. 1 \in Int /\ N + 1 \in Int
    BY <1>1
  <2>2. IsFiniteSet(1..(N + 1)) /\ Cardinality(1..(N + 1)) = IF 1 > N + 1 THEN 0 ELSE (N + 1) - 1 + 1
    BY <2>1, FS_Interval
  <2> HIDE DEF N
  <2> QED
    BY <2>2, <1>1
<1>3. Inodes = 1..(N + 1)
  BY DEF Inodes
<1> HIDE DEF N
<1>4. Inodes \ open # {}
  <2> SUFFICES ASSUME Inodes \subseteq open PROVE FALSE
    OBVIOUS
  <2> DEFINE f == [i \in Inodes |-> IF i = F.disk THEN p
                                    ELSE CHOOSE q \in Reader \ {p} : e.reader[q].handle = i]
  <2>1. ASSUME NEW i \in Inodes
        PROVE  IF i = F.disk THEN f[i] = p ELSE f[i] \in Reader \ {p} /\ e.reader[f[i]].handle = i
    <3>1. CASE i = F.disk
      BY <3>1
    <3>2. CASE i # F.disk
      <4>1. i \in open /\ i # NoFile
        BY <1>1, <1>3 DEF NoFile
      <4>2. \E q \in Reader \ {p} : e.reader[q].handle = i
        BY <4>1, <3>2
      <4>3. f[i] = CHOOSE q \in Reader \ {p} : e.reader[q].handle = i
        BY <3>2
      <4> QED
        BY <4>2, <4>3, <3>2
    <3> QED
      BY <3>1, <3>2
  <2>2. f \in [Inodes -> Reader]
    BY <2>1
  <2> HIDE DEF f
  <2>3. Cardinality(Reader) < Cardinality(Inodes) /\ IsFiniteSet(Inodes)
    BY <1>1, <1>2, <1>3 DEF N
  <2>4. \E i, j \in Inodes : i # j /\ f[i] = f[j]
    BY <2>2, <2>3, Numbers, FS_PigeonHole
  <2> QED
    BY <2>1, <2>4
<1>5. PICK x \in Inodes \ open : \A y \in Inodes \ open : x <= y
  <2>1. Inodes \ open \in SUBSET Nat
    BY <1>1, <1>3
  <2> QED
    BY <2>1, <1>4, NatLeast
<1> QED
  BY <1>5 DEF Min

\* An answer takes the place of what was asked for.
LEMMA AnsweredHolds ==
  ASSUME EvidenceInv, NEW p \in Reader, e.reader[p].pc \in LoadSteps,
         NEW source \in Served \cup {"stale-cache", "bundled-snapshot", "missing"}, NEW at,
         source \in Served => Lately(e.reader[p], at), NEW f
  PROVE  LET s == Answered(p, source, at)
         IN Process(s, e.now) /\ Grounded(s) /\ (s.pc \in LoadSteps => Beheld(s, f))
<1> DEFINE s == e.reader[p]
           a == Answered(p, source, at)
           n == Head(s.todo)
           r == [source |-> source, path |-> Wanted(p), at |-> at]
<1>1. Process(s, e.now) /\ s.todo \in Seq(Need) /\ s.todo # <<>>
  BY DEF EvidenceInv, Each, Process
<1>2. Tail(s.todo) \in Seq(Need)
  BY <1>1, WantsPath
<1>3. a = [s EXCEPT !.got = Override(@, [x \in {n} |-> r]), !.todo = Tail(s.todo),
                    !.pc = IF Tail(s.todo) = <<>> THEN "building" ELSE "stat",
                    !.age = None, !.body = None, !.handle = NoFile]
  BY DEF Answered
<1> HIDE DEF a
<1>4. /\ DOMAIN a = DOMAIN s /\ a.todo = Tail(s.todo) /\ a.pc = (IF Tail(s.todo) = <<>> THEN "building" ELSE "stat")
      /\ a.age = None /\ a.handle = NoFile /\ a.slow = s.slow /\ a.since = s.since
      /\ a.got = Override(s.got, [x \in {n} |-> r])
  BY <1>1, <1>3 DEF Process
<1>5. DOMAIN a.got = {n} \cup DOMAIN s.got
  BY <1>4 DEF Override
<1>6. ASSUME NEW x \in DOMAIN a.got PROVE a.got[x] = IF x = n THEN r ELSE s.got[x]
  BY <1>4, <1>6 DEF Override
<1>7. ASSUME NEW x \in DOMAIN a.got
      PROVE  /\ a.got[x].source \in Served \cup {"stale-cache", "bundled-snapshot", "missing"}
             /\ a.got[x].source \in Served => Lately(a, a.got[x].at)
  <2>1. CASE x = n
    <3>1. a.got[x].source = source /\ a.got[x].at = at
      BY <2>1, <1>6
    <3>2. Lately(a, at) <=> Lately(s, at)
      BY <1>4 DEF Lately
    <3> QED
      BY <3>1, <3>2
  <2>2. CASE x # n
    <3>1. x \in DOMAIN s.got /\ a.got[x] = s.got[x]
      BY <2>2, <1>5, <1>6
    <3> QED
      BY <3>1, <1>1, <1>4 DEF Process, Lately
  <2> QED
    BY <2>1, <2>2
<1>8. Process(a, e.now)
  <2>1. s.slow \in 0..MaxSlow /\ s.since \in Int /\ s.since + s.slow = e.now
    BY <1>1 DEF Process
  <2> QED
    BY <1>1, <1>2, <1>4, <1>7, <2>1 DEF Process, LoadSteps
<1>9. Grounded(a) /\ (a.pc \in LoadSteps => Beheld(a, f))
  BY <1>4 DEF Grounded, Beheld, Overwritten, StillFresh, LoadSteps
<1> QED
  BY <1>8, <1>9 DEF a

\* One process becomes s, and perhaps one entry of the cache f.
Turns(p, s) ==
  /\ DOMAIN e' = DOMAIN e /\ e'.now = e.now /\ DOMAIN e'.reader = Reader
  /\ \A q \in Reader : e'.reader[q] = IF q = p THEN s ELSE e.reader[q]
Replaces(w, f) ==
  DOMAIN e'.file = Path /\ \A v \in Path : e'.file[v] = IF v = w THEN f ELSE e.file[v]

\* Only one process moves, and touches no file.
LEMMA OneProcess ==
  ASSUME EvidenceInv, NEW p \in Reader, NEW s, Turns(p, s), e'.file = e.file,
         Process(s, e.now), Grounded(s), s.pc \in LoadSteps => Beheld(s, e.file[Wanting(s)])
  PROVE  EvidenceInv'
<1>1. /\ DOMAIN e' = DOMAIN e /\ e'.now = e.now /\ e'.file = e.file /\ DOMAIN e'.reader = Reader
      /\ \A q \in Reader : e'.reader[q] = IF q = p THEN s ELSE e.reader[q]
  BY DEF Turns
<1>2. Shared'
  BY <1>1 DEF EvidenceInv, Shared
<1>3. ASSUME NEW q \in Reader PROVE Each(e.reader[q])'
  <2>1. CASE q = p
    BY <2>1, <1>1 DEF Each
  <2>2. CASE q # p
    BY <2>2, <1>1 DEF Each, EvidenceInv
  <2> QED
    BY <2>1, <2>2
<1> QED
  BY <1>2, <1>3 DEF EvidenceInv

\* One process moves and changes one entry of the cache, where the others
\* still see what they saw.
LEMMA OneEntry ==
  ASSUME EvidenceInv, NEW p \in Reader, NEW s, NEW w \in Path, NEW f,
         Turns(p, s), Replaces(w, f),
         Process(s, e.now), Grounded(s),
         s.pc \in LoadSteps => Beheld(s, IF Wanting(s) = w THEN f ELSE e.file[Wanting(s)]),
         CacheEntry(f, e.now),
         \A q \in Reader \ {p} : e.reader[q].pc \in LoadSteps /\ Beheld(e.reader[q], e.file[w])
                                 => Beheld(e.reader[q], f)
  PROVE  EvidenceInv'
<1>1. /\ DOMAIN e' = DOMAIN e /\ e'.now = e.now /\ DOMAIN e'.reader = Reader
      /\ \A q \in Reader : e'.reader[q] = IF q = p THEN s ELSE e.reader[q]
      /\ DOMAIN e'.file = Path /\ \A v \in Path : e'.file[v] = IF v = w THEN f ELSE e.file[v]
  BY DEF Turns, Replaces
<1>2. Shared'
  BY <1>1 DEF EvidenceInv, Shared
<1>3. ASSUME NEW q \in Reader PROVE Each(e.reader[q])'
  <2>1. CASE q = p
    <3>1. s.pc \in LoadSteps => Wanting(s) \in Path
      BY WantsPath DEF Process
    <3> QED
      BY <2>1, <3>1, <1>1 DEF Each
  <2>2. CASE q # p
    <3>1. Each(e.reader[q]) /\ e'.reader[q] = e.reader[q]
      BY <1>1, <2>2 DEF EvidenceInv
    <3>2. e.reader[q].pc \in LoadSteps => Wanting(e.reader[q]) \in Path
      BY <3>1, WantsPath DEF Process, Each
    <3>3. e.reader[q].pc \in LoadSteps => Beheld(e.reader[q], e'.file[Wanting(e.reader[q])])
      BY <3>1, <3>2, <1>1, <2>2 DEF Each
    <3> QED
      BY <3>1, <3>3, <1>1 DEF Each
  <2> QED
    BY <2>1, <2>2
<1> QED
  BY <1>2, <1>3 DEF EvidenceInv

LEMMA Becoming ==
  ASSUME EvidenceInv, NEW p \in Reader, NEW s, e' = [e EXCEPT !.reader[p] = s]
  PROVE  Turns(p, s) /\ e'.file = e.file
BY DEF EvidenceInv, Shared, Turns

LEMMA StartLoadMoves ==
  ASSUME EvidenceInv, NEW p \in Reader, NEW cfg \in Configs, StartLoad(p, cfg)
  PROVE  EvidenceInv'
<1> DEFINE s == [NewReader EXCEPT
                 !.pc = IF Needs(cfg) = <<>> THEN "building" ELSE "stat",
                 !.job = cfg.job, !.cfg = cfg, !.todo = Needs(cfg),
                 !.offline = cfg.offline,
                 !.since = e.now]
<1>1. Turns(p, s) /\ e'.file = e.file
  BY DEF StartLoad, EvidenceInv, Shared, Turns
<1>2. Needs(cfg) \in Seq(Need) /\ e.now \in Int /\ 0 \in 0..MaxSlow /\ e.now + 0 = e.now
  BY ConfigsAsk, Numbers DEF EvidenceInv, Shared
<1>3. /\ DOMAIN s = DOMAIN NewReader /\ s.pc = (IF Needs(cfg) = <<>> THEN "building" ELSE "stat")
      /\ s.todo = Needs(cfg) /\ s.slow = 0 /\ s.since = e.now /\ s.age = None /\ s.handle = NoFile
      /\ s.got = <<>>
  BY DEF NewReader
<1> HIDE DEF s
<1>4. DOMAIN s.got = {}
  BY <1>3
<1>5. Process(s, e.now)
  BY <1>2, <1>3, <1>4 DEF Process, LoadSteps, NewReader
<1>6. Grounded(s) /\ (s.pc \in LoadSteps => Beheld(s, e.file[Wanting(s)]))
  BY <1>3 DEF Grounded, Beheld, Overwritten, StillFresh, LoadSteps
<1> QED
  BY <1>1, <1>5, <1>6, OneProcess

\* A process that only goes on to another step.
LEMMA NextStep ==
  ASSUME EvidenceInv, NEW p \in Reader, NEW pc \in LoadSteps, NEW s,
         s = [e.reader[p] EXCEPT !.pc = pc], e.reader[p].pc \in LoadSteps \ {"stat", "write", "replace"},
         pc \in {"network", "fallback"}
  PROVE  Process(s, e.now) /\ Grounded(s) /\ Beheld(s, e.file[Wanting(s)])
<1> DEFINE old == e.reader[p]
<1>1. Process(old, e.now) /\ Beheld(old, e.file[Wanting(old)])
  BY DEF EvidenceInv, Each
<1>2. /\ DOMAIN s = DOMAIN old /\ s.pc = pc /\ s.todo = old.todo /\ s.got = old.got /\ s.age = old.age
      /\ s.handle = old.handle /\ s.slow = old.slow /\ s.since = old.since /\ s.job = old.job
  BY <1>1 DEF Process
<1> HIDE DEF old
<1>3. Wanting(s) = Wanting(old)
  BY <1>2 DEF Wanting
<1>4. Process(s, e.now)
  BY <1>1, <1>2 DEF Process, LoadSteps, Lately, old
<1>5. Grounded(s)
  BY <1>2 DEF Grounded
<1>6. Beheld(s, e.file[Wanting(s)])
  BY <1>1, <1>2, <1>3 DEF Beheld, Overwritten, StillFresh, Lately, Ttl, LoadSteps, old
<1> QED
  BY <1>4, <1>5, <1>6

LEMMA Mine ==
  ASSUME EvidenceInv, NEW p \in Reader, e.reader[p].pc \in LoadSteps
  PROVE  /\ Process(e.reader[p], e.now) /\ Beheld(e.reader[p], CacheFile(p))
         /\ Wanted(p) = Wanting(e.reader[p]) /\ Wanted(p) \in Path /\ CacheFile(p) = e.file[Wanted(p)]
         /\ CacheEntry(CacheFile(p), e.now) /\ e.now \in Nat
         /\ e.reader[p].since \in Int /\ e.reader[p].slow \in 0..MaxSlow
         /\ e.reader[p].since + e.reader[p].slow = e.now
<1>1. Process(e.reader[p], e.now) /\ Beheld(e.reader[p], e.file[Wanting(e.reader[p])])
  BY DEF EvidenceInv, Each
<1>2. Wanting(e.reader[p]) \in Path
  BY <1>1, WantsPath DEF Process
<1> QED
  BY <1>1, <1>2 DEF Wanted, Wanting, CacheFile, EvidenceInv, Shared, Process

LEMMA StatMoves ==
  ASSUME EvidenceInv, NEW p \in Reader, Stat(p)
  PROVE  EvidenceInv'
<1> DEFINE old == e.reader[p]
           f == CacheFile(p)
           age == IF f.disk = NoFile THEN None ELSE e.now - f.inode[f.disk].mtime
           aged == [old EXCEPT !.age = age]
           pc == IF FreshEnough(aged) /\ (aged.offline \/ aged.age < Ttl(aged)) THEN "cached"
                 ELSE IF aged.offline THEN "fallback" ELSE "network"
           s == [aged EXCEPT !.pc = pc]
<1>1. Turns(p, s) /\ e'.file = e.file /\ old.pc = "stat"
  BY Becoming DEF Stat, Reads
<1>2. /\ Process(old, e.now) /\ Wanted(p) = Wanting(old) /\ Wanted(p) \in Path /\ f = e.file[Wanted(p)]
      /\ CacheEntry(f, e.now) /\ old.since \in Int /\ old.slow \in 0..MaxSlow /\ e.now \in Nat
      /\ old.since + old.slow = e.now
  BY <1>1, Mine DEF LoadSteps
<1>3. DOMAIN aged = DOMAIN old /\ aged.age = age /\ aged.offline = old.offline /\ aged.job = old.job
  BY <1>2 DEF Process
<1>4. pc = "cached" => FreshEnough(aged)
  OBVIOUS
<1>5. pc \in {"cached", "fallback", "network"}
  OBVIOUS
<1>6. /\ DOMAIN s = DOMAIN old /\ s.pc = pc /\ s.todo = old.todo /\ s.got = old.got /\ s.age = age
      /\ s.handle = old.handle /\ s.slow = old.slow /\ s.since = old.since /\ s.job = old.job
  BY <1>2 DEF Process
<1>7. age = None \/ age \in Int
  <2>1. f.disk # NoFile => f.inode[f.disk].mtime \in Int
    BY <1>2 DEF CacheEntry, Inode
  <2>2. e.now \in Int
    BY ONLY <1>2
  <2>3. age = IF f.disk = NoFile THEN None ELSE e.now - f.inode[f.disk].mtime
    OBVIOUS
  <2> HIDE DEF age, f, old
  <2> QED
    BY ONLY <2>1, <2>2, <2>3
<1>8. FreshEnough(aged) => FreshEnough(s)
  BY <1>3, <1>6 DEF FreshEnough
<1> HIDE DEF s, pc, aged
<1>9. Process(s, e.now)
  BY <1>1, <1>2, <1>4, <1>5, <1>6, <1>7, <1>8 DEF Process, LoadSteps, Lately
<1>10. Grounded(s)
  BY <1>5, <1>6 DEF Grounded
<1>11. StillFresh(s, f)
  <2> SUFFICES ASSUME s.age # None, s.age < Ttl(s), f.disk # NoFile, f.inode[f.disk].state = "whole"
               PROVE  Lately(s, f.inode[f.disk].at)
    BY DEF StillFresh
  <2> DEFINE v == f.inode[f.disk]
  <2>1. /\ s.age = e.now - v.mtime /\ v.mtime \in Int /\ v.at \in Int /\ v.at >= v.mtime - MaxSlow
    BY <1>2, <1>6 DEF CacheEntry, Inode
  <2>2. Ttl(s) <= TTL /\ Ttl(s) \in Int
    BY Numbers DEF Ttl
  <2> HIDE DEF v
  <2>3. v.at > old.since - TTL - MaxSlow
    BY <2>1, <2>2, <1>2, Numbers
  <2> QED
    BY <2>1, <2>3, <1>6 DEF Lately, v
<1>12. Beheld(s, f) /\ Wanting(s) = Wanting(old)
  BY <1>5, <1>6, <1>11 DEF Beheld, Overwritten, Wanting
<1> QED
  BY <1>1, <1>2, <1>9, <1>10, <1>12, OneProcess

\* What a process finds on disk, when it looks for the second time.
LEMMA CachedAnswers ==
  ASSUME EvidenceInv, NEW p \in Reader, e.reader[p].pc \in {"cached", "fallback"},
         FreshEnough(e.reader[p]), Readable(p)
  PROVE  LET s == Answered(p, Source(e.reader[p]), CachedAt(p))
         IN Process(s, e.now) /\ Grounded(s) /\ (s.pc \in LoadSteps => Beheld(s, e.file[Wanting(s)]))
<1> DEFINE old == e.reader[p]
<1>1. old.pc \in LoadSteps \ {"stat"} /\ old.age # None
  BY DEF LoadSteps, FreshEnough
<1>2. old.age < Ttl(old) => Lately(old, CachedAt(p))
  BY <1>1, Mine DEF Beheld, StillFresh, Readable, CachedAt
<1>3. Source(old) = (IF old.age < Ttl(old) THEN "cache" ELSE "stale-cache")
  BY DEF Source
<1>4. Source(old) \in Served \cup {"stale-cache", "bundled-snapshot", "missing"}
      /\ (Source(old) \in Served => Lately(old, CachedAt(p)))
  BY <1>2, <1>3 DEF Served
<1> QED
  BY <1>1, <1>4, AnsweredHolds

LEMMA ReadCachedMoves ==
  ASSUME EvidenceInv, NEW p \in Reader, ReadCached(p)
  PROVE  EvidenceInv'
<1> DEFINE old == e.reader[p]
<1>1. old.pc = "cached" /\ Process(old, e.now)
  BY DEF ReadCached, EvidenceInv, Each
<1>2. FreshEnough(old)
  BY <1>1 DEF Process
<1>3. CASE Readable(p)
  <2>1. Turns(p, Answered(p, Source(old), CachedAt(p))) /\ e'.file = e.file
    BY <1>3, Becoming DEF ReadCached, Reads
  <2> QED
    BY <2>1, <1>1, <1>2, <1>3, CachedAnswers, OneProcess
<1>4. CASE ~Readable(p)
  <2> DEFINE pc == IF old.offline THEN "fallback" ELSE "network"
             s == [old EXCEPT !.pc = pc]
  <2>1. Turns(p, s) /\ e'.file = e.file
    BY <1>4, Becoming DEF ReadCached, Reads
  <2>2. pc \in {"network", "fallback"} /\ pc \in LoadSteps /\ old.pc \in LoadSteps \ {"stat", "write", "replace"}
    BY <1>1 DEF LoadSteps
  <2> HIDE DEF pc
  <2>3. Process(s, e.now) /\ Grounded(s) /\ Beheld(s, e.file[Wanting(s)])
    BY <2>2, NextStep
  <2> QED
    BY <2>1, <2>3, OneProcess
<1> QED
  BY <1>3, <1>4

LEMMA NetworkMoves ==
  ASSUME EvidenceInv, NEW p \in Reader, Network(p)
  PROVE  EvidenceInv'
<1> DEFINE old == e.reader[p]
           s == [old EXCEPT !.pc = "open", !.body = e.now]
           t == [old EXCEPT !.pc = "fallback"]
<1>1. old.pc = "network" /\ Process(old, e.now) /\ Beheld(old, e.file[Wanting(old)]) /\ e.now \in Nat
  BY DEF Network, EvidenceInv, Each, LoadSteps, Shared
<1>2. CASE Turns(p, s) /\ e'.file = e.file
  <2>1. /\ DOMAIN s = DOMAIN old /\ s.pc = "open" /\ s.body = e.now /\ s.todo = old.todo /\ s.got = old.got
        /\ s.age = old.age /\ s.handle = old.handle /\ s.slow = old.slow /\ s.since = old.since
        /\ s.job = old.job /\ Wanting(s) = Wanting(old)
    BY <1>1 DEF Process, Wanting
  <2>2. old.since <= e.now
    BY <1>1, Numbers DEF Process, LoadSteps
  <2> HIDE DEF s, old
  <2>3. Process(s, e.now)
    BY ONLY <1>1, <2>1, <2>2 DEF Process, LoadSteps, Lately
  <2> USE DEF old
  <2>4. Grounded(s) /\ Beheld(s, e.file[Wanting(s)])
    BY <1>1, <2>1 DEF Grounded, Beheld, Overwritten, StillFresh, Lately, Ttl, LoadSteps
  <2> QED
    BY <1>2, <2>3, <2>4, OneProcess
<1>3. CASE Turns(p, t) /\ e'.file = e.file
  <2>1. "fallback" \in LoadSteps /\ old.pc \in LoadSteps \ {"stat", "write", "replace"}
    BY <1>1 DEF LoadSteps
  <2>2. Process(t, e.now) /\ Grounded(t) /\ Beheld(t, e.file[Wanting(t)])
    BY <2>1, NextStep
  <2> QED
    BY <1>3, <2>2, OneProcess
<1>4. (Turns(p, s) /\ e'.file = e.file) \/ (Turns(p, t) /\ e'.file = e.file)
  BY Becoming DEF Network, Reads
<1> QED
  BY <1>2, <1>3, <1>4

LEMMA FallBackMoves ==
  ASSUME EvidenceInv, NEW p \in Reader, FallBack(p)
  PROVE  EvidenceInv'
<1> DEFINE old == e.reader[p]
           snap == IF old.job = "load" /\ e.snapshot # None /\ Wanted(p) \in DOMAIN e.snapshot
                   THEN e.snapshot[Wanted(p)] ELSE None
           s == IF FreshEnough(old) /\ Readable(p) THEN Answered(p, Source(old), CachedAt(p))
                ELSE IF snap # None THEN Answered(p, "bundled-snapshot", snap)
                ELSE Answered(p, "missing", None)
<1>1. old.pc = "fallback" /\ old.pc \in LoadSteps
  BY DEF FallBack, LoadSteps
<1>2. Turns(p, s) /\ e'.file = e.file
  BY Becoming DEF FallBack, Reads
<1>3. Process(s, e.now) /\ Grounded(s) /\ (s.pc \in LoadSteps => Beheld(s, e.file[Wanting(s)]))
  <2>1. CASE FreshEnough(old) /\ Readable(p)
    BY <2>1, <1>1, CachedAnswers
  <2>2. CASE ~(FreshEnough(old) /\ Readable(p)) /\ snap # None
    <3> HIDE DEF snap
    <3>1. "bundled-snapshot" \in Served \cup {"stale-cache", "bundled-snapshot", "missing"}
          /\ "bundled-snapshot" \notin Served
      BY DEF Served
    <3>2. LET a == Answered(p, "bundled-snapshot", snap)
          IN Process(a, e.now) /\ Grounded(a) /\ (a.pc \in LoadSteps => Beheld(a, e.file[Wanting(a)]))
      BY <3>1, <1>1, AnsweredHolds
    <3> QED
      BY <3>2, <2>2
  <2>3. CASE ~(FreshEnough(old) /\ Readable(p)) /\ snap = None
    <3> HIDE DEF snap
    <3>1. "missing" \in Served \cup {"stale-cache", "bundled-snapshot", "missing"} /\ "missing" \notin Served
      BY DEF Served
    <3>2. LET a == Answered(p, "missing", None)
          IN Process(a, e.now) /\ Grounded(a) /\ (a.pc \in LoadSteps => Beheld(a, e.file[Wanting(a)]))
      BY <3>1, <1>1, AnsweredHolds
    <3> QED
      BY <3>2, <2>3
  <2> QED
    BY <2>1, <2>2, <2>3
<1> QED
  BY <1>2, <1>3, OneProcess

LEMMA OpenTmpMoves ==
  ASSUME EvidenceInv, NEW p \in Reader, OpenTmp(p)
  PROVE  EvidenceInv'
<1> DEFINE old == e.reader[p]
           f == CacheFile(p)
           w == Wanted(p)
           open == {f.disk} \cup {e.reader[q].handle : q \in
                      {q \in Reader : e.reader[q].todo # <<>> /\ Wanted(q) = w}}
           i == IF f.tmp # NoFile THEN f.tmp ELSE Min(Inodes \ open)
           s == [old EXCEPT !.pc = "write", !.handle = i]
           g1 == [f EXCEPT !.tmp = i, !.inode[i] = Empty]
<1>1. old.pc = "open" /\ old.pc \in LoadSteps
  BY DEF OpenTmp, LoadSteps
<1>2. /\ Process(old, e.now) /\ Beheld(old, f) /\ w = Wanting(old) /\ w \in Path
      /\ f = e.file[w] /\ CacheEntry(f, e.now) /\ old.since \in Int /\ old.slow \in 0..MaxSlow
      /\ old.since + old.slow = e.now /\ e.now \in Nat
  BY <1>1, Mine
<1>3. i \in Inodes
  <2>1. open \subseteq {f.disk} \cup {e.reader[q].handle : q \in Reader \ {p}} \cup {NoFile}
    <3>1. old.handle = NoFile
      BY <1>1, <1>2 DEF Process
    <3> QED
      BY <3>1
  <2> HIDE DEF open
  <2>2. Min(Inodes \ open) \in Inodes
    BY <2>1, InodeLeft
  <2>3. f.tmp # NoFile => f.tmp \in Inodes
    BY <1>2 DEF CacheEntry
  <2> QED
    BY <2>2, <2>3
<1>4. e' = [e EXCEPT !.reader[p].pc = "write", !.reader[p].handle = i,
                       !.file[w].tmp = i, !.file[w].inode[i] = Empty]
  BY DEF OpenTmp
<1> HIDE DEF i
<1>5. Turns(p, s)
  BY <1>4 DEF EvidenceInv, Shared, Turns
<1>6. Replaces(w, g1)
  BY <1>2, <1>4 DEF EvidenceInv, Shared, Replaces
<1>7. /\ DOMAIN s = DOMAIN old /\ s.pc = "write" /\ s.handle = i /\ s.todo = old.todo /\ s.got = old.got
      /\ s.age = old.age /\ s.body = old.body /\ s.slow = old.slow /\ s.since = old.since
      /\ s.job = old.job /\ Wanting(s) = w
  BY <1>2 DEF Process, Wanting
<1>8. /\ DOMAIN g1 = DOMAIN f /\ g1.tmp = i /\ g1.disk = f.disk /\ DOMAIN g1.inode = Inodes
      /\ \A j \in Inodes : g1.inode[j] = IF j = i THEN Empty ELSE f.inode[j]
  BY <1>2, <1>3 DEF CacheEntry
<1> HIDE DEF s, g1
<1>9. Process(s, e.now)
  BY <1>1, <1>2, <1>3, <1>7 DEF Process, LoadSteps, Lately
<1>10. Empty.state = "empty" /\ Empty.mtime = 0 /\ DOMAIN Empty = {"at", "state", "mtime"}
  BY DEF Empty
<1>11. ASSUME NEW r, StillFresh(r, f) PROVE Beheld(r, g1)
  <2>1. Overwritten(r, g1)
    BY <1>3, <1>8, <1>10 DEF Overwritten
  <2>2. f.disk # NoFile => f.disk \in Inodes
    BY <1>2 DEF CacheEntry
  <2>3. f.disk # NoFile /\ g1.inode[f.disk].state = "whole" => g1.inode[f.disk] = f.inode[f.disk]
    BY <2>2, <1>8, <1>10
  <2>4. StillFresh(r, g1)
    BY <2>3, <1>8, <1>11 DEF StillFresh
  <2> QED
    BY <2>1, <2>4 DEF Beheld
<1>12. Grounded(s) /\ Beheld(s, g1)
  <2>1. StillFresh(s, f)
    BY <1>1, <1>2, <1>7 DEF Beheld, StillFresh, Ttl, Lately, LoadSteps
  <2> QED
    BY <2>1, <1>7, <1>11 DEF Grounded, LoadSteps
<1>13. CacheEntry(g1, e.now)
  <2>1. e.now >= 0
    BY DEF EvidenceInv, Shared
  <2>2. /\ DOMAIN f = {"disk", "tmp", "inode"} /\ {f.disk, f.tmp} \subseteq {NoFile} \cup Inodes
        /\ \A j \in Inodes : Inode(f.inode[j], e.now)
    BY ONLY <1>2 DEF CacheEntry
  <2> HIDE DEF old, f, w, open
  <2>3. DOMAIN g1 = {"disk", "tmp", "inode"} /\ {g1.disk, g1.tmp} \subseteq {NoFile} \cup Inodes
    BY ONLY <2>2, <1>3, <1>8
  <2>4. Inode(Empty, e.now)
    BY ONLY <2>1, <1>10 DEF Inode
  <2>5. ASSUME NEW j \in Inodes PROVE Inode(g1.inode[j], e.now)
    <3>1. CASE j = i
      BY ONLY <3>1, <2>4, <1>8, j \in Inodes
    <3>2. CASE j # i
      BY ONLY <3>2, <2>2, <1>8, j \in Inodes
    <3> QED
      BY <3>1, <3>2
  <2> QED
    BY ONLY <2>3, <2>5, <1>8 DEF CacheEntry
<1>14. \A q \in Reader \ {p} : e.reader[q].pc \in LoadSteps /\ Beheld(e.reader[q], e.file[w])
                               => Beheld(e.reader[q], g1)
  BY <1>2, <1>11 DEF Beheld
<1> QED
  BY <1>2, <1>5, <1>6, <1>7, <1>9, <1>12, <1>13, <1>14, OneEntry

LEMMA WriteTmpMoves ==
  ASSUME EvidenceInv, Quick, NEW p \in Reader, WriteTmp(p)
  PROVE  EvidenceInv'
<1> DEFINE old == e.reader[p]
           f == CacheFile(p)
           w == Wanted(p)
           i == old.handle
           s == [old EXCEPT !.pc = "replace"]
<1>1. old.pc = "write" /\ old.pc \in LoadSteps
  BY DEF WriteTmp, LoadSteps
<1>2. /\ Process(old, e.now) /\ Beheld(old, f) /\ w = Wanting(old) /\ w \in Path
      /\ f = e.file[w] /\ CacheEntry(f, e.now) /\ old.since \in Int /\ old.slow \in 0..MaxSlow
      /\ old.since + old.slow = e.now /\ e.now \in Nat
  BY <1>1, Mine
<1>3. i \in Inodes /\ old.body \in Int /\ old.since <= old.body /\ old.body <= e.now
  BY <1>1, <1>2 DEF Process
<1>4. PICK state \in {"whole", "broken"} :
        e' = [e EXCEPT !.reader[p].pc = "replace",
                       !.file[w].inode[i] = [at |-> old.body, state |-> state, mtime |-> e.now]]
  BY DEF WriteTmp
<1> DEFINE v == [at |-> old.body, state |-> state, mtime |-> e.now]
           g1 == [f EXCEPT !.inode[i] = v]
<1>5. Turns(p, s)
  BY <1>4 DEF EvidenceInv, Shared, Turns
<1>6. Replaces(w, g1)
  BY <1>2, <1>4 DEF EvidenceInv, Shared, Replaces
<1>7. /\ DOMAIN s = DOMAIN old /\ s.pc = "replace" /\ s.handle = i /\ s.todo = old.todo /\ s.got = old.got
      /\ s.age = old.age /\ s.body = old.body /\ s.slow = old.slow /\ s.since = old.since
      /\ s.job = old.job /\ Wanting(s) = w
  BY <1>2 DEF Process, Wanting
<1>8. /\ DOMAIN g1 = DOMAIN f /\ g1.tmp = f.tmp /\ g1.disk = f.disk /\ DOMAIN g1.inode = Inodes
      /\ \A j \in Inodes : g1.inode[j] = IF j = i THEN v ELSE f.inode[j]
  BY <1>2, <1>3 DEF CacheEntry
<1>9. v.at = old.body /\ v.mtime = e.now /\ DOMAIN v = {"at", "state", "mtime"}
  OBVIOUS
<1>10. {f.disk, f.tmp} \subseteq {NoFile} \cup Inodes
  BY <1>2 DEF CacheEntry
<1> HIDE DEF s, g1, v
<1>11. Process(s, e.now) /\ Grounded(s)
  BY <1>1, <1>2, <1>3, <1>7 DEF Process, LoadSteps, Lately, Grounded
<1>12. ASSUME NEW r, Beheld(r, f), r.pc \in LoadSteps, r.since \in Int, r.since <= e.now PROVE Beheld(r, g1)
  <2>1. Overwritten(r, g1)
    BY <1>8, <1>9, <1>10, <1>12 DEF Overwritten, Beheld
  <2>2. old.body > r.since - TTL - MaxSlow
    BY <1>2, <1>3, <1>12, Numbers DEF Quick
  <2>3. StillFresh(r, g1)
    BY <1>3, <1>8, <1>9, <1>10, <1>12, <2>2 DEF StillFresh, Beheld, Lately
  <2> QED
    BY <2>1, <2>3 DEF Beheld
<1>13. Beheld(s, g1)
  <2>1. Beheld(s, f)
    BY <1>1, <1>2, <1>7 DEF Beheld, Overwritten, StillFresh, Ttl, Lately, LoadSteps
  <2>2. s.since \in Int /\ s.since <= e.now /\ s.pc \in LoadSteps
    BY <1>2, <1>3, <1>7 DEF LoadSteps
  <2> QED
    BY <2>1, <2>2, <1>12
<1>14. CacheEntry(g1, e.now)
  <2>1. v.at >= v.mtime - MaxSlow
    BY <1>2, <1>3, <1>9, Numbers
  <2> QED
    <3>1. Inode(v, e.now)
      BY <2>1, <1>2, <1>3, <1>9 DEF Inode
    <3> QED
      BY <3>1, <1>2, <1>8, <1>10 DEF CacheEntry
<1>15. ASSUME NEW q \in Reader \ {p}, e.reader[q].pc \in LoadSteps, Beheld(e.reader[q], e.file[w])
       PROVE  Beheld(e.reader[q], g1)
  <2>1. e.reader[q].since \in Int /\ e.reader[q].since <= e.now
    BY <1>15, Mine
  <2> QED
    BY <2>1, <1>2, <1>12, <1>15
<1> QED
  BY <1>2, <1>5, <1>6, <1>7, <1>11, <1>13, <1>14, <1>15, OneEntry

\* A process that ends, or is not begun, has nothing to answer for.
LEMMA NothingYet ==
  ASSUME NEW now
  PROVE  Process(NewReader, now) /\ Grounded(NewReader) /\ NewReader.pc \notin LoadSteps
<1>1. /\ DOMAIN NewReader = {"pc", "job", "cfg", "todo", "got", "offline", "age", "body", "handle", "slow",
                             "since", "loaded"}
      /\ NewReader.pc = "idle" /\ NewReader.got = <<>> /\ NewReader.age = None
      /\ NewReader.handle = NoFile /\ NewReader.slow = 0 /\ NewReader.since = 0
  BY DEF NewReader
<1>2. DOMAIN NewReader.got = {}
  BY <1>1
<1> QED
  BY <1>1, <1>2, Numbers DEF Process, Grounded, LoadSteps

LEMMA ReplaceCachedMoves ==
  ASSUME EvidenceInv, Quick, NEW p \in Reader, ReplaceCached(p)
  PROVE  EvidenceInv'
<1> DEFINE old == e.reader[p]
           f == CacheFile(p)
           w == Wanted(p)
<1>1. old.pc = "replace" /\ old.pc \in LoadSteps
  BY DEF ReplaceCached, LoadSteps
<1>2. /\ Process(old, e.now) /\ Beheld(old, f) /\ w = Wanting(old) /\ w \in Path
      /\ f = e.file[w] /\ CacheEntry(f, e.now) /\ old.since \in Int /\ old.slow \in 0..MaxSlow
      /\ old.since + old.slow = e.now /\ e.now \in Nat
  BY <1>1, Mine
<1>3. old.body \in Int /\ old.since <= old.body /\ old.body <= e.now
  BY <1>1, <1>2 DEF Process
<1>4. CASE f.tmp = NoFile
  <2> DEFINE s == [old EXCEPT !.pc = "fallback", !.handle = NoFile]
  <2>1. e' = [e EXCEPT !.reader[p].pc = "fallback", !.reader[p].handle = NoFile]
    BY <1>4 DEF ReplaceCached
  <2>2. Turns(p, s) /\ e'.file = e.file
    BY <2>1 DEF EvidenceInv, Shared, Turns
  <2>3. /\ DOMAIN s = DOMAIN old /\ s.pc = "fallback" /\ s.handle = NoFile /\ s.todo = old.todo /\ s.got = old.got
        /\ s.age = old.age /\ s.body = old.body /\ s.slow = old.slow /\ s.since = old.since
        /\ s.job = old.job /\ Wanting(s) = w
    BY <1>2 DEF Process, Wanting
  <2> HIDE DEF s
  <2>4. Process(s, e.now)
    BY <1>1, <1>2, <2>3 DEF Process, LoadSteps, Lately
  <2>5. Grounded(s) /\ Beheld(s, e.file[Wanting(s)])
    BY <1>1, <1>2, <2>3 DEF Grounded, Beheld, Overwritten, StillFresh, Ttl, Lately, LoadSteps
  <2> QED
    BY <2>2, <2>4, <2>5, OneProcess
<1>5. CASE f.tmp # NoFile
  <2> DEFINE s == Answered(p, "network", old.body)
             g1 == [f EXCEPT !.disk = f.tmp, !.tmp = NoFile]
  <2>1. e' = [e EXCEPT !.file[w].disk = f.tmp, !.file[w].tmp = NoFile, !.reader[p] = s]
    BY <1>5 DEF ReplaceCached
  <2> HIDE DEF s
  <2>2. Turns(p, s)
    BY <2>1 DEF EvidenceInv, Shared, Turns
  <2>3. Replaces(w, g1)
    BY <1>2, <2>1 DEF EvidenceInv, Shared, Replaces
  <2>4. /\ DOMAIN g1 = DOMAIN f /\ g1.tmp = NoFile /\ g1.disk = f.tmp /\ g1.inode = f.inode
    BY <1>2 DEF CacheEntry
  <2> HIDE DEF g1
  <2>5. Lately(old, old.body)
    BY <1>2, <1>3, Numbers DEF Lately, Quick
  <2>6. /\ Process(s, e.now) /\ Grounded(s)
        /\ s.pc \in LoadSteps => Beheld(s, IF Wanting(s) = w THEN g1 ELSE e.file[Wanting(s)])
    <3>1. "network" \in Served \cup {"stale-cache", "bundled-snapshot", "missing"}
      BY DEF Served
    <3> DEFINE seen == IF Wanting(s) = w THEN g1 ELSE e.file[Wanting(s)]
    <3> HIDE DEF seen
    <3>2. Process(s, e.now) /\ Grounded(s) /\ (s.pc \in LoadSteps => Beheld(s, seen))
      BY <1>1, <2>5, <3>1, AnsweredHolds DEF s
    <3> QED
      BY <3>2 DEF seen
  <2>7. CacheEntry(g1, e.now)
    BY <1>2, <2>4 DEF CacheEntry
  <2>8. ASSUME NEW q \in Reader \ {p}, e.reader[q].pc \in LoadSteps, Beheld(e.reader[q], e.file[w])
        PROVE  Beheld(e.reader[q], g1)
    <3> DEFINE r == e.reader[q]
               v == f.inode[f.tmp]
    <3>1. r.since \in Int /\ r.since <= e.now
      BY <2>8, Mine
    <3>2. Overwritten(r, g1)
      BY <2>4 DEF Overwritten
    <3>3. v.state = "whole" => v.mtime \in Int /\ v.mtime >= old.since /\ v.at \in Int /\ v.at >= v.mtime - MaxSlow
      BY <1>1, <1>2, <1>5 DEF Beheld, Overwritten, CacheEntry, Inode
    <3> HIDE DEF v
    <3>4. v.state = "whole" => v.at \in Int /\ v.at > r.since - TTL - MaxSlow
      BY <3>1, <3>3, <1>2, Numbers DEF Quick
    <3>5. StillFresh(r, g1)
      BY <3>4, <2>4 DEF StillFresh, Lately, v
    <3> QED
      BY <3>2, <3>5 DEF Beheld
  <2> QED
    BY <1>2, <2>2, <2>3, <2>6, <2>7, <2>8, OneEntry
<1> QED
  BY <1>4, <1>5

LEMMA EndMoves ==
  ASSUME EvidenceInv, NEW p \in Reader, SnapshotWritten(p) \/ ReaderEnds(p)
  PROVE  EvidenceInv'
<1>1. Turns(p, NewReader) /\ e'.file = e.file
  BY DEF SnapshotWritten, ReaderEnds, Reads, EvidenceInv, Shared, Turns
<1> QED
  BY <1>1, NothingYet, OneProcess

\* A second passes for every process that loads.
LEMMA SecondMoves ==
  ASSUME EvidenceInv, Second
  PROVE  EvidenceInv'
<1> DEFINE r(q) == IF Loading(q) THEN [e.reader[q] EXCEPT !.slow = @ + 1] ELSE e.reader[q]
<1>1. /\ DOMAIN e' = DOMAIN e /\ e'.now = e.now + 1 /\ e'.file = e.file /\ DOMAIN e'.reader = Reader
      /\ \A q \in Reader : e'.reader[q] = r(q)
  <2>1. e'.reader = [p \in Reader |-> IF Loading(p) THEN [e.reader[p] EXCEPT !.slow = @ + 1] ELSE e.reader[p]]
    BY DEF Second, EvidenceInv, Shared
  <2>2. DOMAIN e' = DOMAIN e /\ e'.now = e.now + 1 /\ e'.file = e.file
    BY DEF Second, EvidenceInv, Shared
  <2> QED
    BY <2>1, <2>2
<1>2. \A q \in Reader : Loading(q) => e.reader[q].slow < MaxSlow
  BY DEF Second
<1>3. Shared'
  <2>1. \A f : CacheEntry(f, e.now) => CacheEntry(f, e.now + 1)
    BY DEF CacheEntry, Inode, EvidenceInv, Shared
  <2> QED
    BY <2>1, <1>1 DEF EvidenceInv, Shared
<1>4. ASSUME NEW q \in Reader PROVE Each(e.reader[q])'
  <2> DEFINE old == e.reader[q]
             s == e'.reader[q]
  <2>1. Process(old, e.now) /\ Grounded(old) /\ (old.pc \in LoadSteps => Beheld(old, e.file[Wanting(old)]))
    BY DEF EvidenceInv, Each
  <2>2. s = r(q) /\ e.now \in Nat
    BY <1>1 DEF EvidenceInv, Shared
  <2>3. CASE Loading(q)
    <3>1. /\ DOMAIN s = DOMAIN old /\ s.pc = old.pc /\ s.handle = old.handle /\ s.todo = old.todo /\ s.got = old.got
          /\ s.age = old.age /\ s.body = old.body /\ s.slow = old.slow + 1 /\ s.since = old.since
          /\ s.job = old.job /\ s.loaded = old.loaded /\ Wanting(s) = Wanting(old)
      BY <2>1, <2>2, <2>3 DEF Process, Wanting
    <3>2. old.slow < MaxSlow /\ old.pc \notin {"idle", "up"}
      BY <1>2, <2>3 DEF Loading
    <3> HIDE DEF s
    <3>3. s.slow \in 0..MaxSlow /\ s.since + s.slow = e.now + 1
      <4>1. old.slow \in 0..MaxSlow /\ old.since \in Int /\ old.since + old.slow = e.now
        BY <2>1, <3>2 DEF Process
      <4> HIDE DEF old
      <4> QED
        BY <4>1, <2>2, <3>1, <3>2, Numbers
    <3>4. Process(s, e.now + 1)
      BY <2>1, <2>2, <3>1, <3>2, <3>3 DEF Process, LoadSteps, Lately, FreshEnough
    <3>5. Grounded(s) /\ (s.pc \in LoadSteps => Beheld(s, e.file[Wanting(s)]))
      BY <2>1, <3>1, <3>2 DEF Grounded, Beheld, Overwritten, StillFresh, Lately, Ttl, LoadSteps
    <3> QED
      BY <3>4, <3>5, <1>1 DEF Each, s
  <2>4. CASE ~Loading(q)
    <3>1. s = old /\ old.pc \in {"idle", "up"}
      BY <2>2, <2>4 DEF Loading
    <3>2. Process(old, e.now + 1)
      BY <2>1, <3>1 DEF Process, LoadSteps
    <3> QED
      BY <2>1, <3>1, <3>2, <1>1 DEF Each, LoadSteps
  <2> QED
    BY <2>3, <2>4
<1> QED
  BY <1>3, <1>4 DEF EvidenceInv

\* What a route counts as direct, its own document says or the operator.
LEMMA CombinedDirect ==
  ASSUME NEW entry, NEW prices, NEW source, NEW ev, NEW report, NEW context, NEW tokens, NEW provider,
         NEW m, m = Combined(entry, prices, source, ev, report, context, tokens, provider),
         NEW c, EvidenceStrength(m, c) = "direct", c \notin m.override
  PROVE  m.name = entry.name /\ entry.like = None /\ ~Stale(source)
<1> DEFINE stated == DOMAIN entry.capability
           old == [d \in DOMAIN ev |-> IF entry.like # None THEN "weak" ELSE ev[d][2]]
           by == [d \in stated |-> "direct"]
           odd == ~(ev = <<>> /\ stated # {})
<1>1. /\ m.name = entry.name /\ m.override = stated /\ m.strength = Override(old, by)
      /\ m.stale = (Stale(source) /\ odd)
  BY DEF Combined
<1>2. c \notin m.override /\ ~m.stale /\ c \in DOMAIN m.strength /\ m.strength[c] = "direct"
  BY DEF EvidenceStrength
<1>3. c \in DOMAIN ev /\ m.strength[c] = old[c]
  BY <1>1, <1>2 DEF Override
<1>4. entry.like = None
  BY <1>2, <1>3
<1>5. ev # <<>>
  BY <1>3
<1> QED
  BY <1>1, <1>2, <1>4, <1>5

LEMMA ModelDirect ==
  ASSUME NEW entry, NEW providers, NEW own, NEW report, NEW alias,
         NEW m, m = BuildModel(entry, providers, own, report, alias), m # None,
         NEW c, EvidenceStrength(m, c) = "direct", c \notin m.override
  PROVE  m.name = entry.name /\ ~Stale(own)
<1> DEFINE provider == providers[entry.provider]
           source == IF entry.like # None THEN alias ELSE own
           prices == PricesOf(entry, Known(own, LAMBDA doc : PickOffer(doc, entry.offer)),
                              Either(entry.local, provider.local))
           ev == Either(Known(source, CapabilityEvidence), <<>>)
           context == Either(entry.context, Either(Known(own, ContextLength), Known(alias, ContextLength)))
           tokens == Either(Known(own, TaskTokens), Known(alias, TaskTokens))
<1>1. m = Combined(entry, prices, source, ev, report, context, tokens, provider)
  BY DEF BuildModel
<1> HIDE DEF ev, context, tokens, prices, provider
<1> QED
  BY <1>1, CombinedDirect

\* The share of the tokens changes nothing else of a route.
Described == {"name", "override", "strength", "stale", "capability"}

LEMMA AppetiteOnly ==
  ASSUME NEW built, \A i \in DOMAIN built : Described \subseteq DOMAIN built[i],
         NEW m \in Range(ApplyTokenAppetite(built))
  PROVE  \E i \in DOMAIN built : \A field \in Described : m[field] = built[i][field]
<1> DEFINE measured == SelectSeq(built, LAMBDA x : x.taskTokens # None)
           median == Median([i \in DOMAIN measured |-> measured[i].taskTokens])
           share(i) == Within(2, (10 * built[i].taskTokens) \div median, 40)
           all == [i \in DOMAIN built |-> IF built[i].taskTokens = None THEN built[i]
                                          ELSE [built[i] EXCEPT !.appetite = share(i)]]
<1>1. ApplyTokenAppetite(built) = IF Len(measured) < 2 THEN built ELSE all
  BY DEF ApplyTokenAppetite
<1> HIDE DEF measured, median, share
<1>2. CASE ApplyTokenAppetite(built) = built
  BY <1>2 DEF Range
<1>3. CASE ApplyTokenAppetite(built) = all
  <2>1. PICK i \in DOMAIN built : m = all[i]
    BY <1>3 DEF Range
  <2>2. \A field \in Described : field # "appetite" /\ field \in DOMAIN built[i]
    BY DEF Described
  <2> QED
    BY <2>1, <2>2
<1> QED
  BY <1>1, <1>2, <1>3

LEMMA SameStrength ==
  ASSUME NEW a, NEW b, \A field \in Described : a[field] = b[field], NEW c
  PROVE  EvidenceStrength(a, c) = EvidenceStrength(b, c)
<1>1. a.override = b.override /\ a.strength = b.strength /\ a.stale = b.stale /\ a.capability = b.capability
  BY DEF Described
<1> QED
  BY <1>1 DEF EvidenceStrength

LEMMA ModelFields ==
  ASSUME NEW entry, NEW providers, NEW own, NEW report, NEW alias,
         BuildModel(entry, providers, own, report, alias) # None
  PROVE  Described \subseteq DOMAIN BuildModel(entry, providers, own, report, alias)
<1>1. \A prices, source, ev, context, tokens, provider :
        Described \subseteq DOMAIN Combined(entry, prices, source, ev, report, context, tokens, provider)
  BY DEF Combined, Described
<1> QED
  BY <1>1 DEF BuildModel

\* What a load makes of what it was served.
LEMMA LoadGrounded ==
  ASSUME NEW cfg, NEW s, s.loaded = LoadConfig(cfg, s.got),
         \A n \in DOMAIN s.got :
           /\ s.got[n].source \in Served \cup {"stale-cache", "bundled-snapshot", "missing"}
           /\ s.got[n].source \in Served => Lately(s, s.got[n].at)
  PROVE  Grounded(s)
<1> DEFINE asked(name, kind) == {n \in DOMAIN s.got : n[1] = name /\ n[2] = kind}
           answer(name, kind) == IF asked(name, kind) = {} THEN NotFetched
                                 ELSE s.got[CHOOSE n \in asked(name, kind) : TRUE]
           built(ms) == [i \in DOMAIN ms |->
                          BuildModel(ms[i], cfg.providers, answer(ms[i].name, "own"),
                                     answer(ms[i].name, "report"), answer(ms[i].name, "alias"))]
           chosen == SelectModels(cfg)
           others == built(References(cfg, chosen))
           reference == ResolveReference(cfg, answer("policy", "reference"))
<1> SUFFICES ASSUME s.loaded # None, NEW m \in s.loaded.models, NEW c \in Category,
                    EvidenceStrength(m, c) = "direct", c \notin m.override
             PROVE  \E n \in DOMAIN s.got : n[1] = m.name /\ n[2] = "own" /\ Lately(s, s.got[n].at)
  BY DEF Grounded
<1>1. s.loaded = Accepted(cfg, built(chosen), others, reference)
  BY DEF LoadConfig
<1> HIDE DEF others, reference, chosen, answer
<1>2. /\ \A i \in DOMAIN built(chosen) : built(chosen)[i] # None
      /\ s.loaded.models = HttpRoutable(cfg, ApplyTokenAppetite(built(chosen)))
  BY <1>1 DEF Accepted
<1>3. m \in Range(ApplyTokenAppetite(built(chosen)))
  BY <1>2 DEF HttpRoutable
<1>4. \A i \in DOMAIN built(chosen) : Described \subseteq DOMAIN built(chosen)[i]
  BY <1>2, ModelFields
<1>5. PICK i \in DOMAIN built(chosen) : \A field \in Described : m[field] = built(chosen)[i][field]
  BY <1>3, <1>4, AppetiteOnly
<1> DEFINE entry == chosen[i]
           own == answer(entry.name, "own")
           b == built(chosen)[i]
<1>6. b = BuildModel(entry, cfg.providers, own, answer(entry.name, "report"), answer(entry.name, "alias"))
      /\ b # None
  BY <1>2
<1>7. m.name = b.name /\ m.override = b.override /\ EvidenceStrength(b, c) = "direct"
  BY <1>5, SameStrength DEF Described
<1> HIDE DEF b, own, entry
<1>8. m.name = entry.name /\ ~Stale(own)
  BY <1>6, <1>7, ModelDirect
<1>9. ~Stale(own) => asked(m.name, "own") # {} /\ own = s.got[CHOOSE n \in asked(m.name, "own") : TRUE]
  BY <1>8 DEF own, answer, Stale, NotFetched
<1>10. PICK n \in asked(m.name, "own") : own = s.got[n]
  BY <1>8, <1>9
<1>11. s.got[n].source \in Served
  BY <1>8, <1>10 DEF Stale
<1> QED
  BY <1>10, <1>11

LEMMA BuiltMoves ==
  ASSUME EvidenceInv, NEW p \in Reader, Built(p)
  PROVE  EvidenceInv'
<1> DEFINE old == e.reader[p]
           s == [old EXCEPT !.pc = "up", !.loaded = LoadConfig(old.cfg, old.got)]
<1>1. Turns(p, s) /\ e'.file = e.file /\ old.pc = "building"
  BY Becoming DEF Built, Reads
<1>2. Process(old, e.now)
  BY DEF EvidenceInv, Each
<1>3. /\ DOMAIN s = DOMAIN old /\ s.pc = "up" /\ s.handle = old.handle /\ s.got = old.got /\ s.age = old.age
      /\ s.slow = old.slow /\ s.since = old.since /\ s.loaded = LoadConfig(old.cfg, s.got)
  BY <1>2 DEF Process
<1> HIDE DEF s
<1>4. Process(s, e.now)
  BY <1>1, <1>2, <1>3 DEF Process, LoadSteps, Lately
<1>5. Grounded(s)
  <2> DEFINE cfg == old.cfg
  <2> HIDE DEF cfg
  <2>1. s.loaded = LoadConfig(cfg, s.got)
    BY <1>3 DEF cfg
  <2> QED
    BY <2>1, <1>4, LoadGrounded DEF Process
<1> QED
  BY <1>1, <1>3, <1>4, <1>5, OneProcess DEF LoadSteps

LEMMA EvidenceStarts ==
  ASSUME EvidenceInit
  PROVE  EvidenceInv
<1>1. Inode(Empty, 0)
  BY DEF Inode, Empty
<1>2. CacheEntry(CachePath, 0)
  BY <1>1 DEF CacheEntry, CachePath
<1>3. Shared
  BY <1>2 DEF EvidenceInit, Shared
<1>4. ASSUME NEW p \in Reader PROVE Each(e.reader[p])
  BY NothingYet DEF EvidenceInit, Each
<1> QED
  BY <1>3, <1>4 DEF EvidenceInv

LEMMA EvidenceSteps ==
  ASSUME EvidenceInv, Quick, [EvidenceNext]_e
  PROVE  EvidenceInv'
<1>1. CASE UNCHANGED e
  BY <1>1 DEF EvidenceInv, Shared, Each
<1>2. ASSUME NEW p \in Reader, NEW cfg \in Configs, StartLoad(p, cfg) PROVE EvidenceInv'
  BY <1>2, StartLoadMoves
<1>3. ASSUME NEW p \in Reader,
             Stat(p) \/ ReadCached(p) \/ Network(p) \/ OpenTmp(p) \/ WriteTmp(p) \/ ReplaceCached(p)
               \/ FallBack(p) \/ Built(p) \/ SnapshotWritten(p) \/ ReaderEnds(p)
      PROVE  EvidenceInv'
  BY <1>3, StatMoves, ReadCachedMoves, NetworkMoves, OpenTmpMoves, WriteTmpMoves, ReplaceCachedMoves,
     FallBackMoves, BuiltMoves, EndMoves
<1>4. CASE Second
  BY <1>4, SecondMoves
<1> QED
  BY <1>1, <1>2, <1>3, <1>4 DEF EvidenceNext

\* A capability counts as direct evidence only if the operator stated it or the
\* API served a document of this very model within the lifetime of the cache,
\* for any number of processes that share the cache, write the same temporary
\* file and rename it over the same copy. A load takes less time than a copy
\* stays fresh (seconds against a day).
THEOREM MeasurementsAreCurrent ==
  Quick => (EvidenceInit /\ [][EvidenceNext]_e => []DirectIsCurrent)
<1> SUFFICES ASSUME Quick PROVE EvidenceInit /\ [][EvidenceNext]_e => []DirectIsCurrent
  OBVIOUS
<1>1. EvidenceInit => EvidenceInv
  BY EvidenceStarts
<1>2. EvidenceInv /\ [EvidenceNext]_e => EvidenceInv'
  BY EvidenceSteps
<1>3. EvidenceInv => DirectIsCurrent
  BY DEF EvidenceInv, Each, Grounded, Lately, DirectIsCurrent
<1> QED
  BY <1>1, <1>2, <1>3, PTL
=============================================================================
