-------------------------- MODULE ExperimentsProofs --------------------------
(* What the live experiments spend and what they record, for any number of   *)
(* tasks, launches, workers, retries and crashes, and any prices.            *)
EXTENDS Experiments, FiniteSetTheorems, WellFoundedInduction, TLAPS

----------------------------------------------------------------------------
(* Totals *)

\* The member of a set that a total takes first.
First(s) == CHOOSE t \in s : TRUE

\* The recursion of a total: the sum over each subset of S.
Sums(f, S, h) == h = [s \in SUBSET S |-> IF s = {} THEN 0 ELSE f[First(s)] + h[s \ {First(s)}]]

LEMMA TotalIs ==
  ASSUME NEW S, NEW f, DOMAIN f = S
  PROVE  Total(f) = (CHOOSE h : Sums(f, S, h))[S]
BY DEF Total, FoldFunction, FoldFunctionOnSet, MapThenFoldSet, Sums, First

\* What holds of the empty set, and of a set when it holds without the member
\* that is taken first, holds of all subsets of a finite set.
LEMMA ClimbSets ==
  ASSUME NEW S, IsFiniteSet(S), NEW H, {} \in H,
         \A s \in SUBSET S : s # {} /\ s \ {First(s)} \in H => s \in H
  PROVE  SUBSET S \subseteq H
<1>1. IsWellFoundedOn(StrictSubsetOrdering(S), SUBSET S)
  BY FS_StrictSubsetOrderingWellFounded, FS_FiniteSubsetsOfFinite
<1>2. SUFFICES ASSUME NEW s0 \in SUBSET S, s0 \notin H PROVE FALSE
  OBVIOUS
<1> DEFINE F == {s \in SUBSET S : s \notin H}
<1>3. PICK s \in F : \A r \in F : ~(<<r, s>> \in StrictSubsetOrdering(S))
  <2>1. F \subseteq SUBSET S /\ F # {}
    BY <1>2
  <2> HIDE DEF F
  <2> QED
    BY <1>1, <2>1, WFMin
<1>4. s # {} /\ First(s) \in s
  BY DEF First
<1>5. <<s \ {First(s)}, s>> \in StrictSubsetOrdering(S)
  BY <1>4 DEF StrictSubsetOrdering
<1> QED
  BY <1>3, <1>4, <1>5

LEMMA SubsetSumsExist ==
  ASSUME NEW S, IsFiniteSet(S), NEW f, \A t \in S : f[t] \in Int
  PROVE  \E h : Sums(f, S, h)
<1> DEFINE N == Cardinality(S)
           D(n) == {s \in SUBSET S : Cardinality(s) <= n}
           Value(h, s) == IF s = {} THEN 0 ELSE f[First(s)] + h[s \ {First(s)}]
           Solvable(n) == \E h : h = [s \in D(n) |-> Value(h, s)]
           H == {s \in SUBSET S : Solvable(Cardinality(s))}
<1>1. N \in Nat /\ \A s \in SUBSET S : IsFiniteSet(s) /\ Cardinality(s) \in Nat /\ Cardinality(s) <= N
  BY FS_CardinalityType, FS_Subset
<1>2. \A s \in SUBSET S : s # {} => /\ First(s) \in S /\ s \ {First(s)} \in SUBSET S
                                    /\ Cardinality(s \ {First(s)}) = Cardinality(s) - 1
  <2>1. ASSUME NEW s \in SUBSET S, s # {}
        PROVE  First(s) \in S /\ s \ {First(s)} \in SUBSET S /\ Cardinality(s \ {First(s)}) = Cardinality(s) - 1
    <3>1. First(s) \in s
      BY <2>1 DEF First
    <3> QED
      BY <1>1, <3>1, FS_RemoveElement
  <2> QED
    BY <2>1
<1>3. Solvable(0)
  <2> DEFINE e == [s \in D(0) |-> 0]
  <2>1. \A s \in D(0) : s = {}
    BY <1>1, FS_EmptySet
  <2>2. e = [s \in D(0) |-> Value(e, s)]
    BY <2>1
  <2> QED
    BY <2>2
<1>4. ASSUME NEW n \in 1..N, Solvable(n - 1) PROVE Solvable(n)
  <2>1. PICK h : h = [s \in D(n - 1) |-> Value(h, s)]
    BY <1>4
  <2> DEFINE e == [s \in D(n) |-> Value(h, s)]
  <2>2. \A s \in D(n - 1) : s \in D(n) /\ h[s] = Value(h, s)
    <3>1. \A s \in D(n - 1) : h[s] = Value(h, s)
      <4> HIDE DEF Value, D
      <4> QED
        BY <2>1
    <3>2. \A s \in D(n - 1) : s \in D(n)
      BY <1>1
    <3> QED
      BY <3>1, <3>2
  <2>3. \A s \in D(n - 1) : e[s] = h[s]
    <3> HIDE DEF Value, D
    <3> QED
      BY <2>2
  <2>4. \A s \in D(n) : Value(e, s) = Value(h, s)
    <3>1. \A s \in D(n) : s # {} => s \ {First(s)} \in D(n - 1)
      BY <1>1, <1>2
    <3> HIDE DEF e, D
    <3> QED
      BY <2>3, <3>1
  <2>5. e = [s \in D(n) |-> Value(e, s)]
    <3> HIDE DEF Value, D
    <3> QED
      BY <2>4
  <2> QED
    BY <2>5
<1> HIDE DEF Solvable
<1>5. SUBSET S \subseteq H
  <2>1. {} \in H
    BY <1>3, FS_EmptySet
  <2>2. ASSUME NEW s \in SUBSET S, s # {}, s \ {First(s)} \in H PROVE s \in H
    <3>1. Cardinality(s) \in 1..N /\ Solvable(Cardinality(s) - 1)
      BY <1>1, <1>2, <2>2
    <3> QED
      BY <1>4, <3>1
  <2> HIDE DEF H
  <2> QED
    BY <2>1, <2>2, ClimbSets
<1>6. Solvable(N)
  BY <1>5
<1>7. D(N) = SUBSET S
  BY <1>1
<1> QED
  BY <1>6, <1>7 DEF Solvable, Sums

\* A total is one of the functions of sums, at the whole set.
LEMMA TotalSums ==
  ASSUME NEW S, IsFiniteSet(S), NEW f, DOMAIN f = S, \A t \in S : f[t] \in Int
  PROVE  \E h : Sums(f, S, h) /\ Total(f) = h[S]
BY SubsetSumsExist, TotalIs

\* g is f but for d more at t.
Moved(S, f, g, t, d) == \A u \in S : g[u] = f[u] + (IF u = t THEN d ELSE 0)

\* Sums over each subset that are at a fixed distance where one term is, and
\* else the same.
LEMMA SumsChange ==
  ASSUME NEW S, IsFiniteSet(S), NEW f, NEW g, NEW h, NEW k, Sums(f, S, h), Sums(g, S, k),
         \A t \in S : f[t] \in Int,
         NEW t \in S, NEW d \in Int, Moved(S, f, g, t, d)
  PROVE  h[S] \in Int /\ k[S] = h[S] + d
<1> DEFINE H == {s \in SUBSET S : h[s] \in Int /\ k[s] = h[s] + (IF t \in s THEN d ELSE 0)}
<1>1. h[{}] = 0 /\ k[{}] = 0
  BY DEF Sums
<1>2. \A s \in SUBSET S : s # {} => /\ h[s] = f[First(s)] + h[s \ {First(s)}]
                                    /\ k[s] = g[First(s)] + k[s \ {First(s)}]
                                    /\ First(s) \in s
  BY DEF Sums, First
<1>3. {} \in H
  BY <1>1
<1>4. ASSUME NEW s \in SUBSET S, s # {}, s \ {First(s)} \in H PROVE s \in H
  <2> DEFINE c == First(s)
             r == s \ {c}
  <2>1. /\ h[s] = f[c] + h[r] /\ k[s] = g[c] + k[r] /\ c \in s
        /\ g[c] = f[c] + (IF c = t THEN d ELSE 0) /\ f[c] \in Int
    BY <1>2, <1>4 DEF Moved
  <2>2. h[r] \in Int /\ k[r] = h[r] + (IF t \in r THEN d ELSE 0)
    BY <1>4
  <2>3. c = t => t \notin r /\ t \in s
    BY <2>1
  <2>4. c # t => (t \in r <=> t \in s)
    OBVIOUS
  <2> HIDE DEF c, r
  <2>5. CASE c = t
    BY <2>1, <2>2, <2>3, <2>5
  <2>6. CASE c # t
    BY <2>1, <2>2, <2>4, <2>6
  <2> QED
    BY <2>5, <2>6
<1>5. SUBSET S \subseteq H
  <2> HIDE DEF H
  <2> QED
    BY <1>3, <1>4, ClimbSets
<1> QED
  BY <1>5

\* One term of a total changes.
LEMMA TotalChanges ==
  ASSUME NEW S, IsFiniteSet(S), NEW f, NEW g, DOMAIN f = S, DOMAIN g = S, \A u \in S : f[u] \in Int,
         NEW t \in S, NEW d \in Int, Moved(S, f, g, t, d)
  PROVE  Total(f) \in Int /\ Total(g) = Total(f) + d
<1>1. \A u \in S : g[u] \in Int
  BY DEF Moved
<1>2. PICK h : Sums(f, S, h) /\ Total(f) = h[S]
  BY TotalSums, Zenon
<1>3. PICK k : Sums(g, S, k) /\ Total(g) = k[S]
  BY <1>1, TotalSums, Zenon
<1>4. h[S] \in Int /\ k[S] = h[S] + d
  BY <1>2, <1>3, SumsChange
<1> QED
  BY <1>2, <1>3, <1>4

\* Sums whose terms differ by at most m differ by at most m for each.
LEMMA SumsCapped ==
  ASSUME NEW S, IsFiniteSet(S), NEW f, NEW g, NEW h, NEW k, Sums(f, S, h), Sums(g, S, k),
         \A t \in S : f[t] \in Int /\ g[t] \in Int,
         NEW m \in Int, \A t \in S : f[t] <= g[t] + m
  PROVE  h[S] \in Int /\ k[S] \in Int /\ h[S] <= k[S] + Cardinality(S) * m
<1> DEFINE H == {s \in SUBSET S : h[s] \in Int /\ k[s] \in Int /\ h[s] <= k[s] + Cardinality(s) * m}
<1>1. h[{}] = 0 /\ k[{}] = 0 /\ Cardinality({}) = 0
  BY FS_EmptySet DEF Sums
<1>2. \A s \in SUBSET S : s # {} => /\ h[s] = f[First(s)] + h[s \ {First(s)}]
                                    /\ k[s] = g[First(s)] + k[s \ {First(s)}]
                                    /\ First(s) \in s
  BY DEF Sums, First
<1>3. {} \in H
  <2>1. Cardinality({}) * m = 0
    BY <1>1
  <2> QED
    BY <1>1, <2>1
<1>4. ASSUME NEW s \in SUBSET S, s # {}, s \ {First(s)} \in H PROVE s \in H
  <2> DEFINE c == First(s)
             r == s \ {c}
  <2>1. /\ h[s] = f[c] + h[r] /\ k[s] = g[c] + k[r] /\ c \in s
        /\ f[c] <= g[c] + m /\ f[c] \in Int /\ g[c] \in Int
    BY <1>2, <1>4
  <2>2. h[r] \in Int /\ k[r] \in Int /\ h[r] <= k[r] + Cardinality(r) * m
    BY <1>4
  <2>3. IsFiniteSet(s) /\ Cardinality(s) \in Nat
    BY FS_Subset, FS_CardinalityType
  <2>4. Cardinality(r) = Cardinality(s) - 1
    BY <2>1, <2>3, FS_RemoveElement
  <2>5. (Cardinality(s) - 1) * m + m = Cardinality(s) * m
    BY <2>3
  <2> HIDE DEF c, r
  <2> QED
    BY <2>1, <2>2, <2>3, <2>4, <2>5
<1>5. SUBSET S \subseteq H
  <2> HIDE DEF H
  <2> QED
    BY <1>3, <1>4, ClimbSets
<1> QED
  BY <1>5

LEMMA TotalCapped ==
  ASSUME NEW S, IsFiniteSet(S), NEW f, NEW g, DOMAIN f = S, DOMAIN g = S,
         \A t \in S : f[t] \in Int /\ g[t] \in Int,
         NEW m \in Int, \A t \in S : f[t] <= g[t] + m
  PROVE  Total(f) \in Int /\ Total(g) \in Int /\ Total(f) <= Total(g) + Cardinality(S) * m
<1>1. PICK h : Sums(f, S, h) /\ Total(f) = h[S]
  BY TotalSums, Zenon
<1>2. PICK k : Sums(g, S, k) /\ Total(g) = k[S]
  BY TotalSums, Zenon
<1> QED
  BY <1>1, <1>2, SumsCapped

LEMMA TotalNone ==
  ASSUME NEW S, IsFiniteSet(S)
  PROVE  Total([t \in S |-> 0]) = 0
<1> DEFINE f == [t \in S |-> 0]
<1>1. PICK h : Sums(f, S, h) /\ Total(f) = h[S]
  BY TotalSums
<1> DEFINE H == {s \in SUBSET S : h[s] = 0}
<1>2. {} \in H /\ \A s \in SUBSET S : s # {} /\ s \ {First(s)} \in H => s \in H
  <2>1. \A s \in SUBSET S : s # {} => First(s) \in S
    BY DEF First
  <2> QED
    BY <1>1, <2>1 DEF Sums
<1>3. SUBSET S \subseteq H
  <2> HIDE DEF H
  <2> QED
    BY <1>2, ClimbSets
<1> QED
  BY <1>1, <1>3

LEMMA TotalIsNumber ==
  ASSUME NEW S, IsFiniteSet(S), NEW f, DOMAIN f = S, \A t \in S : f[t] \in Nat
  PROVE  Total(f) \in Nat
<1> DEFINE z == [t \in S |-> 0]
<1>1. Total(z) = 0
  BY TotalNone
<1>2. Total(f) \in Int /\ Total(z) <= Total(f) + Cardinality(S) * 0
  <2>1. DOMAIN z = S /\ \A t \in S : z[t] \in Int /\ f[t] \in Int /\ z[t] <= f[t] + 0
    OBVIOUS
  <2> HIDE DEF z
  <2> QED
    BY <2>1, TotalCapped
<1>3. Cardinality(S) \in Nat
  BY FS_CardinalityType
<1> QED
  BY <1>1, <1>2, <1>3

\* A sum may take any member first.
LEMMA AnyFirst ==
  ASSUME NEW S, IsFiniteSet(S), NEW f, \A t \in S : f[t] \in Int, NEW h, Sums(f, S, h)
  PROVE  \A s \in SUBSET S : h[s] \in Int /\ \A c \in s : h[s] = f[c] + h[s \ {c}]
<1> DEFINE Fits(s) == h[s] \in Int /\ \A c \in s : h[s] = f[c] + h[s \ {c}]
           F == {s \in SUBSET S : ~Fits(s)}
<1>1. IsWellFoundedOn(StrictSubsetOrdering(S), SUBSET S)
  BY FS_StrictSubsetOrderingWellFounded, FS_FiniteSubsetsOfFinite
<1>2. \A s \in SUBSET S : s # {} => h[s] = f[First(s)] + h[s \ {First(s)}] /\ First(s) \in s
  BY DEF Sums, First
<1>3. h[{}] = 0
  BY DEF Sums
<1>4. ASSUME NEW s \in SUBSET S, \A r \in SUBSET S : r \subseteq s /\ r # s => Fits(r)
      PROVE  Fits(s)
  <2>1. CASE s = {}
    BY <1>3, <2>1
  <2>2. CASE s # {}
    <3> DEFINE a == First(s)
    <3>1. a \in s /\ h[s] = f[a] + h[s \ {a}] /\ f[a] \in Int
      BY <1>2, <2>2
    <3>2. Fits(s \ {a})
      BY <1>4, <3>1
    <3>3. h[s] \in Int
      BY <3>1, <3>2
    <3>4. ASSUME NEW c \in s PROVE h[s] = f[c] + h[s \ {c}]
      <4>1. CASE c = a
        BY <3>1, <4>1
      <4>2. CASE c # a
        <5>1. c \in s \ {a} /\ a \in s \ {c} /\ (s \ {a}) \ {c} = (s \ {c}) \ {a} /\ f[c] \in Int
          BY <3>1, <4>2
        <5>2. Fits(s \ {c}) /\ Fits((s \ {c}) \ {a})
          BY <1>4, <3>1, <5>1
        <5>3. h[s \ {a}] = f[c] + h[(s \ {c}) \ {a}]
          BY <3>2, <5>1
        <5>4. h[s \ {c}] = f[a] + h[(s \ {c}) \ {a}] /\ h[(s \ {c}) \ {a}] \in Int
          BY <5>1, <5>2
        <5> QED
          BY <3>1, <5>1, <5>3, <5>4
      <4> QED
        BY <4>1, <4>2
    <3> QED
      BY <3>3, <3>4
  <2> QED
    BY <2>1, <2>2
<1>5. SUFFICES ASSUME NEW s0 \in SUBSET S, ~Fits(s0) PROVE FALSE
  OBVIOUS
<1>6. PICK s \in F : \A r \in F : ~(<<r, s>> \in StrictSubsetOrdering(S))
  <2>1. F \subseteq SUBSET S /\ F # {}
    BY <1>5
  <2> HIDE DEF F
  <2> QED
    BY <1>1, <2>1, WFMin
<1>7. s \in SUBSET S /\ ~Fits(s)
  BY <1>6
<1>8. \A r \in SUBSET S : r \subseteq s /\ r # s => Fits(r)
  <2> SUFFICES ASSUME NEW r \in SUBSET S, r \subseteq s, r # s, ~Fits(r) PROVE FALSE
    OBVIOUS
  <2>1. r \in F /\ <<r, s>> \in StrictSubsetOrdering(S)
    BY <1>7 DEF StrictSubsetOrdering
  <2> QED
    BY <1>6, <2>1
<1> HIDE DEF Fits, F
<1> QED
  BY <1>4, <1>7, <1>8

\* The sums over a set are the totals over its subsets.
LEMMA SumsAreTotals ==
  ASSUME NEW S, IsFiniteSet(S), NEW f, \A t \in S : f[t] \in Int, NEW h, Sums(f, S, h), NEW A \in SUBSET S
  PROVE  Total([t \in A |-> f[t]]) = h[A]
<1> DEFINE g == [t \in A |-> f[t]]
<1>1. IsFiniteSet(A)
  BY FS_Subset
<1>2. PICK k : Sums(g, A, k) /\ Total(g) = k[A]
  <2>1. DOMAIN g = A /\ \A t \in A : g[t] \in Int
    OBVIOUS
  <2> HIDE DEF g
  <2> QED
    BY <1>1, <2>1, TotalSums
<1> DEFINE H == {s \in SUBSET A : k[s] = h[s]}
<1>3. {} \in H
  BY <1>2 DEF Sums
<1>4. ASSUME NEW s \in SUBSET A, s # {}, s \ {First(s)} \in H PROVE s \in H
  <2>1. First(s) \in s /\ g[First(s)] = f[First(s)]
    BY <1>4 DEF First
  <2>2. k[s] = g[First(s)] + k[s \ {First(s)}]
    BY <1>2, <1>4 DEF Sums
  <2>3. h[s] = f[First(s)] + h[s \ {First(s)}]
    BY <1>4 DEF Sums
  <2> QED
    BY <1>4, <2>1, <2>2, <2>3
<1>5. SUBSET A \subseteq H
  <2> HIDE DEF H
  <2> QED
    BY <1>1, <1>3, <1>4, ClimbSets
<1> QED
  BY <1>2, <1>5

\* A total over two sets apart is the sum of their totals.
LEMMA TotalSplits ==
  ASSUME NEW S, IsFiniteSet(S), NEW f, \A t \in S : f[t] \in Int,
         NEW A, NEW B, A \cup B = S, A \cap B = {}
  PROVE  /\ Total([t \in A |-> f[t]]) \in Int /\ Total([t \in B |-> f[t]]) \in Int
         /\ Total([t \in S |-> f[t]]) = Total([t \in A |-> f[t]]) + Total([t \in B |-> f[t]])
<1>1. PICK h : Sums(f, S, h)
  BY SubsetSumsExist
<1>2. \A s \in SUBSET S : h[s] \in Int /\ \A c \in s : h[s] = f[c] + h[s \ {c}]
  BY <1>1, AnyFirst
<1> DEFINE H == {s \in SUBSET S : h[s] = h[s \cap A] + h[s \cap B]}
<1>3. h[{}] = 0
  BY <1>1 DEF Sums
<1>4. {} \in H
  BY <1>3
<1>5. ASSUME NEW s \in SUBSET S, s # {}, s \ {First(s)} \in H PROVE s \in H
  <2> DEFINE c == First(s)
             r == s \ {c}
  <2>1. c \in s /\ h[s] = f[c] + h[r] /\ f[c] \in Int
    BY <1>2, <1>5 DEF First
  <2>2. h[r] = h[r \cap A] + h[r \cap B] /\ h[r \cap A] \in Int /\ h[r \cap B] \in Int
    BY <1>2, <1>5
  <2>3. CASE c \in A
    <3>1. c \in s \cap A /\ (s \cap A) \ {c} = r \cap A /\ s \cap B = r \cap B
      BY <2>1, <2>3
    <3>2. h[s \cap A] = f[c] + h[r \cap A] /\ h[s \cap B] = h[r \cap B]
      <4>1. h[s \cap A] = f[c] + h[r \cap A]
        BY <1>2, <3>1
      <4> QED
        BY <3>1, <4>1, Zenon
    <3> HIDE DEF c, r
    <3>3. h[s] = h[s \cap A] + h[s \cap B]
      BY <2>1, <2>2, <3>2
    <3> QED
      BY <1>5, <3>3
  <2>4. CASE c \in B
    <3>1. c \in s \cap B /\ (s \cap B) \ {c} = r \cap B /\ s \cap A = r \cap A
      BY <2>1, <2>4
    <3>2. h[s \cap B] = f[c] + h[r \cap B] /\ h[s \cap A] = h[r \cap A]
      <4>1. h[s \cap B] = f[c] + h[r \cap B]
        BY <1>2, <3>1
      <4> QED
        BY <3>1, <4>1, Zenon
    <3> HIDE DEF c, r
    <3>3. h[s] = h[s \cap A] + h[s \cap B]
      BY <2>1, <2>2, <3>2
    <3> QED
      BY <1>5, <3>3
  <2> QED
    BY <2>1, <2>3, <2>4
<1>6. SUBSET S \subseteq H
  <2> HIDE DEF H
  <2> QED
    BY <1>4, <1>5, ClimbSets
<1>7. S \cap A = A /\ S \cap B = B /\ A \in SUBSET S /\ B \in SUBSET S /\ S \in SUBSET S
  OBVIOUS
<1>8. h[S] = h[A] + h[B] /\ h[A] \in Int /\ h[B] \in Int
  BY <1>2, <1>6, <1>7
<1>9. Total([t \in S |-> f[t]]) = h[S] /\ Total([t \in A |-> f[t]]) = h[A] /\ Total([t \in B |-> f[t]]) = h[B]
  BY <1>1, <1>7, SumsAreTotals
<1> QED
  BY <1>8, <1>9

\* The total over one member is its amount.
LEMMA TotalOfOne ==
  ASSUME NEW c, NEW f, f[c] \in Int
  PROVE  Total([t \in {c} |-> f[t]]) = f[c]
<1> DEFINE S == {c}
           z == [t \in S |-> 0]
           g == [t \in S |-> f[t]]
           d == f[c]
<1>1. IsFiniteSet(S) /\ c \in S /\ DOMAIN z = S /\ DOMAIN g = S /\ \A t \in S : z[t] \in Int
  <2>1. IsFiniteSet(S)
    BY FS_Singleton
  <2> QED
    BY <2>1
<1>2. Moved(S, z, g, c, d)
  BY DEF Moved
<1>3. Total(z) = 0
  BY <1>1, TotalNone
<1> HIDE DEF S, z, g
<1>4. Total(g) = Total(z) + d
  BY <1>1, <1>2, TotalChanges
<1>5. Total(g) = f[c]
  BY <1>3, <1>4
<1> QED
  BY <1>5 DEF g, S

\* A part of natural amounts is no more than the whole.
LEMMA TotalOfPart ==
  ASSUME NEW S, IsFiniteSet(S), NEW f, \A t \in S : f[t] \in Nat, NEW A \in SUBSET S
  PROVE  /\ Total([t \in A |-> f[t]]) \in Nat /\ Total([t \in S |-> f[t]]) \in Nat
         /\ Total([t \in A |-> f[t]]) <= Total([t \in S |-> f[t]])
<1> DEFINE B == S \ A
           part(C) == [t \in C |-> f[t]]
<1>1. A \cup B = S /\ A \cap B = {} /\ IsFiniteSet(A) /\ IsFiniteSet(B) /\ \A t \in S : f[t] \in Int
  BY FS_Subset
<1>2. \A C \in {A, B} : Total(part(C)) \in Nat
  <2> SUFFICES ASSUME NEW C \in {A, B} PROVE Total(part(C)) \in Nat
    OBVIOUS
  <2>1. IsFiniteSet(C) /\ DOMAIN part(C) = C /\ \A t \in C : part(C)[t] \in Nat
    BY <1>1
  <2> HIDE DEF part
  <2> QED
    BY <2>1, TotalIsNumber
<1>3. Total(part(S)) = Total(part(A)) + Total(part(B))
  <2> HIDE DEF B
  <2> QED
    BY <1>1, TotalSplits
<1> HIDE DEF part
<1>4. Total(part(A)) \in Nat /\ Total(part(S)) \in Nat /\ Total(part(A)) <= Total(part(S))
  BY <1>2, <1>3
<1> QED
  BY <1>4 DEF part

----------------------------------------------------------------------------
(* The invariant *)

StateFields == {"exp", "base", "now", "reg", "edits", "run", "metas", "crashes", "calls",
                "callsTail", "merged", "rows", "rowsTail", "billed", "lost"}
RunFields == {"of", "version", "done", "isolated", "phases", "reserved", "stopped", "w"}

\* The further attempts of one call.
Tries(exp) == IF IsDesign(exp) THEN 0 ELSE Retries

Asking(exp) == [at : {"ready", "sent"}, key : Tags(exp), attempt : 0..Tries(exp)]

WorkerShape(exp, w) ==
  \/ w = Waiting
  \/ w \in Asking(exp)
  \/ w.at \in {"answered", "graded"} /\ w.key \in Tags(exp)

Plans(exp) == Seq([keys : Seq(Tags(exp)), workers : Nat])

RunShape(exp, run) ==
  /\ DOMAIN run = RunFields
  /\ run.of \in exp.launches /\ DOMAIN run.w = 1..run.of.workers
  /\ \A i \in DOMAIN run.w : WorkerShape(exp, run.w[i])
  /\ run.phases \in Plans(exp)
  /\ run.reserved \in Int

Shape ==
  /\ DOMAIN x = StateFields /\ x.exp \in Experiment
  /\ x.calls \in [Tags(x.exp) -> [n : Nat, usd : Nat, denied : BOOLEAN]]
  /\ x.lost \in [Tags(x.exp) -> Nat]
  /\ x.billed \in Nat /\ x.merged \in BOOLEAN
  /\ x.run # None => RunShape(x.exp, x.run)

\* What one worker may yet have billed for the attempt that is out, for all
\* attempts of its key, and what it holds of the reservation.
OwedBy(w) == IF w.at = "sent" THEN BilledToList ELSE 0
DueBy(w) == IF w.at \in {"ready", "sent"} THEN (Retries + 1 - w.attempt) * BilledToList ELSE 0
HeldBy(w) == IF w.at \in {"ready", "sent", "answered"} THEN 1 ELSE 0

Owed(run) == Total([i \in DOMAIN run.w |-> OwedBy(run.w[i])])
Due(run) == Total([i \in DOMAIN run.w |-> DueBy(run.w[i])])
Held(run) == Total([i \in DOMAIN run.w |-> HeldBy(run.w[i])])

Busy(run) == \E i \in DOMAIN run.w : run.w[i].at \in {"ready", "sent"}

\* What one task may cost beyond one list price, for each worker.
Excess(exp) == Cardinality(Workers) * ((Retries + 1) * BilledToList - WorstCase)

OwedNow == IF x.run = None THEN 0 ELSE Owed(x.run)
DueNow == IF x.run = None THEN 0 ELSE Due(x.run)
BusyNow == x.run # None /\ Busy(x.run)

Money ==
  /\ ~x.merged => x.billed <= Spent
  /\ x.merged => x.exp.runner = "heldout"
  /\ x.run # None /\ x.exp.runner # "heldout" => x.callsTail = "whole"
  /\ Spent + OwedNow <= x.exp.budget - 1 + Cardinality(Workers) * BilledToList
  /\ x.exp.runner = "supplement" =>
       /\ \/ x.run = None /\ Spent = 0
          \/ x.exp.prior + Spent + x.exp.budget + DueNow <= x.exp.cap + Excess(x.exp)
       /\ x.run # None => x.run.reserved = x.exp.budget + Held(x.run)
  /\ IsDesign(x.exp) => Spent + (IF BusyNow THEN BilledToList ELSE 0) <= x.exp.cap

\* The keys that are yet to be taken, each of them once.
Left(phases) == UNION {Range(phases[p].keys) : p \in DOMAIN phases}

\* No key is in two hands, or in one and yet to be taken; and what is in hand
\* or will be taken has no row.
Apart(run, rows) ==
  /\ Once(run.phases)
  /\ \A i, j \in DOMAIN run.w :
       run.w[i] # Waiting /\ run.w[j] # Waiting /\ run.w[i].key = run.w[j].key => i = j
  /\ \A i \in DOMAIN run.w : run.w[i] # Waiting =>
       run.w[i].key \notin Left(run.phases) /\ Recorded(run.of, run.w[i].key) \notin DOMAIN rows
  /\ \A key \in Left(run.phases) : Recorded(run.of, key) \in DOMAIN rows => Recorded(run.of, key) \in run.done

\* The registration names version v in all that this program compares.
Named(exp, reg, version) ==
  \E v \in reg.superseded \cup {reg.current} :
    Changed(version, v, Compares(exp) \ (IF exp.pinned THEN {} ELSE {"identity"})) = {}

\* Each row once, by a version that was registered.
Recording == \A key \in DOMAIN x.rows : x.rows[key].n = 1 /\ Named(x.exp, x.reg, x.rows[key].version)

\* A design run has nothing before its registration.
Registered == IsDesign(x.exp) /\ x.reg = None => x.rows = <<>> /\ x.run = None

Working == x.run # None => Apart(x.run, x.rows) /\ Named(x.exp, x.reg, x.run.version)

\* A design run asks for what is in no ledger; the second one starts with
\* nothing in its own.
AskedOnce ==
  IsDesign(x.exp) =>
    /\ \A t \in DOMAIN x.calls : x.calls[t].n <= 1
    /\ x.run # None => \A i \in DOMAIN x.run.w : x.run.w[i].at \in {"ready", "sent"} => x.calls[x.run.w[i].key].n = 0

Fresh ==
  x.exp.runner = "design2" /\ x.run # None =>
    x.run.done = {} /\ \A key \in Left(x.run.phases) : x.calls[key].n = 0

Observations == Recording /\ Registered /\ Working /\ AskedOnce /\ Fresh

\* What is charged to the route of a failed call.
Blamed(exp, outcome) == outcome = "fail" \/ (exp.runner = "design2" /\ outcome = "harness")

\* A key the directory registers.
Planned(exp, key) == IsDesign(exp) => key \in Range(exp.order)

\* What a worker has of an answer goes into the row.
Carried(exp, w) ==
  w # Waiting =>
    /\ Planned(exp, w.key)
    /\ w.at \in {"answered", "graded"} => w.usd \in Nat
    /\ w.at = "graded" /\ w.failed => Blamed(exp, w.outcome)

RowIs(exp, key, row) ==
  /\ "n" \in DOMAIN row /\ row.usd \in Nat /\ DOMAIN row.version = exp.editable
  /\ row.failed => Blamed(exp, row.outcome)
  /\ \E c \in exp.launches, k \in Tags(exp) : key = Recorded(c, k) /\ Planned(exp, k)

Ledger ==
  /\ IsFiniteSet(DOMAIN x.rows) /\ (DOMAIN x.rows = {} => x.rows = <<>>)
  /\ \A key \in DOMAIN x.rows : RowIs(x.exp, key, x.rows[key])

Hands ==
  x.run # None =>
    /\ DOMAIN x.run.version = x.exp.editable
    /\ \A i \in DOMAIN x.run.w : Carried(x.exp, x.run.w[i])
    /\ \A key \in Left(x.run.phases) : Planned(x.exp, key)

\* What is not amended supersedes nothing.
Pinned ==
  /\ DOMAIN x.now = x.exp.editable
  /\ x.reg # None /\ ~x.reg.amended => x.reg.superseded = {}

\* What the rows cost and what the workers carry was logged, as long as no
\* line of the ledger was cut off.
UsdOf(w) == IF w.at \in {"answered", "graded"} THEN w.usd ELSE 0
Carries(run) == Total([i \in DOMAIN run.w |-> UsdOf(run.w[i])])
CarriedNow == IF x.run = None THEN 0 ELSE Carries(x.run)
RowsCost == Total([key \in DOMAIN x.rows |-> x.rows[key].usd])
Paid == x.callsTail = "whole" => RowsCost + CarriedNow <= Spent

Reports == Ledger /\ Hands /\ Pinned /\ Paid

----------------------------------------------------------------------------
(* Numbers of an experiment *)

LEMMA DirectoryTyped ==
  ASSUME NEW exp \in Experiment
  PROVE  /\ exp.budget \in Nat /\ exp.cap \in Nat /\ exp.prior \in Nat /\ IsFiniteSet(Tags(exp))
         /\ exp.runner \in {"heldout", "supplement", "design", "design2"}
         /\ \A c \in exp.launches : /\ Phases(exp, c) \in Plans(exp) /\ Once(Phases(exp, c))
                                    /\ c.label # RouterArm /\ (IsDesign(exp) => c.workers = 1)
<1>1. {exp.budget, exp.cap, exp.prior} \subseteq Nat /\ IsFiniteSet(Tags(exp))
      /\ exp.runner \in {"heldout", "supplement", "design", "design2"}
  BY ExperimentsTyped
<1>2. \A c \in exp.launches : /\ Phases(exp, c) \in Seq([keys : Seq(Tags(exp)), workers : Nat])
                              /\ (IsDesign(exp) => c.workers = 1)
  BY ExperimentsTyped
<1>3. \A c \in exp.launches : c.label # RouterArm /\ Once(Phases(exp, c))
  BY PlansOnce
<1> QED
  BY <1>1, <1>2, <1>3 DEF Plans

LEMMA Numbers ==
  /\ Retries \in Nat /\ BilledToList \in Nat /\ BilledToList >= 1 /\ BilledToList # None
  /\ DesignMultiplier \in Nat /\ BilledToList <= DesignMultiplier
BY ExperimentNumbers

\* There are as many workers as the command with the most has.
LEMMA WorkersCover ==
  ASSUME x.exp \in Experiment
  PROVE  /\ Cardinality(Workers) \in Nat /\ Cardinality(Workers) >= 1
         /\ \A c \in x.exp.launches : c.workers \in Nat /\ c.workers >= 1 /\ c.workers <= Cardinality(Workers)
<1> DEFINE exp == x.exp
           S == {c.workers : c \in exp.launches}
<1>1. PICK c \in exp.launches : \A d \in exp.launches : d.workers <= c.workers
  BY ExperimentsTyped
<1>2. \A d \in exp.launches : d.workers \in Nat /\ d.workers >= 1
  <2>1. \A d \in exp.launches : d.workers \in Nat \ {0}
    BY ExperimentsTyped
  <2> QED
    BY <2>1
<1>3. Max(S) \in S /\ \A n \in S : Max(S) >= n
  <2>1. \E m \in S : \A n \in S : m >= n
    BY <1>1, <1>2
  <2> HIDE DEF S
  <2> QED
    BY <2>1 DEF Max
<1>4. Max(S) \in Nat /\ Max(S) >= 1
  BY <1>2, <1>3
<1>5. Cardinality(Workers) = Max(S)
  <2> HIDE DEF S
  <2>1. Workers = 1..Max(S)
    BY DEF Workers, S
  <2> QED
    BY <1>4, <2>1, FS_Interval
<1>6. \A d \in exp.launches : d.workers \in S
  OBVIOUS
<1> HIDE DEF S
<1> QED
  BY <1>2, <1>3, <1>4, <1>5, <1>6

\* The higher of two numbers.
LEMMA HigherOfTwo ==
  \A a, b \in Int : Max({a, b}) \in {a, b} /\ Max({a, b}) >= a /\ Max({a, b}) >= b
<1> SUFFICES ASSUME NEW a \in Int, NEW b \in Int
             PROVE  Max({a, b}) \in {a, b} /\ Max({a, b}) >= a /\ Max({a, b}) >= b
  OBVIOUS
<1> DEFINE S == {a, b}
<1>1. \E m \in S : \A n \in S : m >= n
  <2>1. CASE a <= b
    BY <2>1
  <2>2. CASE b <= a
    BY <2>2
  <2> QED
    BY <2>1, <2>2
<1>2. Max(S) \in S /\ \A n \in S : Max(S) >= n
  <2> HIDE DEF S
  <2> QED
    BY <1>1 DEF Max
<1> QED
  BY <1>2

\* An attempt is of one of five kinds.
LEMMA AttemptKinds ==
  ASSUME NEW exp, NEW arm, NEW a \in Attempts(exp, arm)
  PROVE  /\ a.priced \in BOOLEAN /\ a.reports \in BOOLEAN
         /\ arm \in exp.free => a.billed = 0
         /\ a.billed \in {0, PricedAt(exp, arm), BilledToList}
         /\ (a.kind = "answered" /\ a.priced) => (a.reports \/ a.billed = PricedAt(exp, arm))
<1> DEFINE most == {IF arm \notin exp.free THEN BilledToList ELSE 0}
<1>1. \/ a \in [kind : {"answered"}, priced : {TRUE}, reports : {TRUE}, billed : most]
      \/ a \in [kind : {"answered"}, priced : {TRUE}, reports : {FALSE}, billed : {PricedAt(exp, arm)}]
      \/ a \in [kind : {"answered"}, priced : {FALSE}, reports : {FALSE}, billed : most]
      \/ a \in [kind : {"broken"}, priced : {FALSE}, reports : {TRUE}, billed : most]
      \/ a \in [kind : {IF exp.runner = "design2" THEN "denied" ELSE "refused"},
                priced : {FALSE}, reports : {FALSE}, billed : {0}]
  BY Zenon DEF Attempts
<1>2. a.priced \in {TRUE, FALSE} /\ a.reports \in {TRUE, FALSE}
      /\ a.billed \in most \cup {PricedAt(exp, arm), 0}
  BY <1>1
<1>3. \/ a.reports = TRUE
      \/ a.billed = PricedAt(exp, arm)
      \/ a.priced = FALSE
  BY <1>1
<1>4. arm \in exp.free => a.billed = 0
  BY <1>2 DEF PricedAt
<1>5. a.billed \in {0, PricedAt(exp, arm), BilledToList}
  BY <1>2
<1> QED
  BY <1>2, <1>3, <1>4, <1>5

\* What is logged for an attempt is what was billed for it or more, and at
\* most twice the list price.
LEMMA LedgerCovers ==
  ASSUME NEW exp, NEW arm, NEW a \in Attempts(exp, arm)
  PROVE  /\ a.billed \in Nat /\ LedgerCost(exp, arm, a) \in Nat
         /\ a.billed <= LedgerCost(exp, arm, a) /\ LedgerCost(exp, arm, a) <= BilledToList
<1> DEFINE b == a.billed
           list == PricedAt(exp, arm)
<1>1. /\ a.priced \in BOOLEAN /\ a.reports \in BOOLEAN
      /\ arm \in exp.free => b = 0
      /\ b \in {0, list, BilledToList}
      /\ (a.kind = "answered" /\ a.priced) => (a.reports \/ b = list)
  BY AttemptKinds
<1>2. CASE arm \in exp.free
  <2>1. b = 0 /\ list = 0 /\ Reservation(exp, arm) = None /\ ReportedCost(a) = None
    BY <1>1, <1>2 DEF PricedAt, Reservation, ReportedCost
  <2>2. BilledCost(exp, arm, a) = 0
    BY <2>1 DEF BilledCost
  <2>3. Max({0, 0}) = 0
    <3>1. 0 \in Int
      OBVIOUS
    <3>2. Max({0, 0}) \in {0, 0}
      BY <3>1, HigherOfTwo, Zenon
    <3> QED
      BY <3>2, Zenon
  <2>4. LedgerCost(exp, arm, a) = 0
    BY <2>1, <2>2, <2>3 DEF LedgerCost, AtLeastReserved
  <2> QED
    BY <2>1, <2>4, Numbers
<1>3. CASE arm \notin exp.free
  <2>1. list = 1 /\ Reservation(exp, arm) = BilledToList
    BY <1>3 DEF PricedAt, Reservation
  <2>2. b \in Nat /\ b <= BilledToList
    BY <1>1, <2>1, Numbers
  <2>3. CASE a.kind = "answered" /\ a.priced
    <3>1. a.reports \/ b = 1
      BY <1>1, <2>1, <2>3
    <3>2. BilledCost(exp, arm, a) \in {b, 1}
      BY <2>1 DEF BilledCost
    <3>3. a.reports => BilledCost(exp, arm, a) >= b
      <4>1. CASE b > 0
        BY <2>2, <4>1, ExperimentNumbers DEF BilledCost, ReportedCost
      <4>2. CASE ~(b > 0)
        BY <2>2, <3>2, <4>2
      <4> QED
        BY <4>1, <4>2
    <3>4. BilledCost(exp, arm, a) >= b
      BY <2>2, <3>1, <3>2, <3>3
    <3>5. LedgerCost(exp, arm, a) = Max({BilledCost(exp, arm, a), 1})
      BY <2>1, <2>3 DEF LedgerCost
    <3>6. BilledCost(exp, arm, a) \in Int /\ 1 \in Int
      BY <2>2, <3>2
    <3>7. LedgerCost(exp, arm, a) \in {BilledCost(exp, arm, a), 1} /\ LedgerCost(exp, arm, a) >= BilledCost(exp, arm, a)
      BY <3>5, <3>6, HigherOfTwo, Zenon
    <3> QED
      BY <2>2, <3>2, <3>4, <3>7, Numbers
  <2>4. CASE ~(a.kind = "answered" /\ a.priced)
    <3> DEFINE cost == IF ReportedCost(a) = None THEN 0 ELSE b
    <3>1. LedgerCost(exp, arm, a) = Max({cost, BilledToList})
      BY <2>1, <2>4, Numbers DEF LedgerCost, AtLeastReserved
    <3>2. cost \in Nat /\ cost <= BilledToList
      BY <2>2, Numbers
    <3> HIDE DEF cost
    <3>3. cost \in Int /\ BilledToList \in Int
      BY <3>2, Numbers
    <3>4. LedgerCost(exp, arm, a) \in {cost, BilledToList} /\ LedgerCost(exp, arm, a) >= BilledToList
      BY <3>1, <3>3, HigherOfTwo, Zenon
    <3>5. LedgerCost(exp, arm, a) = BilledToList
      BY <3>2, <3>4, Numbers
    <3> QED
      BY <2>2, <3>5, Numbers
  <2> QED
    BY <2>3, <2>4
<1> QED
  BY <1>2, <1>3

\* What a row says of an answer was logged for it.
LEMMA CarriedIsLogged ==
  ASSUME NEW exp, NEW arm, NEW a \in Attempts(exp, arm)
  PROVE  LET usd == IF a.priced THEN BilledCost(exp, arm, a) ELSE 0
         IN  usd \in Nat /\ usd <= LedgerCost(exp, arm, a)
<1> DEFINE cost == BilledCost(exp, arm, a)
           list == PricedAt(exp, arm)
<1>1. a.billed \in Nat /\ LedgerCost(exp, arm, a) \in Nat
  BY LedgerCovers
<1>2. CASE a.priced
  <2> DEFINE most == {IF arm \notin exp.free THEN BilledToList ELSE 0}
  <2>1. \/ a \in [kind : {"answered"}, priced : {TRUE}, reports : {TRUE}, billed : most]
        \/ a \in [kind : {"answered"}, priced : {TRUE}, reports : {FALSE}, billed : {PricedAt(exp, arm)}]
        \/ a \in [kind : {"answered"}, priced : {FALSE}, reports : {FALSE}, billed : most]
        \/ a \in [kind : {"broken"}, priced : {FALSE}, reports : {TRUE}, billed : most]
        \/ a \in [kind : {IF exp.runner = "design2" THEN "denied" ELSE "refused"},
                  priced : {FALSE}, reports : {FALSE}, billed : {0}]
    BY Zenon DEF Attempts
  <2>2. a.kind = "answered" \/ a.priced = FALSE
    BY <2>1
  <2>3. cost \in Nat /\ list \in Nat
    BY <1>1 DEF BilledCost, PricedAt
  <2>4. LedgerCost(exp, arm, a) = Max({cost, list})
    BY <1>2, <2>2 DEF LedgerCost
  <2> HIDE DEF cost, list
  <2>5. cost \in Int /\ list \in Int
    BY <2>3
  <2>6. LedgerCost(exp, arm, a) >= cost
    BY <2>4, <2>5, HigherOfTwo, Zenon
  <2> QED
    BY <1>1, <1>2, <2>3, <2>6 DEF cost
<1>3. CASE ~a.priced
  BY <1>1, <1>3
<1> QED
  BY <1>2, <1>3

----------------------------------------------------------------------------
(* What the workers have out *)

\* The three figures of a worker are numbers.
LEMMA FiguresTyped ==
  ASSUME NEW exp \in Experiment, NEW w, WorkerShape(exp, w)
  PROVE  /\ OwedBy(w) \in Nat /\ DueBy(w) \in Nat /\ HeldBy(w) \in Nat
         /\ OwedBy(w) <= BilledToList /\ DueBy(w) <= HeldBy(w) + (Retries + 1) * BilledToList - WorstCase
<1>1. (Retries + 1) * BilledToList >= 1
  <2>1. (Retries + 1) * BilledToList = Retries * BilledToList + BilledToList /\ Retries * BilledToList >= 0
    BY Numbers
  <2> QED
    BY <2>1, Numbers
<1>2. CASE w \in Asking(exp)
  <2>1. w.at \in {"ready", "sent"} /\ w.attempt \in Nat /\ w.attempt <= Retries
    BY <1>2, Numbers DEF Asking, Tries
  <2> DEFINE more == Retries - w.attempt
  <2>2. more \in Nat /\ DueBy(w) = (more + 1) * BilledToList /\ HeldBy(w) = 1
    BY <2>1, Numbers DEF DueBy, HeldBy
  <2>3. (Retries + 1) * BilledToList - (more + 1) * BilledToList = w.attempt * BilledToList
        /\ w.attempt * BilledToList >= 0 /\ (more + 1) * BilledToList >= 0
    BY <2>1, Numbers
  <2> QED
    BY <1>1, <2>1, <2>2, <2>3, Numbers DEF OwedBy, WorstCase
<1>3. CASE w.at \notin {"ready", "sent"}
  BY <1>1, <1>3, Numbers DEF OwedBy, DueBy, HeldBy, WorstCase
<1> QED
  BY <1>2, <1>3 DEF WorkerShape, Waiting

LEMMA RunFinite ==
  ASSUME NEW exp \in Experiment, NEW run, RunShape(exp, run)
  PROVE  /\ IsFiniteSet(DOMAIN run.w) /\ run.of.workers \in Nat
         /\ Cardinality(DOMAIN run.w) = run.of.workers
<1>1. run.of.workers \in Nat /\ DOMAIN run.w = 1..run.of.workers
  BY ExperimentsTyped DEF RunShape
<1>2. IsFiniteSet(1..run.of.workers) /\ Cardinality(1..run.of.workers) = run.of.workers
  <2>1. \A n \in Nat : IsFiniteSet(1..n) /\ Cardinality(1..n) = n
    BY FS_Interval
  <2> QED
    BY <1>1, <2>1
<1> QED
  BY <1>1, <1>2

\* Worker i goes on to v, the others stay.
OneMoves(w, next, i, v) ==
  DOMAIN next = DOMAIN w /\ next[i] = v /\ \A j \in DOMAIN w : j # i => next[j] = w[j]

\* A worker goes from one state to another, and the totals with it.
LEMMA WorkerMoves ==
  ASSUME NEW exp \in Experiment, NEW run, RunShape(exp, run), NEW i \in DOMAIN run.w,
         NEW v, WorkerShape(exp, v), NEW next, OneMoves(run.w, next.w, i, v)
  PROVE  /\ Owed(run) \in Nat /\ Owed(next) = Owed(run) + (OwedBy(v) - OwedBy(run.w[i]))
         /\ Due(run) \in Nat /\ Due(next) = Due(run) + (DueBy(v) - DueBy(run.w[i]))
         /\ Held(run) \in Nat /\ Held(next) = Held(run) + (HeldBy(v) - HeldBy(run.w[i]))
<1> DEFINE S == DOMAIN run.w
           u == run.w[i]
<1>1. IsFiniteSet(S)
  BY RunFinite
<1>2. \A j \in S : /\ OwedBy(run.w[j]) \in Nat /\ DueBy(run.w[j]) \in Nat /\ HeldBy(run.w[j]) \in Nat
  BY FiguresTyped DEF RunShape
<1>3. OwedBy(v) \in Nat /\ DueBy(v) \in Nat /\ HeldBy(v) \in Nat
  BY FiguresTyped
<1>4. DOMAIN next.w = S /\ next.w[i] = v /\ \A j \in S : j # i => next.w[j] = run.w[j]
  BY DEF OneMoves
<1>5. /\ Owed(run) \in Nat /\ Owed(next) = Owed(run) + (OwedBy(v) - OwedBy(u))
  <2> DEFINE a == [j \in S |-> OwedBy(run.w[j])]
             b == [j \in S |-> OwedBy(next.w[j])]
             d == OwedBy(v) - OwedBy(u)
  <2>1. Owed(run) = Total(a) /\ Owed(next) = Total(b)
    BY <1>4 DEF Owed
  <2>2. DOMAIN a = S /\ DOMAIN b = S /\ d \in Int /\ \A j \in S : a[j] \in Nat
    BY <1>2, <1>3
  <2>3. Moved(S, a, b, i, d)
    BY <1>2, <1>3, <1>4 DEF Moved
  <2> HIDE DEF a, b, d, S
  <2>4. Total(a) \in Nat
    BY <1>1, <2>2, TotalIsNumber
  <2>5. Total(b) = Total(a) + d
    BY <1>1, <2>2, <2>3, TotalChanges DEF S
  <2> QED
    BY <2>1, <2>4, <2>5 DEF d
<1>6. /\ Due(run) \in Nat /\ Due(next) = Due(run) + (DueBy(v) - DueBy(u))
  <2> DEFINE a == [j \in S |-> DueBy(run.w[j])]
             b == [j \in S |-> DueBy(next.w[j])]
             d == DueBy(v) - DueBy(u)
  <2>1. Due(run) = Total(a) /\ Due(next) = Total(b)
    BY <1>4 DEF Due
  <2>2. DOMAIN a = S /\ DOMAIN b = S /\ d \in Int /\ \A j \in S : a[j] \in Nat
    BY <1>2, <1>3
  <2>3. Moved(S, a, b, i, d)
    BY <1>2, <1>3, <1>4 DEF Moved
  <2> HIDE DEF a, b, d, S
  <2>4. Total(a) \in Nat
    BY <1>1, <2>2, TotalIsNumber
  <2>5. Total(b) = Total(a) + d
    BY <1>1, <2>2, <2>3, TotalChanges DEF S
  <2> QED
    BY <2>1, <2>4, <2>5 DEF d
<1>7. /\ Held(run) \in Nat /\ Held(next) = Held(run) + (HeldBy(v) - HeldBy(u))
  <2> DEFINE a == [j \in S |-> HeldBy(run.w[j])]
             b == [j \in S |-> HeldBy(next.w[j])]
             d == HeldBy(v) - HeldBy(u)
  <2>1. Held(run) = Total(a) /\ Held(next) = Total(b)
    BY <1>4 DEF Held
  <2>2. DOMAIN a = S /\ DOMAIN b = S /\ d \in Int /\ \A j \in S : a[j] \in Nat
    BY <1>2, <1>3
  <2>3. Moved(S, a, b, i, d)
    BY <1>2, <1>3, <1>4 DEF Moved
  <2> HIDE DEF a, b, d, S
  <2>4. Total(a) \in Nat
    BY <1>1, <2>2, TotalIsNumber
  <2>5. Total(b) = Total(a) + d
    BY <1>1, <2>2, <2>3, TotalChanges DEF S
  <2> QED
    BY <2>1, <2>4, <2>5 DEF d
<1> QED
  BY <1>5, <1>6, <1>7

\* All workers together: what is out, and what is due beyond what is held.
LEMMA WorkersCapped ==
  ASSUME x.exp \in Experiment, NEW run, RunShape(x.exp, run)
  PROVE  /\ Owed(run) \in Nat /\ Due(run) \in Nat /\ Held(run) \in Nat /\ Excess(x.exp) \in Nat
         /\ Owed(run) <= Cardinality(Workers) * BilledToList
         /\ Due(run) <= Held(run) + Excess(x.exp)
<1> DEFINE S == DOMAIN run.w
           n == run.of.workers
           N == Cardinality(Workers)
           m == (Retries + 1) * BilledToList - WorstCase
           a == [j \in S |-> OwedBy(run.w[j])]
           z == [j \in S |-> 0]
           b == [j \in S |-> DueBy(run.w[j])]
           c == [j \in S |-> HeldBy(run.w[j])]
<1>1. IsFiniteSet(S) /\ Cardinality(S) = n /\ n \in Nat
  BY RunFinite
<1>2. N \in Nat /\ n <= N
  BY WorkersCover DEF RunShape
<1>3. m \in Nat
  <2>1. (Retries + 1) * BilledToList = Retries * BilledToList + BilledToList /\ Retries * BilledToList >= 0
    BY Numbers
  <2> QED
    BY <2>1, Numbers DEF WorstCase
<1>4. \A j \in S : /\ a[j] \in Nat /\ b[j] \in Nat /\ c[j] \in Nat
                   /\ a[j] <= z[j] + BilledToList /\ b[j] <= c[j] + m /\ z[j] \in Nat
  <2>1. \A j \in S : WorkerShape(x.exp, run.w[j])
    BY DEF RunShape
  <2>2. \A j \in S : /\ OwedBy(run.w[j]) \in Nat /\ DueBy(run.w[j]) \in Nat /\ HeldBy(run.w[j]) \in Nat
                     /\ OwedBy(run.w[j]) <= BilledToList
                     /\ DueBy(run.w[j]) <= HeldBy(run.w[j]) + (Retries + 1) * BilledToList - WorstCase
    BY <2>1, FiguresTyped
  <2>3. \A p, q \in Nat : p <= q + (Retries + 1) * BilledToList - WorstCase => p <= q + m
    BY Numbers DEF WorstCase
  <2> HIDE DEF m
  <2> QED
    BY <2>2, <2>3, Numbers
<1>5. DOMAIN a = S /\ DOMAIN b = S /\ DOMAIN c = S /\ DOMAIN z = S
  OBVIOUS
<1>6. Owed(run) = Total(a) /\ Due(run) = Total(b) /\ Held(run) = Total(c)
  BY DEF Owed, Due, Held
<1>7. Total(z) = 0
  BY <1>1, TotalNone
<1>8. n * BilledToList <= N * BilledToList /\ n * m <= N * m /\ N * m \in Nat
  <2> HIDE DEF n, N, m
  <2>1. (N - n) * BilledToList >= 0 /\ (N - n) * m >= 0 /\ N * m >= 0
    BY <1>1, <1>2, <1>3, Numbers
  <2> QED
    BY <1>1, <1>2, <1>3, <2>1, Numbers
<1>9. Excess(x.exp) = N * m
  BY DEF Excess
<1> HIDE DEF S, n, N, m, a, b, c, z
<1>10. Total(a) \in Nat /\ Total(b) \in Nat /\ Total(c) \in Nat
  BY <1>1, <1>4, <1>5, TotalIsNumber
<1>11. Total(a) <= Total(z) + Cardinality(S) * BilledToList
  BY <1>1, <1>4, <1>5, TotalCapped, Numbers
<1>12. Total(b) <= Total(c) + Cardinality(S) * m
  BY <1>1, <1>3, <1>4, <1>5, TotalCapped
<1>13. Owed(run) <= N * BilledToList
  BY <1>1, <1>2, <1>6, <1>7, <1>8, <1>10, <1>11, Numbers
<1>14. Due(run) <= Held(run) + Excess(x.exp)
  BY <1>1, <1>2, <1>3, <1>6, <1>8, <1>9, <1>10, <1>12, Numbers
<1>15. Owed(run) \in Nat /\ Due(run) \in Nat /\ Held(run) \in Nat /\ Excess(x.exp) \in Nat
  BY <1>6, <1>8, <1>9, <1>10
<1> QED
  BY <1>13, <1>14, <1>15 DEF N

LEMMA AllWaiting ==
  ASSUME NEW exp \in Experiment, NEW run, RunShape(exp, run), \A i \in DOMAIN run.w : run.w[i] = Waiting
  PROVE  Owed(run) = 0 /\ Due(run) = 0 /\ Held(run) = 0
<1> DEFINE z == [j \in DOMAIN run.w |-> 0]
<1>1. OwedBy(Waiting) = 0 /\ DueBy(Waiting) = 0 /\ HeldBy(Waiting) = 0
  BY DEF OwedBy, DueBy, HeldBy, Waiting
<1>2. Owed(run) = Total(z) /\ Due(run) = Total(z) /\ Held(run) = Total(z)
  BY <1>1 DEF Owed, Due, Held
<1>3. Total(z) = 0
  BY RunFinite, TotalNone
<1> QED
  BY <1>2, <1>3

----------------------------------------------------------------------------
(* What a step leaves of the plan *)

Shrinks(exp, phases, next) ==
  next \in Plans(exp) /\ Left(next) \subseteq Left(phases) /\ (Once(phases) => Once(next))

LEMMA PlanIs ==
  ASSUME NEW exp, NEW phases \in Plans(exp)
  PROVE  /\ DOMAIN phases = 1..Len(phases) /\ Len(phases) \in Nat
         /\ phases # <<>> => 1 \in 1..Len(phases) /\ Head(phases) = phases[1]
         /\ \A p \in 1..Len(phases) :
              /\ phases[p] \in [keys : Seq(Tags(exp)), workers : Nat]
              /\ phases[p].keys \in Seq(Tags(exp)) /\ DOMAIN phases[p].keys = 1..Len(phases[p].keys)
<1> DEFINE R == [keys : Seq(Tags(exp)), workers : Nat]
<1>1. phases \in Seq(R)
  BY DEF Plans
<1>2. \A r \in R : r.keys \in Seq(Tags(exp)) /\ DOMAIN r.keys = 1..Len(r.keys)
  OBVIOUS
<1> HIDE DEF R
<1>3. /\ DOMAIN phases = 1..Len(phases) /\ Len(phases) \in Nat
      /\ phases # <<>> => 1 \in 1..Len(phases) /\ Head(phases) = phases[1]
      /\ \A p \in 1..Len(phases) : phases[p] \in R
  BY <1>1
<1> QED
  BY <1>2, <1>3 DEF R

LEMMA LeftIs ==
  ASSUME NEW exp, NEW phases \in Plans(exp), NEW key
  PROVE  key \in Left(phases) <=> \E p \in 1..Len(phases) : \E i \in 1..Len(phases[p].keys) : phases[p].keys[i] = key
<1>1. key \in Left(phases) <=> \E p \in DOMAIN phases : \E i \in DOMAIN phases[p].keys : phases[p].keys[i] = key
  BY DEF Left, Range
<1> QED
  BY <1>1, PlanIs

LEMMA OnceIs ==
  ASSUME NEW exp, NEW phases \in Plans(exp)
  PROVE  Once(phases) <=> \A p, q \in 1..Len(phases) : \A i \in 1..Len(phases[p].keys), j \in 1..Len(phases[q].keys) :
                            phases[p].keys[i] = phases[q].keys[j] => p = q /\ i = j
<1>1. DOMAIN phases = 1..Len(phases) /\ \A p \in 1..Len(phases) : DOMAIN phases[p].keys = 1..Len(phases[p].keys)
  BY PlanIs
<1>2. ASSUME Once(phases), NEW p \in 1..Len(phases), NEW q \in 1..Len(phases),
             NEW i \in 1..Len(phases[p].keys), NEW j \in 1..Len(phases[q].keys), phases[p].keys[i] = phases[q].keys[j]
      PROVE  p = q /\ i = j
  <2>1. p \in DOMAIN phases /\ q \in DOMAIN phases /\ i \in DOMAIN phases[p].keys /\ j \in DOMAIN phases[q].keys
    BY <1>1
  <2> QED
    BY <1>2, <2>1 DEF Once
<1>3. ASSUME \A p, q \in 1..Len(phases) : \A i \in 1..Len(phases[p].keys), j \in 1..Len(phases[q].keys) :
               phases[p].keys[i] = phases[q].keys[j] => p = q /\ i = j,
             NEW p \in DOMAIN phases, NEW q \in DOMAIN phases,
             NEW i \in DOMAIN phases[p].keys, NEW j \in DOMAIN phases[q].keys, phases[p].keys[i] = phases[q].keys[j]
      PROVE  p = q /\ i = j
  <2>1. p \in 1..Len(phases) /\ q \in 1..Len(phases) /\ i \in 1..Len(phases[p].keys) /\ j \in 1..Len(phases[q].keys)
    BY <1>1
  <2> QED
    BY <1>3, <2>1
<1>4. Once(phases) => \A p, q \in 1..Len(phases) : \A i \in 1..Len(phases[p].keys), j \in 1..Len(phases[q].keys) :
                        phases[p].keys[i] = phases[q].keys[j] => p = q /\ i = j
  BY <1>2
<1>5. (\A p, q \in 1..Len(phases) : \A i \in 1..Len(phases[p].keys), j \in 1..Len(phases[q].keys) :
         phases[p].keys[i] = phases[q].keys[j] => p = q /\ i = j) => Once(phases)
  BY <1>3 DEF Once
<1> QED
  BY <1>4, <1>5

LEMMA TailShrinks ==
  ASSUME NEW exp, NEW phases \in Plans(exp), phases # <<>>
  PROVE  Shrinks(exp, phases, Tail(phases))
<1> DEFINE next == Tail(phases)
           R == [keys : Seq(Tags(exp)), workers : Nat]
<1>1. next \in Plans(exp) /\ Len(next) = Len(phases) - 1 /\ \A p \in 1..Len(next) : next[p] = phases[p + 1]
  <2>1. phases \in Seq(R)
    BY DEF Plans
  <2> HIDE DEF R
  <2>2. next \in Seq(R) /\ Len(next) = Len(phases) - 1 /\ \A p \in 1..Len(next) : next[p] = phases[p + 1]
    BY <2>1
  <2> QED
    BY <2>2 DEF Plans, R
<1>2. Len(phases) \in Nat /\ \A p \in 1..Len(next) : p + 1 \in 1..Len(phases)
  BY <1>1 DEF Plans
<1> HIDE DEF next
<1>3. ASSUME NEW key \in Left(next) PROVE key \in Left(phases)
  <2>1. PICK p \in 1..Len(next) : \E i \in 1..Len(next[p].keys) : next[p].keys[i] = key
    BY <1>1, LeftIs
  <2>2. \E i \in 1..Len(phases[p + 1].keys) : phases[p + 1].keys[i] = key
    BY <1>1, <2>1
  <2> QED
    BY <1>2, <2>2, LeftIs
<1>4. ASSUME Once(phases) PROVE Once(next)
  <2>1. ASSUME NEW p \in 1..Len(next), NEW q \in 1..Len(next),
               NEW i \in 1..Len(next[p].keys), NEW j \in 1..Len(next[q].keys), next[p].keys[i] = next[q].keys[j]
        PROVE  p = q /\ i = j
    <3>1. /\ p + 1 \in 1..Len(phases) /\ q + 1 \in 1..Len(phases)
          /\ next[p] = phases[p + 1] /\ next[q] = phases[q + 1]
      BY <1>1, <1>2
    <3>2. p + 1 = q + 1 /\ i = j
      BY <1>4, <2>1, <3>1, OnceIs
    <3> QED
      BY <3>2
  <2> QED
    BY <1>1, <2>1, OnceIs
<1> QED
  BY <1>1, <1>3, <1>4 DEF Shrinks, next

LEMMA NothingShrinks ==
  ASSUME NEW exp, NEW phases
  PROVE  Shrinks(exp, phases, <<>>)
<1>1. <<>> \in Plans(exp) /\ DOMAIN (<<>>) = {}
  BY DEF Plans
<1> QED
  BY <1>1 DEF Shrinks, Left, Once

\* The next key is taken off the plan.
LEMMA PoppedShrinks ==
  ASSUME NEW exp, NEW phases \in Plans(exp), phases # <<>>, phases[1].keys # <<>>,
         NEW next \in Plans(exp), Len(next) = Len(phases), next[1].keys = Tail(phases[1].keys),
         \A p \in 1..Len(phases) : p # 1 => next[p] = phases[p]
  PROVE  LET key == Head(phases[1].keys)
         IN  /\ Shrinks(exp, phases, next) /\ key \in Left(phases) /\ key \in Tags(exp)
             /\ Once(phases) => key \notin Left(next)
<1> DEFINE first == phases[1].keys
           key == Head(first)
<1>1. /\ Len(phases) \in Nat /\ 1 \in 1..Len(phases) /\ DOMAIN phases = 1..Len(phases)
      /\ \A p \in 1..Len(phases) : phases[p].keys \in Seq(Tags(exp))
  BY PlanIs
<1>2. first \in Seq(Tags(exp)) /\ first # <<>>
  BY <1>1
<1>3. /\ Len(first) \in Nat /\ 1 \in 1..Len(first) /\ key = first[1] /\ key \in Tags(exp)
      /\ Tail(first) \in Seq(Tags(exp)) /\ Len(Tail(first)) = Len(first) - 1
      /\ \A i \in 1..Len(Tail(first)) : i + 1 \in 1..Len(first) /\ Tail(first)[i] = first[i + 1]
  <2> HIDE DEF first
  <2> QED
    BY <1>2
<1> HIDE DEF first
\* Where a key is left in next, it was one place later in the first phase.
<1>7. \A p \in 1..Len(phases) : \A i \in 1..Len(next[p].keys) :
        /\ IF p = 1 THEN i + 1 \in 1..Len(first) /\ next[p].keys[i] = phases[p].keys[i + 1]
                    ELSE i \in 1..Len(phases[p].keys) /\ next[p].keys[i] = phases[p].keys[i]
  BY <1>3 DEF first
<1>8. ASSUME NEW k \in Left(next) PROVE k \in Left(phases) /\ (Once(phases) => k # key)
  <2>1. PICK p \in 1..Len(phases) : \E i \in 1..Len(next[p].keys) : next[p].keys[i] = k
    BY <1>8, LeftIs
  <2>2. PICK i \in 1..Len(next[p].keys) : next[p].keys[i] = k
    BY <2>1
  <2> DEFINE j == IF p = 1 THEN i + 1 ELSE i
  <2>3. j \in 1..Len(phases[p].keys) /\ phases[p].keys[j] = k /\ (p = 1 => j # 1)
    BY <1>7, <2>2 DEF first
  <2> HIDE DEF j
  <2>4. k \in Left(phases)
    BY <2>3, LeftIs
  <2>5. ASSUME Once(phases) PROVE k # key
    <3>1. key = phases[1].keys[1] /\ 1 \in 1..Len(phases[1].keys)
      BY <1>3 DEF first
    <3>2. phases[1].keys[1] = phases[p].keys[j] => p = 1 /\ j = 1
      BY <1>1, <2>3, <2>5, <3>1, OnceIs
    <3> QED
      BY <2>3, <3>1, <3>2
  <2> QED
    BY <2>4, <2>5
<1>9. key \in Left(phases)
  BY <1>1, <1>3, LeftIs DEF first
<1>10. ASSUME Once(phases) PROVE Once(next)
  <2>1. ASSUME NEW p \in 1..Len(next), NEW q \in 1..Len(next),
               NEW i \in 1..Len(next[p].keys), NEW j \in 1..Len(next[q].keys), next[p].keys[i] = next[q].keys[j]
        PROVE  p = q /\ i = j
    <3> DEFINE pi == IF p = 1 THEN i + 1 ELSE i
               qj == IF q = 1 THEN j + 1 ELSE j
    <3>1. /\ pi \in 1..Len(phases[p].keys) /\ next[p].keys[i] = phases[p].keys[pi]
          /\ qj \in 1..Len(phases[q].keys) /\ next[q].keys[j] = phases[q].keys[qj]
      BY <1>7 DEF first
    <3>2. p = q => (pi = qj => i = j)
      OBVIOUS
    <3> HIDE DEF pi, qj
    <3>3. p \in 1..Len(phases) /\ q \in 1..Len(phases) /\ phases[p].keys[pi] = phases[q].keys[qj]
      BY <2>1, <3>1
    <3>4. \A a, b \in 1..Len(phases) : \A c \in 1..Len(phases[a].keys), d \in 1..Len(phases[b].keys) :
            phases[a].keys[c] = phases[b].keys[d] => a = b /\ c = d
      BY <1>10, OnceIs
    <3>5. p = q /\ pi = qj
      BY <3>1, <3>3, <3>4
    <3> QED
      BY <3>2, <3>5
  <2> QED
    BY <2>1, OnceIs
<1>11. Shrinks(exp, phases, next)
  BY <1>8, <1>10 DEF Shrinks
<1> QED
  BY <1>1, <1>3, <1>8, <1>9, <1>11 DEF first

LEMMA PopShrinks ==
  ASSUME NEW exp, NEW phases \in Plans(exp), phases # <<>>, Head(phases).keys # <<>>,
         NEW next, next = [phases EXCEPT ![1] = [phases[1] EXCEPT !.keys = Tail(phases[1].keys)]]
  PROVE  LET key == Head(Head(phases).keys)
         IN  /\ Shrinks(exp, phases, next) /\ key \in Left(phases) /\ key \in Tags(exp)
             /\ Once(phases) => key \notin Left(next)
<1> DEFINE R == [keys : Seq(Tags(exp)), workers : Nat]
           v == [phases[1] EXCEPT !.keys = Tail(phases[1].keys)]
<1>1. phases \in Seq(R)
  BY DEF Plans
<1>2. 1 \in 1..Len(phases) /\ phases[1] \in R /\ Head(phases) = phases[1]
  <2> HIDE DEF R
  <2> QED
    BY <1>1
<1>3. phases[1].keys \in Seq(Tags(exp)) /\ phases[1].keys # <<>>
  BY <1>2
<1>4. Tail(phases[1].keys) \in Seq(Tags(exp))
  BY <1>3
<1>5. v \in R /\ v.keys = Tail(phases[1].keys)
  BY <1>2, <1>4
<1> HIDE DEF v, R
<1>6. next = [phases EXCEPT ![1] = v]
  BY DEF v
<1>7. Len(phases) \in Nat /\ DOMAIN phases = 1..Len(phases) /\ \A p \in 1..Len(phases) : phases[p] \in R
  BY <1>1
<1>8. next \in Seq(R) /\ Len(next) = Len(phases)
  BY <1>1, <1>2, <1>5, <1>6, <1>7
<1>9. next[1] = v /\ \A p \in 1..Len(phases) : p # 1 => next[p] = phases[p]
  BY <1>2, <1>6, <1>7
<1>10. next \in Plans(exp)
  BY <1>8 DEF Plans, R
<1>11. next[1].keys = Tail(phases[1].keys)
  BY <1>5, <1>9
<1>12. /\ Shrinks(exp, phases, next) /\ Head(phases[1].keys) \in Left(phases) /\ Head(phases[1].keys) \in Tags(exp)
       /\ Once(phases) => Head(phases[1].keys) \notin Left(next)
  BY <1>3, <1>8, <1>9, <1>10, <1>11, PoppedShrinks
<1> QED
  BY <1>2, <1>12

----------------------------------------------------------------------------
(* What a step does to the run *)

\* Worker i goes on to v, the reservation to held, and the plan may shrink.
Goes(exp, run, r, i, v, held) ==
  /\ DOMAIN r = RunFields /\ r.of = run.of /\ r.version = run.version /\ r.done = run.done
  /\ OneMoves(run.w, r.w, i, v) /\ r.reserved = held /\ Shrinks(exp, run.phases, r.phases)

LEMMA ThenGoes ==
  ASSUME NEW exp, NEW run, NEW r, NEW i, NEW v, NEW held, Goes(exp, run, r, i, v, held)
  PROVE  Then(r) = None \/ (Goes(exp, run, Then(r), i, v, held) /\ Left(Then(r).phases) \subseteq Left(r.phases))
<1> DEFINE idle == \A j \in DOMAIN r.w : r.w[j] = Waiting
           over == r.phases # <<>> /\ Head(r.phases).keys = <<>> /\ idle
           left == IF r.stopped THEN <<>> ELSE IF over THEN Tail(r.phases) ELSE r.phases
<1>1. r.phases \in Plans(exp) /\ Shrinks(exp, run.phases, r.phases)
  BY DEF Goes, Shrinks
<1>2. Shrinks(exp, r.phases, <<>>) /\ (over => Shrinks(exp, r.phases, Tail(r.phases)))
  BY <1>1, NothingShrinks, TailShrinks
<1>3. Shrinks(exp, run.phases, left) /\ Left(left) \subseteq Left(r.phases)
  <2>1. left = <<>> \/ (over /\ left = Tail(r.phases)) \/ left = r.phases
    OBVIOUS
  <2> HIDE DEF left, over
  <2> QED
    BY <1>1, <1>2, <2>1 DEF Shrinks
<1>4. Then(r) = IF idle /\ left = <<>> THEN None ELSE [r EXCEPT !.phases = left]
  BY DEF Then
<1> HIDE DEF left, over, idle
<1>5. Goes(exp, run, [r EXCEPT !.phases = left], i, v, held) /\ [r EXCEPT !.phases = left].phases = left
  BY <1>3 DEF Goes, RunFields
<1> QED
  BY <1>3, <1>4, <1>5

----------------------------------------------------------------------------
(* What the actions do *)

Fixed == DOMAIN x' = StateFields /\ x'.exp = x.exp /\ x'.reg = x.reg /\ x'.now = x.now
Books == /\ x'.calls = x.calls /\ x'.callsTail = x.callsTail /\ x'.merged = x.merged
         /\ x'.billed = x.billed /\ x'.lost = x.lost

\* The run goes on so, or is over.
RunGoes(i, v, held) == x'.run = None \/ Goes(x.exp, x.run, x'.run, i, v, held)

Ready(key) == [at |-> "ready", key |-> key, attempt |-> 0]

\* A key goes from the plan to a worker, or is passed over.
Picks(i, key, v, held) ==
  /\ Fixed /\ Books /\ x'.rows = x.rows /\ RunGoes(i, v, held)
  /\ x.run # None /\ i \in DOMAIN x.run.w /\ x.run.w[i] = Waiting
  /\ key \in Tags(x.exp) /\ key \in Left(x.run.phases)
  /\ Once(x.run.phases) /\ x'.run # None => key \notin Left(x'.run.phases)
  /\ v = Waiting \/ v = Ready(key)
  /\ held = x.run.reserved + (IF v = Ready(key) /\ x.exp.runner = "supplement" THEN WorstCase ELSE 0)

LEMMA TakenPicks ==
  ASSUME Shape, NEW i, CanTake(i), NEW does \in {"skip", "stop", "reserve", "ask"},
         does = "reserve" <=> does \notin {"skip", "stop"} /\ x.exp.runner = "supplement",
         x' = [x EXCEPT !.run = Then(Taken(i, does))]
  PROVE  \E v, held : Picks(i, NextKey, v, held) /\ (v = Ready(NextKey) <=> does \notin {"skip", "stop"})
<1> DEFINE run == x.run
           exp == x.exp
           asks == does \notin {"skip", "stop"}
           v == IF asks THEN Ready(NextKey) ELSE Waiting
           held == run.reserved + (IF does = "reserve" THEN WorstCase ELSE 0)
           phases == [run.phases EXCEPT ![1] = [run.phases[1] EXCEPT !.keys = Tail(run.phases[1].keys)]]
           r == Taken(i, does)
<1>1. /\ run # None /\ i \in DOMAIN run.w /\ run.w[i].at = "idle"
      /\ run.phases # <<>> /\ Head(run.phases).keys # <<>>
  BY DEF CanTake, Stage
<1>2. RunShape(exp, run) /\ DOMAIN run = RunFields /\ run.phases \in Plans(exp) /\ WorkerShape(exp, run.w[i])
  BY <1>1 DEF Shape, RunShape
<1>3. run.w[i] = Waiting
  BY <1>1, <1>2 DEF WorkerShape, Asking
<1>4. /\ Shrinks(exp, run.phases, phases) /\ NextKey \in Left(run.phases) /\ NextKey \in Tags(exp)
      /\ Once(run.phases) => NextKey \notin Left(phases)
  <2> HIDE DEF phases
  <2>1. phases = [run.phases EXCEPT ![1] = [run.phases[1] EXCEPT !.keys = Tail(run.phases[1].keys)]]
    BY DEF phases
  <2> QED
    BY <1>1, <1>2, <2>1, PopShrinks DEF NextKey
<1>5. v = Waiting \/ v = Ready(NextKey)
  OBVIOUS
<1>6. /\ DOMAIN r = RunFields /\ r.of = run.of /\ r.version = run.version /\ r.done = run.done
      /\ OneMoves(run.w, r.w, i, v) /\ r.reserved = held /\ r.phases = phases
  <2> DEFINE took == [run EXCEPT !.phases[1].keys = Tail(@)]
  <2>1. /\ DOMAIN took = RunFields /\ took.of = run.of /\ took.version = run.version /\ took.done = run.done
        /\ took.w = run.w /\ took.reserved = run.reserved /\ took.phases = phases
    BY <1>2 DEF RunFields
  <2>2. run.reserved \in Int
    BY <1>2 DEF RunShape
  <2>3. OneMoves(run.w, run.w, i, Waiting)
    BY <1>3 DEF OneMoves
  <2> HIDE DEF took
  <2>4. CASE does = "skip"
    <3>1. r = took /\ v = Waiting /\ held = run.reserved
      BY <2>2, <2>4 DEF Taken, took
    <3> QED
      BY <2>1, <2>3, <3>1
  <2>5. CASE does = "stop"
    <3>1. r = [took EXCEPT !.stopped = TRUE] /\ v = Waiting /\ held = run.reserved
      BY <2>2, <2>5 DEF Taken, took
    <3> QED
      BY <2>1, <2>3, <3>1 DEF RunFields
  <2>6. CASE does = "reserve"
    <3>1. r = [took EXCEPT !.w[i] = Ready(NextKey), !.reserved = @ + WorstCase]
          /\ v = Ready(NextKey) /\ held = run.reserved + WorstCase
      BY <2>6 DEF Taken, took, Ready
    <3> QED
      BY <1>1, <2>1, <3>1 DEF RunFields, OneMoves
  <2>7. CASE does = "ask"
    <3>1. r = [took EXCEPT !.w[i] = Ready(NextKey)] /\ v = Ready(NextKey) /\ held = run.reserved
      BY <2>2, <2>7 DEF Taken, took, Ready
    <3> QED
      BY <1>1, <2>1, <3>1 DEF RunFields, OneMoves
  <2> QED
    BY <2>4, <2>5, <2>6, <2>7
<1> HIDE DEF phases, r, v, held
<1>7. Goes(exp, run, r, i, v, held)
  BY <1>4, <1>6 DEF Goes
<1>8. Then(r) = None \/ (Goes(exp, run, Then(r), i, v, held) /\ Left(Then(r).phases) \subseteq Left(r.phases))
  BY <1>7, ThenGoes
<1>9. /\ DOMAIN x' = StateFields /\ x'.run = Then(r) /\ x'.exp = exp /\ x'.reg = x.reg /\ x'.now = x.now
      /\ x'.rows = x.rows /\ Books
  BY DEF Shape, StateFields, Books, r
<1>10. RunGoes(i, v, held)
  BY <1>8, <1>9 DEF RunGoes
<1>11. Once(run.phases) /\ x'.run # None => NextKey \notin Left(x'.run.phases)
  BY <1>4, <1>6, <1>8, <1>9
<1>12. v = Ready(NextKey) <=> asks
  <2>1. Ready(NextKey).at = "ready" /\ Waiting.at = "idle"
    BY DEF Ready, Waiting
  <2> QED
    BY <2>1 DEF v
<1>13. held = run.reserved + (IF v = Ready(NextKey) /\ exp.runner = "supplement" THEN WorstCase ELSE 0)
  BY <1>12 DEF held
<1>14. Picks(i, NextKey, v, held)
  BY <1>1, <1>3, <1>4, <1>5, <1>9, <1>10, <1>11, <1>13 DEF Picks, Fixed
<1> QED
  BY <1>12, <1>14

\* What must hold for a key to be asked for.
Granted(key) ==
  /\ x.exp.runner \in {"heldout", "supplement"} => Recorded(x.run.of, key) \notin x.run.done
  /\ x.exp.runner = "supplement" => Headroom(WorstCase)
  /\ x.exp.runner = "design" => Recorded(x.run.of, key) \notin DOMAIN x.rows /\ x.calls[key].n = 0
  /\ IsDesign(x.exp) => ~(Spent + DesignWorstCase > x.exp.cap)

LEMMA Takes ==
  ASSUME Shape, NEW i, TakeHeldout(i) \/ TakeSupplement(i) \/ TakeDesign(i) \/ TakeDesign2(i)
  PROVE  \E key, v, held : Picks(i, key, v, held) /\ (v = Ready(key) => Granted(key))
<1>1. CanTake(i)
  BY DEF TakeHeldout, TakeSupplement, TakeDesign, TakeDesign2, Take
<1>2. ASSUME NEW does \in {"skip", "stop", "reserve", "ask"},
             does = "reserve" <=> does \notin {"skip", "stop"} /\ x.exp.runner = "supplement",
             x' = [x EXCEPT !.run = Then(Taken(i, does))], does \notin {"skip", "stop"} => Granted(NextKey)
      PROVE  \E key, v, held : Picks(i, key, v, held) /\ (v = Ready(key) => Granted(key))
  BY <1>1, <1>2, TakenPicks
<1>3. CASE TakeHeldout(i)
  <2> DEFINE does == IF Recorded(x.run.of, NextKey) \in x.run.done THEN "skip" ELSE "ask"
  <2>1. x.exp.runner = "heldout" /\ x' = [x EXCEPT !.run = Then(Taken(i, does))]
    BY <1>3 DEF TakeHeldout, Take
  <2>2. does \in {"skip", "ask"} /\ (does = "ask" => Recorded(x.run.of, NextKey) \notin x.run.done)
    OBVIOUS
  <2> HIDE DEF does
  <2>3. does \notin {"skip", "stop"} => Granted(NextKey)
    BY <2>1, <2>2 DEF Granted, IsDesign
  <2> QED
    BY <1>2, <2>1, <2>2, <2>3
<1>4. CASE TakeSupplement(i)
  <2> DEFINE does == IF Recorded(x.run.of, NextKey) \in x.run.done THEN "skip"
                     ELSE IF Headroom(WorstCase) THEN "reserve" ELSE "stop"
  <2>1. x.exp.runner = "supplement" /\ x' = [x EXCEPT !.run = Then(Taken(i, does))]
    BY <1>4 DEF TakeSupplement, Take
  <2>2. does \in {"skip", "stop", "reserve"}
        /\ (does = "reserve" => Recorded(x.run.of, NextKey) \notin x.run.done /\ Headroom(WorstCase))
    OBVIOUS
  <2> HIDE DEF does
  <2>3. does \notin {"skip", "stop"} => Granted(NextKey)
    BY <2>1, <2>2 DEF Granted, IsDesign
  <2> QED
    BY <1>2, <2>1, <2>2, <2>3
<1>5. CASE TakeDesign(i)
  <2> DEFINE does == IF Recorded(x.run.of, NextKey) \in DOMAIN x.rows \/ x.calls[Tag(NextKey)].n > 0 THEN "skip"
                     ELSE IF Spent + DesignWorstCase > x.exp.cap THEN "stop" ELSE "ask"
  <2>1. x.exp.runner = "design" /\ x' = [x EXCEPT !.run = Then(Taken(i, does))]
    BY <1>5 DEF TakeDesign, Take
  <2>2. does \in {"skip", "stop", "ask"}
        /\ (does = "ask" => /\ Recorded(x.run.of, NextKey) \notin DOMAIN x.rows
                            /\ ~(x.calls[NextKey].n > 0) /\ ~(Spent + DesignWorstCase > x.exp.cap))
    BY DEF Tag
  <2> HIDE DEF does
  <2>3. NextKey \in Tags(x.exp)
    <3>1. x.run # None /\ x.run.phases # <<>> /\ Head(x.run.phases).keys # <<>> /\ x.run.phases \in Plans(x.exp)
      BY <1>1 DEF CanTake, Stage, Shape, RunShape
    <3>2. Head(x.run.phases).keys \in Seq(Tags(x.exp))
      BY <3>1, PlanIs
    <3> QED
      BY <3>1, <3>2 DEF NextKey
  <2>4. x.calls[NextKey].n \in Nat
    BY <2>3 DEF Shape
  <2>5. does \notin {"skip", "stop"} => Granted(NextKey)
    BY <2>1, <2>2, <2>4 DEF Granted, IsDesign
  <2> QED
    BY <1>2, <2>1, <2>2, <2>5
<1>6. CASE TakeDesign2(i)
  <2> DEFINE does == IF Spent + DesignWorstCase > x.exp.cap THEN "stop" ELSE "ask"
  <2>1. x.exp.runner = "design2" /\ x' = [x EXCEPT !.run = Then(Taken(i, does))]
    BY <1>6 DEF TakeDesign2, Take
  <2>2. does \in {"stop", "ask"} /\ (does = "ask" => ~(Spent + DesignWorstCase > x.exp.cap))
    OBVIOUS
  <2> HIDE DEF does
  <2>3. does \notin {"skip", "stop"} => Granted(NextKey)
    BY <2>1, <2>2 DEF Granted, IsDesign
  <2> QED
    BY <1>2, <2>1, <2>2, <2>3
<1> QED
  BY <1>3, <1>4, <1>5, <1>6

\* What is left of the reservation when a worker gives its part back.
Freed == IF x.exp.runner = "supplement" THEN Max({0, x.run.reserved - WorstCase}) ELSE x.run.reserved

LEMMA ReleasedIs ==
  ASSUME Shape, x.run # None
  PROVE  LET r == Released(x.run)
         IN  /\ DOMAIN r = RunFields /\ r.of = x.run.of /\ r.version = x.run.version /\ r.done = x.run.done
             /\ r.w = x.run.w /\ r.phases = x.run.phases /\ r.reserved = Freed
BY DEF Shape, RunShape, RunFields, Released, Freed

LEMMA SelfShrinks ==
  ASSUME Shape, x.run # None
  PROVE  Shrinks(x.exp, x.run.phases, x.run.phases)
BY DEF Shape, RunShape, Shrinks

\* An attempt goes out, or the client's limit ends the run.
LEMMA Submits ==
  ASSUME Shape, NEW i, Submit(i)
  PROVE  /\ x.run # None /\ i \in DOMAIN x.run.w /\ x.run.w[i] \in Asking(x.exp) /\ x.run.w[i].at = "ready"
         /\ Fixed /\ Books /\ x'.rows = x.rows
         /\ \/ RunGoes(i, Waiting, Freed)
            \/ \E v \in Asking(x.exp) :
                 /\ ~(Spent >= x.exp.budget) /\ RunGoes(i, v, x.run.reserved)
                 /\ v.at = "sent" /\ v.key = x.run.w[i].key /\ v.attempt = x.run.w[i].attempt
<1> DEFINE run == x.run
           w == run.w[i]
<1>1. run # None /\ i \in DOMAIN run.w /\ w.at = "ready"
  BY DEF Submit, Stage
<1>2. RunShape(x.exp, run) /\ DOMAIN run = RunFields /\ WorkerShape(x.exp, w)
  BY <1>1 DEF Shape, RunShape
<1>3. w \in Asking(x.exp)
  BY <1>1, <1>2 DEF WorkerShape, Waiting
<1>4. CASE Spent >= x.exp.budget
  <2> DEFINE r == [Released(run) EXCEPT !.stopped = TRUE, !.w[i] = Waiting]
  <2>1. x' = [x EXCEPT !.run = Then(r)]
    BY <1>4 DEF Submit
  <2>2. Goes(x.exp, run, r, i, Waiting, Freed)
    BY <1>1, <1>2, ReleasedIs, SelfShrinks DEF Goes, RunFields, OneMoves
  <2> HIDE DEF r
  <2>3. Then(r) = None \/ Goes(x.exp, run, Then(r), i, Waiting, Freed)
    BY <2>2, ThenGoes
  <2>4. Fixed /\ Books /\ x'.rows = x.rows /\ x'.run = Then(r)
    BY <2>1 DEF Shape, StateFields, Fixed, Books
  <2> QED
    BY <1>1, <1>3, <2>3, <2>4 DEF RunGoes
<1>5. CASE ~(Spent >= x.exp.budget)
  <2> DEFINE v == [w EXCEPT !.at = "sent"]
             r == [run EXCEPT !.w[i] = v]
  <2>1. x' = [x EXCEPT !.run = r]
    BY <1>1, <1>2, <1>5 DEF Submit
  <2>2. v \in Asking(x.exp) /\ v.at = "sent" /\ v.key = w.key /\ v.attempt = w.attempt
    BY <1>3 DEF Asking
  <2> HIDE DEF v
  <2>3. Goes(x.exp, run, r, i, v, run.reserved)
    BY <1>1, <1>2, SelfShrinks DEF Goes, RunFields, OneMoves
  <2> HIDE DEF r
  <2>4. Fixed /\ Books /\ x'.rows = x.rows /\ x'.run = r
    BY <2>1 DEF Shape, StateFields, Fixed, Books
  <2> QED
    BY <1>1, <1>3, <1>5, <2>2, <2>3, <2>4 DEF RunGoes
<1> QED
  BY <1>4, <1>5

\* The tag has one line more, of this amount.
Logs(tag, usd) ==
  /\ x'.calls \in [Tags(x.exp) -> [n : Nat, usd : Nat, denied : BOOLEAN]]
  /\ x'.calls[tag].n = x.calls[tag].n + 1 /\ x'.calls[tag].usd = x.calls[tag].usd + usd
  /\ \A t \in Tags(x.exp) : t # tag => x'.calls[t] = x.calls[t]
  /\ x'.callsTail = x.callsTail /\ x'.merged = x.merged

\* An answer is logged, or is lost in a line that was cut off; the key is
\* asked for again or not.
LEMMA Receives ==
  ASSUME Shape, NEW i, Stage(i, "sent"), NEW a \in Attempts(x.exp, x.run.w[i].key[2]), Received(i, a)
  PROVE  /\ x.run # None /\ i \in DOMAIN x.run.w /\ x.run.w[i] \in Asking(x.exp) /\ x.run.w[i].at = "sent"
         /\ Fixed /\ x'.rows = x.rows /\ x'.lost = x.lost /\ x'.billed = x.billed + a.billed
         /\ \/ /\ x.callsTail = "cut" /\ x'.callsTail = "spoilt" /\ x'.merged = TRUE /\ x'.calls = x.calls
            \/ Logs(x.run.w[i].key, LedgerCost(x.exp, x.run.w[i].key[2], a))
         /\ \E v : /\ Goes(x.exp, x.run, x'.run, i, v, x.run.reserved) /\ v.key = x.run.w[i].key
                   /\ \/ /\ v.at = "answered" /\ v.usd \in Nat
                         /\ v.usd <= LedgerCost(x.exp, x.run.w[i].key[2], a)
                      \/ /\ v \in Asking(x.exp) /\ v.at = "ready" /\ v.attempt = x.run.w[i].attempt + 1
                         /\ ~IsDesign(x.exp)
<1> DEFINE run == x.run
           w == run.w[i]
           exp == x.exp
           cost == LedgerCost(exp, w.key[2], a)
           denied == a.kind = "denied"
           logged == Appended(w.key, cost, denied)
           again == TriesAgain(a, w.attempt)
           v == IF again THEN [w EXCEPT !.at = "ready", !.attempt = @ + 1]
                ELSE [at |-> "answered", key |-> w.key, kind |-> a.kind,
                      usd |-> IF a.priced THEN BilledCost(exp, w.key[2], a) ELSE 0]
<1>1. run # None /\ i \in DOMAIN run.w /\ w.at = "sent"
  BY DEF Stage
<1>2. RunShape(exp, run) /\ DOMAIN run = RunFields /\ WorkerShape(exp, w)
  BY <1>1 DEF Shape, RunShape
<1>3. w \in Asking(exp)
  BY <1>1, <1>2 DEF WorkerShape, Waiting
<1>4. w.key \in Tags(exp) /\ w.attempt \in Nat
  BY <1>3 DEF Asking
<1>5. cost \in Nat
  BY LedgerCovers
<1>6. denied \in BOOLEAN
  OBVIOUS
<1>7. x' = [logged EXCEPT !.billed = @ + a.billed, !.run.w[i] = v]
  <2>1. x' = [logged EXCEPT !.billed = @ + a.billed,
                !.run.w[i] = IF TriesAgain(a, w.attempt) THEN [w EXCEPT !.at = "ready", !.attempt = @ + 1]
                             ELSE [at |-> "answered", key |-> w.key, kind |-> a.kind,
                                   usd |-> IF a.priced THEN BilledCost(exp, w.key[2], a) ELSE 0]]
    BY Zenon DEF Received, Tag
  <2> QED
    BY <2>1, Zenon
<1>8. again => /\ [w EXCEPT !.at = "ready", !.attempt = @ + 1] \in Asking(exp)
               /\ [w EXCEPT !.at = "ready", !.attempt = @ + 1].attempt = w.attempt + 1 /\ ~IsDesign(exp)
  <2>1. again => w.attempt < Tries(exp) /\ w.attempt + 1 \in 0..Tries(exp) /\ Tries(exp) # 0
    BY <1>3, Numbers DEF TriesAgain, Tries, Asking
  <2>2. Tries(exp) # 0 => ~IsDesign(exp)
    BY DEF Tries
  <2> QED
    BY <1>3, <2>1, <2>2 DEF Asking
<1>9. /\ v.key = w.key
      /\ \/ v.at = "answered" /\ v.usd \in Nat /\ v.usd <= cost
         \/ v \in Asking(exp) /\ v.at = "ready" /\ v.attempt = w.attempt + 1 /\ ~IsDesign(exp)
  <2>1. CASE again
    <3>1. v = [w EXCEPT !.at = "ready", !.attempt = @ + 1]
      BY <2>1
    <3> HIDE DEF again, v
    <3> QED
      BY <1>3, <1>8, <2>1, <3>1 DEF Asking
  <2>2. CASE ~again
    <3> DEFINE usd == IF a.priced THEN BilledCost(exp, w.key[2], a) ELSE 0
    <3>1. usd \in Nat /\ usd <= cost
      BY CarriedIsLogged
    <3>2. v = [at |-> "answered", key |-> w.key, kind |-> a.kind, usd |-> usd]
      BY <2>2
    <3> HIDE DEF usd, v, cost
    <3> QED
      BY <3>1, <3>2
  <2> QED
    BY <2>1, <2>2
<1> HIDE DEF again, v, cost, denied
\* The ledger
<1>10. /\ DOMAIN logged = StateFields /\ logged.exp = exp /\ logged.reg = x.reg /\ logged.rows = x.rows
       /\ logged.now = x.now /\ logged.lost = x.lost /\ logged.billed = x.billed /\ logged.run = run
       /\ \/ /\ x.callsTail = "cut" /\ logged.callsTail = "spoilt" /\ logged.merged = TRUE /\ logged.calls = x.calls
          \/ /\ logged.calls = [x.calls EXCEPT ![w.key] = [n |-> @.n + 1, usd |-> @.usd + cost, denied |-> denied]]
             /\ logged.callsTail = x.callsTail /\ logged.merged = x.merged
  <2>1. CASE x.callsTail = "cut"
    <3>1. logged = [x EXCEPT !.callsTail = "spoilt", !.merged = TRUE]
      BY <2>1 DEF Appended
    <3> QED
      BY <2>1, <3>1 DEF Shape, StateFields
  <2>2. CASE x.callsTail # "cut"
    <3>1. logged = [x EXCEPT !.calls[w.key] = [n |-> @.n + 1, usd |-> @.usd + cost, denied |-> denied]]
      BY <2>2 DEF Appended
    <3> QED
      BY <2>2, <3>1 DEF Shape, StateFields
  <2> QED
    BY <2>1, <2>2
<1>11. x.calls \in [Tags(exp) -> [n : Nat, usd : Nat, denied : BOOLEAN]] /\ x.calls[w.key].n \in Nat /\ x.calls[w.key].usd \in Nat
  BY <1>4 DEF Shape
<1>12. logged.calls = [x.calls EXCEPT ![w.key] = [n |-> @.n + 1, usd |-> @.usd + cost, denied |-> denied]]
       => /\ logged.calls \in [Tags(exp) -> [n : Nat, usd : Nat, denied : BOOLEAN]]
          /\ logged.calls[w.key].n = x.calls[w.key].n + 1 /\ logged.calls[w.key].usd = x.calls[w.key].usd + cost
          /\ \A t \in Tags(exp) : t # w.key => logged.calls[t] = x.calls[t]
  <2> SUFFICES ASSUME logged.calls = [x.calls EXCEPT ![w.key] = [n |-> @.n + 1, usd |-> @.usd + cost, denied |-> denied]]
               PROVE  /\ logged.calls \in [Tags(exp) -> [n : Nat, usd : Nat, denied : BOOLEAN]]
                      /\ logged.calls[w.key].n = x.calls[w.key].n + 1 /\ logged.calls[w.key].usd = x.calls[w.key].usd + cost
                      /\ \A t \in Tags(exp) : t # w.key => logged.calls[t] = x.calls[t]
    OBVIOUS
  <2> DEFINE line == [n |-> x.calls[w.key].n + 1, usd |-> x.calls[w.key].usd + cost, denied |-> denied]
  <2>1. logged.calls = [x.calls EXCEPT ![w.key] = line]
    OBVIOUS
  <2> HIDE DEF logged, w, exp
  <2>2. x.calls[w.key].n + 1 \in Nat /\ x.calls[w.key].usd + cost \in Nat
    BY ONLY <1>5, <1>11
  <2>3. line \in [n : Nat, usd : Nat, denied : BOOLEAN]
    BY ONLY <1>6, <2>2
  <2>4. line.n = x.calls[w.key].n + 1 /\ line.usd = x.calls[w.key].usd + cost
    BY DEF line
  <2>5. w.key \in Tags(exp) /\ x.calls \in [Tags(exp) -> [n : Nat, usd : Nat, denied : BOOLEAN]]
    BY ONLY <1>4, <1>11
  <2> HIDE DEF line
  <2>6. logged.calls[w.key] = line /\ \A t \in Tags(exp) : t # w.key => logged.calls[t] = x.calls[t]
    BY ONLY <2>1, <2>5
  <2>7. logged.calls \in [Tags(exp) -> [n : Nat, usd : Nat, denied : BOOLEAN]]
    BY ONLY <2>1, <2>3, <2>5
  <2> QED
    BY ONLY <2>4, <2>6, <2>7
<1> HIDE DEF logged
<1>13. /\ DOMAIN x' = StateFields /\ x'.exp = exp /\ x'.reg = x.reg /\ x'.rows = x.rows /\ x'.now = x.now
       /\ x'.lost = x.lost /\ x'.billed = x.billed + a.billed /\ x'.run = [run EXCEPT !.w[i] = v]
       /\ x'.calls = logged.calls /\ x'.callsTail = logged.callsTail /\ x'.merged = logged.merged
  BY <1>7, <1>10 DEF StateFields
<1>14. Goes(exp, run, x'.run, i, v, run.reserved)
  BY <1>1, <1>2, <1>13, SelfShrinks DEF Goes, RunFields, OneMoves
<1>15. \/ /\ x.callsTail = "cut" /\ x'.callsTail = "spoilt" /\ x'.merged = TRUE /\ x'.calls = x.calls
       \/ Logs(w.key, cost)
  BY <1>10, <1>12, <1>13 DEF Logs
<1> QED
  BY <1>1, <1>3, <1>9, <1>13, <1>14, <1>15 DEF Fixed, cost

LEMMA Grades ==
  ASSUME Shape, NEW i, GradeAnswer(i)
  PROVE  /\ x.run # None /\ i \in DOMAIN x.run.w /\ x.run.w[i].at = "answered" /\ x.run.w[i].key \in Tags(x.exp)
         /\ Fixed /\ Books /\ x'.rows = x.rows
         /\ \E v : /\ v.at = "graded" /\ v.key = x.run.w[i].key /\ Goes(x.exp, x.run, x'.run, i, v, Freed)
                   /\ v.usd = x.run.w[i].usd /\ (v.failed => Blamed(x.exp, v.outcome))
<1> DEFINE w == x.run.w[i]
<1>1. x.run # None /\ i \in DOMAIN x.run.w /\ w.at = "answered"
  BY DEF GradeAnswer, Stage
<1>2. RunShape(x.exp, x.run) /\ WorkerShape(x.exp, w)
  BY <1>1 DEF Shape, RunShape
<1>3. w.key \in Tags(x.exp)
  BY <1>1, <1>2 DEF WorkerShape, Waiting, Asking
<1> DEFINE harness == x.exp.runner = "design2" /\ w.kind = "denied"
<1>4. PICK outcome \in IF harness THEN {"harness"} ELSE Graded(x.exp, x.run.isolated, w.key[1], w.kind) :
        x' = [x EXCEPT !.run = [Released(@) EXCEPT
         !.w[i] = [at |-> "graded", key |-> w.key, outcome |-> outcome, failed |-> w.kind # "answered", usd |-> w.usd]]]
  BY Zenon DEF GradeAnswer
<1>9. w.kind # "answered" => Blamed(x.exp, outcome)
  BY <1>4 DEF Graded, Blamed
<1> DEFINE v == [at |-> "graded", key |-> w.key, outcome |-> outcome, failed |-> w.kind # "answered", usd |-> w.usd]
           r == [Released(x.run) EXCEPT !.w[i] = v]
<1>5. v.at = "graded" /\ v.key = w.key /\ v.usd = w.usd /\ (v.failed => Blamed(x.exp, v.outcome))
  BY <1>9
<1>6. x' = [x EXCEPT !.run = r]
  BY <1>4, Zenon
<1> HIDE DEF v
<1>7. Goes(x.exp, x.run, r, i, v, Freed)
  BY <1>1, <1>2, ReleasedIs, SelfShrinks DEF Goes, RunFields, OneMoves
<1> HIDE DEF r
<1>8. Fixed /\ Books /\ x'.rows = x.rows /\ x'.run = r
  BY <1>6 DEF Shape, StateFields, Fixed, Books
<1> QED
  BY <1>1, <1>3, <1>5, <1>7, <1>8

\* The row is in the ledger under what its key is recorded as.
LEMMA Writes ==
  ASSUME Shape, NEW i, WriteRow(i)
  PROVE  /\ x.run # None /\ i \in DOMAIN x.run.w /\ x.run.w[i].at = "graded" /\ x.run.w[i].key \in Tags(x.exp)
         /\ Fixed /\ Books /\ RunGoes(i, Waiting, x.run.reserved)
         /\ LET key == Recorded(x.run.of, x.run.w[i].key)
            IN  /\ DOMAIN x'.rows = DOMAIN x.rows \cup {key} /\ x'.rows[key].version = x.run.version
                /\ x'.rows[key].usd = x.run.w[i].usd /\ "n" \in DOMAIN x'.rows[key]
                /\ x'.rows[key].failed = x.run.w[i].failed /\ x'.rows[key].outcome = x.run.w[i].outcome
                /\ key \notin DOMAIN x.rows => x'.rows[key].n = 1
                /\ \A k \in DOMAIN x.rows : k # key => x'.rows[k] = x.rows[k]
<1> DEFINE w == x.run.w[i]
           key == Recorded(x.run.of, w.key)
           row == [outcome |-> w.outcome, failed |-> w.failed, usd |-> w.usd, version |-> x.run.version,
                   n |-> IF key \in DOMAIN x.rows THEN x.rows[key].n + 1 ELSE 1]
           r == [x.run EXCEPT !.w[i] = Waiting, !.stopped = @ \/ w.outcome = "harness"]
<1>1. x.run # None /\ i \in DOMAIN x.run.w /\ w.at = "graded"
  BY DEF WriteRow, Stage
<1>2. RunShape(x.exp, x.run) /\ DOMAIN x.run = RunFields /\ WorkerShape(x.exp, w)
  BY <1>1 DEF Shape, RunShape
<1>3. w.key \in Tags(x.exp)
  BY <1>1, <1>2 DEF WorkerShape, Waiting, Asking
<1>4. x' = [x EXCEPT !.rows = [k \in DOMAIN @ \cup {key} |-> IF k = key THEN row ELSE @[k]], !.run = Then(r)]
  BY Zenon DEF WriteRow
<1>5. Goes(x.exp, x.run, r, i, Waiting, x.run.reserved)
  BY <1>1, <1>2, SelfShrinks DEF Goes, RunFields, OneMoves
<1>6. /\ row.version = x.run.version /\ (key \notin DOMAIN x.rows => row.n = 1)
      /\ row.usd = w.usd /\ row.failed = w.failed /\ row.outcome = w.outcome /\ "n" \in DOMAIN row
  OBVIOUS
<1> HIDE DEF r, row, key
<1>7. Then(r) = None \/ Goes(x.exp, x.run, Then(r), i, Waiting, x.run.reserved)
  BY <1>5, ThenGoes
<1>8. /\ Fixed /\ Books /\ x'.run = Then(r)
      /\ x'.rows = [k \in DOMAIN x.rows \cup {key} |-> IF k = key THEN row ELSE x.rows[k]]
  BY <1>4 DEF Shape, StateFields, Fixed, Books
<1>9. /\ DOMAIN x'.rows = DOMAIN x.rows \cup {key} /\ x'.rows[key] = row
      /\ \A k \in DOMAIN x.rows : k # key => x'.rows[k] = x.rows[k]
  BY <1>8
<1> QED
  BY <1>1, <1>3, <1>6, <1>7, <1>8, <1>9 DEF RunGoes, key

\* The process dies.
LEMMA Crashes ==
  ASSUME Shape, Crash
  PROVE  /\ DOMAIN x' = StateFields /\ x'.exp = x.exp /\ x'.reg = x.reg /\ x'.now = x.now /\ x'.run = None
         /\ x'.calls = x.calls /\ x'.merged = x.merged /\ x'.billed = x.billed /\ x'.rows = x.rows
         /\ x'.lost \in [Tags(x.exp) -> Nat] /\ x'.callsTail \in {x.callsTail, "cut"}
<1> DEFINE sent == {i \in DOMAIN x.run.w : x.run.w[i].at = "sent"}
           out(t) == Cardinality({i \in sent : Tag(x.run.w[i].key) = t})
           lost == [t \in DOMAIN x.lost |-> x.lost[t] + out(t)]
<1>1. PICK cut : x' = [x EXCEPT !.run = None, !.crashes = @ + 1, !.lost = lost,
                         !.callsTail = IF "call" \in cut THEN "cut" ELSE @,
                         !.rowsTail = IF "row" \in cut THEN "cut" ELSE @]
  BY Zenon DEF Crash
<1>2. RunShape(x.exp, x.run)
  BY DEF Crash, Shape
<1>3. IsFiniteSet(DOMAIN x.run.w)
  BY <1>2, RunFinite DEF Shape
<1>4. ASSUME NEW t PROVE out(t) \in Nat
  <2> DEFINE A == {i \in sent : Tag(x.run.w[i].key) = t}
  <2>1. A \in SUBSET (DOMAIN x.run.w)
    OBVIOUS
  <2> HIDE DEF A
  <2>2. Cardinality(A) \in Nat
    BY <1>3, <2>1, FS_Subset, FS_CardinalityType
  <2> QED
    BY <2>2 DEF A
<1> HIDE DEF out
<1>5. lost \in [Tags(x.exp) -> Nat]
  BY <1>4 DEF Shape
<1> HIDE DEF lost
<1> QED
  BY <1>1, <1>5 DEF Shape, StateFields

\* A run is begun on a plan, with all workers idle.
Begins(c) ==
  /\ Fixed /\ Books /\ x'.rows = x.rows /\ c \in x.exp.launches /\ x.run = None /\ x.reg # None
  /\ x'.run.of = c /\ x'.run.version = x.now /\ x'.run.done = DOMAIN x.rows /\ x'.run.phases = Phases(x.exp, c)
  /\ DOMAIN x'.run = RunFields /\ DOMAIN x'.run.w = 1..c.workers /\ \A i \in 1..c.workers : x'.run.w[i] = Waiting

LEMMA StartedBegins ==
  ASSUME Shape, NEW c \in x.exp.launches, NEW isolated, NEW reserved, Started(c, isolated, reserved)
  PROVE  Begins(c) /\ x'.run.reserved = reserved
<1> DEFINE p == Process(c, isolated, reserved)
<1>1. /\ DOMAIN p = RunFields /\ p.of = c /\ p.version = x.now /\ p.done = DOMAIN x.rows
      /\ p.phases = Phases(x.exp, c) /\ p.w = [i \in 1..c.workers |-> Waiting] /\ p.reserved = reserved
  BY DEF Process, RunFields
<1>2. DOMAIN p.w = 1..c.workers /\ \A i \in 1..c.workers : p.w[i] = Waiting
  BY <1>1
<1>3. x.run = None /\ x.reg # None /\ x' = [x EXCEPT !.run = p, !.metas = Append(@, [arms |-> c.arms, label |-> c.label])]
  BY DEF Started
<1> HIDE DEF p
<1>4. /\ DOMAIN x' = StateFields /\ x'.exp = x.exp /\ x'.reg = x.reg /\ x'.now = x.now /\ x'.rows = x.rows
      /\ Books /\ x'.run = p
  BY <1>3 DEF Shape, StateFields, Books
<1> QED
  BY <1>1, <1>2, <1>3, <1>4 DEF Begins, Fixed

\* What is in order at a launch.
LEMMA Launches ==
  ASSUME Shape, Launch
  PROVE  \E c : /\ Begins(c) /\ x'.run.reserved = (IF x.exp.runner = "supplement" THEN x.exp.budget ELSE 0)
                /\ x.exp.runner # "heldout" => x.callsTail = "whole"
                /\ x.exp.runner = "supplement" => x.exp.prior + Spent + x.exp.budget <= x.exp.cap
                /\ x.exp.runner = "design2" => x.rows = <<>> /\ (\A t \in DOMAIN x.calls : x.calls[t].n = 0)
                /\ Changed(x.now, x.reg.current, Compares(x.exp) \ (IF x.exp.pinned THEN {} ELSE {"identity"})) = {}
<1>1. PICK c \in x.exp.launches :
        \/ LaunchSupplement(c)
        \/ \E isolated \in BOOLEAN : LaunchHeldout(c, isolated)
        \/ LaunchDesign(c, TRUE)
        \/ LaunchDesign2(c, TRUE)
  BY DEF Launch
<1>2. ASSUME NEW S PROVE Changed(x.now, x.reg.current, S) = {} => Changed(x.now, x.reg.current, S \ (IF x.exp.pinned THEN {} ELSE {"identity"})) = {}
  BY DEF Changed
<1>3. CASE LaunchSupplement(c)
  <2>1. /\ x.exp.runner = "supplement" /\ x.callsTail = "whole" /\ x.exp.prior + Spent + x.exp.budget <= x.exp.cap
        /\ Started(c, TRUE, x.exp.budget) /\ Changed(x.now, x.reg.current, SupplementCompares) = {}
    BY <1>3 DEF LaunchSupplement, SupplementDrift
  <2>2. Compares(x.exp) = SupplementCompares
    BY <2>1 DEF Compares
  <2>3. Begins(c) /\ x'.run.reserved = x.exp.budget
    BY <2>1, StartedBegins
  <2> QED
    BY <1>2, <2>1, <2>2, <2>3
<1>4. CASE \E isolated \in BOOLEAN : LaunchHeldout(c, isolated)
  <2>1. PICK isolated \in BOOLEAN : LaunchHeldout(c, isolated)
    BY <1>4
  <2>2. /\ x.exp.runner = "heldout" /\ Started(c, isolated, 0) /\ Changed(x.now, x.reg.current, HeldoutCompares) = {}
        /\ x.exp.pinned => Changed(x.now, x.reg.current, {"identity"}) = {}
    BY <2>1 DEF LaunchHeldout, HeldoutDrift, PolicyMoved
  <2>3. Compares(x.exp) = HeldoutCompares \cup {"identity"}
    BY <2>2 DEF Compares
  <2>4. Changed(x.now, x.reg.current, (HeldoutCompares \cup {"identity"}) \ (IF x.exp.pinned THEN {} ELSE {"identity"})) = {}
    BY <2>2 DEF Changed, HeldoutCompares
  <2>5. Begins(c) /\ x'.run.reserved = 0
    BY <2>2, StartedBegins
  <2> QED
    BY <2>2, <2>3, <2>4, <2>5
<1>5. CASE LaunchDesign(c, TRUE)
  <2>1. /\ x.exp.runner = "design" /\ x.callsTail = "whole" /\ Started(c, TRUE, 0)
        /\ Changed(x.now, x.reg.current, DesignCompares) = {}
    BY <1>5 DEF LaunchDesign, DesignFailed
  <2>2. Compares(x.exp) = DesignCompares
    BY <2>1 DEF Compares
  <2>3. Begins(c) /\ x'.run.reserved = 0
    BY <2>1, StartedBegins
  <2> QED
    BY <1>2, <2>1, <2>2, <2>3
<1>6. CASE LaunchDesign2(c, TRUE)
  <2>1. /\ x.exp.runner = "design2" /\ x.callsTail = "whole" /\ Started(c, TRUE, 0)
        /\ x.rows = <<>> /\ (\A t \in DOMAIN x.calls : x.calls[t].n = 0)
        /\ Changed(x.now, x.reg.current, DesignCompares) = {}
    BY <1>6 DEF LaunchDesign2, Design2Failed, DesignFailed
  <2>2. Compares(x.exp) = DesignCompares
    BY <2>1 DEF Compares
  <2>3. Begins(c) /\ x'.run.reserved = 0
    BY <2>1, StartedBegins
  <2> QED
    BY <1>2, <2>1, <2>2, <2>3
<1> QED
  BY <1>1, <1>3, <1>4, <1>5, <1>6

\* What is registered stays named, or no row says otherwise.
LEMMA Registers ==
  ASSUME Shape, Register \/ Amend \/ (\E p \in x.exp.editable : Alter(p))
  PROVE  /\ DOMAIN x' = StateFields /\ x'.exp = x.exp /\ x'.run = x.run /\ Books /\ x'.rows = x.rows
         /\ \/ x.run = None /\ (IF IsDesign(x.exp) THEN x.reg = None ELSE x.rows = <<>>)
            \/ x'.reg = x.reg
            \/ /\ ~IsDesign(x.exp)
               /\ x.reg.superseded \cup {x.reg.current} \subseteq x'.reg.superseded \cup {x'.reg.current}
<1>1. CASE Register
  <2>1. /\ x.run = None /\ (IF IsDesign(x.exp) THEN x.reg = None ELSE x.rows = <<>>)
        /\ x' = [x EXCEPT !.reg = Registration(x.now)]
    BY <1>1 DEF Register
  <2>2. /\ DOMAIN x' = StateFields /\ x'.exp = x.exp /\ x'.run = x.run /\ Books /\ x'.rows = x.rows
    BY <2>1 DEF Shape, StateFields, Books
  <2> QED
    BY <2>1, <2>2
<1>2. CASE Amend
  <2>1. PICK parts : Amended(parts)
    BY <1>2 DEF Amend, AmendHeldout, AmendSupplement
  <2>2. x.reg # None /\ ~IsDesign(x.exp)
    BY <1>2 DEF Amend
  <2> DEFINE reg == [first |-> x.reg.first, superseded |-> x.reg.superseded \cup {x.reg.current}, amended |-> TRUE,
                     current |-> [p \in DOMAIN x.reg.current |->
                                    IF p \in parts THEN x.now[p] ELSE x.reg.current[p]]]
  <2>3. x' = [x EXCEPT !.reg = reg]
    BY <2>1 DEF Amended
  <2>4. reg.superseded = x.reg.superseded \cup {x.reg.current}
    OBVIOUS
  <2> HIDE DEF reg
  <2>5. /\ DOMAIN x' = StateFields /\ x'.exp = x.exp /\ x'.run = x.run /\ Books /\ x'.rows = x.rows /\ x'.reg = reg
    BY <2>3 DEF Shape, StateFields, Books
  <2> QED
    BY <2>2, <2>4, <2>5
<1>3. CASE \E p \in x.exp.editable : Alter(p)
  <2>1. PICK p : Alter(p)
    BY <1>3
  <2>2. /\ DOMAIN x' = StateFields /\ x'.exp = x.exp /\ x'.run = x.run /\ Books /\ x'.rows = x.rows /\ x'.reg = x.reg
    BY <2>1 DEF Alter, Shape, StateFields, Books
  <2> QED
    BY <2>2
<1> QED
  BY <1>1, <1>2, <1>3

----------------------------------------------------------------------------
(* Types *)

LEMMA GoesShape ==
  ASSUME NEW exp \in Experiment, NEW run, RunShape(exp, run), NEW i \in DOMAIN run.w, NEW v, WorkerShape(exp, v),
         NEW held \in Int, NEW r, Goes(exp, run, r, i, v, held)
  PROVE  RunShape(exp, r)
BY DEF RunShape, Goes, OneMoves, Shrinks

LEMMA RunGoesShape ==
  ASSUME Shape, x.run # None, NEW i \in DOMAIN x.run.w, NEW v, WorkerShape(x.exp, v),
         NEW held \in Int, RunGoes(i, v, held)
  PROVE  x'.run # None => RunShape(x.exp, x'.run)
<1> SUFFICES ASSUME x'.run # None PROVE RunShape(x.exp, x'.run)
  OBVIOUS
<1>1. x.exp \in Experiment /\ RunShape(x.exp, x.run) /\ Goes(x.exp, x.run, x'.run, i, v, held)
  BY DEF Shape, RunGoes
<1> QED
  BY <1>1, GoesShape

LEMMA HeldIsNumber ==
  ASSUME Shape, x.run # None
  PROVE  x.run.reserved \in Int /\ Freed \in Int
<1>1. x.run.reserved \in Int /\ x.run.reserved - WorstCase \in Int /\ 0 \in Int
  BY DEF Shape, RunShape, WorstCase
<1>2. Max({0, x.run.reserved - WorstCase}) \in {0, x.run.reserved - WorstCase}
  BY <1>1, HigherOfTwo, Zenon
<1>3. Max({0, x.run.reserved - WorstCase}) \in Int
  BY <1>1, <1>2
<1> QED
  BY <1>1, <1>3 DEF Freed

\* One step of the directory is one of these.
LEMMA NextIs ==
  ASSUME ExperimentsNext
  PROVE  \/ Register \/ Amend \/ Launch \/ Crash
         \/ \E p \in x.exp.editable : Alter(p)
         \/ \E i : TakeHeldout(i) \/ TakeSupplement(i) \/ TakeDesign(i) \/ TakeDesign2(i)
         \/ \E i : Submit(i)
         \/ \E i : GradeAnswer(i)
         \/ \E i : WriteRow(i)
         \/ \E i : Stage(i, "sent") /\ \E a \in Attempts(x.exp, x.run.w[i].key[2]) : Received(i, a)
BY DEF ExperimentsNext

LEMMA BooksTyped ==
  ASSUME Shape, Books
  PROVE  /\ x'.calls \in [Tags(x.exp) -> [n : Nat, usd : Nat, denied : BOOLEAN]]
         /\ x'.lost \in [Tags(x.exp) -> Nat] /\ x'.billed \in Nat /\ x'.merged \in BOOLEAN
BY DEF Shape, Books

LEMMA ShapeHolds == ExperimentsSpec => []Shape
<1>1. ExperimentsInit => Shape
  <2> SUFFICES ASSUME NEW exp \in Experiment, x = ExperimentStart(exp) PROVE Shape
    BY DEF ExperimentsInit
  <2>1. /\ DOMAIN x = StateFields /\ x.exp = exp /\ x.billed = 0 /\ x.merged = FALSE /\ x.run = None
        /\ x.calls = [t \in Tags(exp) |-> [n |-> 0, usd |-> 0, denied |-> FALSE]]
        /\ x.lost = [t \in Tags(exp) |-> 0]
    BY DEF ExperimentStart, StateFields
  <2>2. [n |-> 0, usd |-> 0, denied |-> FALSE] \in [n : Nat, usd : Nat, denied : BOOLEAN]
    OBVIOUS
  <2>3. x.calls \in [Tags(exp) -> [n : Nat, usd : Nat, denied : BOOLEAN]]
    BY <2>1, <2>2
  <2>4. x.lost \in [Tags(exp) -> Nat]
    BY <2>1
  <2>5. x.billed \in Nat
    BY <2>1
  <2>6. x.merged \in BOOLEAN
    BY <2>1, Zenon
  <2> QED
    BY <2>1, <2>3, <2>4, <2>5, <2>6, Zenon DEF Shape
<1>2. ASSUME Shape, ExperimentsNext PROVE Shape'
  <2> USE <1>2
  <2>1. CASE Register \/ Amend \/ \E p \in x.exp.editable : Alter(p)
    BY <2>1, Registers, BooksTyped DEF Shape
  <2>2. CASE Launch
    <3>1. PICK c : Begins(c) /\ x'.run.reserved = (IF x.exp.runner = "supplement" THEN x.exp.budget ELSE 0)
      BY <2>2, Launches
    <3>2. c \in x.exp.launches /\ x.exp \in Experiment
      BY <3>1 DEF Begins, Shape
    <3>3. x'.run.reserved \in Int /\ Phases(x.exp, c) \in Plans(x.exp)
      BY <3>1, <3>2, DirectoryTyped
    <3>4. RunShape(x.exp, x'.run)
      BY <3>1, <3>2, <3>3 DEF Begins, RunShape, WorkerShape
    <3> QED
      BY <3>1, <3>4, BooksTyped DEF Shape, Begins, Fixed
  <2>3. CASE Crash
    BY <2>3, Crashes DEF Shape
  <2>4. CASE \E i : TakeHeldout(i) \/ TakeSupplement(i) \/ TakeDesign(i) \/ TakeDesign2(i)
    <3>1. PICK i, key, v, held : Picks(i, key, v, held)
      BY <2>4, Takes
    <3>2. v = Waiting \/ v \in Asking(x.exp)
      BY <3>1, Numbers DEF Picks, Ready, Asking, Tries
    <3>3. WorkerShape(x.exp, v)
      BY <3>2 DEF WorkerShape
    <3>4. held \in Int
      BY <3>1, HeldIsNumber DEF Picks, WorstCase
    <3>5. x.run # None /\ i \in DOMAIN x.run.w /\ RunGoes(i, v, held) /\ Fixed /\ Books
      BY <3>1 DEF Picks
    <3>6. x'.run # None => RunShape(x.exp, x'.run)
      BY <3>3, <3>4, <3>5, RunGoesShape
    <3> QED
      BY <3>5, <3>6, BooksTyped DEF Shape, Fixed
  <2>5. CASE \E i : Submit(i)
    <3>1. PICK i : Submit(i)
      BY <2>5
    <3>2. /\ x.run # None /\ i \in DOMAIN x.run.w /\ Fixed /\ Books
          /\ \/ RunGoes(i, Waiting, Freed)
             \/ \E v \in Asking(x.exp) : RunGoes(i, v, x.run.reserved)
      BY <3>1, Submits
    <3>3. x'.run # None => RunShape(x.exp, x'.run)
      <4>1. WorkerShape(x.exp, Waiting) /\ \A v \in Asking(x.exp) : WorkerShape(x.exp, v)
        BY DEF WorkerShape
      <4> QED
        BY <3>2, <4>1, RunGoesShape, HeldIsNumber
    <3> QED
      BY <3>2, <3>3, BooksTyped DEF Shape, Fixed
  <2>6. CASE \E i : GradeAnswer(i)
    <3>1. PICK i : GradeAnswer(i)
      BY <2>6
    <3>2. PICK v : v.at = "graded" /\ v.key = x.run.w[i].key /\ Goes(x.exp, x.run, x'.run, i, v, Freed)
      BY <3>1, Grades
    <3>3. x.run # None /\ i \in DOMAIN x.run.w /\ Fixed /\ Books /\ x.run.w[i].key \in Tags(x.exp)
      BY <3>1, Grades
    <3>4. WorkerShape(x.exp, v)
      BY <3>2, <3>3 DEF WorkerShape
    <3>5. x'.run # None => RunShape(x.exp, x'.run)
      BY <3>2, <3>3, <3>4, RunGoesShape, HeldIsNumber DEF RunGoes
    <3> QED
      BY <3>3, <3>5, BooksTyped DEF Shape, Fixed
  <2>7. CASE \E i : WriteRow(i)
    <3>1. PICK i : WriteRow(i)
      BY <2>7
    <3>2. x.run # None /\ i \in DOMAIN x.run.w /\ Fixed /\ Books /\ RunGoes(i, Waiting, x.run.reserved)
      BY <3>1, Writes
    <3>3. x'.run # None => RunShape(x.exp, x'.run)
      <4>1. WorkerShape(x.exp, Waiting)
        BY DEF WorkerShape
      <4> QED
        BY <3>2, <4>1, RunGoesShape, HeldIsNumber
    <3> QED
      BY <3>2, <3>3, BooksTyped DEF Shape, Fixed
  <2>8. CASE \E i : Stage(i, "sent") /\ \E a \in Attempts(x.exp, x.run.w[i].key[2]) : Received(i, a)
    <3>1. PICK i : Stage(i, "sent") /\ \E a \in Attempts(x.exp, x.run.w[i].key[2]) : Received(i, a)
      BY <2>8
    <3>2. PICK a \in Attempts(x.exp, x.run.w[i].key[2]) : Received(i, a)
      BY <3>1
    <3>3. /\ x.run # None /\ i \in DOMAIN x.run.w /\ x.run.w[i] \in Asking(x.exp)
          /\ Fixed /\ x'.lost = x.lost /\ x'.billed = x.billed + a.billed
          /\ \/ x'.merged = TRUE /\ x'.calls = x.calls
             \/ Logs(x.run.w[i].key, LedgerCost(x.exp, x.run.w[i].key[2], a))
      BY <3>1, <3>2, Receives
    <3>4. PICK v : /\ Goes(x.exp, x.run, x'.run, i, v, x.run.reserved) /\ v.key = x.run.w[i].key
                   /\ v.at = "answered" \/ v \in Asking(x.exp)
      BY <3>1, <3>2, Receives
    <3>5. x.run.w[i].key \in Tags(x.exp)
      BY <3>3 DEF Asking
    <3>6. WorkerShape(x.exp, v)
      BY <3>4, <3>5 DEF WorkerShape
    <3>7. x'.run # None => RunShape(x.exp, x'.run)
      BY <3>3, <3>4, <3>6, RunGoesShape, HeldIsNumber DEF RunGoes
    <3>8. a.billed \in Nat
      BY LedgerCovers
    <3>9. /\ x'.calls \in [Tags(x.exp) -> [n : Nat, usd : Nat, denied : BOOLEAN]] /\ x'.merged \in BOOLEAN
          /\ x'.billed \in Nat /\ x'.lost \in [Tags(x.exp) -> Nat]
      <4>1. x'.billed \in Nat /\ x'.lost \in [Tags(x.exp) -> Nat]
        BY <3>3, <3>8 DEF Shape
      <4>2. x'.calls \in [Tags(x.exp) -> [n : Nat, usd : Nat, denied : BOOLEAN]] /\ x'.merged \in BOOLEAN
        BY <3>3 DEF Shape, Logs
      <4> QED
        BY <4>1, <4>2
    <3> QED
      BY <3>3, <3>7, <3>9 DEF Shape, Fixed
  <2> QED
    BY <2>1, <2>2, <2>3, <2>4, <2>5, <2>6, <2>7, <2>8, NextIs
<1>3. Shape /\ UNCHANGED x => Shape'
  BY DEF Shape
<1> QED
  BY <1>1, <1>2, <1>3, PTL DEF ExperimentsSpec

----------------------------------------------------------------------------
(* Money *)

LEMMA SpentIsNumber ==
  ASSUME Shape
  PROVE  Spent \in Nat
<1> DEFINE S == Tags(x.exp)
           f == [t \in DOMAIN x.calls |-> x.calls[t].usd]
<1>1. IsFiniteSet(S) /\ DOMAIN f = S /\ \A t \in S : f[t] \in Nat
  BY DirectoryTyped DEF Shape
<1>2. Spent = Total(f)
  BY DEF Spent
<1> HIDE DEF S, f
<1> QED
  BY <1>1, <1>2, TotalIsNumber

LEMMA SpentSame ==
  ASSUME x'.calls = x.calls
  PROVE  Spent' = Spent
BY DEF Spent

LEMMA SpentLogs ==
  ASSUME Shape, NEW tag \in Tags(x.exp), NEW usd \in Nat, Logs(tag, usd)
  PROVE  Spent' = Spent + usd
<1> DEFINE S == Tags(x.exp)
           f == [t \in DOMAIN x.calls |-> x.calls[t].usd]
           h == [t \in DOMAIN x'.calls |-> x'.calls[t].usd]
<1>1. IsFiniteSet(S) /\ DOMAIN f = S /\ DOMAIN h = S /\ \A t \in S : f[t] \in Nat
  BY DirectoryTyped DEF Shape, Logs
<1>2. Moved(S, f, h, tag, usd)
  <2>1. f[tag] \in Nat /\ h[tag] = f[tag] + usd /\ \A t \in S : t # tag => h[t] = f[t]
    BY <1>1 DEF Logs
  <2> HIDE DEF f, h
  <2> QED
    BY <1>1, <2>1 DEF Moved
<1>3. Spent = Total(f) /\ Spent' = Total(h)
  BY DEF Spent
<1> HIDE DEF S, f, h
<1> QED
  BY <1>1, <1>2, <1>3, TotalChanges DEF S

\* The totals move with the worker that does.
LEMMA RunMoves ==
  ASSUME Shape, x.run # None, NEW i \in DOMAIN x.run.w, NEW v, WorkerShape(x.exp, v),
         NEW held \in Int, RunGoes(i, v, held)
  PROVE  /\ OwedNow \in Nat /\ DueNow \in Nat /\ Held(x.run) \in Nat
         /\ \/ x'.run = None /\ OwedNow' = 0 /\ DueNow' = 0 /\ ~BusyNow'
            \/ /\ x'.run # None /\ RunShape(x.exp, x'.run) /\ x'.run.reserved = held
               /\ OwedNow' = OwedNow + (OwedBy(v) - OwedBy(x.run.w[i]))
               /\ DueNow' = DueNow + (DueBy(v) - DueBy(x.run.w[i]))
               /\ Held(x'.run) = Held(x.run) + (HeldBy(v) - HeldBy(x.run.w[i]))
               /\ BusyNow' => v.at \in {"ready", "sent"} \/ \E j \in DOMAIN x.run.w : j # i /\ x.run.w[j].at \in {"ready", "sent"}
<1> DEFINE run == x.run
<1>1. x.exp \in Experiment /\ RunShape(x.exp, run)
  BY DEF Shape
<1>2. Owed(run) \in Nat /\ Due(run) \in Nat /\ Held(run) \in Nat
  BY <1>1, WorkersCapped
<1>3. OwedNow = Owed(run) /\ DueNow = Due(run)
  BY DEF OwedNow, DueNow
<1>4. CASE x'.run = None
  <2>1. OwedNow' = 0 /\ DueNow' = 0 /\ ~BusyNow'
    BY <1>4 DEF OwedNow, DueNow, BusyNow
  <2> QED
    BY <1>2, <1>3, <1>4, <2>1
<1>5. CASE x'.run # None
  <2>1. Goes(x.exp, run, x'.run, i, v, held)
    BY <1>5 DEF RunGoes
  <2>2. RunShape(x.exp, x'.run)
    BY <1>1, <2>1, GoesShape
  <2>3. OneMoves(run.w, x'.run.w, i, v) /\ x'.run.reserved = held
    BY <2>1 DEF Goes
  <2>4. /\ Owed(x'.run) = Owed(run) + (OwedBy(v) - OwedBy(run.w[i]))
        /\ Due(x'.run) = Due(run) + (DueBy(v) - DueBy(run.w[i]))
        /\ Held(x'.run) = Held(run) + (HeldBy(v) - HeldBy(run.w[i]))
    BY <1>1, <2>3, WorkerMoves
  <2>5. OwedNow' = Owed(x'.run) /\ DueNow' = Due(x'.run)
    BY <1>5 DEF OwedNow, DueNow
  <2>6. BusyNow' => v.at \in {"ready", "sent"} \/ \E j \in DOMAIN run.w : j # i /\ run.w[j].at \in {"ready", "sent"}
    BY <2>3 DEF BusyNow, Busy, OneMoves
  <2> QED
    BY <1>2, <1>3, <1>5, <2>2, <2>3, <2>4, <2>5, <2>6
<1> QED
  BY <1>4, <1>5

\* What a worker's three figures are in each state.
LEMMA FiguresOf ==
  ASSUME NEW exp \in Experiment, NEW w
  PROVE  /\ w = Waiting \/ w.at \in {"idle", "graded"} => OwedBy(w) = 0 /\ DueBy(w) = 0 /\ HeldBy(w) = 0
         /\ w.at = "answered" => OwedBy(w) = 0 /\ DueBy(w) = 0 /\ HeldBy(w) = 1
         /\ w \in Asking(exp) =>
              /\ HeldBy(w) = 1 /\ DueBy(w) = (Retries + 1 - w.attempt) * BilledToList
              /\ OwedBy(w) = IF w.at = "sent" THEN BilledToList ELSE 0
              /\ DueBy(w) \in Nat /\ DueBy(w) >= BilledToList /\ w.attempt \in Nat
<1>1. w = Waiting \/ w.at \in {"idle", "graded"} => OwedBy(w) = 0 /\ DueBy(w) = 0 /\ HeldBy(w) = 0
  BY DEF OwedBy, DueBy, HeldBy, Waiting
<1>2. w.at = "answered" => OwedBy(w) = 0 /\ DueBy(w) = 0 /\ HeldBy(w) = 1
  BY DEF OwedBy, DueBy, HeldBy
<1>3. ASSUME w \in Asking(exp)
      PROVE  /\ HeldBy(w) = 1 /\ DueBy(w) = (Retries + 1 - w.attempt) * BilledToList
             /\ OwedBy(w) = IF w.at = "sent" THEN BilledToList ELSE 0
             /\ DueBy(w) \in Nat /\ DueBy(w) >= BilledToList /\ w.attempt \in Nat
  <2>1. w.at \in {"ready", "sent"} /\ w.attempt \in Nat /\ w.attempt <= Retries
    BY <1>3, Numbers DEF Asking, Tries
  <2>2. HeldBy(w) = 1 /\ DueBy(w) = (Retries + 1 - w.attempt) * BilledToList
        /\ OwedBy(w) = IF w.at = "sent" THEN BilledToList ELSE 0
    BY <2>1 DEF OwedBy, DueBy, HeldBy
  <2> DEFINE more == Retries - w.attempt
  <2>3. more \in Nat /\ (Retries + 1 - w.attempt) = more + 1
    BY <2>1, Numbers
  <2>4. (more + 1) * BilledToList = more * BilledToList + BilledToList /\ more * BilledToList >= 0
    BY <2>3, Numbers
  <2> HIDE DEF more
  <2>5. DueBy(w) = more * BilledToList + BilledToList /\ more * BilledToList \in Nat
    BY <2>2, <2>3, <2>4, Numbers
  <2> QED
    BY <2>1, <2>2, <2>5, Numbers
<1> QED
  BY <1>1, <1>2, <1>3

\* The numbers that the invariant compares.
LEMMA MoneyTyped ==
  ASSUME Shape
  PROVE  /\ Spent \in Nat /\ x.exp.budget \in Nat /\ x.exp.cap \in Nat /\ x.exp.prior \in Nat
         /\ Cardinality(Workers) * BilledToList \in Nat /\ Excess(x.exp) \in Nat
<1>1. x.exp \in Experiment
  BY DEF Shape
<1>2. Cardinality(Workers) \in Nat
  BY <1>1, WorkersCover
<1>3. Cardinality(Workers) * BilledToList \in Nat
  <2> DEFINE n == Cardinality(Workers)
  <2> HIDE DEF n
  <2>1. n \in Nat
    BY <1>2 DEF n
  <2>2. n * BilledToList \in Nat
    BY <2>1, Numbers
  <2> QED
    BY <2>2 DEF n
<1>4. Excess(x.exp) \in Nat
  <2> DEFINE n == Cardinality(Workers)
             m == (Retries + 1) * BilledToList - WorstCase
  <2>1. m \in Nat
    <3>1. (Retries + 1) * BilledToList = Retries * BilledToList + BilledToList /\ Retries * BilledToList >= 0
      BY Numbers
    <3> QED
      BY <3>1, Numbers DEF WorstCase
  <2>2. n \in Nat /\ Excess(x.exp) = n * m
    BY <1>2 DEF Excess
  <2> HIDE DEF n, m
  <2> QED
    BY <2>1, <2>2
<1> QED
  BY <1>1, <1>3, <1>4, DirectoryTyped, SpentIsNumber

\* The limits stay with the experiment.
LEMMA LimitsStay ==
  ASSUME x'.exp = x.exp
  PROVE  /\ (Cardinality(Workers) * BilledToList)' = Cardinality(Workers) * BilledToList
         /\ Excess(x.exp)' = Excess(x.exp) /\ IsDesign(x.exp)' = IsDesign(x.exp)
BY DEF Workers, Excess, IsDesign

\* The parts of the invariant that a figure of the run enters.
Client == Spent + OwedNow <= x.exp.budget - 1 + Cardinality(Workers) * BilledToList
Pledged == x.exp.runner = "supplement" /\ x.run # None => x.run.reserved = x.exp.budget + Held(x.run)
Capped ==
  x.exp.runner = "supplement" =>
    \/ x.run = None /\ Spent = 0
    \/ x.exp.prior + Spent + x.exp.budget + DueNow <= x.exp.cap + Excess(x.exp)
Reckoned == IsDesign(x.exp) => Spent + (IF BusyNow THEN BilledToList ELSE 0) <= x.exp.cap
Accounted ==
  /\ ~x.merged => x.billed <= Spent
  /\ x.merged => x.exp.runner = "heldout"
  /\ x.run # None /\ x.exp.runner # "heldout" => x.callsTail = "whole"

LEMMA MoneyIs == Money <=> Client /\ Pledged /\ Capped /\ Reckoned /\ Accounted
BY DEF Money, Client, Pledged, Capped, Reckoned, Accounted

\* What a worker may do to the limits while nothing is logged: take on an
\* attempt with the client's limit unspent, take on a key with headroom for
\* it, and hold for it what it has reserved.
LEMMA MoneyMoves ==
  ASSUME Shape, Money, Fixed, Books, x.run # None, NEW i \in DOMAIN x.run.w, NEW v, WorkerShape(x.exp, v),
         NEW held \in Int, RunGoes(i, v, held),
         OwedBy(v) <= OwedBy(x.run.w[i]) \/ ~(Spent >= x.exp.budget),
         x.exp.runner = "supplement" =>
           held = x.run.reserved + (HeldBy(v) - HeldBy(x.run.w[i])),
         x.exp.runner = "supplement" =>
           \/ DueBy(v) <= DueBy(x.run.w[i])
           \/ x.exp.prior + Spent + held <= x.exp.cap,
         IsDesign(x.exp) /\ v.at \in {"ready", "sent"} =>
           x.run.w[i].at \in {"ready", "sent"} \/ Spent + BilledToList <= x.exp.cap
  PROVE  Money'
<1> DEFINE W == Cardinality(Workers) * BilledToList
           E == Excess(x.exp)
           w == x.run.w[i]
<1>1. /\ Spent' = Spent /\ x'.exp = x.exp /\ W' = W /\ E' = E /\ IsDesign(x.exp)' = IsDesign(x.exp)
      /\ x'.merged = x.merged /\ x'.billed = x.billed /\ x'.callsTail = x.callsTail
  BY SpentSame, LimitsStay DEF Fixed, Books
<1>2. /\ Spent \in Nat /\ x.exp.budget \in Nat /\ x.exp.cap \in Nat /\ x.exp.prior \in Nat /\ W \in Nat /\ E \in Nat
      /\ x.exp \in Experiment /\ RunShape(x.exp, x.run)
  BY MoneyTyped DEF Shape
<1>3. WorkerShape(x.exp, w)
  BY <1>2 DEF RunShape
<1>4. /\ OwedBy(w) \in Nat /\ DueBy(w) \in Nat /\ HeldBy(w) \in Nat
      /\ OwedBy(v) \in Nat /\ DueBy(v) \in Nat /\ HeldBy(v) \in Nat
  BY <1>2, <1>3, FiguresTyped
<1>5. /\ OwedNow \in Nat /\ DueNow \in Nat /\ Held(x.run) \in Nat
      /\ \/ x'.run = None /\ OwedNow' = 0 /\ DueNow' = 0 /\ ~BusyNow'
         \/ /\ x'.run # None /\ RunShape(x.exp, x'.run) /\ x'.run.reserved = held
            /\ OwedNow' = OwedNow + (OwedBy(v) - OwedBy(w))
            /\ DueNow' = DueNow + (DueBy(v) - DueBy(w))
            /\ Held(x'.run) = Held(x.run) + (HeldBy(v) - HeldBy(w))
            /\ BusyNow' => v.at \in {"ready", "sent"} \/ \E j \in DOMAIN x.run.w : j # i /\ x.run.w[j].at \in {"ready", "sent"}
  BY RunMoves
<1>6. Client /\ Pledged /\ Capped /\ Reckoned /\ Accounted
  BY MoneyIs
<1>7. x'.run # None => OwedNow' = Owed(x'.run) /\ DueNow' = Due(x'.run) /\ Owed(x'.run) \in Nat /\ Due(x'.run) \in Nat
                       /\ Held(x'.run) \in Nat /\ Owed(x'.run) <= W /\ Due(x'.run) <= Held(x'.run) + E
  <2> SUFFICES ASSUME x'.run # None PROVE /\ OwedNow' = Owed(x'.run) /\ DueNow' = Due(x'.run) /\ Owed(x'.run) \in Nat /\ Due(x'.run) \in Nat
                       /\ Held(x'.run) \in Nat /\ Owed(x'.run) <= W /\ Due(x'.run) <= Held(x'.run) + E
    OBVIOUS
  <2>1. OwedNow' = Owed(x'.run) /\ DueNow' = Due(x'.run)
    BY DEF OwedNow, DueNow
  <2>2. RunShape(x.exp, x'.run)
    BY <1>5
  <2> QED
    BY <1>2, <2>1, <2>2, WorkersCapped
<1>8. Client'
  <2>1. Spent + OwedNow <= x.exp.budget - 1 + W
    BY <1>6 DEF Client
  <2>2. Spent + OwedNow' <= x.exp.budget - 1 + W
    <3> HIDE DEF W, w
    <3>1. CASE x'.run = None
      BY <1>2, <1>5, <2>1, <3>1
    <3>2. CASE x'.run # None /\ OwedBy(v) <= OwedBy(w)
      BY <1>2, <1>4, <1>5, <2>1, <3>2
    <3>3. CASE x'.run # None /\ ~(Spent >= x.exp.budget)
      BY <1>2, <1>7, <3>3
    <3> QED
      BY <3>1, <3>2, <3>3 DEF w
  <2> QED
    BY <1>1, <2>2 DEF Client
<1>9. Pledged'
  <2> SUFFICES ASSUME x.exp.runner = "supplement", x'.run # None PROVE x'.run.reserved = x.exp.budget + Held(x'.run)
    BY <1>1 DEF Pledged
  <2>1. x.run.reserved = x.exp.budget + Held(x.run)
    BY <1>6 DEF Pledged
  <2> HIDE DEF w
  <2>2. held = x.run.reserved + (HeldBy(v) - HeldBy(w))
    BY DEF w
  <2> QED
    BY <1>2, <1>4, <1>5, <2>1, <2>2
<1>10. Capped'
  <2> SUFFICES ASSUME x.exp.runner = "supplement" PROVE x.exp.prior + Spent + x.exp.budget + DueNow' <= x.exp.cap + E
    BY <1>1 DEF Capped
  <2>1. x.exp.prior + Spent + x.exp.budget + DueNow <= x.exp.cap + E
    BY <1>6 DEF Capped
  <2>2. CASE x'.run = None
    <3> HIDE DEF E
    <3> QED
      BY <1>2, <1>5, <2>1, <2>2
  <2>3. CASE x'.run # None /\ DueBy(v) <= DueBy(w)
    <3> HIDE DEF E, w
    <3> QED
      BY <1>2, <1>4, <1>5, <2>1, <2>3
  <2>4. CASE x'.run # None /\ x.exp.prior + Spent + held <= x.exp.cap
    <3>1. x'.run.reserved = x.exp.budget + Held(x'.run)
      BY <1>1, <1>9, <2>4 DEF Pledged
    <3>2. held = x.exp.budget + Held(x'.run)
      BY <1>5, <2>4, <3>1
    <3> HIDE DEF E, w
    <3> QED
      BY <1>2, <1>7, <2>4, <3>2
  <2> QED
    BY <2>2, <2>3, <2>4
<1>11. Reckoned'
  <2> SUFFICES ASSUME IsDesign(x.exp) PROVE Spent + (IF BusyNow' THEN BilledToList ELSE 0) <= x.exp.cap
    BY <1>1 DEF Reckoned
  <2>1. Spent + (IF BusyNow THEN BilledToList ELSE 0) <= x.exp.cap
    BY <1>6 DEF Reckoned
  <2>2. BusyNow' => BusyNow \/ Spent + BilledToList <= x.exp.cap
    <3>1. (\E j \in DOMAIN x.run.w : x.run.w[j].at \in {"ready", "sent"}) => BusyNow
      BY DEF BusyNow, Busy
    <3> QED
      BY <1>5, <3>1
  <2> QED
    BY <1>2, <2>1, <2>2, Numbers
<1>12. Accounted'
  BY <1>1, <1>5, <1>6 DEF Accounted
<1> QED
  BY <1>8, <1>9, <1>10, <1>11, <1>12, MoneyIs, PTL

\* A key is taken with headroom for it, or passed over.
LEMMA MoneyTakes ==
  ASSUME Shape, Money, NEW i, TakeHeldout(i) \/ TakeSupplement(i) \/ TakeDesign(i) \/ TakeDesign2(i)
  PROVE  Money'
<1>1. PICK key, v, held : Picks(i, key, v, held) /\ (v = Ready(key) => Granted(key))
  BY Takes
<1>2. /\ Fixed /\ Books /\ RunGoes(i, v, held) /\ x.run # None /\ i \in DOMAIN x.run.w /\ x.run.w[i] = Waiting
      /\ key \in Tags(x.exp) /\ (v = Waiting \/ v = Ready(key))
      /\ held = x.run.reserved + (IF v = Ready(key) /\ x.exp.runner = "supplement" THEN WorstCase ELSE 0)
  BY <1>1 DEF Picks
<1>3. x.exp \in Experiment /\ x.run.reserved \in Int
  BY <1>2, HeldIsNumber DEF Shape
<1>4. held \in Int
  BY <1>2, <1>3 DEF WorstCase
<1>5. OwedBy(Waiting) = 0 /\ DueBy(Waiting) = 0 /\ HeldBy(Waiting) = 0 /\ Waiting.at = "idle"
  BY <1>3, FiguresOf DEF Waiting
<1>6. CASE v = Waiting
  <2>1. WorkerShape(x.exp, v) /\ v # Ready(key) /\ v.at \notin {"ready", "sent"}
    BY <1>6 DEF WorkerShape, Waiting, Ready
  <2>2. held = x.run.reserved
    BY <1>2, <1>3, <2>1
  <2> QED
    BY <1>2, <1>3, <1>4, <1>5, <1>6, <2>1, <2>2, MoneyMoves
<1>7. CASE v = Ready(key)
  <2>1. v \in Asking(x.exp) /\ v.at = "ready"
    BY <1>2, <1>7, Numbers DEF Asking, Ready, Tries
  <2>2. WorkerShape(x.exp, v) /\ OwedBy(v) = 0 /\ HeldBy(v) = 1
    BY <1>3, <2>1, FiguresOf DEF WorkerShape
  <2>3. Granted(key)
    BY <1>1, <1>7
  <2>4. Spent \in Nat /\ x.exp.cap \in Nat /\ x.exp.prior \in Nat
    BY MoneyTyped
  <2>5. x.exp.runner = "supplement" => held = x.run.reserved + 1 /\ x.exp.prior + Spent + held <= x.exp.cap
    <3> SUFFICES ASSUME x.exp.runner = "supplement" PROVE held = x.run.reserved + 1 /\ x.exp.prior + Spent + held <= x.exp.cap
      OBVIOUS
    <3>1. held = x.run.reserved + 1
      BY <1>2, <1>7 DEF WorstCase
    <3>2. 1 <= x.exp.cap - (x.exp.prior + Spent + x.run.reserved)
      BY <2>3 DEF Granted, Headroom, GuardTotal, WorstCase
    <3> QED
      BY <1>3, <2>4, <3>1, <3>2
  <2>6. IsDesign(x.exp) => Spent + BilledToList <= x.exp.cap
    <3>1. IsDesign(x.exp) => ~(Spent + DesignMultiplier > x.exp.cap)
      BY <2>3 DEF Granted, DesignWorstCase
    <3> QED
      BY <2>4, <3>1, Numbers
  <2>7. OwedBy(v) <= OwedBy(x.run.w[i]) /\ HeldBy(v) - HeldBy(x.run.w[i]) = 1
    BY <1>2, <1>5, <2>2
  <2>8. x.exp.runner = "supplement" => held = x.run.reserved + (HeldBy(v) - HeldBy(x.run.w[i]))
    BY <2>5, <2>7
  <2> QED
    BY <1>2, <1>4, <2>2, <2>5, <2>6, <2>7, <2>8, MoneyMoves
<1> QED
  BY <1>2, <1>6, <1>7

\* What is freed is what one worker holds.
LEMMA FreedIs ==
  ASSUME Shape, Money, x.run # None, NEW i \in DOMAIN x.run.w, HeldBy(x.run.w[i]) = 1
  PROVE  x.exp.runner = "supplement" => Freed = x.run.reserved - 1
<1> SUFFICES ASSUME x.exp.runner = "supplement" PROVE Freed = x.run.reserved - 1
  OBVIOUS
<1>1. x.run.reserved = x.exp.budget + Held(x.run) /\ x.exp \in Experiment /\ RunShape(x.exp, x.run)
  BY DEF Money, Shape
<1>2. x.exp.budget \in Nat
  BY <1>1, DirectoryTyped
<1>3. Held(x.run) \in Nat /\ Held(x.run) >= 1
  <2> DEFINE next == [w |-> [x.run.w EXCEPT ![i] = Waiting]]
  <2>1. OneMoves(x.run.w, next.w, i, Waiting) /\ WorkerShape(x.exp, Waiting)
    BY DEF OneMoves, WorkerShape
  <2>2. Held(x.run) \in Nat /\ Held(next) = Held(x.run) + (HeldBy(Waiting) - HeldBy(x.run.w[i]))
    BY <1>1, <2>1, WorkerMoves
  <2>3. HeldBy(Waiting) = 0
    BY <1>1, FiguresOf
  <2>4. Held(next) \in Nat
    <3>1. DOMAIN next.w = DOMAIN x.run.w /\ IsFiniteSet(DOMAIN x.run.w)
      BY <1>1, RunFinite
    <3>2. \A j \in DOMAIN next.w : HeldBy(next.w[j]) \in Nat
      BY DEF HeldBy
    <3> DEFINE f == [j \in DOMAIN next.w |-> HeldBy(next.w[j])]
    <3>3. DOMAIN f = DOMAIN x.run.w /\ \A j \in DOMAIN x.run.w : f[j] \in Nat
      BY <3>1, <3>2
    <3>4. Held(next) = Total(f)
      BY DEF Held
    <3> HIDE DEF f, next
    <3> QED
      BY <3>1, <3>3, <3>4, TotalIsNumber
  <2> HIDE DEF next
  <2> QED
    BY <2>2, <2>3, <2>4
<1>4. x.run.reserved - 1 \in Nat
  BY <1>1, <1>2, <1>3
<1>5. Freed = Max({0, x.run.reserved - 1})
  BY DEF Freed, WorstCase
<1> DEFINE r == x.run.reserved - 1
<1>6. r \in Nat /\ Freed = Max({0, r}) /\ r \in Int /\ 0 \in Int
  BY <1>4, <1>5
<1> HIDE DEF r
<1>7. Max({0, r}) \in {0, r} /\ Max({0, r}) >= r
  BY <1>6, HigherOfTwo, Zenon
<1>8. Freed = r
  BY <1>6, <1>7
<1> QED
  BY <1>8 DEF r

\* No attempt starts with the client's limit spent.
LEMMA MoneySubmits ==
  ASSUME Shape, Money, NEW i, Submit(i)
  PROVE  Money'
<1> DEFINE w == x.run.w[i]
<1>1. /\ x.run # None /\ i \in DOMAIN x.run.w /\ w \in Asking(x.exp) /\ w.at = "ready" /\ Fixed /\ Books
      /\ \/ RunGoes(i, Waiting, Freed)
         \/ \E v \in Asking(x.exp) :
              /\ ~(Spent >= x.exp.budget) /\ RunGoes(i, v, x.run.reserved)
              /\ v.at = "sent" /\ v.key = w.key /\ v.attempt = w.attempt
  BY Submits
<1>2. x.exp \in Experiment /\ x.run.reserved \in Int /\ Freed \in Int
  BY <1>1, HeldIsNumber DEF Shape
<1>3. OwedBy(w) = 0 /\ HeldBy(w) = 1 /\ DueBy(w) = (Retries + 1 - w.attempt) * BilledToList /\ DueBy(w) \in Nat
  BY <1>1, <1>2, FiguresOf
<1>4. OwedBy(Waiting) = 0 /\ DueBy(Waiting) = 0 /\ HeldBy(Waiting) = 0 /\ Waiting.at = "idle" /\ WorkerShape(x.exp, Waiting)
  BY <1>2, FiguresOf DEF Waiting, WorkerShape
<1>5. CASE RunGoes(i, Waiting, Freed)
  <2>1. x.exp.runner = "supplement" => Freed = x.run.reserved - 1
    BY <1>1, <1>3, FreedIs
  <2>2. x.exp.runner = "supplement" => Freed = x.run.reserved + (HeldBy(Waiting) - HeldBy(w))
    BY <1>2, <1>3, <1>4, <2>1
  <2>3. OwedBy(Waiting) <= OwedBy(w) /\ DueBy(Waiting) <= DueBy(w)
    BY <1>3, <1>4
  <2> QED
    BY <1>1, <1>2, <1>4, <1>5, <2>2, <2>3, MoneyMoves
<1>6. ASSUME NEW v \in Asking(x.exp), ~(Spent >= x.exp.budget), RunGoes(i, v, x.run.reserved),
             v.at = "sent", v.key = w.key, v.attempt = w.attempt
      PROVE  Money'
  <2>1. HeldBy(v) = 1 /\ DueBy(v) = DueBy(w) /\ WorkerShape(x.exp, v)
    BY <1>2, <1>3, <1>6, FiguresOf DEF WorkerShape
  <2>2. DueBy(v) <= DueBy(w) /\ x.run.reserved = x.run.reserved + (HeldBy(v) - HeldBy(w))
    BY <1>2, <1>3, <2>1
  <2> QED
    BY <1>1, <1>2, <1>6, <2>1, <2>2, MoneyMoves
<1> QED
  BY <1>1, <1>5, <1>6

\* A grade frees what the key held, and the row nothing more.
LEMMA MoneyGrades ==
  ASSUME Shape, Money, NEW i, GradeAnswer(i)
  PROVE  Money'
<1> DEFINE w == x.run.w[i]
<1>1. /\ x.run # None /\ i \in DOMAIN x.run.w /\ w.at = "answered" /\ w.key \in Tags(x.exp) /\ Fixed /\ Books
      /\ \E v : v.at = "graded" /\ v.key = w.key /\ Goes(x.exp, x.run, x'.run, i, v, Freed)
  BY Grades
<1>2. PICK v : v.at = "graded" /\ v.key = w.key /\ Goes(x.exp, x.run, x'.run, i, v, Freed)
  BY <1>1
<1>3. x.exp \in Experiment /\ x.run.reserved \in Int /\ Freed \in Int
  BY <1>1, HeldIsNumber DEF Shape
<1>4. OwedBy(w) = 0 /\ DueBy(w) = 0 /\ HeldBy(w) = 1
  BY <1>1, <1>3, FiguresOf
<1>5. OwedBy(v) = 0 /\ DueBy(v) = 0 /\ HeldBy(v) = 0 /\ WorkerShape(x.exp, v) /\ v.at \notin {"ready", "sent"}
  BY <1>1, <1>2, <1>3, FiguresOf DEF WorkerShape
<1>6. x.exp.runner = "supplement" => Freed = x.run.reserved - 1
  BY <1>1, <1>4, FreedIs
<1>7. x.exp.runner = "supplement" => Freed = x.run.reserved + (HeldBy(v) - HeldBy(w))
  BY <1>3, <1>4, <1>5, <1>6
<1>8. OwedBy(v) <= OwedBy(w) /\ DueBy(v) <= DueBy(w) /\ RunGoes(i, v, Freed)
  BY <1>2, <1>4, <1>5 DEF RunGoes
<1> QED
  BY <1>1, <1>3, <1>5, <1>7, <1>8, MoneyMoves

LEMMA MoneyWrites ==
  ASSUME Shape, Money, NEW i, WriteRow(i)
  PROVE  Money'
<1> DEFINE w == x.run.w[i]
<1>1. /\ x.run # None /\ i \in DOMAIN x.run.w /\ w.at = "graded" /\ Fixed /\ Books
      /\ RunGoes(i, Waiting, x.run.reserved)
  BY Writes
<1>2. x.exp \in Experiment /\ x.run.reserved \in Int
  BY <1>1, HeldIsNumber DEF Shape
<1>3. OwedBy(w) = 0 /\ DueBy(w) = 0 /\ HeldBy(w) = 0
  BY <1>1, <1>2, FiguresOf
<1>4. OwedBy(Waiting) = 0 /\ DueBy(Waiting) = 0 /\ HeldBy(Waiting) = 0 /\ Waiting.at = "idle" /\ WorkerShape(x.exp, Waiting)
  BY <1>2, FiguresOf DEF Waiting, WorkerShape
<1>5. /\ OwedBy(Waiting) <= OwedBy(w) /\ DueBy(Waiting) <= DueBy(w)
      /\ x.run.reserved = x.run.reserved + (HeldBy(Waiting) - HeldBy(w))
  BY <1>2, <1>3, <1>4
<1> QED
  BY <1>1, <1>2, <1>4, <1>5, MoneyMoves

\* An answer is billed for no more than the ledger says, and costs no more
\* than the attempt was reckoned with.
LEMMA MoneyReceives ==
  ASSUME Shape, Money, NEW i, Stage(i, "sent"), NEW a \in Attempts(x.exp, x.run.w[i].key[2]), Received(i, a)
  PROVE  Money'
<1> DEFINE w == x.run.w[i]
           cost == LedgerCost(x.exp, w.key[2], a)
           W == Cardinality(Workers) * BilledToList
           E == Excess(x.exp)
<1>1. /\ x.run # None /\ i \in DOMAIN x.run.w /\ w \in Asking(x.exp) /\ w.at = "sent"
      /\ Fixed /\ x'.billed = x.billed + a.billed
      /\ \/ /\ x.callsTail = "cut" /\ x'.merged = TRUE /\ x'.calls = x.calls
         \/ Logs(w.key, cost)
  BY Receives
<1>2. PICK v : /\ Goes(x.exp, x.run, x'.run, i, v, x.run.reserved) /\ v.key = w.key
               /\ \/ v.at = "answered"
                  \/ /\ v \in Asking(x.exp) /\ v.at = "ready" /\ v.attempt = w.attempt + 1
                     /\ ~IsDesign(x.exp)
  <2>1. PICK v : /\ Goes(x.exp, x.run, x'.run, i, v, x.run.reserved) /\ v.key = w.key
                 /\ \/ v.at = "answered" /\ v.usd \in Nat /\ v.usd <= cost
                    \/ /\ v \in Asking(x.exp) /\ v.at = "ready" /\ v.attempt = w.attempt + 1
                       /\ ~IsDesign(x.exp)
    BY Receives
  <2> QED
    BY <2>1
<1>3. /\ Spent \in Nat /\ x.exp.budget \in Nat /\ x.exp.cap \in Nat /\ x.exp.prior \in Nat /\ W \in Nat /\ E \in Nat
      /\ x.exp \in Experiment /\ RunShape(x.exp, x.run) /\ x.billed \in Nat /\ x.run.reserved \in Int
  BY <1>1, MoneyTyped, HeldIsNumber DEF Shape
<1>4. a.billed \in Nat /\ cost \in Nat /\ a.billed <= cost /\ cost <= BilledToList
  BY LedgerCovers
<1>5. /\ HeldBy(w) = 1 /\ OwedBy(w) = BilledToList /\ DueBy(w) \in Nat /\ DueBy(w) >= BilledToList
      /\ DueBy(w) = (Retries + 1 - w.attempt) * BilledToList /\ w.attempt \in Nat
  BY <1>1, <1>3, FiguresOf
<1>6. w.key \in Tags(x.exp)
  BY <1>1 DEF Asking
<1>7. /\ WorkerShape(x.exp, v) /\ OwedBy(v) = 0 /\ HeldBy(v) = 1 /\ DueBy(v) \in Nat /\ DueBy(v) <= DueBy(w) - BilledToList
      /\ IsDesign(x.exp) => v.at = "answered"
  <2>1. CASE v.at = "answered"
    <3>1. WorkerShape(x.exp, v)
      BY <1>2, <1>6, <2>1 DEF WorkerShape
    <3>2. OwedBy(v) = 0 /\ HeldBy(v) = 1 /\ DueBy(v) = 0
      BY <1>3, <2>1, FiguresOf
    <3> QED
      BY <1>5, <2>1, <3>1, <3>2, Numbers
  <2>2. CASE v \in Asking(x.exp) /\ v.at = "ready" /\ v.attempt = w.attempt + 1 /\ ~IsDesign(x.exp)
    <3>1. /\ HeldBy(v) = 1 /\ OwedBy(v) = 0 /\ DueBy(v) \in Nat
          /\ DueBy(v) = (Retries + 1 - (w.attempt + 1)) * BilledToList
      BY <1>3, <2>2, FiguresOf
    <3>2. (Retries + 1 - (w.attempt + 1)) * BilledToList = (Retries + 1 - w.attempt) * BilledToList - BilledToList
      BY <1>5, Numbers
    <3> QED
      BY <1>5, <2>2, <3>1, <3>2, Numbers DEF WorkerShape
  <2> QED
    BY <1>2, <2>1, <2>2
<1> DEFINE r == x'.run
<1>8. OneMoves(x.run.w, r.w, i, v) /\ r.reserved = x.run.reserved /\ RunShape(x.exp, r)
  BY <1>1, <1>2, <1>3, <1>7, GoesShape DEF Goes
<1>9. /\ OwedNow \in Nat /\ DueNow \in Nat /\ Held(x.run) \in Nat
      /\ OwedNow' \in Nat /\ OwedNow' <= OwedNow - BilledToList
      /\ DueNow' \in Nat /\ DueNow' <= DueNow - BilledToList
      /\ Held(r) = Held(x.run)
      /\ BusyNow' => v.at \in {"ready", "sent"} \/ \E j \in DOMAIN x.run.w : j # i /\ x.run.w[j].at \in {"ready", "sent"}
  <2>1. /\ Owed(x.run) \in Nat /\ Owed(r) = Owed(x.run) + (OwedBy(v) - OwedBy(w))
        /\ Due(x.run) \in Nat /\ Due(r) = Due(x.run) + (DueBy(v) - DueBy(w))
        /\ Held(x.run) \in Nat /\ Held(r) = Held(x.run) + (HeldBy(v) - HeldBy(w))
    BY <1>1, <1>3, <1>7, <1>8, WorkerMoves
  <2>2. Owed(r) \in Nat /\ Due(r) \in Nat
    BY <1>3, <1>8, WorkersCapped
  <2>3. OwedNow = Owed(x.run) /\ DueNow = Due(x.run)
    BY <1>1 DEF OwedNow, DueNow
  <2>4. OwedNow' = (IF r = None THEN 0 ELSE Owed(r)) /\ DueNow' = (IF r = None THEN 0 ELSE Due(r))
    BY DEF OwedNow, DueNow
  <2>5. BusyNow' => v.at \in {"ready", "sent"} \/ \E j \in DOMAIN x.run.w : j # i /\ x.run.w[j].at \in {"ready", "sent"}
    BY <1>8 DEF BusyNow, Busy, OneMoves
  <2> HIDE DEF r, w
  <2>6. Owed(r) = Owed(x.run) - BilledToList /\ Due(r) <= Due(x.run) - BilledToList /\ Held(r) = Held(x.run)
    BY <1>5, <1>7, <2>1, <2>2, Numbers
  <2> QED
    BY <2>1, <2>2, <2>3, <2>4, <2>5, <2>6, Numbers
<1>10. Client /\ Pledged /\ Capped /\ Reckoned /\ Accounted
  BY MoneyIs
<1>11. Spent' \in Nat /\ Spent <= Spent' /\ Spent' <= Spent + BilledToList
  <2>1. CASE x'.calls = x.calls
    BY <1>3, <2>1, SpentSame, Numbers
  <2>2. CASE Logs(w.key, cost)
    <3>1. Spent' = Spent + cost
      BY <1>4, <1>6, <2>2, SpentLogs
    <3> QED
      BY <1>3, <1>4, <3>1, Numbers
  <2> QED
    BY <1>1, <2>1, <2>2
<1>12. x'.exp = x.exp /\ W' = W /\ E' = E /\ IsDesign(x.exp)' = IsDesign(x.exp)
  BY <1>1, LimitsStay DEF Fixed
<1>13. Client'
  <2>1. Spent + OwedNow <= x.exp.budget - 1 + W
    BY <1>10 DEF Client
  <2>2. Spent' + OwedNow' <= x.exp.budget - 1 + W
    <3> HIDE DEF W
    <3> QED
      BY <1>3, <1>9, <1>11, <2>1, Numbers
  <2> QED
    BY <1>12, <2>2 DEF Client
<1>14. Pledged'
  <2>1. Held(x'.run) = Held(x.run) /\ x'.run.reserved = x.run.reserved
    BY <1>8, <1>9
  <2> QED
    BY <1>1, <1>10, <1>12, <2>1 DEF Pledged
<1>15. Capped'
  <2> SUFFICES ASSUME x.exp.runner = "supplement" PROVE x.exp.prior + Spent' + x.exp.budget + DueNow' <= x.exp.cap + E
    BY <1>12 DEF Capped
  <2>1. x.exp.prior + Spent + x.exp.budget + DueNow <= x.exp.cap + E
    BY <1>1, <1>10 DEF Capped
  <2> HIDE DEF E
  <2> QED
    BY <1>3, <1>9, <1>11, <2>1, Numbers
<1>16. Reckoned'
  <2> SUFFICES ASSUME IsDesign(x.exp) PROVE Spent' + (IF BusyNow' THEN BilledToList ELSE 0) <= x.exp.cap
    BY <1>12 DEF Reckoned
  <2>1. BusyNow
    BY <1>1 DEF BusyNow, Busy
  <2>2. Spent + BilledToList <= x.exp.cap
    BY <1>10, <2>1 DEF Reckoned
  <2>3. ~BusyNow'
    <3>1. x.run.of \in x.exp.launches /\ DOMAIN x.run.w = 1..x.run.of.workers
      BY <1>3 DEF RunShape
    <3>2. x.run.of.workers = 1
      BY <1>3, <3>1, DirectoryTyped
    <3>3. \A j \in DOMAIN x.run.w : j = i
      BY <1>1, <3>1, <3>2
    <3>4. v.at = "answered"
      BY <1>7
    <3> QED
      BY <1>9, <3>3, <3>4
  <2> QED
    BY <1>3, <1>11, <2>2, <2>3, Numbers
<1>17. Accounted'
  <2>1. CASE x.callsTail = "cut" /\ x'.merged = TRUE /\ x'.calls = x.calls
    <3>1. x.exp.runner = "heldout"
      BY <1>1, <1>10, <2>1 DEF Accounted
    <3> QED
      BY <1>12, <2>1, <3>1 DEF Accounted
  <2>2. CASE Logs(w.key, cost)
    <3>1. Spent' = Spent + cost
      BY <1>4, <1>6, <2>2, SpentLogs
    <3>2. x'.merged = x.merged /\ x'.callsTail = x.callsTail
      BY <2>2 DEF Logs
    <3>3. ~x.merged => x'.billed <= Spent'
      <4>1. ~x.merged => x.billed <= Spent
        BY <1>10 DEF Accounted
      <4> HIDE DEF cost
      <4> QED
        BY <1>1, <1>3, <1>4, <3>1, <4>1
    <3> QED
      BY <1>1, <1>10, <1>12, <3>2, <3>3 DEF Accounted
  <2> QED
    BY <1>1, <2>1, <2>2
<1> QED
  BY <1>13, <1>14, <1>15, <1>16, <1>17, MoneyIs, PTL

\* A launch finds the cap with the whole budget under it.
LEMMA MoneyLaunches ==
  ASSUME Shape, Shape', Money, Launch
  PROVE  Money'
<1> DEFINE W == Cardinality(Workers) * BilledToList
           E == Excess(x.exp)
<1>1. PICK c : /\ Begins(c) /\ x'.run.reserved = (IF x.exp.runner = "supplement" THEN x.exp.budget ELSE 0)
               /\ x.exp.runner # "heldout" => x.callsTail = "whole"
               /\ x.exp.runner = "supplement" => x.exp.prior + Spent + x.exp.budget <= x.exp.cap
  BY Launches
<1>2. /\ Fixed /\ Books /\ x.run = None /\ c \in x.exp.launches
      /\ DOMAIN x'.run = RunFields /\ DOMAIN x'.run.w = 1..c.workers /\ \A j \in 1..c.workers : x'.run.w[j] = Waiting
  BY <1>1 DEF Begins
<1>3. /\ Spent' = Spent /\ x'.exp = x.exp /\ W' = W /\ E' = E /\ IsDesign(x.exp)' = IsDesign(x.exp)
      /\ x'.merged = x.merged /\ x'.billed = x.billed /\ x'.callsTail = x.callsTail
  BY <1>2, SpentSame, LimitsStay DEF Fixed, Books
<1>4. /\ Spent \in Nat /\ x.exp.budget \in Nat /\ x.exp.cap \in Nat /\ x.exp.prior \in Nat /\ W \in Nat /\ E \in Nat
      /\ x.exp \in Experiment
  BY MoneyTyped DEF Shape
<1>7. x'.run # None => Owed(x'.run) = 0 /\ Due(x'.run) = 0 /\ Held(x'.run) = 0
  <2> SUFFICES ASSUME x'.run # None PROVE Owed(x'.run) = 0 /\ Due(x'.run) = 0 /\ Held(x'.run) = 0
    OBVIOUS
  <2>1. RunShape(x.exp, x'.run)
    BY <1>3 DEF Shape
  <2> QED
    BY <1>2, <1>4, <2>1, AllWaiting
<1>8. OwedNow' = 0 /\ DueNow' = 0 /\ ~BusyNow' /\ OwedNow = 0 /\ ~BusyNow
  BY <1>2, <1>7 DEF OwedNow, DueNow, BusyNow, Busy, Waiting
<1>9. Client /\ Pledged /\ Capped /\ Reckoned /\ Accounted
  BY MoneyIs
<1>10. Client'
  BY <1>3, <1>8, <1>9 DEF Client
<1>11. Pledged'
  BY <1>1, <1>3, <1>4, <1>7 DEF Pledged
<1>12. Capped'
  <2> SUFFICES ASSUME x.exp.runner = "supplement" PROVE x.exp.prior + Spent + x.exp.budget + DueNow' <= x.exp.cap + E
    BY <1>3 DEF Capped
  <2>1. x.exp.prior + Spent + x.exp.budget <= x.exp.cap
    BY <1>1
  <2> HIDE DEF E
  <2> QED
    BY <1>4, <1>8, <2>1
<1>13. Reckoned'
  BY <1>3, <1>8, <1>9 DEF Reckoned
<1>14. Accounted'
  BY <1>1, <1>3, <1>9 DEF Accounted
<1> QED
  BY <1>10, <1>11, <1>12, <1>13, <1>14, MoneyIs, PTL

\* Whatever dies owes nothing more.
LEMMA MoneyCrashes ==
  ASSUME Shape, Money, Crash
  PROVE  Money'
<1> DEFINE W == Cardinality(Workers) * BilledToList
           E == Excess(x.exp)
<1>1. /\ x'.exp = x.exp /\ x'.run = None /\ x'.calls = x.calls /\ x'.merged = x.merged /\ x'.billed = x.billed
  BY Crashes
<1>2. Spent' = Spent /\ W' = W /\ E' = E /\ IsDesign(x.exp)' = IsDesign(x.exp)
  BY <1>1, SpentSame, LimitsStay
<1>3. /\ Spent \in Nat /\ x.exp.budget \in Nat /\ x.exp.cap \in Nat /\ x.exp.prior \in Nat /\ W \in Nat /\ E \in Nat
      /\ x.exp \in Experiment
  BY MoneyTyped DEF Shape
<1>4. OwedNow \in Nat /\ DueNow \in Nat
  <2>1. x.run # None => RunShape(x.exp, x.run)
    BY DEF Shape
  <2> QED
    BY <1>3, <2>1, WorkersCapped DEF OwedNow, DueNow
<1>5. OwedNow' = 0 /\ DueNow' = 0 /\ ~BusyNow'
  BY <1>1 DEF OwedNow, DueNow, BusyNow
<1>6. Client /\ Pledged /\ Capped /\ Reckoned /\ Accounted
  BY MoneyIs
<1>7. Client'
  <2>1. Spent + OwedNow <= x.exp.budget - 1 + W
    BY <1>6 DEF Client
  <2>2. Spent + OwedNow' <= x.exp.budget - 1 + W
    <3> HIDE DEF W
    <3> QED
      BY <1>3, <1>4, <1>5, <2>1
  <2> QED
    BY <1>1, <1>2, <2>2 DEF Client
<1>8. Pledged'
  BY <1>1 DEF Pledged
<1>9. Capped'
  <2> SUFFICES ASSUME x.exp.runner = "supplement", ~(Spent = 0) PROVE x.exp.prior + Spent + x.exp.budget + DueNow' <= x.exp.cap + E
    BY <1>1, <1>2 DEF Capped
  <2>1. x.exp.prior + Spent + x.exp.budget + DueNow <= x.exp.cap + E
    BY <1>6 DEF Capped
  <2> HIDE DEF E
  <2> QED
    BY <1>3, <1>4, <1>5, <2>1
<1>10. Reckoned'
  <2> SUFFICES ASSUME IsDesign(x.exp) PROVE Spent + 0 <= x.exp.cap
    BY <1>1, <1>2, <1>5 DEF Reckoned
  <2> QED
    BY <1>3, <1>6, Numbers DEF Reckoned
<1>11. Accounted'
  BY <1>1, <1>2, <1>6 DEF Accounted
<1> QED
  BY <1>7, <1>8, <1>9, <1>10, <1>11, MoneyIs, PTL

\* The registration and the edits spend nothing.
LEMMA MoneyStays ==
  ASSUME Money, x'.exp = x.exp, x'.run = x.run, Books
  PROVE  Money'
<1>1. /\ Spent' = Spent /\ (Cardinality(Workers) * BilledToList)' = Cardinality(Workers) * BilledToList
      /\ Excess(x.exp)' = Excess(x.exp) /\ IsDesign(x.exp)' = IsDesign(x.exp)
      /\ x'.merged = x.merged /\ x'.billed = x.billed /\ x'.callsTail = x.callsTail
  BY SpentSame, LimitsStay DEF Books
<1>2. OwedNow' = OwedNow /\ DueNow' = DueNow /\ BusyNow' = BusyNow
  BY DEF OwedNow, DueNow, BusyNow
<1>3. Client' /\ Pledged' /\ Capped' /\ Reckoned' /\ Accounted'
  <2>1. Client /\ Pledged /\ Capped /\ Reckoned /\ Accounted
    BY MoneyIs
  <2>2. Client' /\ Capped'
    BY <1>1, <1>2, <2>1 DEF Client, Capped
  <2>3. Pledged' /\ Accounted'
    BY <1>1, <1>2, <2>1 DEF Pledged, Accounted
  <2>4. Reckoned'
    BY <1>1, <1>2, <2>1 DEF Reckoned
  <2> QED
    BY <2>2, <2>3, <2>4
<1> QED
  BY <1>3, MoneyIs, PTL

LEMMA MoneyStarts ==
  ASSUME ExperimentsInit, Shape
  PROVE  Money
<1>1. PICK exp \in Experiment : x = ExperimentStart(exp)
  BY DEF ExperimentsInit
<1>2. /\ x.exp = exp /\ x.run = None /\ x.billed = 0 /\ x.merged = FALSE
      /\ x.calls = [t \in Tags(exp) |-> [n |-> 0, usd |-> 0, denied |-> FALSE]]
  BY <1>1 DEF ExperimentStart
<1>3. IsFiniteSet(Tags(exp)) /\ Cardinality(Workers) \in Nat /\ Cardinality(Workers) >= 1
  BY <1>2, DirectoryTyped, WorkersCover
<1>4. Spent = 0
  <2>1. [t \in DOMAIN x.calls |-> x.calls[t].usd] = [t \in Tags(exp) |-> 0]
    BY <1>2
  <2> QED
    BY <1>3, <2>1, TotalNone DEF Spent
<1>5. OwedNow = 0 /\ ~BusyNow
  BY <1>2 DEF OwedNow, BusyNow
<1>6. Spent + OwedNow <= x.exp.budget - 1 + Cardinality(Workers) * BilledToList
  <2> DEFINE n == Cardinality(Workers)
  <2>1. n \in Nat /\ n >= 1
    BY <1>3
  <2> HIDE DEF n
  <2>2. n * BilledToList = (n - 1) * BilledToList + BilledToList /\ (n - 1) * BilledToList >= 0
    BY <2>1, Numbers
  <2>3. n * BilledToList >= 1 /\ n * BilledToList \in Nat
    <3> DEFINE m == (n - 1) * BilledToList
    <3>1. m \in Int /\ m >= 0 /\ n * BilledToList = m + BilledToList
      BY <2>1, <2>2, Numbers
    <3> HIDE DEF m
    <3> QED
      BY <3>1, Numbers
  <2>4. x.exp.budget \in Nat
    BY <1>2, DirectoryTyped
  <2> DEFINE k == n * BilledToList
  <2>5. k >= 1 /\ k \in Nat
    BY <2>3
  <2> HIDE DEF k
  <2>6. Spent + OwedNow <= x.exp.budget - 1 + k
    BY <1>4, <1>5, <2>4, <2>5
  <2> QED
    BY <2>6 DEF n, k
<1>7. x.exp.cap \in Nat
  BY <1>2, DirectoryTyped
<1> QED
  BY <1>2, <1>4, <1>5, <1>6, <1>7 DEF Money

LEMMA MoneyHolds == ExperimentsSpec => [](Shape /\ Money)
<1>1. ExperimentsInit /\ Shape => Money
  BY MoneyStarts
<1>2. Shape /\ Shape' /\ Money /\ [ExperimentsNext]_x => Money'
  <2> SUFFICES ASSUME Shape, Shape', Money, [ExperimentsNext]_x PROVE Money'
    OBVIOUS
  <2>1. CASE UNCHANGED x
    <3>1. Books
      BY <2>1 DEF Books
    <3> QED
      BY <2>1, <3>1, MoneyStays
  <2>2. CASE ExperimentsNext
    <3>1. CASE Register \/ Amend \/ \E p \in x.exp.editable : Alter(p)
      BY <3>1, Registers, MoneyStays
    <3>2. CASE Launch
      BY <3>2, MoneyLaunches
    <3>3. CASE Crash
      BY <3>3, MoneyCrashes
    <3>4. CASE \E i : TakeHeldout(i) \/ TakeSupplement(i) \/ TakeDesign(i) \/ TakeDesign2(i)
      BY <3>4, MoneyTakes
    <3>5. CASE \E i : Submit(i)
      BY <3>5, MoneySubmits
    <3>6. CASE \E i : GradeAnswer(i)
      BY <3>6, MoneyGrades
    <3>7. CASE \E i : WriteRow(i)
      BY <3>7, MoneyWrites
    <3>8. CASE \E i : Stage(i, "sent") /\ \E a \in Attempts(x.exp, x.run.w[i].key[2]) : Received(i, a)
      BY <3>8, MoneyReceives
    <3> QED
      BY <2>2, <3>1, <3>2, <3>3, <3>4, <3>5, <3>6, <3>7, <3>8, NextIs
  <2> QED
    BY <2>1, <2>2
<1> QED
  BY <1>1, <1>2, ShapeHolds, PTL DEF ExperimentsSpec

\* What was billed is in the ledger, and no program spends more than its
\* limits: one attempt for each worker beyond the client's, the attempts of
\* one task for each worker beyond the supplement's cap, nothing beyond the
\* cap of the design runs.
THEOREM SpendWithin == ExperimentsSpec => []SpendHeld
<1>1. Shape /\ Money => SpendHeld
  <2> SUFFICES ASSUME Shape, Money PROVE SpendHeld
    OBVIOUS
  <2> DEFINE W == Cardinality(Workers) * BilledToList
             E == Cardinality(Workers) * ((Retries + 1) * BilledToList - WorstCase)
  <2>1. /\ Spent \in Nat /\ x.exp.budget \in Nat /\ x.exp.cap \in Nat /\ x.exp.prior \in Nat /\ W \in Nat
        /\ Excess(x.exp) \in Nat /\ x.exp \in Experiment
    BY MoneyTyped DEF Shape
  <2>2. E = Excess(x.exp)
    BY DEF Excess
  <2>3. OwedNow \in Nat /\ DueNow \in Nat
    <3>1. x.run # None => RunShape(x.exp, x.run)
      BY DEF Shape
    <3> QED
      BY <2>1, <3>1, WorkersCapped DEF OwedNow, DueNow
  <2>4. Client /\ Pledged /\ Capped /\ Reckoned /\ Accounted
    BY MoneyIs
  <2>5. Spent <= x.exp.budget - 1 + W
    <3>1. Spent + OwedNow <= x.exp.budget - 1 + W
      BY <2>4 DEF Client
    <3> HIDE DEF W
    <3> QED
      BY <2>1, <2>3, <3>1
  <2>6. x.exp.runner = "supplement" /\ Spent > 0 => x.exp.prior + Spent + x.exp.budget <= x.exp.cap + E
    <3> SUFFICES ASSUME x.exp.runner = "supplement", Spent > 0 PROVE x.exp.prior + Spent + x.exp.budget <= x.exp.cap + E
      OBVIOUS
    <3>1. x.exp.prior + Spent + x.exp.budget + DueNow <= x.exp.cap + Excess(x.exp)
      BY <2>1, <2>4 DEF Capped
    <3> HIDE DEF E
    <3> QED
      BY <2>1, <2>2, <2>3, <3>1
  <2>7. IsDesign(x.exp) => Spent <= x.exp.cap
    BY <2>1, <2>4, Numbers DEF Reckoned
  <2> QED
    BY <2>4, <2>5, <2>6, <2>7 DEF SpendHeld, Accounted
<1> QED
  BY <1>1, MoneyHolds, PTL
----------------------------------------------------------------------------
(* Observations *)

\* What a key is recorded under is that key's alone.
LEMMA RecordedApart ==
  ASSUME NEW exp \in Experiment, NEW c \in exp.launches, NEW a \in Tags(exp), NEW b \in Tags(exp),
         Recorded(c, a) = Recorded(c, b)
  PROVE  a = b
<1>1. c.label # RouterArm
  BY DirectoryTyped
<1>2. PICK s, p : a = <<s, p>> /\ p \in {RouterArm, "control"}
  BY DEF Tags
<1>3. PICK t, q : b = <<t, q>> /\ q \in {RouterArm, "control"}
  BY DEF Tags
<1>4. /\ Recorded(c, a) = <<s, IF p = "control" THEN c.label ELSE p>>
      /\ Recorded(c, b) = <<t, IF q = "control" THEN c.label ELSE q>>
  BY <1>2, <1>3 DEF Recorded, Label
<1>5. s = t /\ (IF p = "control" THEN c.label ELSE p) = (IF q = "control" THEN c.label ELSE q)
  <2> DEFINE k == IF p = "control" THEN c.label ELSE p
             l == IF q = "control" THEN c.label ELSE q
  <2>1. <<s, k>> = <<t, l>>
    BY <1>4
  <2> HIDE DEF k, l
  <2>2. s = t /\ k = l
    BY <2>1
  <2> QED
    BY <2>2 DEF k, l
<1>6. p = q
  BY <1>1, <1>2, <1>3, <1>5 DEF RouterArm
<1> QED
  BY <1>2, <1>3, <1>5, <1>6

\* What is left of a plan are keys of the experiment.
LEMMA LeftTyped ==
  ASSUME NEW exp, NEW phases \in Plans(exp)
  PROVE  Left(phases) \subseteq Tags(exp)
<1> SUFFICES ASSUME NEW key \in Left(phases) PROVE key \in Tags(exp)
  OBVIOUS
<1>1. PICK p \in 1..Len(phases) : \E i \in 1..Len(phases[p].keys) : phases[p].keys[i] = key
  BY LeftIs
<1>2. phases[p].keys \in Seq(Tags(exp))
  BY <1>1, PlanIs
<1> QED
  BY <1>1, <1>2

\* A worker that holds no key, or the same as before, keeps the run apart,
\* even if its key has now a row.
LEMMA ApartMoves ==
  ASSUME NEW exp \in Experiment, NEW run, RunShape(exp, run), NEW rows, Apart(run, rows),
         NEW i \in DOMAIN run.w, run.w[i] # Waiting, NEW v, NEW held, NEW r, Goes(exp, run, r, i, v, held),
         NEW next,
         \/ v = Waiting /\ DOMAIN next \subseteq DOMAIN rows \cup {Recorded(run.of, run.w[i].key)}
         \/ (v = Waiting \/ v.key = run.w[i].key) /\ DOMAIN next = DOMAIN rows
  PROVE  Apart(r, next)
<1> DEFINE mine == run.w[i].key
<1>1. /\ r.of = run.of /\ r.done = run.done /\ OneMoves(run.w, r.w, i, v)
      /\ Left(r.phases) \subseteq Left(run.phases) /\ (Once(run.phases) => Once(r.phases))
  BY DEF Goes, Shrinks
<1>2. /\ DOMAIN r.w = DOMAIN run.w /\ r.w[i] = v /\ \A j \in DOMAIN run.w : j # i => r.w[j] = run.w[j]
  BY <1>1 DEF OneMoves
<1>3. run.of \in exp.launches /\ Left(run.phases) \subseteq Tags(exp)
  BY LeftTyped DEF RunShape
<1>4. \A j \in DOMAIN run.w : run.w[j] # Waiting => run.w[j].key \in Tags(exp)
  BY DEF RunShape, WorkerShape, Asking
<1>5. /\ Once(run.phases)
      /\ \A j, k \in DOMAIN run.w : run.w[j] # Waiting /\ run.w[k] # Waiting /\ run.w[j].key = run.w[k].key => j = k
      /\ \A j \in DOMAIN run.w : run.w[j] # Waiting =>
           run.w[j].key \notin Left(run.phases) /\ Recorded(run.of, run.w[j].key) \notin DOMAIN rows
      /\ \A key \in Left(run.phases) : Recorded(run.of, key) \in DOMAIN rows => Recorded(run.of, key) \in run.done
  BY DEF Apart
<1>6. \A j \in DOMAIN r.w : r.w[j] # Waiting => run.w[j] # Waiting /\ r.w[j].key = run.w[j].key
  BY <1>2
<1>7. ASSUME NEW j \in DOMAIN r.w, r.w[j] # Waiting
      PROVE  r.w[j].key \notin Left(r.phases) /\ Recorded(r.of, r.w[j].key) \notin DOMAIN next
  <2>1. j \in DOMAIN run.w /\ run.w[j] # Waiting /\ r.w[j].key = run.w[j].key
    BY <1>2, <1>6, <1>7
  <2>2. run.w[j].key \notin Left(run.phases) /\ Recorded(run.of, run.w[j].key) \notin DOMAIN rows
    BY <1>5, <2>1
  <2>3. ASSUME v = Waiting PROVE Recorded(run.of, run.w[j].key) # Recorded(run.of, mine)
    <3>1. j # i
      BY <1>2, <1>7, <2>3
    <3>2. run.w[j].key # mine
      BY <1>5, <2>1, <3>1
    <3>3. run.w[j].key \in Tags(exp) /\ mine \in Tags(exp)
      BY <1>4, <2>1
    <3> QED
      BY <1>3, <3>2, <3>3, RecordedApart
  <2> QED
    BY <1>1, <2>1, <2>2, <2>3
<1>8. ASSUME NEW key \in Left(r.phases), Recorded(r.of, key) \in DOMAIN next
      PROVE  Recorded(r.of, key) \in r.done
  <2>1. key \in Left(run.phases) /\ key \in Tags(exp) /\ mine \in Tags(exp) /\ mine \notin Left(run.phases)
    BY <1>1, <1>3, <1>4, <1>5, <1>8
  <2>2. Recorded(run.of, key) # Recorded(run.of, mine)
    BY <1>3, <2>1, RecordedApart
  <2>3. Recorded(run.of, key) \in DOMAIN rows
    BY <1>1, <1>8, <2>2
  <2> QED
    BY <1>1, <1>5, <2>1, <2>3
<1>9. \A j, k \in DOMAIN r.w : r.w[j] # Waiting /\ r.w[k] # Waiting /\ r.w[j].key = r.w[k].key => j = k
  BY <1>2, <1>5, <1>6
<1> QED
  BY <1>1, <1>5, <1>7, <1>8, <1>9 DEF Apart

\* A waiting worker stays so, or takes a key that has no row out of the plan.
LEMMA ApartPicks ==
  ASSUME NEW exp \in Experiment, NEW run, RunShape(exp, run), NEW rows, Apart(run, rows),
         NEW i \in DOMAIN run.w, run.w[i] = Waiting, NEW v, NEW held, NEW r, Goes(exp, run, r, i, v, held),
         NEW key \in Left(run.phases), key \notin Left(r.phases),
         v = Waiting \/ (v = Ready(key) /\ Recorded(run.of, key) \notin DOMAIN rows)
  PROVE  Apart(r, rows)
<1>1. /\ r.of = run.of /\ r.done = run.done /\ OneMoves(run.w, r.w, i, v)
      /\ Left(r.phases) \subseteq Left(run.phases) /\ (Once(run.phases) => Once(r.phases))
  BY DEF Goes, Shrinks
<1>2. /\ DOMAIN r.w = DOMAIN run.w /\ r.w[i] = v /\ \A j \in DOMAIN run.w : j # i => r.w[j] = run.w[j]
  BY <1>1 DEF OneMoves
<1>3. /\ Once(run.phases)
      /\ \A j, k \in DOMAIN run.w : run.w[j] # Waiting /\ run.w[k] # Waiting /\ run.w[j].key = run.w[k].key => j = k
      /\ \A j \in DOMAIN run.w : run.w[j] # Waiting =>
           run.w[j].key \notin Left(run.phases) /\ Recorded(run.of, run.w[j].key) \notin DOMAIN rows
      /\ \A k \in Left(run.phases) : Recorded(run.of, k) \in DOMAIN rows => Recorded(run.of, k) \in run.done
  BY DEF Apart
<1>4. \A j \in DOMAIN r.w : r.w[j] # Waiting =>
        \/ j # i /\ run.w[j] # Waiting /\ r.w[j] = run.w[j]
        \/ j = i /\ r.w[j].key = key /\ Recorded(run.of, key) \notin DOMAIN rows
  BY <1>2 DEF Ready
<1>5. \A j \in DOMAIN r.w : r.w[j] # Waiting =>
        r.w[j].key \notin Left(r.phases) /\ Recorded(r.of, r.w[j].key) \notin DOMAIN rows
  BY <1>1, <1>2, <1>3, <1>4
<1>6. \A j, k \in DOMAIN r.w : r.w[j] # Waiting /\ r.w[k] # Waiting /\ r.w[j].key = r.w[k].key => j = k
  BY <1>2, <1>3, <1>4
<1> QED
  BY <1>1, <1>3, <1>5, <1>6 DEF Apart

\* A step of the run under which each row is a first and registered one, the
\* run is apart, and a design run asks for nothing that is in its ledger.
LEMMA RunObserves ==
  ASSUME Shape, Observations, x.run # None, Fixed, NEW i \in DOMAIN x.run.w, NEW v, NEW held, RunGoes(i, v, held),
         Recording', x'.run # None => Apart(x'.run, x'.rows), x'.calls = x.calls,
         IsDesign(x.exp) /\ v.at \in {"ready", "sent"} => x.calls[v.key].n = 0
  PROVE  Observations'
<1>1. x'.exp = x.exp /\ x'.reg = x.reg /\ IsDesign(x.exp)' = IsDesign(x.exp)
  BY LimitsStay DEF Fixed
<1>2. Recording /\ Registered /\ Working /\ AskedOnce /\ Fresh
  BY DEF Observations
<1>3. Registered'
  BY <1>1, <1>2 DEF Registered
<1>4. x'.run # None =>
        /\ x'.run.version = x.run.version /\ x'.run.done = x.run.done /\ OneMoves(x.run.w, x'.run.w, i, v)
        /\ Left(x'.run.phases) \subseteq Left(x.run.phases)
  BY DEF RunGoes, Goes, Shrinks
<1>5. Working'
  <2> SUFFICES ASSUME x'.run # None PROVE Apart(x'.run, x'.rows) /\ Named(x.exp, x.reg, x'.run.version)
    BY <1>1 DEF Working
  <2> QED
    BY <1>2, <1>4 DEF Working
<1>6. AskedOnce'
  <2> SUFFICES ASSUME IsDesign(x.exp)
               PROVE  /\ \A t \in DOMAIN x.calls : x.calls[t].n <= 1
                      /\ x'.run # None => \A j \in DOMAIN x'.run.w :
                           x'.run.w[j].at \in {"ready", "sent"} => x.calls[x'.run.w[j].key].n = 0
    BY <1>1 DEF AskedOnce
  <2>1. /\ \A t \in DOMAIN x.calls : x.calls[t].n <= 1
        /\ \A j \in DOMAIN x.run.w : x.run.w[j].at \in {"ready", "sent"} => x.calls[x.run.w[j].key].n = 0
    BY <1>2 DEF AskedOnce
  <2> QED
    BY <1>4, <2>1 DEF OneMoves
<1>7. Fresh'
  BY <1>1, <1>2, <1>4 DEF Fresh
<1> QED
  BY <1>3, <1>5, <1>6, <1>7 DEF Observations

LEMMA ObservesTakes ==
  ASSUME Shape, Observations, NEW i, TakeHeldout(i) \/ TakeSupplement(i) \/ TakeDesign(i) \/ TakeDesign2(i)
  PROVE  Observations'
<1>1. PICK key, v, held : Picks(i, key, v, held) /\ (v = Ready(key) => Granted(key))
  BY Takes
<1>2. /\ Fixed /\ Books /\ x'.rows = x.rows /\ RunGoes(i, v, held) /\ x.run # None /\ i \in DOMAIN x.run.w
      /\ x.run.w[i] = Waiting /\ key \in Tags(x.exp) /\ key \in Left(x.run.phases)
      /\ Once(x.run.phases) /\ x'.run # None => key \notin Left(x'.run.phases)
      /\ v = Waiting \/ v = Ready(key)
  BY <1>1 DEF Picks
<1>3. Recording /\ Working /\ Fresh
  BY DEF Observations
<1>4. Apart(x.run, x.rows)
  BY <1>2, <1>3 DEF Working
<1>5. v = Ready(key) => Recorded(x.run.of, key) \notin DOMAIN x.rows
  <2> SUFFICES ASSUME v = Ready(key), Recorded(x.run.of, key) \in DOMAIN x.rows PROVE FALSE
    OBVIOUS
  <2>1. Granted(key)
    BY <1>1
  <2>2. Recorded(x.run.of, key) \in x.run.done
    BY <1>2, <1>4 DEF Apart
  <2>3. x.exp.runner \in {"heldout", "supplement", "design", "design2"}
    BY DirectoryTyped DEF Shape
  <2>4. x.exp.runner = "design2"
    BY <2>1, <2>2, <2>3 DEF Granted
  <2> QED
    BY <1>2, <1>3, <2>2, <2>4 DEF Fresh
<1>6. IsDesign(x.exp) /\ v.at \in {"ready", "sent"} => x.calls[v.key].n = 0
  <2> SUFFICES ASSUME IsDesign(x.exp), v.at \in {"ready", "sent"} PROVE x.calls[v.key].n = 0
    OBVIOUS
  <2>1. v = Ready(key) /\ v.key = key
    BY <1>2 DEF Ready, Waiting
  <2>2. CASE x.exp.runner = "design"
    BY <1>1, <2>1, <2>2 DEF Granted
  <2>3. CASE x.exp.runner = "design2"
    BY <1>2, <1>3, <2>1, <2>3 DEF Fresh
  <2> QED
    BY <2>2, <2>3 DEF IsDesign
<1>7. x'.run # None => Apart(x'.run, x.rows)
  <2> SUFFICES ASSUME x'.run # None PROVE Apart(x'.run, x.rows)
    OBVIOUS
  <2>1. Goes(x.exp, x.run, x'.run, i, v, held) /\ x.exp \in Experiment /\ RunShape(x.exp, x.run)
    BY <1>2 DEF RunGoes, Shape
  <2>2. key \notin Left(x'.run.phases)
    BY <1>2, <1>4 DEF Apart
  <2> QED
    BY <1>2, <1>4, <1>5, <2>1, <2>2, ApartPicks
<1>8. Recording'
  BY <1>2, <1>3 DEF Recording, Fixed
<1> QED
  BY <1>2, <1>6, <1>7, <1>8, RunObserves DEF Books

\* A worker that goes on with its key, and asks for no other.
LEMMA ObservesWork ==
  ASSUME Shape, Observations, x.run # None, Fixed, Books, x'.rows = x.rows, NEW i \in DOMAIN x.run.w,
         x.run.w[i] # Waiting, NEW v, NEW held, RunGoes(i, v, held), v = Waiting \/ v.key = x.run.w[i].key,
         v.at \in {"ready", "sent"} => x.run.w[i].at \in {"ready", "sent"}
  PROVE  Observations'
<1>1. Recording /\ Working /\ AskedOnce
  BY DEF Observations
<1>2. x'.run # None => Apart(x'.run, x.rows)
  <2> SUFFICES ASSUME x'.run # None PROVE Apart(x'.run, x.rows)
    OBVIOUS
  <2>1. Goes(x.exp, x.run, x'.run, i, v, held) /\ x.exp \in Experiment /\ RunShape(x.exp, x.run)
    BY DEF RunGoes, Shape
  <2>2. Apart(x.run, x.rows)
    BY <1>1 DEF Working
  <2> QED
    BY <2>1, <2>2, ApartMoves
<1>3. Recording'
  BY <1>1 DEF Recording, Fixed
<1>4. IsDesign(x.exp) /\ v.at \in {"ready", "sent"} => x.calls[v.key].n = 0
  BY <1>1 DEF AskedOnce, Waiting
<1> QED
  BY <1>2, <1>3, <1>4, RunObserves DEF Books

LEMMA ObservesSubmits ==
  ASSUME Shape, Observations, NEW i, Submit(i)
  PROVE  Observations'
<1>1. /\ x.run # None /\ i \in DOMAIN x.run.w /\ x.run.w[i].at = "ready" /\ Fixed /\ Books /\ x'.rows = x.rows
      /\ \/ RunGoes(i, Waiting, Freed)
         \/ \E v \in Asking(x.exp) : RunGoes(i, v, x.run.reserved) /\ v.key = x.run.w[i].key
  BY Submits
<1>2. x.run.w[i] # Waiting
  BY <1>1 DEF Waiting
<1> QED
  BY <1>1, <1>2, ObservesWork DEF Waiting

LEMMA ObservesGrades ==
  ASSUME Shape, Observations, NEW i, GradeAnswer(i)
  PROVE  Observations'
<1>1. /\ x.run # None /\ i \in DOMAIN x.run.w /\ x.run.w[i].at = "answered" /\ Fixed /\ Books /\ x'.rows = x.rows
      /\ \E v : v.at = "graded" /\ v.key = x.run.w[i].key /\ Goes(x.exp, x.run, x'.run, i, v, Freed)
  BY Grades
<1>2. PICK v : v.at = "graded" /\ v.key = x.run.w[i].key /\ Goes(x.exp, x.run, x'.run, i, v, Freed)
  BY <1>1
<1>3. x.run.w[i] # Waiting /\ RunGoes(i, v, Freed) /\ v.at \notin {"ready", "sent"}
  BY <1>1, <1>2 DEF Waiting, RunGoes
<1> QED
  BY <1>1, <1>2, <1>3, ObservesWork

\* The row of a key is its first, by the version of the run.
LEMMA ObservesWrites ==
  ASSUME Shape, Observations, NEW i, WriteRow(i)
  PROVE  Observations'
<1> DEFINE key == Recorded(x.run.of, x.run.w[i].key)
<1>1. /\ x.run # None /\ i \in DOMAIN x.run.w /\ x.run.w[i].at = "graded"
      /\ Fixed /\ Books /\ RunGoes(i, Waiting, x.run.reserved)
      /\ DOMAIN x'.rows = DOMAIN x.rows \cup {key} /\ x'.rows[key].version = x.run.version
      /\ key \notin DOMAIN x.rows => x'.rows[key].n = 1
      /\ \A k \in DOMAIN x.rows : k # key => x'.rows[k] = x.rows[k]
  BY Writes
<1>2. x.run.w[i] # Waiting
  BY <1>1 DEF Waiting
<1>3. Recording /\ Apart(x.run, x.rows) /\ Named(x.exp, x.reg, x.run.version)
  BY <1>1 DEF Observations, Working
<1>4. key \notin DOMAIN x.rows
  BY <1>1, <1>2, <1>3 DEF Apart
<1>5. Recording'
  <2>1. x'.exp = x.exp /\ x'.reg = x.reg
    BY <1>1 DEF Fixed
  <2> SUFFICES ASSUME NEW k \in DOMAIN x'.rows PROVE x'.rows[k].n = 1 /\ Named(x.exp, x.reg, x'.rows[k].version)
    BY <2>1 DEF Recording
  <2>2. CASE k = key
    BY <1>1, <1>3, <1>4, <2>2
  <2>3. CASE k # key
    <3>1. k \in DOMAIN x.rows /\ x'.rows[k] = x.rows[k]
      BY <1>1, <2>3
    <3> QED
      BY <1>3, <3>1 DEF Recording
  <2> QED
    BY <2>2, <2>3
<1>6. x'.run # None => Apart(x'.run, x'.rows)
  <2> SUFFICES ASSUME x'.run # None PROVE Apart(x'.run, x'.rows)
    OBVIOUS
  <2>1. Goes(x.exp, x.run, x'.run, i, Waiting, x.run.reserved) /\ x.exp \in Experiment /\ RunShape(x.exp, x.run)
    BY <1>1 DEF RunGoes, Shape
  <2> QED
    BY <1>1, <1>2, <1>3, <2>1, ApartMoves
<1> QED
  BY <1>1, <1>5, <1>6, RunObserves DEF Books, Waiting

\* What is logged is the key's first call of a design run.
LEMMA ObservesReceives ==
  ASSUME Shape, Observations, NEW i, Stage(i, "sent"), NEW a \in Attempts(x.exp, x.run.w[i].key[2]), Received(i, a)
  PROVE  Observations'
<1> DEFINE w == x.run.w[i]
           usd == LedgerCost(x.exp, w.key[2], a)
<1>1. /\ x.run # None /\ i \in DOMAIN x.run.w /\ w \in Asking(x.exp) /\ w.at = "sent" /\ Fixed /\ x'.rows = x.rows
      /\ x'.calls = x.calls \/ Logs(w.key, usd)
  BY Receives
<1>2. PICK v : /\ Goes(x.exp, x.run, x'.run, i, v, x.run.reserved) /\ v.key = w.key
               /\ v.at = "answered" \/ ~IsDesign(x.exp)
  <2>1. \E v : /\ Goes(x.exp, x.run, x'.run, i, v, x.run.reserved) /\ v.key = w.key
               /\ \/ v.at = "answered" /\ v.usd \in Nat /\ v.usd <= LedgerCost(x.exp, w.key[2], a)
                  \/ /\ v \in Asking(x.exp) /\ v.at = "ready" /\ v.attempt = w.attempt + 1
                     /\ ~IsDesign(x.exp)
    BY Receives
  <2> HIDE DEF w
  <2> QED
    BY ONLY <2>1
<1>3. /\ x.exp \in Experiment /\ RunShape(x.exp, x.run) /\ w # Waiting /\ w.key \in Tags(x.exp)
      /\ DOMAIN x.calls = Tags(x.exp) /\ \A t \in Tags(x.exp) : x.calls[t].n \in Nat
  BY <1>1 DEF Shape, Waiting, Asking
<1>4. Recording /\ Registered /\ Working /\ AskedOnce /\ Fresh /\ Apart(x.run, x.rows)
  BY <1>1 DEF Observations, Working
<1>5. x'.exp = x.exp /\ x'.reg = x.reg /\ IsDesign(x.exp)' = IsDesign(x.exp)
  BY <1>1, LimitsStay DEF Fixed
<1>6. /\ x'.run.version = x.run.version /\ x'.run.done = x.run.done /\ OneMoves(x.run.w, x'.run.w, i, v)
      /\ Left(x'.run.phases) \subseteq Left(x.run.phases)
  BY <1>2 DEF Goes, Shrinks
<1>7. /\ DOMAIN x'.calls = Tags(x.exp)
      /\ x'.calls[w.key].n \in {x.calls[w.key].n, x.calls[w.key].n + 1}
      /\ \A t \in Tags(x.exp) : t # w.key => x'.calls[t] = x.calls[t]
  BY <1>1, <1>3 DEF Logs
<1>8. Recording' /\ Registered'
  BY <1>1, <1>4, <1>5 DEF Recording, Registered
<1>9. Working'
  <2>1. Apart(x'.run, x.rows)
    BY <1>1, <1>2, <1>3, <1>4, ApartMoves
  <2> QED
    BY <1>1, <1>4, <1>5, <1>6, <2>1 DEF Working
<1>10. AskedOnce'
  <2> SUFFICES ASSUME IsDesign(x.exp)
               PROVE  /\ \A t \in Tags(x.exp) : x'.calls[t].n <= 1
                      /\ \A j \in DOMAIN x'.run.w : x'.run.w[j].at \notin {"ready", "sent"}
    BY <1>5, <1>7 DEF AskedOnce
  <2>1. /\ \A t \in Tags(x.exp) : x.calls[t].n <= 1
        /\ x.calls[w.key].n = 0
    BY <1>1, <1>3, <1>4 DEF AskedOnce
  <2>2. \A t \in Tags(x.exp) : x'.calls[t].n <= 1
    <3> HIDE DEF w
    <3> QED
      BY <1>7, <2>1
  <2>3. \A j \in DOMAIN x'.run.w : j = i
    <3>1. x.run.of \in x.exp.launches /\ DOMAIN x.run.w = 1..x.run.of.workers
      BY <1>3 DEF RunShape
    <3>2. x.run.of.workers = 1
      BY <1>3, <3>1, DirectoryTyped
    <3> QED
      BY <1>1, <1>6, <3>1, <3>2 DEF OneMoves
  <2>4. x'.run.w[i].at = "answered"
    BY <1>2, <1>6 DEF OneMoves
  <2> QED
    BY <2>2, <2>3, <2>4
<1>11. Fresh'
  <2> SUFFICES ASSUME x.exp.runner = "design2"
               PROVE  x'.run.done = {} /\ \A key \in Left(x'.run.phases) : x'.calls[key].n = 0
    BY <1>5 DEF Fresh
  <2>1. x.run.done = {} /\ \A key \in Left(x.run.phases) : x.calls[key].n = 0
    BY <1>1, <1>4 DEF Fresh
  <2>2. w.key \notin Left(x.run.phases) /\ Left(x.run.phases) \subseteq Tags(x.exp)
    BY <1>1, <1>3, <1>4, LeftTyped DEF Apart, RunShape
  <2> QED
    BY <1>6, <1>7, <2>1, <2>2
<1> QED
  BY <1>8, <1>9, <1>10, <1>11 DEF Observations

\* A program starts with what the registration names, and with every key
\* that has a row taken for done.
LEMMA ObservesLaunches ==
  ASSUME Shape, Observations, Launch
  PROVE  Observations'
<1>1. PICK c : /\ Begins(c)
               /\ x.exp.runner = "design2" => x.rows = <<>> /\ (\A t \in DOMAIN x.calls : x.calls[t].n = 0)
               /\ Changed(x.now, x.reg.current, Compares(x.exp) \ (IF x.exp.pinned THEN {} ELSE {"identity"})) = {}
  BY Launches
<1>2. /\ x'.exp = x.exp /\ x'.reg = x.reg /\ x'.rows = x.rows /\ x'.calls = x.calls /\ c \in x.exp.launches /\ x.reg # None
      /\ x'.run.of = c /\ x'.run.version = x.now /\ x'.run.done = DOMAIN x.rows /\ x'.run.phases = Phases(x.exp, c)
      /\ DOMAIN x'.run.w = 1..c.workers /\ \A j \in 1..c.workers : x'.run.w[j] = Waiting
      /\ IsDesign(x.exp)' = IsDesign(x.exp)
  BY <1>1, LimitsStay DEF Begins, Fixed, Books
<1>3. x.exp \in Experiment /\ DOMAIN x.calls = Tags(x.exp)
  BY DEF Shape
<1>4. Phases(x.exp, c) \in Plans(x.exp) /\ Once(Phases(x.exp, c))
  BY <1>2, <1>3, DirectoryTyped
<1>5. Recording /\ Registered /\ AskedOnce
  BY DEF Observations
<1>6. Recording' /\ Registered'
  BY <1>2, <1>5 DEF Recording, Registered
<1>7. Working'
  <2>1. Apart(x'.run, x.rows)
    BY <1>2, <1>4 DEF Apart
  <2>2. Named(x.exp, x.reg, x.now)
    BY <1>1 DEF Named
  <2> QED
    BY <1>2, <2>1, <2>2 DEF Working
<1>8. AskedOnce'
  BY <1>2, <1>5 DEF AskedOnce, Waiting
<1>9. Fresh'
  <2> SUFFICES ASSUME x.exp.runner = "design2"
               PROVE  x'.run.done = {} /\ \A key \in Left(x'.run.phases) : x.calls[key].n = 0
    BY <1>2 DEF Fresh
  <2>1. Left(x'.run.phases) \subseteq Tags(x.exp)
    BY <1>2, <1>4, LeftTyped
  <2> QED
    BY <1>1, <1>2, <1>3, <2>1
<1> QED
  BY <1>6, <1>7, <1>8, <1>9 DEF Observations

LEMMA ObservesCrashes ==
  ASSUME Shape, Observations, Crash
  PROVE  Observations'
<1>1. /\ x'.exp = x.exp /\ x'.reg = x.reg /\ x'.run = None /\ x'.calls = x.calls /\ x'.rows = x.rows
      /\ IsDesign(x.exp)' = IsDesign(x.exp)
  BY Crashes, LimitsStay
<1>2. Recording /\ Registered /\ AskedOnce
  BY DEF Observations
<1>3. Recording' /\ Registered' /\ Working' /\ AskedOnce' /\ Fresh'
  BY <1>1, <1>2 DEF Recording, Registered, Working, AskedOnce, Fresh
<1> QED
  BY <1>3 DEF Observations

\* A registration is over rows that are there only where it adds to the
\* versions it names.
LEMMA ObservesRegisters ==
  ASSUME Shape, Observations, Register \/ Amend \/ (\E p \in x.exp.editable : Alter(p))
  PROVE  Observations'
<1>1. /\ x'.exp = x.exp /\ x'.run = x.run /\ x'.calls = x.calls /\ x'.rows = x.rows
      /\ IsDesign(x.exp)' = IsDesign(x.exp)
  BY Registers, LimitsStay DEF Books
<1>2. Recording /\ Registered /\ Working /\ AskedOnce /\ Fresh
  BY DEF Observations
<1>3. AskedOnce' /\ Fresh'
  BY <1>1, <1>2 DEF AskedOnce, Fresh
<1>4. CASE x.run = None /\ x.rows = <<>>
  <2>1. Recording' /\ Registered' /\ Working'
    BY <1>1, <1>4 DEF Recording, Registered, Working
  <2> QED
    BY <1>3, <2>1 DEF Observations
<1>5. CASE x'.reg = x.reg
  <2>1. Recording' /\ Registered' /\ Working'
    BY <1>1, <1>2, <1>5 DEF Recording, Registered, Working
  <2> QED
    BY <1>3, <2>1 DEF Observations
<1>6. CASE ~IsDesign(x.exp) /\ x.reg.superseded \cup {x.reg.current} \subseteq x'.reg.superseded \cup {x'.reg.current}
  <2>1. \A version : Named(x.exp, x.reg, version) => Named(x.exp, x'.reg, version)
    BY <1>6 DEF Named
  <2>2. Recording'
    BY <1>1, <1>2, <2>1 DEF Recording
  <2>3. Working'
    BY <1>1, <1>2, <2>1 DEF Working
  <2>4. Registered'
    BY <1>1, <1>6 DEF Registered
  <2> QED
    BY <1>3, <2>2, <2>3, <2>4 DEF Observations
<1>7. x.run = None /\ (IF IsDesign(x.exp) THEN x.reg = None ELSE x.rows = <<>>) => x.run = None /\ x.rows = <<>>
  BY <1>2 DEF Registered
<1> QED
  BY <1>4, <1>5, <1>6, <1>7, Registers

LEMMA ObservesStarts ==
  ASSUME ExperimentsInit
  PROVE  Observations
<1>1. PICK exp \in Experiment : x = ExperimentStart(exp)
  BY DEF ExperimentsInit
<1>2. /\ x.run = None /\ x.rows = <<>> /\ DOMAIN x.calls = Tags(exp) /\ \A t \in Tags(exp) : x.calls[t].n = 0
  BY <1>1 DEF ExperimentStart
<1>3. Recording /\ Registered /\ Working /\ AskedOnce /\ Fresh
  BY <1>2 DEF Recording, Registered, Working, AskedOnce, Fresh
<1> QED
  BY <1>3 DEF Observations

LEMMA ObservationsHold == ExperimentsSpec => [](Shape /\ Observations)
<1>1. ExperimentsInit => Observations
  BY ObservesStarts
<1>2. Shape /\ Observations /\ [ExperimentsNext]_x => Observations'
  <2> SUFFICES ASSUME Shape, Observations, [ExperimentsNext]_x PROVE Observations'
    OBVIOUS
  <2>1. CASE UNCHANGED x
    <3>1. Recording' /\ Registered' /\ Working' /\ AskedOnce' /\ Fresh'
      BY <2>1 DEF Observations, Recording, Registered, Working, AskedOnce, Fresh
    <3> QED
      BY <3>1 DEF Observations
  <2>2. CASE ExperimentsNext
    <3>1. CASE Register \/ Amend \/ \E p \in x.exp.editable : Alter(p)
      BY <3>1, ObservesRegisters
    <3>2. CASE Launch
      BY <3>2, ObservesLaunches
    <3>3. CASE Crash
      BY <3>3, ObservesCrashes
    <3>4. CASE \E i : TakeHeldout(i) \/ TakeSupplement(i) \/ TakeDesign(i) \/ TakeDesign2(i)
      BY <3>4, ObservesTakes
    <3>5. CASE \E i : Submit(i)
      BY <3>5, ObservesSubmits
    <3>6. CASE \E i : GradeAnswer(i)
      BY <3>6, ObservesGrades
    <3>7. CASE \E i : WriteRow(i)
      BY <3>7, ObservesWrites
    <3>8. CASE \E i : Stage(i, "sent") /\ \E a \in Attempts(x.exp, x.run.w[i].key[2]) : Received(i, a)
      BY <3>8, ObservesReceives
    <3> QED
      BY <2>2, <3>1, <3>2, <3>3, <3>4, <3>5, <3>6, <3>7, <3>8, NextIs
  <2> QED
    BY <2>1, <2>2
<1> QED
  BY <1>1, <1>2, ShapeHolds, PTL DEF ExperimentsSpec

\* No observation is twice in a ledger, a design run asks again only for what
\* a crash kept out of its ledger, and each row was made by a version that
\* the registration or its amendments name.
THEOREM EvidenceOnRecord == ExperimentsSpec => []EvidenceSound
<1>1. Shape /\ Observations => EvidenceSound
  <2> SUFFICES ASSUME Shape, Observations PROVE EvidenceSound
    OBVIOUS
  <2>1. Recording /\ AskedOnce
    BY DEF Observations
  <2>2. /\ \A key \in DOMAIN x.rows : x.rows[key].n = 1
        /\ \A key \in DOMAIN x.rows :
             \E v \in x.reg.superseded \cup {x.reg.current} :
               Changed(x.rows[key].version, v, Compares(x.exp) \ (IF x.exp.pinned THEN {} ELSE {"identity"})) = {}
    BY <2>1 DEF Recording, Named
  <2>3. ASSUME IsDesign(x.exp), NEW t \in DOMAIN x.calls
        PROVE  TimesAsked(t) <= 1 + x.lost[t]
    <3> DEFINE sent == {i \in DOMAIN x.run.w : Stage(i, "sent") /\ x.run.w[i].key = t}
               out == IF x.run = None THEN 0 ELSE Cardinality(sent)
               n == x.calls[t].n
               lost == x.lost[t]
    <3>1. x.exp \in Experiment /\ n \in Nat /\ lost \in Nat
      BY <2>3 DEF Shape
    <3>2. n <= 1
      BY <2>1, <2>3 DEF AskedOnce
    <3>3. out = 0 \/ (out = 1 /\ n = 0)
      <4>1. CASE x.run = None \/ sent = {}
        BY <4>1, FS_EmptySet
      <4>2. CASE x.run # None /\ sent # {}
        <5>1. x.run.of \in x.exp.launches /\ DOMAIN x.run.w = 1..x.run.of.workers
          BY <4>2 DEF Shape, RunShape
        <5>2. x.run.of.workers = 1
          BY <2>3, <3>1, <5>1, DirectoryTyped
        <5>3. sent = {1}
          BY <4>2, <5>1, <5>2
        <5>4. x.run.w[1].at = "sent" /\ x.run.w[1].key = t /\ 1 \in DOMAIN x.run.w
          BY <5>3 DEF Stage
        <5>5. n = 0
          BY <2>1, <2>3, <4>2, <5>4 DEF AskedOnce
        <5>6. Cardinality(sent) = 1
          BY <5>3, FS_Singleton
        <5> QED
          BY <4>2, <5>5, <5>6
      <4> QED
        BY <4>1, <4>2
    <3>4. TimesAsked(t) = n + lost + out
      BY DEF TimesAsked
    <3> HIDE DEF out, n, lost
    <3>5. n + lost + out <= 1 + lost
      BY <3>1, <3>2, <3>3
    <3> QED
      BY <3>4, <3>5 DEF lost
  <2> QED
    BY <2>2, <2>3 DEF EvidenceSound
<1> QED
  BY <1>1, ObservationsHold, PTL
----------------------------------------------------------------------------
(* What the rows say is what was done *)

\* What is carried may be less, and may become cost.
LEMMA StillPaid ==
  /\ \A rows, hands, next, spent \in Nat : next <= hands /\ rows + hands <= spent => rows + next <= spent
  /\ \A rows, hands, next, spent, usd \in Nat :
       /\ next + usd <= hands + 0 /\ rows + hands <= spent => (rows + usd) + next <= spent
  /\ \A rows, hands, next, spent, usd, cost \in Nat :
       next + 0 <= hands + usd /\ usd <= cost /\ rows + hands <= spent => rows + next <= spent + cost
OBVIOUS

LEMMA CarriedTyped ==
  ASSUME NEW exp, NEW w, Carried(exp, w)
  PROVE  UsdOf(w) \in Nat
BY DEF Carried, UsdOf, Waiting

LEMMA WaitingCarries ==
  ASSUME NEW exp
  PROVE  Carried(exp, Waiting) /\ UsdOf(Waiting) = 0
BY DEF Carried, UsdOf, Waiting

LEMMA RowsCostIs ==
  ASSUME Ledger
  PROVE  RowsCost \in Nat
<1> DEFINE f == [key \in DOMAIN x.rows |-> x.rows[key].usd]
           S == DOMAIN x.rows
<1>1. IsFiniteSet(S) /\ DOMAIN f = S /\ \A key \in S : f[key] \in Nat
  BY DEF Ledger, RowIs
<1>2. RowsCost = Total(f)
  BY DEF RowsCost
<1> HIDE DEF f, S
<1> QED
  BY <1>1, <1>2, TotalIsNumber

\* What the workers carry moves with the one that does, or is gone.
LEMMA HandsMove ==
  ASSUME Shape, Hands, x.run # None, NEW i \in DOMAIN x.run.w, NEW v, NEW held, RunGoes(i, v, held), Carried(x.exp, v)
  PROVE  /\ CarriedNow \in Nat /\ CarriedNow' \in Nat /\ UsdOf(x.run.w[i]) \in Nat /\ UsdOf(v) \in Nat
         /\ CarriedNow' + UsdOf(x.run.w[i]) <= CarriedNow + UsdOf(v)
<1> DEFINE S == DOMAIN x.run.w
           f == [j \in S |-> UsdOf(x.run.w[j])]
           d == UsdOf(v) - UsdOf(x.run.w[i])
           u == UsdOf(x.run.w[i])
           uv == UsdOf(v)
<1>1. IsFiniteSet(S)
  BY RunFinite DEF Shape
<1>2. uv \in Nat /\ \A j \in S : UsdOf(x.run.w[j]) \in Nat
  BY CarriedTyped DEF Hands
<1>3. CarriedNow = Total(f) /\ DOMAIN f = S /\ (\A j \in S : f[j] \in Nat) /\ f[i] = u /\ i \in S
  BY <1>2 DEF CarriedNow, Carries
<1>4. Total(f) \in Nat /\ u <= Total(f)
  <2>1. Total([j \in {i} |-> f[j]]) = f[i]
    <3> HIDE DEF f
    <3>1. f[i] \in Int
      BY <1>3
    <3> QED
      BY <3>1, TotalOfOne
  <2>2. [j \in S |-> f[j]] = f
    OBVIOUS
  <2> HIDE DEF f, S
  <2>3. {i} \in SUBSET S
    BY <1>3
  <2>4. Total([j \in {i} |-> f[j]]) <= Total([j \in S |-> f[j]]) /\ Total([j \in S |-> f[j]]) \in Nat
    BY <1>1, <1>3, <2>3, TotalOfPart
  <2> QED
    BY <1>3, <2>1, <2>2, <2>4
<1>5. CASE x'.run = None
  <2>1. CarriedNow' = 0
    BY <1>5 DEF CarriedNow
  <2> HIDE DEF u, uv
  <2>2. u \in Nat
    BY <1>2 DEF u
  <2>3. CarriedNow \in Nat /\ CarriedNow' \in Nat /\ CarriedNow' + u <= CarriedNow + uv
    BY <1>2, <1>3, <1>4, <2>1, <2>2
  <2> QED
    BY <1>2, <2>2, <2>3 DEF u, uv
<1>6. CASE x'.run # None
  <2> DEFINE g == [j \in S |-> UsdOf(x'.run.w[j])]
  <2>1. OneMoves(x.run.w, x'.run.w, i, v)
    BY <1>6 DEF RunGoes, Goes
  <2>2. CarriedNow' = Total(g) /\ DOMAIN g = S
    BY <1>6, <2>1 DEF CarriedNow, Carries, OneMoves
  <2>3. \A j \in S : g[j] = f[j] + (IF j = i THEN d ELSE 0)
    BY <1>2, <2>1 DEF OneMoves
  <2>4. (\A j \in S : g[j] \in Nat) /\ d \in Int
    BY <1>2, <2>1 DEF OneMoves
  <2>5. Moved(S, f, g, i, d)
    BY <2>3 DEF Moved
  <2> HIDE DEF f, g, S, d
  <2>6. Total(g) \in Nat
    BY <1>1, <2>2, <2>4, TotalIsNumber
  <2>7. Total(g) = Total(f) + d
    <3>1. \A j \in S : f[j] \in Int
      BY <1>3
    <3> QED
      BY <1>1, <1>3, <2>2, <2>4, <2>5, <3>1, TotalChanges
  <2>8. d = uv - u
    BY DEF d
  <2> HIDE DEF u, uv
  <2>9. u \in Nat
    BY <1>2, <1>3 DEF u, S
  <2>10. CarriedNow \in Nat /\ CarriedNow' \in Nat /\ CarriedNow' + u <= CarriedNow + uv
    BY <1>2, <1>3, <1>4, <2>2, <2>6, <2>7, <2>8, <2>9
  <2> QED
    BY <1>2, <2>9, <2>10 DEF u, uv
<1> QED
  BY <1>5, <1>6

\* A step of the run, as far as it does not write.
LEMMA RunReports ==
  ASSUME Shape, Reports, Fixed, x.run # None, NEW i \in DOMAIN x.run.w, NEW v, NEW held, RunGoes(i, v, held),
         Carried(x.exp, v), Ledger', Paid'
  PROVE  Reports'
<1>1. x'.exp = x.exp /\ x'.reg = x.reg /\ x'.now = x.now
  BY DEF Fixed
<1>2. Pinned'
  BY <1>1 DEF Reports, Pinned
<1>3. ASSUME x'.run # None
      PROVE  /\ DOMAIN x'.run.version = x.exp.editable
             /\ \A j \in DOMAIN x'.run.w : Carried(x.exp, x'.run.w[j])
             /\ \A key \in Left(x'.run.phases) : Planned(x.exp, key)
  <2>1. /\ x'.run.version = x.run.version /\ OneMoves(x.run.w, x'.run.w, i, v)
        /\ Left(x'.run.phases) \subseteq Left(x.run.phases)
    BY <1>3 DEF RunGoes, Goes, Shrinks
  <2>2. /\ DOMAIN x.run.version = x.exp.editable
        /\ \A j \in DOMAIN x.run.w : Carried(x.exp, x.run.w[j])
        /\ \A key \in Left(x.run.phases) : Planned(x.exp, key)
    BY DEF Reports, Hands
  <2> QED
    BY <2>1, <2>2 DEF OneMoves
<1>4. Hands'
  BY <1>1, <1>3 DEF Hands
<1> QED
  BY <1>2, <1>4 DEF Reports

\* The ledgers stay as they are.
LEMMA LedgerStays ==
  ASSUME Ledger, x'.exp = x.exp, x'.rows = x.rows
  PROVE  Ledger' /\ RowsCost' = RowsCost
BY DEF Ledger, RowsCost

\* A worker that goes on and carries no more than before.
LEMMA WorkReports ==
  ASSUME Shape, Reports, x.run # None, Fixed, Books, x'.rows = x.rows, NEW i \in DOMAIN x.run.w, NEW v, NEW held,
         RunGoes(i, v, held), Carried(x.exp, v), UsdOf(v) <= UsdOf(x.run.w[i])
  PROVE  Reports'
<1>1. Ledger /\ Hands /\ Paid
  BY DEF Reports
<1>2. Ledger' /\ RowsCost' = RowsCost /\ RowsCost \in Nat
  BY <1>1, LedgerStays, RowsCostIs DEF Fixed
<1>3. Spent' = Spent /\ Spent \in Nat /\ x'.callsTail = x.callsTail
  BY SpentSame, SpentIsNumber DEF Books
<1>4. /\ CarriedNow \in Nat /\ CarriedNow' \in Nat /\ UsdOf(x.run.w[i]) \in Nat /\ UsdOf(v) \in Nat
      /\ CarriedNow' + UsdOf(x.run.w[i]) <= CarriedNow + UsdOf(v)
  BY <1>1, HandsMove
<1>5. CarriedNow' <= CarriedNow
  BY <1>4
<1>6. Paid'
  <2> SUFFICES ASSUME x.callsTail = "whole" PROVE RowsCost + CarriedNow' <= Spent
    BY <1>2, <1>3 DEF Paid
  <2>1. RowsCost + CarriedNow <= Spent
    BY <1>1 DEF Paid
  <2> QED
    BY <1>2, <1>3, <1>4, <1>5, <2>1, StillPaid, Zenon
<1> QED
  BY <1>2, <1>6, RunReports

LEMMA ReportsTakes ==
  ASSUME Shape, Reports, NEW i, TakeHeldout(i) \/ TakeSupplement(i) \/ TakeDesign(i) \/ TakeDesign2(i)
  PROVE  Reports'
<1>1. PICK key, v, held : Picks(i, key, v, held)
  BY Takes
<1>2. /\ Fixed /\ Books /\ x'.rows = x.rows /\ RunGoes(i, v, held) /\ x.run # None /\ i \in DOMAIN x.run.w
      /\ x.run.w[i] = Waiting /\ key \in Left(x.run.phases) /\ (v = Waiting \/ v = Ready(key))
  BY <1>1 DEF Picks
<1>3. Planned(x.exp, key)
  BY <1>2 DEF Reports, Hands
<1>4. UsdOf(Waiting) = 0 /\ Carried(x.exp, Waiting)
  BY WaitingCarries
<1>5. UsdOf(Ready(key)) = 0 /\ Carried(x.exp, Ready(key))
  BY <1>3 DEF UsdOf, Carried, Ready
<1>6. UsdOf(v) <= UsdOf(x.run.w[i]) /\ Carried(x.exp, v)
  BY <1>2, <1>4, <1>5
<1> QED
  BY <1>2, <1>6, WorkReports

LEMMA ReportsSubmits ==
  ASSUME Shape, Reports, NEW i, Submit(i)
  PROVE  Reports'
<1>1. /\ x.run # None /\ i \in DOMAIN x.run.w /\ x.run.w[i].at = "ready" /\ Fixed /\ Books /\ x'.rows = x.rows
      /\ \/ RunGoes(i, Waiting, Freed)
         \/ \E v \in Asking(x.exp) : RunGoes(i, v, x.run.reserved) /\ v.at = "sent" /\ v.key = x.run.w[i].key
  BY Submits
<1>2. Carried(x.exp, x.run.w[i]) /\ x.run.w[i] # Waiting
  BY <1>1 DEF Reports, Hands, Waiting
<1>3. UsdOf(x.run.w[i]) = 0
  BY <1>1 DEF UsdOf
<1>4. CASE RunGoes(i, Waiting, Freed)
  BY <1>1, <1>3, <1>4, WaitingCarries, WorkReports
<1>5. ASSUME NEW v \in Asking(x.exp), RunGoes(i, v, x.run.reserved), v.at = "sent", v.key = x.run.w[i].key
      PROVE  Reports'
  <2>1. UsdOf(v) = 0 /\ Carried(x.exp, v)
    BY <1>2, <1>5 DEF UsdOf, Carried
  <2> QED
    BY <1>1, <1>3, <1>5, <2>1, WorkReports
<1> QED
  BY <1>1, <1>4, <1>5

LEMMA ReportsGrades ==
  ASSUME Shape, Reports, NEW i, GradeAnswer(i)
  PROVE  Reports'
<1>1. /\ x.run # None /\ i \in DOMAIN x.run.w /\ x.run.w[i].at = "answered" /\ Fixed /\ Books /\ x'.rows = x.rows
      /\ \E v : /\ v.at = "graded" /\ v.key = x.run.w[i].key /\ Goes(x.exp, x.run, x'.run, i, v, Freed)
                /\ v.usd = x.run.w[i].usd /\ (v.failed => Blamed(x.exp, v.outcome))
  BY Grades
<1>2. PICK v : /\ v.at = "graded" /\ v.key = x.run.w[i].key /\ Goes(x.exp, x.run, x'.run, i, v, Freed)
               /\ v.usd = x.run.w[i].usd /\ (v.failed => Blamed(x.exp, v.outcome))
  BY <1>1
<1>3. Carried(x.exp, x.run.w[i]) /\ x.run.w[i] # Waiting
  BY <1>1 DEF Reports, Hands, Waiting
<1>4. Planned(x.exp, v.key) /\ x.run.w[i].usd \in Nat
  BY <1>1, <1>2, <1>3 DEF Carried
<1>5. Carried(x.exp, v)
  BY <1>2, <1>4 DEF Carried
<1>6. UsdOf(v) = x.run.w[i].usd /\ UsdOf(x.run.w[i]) = x.run.w[i].usd
  BY <1>1, <1>2 DEF UsdOf
<1>7. UsdOf(v) <= UsdOf(x.run.w[i])
  BY <1>4, <1>6
<1> QED
  BY <1>1, <1>2, <1>5, <1>7, WorkReports DEF RunGoes

\* A row says what its worker carried.
LEMMA ReportsWrites ==
  ASSUME Shape, Observations, Reports, NEW i, WriteRow(i)
  PROVE  Reports'
<1> DEFINE w == x.run.w[i]
           key == Recorded(x.run.of, w.key)
           usd == w.usd
<1>1. /\ x.run # None /\ i \in DOMAIN x.run.w /\ w.at = "graded" /\ w.key \in Tags(x.exp)
      /\ Fixed /\ Books /\ RunGoes(i, Waiting, x.run.reserved)
      /\ DOMAIN x'.rows = DOMAIN x.rows \cup {key} /\ x'.rows[key].version = x.run.version
      /\ x'.rows[key].usd = w.usd /\ x'.rows[key].failed = w.failed /\ x'.rows[key].outcome = w.outcome
      /\ "n" \in DOMAIN x'.rows[key]
      /\ \A k \in DOMAIN x.rows : k # key => x'.rows[k] = x.rows[k]
  BY Writes
<1>2. Ledger /\ Hands /\ Paid /\ x'.exp = x.exp /\ w # Waiting
  <2>1. Ledger /\ Hands /\ Paid
    BY DEF Reports
  <2>2. x'.exp = x.exp
    BY ONLY <1>1 DEF Fixed
  <2>3. w # Waiting
    <3> HIDE DEF w
    <3>1. w.at = "graded"
      BY ONLY <1>1
    <3>2. Waiting.at = "idle"
      BY DEF Waiting
    <3> QED
      BY ONLY <3>1, <3>2
  <2> QED
    BY <2>1, <2>2, <2>3
<1>3. /\ Carried(x.exp, w) /\ DOMAIN x.run.version = x.exp.editable /\ x.run.of \in x.exp.launches
  BY <1>1, <1>2 DEF Hands, Shape, RunShape
<1>4. usd \in Nat /\ (w.failed => Blamed(x.exp, w.outcome)) /\ Planned(x.exp, w.key)
  BY <1>1, <1>2, <1>3 DEF Carried
<1>5. key \notin DOMAIN x.rows
  <2>1. Apart(x.run, x.rows)
    BY <1>1 DEF Observations, Working
  <2> QED
    BY <1>1, <1>2, <2>1 DEF Apart
<1>6. RowIs(x.exp, key, x'.rows[key])
  BY <1>1, <1>3, <1>4 DEF RowIs
<1>7. \A k \in DOMAIN x.rows : x'.rows[k] = x.rows[k]
  BY <1>1, <1>5
<1>8. Ledger'
  <2>1. IsFiniteSet(DOMAIN x.rows \cup {key})
    BY <1>2, FS_AddElement DEF Ledger
  <2>2. \A k \in DOMAIN x'.rows : RowIs(x.exp, k, x'.rows[k])
    BY <1>1, <1>2, <1>6, <1>7 DEF Ledger
  <2> QED
    BY <1>1, <1>2, <2>1, <2>2 DEF Ledger
<1>9. RowsCost' = RowsCost + usd /\ RowsCost \in Nat
  <2> DEFINE S == DOMAIN x'.rows
             A == DOMAIN x.rows
             f == [k \in S |-> x'.rows[k].usd]
             part(C) == [k \in C |-> f[k]]
  <2>1. IsFiniteSet(S) /\ A \cup {key} = S /\ A \cap {key} = {} /\ \A k \in S : f[k] \in Int
    <3>1. IsFiniteSet(S) /\ \A k \in S : x'.rows[k].usd \in Nat
      BY <1>8 DEF Ledger, RowIs
    <3>2. \A k \in S : f[k] \in Int
      BY <3>1
    <3>3. A \cup {key} = S /\ A \cap {key} = {}
      BY <1>1, <1>5
    <3> QED
      BY <3>1, <3>2, <3>3
  <2>2. RowsCost' = Total(part(S)) /\ RowsCost = Total(part(A))
    <3>1. part(S) = [k \in DOMAIN x'.rows |-> x'.rows[k].usd]
      OBVIOUS
    <3>2. part(A) = [k \in DOMAIN x.rows |-> x.rows[k].usd]
      BY <1>1, <1>7
    <3> HIDE DEF part
    <3> QED
      BY <3>1, <3>2 DEF RowsCost
  <2>3. f[key] = usd
    BY <1>1
  <2> HIDE DEF f, S, A, key
  <2>4. Total(part(S)) = Total(part(A)) + Total(part({key}))
    BY <2>1, TotalSplits
  <2>5. Total(part({key})) = usd
    <3>1. f[key] \in Int
      BY <2>1
    <3> QED
      BY <2>3, <3>1, TotalOfOne
  <2>6. RowsCost \in Nat
    BY <1>2, RowsCostIs
  <2> HIDE DEF part
  <2> QED
    BY <2>2, <2>4, <2>5, <2>6
<1>10. Spent' = Spent /\ Spent \in Nat /\ x'.callsTail = x.callsTail
  BY <1>1, SpentSame, SpentIsNumber DEF Books
<1>11. CarriedNow \in Nat /\ CarriedNow' \in Nat /\ CarriedNow' + usd <= CarriedNow + 0
  <2>1. /\ CarriedNow \in Nat /\ CarriedNow' \in Nat
        /\ CarriedNow' + UsdOf(w) <= CarriedNow + UsdOf(Waiting)
    BY <1>1, <1>2, WaitingCarries, HandsMove
  <2>2. UsdOf(w) = usd /\ UsdOf(Waiting) = 0
    BY <1>1, WaitingCarries DEF UsdOf
  <2> HIDE DEF usd, w
  <2> QED
    BY <2>1, <2>2, Zenon
<1>12. Paid'
  <2> SUFFICES ASSUME x.callsTail = "whole" PROVE RowsCost' + CarriedNow' <= Spent
    BY <1>10 DEF Paid
  <2>1. RowsCost + CarriedNow <= Spent
    BY <1>2 DEF Paid
  <2> HIDE DEF usd
  <2> QED
    <3>1. (RowsCost + usd) + CarriedNow' <= Spent
      BY <1>4, <1>9, <1>10, <1>11, <2>1, StillPaid, Zenon
    <3> QED
      BY <1>9, <3>1, Zenon
<1>13. Carried(x.exp, Waiting)
  BY WaitingCarries
<1> QED
  BY <1>1, <1>8, <1>12, <1>13, RunReports

\* What a worker carries was logged with its answer.
LEMMA ReportsReceives ==
  ASSUME Shape, Reports, NEW i, Stage(i, "sent"), NEW a \in Attempts(x.exp, x.run.w[i].key[2]), Received(i, a)
  PROVE  Reports'
<1> DEFINE w == x.run.w[i]
           cost == LedgerCost(x.exp, w.key[2], a)
<1>1. /\ x.run # None /\ i \in DOMAIN x.run.w /\ w \in Asking(x.exp) /\ w.at = "sent" /\ Fixed /\ x'.rows = x.rows
      /\ \/ x'.callsTail = "spoilt"
         \/ Logs(w.key, cost)
  BY Receives
<1>2. PICK v : /\ Goes(x.exp, x.run, x'.run, i, v, x.run.reserved) /\ v.key = w.key
               /\ \/ v.at = "answered" /\ v.usd \in Nat /\ v.usd <= cost
                  \/ v \in Asking(x.exp) /\ v.at = "ready"
  <2>1. PICK v : /\ Goes(x.exp, x.run, x'.run, i, v, x.run.reserved) /\ v.key = w.key
                 /\ \/ v.at = "answered" /\ v.usd \in Nat /\ v.usd <= cost
                    \/ /\ v \in Asking(x.exp) /\ v.at = "ready" /\ v.attempt = w.attempt + 1
                       /\ ~IsDesign(x.exp)
    BY Receives
  <2> QED
    BY <2>1
<1>3. /\ Ledger /\ Hands /\ Paid /\ w # Waiting /\ cost \in Nat /\ w.key \in Tags(x.exp) /\ RunGoes(i, v, x.run.reserved)
  BY <1>1, <1>2, LedgerCovers DEF Reports, Waiting, Asking, RunGoes
<1>4. Planned(x.exp, v.key)
  BY <1>1, <1>2, <1>3 DEF Hands, Carried
<1>5. Carried(x.exp, v) /\ UsdOf(v) <= cost /\ UsdOf(w) = 0
  <2> HIDE DEF cost
  <2> QED
    BY <1>1, <1>2, <1>3, <1>4 DEF Carried, UsdOf
<1>6. Ledger' /\ RowsCost' = RowsCost /\ RowsCost \in Nat
  BY <1>1, <1>3, LedgerStays, RowsCostIs DEF Fixed
<1>7. /\ CarriedNow \in Nat /\ CarriedNow' \in Nat /\ UsdOf(v) \in Nat
      /\ CarriedNow' + UsdOf(w) <= CarriedNow + UsdOf(v)
  BY <1>1, <1>3, <1>5, HandsMove
<1>8. Paid'
  <2>1. CASE x'.callsTail = "spoilt"
    BY <2>1 DEF Paid
  <2>2. CASE Logs(w.key, cost)
    <3>1. Spent' = Spent + cost /\ Spent \in Nat /\ x'.callsTail = x.callsTail
      BY <1>3, <2>2, SpentLogs, SpentIsNumber DEF Logs
    <3> SUFFICES ASSUME x.callsTail = "whole" PROVE RowsCost + CarriedNow' <= Spent + cost
      BY <1>6, <3>1 DEF Paid
    <3>2. RowsCost + CarriedNow <= Spent
      BY <1>3 DEF Paid
    <3> HIDE DEF cost, w
    <3>3. CarriedNow' + 0 <= CarriedNow + UsdOf(v)
      BY <1>5, <1>7, Zenon
    <3> QED
      BY <1>3, <1>5, <1>6, <1>7, <3>1, <3>2, <3>3, StillPaid, Zenon
  <2> QED
    BY <1>1, <2>1, <2>2
<1> QED
  BY <1>1, <1>3, <1>5, <1>6, <1>8, RunReports

LEMMA ReportsLaunches ==
  ASSUME Shape, Reports, Launch
  PROVE  Reports'
<1>1. PICK c : Begins(c)
  BY Launches
<1>2. /\ Fixed /\ Books /\ x'.rows = x.rows /\ c \in x.exp.launches /\ x.run = None
      /\ x'.run.version = x.now /\ x'.run.phases = Phases(x.exp, c)
      /\ DOMAIN x'.run.w = 1..c.workers /\ \A j \in 1..c.workers : x'.run.w[j] = Waiting
  BY <1>1 DEF Begins
<1>3. x'.exp = x.exp /\ x'.reg = x.reg /\ x'.now = x.now
  BY <1>2 DEF Fixed
<1>4. x.exp \in Experiment /\ Ledger /\ Pinned /\ Paid
  BY DEF Shape, Reports
<1>5. Pinned'
  BY <1>3, <1>4 DEF Pinned
<1>6. Ledger' /\ RowsCost' = RowsCost /\ RowsCost \in Nat
  BY <1>2, <1>3, <1>4, LedgerStays, RowsCostIs
<1>7. \A key \in Left(Phases(x.exp, c)) : Planned(x.exp, key)
  <2> DEFINE phases == Phases(x.exp, c)
  <2>1. IsDesign(x.exp) => \A p \in DOMAIN phases : Range(phases[p].keys) \subseteq Range(x.exp.order)
    BY <1>2, <1>4, DirectoriesInOrder
  <2> HIDE DEF phases
  <2>2. IsDesign(x.exp) => Left(phases) \subseteq Range(x.exp.order)
    BY <2>1 DEF Left
  <2> QED
    BY <2>2 DEF Planned, phases
<1>8. Hands'
  <2>1. DOMAIN x'.run.version = x.exp.editable
    BY <1>2, <1>4 DEF Pinned
  <2>2. \A j \in DOMAIN x'.run.w : Carried(x.exp, x'.run.w[j])
    BY <1>2, WaitingCarries
  <2> QED
    BY <1>2, <1>3, <1>7, <2>1, <2>2 DEF Hands
<1>9. CarriedNow = 0 /\ CarriedNow' = 0
  <2> DEFINE S == 1..c.workers
             z == [j \in S |-> 0]
  <2>1. c.workers \in Nat
    <3>1. \A d \in x.exp.launches : d.workers \in Nat \ {0}
      BY <1>4, ExperimentsTyped
    <3> QED
      BY <1>2, <3>1
  <2>2. IsFiniteSet(S)
    BY <2>1, FS_Interval
  <2>3. Total(z) = 0
    <3> HIDE DEF S
    <3> QED
      BY <2>2, TotalNone
  <2>4. [j \in DOMAIN x'.run.w |-> UsdOf(x'.run.w[j])] = z
    BY <1>2, WaitingCarries
  <2>5. Carries(x'.run) = 0
    BY <2>3, <2>4 DEF Carries
  <2> QED
    BY <1>2, <2>5 DEF CarriedNow
<1>10. Spent' = Spent /\ x'.callsTail = x.callsTail
  BY <1>2, SpentSame DEF Books
<1>11. Paid'
  BY <1>4, <1>6, <1>9, <1>10 DEF Paid
<1> QED
  BY <1>5, <1>6, <1>8, <1>11 DEF Reports

\* What the workers carried is lost; what a cut line would have said of it is
\* no longer counted.
LEMMA ReportsCrashes ==
  ASSUME Shape, Reports, Crash
  PROVE  Reports'
<1>1. /\ x'.exp = x.exp /\ x'.reg = x.reg /\ x'.now = x.now /\ x'.run = None /\ x'.calls = x.calls
      /\ x'.rows = x.rows /\ x'.callsTail \in {x.callsTail, "cut"} /\ x.run # None
  BY Crashes DEF Crash
<1>2. Ledger /\ Hands /\ Pinned /\ Paid
  BY DEF Reports
<1>3. Ledger' /\ RowsCost' = RowsCost /\ RowsCost \in Nat
  BY <1>1, <1>2, LedgerStays, RowsCostIs
<1>4. Hands' /\ Pinned'
  BY <1>1, <1>2 DEF Hands, Pinned
<1>5. CarriedNow \in Nat /\ CarriedNow' = 0
  <2> DEFINE S == DOMAIN x.run.w
             f == [j \in S |-> UsdOf(x.run.w[j])]
  <2>1. IsFiniteSet(S) /\ DOMAIN f = S
    BY <1>1, RunFinite DEF Shape
  <2>2. \A j \in S : f[j] \in Nat
    BY <1>1, <1>2, CarriedTyped DEF Hands
  <2>3. CarriedNow = Total(f)
    BY <1>1 DEF CarriedNow, Carries
  <2> HIDE DEF f, S
  <2>4. CarriedNow \in Nat
    BY <2>1, <2>2, <2>3, TotalIsNumber
  <2> QED
    BY <1>1, <2>4 DEF CarriedNow
<1>6. Spent' = Spent /\ Spent \in Nat
  BY <1>1, SpentSame, SpentIsNumber
<1>7. Paid'
  <2> SUFFICES ASSUME x'.callsTail = "whole" PROVE RowsCost + CarriedNow' <= Spent
    BY <1>3, <1>6 DEF Paid
  <2>1. RowsCost + CarriedNow <= Spent
    BY <1>1, <1>2 DEF Paid
  <2>2. CarriedNow' \in Nat /\ CarriedNow' <= CarriedNow
    BY <1>5
  <2> QED
    BY <1>3, <1>5, <1>6, <2>1, <2>2, StillPaid, Zenon
<1> QED
  BY <1>3, <1>4, <1>7 DEF Reports

\* The registration begins with nothing superseded, and what supersedes is on
\* record.
LEMMA Supersedes ==
  ASSUME Shape, Pinned, Register \/ Amend \/ (\E p \in x.exp.editable : Alter(p))
  PROVE  Pinned'
<1>1. x'.exp = x.exp
  BY Registers
<1>2. CASE Register
  <2>1. x' = [x EXCEPT !.reg = Registration(x.now)]
    BY <1>2 DEF Register
  <2>2. x'.now = x.now /\ x'.reg = Registration(x.now)
    BY <2>1 DEF Shape, StateFields
  <2>3. x'.reg.superseded = {}
    BY <2>2 DEF Registration
  <2> QED
    BY <1>1, <2>2, <2>3 DEF Pinned
<1>3. CASE Amend
  <2>1. PICK parts : Amended(parts)
    BY <1>3 DEF Amend, AmendHeldout, AmendSupplement
  <2> DEFINE reg == [first |-> x.reg.first, superseded |-> x.reg.superseded \cup {x.reg.current}, amended |-> TRUE,
                     current |-> [p \in DOMAIN x.reg.current |->
                                    IF p \in parts THEN x.now[p] ELSE x.reg.current[p]]]
  <2>2. x' = [x EXCEPT !.reg = reg]
    BY <2>1 DEF Amended
  <2>3. reg.amended = TRUE
    OBVIOUS
  <2> HIDE DEF reg
  <2>4. x'.now = x.now /\ x'.reg = reg
    BY <2>2 DEF Shape, StateFields
  <2> QED
    BY <1>1, <2>3, <2>4 DEF Pinned
<1>4. CASE \E p \in x.exp.editable : Alter(p)
  <2>1. PICK p \in x.exp.editable : Alter(p)
    BY <1>4
  <2>2. x' = [x EXCEPT !.edits = @ + 1, !.now[p] = 1 - @]
    BY <2>1 DEF Alter
  <2>3. x'.reg = x.reg /\ x'.now = [x.now EXCEPT ![p] = 1 - @]
    BY <2>2 DEF Shape, StateFields
  <2> QED
    BY <1>1, <2>3 DEF Pinned
<1> QED
  BY <1>2, <1>3, <1>4

LEMMA ReportsRegisters ==
  ASSUME Shape, Reports, Register \/ Amend \/ (\E p \in x.exp.editable : Alter(p))
  PROVE  Reports'
<1>1. x'.exp = x.exp /\ x'.run = x.run /\ x'.rows = x.rows /\ x'.calls = x.calls /\ x'.callsTail = x.callsTail
  BY Registers DEF Books
<1>2. Ledger /\ Hands /\ Pinned /\ Paid
  BY DEF Reports
<1>3. Pinned'
  BY <1>2, Supersedes
<1>4. Hands'
  BY <1>1, <1>2 DEF Hands
<1>5. Ledger' /\ RowsCost' = RowsCost
  BY <1>1, <1>2, LedgerStays
<1>6. Spent' = Spent
  BY <1>1, SpentSame
<1>7. CarriedNow' = CarriedNow
  BY <1>1 DEF CarriedNow
<1>8. Paid'
  BY <1>1, <1>2, <1>5, <1>6, <1>7 DEF Paid
<1> QED
  BY <1>3, <1>4, <1>5, <1>8 DEF Reports

LEMMA ReportsStarts ==
  ASSUME ExperimentsInit, Shape
  PROVE  Reports
<1>1. PICK exp \in Experiment : x = ExperimentStart(exp)
  BY DEF ExperimentsInit
<1>2. /\ x.run = None /\ x.rows = <<>> /\ x.reg = None /\ x.exp = exp /\ x.now = [p \in exp.editable |-> 0]
  BY <1>1 DEF ExperimentStart
<1>3. DOMAIN x.rows = {}
  BY <1>2
<1>4. IsFiniteSet({})
  BY FS_EmptySet
<1>5. Ledger /\ Hands /\ Pinned
  BY <1>2, <1>3, <1>4 DEF Ledger, Hands, Pinned
<1>6. RowsCost = 0
  <2>1. [key \in DOMAIN x.rows |-> x.rows[key].usd] = [key \in {} |-> 0]
    BY <1>3
  <2> QED
    BY <1>4, <2>1, TotalNone DEF RowsCost
<1>7. Paid
  BY <1>2, <1>6, SpentIsNumber DEF Paid, CarriedNow
<1> QED
  BY <1>5, <1>7 DEF Reports

LEMMA ReportsStay ==
  ASSUME Reports, UNCHANGED x
  PROVE  Reports'
<1>1. Ledger /\ Hands /\ Pinned /\ Paid
  BY DEF Reports
<1>2. RowsCost' = RowsCost /\ CarriedNow' = CarriedNow /\ Spent' = Spent
  BY SpentSame DEF RowsCost, CarriedNow
<1>3. Ledger' /\ Hands' /\ Pinned' /\ Paid'
  BY <1>1, <1>2 DEF Ledger, Hands, Pinned, Paid
<1> QED
  BY <1>3 DEF Reports

LEMMA ReportsHold == ExperimentsSpec => [](Shape /\ Observations /\ Reports)
<1>1. ExperimentsInit /\ Shape => Reports
  BY ReportsStarts
<1>2. Shape /\ Observations /\ Reports /\ [ExperimentsNext]_x => Reports'
  <2> SUFFICES ASSUME Shape, Observations, Reports, [ExperimentsNext]_x PROVE Reports'
    OBVIOUS
  <2>1. CASE UNCHANGED x
    BY <2>1, ReportsStay
  <2>2. CASE ExperimentsNext
    <3>1. CASE Register \/ Amend \/ \E p \in x.exp.editable : Alter(p)
      BY <3>1, ReportsRegisters
    <3>2. CASE Launch
      BY <3>2, ReportsLaunches
    <3>3. CASE Crash
      BY <3>3, ReportsCrashes
    <3>4. CASE \E i : TakeHeldout(i) \/ TakeSupplement(i) \/ TakeDesign(i) \/ TakeDesign2(i)
      BY <3>4, ReportsTakes
    <3>5. CASE \E i : Submit(i)
      BY <3>5, ReportsSubmits
    <3>6. CASE \E i : GradeAnswer(i)
      BY <3>6, ReportsGrades
    <3>7. CASE \E i : WriteRow(i)
      BY <3>7, ReportsWrites
    <3>8. CASE \E i : Stage(i, "sent") /\ \E a \in Attempts(x.exp, x.run.w[i].key[2]) : Received(i, a)
      BY <3>8, ReportsReceives
    <3> QED
      BY <2>2, <3>1, <3>2, <3>3, <3>4, <3>5, <3>6, <3>7, <3>8, NextIs
  <2> QED
    BY <2>1, <2>2
<1> QED
  BY <1>1, <1>2, ObservationsHold, PTL DEF ExperimentsSpec

\* Rows that are there once, each of a registered task, are all accounted for.
InOrder(rows, manifest) == \A key \in DOMAIN rows : key[1] \in manifest /\ rows[key].n = 1

Accounts(p, manifest) ==
  /\ p.attempted = manifest
  /\ p.valid \cup DOMAIN p.invalid = p.attempted /\ p.valid \subseteq p.strict
  /\ p.routerPassed \subseteq p.strictRouter /\ p.collapsed = {} /\ p.unregistered = {}
  /\ p.routerPassed \ p.otherPassed = p.routerOnly /\ p.otherPassed \ p.routerPassed = p.otherOnly

LEMMA PairsAccount ==
  ASSUME NEW rows, NEW comparator, NEW manifest, InOrder(rows, manifest)
  PROVE  Accounts(PairAccounting(rows, comparator, manifest), manifest)
<1> DEFINE p == PairAccounting(rows, comparator, manifest)
           router(t) == <<t, RouterArm>>
           other(t) == <<t, comparator>>
           reasons(t) == {Exclusion(rows, router(t)), Exclusion(rows, other(t))} \ {None}
           valid == {t \in manifest : reasons(t) = {}}
           strict == {t \in manifest : reasons(t) \subseteq {"truncated"}}
           mine == {key \in DOMAIN rows : key[2] \in {RouterArm, comparator}}
<1>1. /\ p.attempted = manifest /\ p.valid = valid /\ DOMAIN p.invalid = manifest \ valid
      /\ p.strict = strict
  BY DEF PairAccounting
<1>2. /\ p.routerPassed = {t \in valid : Passed(rows, router(t))}
      /\ p.otherPassed = {t \in valid : Passed(rows, other(t))}
      /\ p.strictRouter = {t \in strict : Passed(rows, router(t))}
  BY DEF PairAccounting
<1>3. /\ p.routerOnly = {t \in valid : Passed(rows, router(t)) /\ ~Passed(rows, other(t))}
      /\ p.otherOnly = {t \in valid : Passed(rows, other(t)) /\ ~Passed(rows, router(t))}
  BY DEF PairAccounting
<1>4. /\ p.collapsed = {key \in DOMAIN rows : key[2] \in {RouterArm, comparator} /\ rows[key].n > 1}
      /\ p.unregistered = {key[1] : key \in mine} \ manifest
  BY DEF PairAccounting
<1>5. valid \subseteq strict /\ valid \subseteq manifest
  OBVIOUS
<1>6. p.collapsed = {} /\ p.unregistered = {}
  <2>1. \A key \in DOMAIN rows : key[1] \in manifest /\ ~(rows[key].n > 1)
    BY DEF InOrder
  <2> QED
    BY <1>4, <2>1
<1> HIDE DEF p, router, other, valid, strict
<1>7. p.valid \cup DOMAIN p.invalid = p.attempted /\ p.valid \subseteq p.strict
  BY <1>1, <1>5
<1>8. /\ p.routerPassed \subseteq p.strictRouter
      /\ p.routerPassed \ p.otherPassed = p.routerOnly /\ p.otherPassed \ p.routerPassed = p.otherOnly
  BY <1>2, <1>3, <1>5
<1>9. Accounts(p, manifest)
  BY <1>1, <1>6, <1>7, <1>8 DEF Accounts
<1> QED
  BY <1>9 DEF p

\* The rows are of the experiment's tasks, also where a report reads them
\* together with the earlier run's.
LEMMA RowsInOrder ==
  ASSUME Shape, Recording, Ledger
  PROVE  /\ InOrder(x.rows, Range(x.exp.tasks))
         /\ InOrder(Pooled(x.exp.earlier, x.rows), Range(x.exp.tasks) \cup x.exp.earlierTasks)
         /\ \A denied : InOrder(HarnessCorrected(x.rows, denied), Range(x.exp.tasks))
<1>1. ASSUME NEW key \in DOMAIN x.rows
      PROVE  key[1] \in Range(x.exp.tasks) /\ x.rows[key].n = 1 /\ "n" \in DOMAIN x.rows[key]
  <2>1. RowIs(x.exp, key, x.rows[key]) /\ x.rows[key].n = 1
    BY <1>1 DEF Ledger, Recording
  <2>2. PICK c \in x.exp.launches, k \in Tags(x.exp) : key = Recorded(c, k)
    BY <2>1 DEF RowIs
  <2>3. key[1] \in Range(x.exp.tasks)
    BY <2>2 DEF Recorded, Tags
  <2> QED
    BY <2>1, <2>3 DEF RowIs
<1>2. \A key \in DOMAIN x.exp.earlier : key[1] \in x.exp.earlierTasks /\ x.exp.earlier[key].n = 1
  BY DirectoriesInOrder DEF Shape
<1>3. InOrder(x.rows, Range(x.exp.tasks))
  BY <1>1 DEF InOrder
<1>4. InOrder(Pooled(x.exp.earlier, x.rows), Range(x.exp.tasks) \cup x.exp.earlierTasks)
  BY <1>1, <1>2 DEF InOrder, Pooled
<1>5. ASSUME NEW denied PROVE InOrder(HarnessCorrected(x.rows, denied), Range(x.exp.tasks))
  <2> DEFINE rows == HarnessCorrected(x.rows, denied)
  <2>1. DOMAIN rows = DOMAIN x.rows
    BY DEF HarnessCorrected
  <2>2. ASSUME NEW key \in DOMAIN x.rows PROVE rows[key].n = x.rows[key].n
    <3>1. rows[key] = IF key \in denied THEN [x.rows[key] EXCEPT !.outcome = "harness"] ELSE x.rows[key]
      BY <2>2 DEF HarnessCorrected
    <3>2. "n" \in DOMAIN x.rows[key]
      BY <1>1, <2>2
    <3> HIDE DEF rows
    <3> QED
      BY <3>1, <3>2
  <2> HIDE DEF rows
  <2>3. InOrder(rows, Range(x.exp.tasks))
    BY <1>1, <2>1, <2>2 DEF InOrder
  <2> QED
    BY <2>3 DEF rows
<1> QED
  BY <1>3, <1>4, <1>5

\* The spend of both arms is all that was spent.
LEMMA ArmsSum ==
  ASSUME Shape, Ledger, x.rows # <<>>
  PROVE  Spent = CallsByArm[RouterArm] + CallsByArm["control"]
<1> DEFINE S == DOMAIN x.calls
           f == [t \in S |-> x.calls[t].usd]
           on(arm) == {t \in S : t[2] = arm}
           part(C) == [t \in C |-> f[t]]
<1>1. S = Tags(x.exp) /\ IsFiniteSet(S) /\ \A t \in S : f[t] \in Int
  <2>1. S = Tags(x.exp) /\ x.exp \in Experiment
    BY DEF Shape
  <2>2. IsFiniteSet(S)
    BY <2>1, DirectoryTyped
  <2>3. \A t \in S : f[t] \in Int
    BY DEF Shape
  <2> QED
    BY <2>1, <2>2, <2>3
<1>2. on(RouterArm) \cup on("control") = S /\ on(RouterArm) \cap on("control") = {}
  BY <1>1 DEF Tags, RouterArm
<1>3. RouterArm \in {t[2] : t \in S} /\ "control" \in {t[2] : t \in S}
  <2>1. PICK key : key \in DOMAIN x.rows
    BY DEF Ledger
  <2>2. PICK k \in Tags(x.exp) : TRUE
    BY <2>1 DEF Ledger, RowIs
  <2>3. <<k[1], RouterArm>> \in S /\ <<k[1], "control">> \in S
    BY <1>1, <2>2 DEF Tags
  <2> QED
    BY <2>3
<1>4. ASSUME NEW arm \in {RouterArm, "control"}
      PROVE  CallsByArm[arm] = Total(part(on(arm)))
  <2>1. CallsByArm[arm] = Total([t \in on(arm) |-> x.calls[t].usd])
    BY <1>3, <1>4 DEF CallsByArm
  <2>2. [t \in on(arm) |-> x.calls[t].usd] = part(on(arm))
    OBVIOUS
  <2> QED
    BY <2>1, <2>2
<1>5. Spent = Total(part(S))
  BY DEF Spent
<1> DEFINE A == on(RouterArm)
           B == on("control")
<1> HIDE DEF S, f
<1>6. A \cup B = S /\ A \cap B = {}
  BY <1>2
<1> HIDE DEF A, B
<1>7. Total(part(S)) = Total(part(A)) + Total(part(B))
  BY <1>1, <1>6, TotalSplits
<1> QED
  BY <1>4, <1>5, <1>7 DEF A, B

\* The rows that are metered cost no more than the calls.
LEMMA RetainedWithin ==
  ASSUME Shape, Ledger, Hands, Paid, x.callsTail = "whole"
  PROVE  RetainedUsd(x.rows) <= Spent
<1> DEFINE S == DOMAIN x.rows
           A == {r \in S : Metered(x.exp, r)}
           f == [key \in S |-> x.rows[key].usd]
           part(C) == [key \in C |-> f[key]]
<1>1. IsFiniteSet(S) /\ A \in SUBSET S /\ \A key \in S : f[key] \in Nat
  <2>1. IsFiniteSet(S) /\ \A key \in S : x.rows[key].usd \in Nat
    BY DEF Ledger, RowIs
  <2>2. A \in SUBSET S
    OBVIOUS
  <2>3. \A key \in S : f[key] \in Nat
    BY <2>1
  <2> QED
    BY <2>1, <2>2, <2>3
<1>2. RetainedUsd(x.rows) = Total(part(A)) /\ RowsCost = Total(part(S))
  <2>1. part(A) = [key \in A |-> x.rows[key].usd] /\ part(S) = [key \in DOMAIN x.rows |-> x.rows[key].usd]
    OBVIOUS
  <2> HIDE DEF part
  <2> QED
    BY <2>1 DEF RetainedUsd, RowsCost
<1>3. CarriedNow \in Nat
  <2>1. CASE x.run = None
    BY <2>1 DEF CarriedNow
  <2>2. CASE x.run # None
    <3> DEFINE W == DOMAIN x.run.w
               g == [j \in W |-> UsdOf(x.run.w[j])]
    <3>1. IsFiniteSet(W) /\ DOMAIN g = W
      BY <2>2, RunFinite DEF Shape
    <3>2. \A j \in W : g[j] \in Nat
      BY <2>2, CarriedTyped DEF Hands
    <3>3. CarriedNow = Total(g)
      BY <2>2 DEF CarriedNow, Carries
    <3> HIDE DEF g, W
    <3> QED
      BY <3>1, <3>2, <3>3, TotalIsNumber
  <2> QED
    BY <2>1, <2>2
<1> HIDE DEF S, A, f
<1>4. Total(part(A)) \in Nat /\ Total(part(S)) \in Nat /\ Total(part(A)) <= Total(part(S))
  BY <1>1, TotalOfPart
<1>5. RowsCost + CarriedNow <= Spent
  BY DEF Paid
<1> HIDE DEF part
<1> QED
  BY <1>2, <1>3, <1>4, <1>5, SpentIsNumber

\* A failure of the route is graded as one.
LEMMA FailuresCount ==
  ASSUME Ledger, NEW key \in DOMAIN x.rows, x.rows[key].failed
  PROVE  (x.exp.runner = "design2" /\ x.rows[key].outcome = "harness") \/ key \in HeldoutReport.graded
<1>1. Blamed(x.exp, x.rows[key].outcome)
  BY DEF Ledger, RowIs
<1>2. CASE x.rows[key].outcome = "fail"
  <2>1. Exclusion(x.rows, key) = None
    BY <1>2 DEF Exclusion
  <2>2. HeldoutReport.graded = DOMAIN x.rows \ {k \in DOMAIN x.rows : Exclusion(x.rows, k) # None}
    BY DEF HeldoutReport
  <2> QED
    BY <2>1, <2>2
<1> QED
  BY <1>1, <1>2 DEF Blamed

\* The rows of a design run are of keys it registered, each asked for once.
LEMMA DesignReads ==
  ASSUME Shape, Ledger, AskedOnce, IsDesign(x.exp)
  PROVE  Readback.unregistered = {} /\ Readback.duplicates = {}
<1> DEFINE label(key) == <<key[1], IF key[2] = "control" THEN DesignLabel ELSE key[2]>>
           registered == {label(key) : key \in Range(x.exp.order)}
<1>1. Readback.unregistered = DOMAIN x.rows \ registered
  BY DEF Readback
<1>2. Readback.duplicates = {t \in DOMAIN x.calls : x.calls[t].n > 1}
  BY DEF Readback
<1>3. ASSUME NEW key \in DOMAIN x.rows PROVE key \in registered
  <2>1. PICK c \in x.exp.launches, k \in Tags(x.exp) : key = Recorded(c, k) /\ Planned(x.exp, k)
    BY <1>3 DEF Ledger, RowIs
  <2>2. DesignLabel = c.label
    <3> DEFINE d == CHOOSE d \in x.exp.launches : TRUE
    <3>1. d \in x.exp.launches
      BY <2>1
    <3>2. d.label = c.label
      <4> HIDE DEF d
      <4> QED
        BY <2>1, <3>1, DirectoriesInOrder DEF Shape
    <3> QED
      BY <3>2 DEF DesignLabel
  <2>3. key = label(k)
    BY <2>1, <2>2 DEF Recorded, Label
  <2> QED
    BY <2>1, <2>3 DEF Planned
<1>4. \A t \in DOMAIN x.calls : ~(x.calls[t].n > 1)
  BY DEF AskedOnce, Shape
<1> HIDE DEF registered
<1> QED
  BY <1>1, <1>2, <1>3, <1>4

\* What anyone finds in order, the rows were made with.
LEMMA OfflineAgrees ==
  ASSUME Shape, Recording, Ledger, Pinned, x.reg # None, VerifyOffline, ~x.reg.amended, NEW key \in DOMAIN x.rows
  PROVE  Changed(x.rows[key].version, x.now,
                 {"code", "plan", "tasks"} \cup (IF x.exp.runner = "heldout" THEN {} ELSE {"product"})) = {}
<1> DEFINE version == x.rows[key].version
           current == x.reg.current
           compared == Compares(x.exp) \ (IF x.exp.pinned THEN {} ELSE {"identity"})
           of == {"code", "plan", "tasks"} \cup (IF x.exp.runner = "heldout" THEN {} ELSE {"product"})
<1>1. DOMAIN version = DOMAIN x.now
  BY DEF Ledger, RowIs, Pinned
<1>2. Changed(version, current, compared) = {}
  BY DEF Recording, Named, Pinned
<1>3. /\ Changed(x.now, current, {"tasks", "plan", "code"}) = {}
      /\ x.exp.pinned => Changed(x.now, current, {"product"}) = {}
  BY DEF VerifyOffline
<1>4. x.exp.runner # "heldout" => x.exp.pinned
  BY DirectoriesInOrder DEF Shape
<1>5. of \subseteq compared
  <2>1. CASE x.exp.runner = "heldout"
    BY <2>1 DEF Compares, HeldoutCompares
  <2>2. CASE x.exp.runner = "supplement"
    BY <2>2 DEF Compares, SupplementCompares
  <2>3. CASE x.exp.runner # "heldout" /\ x.exp.runner # "supplement"
    BY <2>3 DEF Compares, DesignCompares, SupplementCompares
  <2> QED
    BY <2>1, <2>2, <2>3
<1>6. Changed(x.now, current, of) = {}
  BY <1>3, <1>4 DEF Changed
<1> HIDE DEF version, current, compared, of
<1>7. Changed(version, x.now, of) = {}
  <2>1. ASSUME NEW p \in of \cap DOMAIN version PROVE version[p] = x.now[p]
    <3>1. p \in compared \cap DOMAIN version /\ p \in of \cap DOMAIN x.now
      BY <1>1, <1>5, <2>1
    <3>2. version[p] = current[p]
      BY <1>2, <3>1 DEF Changed
    <3>3. x.now[p] = current[p]
      BY <1>6, <3>1 DEF Changed
    <3> QED
      BY <3>2, <3>3
  <2> QED
    BY <2>1 DEF Changed
<1> QED
  BY <1>7 DEF version, of

\* A comparison leaves out no registered task and no failure of a route: each
\* pair is compared or has a reason, the harsher reading keeps what the
\* registered one keeps, the rows cost no more than the calls, and a reader who
\* finds the registration in order has the sources it names.
THEOREM ReportsAreHonest == ExperimentsSpec => []ReportsHonest
<1>1. Shape /\ Observations /\ Reports => ReportsHonest
  <2> SUFFICES ASSUME Shape, Observations, Reports, x.rows # <<>>
               PROVE  ReportsHonest
    BY DEF ReportsHonest
  <2> DEFINE tasks == Range(x.exp.tasks)
             pairs == IF IsDesign(x.exp) THEN {CombinedDesignReport.alone}
                      ELSE LET all == CombinedReport.against IN {all[c].pooled : c \in DOMAIN all}
  <2>1. Recording /\ AskedOnce /\ Ledger /\ Hands /\ Pinned /\ Paid
    BY DEF Observations, Reports
  <2>2. \A p \in pairs : \E manifest : tasks \subseteq manifest /\ Accounts(p, manifest)
    <3>1. CASE IsDesign(x.exp)
      <4> DEFINE mine == IF x.exp.runner = "design2" THEN HarnessCorrected(x.rows, DeniedRows(DesignLabel)) ELSE x.rows
                 p == PairAccounting(mine, DesignLabel, tasks)
      <4>1. InOrder(mine, tasks)
        BY <2>1, RowsInOrder
      <4>2. CombinedDesignReport.alone = p
        BY DEF CombinedDesignReport
      <4> HIDE DEF mine, tasks
      <4>3. Accounts(p, tasks)
        BY <4>1, PairsAccount
      <4>4. pairs = {p}
        BY <3>1, <4>2
      <4> HIDE DEF pairs, p
      <4> QED
        BY <4>3, <4>4
    <3>2. CASE ~IsDesign(x.exp)
      <4> DEFINE manifest == tasks \cup x.exp.earlierTasks
                 rows == Pooled(x.exp.earlier, x.rows)
                 all == CombinedReport.against
      <4>1. InOrder(rows, manifest)
        BY <2>1, RowsInOrder
      <4>2. \A c \in DOMAIN all : all[c].pooled = PairAccounting(rows, c, manifest)
        BY DEF CombinedReport
      <4>3. pairs = {all[c].pooled : c \in DOMAIN all}
        BY <3>2
      <4> HIDE DEF pairs, rows, manifest, all
      <4>4. \A p \in pairs : Accounts(p, manifest)
        BY <4>1, <4>2, <4>3, PairsAccount
      <4> QED
        BY <4>4 DEF manifest
    <3> QED
      BY <3>1, <3>2
  <2>3. \A p \in pairs :
          /\ tasks \subseteq p.attempted
          /\ p.valid \cup DOMAIN p.invalid = p.attempted /\ p.valid \subseteq p.strict
          /\ p.routerPassed \subseteq p.strictRouter /\ p.collapsed = {} /\ p.unregistered = {}
          /\ p.routerPassed \ p.otherPassed = p.routerOnly /\ p.otherPassed \ p.routerPassed = p.otherOnly
    <3> HIDE DEF pairs, tasks
    <3> QED
      BY <2>2 DEF Accounts
  <2>4. \A key \in DOMAIN x.rows : x.rows[key].failed =>
          (x.exp.runner = "design2" /\ x.rows[key].outcome = "harness") \/ key \in HeldoutReport.graded
    BY <2>1, FailuresCount
  <2>5. x.callsTail = "whole" => RetainedUsd(x.rows) <= Spent
    BY <2>1, RetainedWithin
  <2>6. Spent = CallsByArm[RouterArm] + CallsByArm["control"]
    BY <2>1, ArmsSum
  <2>7. IsDesign(x.exp) => Readback.unregistered = {} /\ (x.callsTail = "whole" => Readback.duplicates = {})
    BY <2>1, DesignReads
  <2>8. (x.reg # None /\ VerifyOffline /\ ~x.reg.amended) =>
          \A key \in DOMAIN x.rows :
            Changed(x.rows[key].version, x.now,
                    {"code", "plan", "tasks"} \cup (IF x.exp.runner = "heldout" THEN {} ELSE {"product"})) = {}
    BY <2>1, OfflineAgrees
  <2> QED
    BY <2>3, <2>4, <2>5, <2>6, <2>7, <2>8, Zenon DEF ReportsHonest
<1> QED
  BY <1>1, ReportsHold, PTL
=============================================================================
