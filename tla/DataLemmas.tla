------------------------------ MODULE DataLemmas ------------------------------
(* Lemmas about the data of the models: least elements, sums, sequences. The
   induction theorems of the library take an operator as a parameter; here a
   claim is proved for all data by looking at a least counterexample, and a
   recursive function is shown to exist before its equation is used. The sums
   are those of MapThenSumSet and FoldFunction.                                *)
EXTENDS Integers, FiniteSets, FiniteSetsExt, FiniteSetTheorems, SequenceTheorems,
        SequencesExt, WellFoundedInduction, TLAPS

\* Every set of natural numbers that is not empty has a least element.
LEMMA LeastNat == ASSUME NEW S \in SUBSET Nat, S # {} PROVE \E m \in S : \A n \in S : m <= n
<1> DEFINE R == {p \in Nat \X Nat : p[1] < p[2]}
<1>1. IsWellFoundedOn(R, Nat)
  <2>1. IsWellFoundedOn(OpToRel(<, Nat), Nat)
    BY NatLessThanWellFounded
  <2>2. R \subseteq OpToRel(<, Nat)
    BY DEF OpToRel
  <2> HIDE DEF R
  <2> QED
    BY <2>1, <2>2, IsWellFoundedOnSubrelation
<1>2. PICK m \in S : \A n \in S : <<n, m>> \notin R
  <2> HIDE DEF R
  <2> QED
    BY <1>1, WFMin
<1>3. ASSUME NEW n \in S PROVE m <= n
  <2>1. m \in Nat /\ n \in Nat /\ <<n, m>> \notin R
    BY <1>2
  <2> QED
    BY <2>1
<1> QED
  BY <1>3

\* And every bounded one has a greatest element.
LEMMA GreatestNat ==
    ASSUME NEW S \in SUBSET Nat, S # {}, NEW b \in Nat, \A n \in S : n <= b
    PROVE  \E m \in S : \A n \in S : n <= m
<1> DEFINE D == {b - n : n \in S}
<1>1. D \in SUBSET Nat /\ D # {}
  <2>1. \A n \in S : b - n \in Nat
    OBVIOUS
  <2> QED
    BY <2>1
<1>2. PICK d \in D : \A e \in D : d <= e
  <2> HIDE DEF D
  <2> QED
    BY <1>1, LeastNat
<1>3. PICK m \in S : d = b - m
  OBVIOUS
<1>4. ASSUME NEW n \in S PROVE n <= m
  <2>1. b - n \in D
    OBVIOUS
  <2>2. b - m <= b - n /\ m \in Nat /\ n \in Nat
    BY <1>2, <1>3, <2>1
  <2> QED
    BY <2>2
<1> QED
  BY <1>4

\* Every set of subsets of a finite set has a member without a smaller one in it.
LEMMA SmallestSubset ==
    ASSUME NEW S, IsFiniteSet(S), NEW T \in SUBSET SUBSET S, T # {}
    PROVE  \E X \in T : \A Y \in T : Y \subseteq X => Y = X
<1> DEFINE R == StrictSubsetOrdering(S)
           U == SUBSET S
<1>1. IsWellFoundedOn(R, U) /\ T \subseteq U
  BY FS_StrictSubsetOrderingWellFounded, FS_FiniteSubsetsOfFinite
<1>2. PICK X \in T : \A Y \in T : <<Y, X>> \notin R
  <2> HIDE DEF R, U
  <2> QED
    BY <1>1, WFMin
<1>3. ASSUME NEW Y \in T, Y \subseteq X, Y # X PROVE FALSE
  <2>1. <<Y, X>> \in R
    BY <1>3 DEF StrictSubsetOrdering
  <2> QED
    BY <1>2, <2>1
<1> QED
  BY <1>3

----------------------------------------------------------------------------
(* Recursion over an interval, the step given as a function.                 *)

IsIterate(g, n, base, F) == g = [k \in 0..n |-> IF k = 0 THEN base ELSE F[k][g[k - 1]]]

\* It exists.
LEMMA IterateExists ==
    ASSUME NEW n \in Nat, NEW base, NEW F
    PROVE  \E g : IsIterate(g, n, base, F)
<1> DEFINE Bad == {m \in Nat : ~\E g : IsIterate(g, m, base, F)}
<1>1. SUFFICES ASSUME Bad # {} PROVE FALSE
  OBVIOUS
<1>2. PICK m \in Bad : \A k \in Bad : m <= k
  <2>1. Bad \in SUBSET Nat
    OBVIOUS
  <2> HIDE DEF Bad
  <2> QED
    BY <1>1, <2>1, LeastNat
<1>3. m # 0
  <2> DEFINE g == [k \in 0..0 |-> base]
  <2>1. \A k \in 0..0 : g[k] = IF k = 0 THEN base ELSE F[k][g[k - 1]]
    OBVIOUS
  <2>2. IsIterate(g, 0, base, F)
    BY <2>1 DEF IsIterate
  <2> QED
    BY <2>2
<1>4. PICK g : IsIterate(g, m - 1, base, F)
  BY <1>2, <1>3
<1> DEFINE h == [k \in 0..m |-> IF k = m THEN F[m][g[m - 1]] ELSE g[k]]
<1>5. ASSUME NEW k \in 0..m PROVE h[k] = IF k = 0 THEN base ELSE F[k][h[k - 1]]
  <2>1. CASE k < m
    <3>1. g[k] = IF k = 0 THEN base ELSE F[k][g[k - 1]]
      BY <1>3, <1>4, <2>1 DEF IsIterate
    <3>2. h[k] = g[k] /\ (k # 0 => h[k - 1] = g[k - 1])
      BY <2>1
    <3> QED
      BY <3>1, <3>2
  <2>2. CASE k = m
    BY <1>3, <2>2
  <2> QED
    BY <2>1, <2>2
<1>6. IsIterate(h, m, base, F)
  <2>1. h = [k \in 0..m |-> h[k]]
    OBVIOUS
  <2> HIDE DEF h
  <2> QED
    BY <1>5, <2>1 DEF IsIterate
<1> QED
  BY <1>6

----------------------------------------------------------------------------
(* Sums of the values of w over a finite set.                                *)

SumOn(w, S) == MapThenSumSet(LAMBDA x : w[x], S)

Pick(s) == CHOOSE x \in s : TRUE

IsSum(g, w, S) ==
    g = [s \in SUBSET S |-> IF s = {} THEN 0 ELSE w[Pick(s)] + g[s \ {Pick(s)}]]

\* An element is picked from the set.
LEMMA PickIn == ASSUME NEW s, s # {} PROVE Pick(s) \in s
BY DEF Pick

\* The equation at one subset.
LEMMA SumAt ==
    ASSUME NEW w, NEW S, NEW g, IsSum(g, w, S), NEW s \in SUBSET S
    PROVE  g[s] = IF s = {} THEN 0 ELSE w[Pick(s)] + g[s \ {Pick(s)}]
BY DEF IsSum

\* The sum is the value of one solution of the equation, if there is one.
LEMMA SumUnfold ==
    ASSUME NEW w, NEW S, NEW g, IsSum(g, w, S)
    PROVE  \E h : IsSum(h, w, S) /\ SumOn(w, S) = h[S]
<1> DEFINE h == CHOOSE h : IsSum(h, w, S)
<1>1. IsSum(h, w, S)
  OBVIOUS
<1>2. SumOn(w, S) = h[S]
  BY DEF SumOn, MapThenSumSet, MapThenFoldSet, IsSum, Pick
<1> QED
  BY <1>1, <1>2

\* Two solutions agree.
LEMMA SumUnique ==
    ASSUME NEW w, NEW S, IsFiniteSet(S), NEW T \in SUBSET S,
           NEW g, IsSum(g, w, S), NEW h, IsSum(h, w, T)
    PROVE  g[T] = h[T]
<1> DEFINE Bad == {s \in SUBSET T : g[s] # h[s]}
<1>1. SUFFICES ASSUME Bad # {} PROVE FALSE
  OBVIOUS
<1>2. IsFiniteSet(T)
  BY FS_Subset
<1>3. PICK s \in Bad : \A r \in Bad : r \subseteq s => r = s
  <2>1. Bad \in SUBSET SUBSET T
    OBVIOUS
  <2> HIDE DEF Bad
  <2> QED
    BY <1>1, <1>2, <2>1, SmallestSubset
<1>4. s \in SUBSET S /\ s \in SUBSET T /\ g[s] # h[s]
  OBVIOUS
<1>5. s # {}
  <2>1. ASSUME s = {} PROVE g[s] = 0 /\ h[s] = 0
    BY <1>4, <2>1, SumAt
  <2> QED
    BY <1>4, <2>1
<1>6. g[s \ {Pick(s)}] = h[s \ {Pick(s)}]
  BY <1>3, <1>5, PickIn
<1> QED
  BY <1>4, <1>5, <1>6, SumAt

\* There is a solution.
LEMMA SumExists ==
    ASSUME NEW w, NEW S, IsFiniteSet(S)
    PROVE  \E g : IsSum(g, w, S)
<1> DEFINE Bad == {s \in SUBSET S : ~\E g : IsSum(g, w, s)}
<1>1. SUFFICES ASSUME Bad # {} PROVE FALSE
  OBVIOUS
<1>2. PICK B \in Bad : \A r \in Bad : r \subseteq B => r = B
  <2>1. Bad \in SUBSET SUBSET S
    OBVIOUS
  <2> HIDE DEF Bad
  <2> QED
    BY <1>1, <2>1, SmallestSubset
<1>3. \A r \in SUBSET B : r # B => \E g : IsSum(g, w, r)
  BY <1>2
<1>4. ASSUME NEW r \in SUBSET B, r # B
      PROVE  SumOn(w, r) = IF r = {} THEN 0 ELSE w[Pick(r)] + SumOn(w, r \ {Pick(r)})
  <2>1. PICK h : IsSum(h, w, r) /\ SumOn(w, r) = h[r]
    BY <1>3, <1>4, SumUnfold
  <2>2. CASE r = {}
    BY <2>1, <2>2, SumAt
  <2>3. CASE r # {}
    <3> DEFINE q == r \ {Pick(r)}
    <3>1. q \in SUBSET B /\ q # B /\ q \in SUBSET r
      BY <2>3, PickIn
    <3>2. PICK k : IsSum(k, w, q) /\ SumOn(w, q) = k[q]
      BY <1>3, <3>1, SumUnfold
    <3>3. IsFiniteSet(r)
      BY FS_Subset
    <3>4. h[q] = k[q]
      BY <2>1, <3>1, <3>2, <3>3, SumUnique
    <3> QED
      BY <2>1, <2>3, <3>2, <3>4, SumAt
  <2> QED
    BY <2>2, <2>3
<1> DEFINE F(r) == IF r = {} THEN 0 ELSE w[Pick(r)] + SumOn(w, r \ {Pick(r)})
           g == [r \in SUBSET B |-> F(r)]
<1>5. ASSUME NEW r \in SUBSET B, r # {} PROVE g[r \ {Pick(r)}] = SumOn(w, r \ {Pick(r)})
  <2>1. r \ {Pick(r)} \in SUBSET B /\ r \ {Pick(r)} # B
    BY <1>5, PickIn
  <2>2. g[r \ {Pick(r)}] = F(r \ {Pick(r)})
    BY <2>1
  <2> QED
    BY <1>4, <2>1, <2>2
<1>6. \A r \in SUBSET B : g[r] = IF r = {} THEN 0 ELSE w[Pick(r)] + g[r \ {Pick(r)}]
  BY <1>5
<1>7. IsSum(g, w, B)
  BY <1>6 DEF IsSum
<1> QED
  BY <1>2, <1>7

\* The sum satisfies the equation.
LEMMA SumEquation ==
    ASSUME NEW w, NEW S, IsFiniteSet(S)
    PROVE  SumOn(w, S) = IF S = {} THEN 0 ELSE w[Pick(S)] + SumOn(w, S \ {Pick(S)})
<1>1. PICK h : IsSum(h, w, S) /\ SumOn(w, S) = h[S]
  BY SumExists, SumUnfold
<1>2. CASE S = {}
  BY <1>1, <1>2, SumAt
<1>3. CASE S # {}
  <2> DEFINE q == S \ {Pick(S)}
  <2>1. q \in SUBSET S /\ IsFiniteSet(q)
    BY FS_Subset
  <2>2. PICK k : IsSum(k, w, q) /\ SumOn(w, q) = k[q]
    BY <2>1, SumExists, SumUnfold
  <2>3. h[q] = k[q]
    BY <1>1, <2>1, <2>2, SumUnique
  <2> QED
    BY <1>1, <1>3, <2>2, <2>3, SumAt
<1> QED
  BY <1>2, <1>3

\* Nothing sums up to zero.
LEMMA SumEmpty == \A w : SumOn(w, {}) = 0
BY SumEquation, FS_EmptySet

\* A sum of natural numbers is one.
LEMMA SumNat ==
    ASSUME NEW w, NEW S, IsFiniteSet(S), \A x \in S : w[x] \in Nat
    PROVE  SumOn(w, S) \in Nat
<1> DEFINE Bad == {s \in SUBSET S : SumOn(w, s) \notin Nat}
<1>1. SUFFICES ASSUME Bad # {} PROVE FALSE
  OBVIOUS
<1>2. PICK B \in Bad : \A r \in Bad : r \subseteq B => r = B
  <2>1. Bad \in SUBSET SUBSET S
    OBVIOUS
  <2> HIDE DEF Bad
  <2> QED
    BY <1>1, <2>1, SmallestSubset
<1>3. B # {} /\ IsFiniteSet(B) /\ B \subseteq S
  <2>1. SumOn(w, B) \notin Nat /\ SumOn(w, {}) \in Nat /\ B \in SUBSET S
    BY SumEmpty
  <2> QED
    BY <2>1, FS_Subset
<1>4. Pick(B) \in B /\ SumOn(w, B \ {Pick(B)}) \in Nat
  BY <1>2, <1>3, PickIn
<1>5. SumOn(w, B) \in Nat
  BY <1>3, <1>4, SumEquation
<1> QED
  BY <1>2, <1>5

\* Any element can be taken out.
LEMMA SumRemove ==
    ASSUME NEW w, NEW S, IsFiniteSet(S), \A x \in S : w[x] \in Nat, NEW z \in S
    PROVE  SumOn(w, S) = w[z] + SumOn(w, S \ {z})
<1> DEFINE Bad == {s \in SUBSET S : \E x \in s : SumOn(w, s) # w[x] + SumOn(w, s \ {x})}
<1>1. SUFFICES ASSUME Bad # {} PROVE FALSE
  <2>1. S \notin Bad
    BY <1>1
  <2> QED
    BY <2>1
<1>2. PICK B \in Bad : \A r \in Bad : r \subseteq B => r = B
  <2>1. Bad \in SUBSET SUBSET S
    OBVIOUS
  <2> HIDE DEF Bad
  <2> QED
    BY <1>1, <2>1, SmallestSubset
<1>3. PICK x \in B : SumOn(w, B) # w[x] + SumOn(w, B \ {x})
  BY <1>2
<1> DEFINE p == Pick(B)
           C == B \ {x}
           D == (B \ {x}) \ {p}
<1>4. /\ B \subseteq S /\ IsFiniteSet(B) /\ IsFiniteSet(C) /\ IsFiniteSet(D)
      /\ \A s \in SUBSET B : s # B => \A y \in s : SumOn(w, s) = w[y] + SumOn(w, s \ {y})
  BY <1>2, FS_Subset
<1>5. p \in B /\ SumOn(w, B) = w[p] + SumOn(w, B \ {p})
  BY <1>4, SumEquation, PickIn
<1>6. p # x
  BY <1>3, <1>5
<1>7. SumOn(w, B \ {p}) = w[x] + SumOn(w, D)
  <2>1. (B \ {p}) \ {x} = D
    OBVIOUS
  <2> QED
    BY <1>4, <1>5, <1>6, <2>1
<1>8. SumOn(w, C) = w[p] + SumOn(w, D)
  BY <1>4, <1>5, <1>6
<1>9. w[p] \in Nat /\ w[x] \in Nat /\ SumOn(w, D) \in Nat
  <2>1. \A y \in D : w[y] \in Nat
    BY <1>4
  <2> HIDE DEF D
  <2> QED
    BY <1>3, <1>4, <1>5, <2>1, SumNat
<1> QED
  BY <1>3, <1>5, <1>7, <1>8, <1>9

\* Any element can be added.
LEMMA SumAdd ==
    ASSUME NEW w, NEW S, IsFiniteSet(S), \A x \in S : w[x] \in Nat,
           NEW z, z \notin S, w[z] \in Nat
    PROVE  IsFiniteSet(S \cup {z}) /\ SumOn(w, S \cup {z}) = w[z] + SumOn(w, S)
<1> DEFINE T == S \cup {z}
<1>1. IsFiniteSet(T) /\ (\A x \in T : w[x] \in Nat) /\ z \in T /\ T \ {z} = S
  BY FS_AddElement
<1> HIDE DEF T
<1>2. SumOn(w, T) = w[z] + SumOn(w, S)
  BY <1>1, SumRemove
<1> QED
  BY <1>1, <1>2 DEF T

\* A sum over more elements with values that are not smaller is not smaller.
LEMMA SumMonotone ==
    ASSUME NEW w, NEW v, NEW S, NEW T, IsFiniteSet(T), S \subseteq T,
           \A x \in S : w[x] \in Nat /\ w[x] <= v[x], \A x \in T : v[x] \in Nat
    PROVE  SumOn(w, S) <= SumOn(v, T)
<1> DEFINE Bad == {t \in SUBSET T : ~(SumOn(w, S \cap t) <= SumOn(v, t))}
<1>1. SUFFICES ASSUME Bad # {} PROVE FALSE
  <2>1. T \notin Bad /\ S \cap T = S
    BY <1>1
  <2> QED
    BY <2>1
<1>2. PICK B \in Bad : \A r \in Bad : r \subseteq B => r = B
  <2>1. Bad \in SUBSET SUBSET T
    OBVIOUS
  <2> HIDE DEF Bad
  <2> QED
    BY <1>1, <2>1, SmallestSubset
<1>3. B \subseteq T /\ ~(SumOn(w, S \cap B) <= SumOn(v, B))
  BY <1>2
<1>4. B # {}
  <2>1. SumOn(w, {}) <= SumOn(v, {})
    BY SumEmpty
  <2>2. B = {} => S \cap B = {}
    OBVIOUS
  <2> HIDE DEF Bad
  <2> QED
    BY <1>3, <2>1, <2>2
<1>5. PICK z \in B : TRUE
  BY <1>4
<1> DEFINE C == B \ {z}
           X == S \cap B
           Y == S \cap C
<1>6. /\ IsFiniteSet(B) /\ IsFiniteSet(C) /\ IsFiniteSet(X) /\ IsFiniteSet(Y)
      /\ C \subseteq T /\ X \subseteq S /\ Y \subseteq S
      /\ SumOn(w, Y) <= SumOn(v, C)
  BY <1>2, <1>3, <1>5, FS_Subset
<1>7. SumOn(v, B) = v[z] + SumOn(v, C) /\ SumOn(v, C) \in Nat /\ v[z] \in Nat
  <2>1. (\A x \in B : v[x] \in Nat) /\ (\A x \in C : v[x] \in Nat) /\ z \in B
    BY <1>3, <1>6
  <2>2. SumOn(v, B) = v[z] + SumOn(v, C)
    BY <1>6, <2>1, SumRemove
  <2>3. SumOn(v, C) \in Nat
    <3> HIDE DEF C
    <3> QED
      BY <1>6, <2>1, SumNat
  <2> QED
    BY <2>1, <2>2, <2>3
<1>8. SumOn(w, X) \in Nat /\ SumOn(w, Y) \in Nat
  <2> HIDE DEF X, Y
  <2> QED
    BY <1>6, SumNat
<1>9. CASE z \in S
  <2>1. z \in X /\ X \ {z} = Y /\ w[z] \in Nat /\ w[z] <= v[z]
    BY <1>5, <1>9
  <2>2. SumOn(w, X) = w[z] + SumOn(w, Y)
    <3> HIDE DEF X, Y
    <3> QED
      BY <1>6, <2>1, SumRemove
  <2> QED
    BY <1>3, <1>6, <1>7, <1>8, <2>1, <2>2
<1>10. CASE z \notin S
  <2>1. X = Y
    BY <1>10
  <2> HIDE DEF X, Y, C, Bad
  <2>2. ~(SumOn(w, X) <= SumOn(v, B))
    BY <1>3 DEF X
  <2> QED
    BY <1>6, <1>7, <1>8, <2>1, <2>2
<1> QED
  BY <1>9, <1>10

\* Only the values matter.
LEMMA SumSame ==
    ASSUME NEW w, NEW v, NEW S, IsFiniteSet(S), \A x \in S : w[x] \in Nat /\ w[x] = v[x]
    PROVE  SumOn(w, S) = SumOn(v, S)
<1>1. SumOn(w, S) \in Nat /\ SumOn(v, S) \in Nat
  BY SumNat
<1>2. SumOn(w, S) <= SumOn(v, S) /\ SumOn(v, S) <= SumOn(w, S)
  BY SumMonotone
<1> QED
  BY <1>1, <1>2

\* Renaming the elements one to one changes no sum.
LEMMA SumRenamed ==
    ASSUME NEW w, NEW v, NEW S, NEW T, IsFiniteSet(S), NEW f \in [S -> T],
           \A x, y \in S : f[x] = f[y] => x = y, \A y \in T : \E x \in S : f[x] = y,
           \A x \in S : w[x] \in Nat /\ w[x] = v[f[x]]
    PROVE  SumOn(w, S) = SumOn(v, T)
<1> DEFINE Image(s) == {f[x] : x \in s}
           Bad == {s \in SUBSET S : SumOn(w, s) # SumOn(v, Image(s))}
<1>1. SUFFICES ASSUME Bad # {} PROVE FALSE
  <2>1. Image(S) = T
    OBVIOUS
  <2>2. S \notin Bad
    BY <1>1
  <2> QED
    BY <2>1, <2>2
<1>2. PICK B \in Bad : \A r \in Bad : r \subseteq B => r = B
  <2>1. Bad \in SUBSET SUBSET S
    OBVIOUS
  <2> HIDE DEF Bad
  <2> QED
    BY <1>1, <2>1, SmallestSubset
<1>3. B \subseteq S /\ IsFiniteSet(B) /\ SumOn(w, B) # SumOn(v, Image(B))
  <2>1. B \subseteq S /\ SumOn(w, B) # SumOn(v, Image(B))
    BY <1>2
  <2> QED
    BY <2>1, FS_Subset
<1>4. B # {}
  <2>1. B = {} => Image(B) = {}
    OBVIOUS
  <2> HIDE DEF Image
  <2> QED
    BY <1>3, <2>1, SumEmpty
<1>5. PICK z \in B : TRUE
  BY <1>4
<1> DEFINE C == B \ {z}
<1>6. SumOn(w, C) = SumOn(v, Image(C))
  <2>1. C \in SUBSET S /\ C \notin Bad
    BY <1>2, <1>3, <1>5
  <2> QED
    BY <2>1
<1>7. SumOn(w, B) = w[z] + SumOn(w, C)
  BY <1>3, <1>5, SumRemove
<1>8. SumOn(v, Image(B)) = v[f[z]] + SumOn(v, Image(C))
  <2>1. f[z] \in Image(B) /\ Image(B) \ {f[z]} = Image(C)
    BY <1>3, <1>5
  <2>2. \A y \in Image(B) : v[y] \in Nat
    BY <1>3
  <2>3. IsFiniteSet(Image(B))
    <3>1. IsFiniteSet(T)
      <4>1. f \in Surjection(S, T)
        BY DEF Surjection
      <4> QED
        BY <4>1, FS_Surjection
    <3>2. Image(B) \subseteq T
      BY <1>3
    <3> QED
      BY <3>1, <3>2, FS_Subset
  <2> DEFINE X == Image(B)
             Y == Image(C)
  <2>4. SumOn(v, X) = v[f[z]] + SumOn(v, X \ {f[z]})
    <3>1. IsFiniteSet(X) /\ (\A y \in X : v[y] \in Nat) /\ f[z] \in X
      BY <2>1, <2>2, <2>3
    <3> HIDE DEF X
    <3> QED
      BY <3>1, SumRemove
  <2> HIDE DEF Image
  <2> QED
    BY <2>1, <2>4
<1> QED
  BY <1>3, <1>5, <1>6, <1>7, <1>8

\* The sum over two sets without a common element.
LEMMA SumUnion ==
    ASSUME NEW w, NEW S, NEW T, IsFiniteSet(S), IsFiniteSet(T), S \cap T = {},
           \A x \in S \cup T : w[x] \in Nat
    PROVE  SumOn(w, S \cup T) = SumOn(w, S) + SumOn(w, T)
<1> DEFINE Bad == {s \in SUBSET S : SumOn(w, s \cup T) # SumOn(w, s) + SumOn(w, T)}
<1>1. SUFFICES ASSUME Bad # {} PROVE FALSE
  <2>1. S \notin Bad
    BY <1>1
  <2> QED
    BY <2>1
<1>2. PICK B \in Bad : \A r \in Bad : r \subseteq B => r = B
  <2>1. Bad \in SUBSET SUBSET S
    OBVIOUS
  <2> HIDE DEF Bad
  <2> QED
    BY <1>1, <2>1, SmallestSubset
<1>3. /\ B \subseteq S /\ IsFiniteSet(B) /\ IsFiniteSet(B \cup T)
      /\ SumOn(w, B \cup T) # SumOn(w, B) + SumOn(w, T)
  <2>1. B \subseteq S /\ SumOn(w, B \cup T) # SumOn(w, B) + SumOn(w, T)
    BY <1>2
  <2> QED
    BY <2>1, FS_Subset, FS_Union
<1>4. SumOn(w, T) \in Nat
  BY SumNat
<1>5. B # {}
  <2>1. B = {} => B \cup T = T
    OBVIOUS
  <2> QED
    BY <1>3, <1>4, <2>1, SumEmpty
<1>6. PICK z \in B : TRUE
  BY <1>5
<1> DEFINE C == B \ {z}
<1>7. SumOn(w, C \cup T) = SumOn(w, C) + SumOn(w, T)
  <2>1. C \in SUBSET S /\ C \notin Bad
    BY <1>2, <1>3, <1>6
  <2> QED
    BY <2>1
<1>8. SumOn(w, B) = w[z] + SumOn(w, C)
  BY <1>3, <1>6, SumRemove
<1>9. SumOn(w, B \cup T) = w[z] + SumOn(w, C \cup T)
  <2>1. (B \cup T) \ {z} = C \cup T /\ z \in B \cup T
    BY <1>3, <1>6
  <2>2. \A x \in B \cup T : w[x] \in Nat
    BY <1>3
  <2> HIDE DEF C
  <2> QED
    BY <1>3, <2>1, <2>2, SumRemove
<1>10. SumOn(w, C) \in Nat /\ w[z] \in Nat
  <2>1. IsFiniteSet(C) /\ \A x \in C : w[x] \in Nat
    BY <1>3, FS_Subset
  <2> HIDE DEF C
  <2> QED
    BY <1>3, <1>6, <2>1, SumNat
<1> QED
  BY <1>3, <1>4, <1>7, <1>8, <1>9, <1>10

-----------------------------------------------------------------------------
(* Induction over sequences: a set that holds the empty sequence and with a
   sequence each that is one element longer holds them all.                    *)

\* Otherwise there were a shortest one outside the set.
LEMMA SeqInduction ==
    ASSUME NEW T, NEW P \in SUBSET Seq(T), <<>> \in P,
           \A s \in P, x \in T : Append(s, x) \in P
    PROVE  Seq(T) \subseteq P
<1> DEFINE Bad == {n \in Nat : \E s \in Seq(T) : Len(s) = n /\ s \notin P}
<1>1. SUFFICES ASSUME NEW s \in Seq(T), s \notin P PROVE FALSE
  OBVIOUS
<1>2. Len(s) \in Bad
  BY <1>1
<1>3. PICK n \in Bad : \A m \in Bad : n <= m
  <2>1. Bad \in SUBSET Nat /\ Bad # {}
    BY <1>2
  <2> HIDE DEF Bad
  <2> QED
    BY <2>1, LeastNat
<1>4. PICK t \in Seq(T) : Len(t) = n /\ t \notin P
  BY <1>3
<1>5. t # <<>>
  BY <1>4
<1> DEFINE front == SubSeq(t, 1, n - 1)
<1>6. n \in Nat /\ n # 0 /\ n - 1 \in Nat /\ ~(n <= n - 1) /\ n \in 1..n
  BY <1>3, <1>4, <1>5
<1>7. front \in Seq(T) /\ Len(front) = n - 1 /\ t[n] \in T /\ t = Append(front, t[n])
  <2>1. Len(t) = n /\ \A k \in 1..n : t[k] \in T
    BY <1>4
  <2>2. front = [k \in 1..(n - 1) |-> t[k]]
    BY <1>4, <1>6
  <2>3. front \in Seq(T) /\ Len(front) = n - 1 /\ t[n] \in T
    <3>1. \A k \in 1..(n - 1) : t[k] \in T
      BY <1>6, <2>1
    <3> HIDE DEF front
    <3> QED
      BY <1>6, <2>1, <2>2, <3>1
  <2>4. \A k \in 1..n : t[k] = Append(front, t[n])[k]
    <3> SUFFICES ASSUME NEW k \in 1..n PROVE t[k] = Append(front, t[n])[k]
      OBVIOUS
    <3>1. CASE k = n
      <4> HIDE DEF front
      <4> QED
        BY <1>6, <2>3, <3>1
    <3>2. CASE k # n
      <4>1. k \in 1..(n - 1)
        BY <1>6, <3>2
      <4>2. front[k] = t[k]
        BY <2>2, <4>1
      <4> HIDE DEF front
      <4> QED
        BY <2>3, <4>1, <4>2
    <3> QED
      BY <3>1, <3>2
  <2>5. Append(front, t[n]) \in Seq(T) /\ Len(Append(front, t[n])) = n
    <3> HIDE DEF front
    <3> QED
      BY <1>6, <2>3
  <2>6. t = Append(front, t[n])
    <3> DEFINE u == Append(front, t[n])
    <3>1. u \in Seq(T) /\ Len(u) = Len(t) /\ \A k \in 1..Len(t) : t[k] = u[k]
      BY <2>1, <2>4, <2>5
    <3>2. t = u
      <4> HIDE DEF u
      <4> QED
        BY <3>1, SeqEqual
    <3> QED
      BY <3>2
  <2> QED
    BY <2>3, <2>6
<1>8. front \in P
  <2>1. n - 1 \notin Bad
    BY <1>3, <1>6
  <2> HIDE DEF front
  <2> QED
    BY <1>6, <1>7, <2>1
<1> QED
  BY <1>4, <1>7, <1>8

\* What is appended to a concatenation is appended to its second part.
LEMMA AppendToConcat ==
    ASSUME NEW T, NEW s \in Seq(T), NEW t \in Seq(T), NEW x \in T
    PROVE  /\ s \o <<>> = s /\ <<>> \o s = s /\ s \o t \in Seq(T) /\ Len(s \o t) = Len(s) + Len(t)
           /\ s \o Append(t, x) = Append(s \o t, x)
           /\ s \o <<x>> = Append(s, x)
  OBVIOUS

\* Concatenation is associative.
LEMMA ConcatThree ==
    ASSUME NEW T, NEW r \in Seq(T), NEW s \in Seq(T), NEW t \in Seq(T)
    PROVE  (r \o s) \o t = r \o (s \o t)
  OBVIOUS

----------------------------------------------------------------------------
(* Parts and elements of sequences.                                          *)

\* The newest elements of a sequence, in order, are its end.
LEMMA ReversedPrefix ==
    ASSUME NEW T, NEW s \in Seq(T), NEW n \in 0..Len(s)
    PROVE  /\ Reverse(SubSeq(Reverse(s), 1, n)) = SubSeq(s, Len(s) - n + 1, Len(s))
           /\ s = SubSeq(s, 1, Len(s) - n) \o SubSeq(s, Len(s) - n + 1, Len(s))
           /\ SubSeq(s, 1, Len(s) - n) \in Seq(T) /\ SubSeq(s, Len(s) - n + 1, Len(s)) \in Seq(T)
           /\ Len(SubSeq(s, Len(s) - n + 1, Len(s))) = n
<1> DEFINE l == Len(s)
           r == Reverse(s)
           p == SubSeq(r, 1, n)
           t == SubSeq(s, l - n + 1, l)
           u == SubSeq(s, 1, l - n)
<1>1. l \in Nat /\ n \in Nat /\ n <= l /\ l - n \in Nat /\ \A k \in 1..l : s[k] \in T /\ l - k + 1 \in 1..l
  OBVIOUS
<1>2. r = [k \in 1..l |-> s[l - k + 1]]
  BY DEF Reverse
<1>3. r \in Seq(T) /\ Len(r) = l /\ \A k \in 1..l : r[k] = s[l - k + 1]
  <2> HIDE DEF l, r
  <2> QED
    BY <1>1, <1>2
<1>4. p \in Seq(T) /\ Len(p) = n /\ \A k \in 1..n : p[k] = r[k]
  <2> HIDE DEF r, l
  <2> QED
    BY <1>1, <1>3
<1>5. Reverse(p) = [k \in 1..n |-> s[l - n + k]]
  <2>1. Reverse(p) = [k \in 1..n |-> p[n - k + 1]]
    BY <1>4 DEF Reverse
  <2>2. ASSUME NEW k \in 1..n PROVE p[n - k + 1] = s[l - n + k]
    <3>1. n - k + 1 \in 1..n /\ n - k + 1 \in 1..l /\ l - (n - k + 1) + 1 = l - n + k
      BY <1>1
    <3>2. p[n - k + 1] = r[n - k + 1] /\ r[n - k + 1] = s[l - (n - k + 1) + 1]
      <4> HIDE DEF p, r, l
      <4> QED
        BY <1>3, <1>4, <3>1
    <3> HIDE DEF p, r, l
    <3> QED
      BY <3>1, <3>2
  <2> HIDE DEF p, l
  <2> QED
    BY <2>1, <2>2
<1>6. t = [k \in 1..n |-> s[l - n + k]] /\ t \in Seq(T) /\ Len(t) = n
  <2>1. t = [k \in 1..(l - (l - n + 1) + 1) |-> s[l - n + 1 + k - 1]]
    BY <1>1
  <2>2. l - (l - n + 1) + 1 = n /\ \A k \in 1..n : l - n + 1 + k - 1 = l - n + k /\ l - n + k \in 1..l
    BY <1>1
  <2> HIDE DEF t, l
  <2>3. t = [k \in 1..n |-> s[l - n + k]]
    BY <2>1, <2>2
  <2>4. \A k \in 1..n : s[l - n + k] \in T
    BY <1>1, <2>2
  <2> QED
    BY <1>1, <2>3, <2>4
<1>7. u \in Seq(T) /\ Len(u) = l - n /\ \A k \in 1..(l - n) : u[k] = s[k]
  BY <1>1
<1>8. s = u \o t
  <2> HIDE DEF u, t, l
  <2>1. s \in Seq(T) /\ u \o t \in Seq(T) /\ Len(u \o t) = l /\ Len(s) = l
    BY <1>1, <1>6, <1>7 DEF l
  <2>2. \A k \in 1..l : (u \o t)[k] = IF k <= l - n THEN u[k] ELSE t[k - (l - n)]
    <3>1. \A k \in 1..(Len(u) + Len(t)) : (u \o t)[k] = IF k <= Len(u) THEN u[k] ELSE t[k - Len(u)]
      BY <1>6, <1>7, ConcatProperties
    <3>2. Len(u) + Len(t) = l /\ Len(u) = l - n
      BY <1>1, <1>6, <1>7
    <3> QED
      BY <3>1, <3>2
  <2>3. ASSUME NEW k \in 1..l PROVE s[k] = (u \o t)[k]
    <3>1. CASE k <= l - n
      <4>1. k \in 1..(l - n)
        BY <1>1, <3>1
      <4> QED
        BY <1>7, <2>2, <3>1, <4>1
    <3>2. CASE ~(k <= l - n)
      <4>1. k - (l - n) \in 1..n /\ l - n + (k - (l - n)) = k
        BY <1>1, <3>2
      <4>2. t[k - (l - n)] = s[k]
        BY <1>6, <4>1
      <4> QED
        BY <2>2, <3>2, <4>2
    <3> QED
      BY <3>1, <3>2
  <2> QED
    BY <2>1, <2>3, SeqEqual
<1> QED
  BY <1>5, <1>6, <1>7, <1>8

\* A second part is a suffix.
LEMMA SuffixOfConcat ==
    ASSUME NEW T, NEW s \in Seq(T), NEW t \in Seq(T)
    PROVE  IsSuffix(t, s \o t)
<1> DEFINE m == Len(s)
           n == Len(t)
           u == s \o t
<1>1. /\ m \in Nat /\ n \in Nat /\ u \in Seq(T) /\ Len(u) = m + n
      /\ \A k \in 1..n : u[m + k] = t[k]
      /\ (\A k \in 1..n : t[k] \in T) /\ \A k \in 1..(m + n) : u[k] \in T
  OBVIOUS
<1> DEFINE rt == Reverse(t)
           ru == Reverse(u)
<1> HIDE DEF u
<1>2. rt = [k \in 1..n |-> t[n - k + 1]] /\ ru = [k \in 1..(m + n) |-> u[(m + n) - k + 1]]
  BY <1>1 DEF Reverse
<1> HIDE DEF rt, ru, m, n
<1>3. /\ rt \in Seq(T) /\ Len(rt) = n /\ \A k \in 1..n : rt[k] = t[n - k + 1]
  <2>1. \A k \in 1..n : n - k + 1 \in 1..n
    BY <1>1
  <2> QED
    BY <1>1, <1>2, <2>1
<1>4. /\ ru \in Seq(T) /\ Len(ru) = m + n /\ \A k \in 1..(m + n) : ru[k] = u[(m + n) - k + 1]
  <2>1. \A k \in 1..(m + n) : (m + n) - k + 1 \in 1..(m + n)
    BY <1>1
  <2> QED
    BY <1>1, <1>2, <2>1
<1>5. \A k \in 1..n : rt[k] = ru[k]
  <2> SUFFICES ASSUME NEW k \in 1..n PROVE rt[k] = ru[k]
    OBVIOUS
  <2>1. n - k + 1 \in 1..n /\ k \in 1..(m + n) /\ (m + n) - k + 1 = m + (n - k + 1)
    BY <1>1
  <2>2. u[m + (n - k + 1)] = t[n - k + 1]
    BY <1>1, <2>1
  <2> QED
    BY <1>3, <1>4, <2>1, <2>2
<1>6. SubSeq(rt, 1, n) = [k \in 1..n |-> rt[k]] /\ SubSeq(ru, 1, n) = [k \in 1..n |-> ru[k]]
  BY <1>1, <1>3, <1>4
<1>7. SubSeq(rt, 1, n) = SubSeq(ru, 1, n)
  BY <1>5, <1>6
<1>8. Len(rt) <= Len(ru)
  BY <1>1, <1>3, <1>4
<1> QED
  BY <1>3, <1>7, <1>8 DEF IsSuffix, IsPrefix, rt, ru, u

\* The numbers from 1 to n are n.
LEMMA IntervalSize == ASSUME NEW n \in Nat PROVE IsFiniteSet(1..n) /\ Cardinality(1..n) = n
<1>1. IsFiniteSet(1..n) /\ Cardinality(1..n) = IF 1 > n THEN 0 ELSE n - 1 + 1
  BY FS_Interval
<1> QED
  BY <1>1

\* A sequence has no more elements than positions.
LEMMA SetOfSeq ==
    ASSUME NEW T, NEW s \in Seq(T)
    PROVE  IsFiniteSet(ToSet(s)) /\ Cardinality(ToSet(s)) <= Len(s)
<1>1. ToSet(s) = {s[i] : i \in 1..Len(s)} /\ Len(s) \in Nat
  BY DEF ToSet
<1>2. IsFiniteSet(1..Len(s)) /\ Cardinality(1..Len(s)) = Len(s)
  BY <1>1, IntervalSize
<1>3. s \in Surjection(1..Len(s), ToSet(s))
  BY <1>1 DEF Surjection
<1> QED
  BY <1>2, <1>3, FS_Surjection

----------------------------------------------------------------------------
(* FlattenSeq.                                                               *)

\* Nothing in front of a sequence.
LEMMA EmptyConcat == ASSUME NEW T, NEW s \in Seq(T) PROVE <<>> \o s = s /\ s \o <<>> = s
OBVIOUS

\* f[k] is what the first k sequences make one after the other.
Joins(f, seqs) == /\ f = [k \in 0..Len(seqs) |-> f[k]]
                  /\ f[0] = <<>>
                  /\ \A k \in 1..Len(seqs) : f[k] = f[k - 1] \o seqs[k]

\* There is such a function, and its values are sequences.
LEMMA JoinsExists ==
    ASSUME NEW T, NEW seqs \in Seq(Seq(T))
    PROVE  \E f : Joins(f, seqs) /\ f \in [0..Len(seqs) -> Seq(T)]
<1> DEFINE n == Len(seqs)
           F == [k \in 1..n |-> [x \in Seq(T) |-> x \o seqs[k]]]
<1>1. n \in Nat /\ \A k \in 1..n : seqs[k] \in Seq(T)
  OBVIOUS
<1>2. <<>> \in Seq(T)
  OBVIOUS
<1>3. ASSUME NEW k \in 1..n, NEW x \in Seq(T) PROVE F[k][x] = x \o seqs[k] /\ x \o seqs[k] \in Seq(T)
  <2>1. seqs[k] \in Seq(T)
    BY <1>1
  <2> HIDE DEF n
  <2> QED
    BY <2>1
<1>4. PICK g : IsIterate(g, n, <<>>, F)
  <2> HIDE DEF F, n
  <2> QED
    BY <1>1, IterateExists
<1> HIDE DEF F
<1>5. \A k \in 0..n : g[k] = IF k = 0 THEN <<>> ELSE F[k][g[k - 1]]
  <2> HIDE DEF n
  <2> QED
    BY <1>4 DEF IsIterate
<1>6. \A k \in 0..n : g[k] \in Seq(T)
  <2> DEFINE Bad == {k \in 0..n : g[k] \notin Seq(T)}
  <2>1. SUFFICES ASSUME Bad # {} PROVE FALSE
    OBVIOUS
  <2>2. PICK m \in Bad : \A k \in Bad : m <= k
    <3>1. Bad \in SUBSET Nat
      BY <1>1
    <3> HIDE DEF Bad
    <3> QED
      BY <2>1, <3>1, LeastNat
  <2>3. m \in 0..n /\ g[m] \notin Seq(T) /\ 0 \in 0..n
    BY <1>1, <2>2
  <2>4. m # 0
    <3> HIDE DEF n
    <3> QED
      BY <1>2, <1>5, <2>3
  <2>5. m \in 1..n /\ m - 1 \in 0..n /\ g[m - 1] \in Seq(T)
    <3>1. m \in 1..n /\ m - 1 \in 0..n /\ ~(m <= m - 1)
      BY <1>1, <2>3, <2>4
    <3> HIDE DEF n
    <3> QED
      BY <2>2, <3>1
  <2> HIDE DEF n
  <2>6. g[m] = F[m][g[m - 1]]
    BY <1>5, <2>3, <2>4
  <2>7. g[m] \in Seq(T)
    <3>1. F[m][g[m - 1]] \in Seq(T)
      <4>1. \A x \in Seq(T) : F[m][x] \in Seq(T)
        BY <1>3, <2>5
      <4> QED
        BY <2>5, <4>1
    <3> QED
      BY <2>6, <3>1
  <2> QED
    BY <2>3, <2>7
<1>7. ASSUME NEW k \in 1..n PROVE g[k] = g[k - 1] \o seqs[k]
  <2>1. k \in 0..n /\ k - 1 \in 0..n /\ k # 0
    BY <1>1
  <2> HIDE DEF n
  <2>2. g[k] = F[k][g[k - 1]]
    BY <1>5, <2>1
  <2> QED
    BY <1>3, <1>6, <2>1, <2>2
<1>8. g[0] = <<>>
  <2>1. 0 \in 0..n
    BY <1>1
  <2> HIDE DEF n
  <2> QED
    BY <1>5, <2>1
<1>9. g = [k \in 0..n |-> g[k]]
  <2> HIDE DEF n
  <2> QED
    BY <1>4 DEF IsIterate
<1> QED
  <2>1. g \in [0..n -> Seq(T)]
    <3> HIDE DEF n
    <3> QED
      BY <1>6, <1>9
  <2> QED
    BY <1>7, <1>8, <1>9, <2>1 DEF Joins

\* Only one.
LEMMA JoinsUnique ==
    ASSUME NEW seqs, Len(seqs) \in Nat, NEW f, NEW g, Joins(f, seqs), Joins(g, seqs)
    PROVE  \A k \in 0..Len(seqs) : f[k] = g[k]
<1> DEFINE n == Len(seqs)
           Bad == {k \in 0..n : f[k] # g[k]}
<1>1. SUFFICES ASSUME Bad # {} PROVE FALSE
  OBVIOUS
<1>2. PICK m \in Bad : \A k \in Bad : m <= k
  <2>1. Bad \in SUBSET Nat
    OBVIOUS
  <2> HIDE DEF Bad
  <2> QED
    BY <1>1, <2>1, LeastNat
<1>3. m # 0
  BY <1>2 DEF Joins
<1>4. m \in 1..n /\ m - 1 \in 0..n /\ f[m - 1] = g[m - 1]
  <2>1. m \in 1..n /\ m - 1 \in 0..n /\ ~(m <= m - 1)
    BY <1>2, <1>3
  <2> QED
    BY <1>2, <2>1
<1>5. f[m] = f[m - 1] \o seqs[m] /\ g[m] = g[m - 1] \o seqs[m]
  BY <1>4 DEF Joins
<1> QED
  BY <1>2, <1>4, <1>5

\* FlattenSeq is its last value.
LEMMA FlattenIs ==
    ASSUME NEW T, NEW seqs \in Seq(Seq(T)), NEW f, Joins(f, seqs)
    PROVE  FlattenSeq(seqs) = f[Len(seqs)] /\ FlattenSeq(seqs) \in Seq(T)
<1> DEFINE n == Len(seqs)
           IsFlat(h) == h = [i \in 1..n |-> IF i = 1 THEN seqs[i] ELSE h[i - 1] \o seqs[i]]
           flat == CHOOSE h : IsFlat(h)
<1>1. n \in Nat /\ \A k \in 1..n : seqs[k] \in Seq(T)
  OBVIOUS
<1>2. PICK g : Joins(g, seqs) /\ g \in [0..n -> Seq(T)]
  BY JoinsExists
<1>3. f[n] = g[n] /\ g[n] \in Seq(T)
  <2>1. n \in 0..n
    BY <1>1
  <2> QED
    BY <1>2, <2>1, JoinsUnique
<1>4. CASE n = 0
  <2>1. FlattenSeq(seqs) = seqs /\ seqs = <<>>
    BY <1>4 DEF FlattenSeq
  <2>2. f[n] = <<>>
    BY <1>4 DEF Joins
  <2> QED
    BY <1>3, <2>1, <2>2
<1>5. CASE n # 0
  <2> DEFINE h == [i \in 1..n |-> g[i]]
  <2>1. ASSUME NEW i \in 1..n PROVE h[i] = IF i = 1 THEN seqs[i] ELSE h[i - 1] \o seqs[i]
    <3>1. g[i] = g[i - 1] \o seqs[i] /\ g[0] = <<>>
      BY <1>2 DEF Joins
    <3>2. CASE i = 1
      <4>1. seqs[i] \in Seq(T) /\ h[i] = g[i] /\ i - 1 = 0
        BY <1>1, <3>2
      <4>2. g[i - 1] = <<>>
        BY <3>1, <4>1
      <4>3. g[i] = <<>> \o seqs[i]
        BY <3>1, <4>2, Zenon
      <4> QED
        BY <3>2, <4>1, <4>3, EmptyConcat
    <3>3. CASE i # 1
      <4>1. i - 1 \in 1..n
        BY <1>1, <3>3
      <4> QED
        BY <3>1, <3>3, <4>1
    <3> QED
      BY <3>2, <3>3
  <2>2. IsFlat(h)
    <3>1. h = [i \in 1..n |-> h[i]]
      OBVIOUS
    <3> HIDE DEF h
    <3> QED
      BY <2>1, <3>1
  <2>3. IsFlat(flat)
    <3> HIDE DEF IsFlat
    <3> QED
      BY <2>2
  <2>4. FlattenSeq(seqs) = flat[n]
    BY <1>5 DEF FlattenSeq
  <2> HIDE DEF flat
  <2>5. \A i \in 1..n : flat[i] = IF i = 1 THEN seqs[i] ELSE flat[i - 1] \o seqs[i]
    BY <2>3
  <2> DEFINE Bad == {k \in 1..n : flat[k] # g[k]}
  <2>6. Bad = {}
    <3>1. SUFFICES ASSUME Bad # {} PROVE FALSE
      OBVIOUS
    <3>2. PICK m \in Bad : \A k \in Bad : m <= k
      <4>1. Bad \in SUBSET Nat
        BY <1>1
      <4> HIDE DEF Bad
      <4> QED
        BY <3>1, <4>1, LeastNat
    <3>3. m \in 1..n /\ flat[m] # g[m] /\ g[m] = g[m - 1] \o seqs[m] /\ g[0] = <<>>
      BY <1>2, <3>2 DEF Joins
    <3>4. m # 1
      <4>1. SUFFICES ASSUME m = 1 PROVE FALSE
        OBVIOUS
      <4>2. seqs[m] \in Seq(T)
        BY <1>1, <3>3
      <4>3. flat[m] = seqs[m]
        BY <2>5, <3>3, <4>1
      <4>4. g[m] = <<>> \o seqs[m]
        <5>1. m - 1 = 0
          BY <4>1
        <5>2. g[m - 1] = <<>>
          BY <3>3, <5>1
        <5> QED
          BY <3>3, <5>2, Zenon
      <4> QED
        BY <3>3, <4>2, <4>3, <4>4, EmptyConcat
    <3>5. m - 1 \in 1..n /\ ~(m <= m - 1)
      BY <1>1, <3>3, <3>4
    <3>6. flat[m - 1] = g[m - 1] /\ flat[m] = flat[m - 1] \o seqs[m]
      BY <2>5, <3>2, <3>3, <3>4, <3>5
    <3> QED
      BY <3>3, <3>6
  <2>7. n \in 1..n
    BY <1>1, <1>5
  <2> QED
    BY <1>3, <2>4, <2>6, <2>7
<1> QED
  BY <1>4, <1>5

\* Nothing to flatten.
LEMMA FlattenEmpty == FlattenSeq(<<>>) = <<>>
BY DEF FlattenSeq

\* Flattening, one sequence more.
LEMMA FlattenAppend ==
    ASSUME NEW T, NEW seqs \in Seq(Seq(T)), NEW s \in Seq(T)
    PROVE  /\ FlattenSeq(seqs) \in Seq(T)
           /\ Append(seqs, s) \in Seq(Seq(T))
           /\ FlattenSeq(Append(seqs, s)) = FlattenSeq(seqs) \o s
<1> DEFINE n == Len(seqs)
           more == Append(seqs, s)
<1>1. PICK g : Joins(g, more) /\ g \in [0..Len(more) -> Seq(T)]
  <2>1. more \in Seq(Seq(T))
    OBVIOUS
  <2> HIDE DEF more
  <2> QED
    BY <2>1, JoinsExists
<1>2. /\ n \in Nat /\ more \in Seq(Seq(T)) /\ Len(more) = n + 1 /\ more[n + 1] = s
      /\ \A k \in 1..n : more[k] = seqs[k]
  OBVIOUS
<1> DEFINE f == [k \in 0..n |-> g[k]]
<1>3. Joins(f, seqs)
  <2>1. f[0] = <<>>
    BY <1>1, <1>2 DEF Joins
  <2>2. ASSUME NEW k \in 1..n PROVE f[k] = f[k - 1] \o seqs[k]
    <3>1. k \in 1..(n + 1) /\ k \in 0..n /\ k - 1 \in 0..n
      BY <1>2
    <3>2. g[k] = g[k - 1] \o more[k]
      BY <1>1, <1>2, <3>1 DEF Joins
    <3> HIDE DEF n, more
    <3> QED
      BY <1>2, <3>1, <3>2
  <2>3. f = [k \in 0..n |-> f[k]]
    OBVIOUS
  <2> HIDE DEF f
  <2> QED
    BY <2>1, <2>2, <2>3 DEF Joins
<1>4. FlattenSeq(seqs) = g[n] /\ FlattenSeq(seqs) \in Seq(T)
  <2>1. FlattenSeq(seqs) = f[n] /\ FlattenSeq(seqs) \in Seq(T)
    <3> HIDE DEF f
    <3> QED
      BY <1>3, FlattenIs
  <2>2. n \in 0..n
    BY <1>2
  <2> QED
    BY <2>1, <2>2
<1>5. FlattenSeq(more) = g[n + 1]
  <2> HIDE DEF more
  <2> QED
    BY <1>1, <1>2, FlattenIs
<1>6. g[n + 1] = g[n] \o s
  <2>1. n + 1 \in 1..(n + 1) /\ (n + 1) - 1 = n
    BY <1>2
  <2>2. g[n + 1] = g[(n + 1) - 1] \o more[n + 1]
    <3> HIDE DEF more
    <3> QED
      BY <1>1, <1>2, <2>1 DEF Joins
  <2> HIDE DEF more, n
  <2> QED
    BY <1>2, <2>1, <2>2, Zenon
<1> QED
  BY <1>2, <1>4, <1>5, <1>6

\* Flattening, one list after the other.
LEMMA FlattenConcat ==
    ASSUME NEW T, NEW a \in Seq(Seq(T)), NEW b \in Seq(Seq(T))
    PROVE  FlattenSeq(a \o b) = FlattenSeq(a) \o FlattenSeq(b)
<1> DEFINE P == {x \in Seq(Seq(T)) : FlattenSeq(a \o x) = FlattenSeq(a) \o FlattenSeq(x)}
<1>1. <<>> \in P
  <2>1. FlattenSeq(a) \in Seq(T) /\ FlattenSeq(<<>>) = <<>> /\ <<>> \in Seq(T) /\ <<>> \in Seq(Seq(T))
    BY FlattenAppend, FlattenEmpty
  <2>2. a \o <<>> = a /\ FlattenSeq(a) \o <<>> = FlattenSeq(a)
    BY <2>1, AppendToConcat
  <2> QED
    BY <2>1, <2>2
<1>2. ASSUME NEW x \in P, NEW s \in Seq(T) PROVE Append(x, s) \in P
  <2>1. x \in Seq(Seq(T)) /\ FlattenSeq(a \o x) = FlattenSeq(a) \o FlattenSeq(x)
    OBVIOUS
  <2>2. /\ a \o x \in Seq(Seq(T)) /\ a \o Append(x, s) = Append(a \o x, s)
    BY SMTT(60), <2>1, AppendToConcat
  <2>3. /\ FlattenSeq(Append(x, s)) = FlattenSeq(x) \o s /\ Append(x, s) \in Seq(Seq(T))
        /\ FlattenSeq(x) \in Seq(T) /\ FlattenSeq(a) \in Seq(T)
        /\ FlattenSeq(Append(a \o x, s)) = FlattenSeq(a \o x) \o s
    BY <2>1, <2>2, FlattenAppend
  <2>4. (FlattenSeq(a) \o FlattenSeq(x)) \o s = FlattenSeq(a) \o (FlattenSeq(x) \o s)
    <3>1. \A r, p, q \in Seq(T) : (r \o p) \o q = r \o (p \o q)
      BY SMTT(60), ConcatThree
    <3> QED
      BY <2>3, <3>1
  <2> QED
    BY <2>1, <2>2, <2>3, <2>4
<1>3. P \in SUBSET Seq(Seq(T))
  OBVIOUS
<1>4. Seq(Seq(T)) \subseteq P
  <2> HIDE DEF P
  <2> QED
    BY <1>1, <1>2, <1>3, SeqInduction
<1> QED
  BY <1>4
=============================================================================
