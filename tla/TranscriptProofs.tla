---------------------------- MODULE TranscriptProofs ----------------------------
EXTENDS Transcript, DataLemmas, SequenceTheorems, TLAPS

----------------------------------------------------------------------------
(* Sums of sequences.                                                        *)

\* The sum of a sequence is the sum over its positions.
LEMMA SumIsSumOn == \A s : Sum(s) = SumOn(s, DOMAIN s)
BY DEF Sum, SumFunction, SumFunctionOnSet, FoldFunctionOnSet, SumOn, MapThenSumSet

\* It is a natural number.
LEMMA SumOfNats == ASSUME NEW s \in Seq(Nat) PROVE Sum(s) \in Nat
<1>1. IsFiniteSet(DOMAIN s) /\ \A k \in DOMAIN s : s[k] \in Nat
  BY FS_Interval
<1> QED
  BY <1>1, SumNat, SumIsSumOn

\* An empty one has the sum 0.
LEMMA SumOfEmpty == Sum(<<>>) = 0
<1>1. DOMAIN <<>> = {}
  OBVIOUS
<1> QED
  BY <1>1, SumEmpty, SumIsSumOn

\* A permutation of the positions changes nothing.
LEMMA SumOfReverse == ASSUME NEW s \in Seq(Nat) PROVE Reverse(s) \in Seq(Nat) /\ Sum(Reverse(s)) = Sum(s)
<1> DEFINE n == Len(s)
           f == [k \in 1..n |-> n - k + 1]
           r == Reverse(s)
<1>1. n \in Nat /\ DOMAIN s = 1..n /\ IsFiniteSet(1..n) /\ \A k \in 1..n : s[k] \in Nat
  <2>1. n \in Nat /\ DOMAIN s = 1..n /\ \A k \in 1..n : s[k] \in Nat
    OBVIOUS
  <2> QED
    BY <2>1, FS_Interval
<1>2. r = [k \in 1..n |-> s[n - k + 1]]
  BY DEF Reverse
<1>3. r \in Seq(Nat) /\ DOMAIN r = 1..n
  <2>1. \A k \in 1..n : n - k + 1 \in 1..n /\ s[n - k + 1] \in Nat
    BY <1>1
  <2> HIDE DEF r, n
  <2> QED
    BY <1>1, <1>2, <2>1
<1>4. f \in [1..n -> 1..n]
  BY <1>1
<1>5. \A j, k \in 1..n : f[j] = f[k] => j = k
  BY <1>1
<1>6. \A j \in 1..n : \E k \in 1..n : f[k] = j
  <2>1. ASSUME NEW j \in 1..n PROVE n - j + 1 \in 1..n /\ f[n - j + 1] = j
    BY <1>1
  <2> QED
    BY <2>1
<1>7. \A k \in 1..n : r[k] \in Nat /\ r[k] = s[f[k]]
  BY <1>1, <1>2
<1> DEFINE D == 1..n
<1>8. SumOn(r, D) = SumOn(s, D)
  <2>1. IsFiniteSet(D) /\ f \in [D -> D]
    BY <1>1, <1>4
  <2>2. /\ \A j, k \in D : f[j] = f[k] => j = k
        /\ \A j \in D : \E k \in D : f[k] = j
        /\ \A k \in D : r[k] \in Nat /\ r[k] = s[f[k]]
    BY <1>5, <1>6, <1>7
  <2> HIDE DEF f, r, n, D
  <2> QED
    BY <2>1, <2>2, SumRenamed
<1> QED
  BY <1>1, <1>3, <1>8, SumIsSumOn

\* The sum of two sequences one after the other.
LEMMA SumOfConcat ==
    ASSUME NEW s \in Seq(Nat), NEW t \in Seq(Nat)
    PROVE  s \o t \in Seq(Nat) /\ Sum(s \o t) = Sum(s) + Sum(t)
<1> DEFINE m == Len(s)
           n == Len(t)
           u == s \o t
           A == 1..m
           B == (m + 1)..(m + n)
           f == [k \in 1..n |-> m + k]
<1>1. /\ m \in Nat /\ n \in Nat /\ DOMAIN s = 1..m /\ DOMAIN t = 1..n
      /\ u \in Seq(Nat) /\ DOMAIN u = 1..(m + n)
      /\ \A k \in 1..m : s[k] \in Nat /\ u[k] = s[k]
      /\ \A k \in 1..n : t[k] \in Nat /\ u[m + k] = t[k]
  OBVIOUS
<1>2. /\ IsFiniteSet(A) /\ IsFiniteSet(B) /\ IsFiniteSet(1..n)
      /\ A \cap B = {} /\ A \cup B = DOMAIN u
  <2>1. IsFiniteSet(A) /\ IsFiniteSet(B) /\ IsFiniteSet(1..n)
    <3> HIDE DEF u, m, n
    <3> QED
      BY <1>1, FS_Interval
  <2> HIDE DEF u, m, n
  <2> QED
    BY <1>1, <2>1
<1>3. \A k \in A \cup B : u[k] \in Nat
  BY <1>1
<1>4. SumOn(u, A \cup B) = SumOn(u, A) + SumOn(u, B)
  <2> HIDE DEF A, B, u, m, n
  <2> QED
    BY <1>2, <1>3, SumUnion
<1>5. SumOn(s, A) = SumOn(u, A)
  <2> HIDE DEF A, B, u, m, n
  <2> QED
    BY <1>1, <1>2, SumSame DEF A
<1>6. SumOn(t, 1..n) = SumOn(u, B)
  <2>1. f \in [1..n -> B]
    BY <1>1
  <2>2. \A j, k \in 1..n : f[j] = f[k] => j = k
    BY <1>1
  <2>3. \A j \in B : \E k \in 1..n : f[k] = j
    <3>1. ASSUME NEW j \in B PROVE j - m \in 1..n /\ f[j - m] = j
      BY <1>1
    <3> QED
      BY <3>1
  <2>4. \A k \in 1..n : t[k] \in Nat /\ t[k] = u[f[k]]
    BY <1>1
  <2> DEFINE D == 1..n
  <2>5. /\ IsFiniteSet(D) /\ f \in [D -> B]
        /\ \A j, k \in D : f[j] = f[k] => j = k
        /\ \A j \in B : \E k \in D : f[k] = j
        /\ \A k \in D : t[k] \in Nat /\ t[k] = u[f[k]]
    BY <1>2, <2>1, <2>2, <2>3, <2>4
  <2>6. SumOn(t, D) = SumOn(u, B)
    <3> HIDE DEF f, B, D, u, n, m
    <3> QED
      BY <2>5, SumRenamed
  <2> QED
    BY <2>6
<1> QED
  BY <1>1, <1>2, <1>4, <1>5, <1>6, SumIsSumOn

----------------------------------------------------------------------------
(* Prefixes that fit a budget.                                               *)

\* What fits the budget does, and there is always a prefix that fits.
LEMMA FittingFits ==
    ASSUME NEW s \in Seq(Nat), NEW budget \in Nat
    PROVE  /\ Fitting(s, budget) \in Seq(Nat) /\ Sum(Fitting(s, budget)) <= budget
           /\ \E n \in 0..Len(s) : Fitting(s, budget) = SubSeq(s, 1, n)
<1> DEFINE Fits(n) == Sum(SubSeq(s, 1, n)) <= budget
           N == {n \in 0..Len(s) : Fits(n)}
<1>1. 0 \in N
  <2>1. SubSeq(s, 1, 0) = <<>> /\ 0 \in 0..Len(s)
    OBVIOUS
  <2>2. Sum(SubSeq(s, 1, 0)) = Sum(<<>>)
    BY <2>1, Zenon
  <2>3. Fits(0)
    BY <2>2, SumOfEmpty
  <2> QED
    BY <2>1, <2>3
<1>2. PICK m \in N : \A n \in N : n <= m
  <2>1. N \in SUBSET Nat /\ N # {} /\ Len(s) \in Nat /\ \A n \in N : n <= Len(s)
    BY <1>1
  <2> HIDE DEF N
  <2> QED
    BY <2>1, GreatestNat
<1>3. m \in 0..Len(s) /\ Fits(m) /\ (m < Len(s) => Sum(SubSeq(s, 1, m + 1)) > budget)
  <2>1. m < Len(s) => m + 1 \in 0..Len(s) /\ ~(m + 1 <= m)
    OBVIOUS
  <2>2. m < Len(s) => ~Fits(m + 1)
    BY <1>2, <2>1
  <2>3. m < Len(s) => SubSeq(s, 1, m + 1) \in Seq(Nat)
    OBVIOUS
  <2>4. m < Len(s) => Sum(SubSeq(s, 1, m + 1)) \in Nat
    BY <2>3, SumOfNats
  <2> QED
    BY <2>2, <2>4
<1> DEFINE P(n) == /\ Sum(SubSeq(s, 1, n)) <= budget
                   /\ n < Len(s) => Sum(SubSeq(s, 1, n + 1)) > budget
           c == CHOOSE n \in 0..Len(s) : P(n)
<1>4. c \in 0..Len(s) /\ P(c)
  <2>1. \E n \in 0..Len(s) : P(n)
    BY <1>3
  <2> HIDE DEF P
  <2> QED
    BY <2>1
<1>5. Fitting(s, budget) = SubSeq(s, 1, c)
  BY DEF Fitting
<1>6. SubSeq(s, 1, c) \in Seq(Nat)
  BY <1>4
<1> QED
  BY <1>4, <1>5, <1>6

\* All of it fits when its sum does.
LEMMA FittingAll ==
    ASSUME NEW s \in Seq(Nat), NEW budget \in Nat, Sum(s) <= budget
    PROVE  Fitting(s, budget) = s
<1> DEFINE l == Len(s)
           P(n) == /\ Sum(SubSeq(s, 1, n)) <= budget
                   /\ n < l => Sum(SubSeq(s, 1, n + 1)) > budget
           c == CHOOSE n \in 0..l : P(n)
<1>1. l \in Nat /\ SubSeq(s, 1, l) = s
  <2>1. SubSeq(s, 1, Len(s)) = s
    BY SubSeqFull
  <2> QED
    BY <2>1
<1>2. P(l) /\ l \in 0..l
  <2> HIDE DEF l
  <2>1. l \in 0..l /\ ~(l < l)
    BY <1>1
  <2>2. Sum(SubSeq(s, 1, l)) <= budget
    BY <1>1, Zenon
  <2> QED
    BY <2>1, <2>2, Zenon
<1>3. Fitting(s, budget) = SubSeq(s, 1, c)
  BY DEF Fitting
<1>4. c \in 0..l /\ P(c)
  <2> HIDE DEF P, l
  <2> QED
    BY <1>2
<1> HIDE DEF c
<1>5. ASSUME c < l PROVE FALSE
  <2> DEFINE k == c + 1
             u == SubSeq(s, 1, k)
             v == SubSeq(s, k + 1, l)
  <2>1. k \in 1..l /\ k \in Nat /\ 1 \in 1..(l + 1) /\ k \in (1 - 1)..l /\ l \in k..l
    BY <1>1, <1>4, <1>5
  <2> HIDE DEF k
  <2>2. u \o v = s
    <3>1. SubSeq(s, 1, k) \o SubSeq(s, k + 1, Len(s)) = SubSeq(s, 1, Len(s))
      BY <2>1, ConcatAdjacentSubSeq
    <3> QED
      BY <1>1, <3>1
  <2>3. u \in Seq(Nat) /\ v \in Seq(Nat)
    BY <1>1, <2>1
  <2> HIDE DEF u, v
  <2>4. Sum(s) = Sum(u) + Sum(v) /\ Sum(u) \in Nat /\ Sum(v) \in Nat
    BY <2>2, <2>3, SumOfConcat, SumOfNats
  <2>5. Sum(u) > budget
    BY <1>4, <1>5 DEF u, k
  <2> QED
    BY <2>4, <2>5
<1>6. c = l
  <2> HIDE DEF P, l
  <2> QED
    BY <1>1, <1>4, <1>5
<1> QED
  BY <1>1, <1>3, <1>6

\* The same from the end.
LEMMA SessionContextFits ==
    ASSUME NEW s \in Seq(Nat), NEW budget \in Nat
    PROVE  SessionContext(s, budget) \in Seq(Nat) /\ Sum(SessionContext(s, budget)) <= budget
<1>1. Reverse(s) \in Seq(Nat)
  BY SumOfReverse
<1>2. Fitting(Reverse(s), budget) \in Seq(Nat) /\ Sum(Fitting(Reverse(s), budget)) <= budget
  BY <1>1, FittingFits
<1> QED
  BY <1>2, SumOfReverse DEF SessionContext

\* Both kinds of memory share one budget.
LEMMA MemoryContextFits ==
    ASSUME NEW m, m.abstracts \in Seq(Nat), m.raws \in Seq(Nat), NEW budget \in Nat
    PROVE  MemoryContext(m, budget) \in Seq(Nat) /\ Sum(MemoryContext(m, budget)) <= budget
<1> DEFINE a == Fitting(m.abstracts, budget)
           b == Fitting(m.raws, budget - Sum(a))
<1>1. a \in Seq(Nat) /\ Sum(a) <= budget /\ Sum(a) \in Nat
  BY FittingFits, SumOfNats
<1>2. b \in Seq(Nat) /\ Sum(b) <= budget - Sum(a) /\ Sum(b) \in Nat
  <2>1. budget - Sum(a) \in Nat
    BY <1>1
  <2> HIDE DEF a
  <2> QED
    BY <2>1, FittingFits, SumOfNats
<1>3. a \o b \in Seq(Nat) /\ Sum(a \o b) = Sum(a) + Sum(b)
  BY <1>1, <1>2, SumOfConcat
<1>4. MemoryContext(m, budget) = a \o b
  BY DEF MemoryContext
<1> HIDE DEF a, b
<1> QED
  BY <1>1, <1>2, <1>3, <1>4

----------------------------------------------------------------------------
(* Shares of a round.                                                        *)

\* The sum over an interval, without its last element.
LEMMA SumOfLast ==
    ASSUME NEW v, NEW k \in Nat, k > 0, \A j \in 1..k : v[j] \in Nat
    PROVE  SumOn(v, 1..k) = v[k] + SumOn(v, 1..(k - 1)) /\ SumOn(v, 1..(k - 1)) \in Nat
<1> DEFINE S == 1..(k - 1)
<1>1. IsFiniteSet(S)
  BY FS_Interval
<1>2. k \notin S /\ S \cup {k} = 1..k /\ v[k] \in Nat /\ \A j \in S : v[j] \in Nat
  OBVIOUS
<1> HIDE DEF S
<1>3. SumOn(v, S \cup {k}) = v[k] + SumOn(v, S) /\ SumOn(v, S) \in Nat
  BY <1>1, <1>2, SumAdd, SumNat
<1> QED
  BY <1>2, <1>3 DEF S

\* What is sent takes from what is left whatever it exceeds its base by, so it
\* all stays within the bases and what was there at first.
LEMMA SharesAddUp ==
    ASSUME NEW n \in Nat, NEW left \in [0..n -> Nat], NEW v, NEW w,
           \A k \in 1..n : v[k] \in Nat /\ w[k] \in Nat /\ v[k] + left[k] <= w[k] + left[k - 1]
    PROVE  SumOn(v, 1..n) <= SumOn(w, 1..n) + left[0]
<1> DEFINE V == [k \in 0..n |-> SumOn(v, 1..k)]
           W == [k \in 0..n |-> SumOn(w, 1..k)]
           Bad == {k \in 0..n : ~(V[k] + left[k] <= W[k] + left[0])}
<1>1. V[0] = 0 /\ W[0] = 0
  <2>1. V[0] = SumOn(v, {}) /\ W[0] = SumOn(w, {})
    OBVIOUS
  <2> QED
    BY <2>1, SumEmpty
<1>2. ASSUME NEW k \in 1..n
      PROVE  V[k] = v[k] + V[k - 1] /\ W[k] = w[k] + W[k - 1] /\ V[k - 1] \in Nat /\ W[k - 1] \in Nat
  <2>1. V[k] = SumOn(v, 1..k) /\ W[k] = SumOn(w, 1..k)
        /\ V[k - 1] = SumOn(v, 1..(k - 1)) /\ W[k - 1] = SumOn(w, 1..(k - 1))
    OBVIOUS
  <2>2. k \in Nat /\ k > 0 /\ \A j \in 1..k : v[j] \in Nat /\ w[j] \in Nat
    OBVIOUS
  <2> HIDE DEF V, W
  <2>3. SumOn(v, 1..k) = v[k] + SumOn(v, 1..(k - 1)) /\ SumOn(v, 1..(k - 1)) \in Nat
    BY <2>2, SumOfLast
  <2>4. SumOn(w, 1..k) = w[k] + SumOn(w, 1..(k - 1)) /\ SumOn(w, 1..(k - 1)) \in Nat
    BY <2>2, SumOfLast
  <2> QED
    BY <2>1, <2>3, <2>4
<1>3. \A k \in 0..n : V[k] \in Nat /\ W[k] \in Nat
  <2>1. ASSUME NEW k \in 0..n PROVE SumOn(v, 1..k) \in Nat /\ SumOn(w, 1..k) \in Nat
    <3>1. IsFiniteSet(1..k)
      BY FS_Interval
    <3>2. \A j \in 1..k : v[j] \in Nat /\ w[j] \in Nat
      OBVIOUS
    <3> QED
      BY <3>1, <3>2, SumNat
  <2> QED
    BY <2>1
<1>4. V[n] = SumOn(v, 1..n) /\ W[n] = SumOn(w, 1..n)
  OBVIOUS
<1> HIDE DEF V, W
<1>5. SUFFICES ASSUME Bad # {} PROVE FALSE
  <2>1. n \notin Bad
    BY <1>5
  <2>2. V[n] + left[n] <= W[n] + left[0] /\ left[n] \in Nat /\ left[0] \in Nat
    BY <2>1
  <2>3. V[n] \in Nat /\ W[n] \in Nat
    BY <1>3
  <2> QED
    BY <1>4, <2>2, <2>3
<1>6. PICK m \in Bad : \A k \in Bad : m <= k
  <2>1. Bad \in SUBSET Nat
    OBVIOUS
  <2> HIDE DEF Bad
  <2> QED
    BY <1>5, <2>1, LeastNat
<1>7. m # 0
  BY <1>1
<1>8. m \in 1..n /\ m - 1 \in 0..n /\ V[m - 1] + left[m - 1] <= W[m - 1] + left[0]
  BY <1>6, <1>7
<1>9. /\ v[m] \in Nat /\ w[m] \in Nat /\ left[m] \in Nat /\ left[m - 1] \in Nat /\ left[0] \in Nat
      /\ v[m] + left[m] <= w[m] + left[m - 1]
  BY <1>8
<1>10. V[m] + left[m] <= W[m] + left[0]
  <2>1. V[m] = v[m] + V[m - 1] /\ W[m] = w[m] + W[m - 1] /\ V[m - 1] \in Nat /\ W[m - 1] \in Nat
    BY <1>2, <1>8
  <2> DEFINE a == V[m - 1]
             b == W[m - 1]
             c == left[m - 1]
  <2>2. a \in Nat /\ b \in Nat /\ c \in Nat /\ a + c <= b + left[0] /\ v[m] + left[m] <= w[m] + c
    BY <1>8, <1>9, <2>1
  <2>3. V[m] = v[m] + a /\ W[m] = w[m] + b
    BY <2>1
  <2> HIDE DEF a, b, c
  <2>4. (v[m] + a) + left[m] <= (w[m] + b) + left[0]
    <3>1. \A p, q, r, d, x, l, y \in Nat :
              p + r <= q + d /\ x + l <= y + r => (x + p) + l <= (y + q) + d
      OBVIOUS
    <3> QED
      BY <1>9, <2>2, <3>1
  <2> QED
    BY <2>3, <2>4
<1> QED
  BY <1>6, <1>10

\* A result that is sent takes no more than the allowance.
LEMMA ClampedFits ==
    ASSUME NEW tokens \in Nat, NEW share \in Nat
    PROVE  Clamped(tokens, EmptyObject + share) \in 0..(EmptyObject + share)
BY TranscriptAssumption DEF Clamped

\* Each result is sent within its envelope and what the ones before it left.
LEMMA BoundResultsShare ==
    ASSUME NEW sizes \in Seq(Nat), NEW extra \in Nat
    PROVE  \E left \in [0..Len(sizes) -> Nat] :
              /\ left[0] = extra
              /\ BoundResults(sizes, extra) \in Seq(Nat)
              /\ Len(BoundResults(sizes, extra)) = Len(sizes)
              /\ \A k \in 1..Len(sizes) :
                    BoundResults(sizes, extra)[k] + left[k] <= EmptyObject + left[k - 1]
<1> DEFINE n == Len(sizes)
           Sent(k, x) == Clamped(sizes[k], EmptyObject + x \div (n - k + 1))
           After(k, x) == Monus(x, Monus(Sent(k, x), EmptyObject))
           F == [k \in 1..n |-> [x \in Nat |-> After(k, x)]]
           IsLeft(g) == g = [k \in 0..n |-> IF k = 0 THEN extra ELSE After(k, g[k - 1])]
<1>1. n \in Nat /\ \A k \in 1..n : sizes[k] \in Nat /\ n - k + 1 \in Nat \ {0}
  OBVIOUS
<1>2. ASSUME NEW k \in 1..n, NEW x \in Nat
      PROVE  /\ Sent(k, x) \in Nat /\ After(k, x) \in Nat
             /\ Sent(k, x) + After(k, x) <= EmptyObject + x
  <2> DEFINE share == x \div (n - k + 1)
  <2>1. share \in 0..x
    <3>1. n - k + 1 \in Nat \ {0}
      BY <1>1
    <3>2. \A d \in Nat \ {0} : x \div d \in 0..x
      OBVIOUS
    <3> HIDE DEF n
    <3> QED
      BY <3>1, <3>2
  <2>2. Sent(k, x) \in 0..(EmptyObject + share)
    <3>1. sizes[k] \in Nat /\ share \in Nat
      BY <1>1, <2>1
    <3> HIDE DEF n, share
    <3> QED
      BY <3>1, ClampedFits DEF share
  <2>3. EmptyObject \in Nat
    BY TranscriptAssumption
  <2> DEFINE sent == Sent(k, x)
  <2>4. sent \in 0..(EmptyObject + share) /\ After(k, x) = Monus(x, Monus(sent, EmptyObject))
    BY <2>2
  <2> HIDE DEF sent, share, After
  <2>5. sent \in Nat /\ sent <= EmptyObject + x
    BY <2>1, <2>3, <2>4
  <2>6. After(k, x) \in Nat /\ sent + After(k, x) <= EmptyObject + x
    BY <2>3, <2>4, <2>5 DEF Monus
  <2> QED
    BY <2>5, <2>6 DEF sent
<1>3. PICK g : IsIterate(g, n, extra, F)
  <2> HIDE DEF F, n
  <2> QED
    BY <1>1, IterateExists
<1>4. \A k \in 0..n : g[k] = IF k = 0 THEN extra ELSE F[k][g[k - 1]]
  <2> HIDE DEF F, n
  <2> QED
    BY <1>3 DEF IsIterate
<1>5. \A k \in 0..n : g[k] \in Nat
  <2> DEFINE Bad == {k \in 0..n : g[k] \notin Nat}
  <2>1. SUFFICES ASSUME Bad # {} PROVE FALSE
    OBVIOUS
  <2>2. PICK m \in Bad : \A k \in Bad : m <= k
    <3>1. Bad \in SUBSET Nat
      BY <1>1
    <3> HIDE DEF Bad
    <3> QED
      BY <2>1, <3>1, LeastNat
  <2>3. m # 0
    BY <1>4, <2>2
  <2>4. m \in 1..n /\ m - 1 \in 0..n /\ g[m - 1] \in Nat
    BY <1>1, <2>2, <2>3
  <2>5. g[m] = After(m, g[m - 1])
    <3>1. g[m] = F[m][g[m - 1]]
      BY <1>4, <2>3, <2>4
    <3> HIDE DEF After
    <3> QED
      BY <2>4, <3>1
  <2>6. g[m] \in Nat
    BY <1>2, <2>4, <2>5
  <2> QED
    BY <2>2, <2>6
<1>6. IsLeft(g)
  <2>1. ASSUME NEW k \in 1..n PROVE F[k][g[k - 1]] = After(k, g[k - 1])
    <3>1. g[k - 1] \in Nat
      BY <1>1, <1>5
    <3> HIDE DEF After
    <3> QED
      BY <3>1
  <2>2. g = [k \in 0..n |-> IF k = 0 THEN extra ELSE F[k][g[k - 1]]]
    BY <1>3 DEF IsIterate
  <2>3. ASSUME NEW k \in 0..n
        PROVE  (IF k = 0 THEN extra ELSE F[k][g[k - 1]]) = (IF k = 0 THEN extra ELSE After(k, g[k - 1]))
    BY <1>1, <2>1
  <2> HIDE DEF F, After
  <2> QED
    BY <2>2, <2>3
<1> DEFINE left == CHOOSE h : IsLeft(h)
<1>7. IsLeft(left)
  <2> HIDE DEF IsLeft
  <2> QED
    BY <1>6
<1>8. BoundResults(sizes, extra) = [k \in 1..n |-> Sent(k, left[k - 1])]
  BY DEF BoundResults
<1> HIDE DEF left
<1>9. \A k \in 0..n : left[k] = IF k = 0 THEN extra ELSE After(k, left[k - 1])
  <2> HIDE DEF After
  <2> QED
    BY <1>7
<1>10. \A k \in 0..n : left[k] \in Nat
  <2> DEFINE Bad == {k \in 0..n : left[k] \notin Nat}
  <2>1. SUFFICES ASSUME Bad # {} PROVE FALSE
    OBVIOUS
  <2>2. PICK m \in Bad : \A k \in Bad : m <= k
    <3>1. Bad \in SUBSET Nat
      BY <1>1
    <3> HIDE DEF Bad
    <3> QED
      BY <2>1, <3>1, LeastNat
  <2>3. m # 0
    BY <1>9, <2>2
  <2>4. m \in 1..n /\ m - 1 \in 0..n /\ left[m - 1] \in Nat
    BY <1>1, <2>2, <2>3
  <2>5. left[m] = After(m, left[m - 1])
    BY <1>9, <2>3, <2>4
  <2>6. left[m] \in Nat
    BY <1>2, <2>4, <2>5
  <2> QED
    BY <2>2, <2>6
<1>11. left \in [0..n -> Nat] /\ left[0] = extra
  <2>1. left = [k \in 0..n |-> left[k]]
    <3> HIDE DEF After
    <3> QED
      BY <1>7
  <2>2. left[0] = extra
    BY <1>1, <1>9
  <2> HIDE DEF n
  <2> QED
    BY <1>10, <2>1, <2>2
<1>12. ASSUME NEW k \in 1..n
       PROVE  /\ Sent(k, left[k - 1]) \in Nat
              /\ Sent(k, left[k - 1]) + left[k] <= EmptyObject + left[k - 1]
  <2>1. k - 1 \in 0..n /\ k \in 0..n /\ left[k - 1] \in Nat
    BY <1>1, <1>10
  <2>2. left[k] = After(k, left[k - 1])
    BY <1>1, <1>9, <2>1
  <2> HIDE DEF After, Sent
  <2> QED
    BY <1>2, <2>1, <2>2
<1>13. BoundResults(sizes, extra) \in Seq(Nat) /\ Len(BoundResults(sizes, extra)) = n
  <2> HIDE DEF Sent
  <2> QED
    BY <1>1, <1>8, <1>12
<1>14. \A k \in 1..n : BoundResults(sizes, extra)[k] = Sent(k, left[k - 1])
  <2> HIDE DEF Sent
  <2> QED
    BY <1>8
<1> QED
  <2>1. \A k \in 1..n : BoundResults(sizes, extra)[k] + left[k] <= EmptyObject + left[k - 1]
    <3> HIDE DEF Sent
    <3> QED
      BY <1>12, <1>14
  <2> QED
    BY <1>11, <1>13, <2>1

\* Arguments that are sent take no more than their allowance beyond {}.
LEMMA SentArgumentsFit ==
    ASSUME NEW args \in Nat, NEW share \in Nat
    PROVE  SentArguments(args, share) \in 0..(EmptyObject + share)
BY TranscriptAssumption DEF SentArguments, Monus

\* The same for the arguments of the calls.
LEMMA BoundCallsShare ==
    ASSUME NEW calls \in Seq(Call), NEW extra \in Nat
    PROVE  \E left \in [0..Len(calls) -> Nat] :
              /\ left[0] = extra
              /\ BoundCalls(calls, extra) \in Seq(Nat)
              /\ Len(BoundCalls(calls, extra)) = Len(calls)
              /\ \A k \in 1..Len(calls) :
                    BoundCalls(calls, extra)[k] + left[k] <= EmptyObject + left[k - 1]
<1> DEFINE n == Len(calls)
           Sent(k, x) == SentArguments(calls[k].args, x \div (n - k + 1))
           After(k, x) == Monus(x, Monus(Sent(k, x), EmptyObject))
           F == [k \in 1..n |-> [x \in Nat |-> After(k, x)]]
           IsLeft(g) == g = [k \in 0..n |-> IF k = 0 THEN extra ELSE After(k, g[k - 1])]
<1>1. n \in Nat /\ \A k \in 1..n : calls[k].args \in Nat /\ n - k + 1 \in Nat \ {0}
  <2>1. n \in Nat /\ \A k \in 1..n : calls[k] \in Call /\ n - k + 1 \in Nat \ {0}
    OBVIOUS
  <2> QED
    BY <2>1 DEF Call
<1>2. ASSUME NEW k \in 1..n, NEW x \in Nat
      PROVE  /\ Sent(k, x) \in Nat /\ After(k, x) \in Nat
             /\ Sent(k, x) + After(k, x) <= EmptyObject + x
  <2> DEFINE share == x \div (n - k + 1)
  <2>1. share \in 0..x
    <3>1. n - k + 1 \in Nat \ {0}
      BY <1>1
    <3>2. \A d \in Nat \ {0} : x \div d \in 0..x
      OBVIOUS
    <3> HIDE DEF n
    <3> QED
      BY <3>1, <3>2
  <2>2. Sent(k, x) \in 0..(EmptyObject + share)
    <3>1. calls[k].args \in Nat /\ share \in Nat
      BY <1>1, <2>1
    <3> HIDE DEF n, share
    <3> QED
      BY <3>1, SentArgumentsFit DEF share
  <2>3. EmptyObject \in Nat
    BY TranscriptAssumption
  <2> DEFINE sent == Sent(k, x)
  <2>4. sent \in 0..(EmptyObject + share) /\ After(k, x) = Monus(x, Monus(sent, EmptyObject))
    BY <2>2
  <2> HIDE DEF sent, share, After
  <2>5. sent \in Nat /\ sent <= EmptyObject + x
    BY <2>1, <2>3, <2>4
  <2>6. After(k, x) \in Nat /\ sent + After(k, x) <= EmptyObject + x
    BY <2>3, <2>4, <2>5 DEF Monus
  <2> QED
    BY <2>5, <2>6 DEF sent
<1>3. PICK g : IsIterate(g, n, extra, F)
  <2> HIDE DEF F, n
  <2> QED
    BY <1>1, IterateExists
<1>4. \A k \in 0..n : g[k] = IF k = 0 THEN extra ELSE F[k][g[k - 1]]
  <2> HIDE DEF F, n
  <2> QED
    BY <1>3 DEF IsIterate
<1>5. \A k \in 0..n : g[k] \in Nat
  <2> DEFINE Bad == {k \in 0..n : g[k] \notin Nat}
  <2>1. SUFFICES ASSUME Bad # {} PROVE FALSE
    OBVIOUS
  <2>2. PICK m \in Bad : \A k \in Bad : m <= k
    <3>1. Bad \in SUBSET Nat
      BY <1>1
    <3> HIDE DEF Bad
    <3> QED
      BY <2>1, <3>1, LeastNat
  <2>3. m # 0
    BY <1>4, <2>2
  <2>4. m \in 1..n /\ m - 1 \in 0..n /\ g[m - 1] \in Nat
    BY <1>1, <2>2, <2>3
  <2>5. g[m] = After(m, g[m - 1])
    <3>1. g[m] = F[m][g[m - 1]]
      BY <1>4, <2>3, <2>4
    <3> HIDE DEF After
    <3> QED
      BY <2>4, <3>1
  <2>6. g[m] \in Nat
    BY <1>2, <2>4, <2>5
  <2> QED
    BY <2>2, <2>6
<1>6. IsLeft(g)
  <2>1. ASSUME NEW k \in 1..n PROVE F[k][g[k - 1]] = After(k, g[k - 1])
    <3>1. g[k - 1] \in Nat
      BY <1>1, <1>5
    <3> HIDE DEF After
    <3> QED
      BY <3>1
  <2>2. g = [k \in 0..n |-> IF k = 0 THEN extra ELSE F[k][g[k - 1]]]
    BY <1>3 DEF IsIterate
  <2>3. ASSUME NEW k \in 0..n
        PROVE  (IF k = 0 THEN extra ELSE F[k][g[k - 1]]) = (IF k = 0 THEN extra ELSE After(k, g[k - 1]))
    BY <1>1, <2>1
  <2> HIDE DEF F, After
  <2> QED
    BY <2>2, <2>3
<1> DEFINE left == CHOOSE h : IsLeft(h)
<1>7. IsLeft(left)
  <2> HIDE DEF IsLeft
  <2> QED
    BY <1>6
<1>8. BoundCalls(calls, extra) = [k \in 1..n |-> Sent(k, left[k - 1])]
  BY DEF BoundCalls
<1> HIDE DEF left
<1>9. \A k \in 0..n : left[k] = IF k = 0 THEN extra ELSE After(k, left[k - 1])
  <2> HIDE DEF After
  <2> QED
    BY <1>7
<1>10. \A k \in 0..n : left[k] \in Nat
  <2> DEFINE Bad == {k \in 0..n : left[k] \notin Nat}
  <2>1. SUFFICES ASSUME Bad # {} PROVE FALSE
    OBVIOUS
  <2>2. PICK m \in Bad : \A k \in Bad : m <= k
    <3>1. Bad \in SUBSET Nat
      BY <1>1
    <3> HIDE DEF Bad
    <3> QED
      BY <2>1, <3>1, LeastNat
  <2>3. m # 0
    BY <1>9, <2>2
  <2>4. m \in 1..n /\ m - 1 \in 0..n /\ left[m - 1] \in Nat
    BY <1>1, <2>2, <2>3
  <2>5. left[m] = After(m, left[m - 1])
    BY <1>9, <2>3, <2>4
  <2>6. left[m] \in Nat
    BY <1>2, <2>4, <2>5
  <2> QED
    BY <2>2, <2>6
<1>11. left \in [0..n -> Nat] /\ left[0] = extra
  <2>1. left = [k \in 0..n |-> left[k]]
    <3> HIDE DEF After
    <3> QED
      BY <1>7
  <2>2. left[0] = extra
    BY <1>1, <1>9
  <2> HIDE DEF n
  <2> QED
    BY <1>10, <2>1, <2>2
<1>12. ASSUME NEW k \in 1..n
       PROVE  /\ Sent(k, left[k - 1]) \in Nat
              /\ Sent(k, left[k - 1]) + left[k] <= EmptyObject + left[k - 1]
  <2>1. k - 1 \in 0..n /\ k \in 0..n /\ left[k - 1] \in Nat
    BY <1>1, <1>10
  <2>2. left[k] = After(k, left[k - 1])
    BY <1>1, <1>9, <2>1
  <2> HIDE DEF After, Sent
  <2> QED
    BY <1>2, <2>1, <2>2
<1>13. BoundCalls(calls, extra) \in Seq(Nat) /\ Len(BoundCalls(calls, extra)) = n
  <2> HIDE DEF Sent
  <2> QED
    BY <1>1, <1>8, <1>12
<1>14. \A k \in 1..n : BoundCalls(calls, extra)[k] = Sent(k, left[k - 1])
  <2> HIDE DEF Sent
  <2> QED
    BY <1>8
<1> QED
  <2>1. \A k \in 1..n : BoundCalls(calls, extra)[k] + left[k] <= EmptyObject + left[k - 1]
    <3> HIDE DEF Sent
    <3> QED
      BY <1>12, <1>14
  <2> QED
    BY <1>11, <1>13, <2>1

----------------------------------------------------------------------------
(* What is chosen of a sequence.                                             *)

\* What is chosen is a sequence of the same kind.
LEMMA ChosenTypes ==
    ASSUME NEW T, NEW s \in Seq(T), NEW I
    PROVE  Chosen(s, I) \in Seq(T)
<1> DEFINE parts == [k \in DOMAIN s |-> IF k \in I THEN <<s[k]>> ELSE <<>>]
<1>1. parts \in Seq(Seq(T))
  <2>1. \A k \in DOMAIN s : (IF k \in I THEN <<s[k]>> ELSE <<>>) \in Seq(T)
    OBVIOUS
  <2>2. DOMAIN s = 1..Len(s) /\ Len(s) \in Nat
    OBVIOUS
  <2> QED
    BY <2>1, <2>2
<1>2. Chosen(s, I) = FlattenSeq(parts)
  BY DEF Chosen
<1> HIDE DEF parts
<1> QED
  BY <1>1, <1>2, JoinsExists, FlattenIs

\* Nothing to choose from.
LEMMA ChosenEmpty == ASSUME NEW I PROVE Chosen(<<>>, I) = <<>>
<1>1. [k \in DOMAIN <<>> |-> IF k \in I THEN << <<>>[k] >> ELSE <<>>] = <<>>
  OBVIOUS
<1>2. Chosen(<<>>, I) = FlattenSeq([k \in DOMAIN <<>> |-> IF k \in I THEN << <<>>[k] >> ELSE <<>>])
  BY DEF Chosen
<1> QED
  BY <1>1, <1>2, FlattenEmpty, Zenon

\* What is chosen, one element more.
LEMMA ChosenAppend ==
    ASSUME NEW T, NEW s \in Seq(T), NEW x \in T, NEW I
    PROVE  /\ Chosen(s, I) \in Seq(T)
           /\ Chosen(Append(s, x), I) =
                 Chosen(s, I) \o (IF Len(s) + 1 \in I THEN <<x>> ELSE <<>>)
<1> DEFINE Part(r, k) == IF k \in I THEN <<r[k]>> ELSE <<>>
           Parts(r) == [k \in DOMAIN r |-> Part(r, k)]
           n == Len(s)
           more == Append(s, x)
           last == IF n + 1 \in I THEN <<x>> ELSE <<>>
<1>1. /\ n \in Nat /\ DOMAIN s = 1..n /\ DOMAIN more = 1..(n + 1)
      /\ \A k \in 1..n : s[k] \in T /\ more[k] = s[k]
      /\ more[n + 1] = x
  OBVIOUS
<1>2. Parts(s) \in Seq(Seq(T)) /\ Len(Parts(s)) = n
  <2>1. \A k \in 1..n : Part(s, k) \in Seq(T)
    BY <1>1
  <2>2. Parts(s) = [k \in 1..n |-> Part(s, k)]
    BY <1>1
  <2> HIDE DEF Part, n, Parts
  <2> QED
    BY <1>1, <2>1, <2>2
<1>3. last \in Seq(T)
  OBVIOUS
<1>4. Parts(more) = Append(Parts(s), last)
  <2> DEFINE p == Parts(s)
             q == Parts(more)
             r == Append(p, last)
  <2>1. r \in Seq(Seq(T)) /\ Len(r) = n + 1 /\ r[n + 1] = last /\ \A k \in 1..n : r[k] = p[k]
    <3> HIDE DEF p, last
    <3> QED
      BY <1>2, <1>3 DEF p
  <2>2. \A k \in 1..n : p[k] = Part(s, k) /\ q[k] = Part(s, k)
    <3> SUFFICES ASSUME NEW k \in 1..n PROVE p[k] = Part(s, k) /\ q[k] = Part(s, k)
      OBVIOUS
    <3>1. p[k] = Part(s, k)
      BY <1>1
    <3>2. q[k] = Part(more, k)
      <4>1. k \in 1..(n + 1)
        BY <1>1
      <4> QED
        BY <1>1, <4>1
    <3>3. more[k] = s[k]
      BY <1>1
    <3> HIDE DEF p, q, more
    <3> QED
      BY <3>1, <3>2, <3>3
  <2>3. q[n + 1] = last
    <3>1. n + 1 \in 1..(n + 1)
      BY <1>1
    <3>2. q[n + 1] = Part(more, n + 1)
      BY <1>1, <3>1
    <3> HIDE DEF q, more
    <3> QED
      BY <1>1, <3>2
  <2>4. \A k \in 1..(n + 1) : k \in 1..n \/ k = n + 1
    BY <1>1
  <2>5. q \in Seq(Seq(T)) /\ Len(q) = n + 1
    <3>1. q = [k \in 1..(n + 1) |-> q[k]]
      BY <1>1
    <3>2. \A k \in 1..n : p[k] \in Seq(T)
      <4> HIDE DEF p
      <4> QED
        BY <1>2 DEF p
    <3>3. \A k \in 1..(n + 1) : q[k] \in Seq(T)
      <4> HIDE DEF q, p, Part, last, n
      <4> QED
        BY <1>3, <2>2, <2>3, <2>4, <3>2
    <3> HIDE DEF q, n
    <3> QED
      BY <1>1, <3>1, <3>3
  <2>6. \A k \in 1..(n + 1) : q[k] = r[k]
    <3> HIDE DEF q, p, r, Part, last, n
    <3> QED
      BY <2>1, <2>2, <2>3, <2>4
  <2>7. q = r
    <3> HIDE DEF q, r
    <3> QED
      BY <2>1, <2>5, <2>6, SeqEqual
  <2> QED
    BY <2>7
<1>5. Chosen(s, I) = FlattenSeq(Parts(s)) /\ Chosen(more, I) = FlattenSeq(Parts(more))
  BY DEF Chosen
<1> HIDE DEF Parts, last
<1> QED
  <2>1. FlattenSeq(Append(Parts(s), last)) = FlattenSeq(Parts(s)) \o last /\ FlattenSeq(Parts(s)) \in Seq(T)
    BY <1>2, <1>3, FlattenAppend
  <2> QED
    BY <1>4, <1>5, <2>1 DEF last

\* Only the positions that there are matter.
LEMMA ChosenSame ==
    ASSUME NEW s, NEW I, NEW J, \A k \in DOMAIN s : k \in I <=> k \in J
    PROVE  Chosen(s, I) = Chosen(s, J)
<1>1. [k \in DOMAIN s |-> IF k \in I THEN <<s[k]>> ELSE <<>>]
        = [k \in DOMAIN s |-> IF k \in J THEN <<s[k]>> ELSE <<>>]
  OBVIOUS
<1> QED
  BY <1>1, Zenon DEF Chosen

\* What is chosen of one sequence after the other.
LEMMA ChosenConcat ==
    ASSUME NEW T, NEW a \in Seq(T), NEW b \in Seq(T), NEW I, NEW J,
           \A k \in DOMAIN b : k \in J <=> Len(a) + k \in I
    PROVE  Chosen(a \o b, I) = Chosen(a, I) \o Chosen(b, J)
<1> DEFINE P == {x \in Seq(T) : \A K : (\A k \in DOMAIN x : k \in K <=> Len(a) + k \in I)
                                          => Chosen(a \o x, I) = Chosen(a, I) \o Chosen(x, K)}
<1>1. <<>> \in P
  <2>1. <<>> \in Seq(T) /\ Chosen(a, I) \in Seq(T)
    BY ChosenTypes
  <2>2. a \o <<>> = a /\ Chosen(a, I) \o <<>> = Chosen(a, I)
    BY <2>1, AppendToConcat
  <2>3. \A K : Chosen(<<>>, K) = <<>>
    BY ChosenEmpty
  <2> QED
    BY <2>1, <2>2, <2>3
<1>2. ASSUME NEW x \in P, NEW t \in T PROVE Append(x, t) \in P
  <2>1. x \in Seq(T) /\ Append(x, t) \in Seq(T) /\ Len(x) \in Nat /\ Len(a) \in Nat
        /\ DOMAIN x = 1..Len(x) /\ DOMAIN Append(x, t) = 1..(Len(x) + 1)
    OBVIOUS
  <2>2. SUFFICES ASSUME NEW K, \A k \in DOMAIN Append(x, t) : k \in K <=> Len(a) + k \in I
                 PROVE Chosen(a \o Append(x, t), I) = Chosen(a, I) \o Chosen(Append(x, t), K)
    BY <2>1
  <2>3. (\A k \in DOMAIN x : k \in K <=> Len(a) + k \in I)
        /\ (Len(x) + 1 \in K <=> Len(a) + (Len(x) + 1) \in I)
    <3>1. Len(x) + 1 \in 1..(Len(x) + 1) /\ \A k \in 1..Len(x) : k \in 1..(Len(x) + 1)
      BY <2>1
    <3> QED
      BY <2>1, <2>2, <3>1, Zenon
  <2>4. Chosen(a \o x, I) = Chosen(a, I) \o Chosen(x, K)
    BY <2>3
  <2> DEFINE last == IF Len(x) + 1 \in K THEN <<t>> ELSE <<>>
  <2>5. Chosen(Append(x, t), K) = Chosen(x, K) \o last
    BY <2>1, ChosenAppend
  <2>6. a \o Append(x, t) = Append(a \o x, t) /\ a \o x \in Seq(T) /\ Len(a \o x) = Len(a) + Len(x)
    BY <2>1, AppendToConcat
  <2>7. Len(a \o x) + 1 = Len(a) + (Len(x) + 1)
    BY <2>1, <2>6
  <2>8. Chosen(Append(a \o x, t), I)
           = Chosen(a \o x, I) \o (IF Len(a \o x) + 1 \in I THEN <<t>> ELSE <<>>)
    <3> DEFINE z == a \o x
    <3> HIDE DEF z
    <3>1. z \in Seq(T)
      BY <2>6 DEF z
    <3>2. Chosen(Append(z, t), I) = Chosen(z, I) \o (IF Len(z) + 1 \in I THEN <<t>> ELSE <<>>)
      BY <3>1, ChosenAppend
    <3> QED
      BY <3>2 DEF z
  <2>9. Chosen(Append(a \o x, t), I) = Chosen(a \o x, I) \o last
    <3>1. Len(a \o x) + 1 \in I <=> Len(x) + 1 \in K
      BY <2>3, <2>7
    <3> QED
      BY <2>8, <3>1, Zenon
  <2>10. Chosen(a, I) \in Seq(T) /\ Chosen(x, K) \in Seq(T) /\ last \in Seq(T)
    BY <2>1, ChosenTypes
  <2> HIDE DEF last
  <2>11. (Chosen(a, I) \o Chosen(x, K)) \o last = Chosen(a, I) \o (Chosen(x, K) \o last)
    <3> DEFINE p == Chosen(a, I)
               q == Chosen(x, K)
    <3> HIDE DEF p, q, P
    <3>1. p \in Seq(T) /\ q \in Seq(T) /\ last \in Seq(T)
      BY <2>10 DEF p, q
    <3>2. (p \o q) \o last = p \o (q \o last)
      BY <3>1
    <3> QED
      BY <3>2 DEF p, q
  <2> QED
    BY <2>4, <2>5, <2>6, <2>9, <2>11
<1>3. P \in SUBSET Seq(T)
  OBVIOUS
<1>4. Seq(T) \subseteq P
  <2> HIDE DEF P
  <2> QED
    BY <1>1, <1>2, <1>3, SeqInduction
<1> QED
  BY <1>4

\* Everything or nothing is chosen.
LEMMA ChosenAllOrNone ==
    ASSUME NEW T, NEW s \in Seq(T), NEW I
    PROVE  /\ (\A k \in DOMAIN s : k \in I) => Chosen(s, I) = s
           /\ (\A k \in DOMAIN s : k \notin I) => Chosen(s, I) = <<>>
<1> DEFINE P == {x \in Seq(T) : /\ (\A k \in DOMAIN x : k \in I) => Chosen(x, I) = x
                                /\ (\A k \in DOMAIN x : k \notin I) => Chosen(x, I) = <<>>}
<1>1. <<>> \in P
  <2>1. Chosen(<<>>, I) = <<>> /\ <<>> \in Seq(T)
    BY ChosenEmpty
  <2> QED
    BY <2>1
<1>2. ASSUME NEW x \in P, NEW t \in T PROVE Append(x, t) \in P
  <2>1. x \in Seq(T) /\ Append(x, t) \in Seq(T) /\ Len(x) \in Nat /\ Len(x) + 1 \in 1..(Len(x) + 1)
        /\ DOMAIN x = 1..Len(x) /\ DOMAIN Append(x, t) = 1..(Len(x) + 1) /\ <<t>> \in Seq(T)
    OBVIOUS
  <2>2. Chosen(Append(x, t), I) = Chosen(x, I) \o (IF Len(x) + 1 \in I THEN <<t>> ELSE <<>>)
    BY <2>1, ChosenAppend
  <2>3. ASSUME \A k \in DOMAIN Append(x, t) : k \in I PROVE Chosen(Append(x, t), I) = Append(x, t)
    <3>1. (\A k \in DOMAIN x : k \in I) /\ Len(x) + 1 \in I
      BY <2>1, <2>3
    <3>2. Chosen(x, I) = x
      BY <3>1
    <3>3. x \o <<t>> = Append(x, t)
      BY <2>1, AppendToConcat
    <3> QED
      BY <2>2, <3>1, <3>2, <3>3
  <2>4. ASSUME \A k \in DOMAIN Append(x, t) : k \notin I PROVE Chosen(Append(x, t), I) = <<>>
    <3>1. (\A k \in DOMAIN x : k \notin I) /\ Len(x) + 1 \notin I
      BY <2>1, <2>4
    <3>2. Chosen(x, I) = <<>>
      BY <3>1
    <3>3. <<>> \o <<>> = <<>>
      BY <2>1, AppendToConcat
    <3> QED
      BY <2>2, <3>1, <3>2, <3>3
  <2> QED
    BY <2>1, <2>3, <2>4
<1>3. P \in SUBSET Seq(T)
  OBVIOUS
<1>4. Seq(T) \subseteq P
  <2> HIDE DEF P
  <2> QED
    BY <1>1, <1>2, <1>3, SeqInduction
<1> QED
  BY <1>4

\* The positions chosen, in order: every chosen position once.
Positions(f, s, I, c) ==
    /\ f \in [1..Len(c) -> I \cap DOMAIN s]
    /\ \A k, l \in 1..Len(c) : f[k] = f[l] => k = l
    /\ \A i \in I \cap DOMAIN s : \E k \in 1..Len(c) : f[k] = i
    /\ \A k \in 1..Len(c) : c[k] = s[f[k]]

\* What is chosen are the elements at the chosen positions.
LEMMA ChosenPositions ==
    ASSUME NEW T, NEW s \in Seq(T), NEW I
    PROVE  \E f : Positions(f, s, I, Chosen(s, I))
<1> DEFINE P == {x \in Seq(T) : \E f : Positions(f, x, I, Chosen(x, I))}
<1>1. <<>> \in P
  <2>1. Chosen(<<>>, I) = <<>> /\ <<>> \in Seq(T)
    BY ChosenEmpty
  <2>2. Positions(<<>>, <<>>, I, <<>>)
    BY DEF Positions
  <2> QED
    BY <2>1, <2>2
<1>2. ASSUME NEW x \in P, NEW t \in T PROVE Append(x, t) \in P
  <2> DEFINE n == Len(x)
             y == Append(x, t)
             c == Chosen(x, I)
             d == Chosen(y, I)
  <2>1. /\ x \in Seq(T) /\ y \in Seq(T) /\ n \in Nat
        /\ DOMAIN x = 1..n /\ DOMAIN y = 1..(n + 1) /\ y[n + 1] = t /\ \A k \in 1..n : y[k] = x[k]
    OBVIOUS
  <2>2. PICK f : Positions(f, x, I, c)
    OBVIOUS
  <2>3. c \in Seq(T) /\ d = c \o (IF n + 1 \in I THEN <<t>> ELSE <<>>)
    BY <2>1, ChosenTypes, ChosenAppend
  <2> HIDE DEF c, d, y, n
  <2>4. CASE n + 1 \notin I
    <3>1. d = c
      <4>1. c \o <<>> = c
        BY <2>3, AppendToConcat
      <4> QED
        BY <2>3, <2>4, <4>1
    <3>2. I \cap DOMAIN y = I \cap DOMAIN x
      <4>1. \A k \in 1..(n + 1) : k \in 1..n \/ k = n + 1
        BY <2>1
      <4>2. \A k \in 1..n : k \in 1..(n + 1)
        BY <2>1
      <4> QED
        BY <2>1, <2>4, <4>1, <4>2
    <3>3. Positions(f, y, I, d)
      BY <2>1, <2>2, <3>1, <3>2 DEF Positions
    <3> QED
      BY <2>1, <3>3 DEF d, y
  <2>5. CASE n + 1 \in I
    <3> DEFINE m == Len(c)
               g == [k \in 1..(m + 1) |-> IF k = m + 1 THEN n + 1 ELSE f[k]]
    <3>1. m \in Nat /\ Len(d) = m + 1 /\ d[m + 1] = t /\ \A k \in 1..m : d[k] = c[k]
      BY <2>3, <2>5
    <3>2. \A k \in 1..m : k \in 1..(m + 1) /\ k # m + 1
      BY <3>1
    <3>3. m + 1 \in 1..(m + 1) /\ \A k \in 1..(m + 1) : k = m + 1 \/ k \in 1..m
      BY <3>1
    <3>4. \A k \in 1..(n + 1) : k = n + 1 \/ k \in 1..n
      BY <2>1
    <3>5. n + 1 \in 1..(n + 1) /\ \A k \in 1..n : k \in 1..(n + 1) /\ k # n + 1
      BY <2>1
    <3>6. g[m + 1] = n + 1 /\ \A k \in 1..m : g[k] = f[k]
      BY <3>2, <3>3
    <3>7. /\ \A k \in 1..m : f[k] \in I /\ f[k] \in 1..n /\ c[k] = x[f[k]]
          /\ \A k, l \in 1..m : f[k] = f[l] => k = l
          /\ \A i \in 1..n : i \in I => \E k \in 1..m : f[k] = i
      BY <2>1, <2>2 DEF Positions
    <3>8. g \in [1..(m + 1) -> I \cap (1..(n + 1))]
      <4>1. \A k \in 1..(m + 1) : g[k] \in I \cap (1..(n + 1))
        <5> HIDE DEF m, g
        <5> QED
          BY <2>5, <3>3, <3>5, <3>6, <3>7
      <4>2. g = [k \in 1..(m + 1) |-> g[k]]
        OBVIOUS
      <4> HIDE DEF m, g
      <4> QED
        BY <4>1, <4>2
    <3> HIDE DEF m, g
    <3>9. \A k, l \in 1..(m + 1) : g[k] = g[l] => k = l
      BY <3>3, <3>5, <3>6, <3>7, ZenonT(60)
    <3>10. \A i \in I \cap (1..(n + 1)) : \E k \in 1..(m + 1) : g[k] = i
      BY <3>2, <3>3, <3>4, <3>6, <3>7, Zenon
    <3>11. \A k \in 1..(m + 1) : d[k] = y[g[k]]
      <4>1. d[m + 1] = y[g[m + 1]]
        BY <2>1, <3>1, <3>6
      <4>2. ASSUME NEW k \in 1..m PROVE d[k] = y[g[k]]
        BY <2>1, <3>1, <3>6, <3>7
      <4> QED
        BY <3>3, <4>1, <4>2, Zenon
    <3>12. Positions(g, y, I, d)
      BY <2>1, <3>1, <3>8, <3>9, <3>10, <3>11 DEF Positions
    <3> QED
      BY <2>1, <3>12 DEF d, y
  <2> QED
    BY <2>4, <2>5
<1>3. P \in SUBSET Seq(T)
  OBVIOUS
<1>4. Seq(T) \subseteq P
  <2> HIDE DEF P
  <2> QED
    BY <1>1, <1>2, <1>3, SeqInduction
<1> QED
  BY <1>4

\* Empty sequences can be left out before flattening.
LEMMA FlattenChosen ==
    ASSUME NEW T, NEW seqs \in Seq(Seq(T)), NEW I, \A k \in DOMAIN seqs : k \notin I => seqs[k] = <<>>
    PROVE  FlattenSeq(Chosen(seqs, I)) = FlattenSeq(seqs)
<1> DEFINE P == {x \in Seq(Seq(T)) : (\A k \in DOMAIN x : k \notin I => x[k] = <<>>)
                                        => FlattenSeq(Chosen(x, I)) = FlattenSeq(x)}
<1>1. <<>> \in P
  <2>1. Chosen(<<>>, I) = <<>> /\ <<>> \in Seq(Seq(T))
    BY ChosenEmpty
  <2> QED
    BY <2>1
<1>2. ASSUME NEW x \in P, NEW s \in Seq(T) PROVE Append(x, s) \in P
  <2>1. x \in Seq(Seq(T)) /\ Append(x, s) \in Seq(Seq(T)) /\ Len(x) \in Nat
        /\ DOMAIN x = 1..Len(x) /\ DOMAIN Append(x, s) = 1..(Len(x) + 1)
        /\ Append(x, s)[Len(x) + 1] = s /\ (\A k \in 1..Len(x) : Append(x, s)[k] = x[k])
        /\ Len(x) + 1 \in 1..(Len(x) + 1) /\ \A k \in 1..Len(x) : k \in 1..(Len(x) + 1)
    OBVIOUS
  <2>2. SUFFICES ASSUME \A k \in DOMAIN Append(x, s) : k \notin I => Append(x, s)[k] = <<>>
                 PROVE  FlattenSeq(Chosen(Append(x, s), I)) = FlattenSeq(Append(x, s))
    BY <2>1
  <2>3. (\A k \in DOMAIN x : k \notin I => x[k] = <<>>) /\ (Len(x) + 1 \notin I => s = <<>>)
    BY <2>1, <2>2, Zenon
  <2>4. FlattenSeq(Chosen(x, I)) = FlattenSeq(x)
    BY <2>3
  <2>5. FlattenSeq(Append(x, s)) = FlattenSeq(x) \o s /\ FlattenSeq(x) \in Seq(T)
    BY <2>1, FlattenAppend
  <2> DEFINE c == Chosen(x, I)
  <2> HIDE DEF c
  <2>6. c \in Seq(Seq(T)) /\ Chosen(Append(x, s), I) = c \o (IF Len(x) + 1 \in I THEN <<s>> ELSE <<>>)
    BY <2>1, ChosenTypes, ChosenAppend DEF c
  <2>7. CASE Len(x) + 1 \in I
    <3>1. c \o <<s>> = Append(c, s)
      BY <2>6, AppendToConcat
    <3>2. FlattenSeq(Append(c, s)) = FlattenSeq(c) \o s
      BY <2>6, FlattenAppend
    <3>3. Chosen(Append(x, s), I) = Append(c, s)
      BY <2>6, <2>7, <3>1, Zenon
    <3> QED
      BY <2>4, <2>5, <3>2, <3>3 DEF c
  <2>8. CASE Len(x) + 1 \notin I
    <3>1. c \o <<>> = c /\ FlattenSeq(x) \o <<>> = FlattenSeq(x)
      BY <2>5, <2>6, AppendToConcat
    <3>2. Chosen(Append(x, s), I) = c
      BY <2>6, <2>8, <3>1, Zenon
    <3> QED
      BY <2>3, <2>4, <2>5, <2>8, <3>1, <3>2 DEF c
  <2> QED
    BY <2>7, <2>8
<1>3. P \in SUBSET Seq(Seq(T))
  OBVIOUS
<1>4. Seq(Seq(T)) \subseteq P
  <2> HIDE DEF P
  <2> QED
    BY <1>1, <1>2, <1>3, SeqInduction
<1> QED
  BY <1>4

\* What is chosen when nothing of the first part is.
LEMMA ChosenOfRest ==
    ASSUME NEW T, NEW s \in Seq(T), NEW t \in Seq(T), NEW I, NEW J,
           \A k \in DOMAIN t : k \in J <=> Len(s) + k \in I
    PROVE  (\A k \in DOMAIN s : k \notin I) => Chosen(s \o t, I) = Chosen(t, J)
<1>1. Chosen(s \o t, I) = Chosen(s, I) \o Chosen(t, J)
  BY SMTT(60), ChosenConcat
<1>2. (\A k \in DOMAIN s : k \notin I) => Chosen(s, I) = <<>>
  BY ChosenAllOrNone
<1>3. Chosen(t, J) \in Seq(T)
  BY ChosenTypes
<1>4. <<>> \o Chosen(t, J) = Chosen(t, J)
  BY <1>3, AppendToConcat
<1> QED
  BY <1>1, <1>2, <1>4, Zenon

----------------------------------------------------------------------------
(* What of the history is sent fits its budget.                              *)

TokensIn(h) == [k \in DOMAIN h |-> h[k].tokens]
GroupSizes(gs) == [k \in DOMAIN gs |-> GroupTokens(gs[k])]

\* The tokens of messages are those of their sequence.
LEMMA TokensInTypes ==
    ASSUME NEW h \in Seq(Message)
    PROVE  TokensIn(h) \in Seq(Nat) /\ Len(TokensIn(h)) = Len(h) /\ DOMAIN TokensIn(h) = 1..Len(h)
<1>1. Len(h) \in Nat /\ DOMAIN h = 1..Len(h) /\ \A k \in 1..Len(h) : h[k] \in Message
  OBVIOUS
<1>2. \A k \in 1..Len(h) : h[k].tokens \in Nat
  BY <1>1 DEF Message
<1>3. TokensIn(h) = [k \in 1..Len(h) |-> h[k].tokens]
  BY <1>1 DEF TokensIn
<1> QED
  BY <1>1, <1>2, <1>3

\* One history after the other takes the tokens of both.
LEMMA TokensOfConcat ==
    ASSUME NEW a \in Seq(Message), NEW b \in Seq(Message)
    PROVE  HistoryTokens(a \o b) = HistoryTokens(a) + HistoryTokens(b)
<1> DEFINE m == Len(a)
           n == Len(b)
<1>1. m \in Nat /\ n \in Nat /\ DOMAIN a = 1..m /\ DOMAIN b = 1..n /\ DOMAIN (a \o b) = 1..(m + n)
  OBVIOUS
<1>2. /\ \A k \in 1..m : (a \o b)[k] = a[k]
      /\ \A k \in (m + 1)..(m + n) : (a \o b)[k] = b[k - m]
  OBVIOUS
<1>3. TokensIn(a) \in Seq(Nat) /\ TokensIn(b) \in Seq(Nat)
  BY TokensInTypes
<1> DEFINE u == TokensIn(a)
           v == TokensIn(b)
<1>4. Len(u) = m /\ Len(v) = n /\ (\A k \in 1..m : u[k] = a[k].tokens)
      /\ (\A k \in 1..n : v[k] = b[k].tokens)
  <2>1. Len(u) = m /\ Len(v) = n
    BY TokensInTypes
  <2> QED
    BY <1>1, <2>1 DEF TokensIn
<1>5. a \o b \in Seq(Message)
  OBVIOUS
<1>6. /\ TokensIn(a \o b) \in Seq(Nat) /\ Len(TokensIn(a \o b)) = m + n
      /\ \A k \in 1..(m + n) : TokensIn(a \o b)[k] = (a \o b)[k].tokens
  <2>1. Len(a \o b) = m + n
    OBVIOUS
  <2>2. TokensIn(a \o b) = [k \in 1..(m + n) |-> (a \o b)[k].tokens]
    BY <1>1 DEF TokensIn
  <2> HIDE DEF m, n
  <2> QED
    BY <1>5, <2>1, <2>2, TokensInTypes
<1>7. ASSUME NEW k \in 1..(m + n) PROVE (a \o b)[k].tokens = IF k <= m THEN u[k] ELSE v[k - m]
  <2>1. CASE k <= m
    <3>1. k \in 1..m
      BY <1>1, <2>1
    <3> HIDE DEF u, v, m, n
    <3> QED
      BY <1>2, <1>4, <2>1, <3>1
  <2>2. CASE ~(k <= m)
    <3>1. k \in (m + 1)..(m + n) /\ k - m \in 1..n
      BY <1>1, <2>2
    <3> HIDE DEF u, v, m, n
    <3> QED
      BY <1>2, <1>4, <2>2, <3>1
  <2> QED
    BY <2>1, <2>2
<1>8. TokensIn(a \o b) = u \o v
  <2>1. u \in Seq(Nat) /\ v \in Seq(Nat) /\ Len(u) = m /\ Len(v) = n
    BY <1>3, <1>4
  <2> HIDE DEF u, v, m, n
  <2>2. /\ u \o v \in Seq(Nat) /\ Len(u \o v) = m + n
        /\ \A k \in 1..(m + n) : (u \o v)[k] = IF k <= m THEN u[k] ELSE v[k - m]
    BY <2>1, ConcatProperties
  <2>3. \A k \in 1..(m + n) : TokensIn(a \o b)[k] = (u \o v)[k]
    BY <1>6, <1>7, <2>2
  <2> QED
    BY <1>6, <2>2, <2>3, SeqEqual
<1>9. Sum(u \o v) = Sum(u) + Sum(v)
  <2>1. u \in Seq(Nat) /\ v \in Seq(Nat)
    BY <1>3
  <2> HIDE DEF u, v
  <2> QED
    BY <2>1, SumOfConcat
<1> QED
  BY <1>8, <1>9 DEF HistoryTokens, TokensIn

\* The groups of a history take together what the history takes.
LEMMA TokensOfGroups ==
    ASSUME NEW gs \in Seq(Seq(Message))
    PROVE  /\ GroupSizes(gs) \in Seq(Nat)
           /\ HistoryTokens(FlattenSeq(gs)) = Sum(GroupSizes(gs))
<1> DEFINE n == Len(gs)
           w == GroupSizes(gs)
<1>1. n \in Nat /\ DOMAIN gs = 1..n /\ \A k \in 1..n : gs[k] \in Seq(Message)
  OBVIOUS
<1>2. ASSUME NEW g \in Seq(Message) PROVE GroupTokens(g) \in Nat /\ GroupTokens(g) = HistoryTokens(g)
  <2>1. TokensIn(g) \in Seq(Nat)
    BY TokensInTypes
  <2>2. Sum(TokensIn(g)) \in Nat
    BY <2>1, SumOfNats
  <2> QED
    BY <2>2 DEF GroupTokens, HistoryTokens, TokensIn
<1>3. w = [k \in 1..n |-> GroupTokens(gs[k])]
  BY <1>1 DEF GroupSizes
<1>4. w \in Seq(Nat) /\ DOMAIN w = 1..n /\ \A k \in 1..n : w[k] = HistoryTokens(gs[k]) /\ w[k] \in Nat
  <2>1. \A k \in 1..n : GroupTokens(gs[k]) \in Nat /\ GroupTokens(gs[k]) = HistoryTokens(gs[k])
    BY <1>1, <1>2
  <2> HIDE DEF n, w
  <2> QED
    BY <1>1, <1>3, <2>1
<1>5. PICK f : Joins(f, gs) /\ f \in [0..n -> Seq(Message)]
  BY JoinsExists
<1> HIDE DEF w
<1> DEFINE Bad == {k \in 0..n : HistoryTokens(f[k]) # SumOn(w, 1..k)}
<1>6. Bad = {}
  <2>1. SUFFICES ASSUME Bad # {} PROVE FALSE
    OBVIOUS
  <2>2. PICK m \in Bad : \A k \in Bad : m <= k
    <3>1. Bad \in SUBSET Nat
      BY <1>1
    <3> HIDE DEF Bad
    <3> QED
      BY <2>1, <3>1, LeastNat
  <2>3. m \in 0..n /\ HistoryTokens(f[m]) # SumOn(w, 1..m)
    BY <2>2
  <2>4. m # 0
    <3>1. f[0] = <<>>
      BY <1>5 DEF Joins
    <3>2. HistoryTokens(<<>>) = 0
      <4>1. [k \in DOMAIN <<>> |-> <<>>[k].tokens] = <<>>
        OBVIOUS
      <4> QED
        BY <4>1, SumOfEmpty DEF HistoryTokens
    <3>3. 1..0 = {}
      OBVIOUS
    <3>4. SumOn(w, 1..0) = 0
      BY <3>3, SumEmpty
    <3> QED
      BY <2>3, <3>1, <3>2, <3>4
  <2>5. m \in 1..n /\ m - 1 \in 0..n /\ ~(m <= m - 1) /\ m \in Nat /\ m > 0
    BY <1>1, <2>3, <2>4
  <2>6. HistoryTokens(f[m - 1]) = SumOn(w, 1..(m - 1))
    BY <2>2, <2>5
  <2>7. f[m] = f[m - 1] \o gs[m] /\ f[m - 1] \in Seq(Message) /\ gs[m] \in Seq(Message)
    BY <1>1, <1>5, <2>5 DEF Joins
  <2>8. HistoryTokens(f[m]) = HistoryTokens(f[m - 1]) + HistoryTokens(gs[m])
    BY <2>7, TokensOfConcat
  <2>9. SumOn(w, 1..m) = w[m] + SumOn(w, 1..(m - 1)) /\ SumOn(w, 1..(m - 1)) \in Nat
    <3>1. \A j \in 1..m : w[j] \in Nat
      BY <1>4, <2>3
    <3> QED
      BY <2>5, <3>1, SumOfLast
  <2>10. w[m] = HistoryTokens(gs[m]) /\ w[m] \in Nat
    BY <1>4, <2>5
  <2> HIDE DEF n, Bad
  <2> QED
    BY <2>3, <2>6, <2>8, <2>9, <2>10
<1>7. FlattenSeq(gs) = f[n] /\ n \in 0..n
  BY <1>1, <1>5, FlattenIs
<1>8. HistoryTokens(f[n]) = SumOn(w, 1..n)
  BY <1>6, <1>7
<1> QED
  BY <1>4, <1>7, <1>8, SumIsSumOn DEF w

\* A group is made of messages of the history, at most without their calls.
LEMMA GroupTypes ==
    ASSUME NEW h \in Seq(Message), NEW i \in DOMAIN h
    PROVE  GroupAt(h, i) \in Seq(Message)
<1>1. h[i] \in Message
  OBVIOUS
<1>2. Chosen(h, Results(h, i)) \in Seq(Message)
  BY ChosenTypes
<1>3. <<h[i]>> \o Chosen(h, Results(h, i)) \in Seq(Message)
  BY <1>1, <1>2
<1>4. [h[i] EXCEPT !.calls = <<>>, !.tokens = h[i].plain] \in Message
  <2>1. ASSUME NEW m \in Message PROVE [m EXCEPT !.calls = <<>>, !.tokens = m.plain] \in Message
    <3>1. \A e \in Seq(STRING) : [m EXCEPT !.calls = e] \in Message
      BY DEF Message
    <3>2. <<>> \in Seq(STRING) /\ m.plain \in Nat
      BY DEF Message
    <3> DEFINE p == [m EXCEPT !.calls = <<>>]
    <3>3. p \in Message
      BY <3>1, <3>2
    <3>4. \A q \in Message, x \in Nat : [q EXCEPT !.tokens = x] \in Message
      BY DEF Message
    <3>5. [p EXCEPT !.tokens = m.plain] \in Message
      <4> HIDE DEF p
      <4> QED
        BY <3>2, <3>3, <3>4
    <3>6. [m EXCEPT !.calls = <<>>, !.tokens = m.plain] = [p EXCEPT !.tokens = m.plain]
      OBVIOUS
    <3> QED
      BY <3>5, <3>6
  <2> QED
    BY <1>1, <2>1
<1> DEFINE g == [h[i] EXCEPT !.calls = <<>>, !.tokens = h[i].plain]
<1>5. <<g>> \in Seq(Message) /\ <<h[i]>> \in Seq(Message) /\ <<>> \in Seq(Message)
  BY <1>1, <1>4
<1> QED
  BY <1>3, <1>5 DEF GroupAt

\* The groups are sequences of messages.
LEMMA GroupsTypes ==
    ASSUME NEW h \in Seq(Message)
    PROVE  Groups(h) \in Seq(Seq(Message))
<1> DEFINE gs == [i \in DOMAIN h |-> GroupAt(h, i)]
<1>1. gs \in Seq(Seq(Message))
  <2>1. \A i \in DOMAIN h : GroupAt(h, i) \in Seq(Message)
    BY GroupTypes
  <2>2. DOMAIN h = 1..Len(h) /\ Len(h) \in Nat
    OBVIOUS
  <2> QED
    BY <2>1, <2>2
<1>2. Groups(h) = Chosen(gs, {i \in DOMAIN gs : gs[i] # <<>>})
  BY DEF Groups
<1> HIDE DEF gs
<1> QED
  BY <1>1, <1>2, ChosenTypes

\* What is kept of the groups, oldest first: the longest tail that fits.
Kept(h, budget) ==
    LET newestFirst == Reverse(Groups(h))
    IN  Reverse(SubSeq(newestFirst, 1, Len(Fitting(GroupSizes(newestFirst), budget))))

\* The sizes of reversed groups are the reversed sizes.
LEMMA SizesOfReverse ==
    ASSUME NEW gs \in Seq(Seq(Message))
    PROVE  Reverse(gs) \in Seq(Seq(Message)) /\ GroupSizes(Reverse(gs)) = Reverse(GroupSizes(gs))
<1> DEFINE n == Len(gs)
<1>1. n \in Nat /\ DOMAIN gs = 1..n /\ \A k \in 1..n : gs[k] \in Seq(Message) /\ n - k + 1 \in 1..n
  OBVIOUS
<1>2. Reverse(gs) = [k \in 1..n |-> gs[n - k + 1]]
  BY DEF Reverse
<1>3. Reverse(gs) \in Seq(Seq(Message)) /\ DOMAIN Reverse(gs) = 1..n
  <2>1. \A k \in 1..n : gs[n - k + 1] \in Seq(Message)
    BY <1>1
  <2> HIDE DEF n
  <2> QED
    BY <1>1, <1>2, <2>1
<1>4. GroupSizes(gs) = [k \in 1..n |-> GroupTokens(gs[k])]
  BY <1>1 DEF GroupSizes
<1>5. Len(GroupSizes(gs)) = n
  <2> HIDE DEF n
  <2> QED
    BY <1>1, <1>4
<1>6. Reverse(GroupSizes(gs)) = [k \in 1..n |-> GroupTokens(gs[n - k + 1])]
  <2>1. Reverse(GroupSizes(gs)) = [k \in 1..n |-> GroupSizes(gs)[n - k + 1]]
    BY <1>5 DEF Reverse
  <2> HIDE DEF n
  <2> QED
    BY <1>1, <1>4, <2>1
<1>7. GroupSizes(Reverse(gs)) = [k \in 1..n |-> GroupTokens(gs[n - k + 1])]
  <2> HIDE DEF n
  <2> QED
    BY <1>2, <1>3 DEF GroupSizes
<1> QED
  BY <1>3, <1>6, <1>7

\* The history that is sent fits.
LEMMA TrimmedFits ==
    ASSUME NEW h \in Seq(Message), NEW budget \in Nat
    PROVE  TrimHistory(h, budget) \in Seq(Message) /\ HistoryTokens(TrimHistory(h, budget)) <= budget
<1> DEFINE gs == Reverse(Groups(h))
           sizes == GroupSizes(gs)
           fit == Fitting(sizes, budget)
<1>1. gs \in Seq(Seq(Message))
  BY GroupsTypes, SizesOfReverse
<1> HIDE DEF gs
<1>2. sizes \in Seq(Nat) /\ Len(sizes) = Len(gs) /\ \A k \in 1..Len(gs) : sizes[k] = GroupTokens(gs[k])
  <2>1. sizes \in Seq(Nat)
    BY <1>1, TokensOfGroups
  <2>2. sizes = [k \in 1..Len(gs) |-> GroupTokens(gs[k])]
    BY <1>1 DEF GroupSizes
  <2> HIDE DEF sizes
  <2> QED
    BY <1>1, <2>1, <2>2
<1> HIDE DEF sizes
<1>3. PICK n \in 0..Len(sizes) : fit = SubSeq(sizes, 1, n) /\ Sum(fit) <= budget
  BY <1>2, FittingFits
<1>4. Len(fit) = n
  BY <1>2, <1>3
<1> DEFINE q == SubSeq(gs, 1, n)
<1>5. q \in Seq(Seq(Message)) /\ Len(q) = n /\ DOMAIN q = 1..n /\ \A k \in 1..n : q[k] = gs[k]
  BY <1>1, <1>2, <1>3
<1>6. GroupSizes(q) = fit
  <2>1. GroupSizes(q) = [k \in 1..n |-> GroupTokens(gs[k])]
    <3> HIDE DEF q
    <3> QED
      BY <1>5 DEF GroupSizes
  <2>2. fit = [k \in 1..n |-> sizes[k]]
    <3>1. SubSeq(sizes, 1, n) = [k \in 1..n |-> sizes[k]]
      BY <1>2, <1>3
    <3> HIDE DEF fit
    <3> QED
      BY <1>3, <3>1
  <2>3. \A k \in 1..n : sizes[k] = GroupTokens(gs[k])
    BY <1>2, <1>3
  <2> HIDE DEF fit, q
  <2> QED
    BY <2>1, <2>2, <2>3
<1> HIDE DEF q, fit
<1>7. Reverse(q) \in Seq(Seq(Message)) /\ GroupSizes(Reverse(q)) = Reverse(fit)
  BY <1>5, <1>6, SizesOfReverse
<1>8. HistoryTokens(FlattenSeq(Reverse(q))) = Sum(Reverse(fit))
  BY <1>7, TokensOfGroups
<1>9. Sum(Reverse(fit)) = Sum(fit)
  <2>1. fit \in Seq(Nat)
    BY <1>2, FittingFits DEF fit
  <2> QED
    BY <2>1, SumOfReverse
<1>10. TrimHistory(h, budget) = FlattenSeq(Reverse(q))
  <2>1. TrimHistory(h, budget) = FlattenSeq(Reverse(SubSeq(gs, 1, Len(fit))))
    BY DEF TrimHistory, gs, sizes, fit, GroupSizes
  <2> QED
    BY <1>4, <2>1 DEF q
<1>11. FlattenSeq(Reverse(q)) \in Seq(Message)
  BY <1>7, JoinsExists, FlattenIs
<1> QED
  BY <1>3, <1>8, <1>9, <1>10, <1>11

----------------------------------------------------------------------------
(* The history is trimmed to whole groups, the newest.                        *)

\* The user messages of one history after the other.
LEMMA UsersConcat ==
    ASSUME NEW a \in Seq(Message), NEW b \in Seq(Message)
    PROVE  /\ Users(a) \in Seq(Message)
           /\ Users(a \o b) = Users(a) \o Users(b)
<1> DEFINE h == a \o b
           I == {k \in DOMAIN h : h[k].role = "user"}
           A == {k \in DOMAIN a : a[k].role = "user"}
           B == {k \in DOMAIN b : b[k].role = "user"}
<1>1. /\ Len(a) \in Nat /\ Len(b) \in Nat /\ DOMAIN a = 1..Len(a) /\ DOMAIN b = 1..Len(b)
      /\ DOMAIN h = 1..(Len(a) + Len(b))
      /\ \A k \in 1..Len(a) : k \in 1..(Len(a) + Len(b)) /\ h[k] = a[k]
      /\ \A k \in 1..Len(b) : Len(a) + k \in 1..(Len(a) + Len(b)) /\ h[Len(a) + k] = b[k]
  OBVIOUS
<1>2. Users(h) = Chosen(h, I) /\ Users(a) = Chosen(a, A) /\ Users(b) = Chosen(b, B)
  BY DEF Users
<1> HIDE DEF h
<1>3. /\ \A k \in DOMAIN a : k \in I <=> k \in A
      /\ \A k \in DOMAIN b : k \in B <=> Len(a) + k \in I
  BY <1>1
<1> HIDE DEF I, A, B
<1>4. Chosen(a, I) = Chosen(a, A)
  BY <1>3, ChosenSame
<1>5. Chosen(h, I) = Chosen(a, I) \o Chosen(b, B)
  BY SMTT(60), <1>3, ChosenConcat DEF h
<1>6. Chosen(a, A) \in Seq(Message)
  BY ChosenTypes
<1> QED
  BY <1>2, <1>4, <1>5, <1>6 DEF h

\* The user messages of flattened histories are those of each.
LEMMA UsersOfFlatten ==
    ASSUME NEW gs \in Seq(Seq(Message))
    PROVE  Users(FlattenSeq(gs)) = FlattenSeq([k \in DOMAIN gs |-> Users(gs[k])])
<1> DEFINE U(x) == [k \in DOMAIN x |-> Users(x[k])]
           P == {x \in Seq(Seq(Message)) : Users(FlattenSeq(x)) = FlattenSeq(U(x))}
<1>1. <<>> \in P
  <2>1. FlattenSeq(<<>>) = <<>> /\ <<>> \in Seq(Seq(Message))
    BY FlattenEmpty
  <2>2. Users(<<>>) = <<>>
    BY ChosenEmpty DEF Users
  <2>3. U(<<>>) = <<>>
    OBVIOUS
  <2> HIDE DEF U
  <2> QED
    BY <2>1, <2>2, <2>3
<1>2. ASSUME NEW x \in P, NEW s \in Seq(Message) PROVE Append(x, s) \in P
  <2> DEFINE y == Append(x, s)
             n == Len(x)
  <2>1. /\ x \in Seq(Seq(Message)) /\ y \in Seq(Seq(Message)) /\ n \in Nat
        /\ DOMAIN x = 1..n /\ DOMAIN y = 1..(n + 1)
        /\ y[n + 1] = s /\ (\A k \in 1..n : y[k] = x[k] /\ x[k] \in Seq(Message))
        /\ \A k \in 1..(n + 1) : k = n + 1 \/ k \in 1..n
    OBVIOUS
  <2>2. Users(FlattenSeq(x)) = FlattenSeq(U(x))
    OBVIOUS
  <2>3. FlattenSeq(y) = FlattenSeq(x) \o s /\ FlattenSeq(x) \in Seq(Message)
    BY <2>1, FlattenAppend
  <2>4. Users(FlattenSeq(x) \o s) = Users(FlattenSeq(x)) \o Users(s) /\ Users(s) \in Seq(Message)
    BY <2>3, UsersConcat
  <2>5. U(x) \in Seq(Seq(Message)) /\ Len(U(x)) = n
    <3>1. \A k \in 1..n : Users(x[k]) \in Seq(Message)
      BY <2>1, UsersConcat
    <3>2. U(x) = [k \in 1..n |-> Users(x[k])]
      BY <2>1
    <3> HIDE DEF U, n
    <3> QED
      BY <2>1, <3>1, <3>2
  <2>6. U(y) = Append(U(x), Users(s))
    <3> DEFINE v == Append(U(x), Users(s))
    <3>1. v = [k \in 1..(n + 1) |-> v[k]] /\ v[n + 1] = Users(s) /\ \A k \in 1..n : v[k] = U(x)[k]
      <4> DEFINE u == U(x)
                 w == Users(s)
      <4> HIDE DEF u, w
      <4>1. u \in Seq(Seq(Message)) /\ Len(u) = n /\ n \in Nat /\ w \in Seq(Message)
        BY <2>1, <2>4, <2>5 DEF u, w
      <4> HIDE DEF n
      <4>2. Append(u, w) \in Seq(Seq(Message)) /\ Len(Append(u, w)) = n + 1
        BY <4>1
      <4>3. Append(u, w)[n + 1] = w /\ \A k \in 1..n : Append(u, w)[k] = u[k]
        BY <4>1
      <4> QED
        BY <4>1, <4>2, <4>3 DEF u, w
    <3>2. \A k \in 1..n : U(x)[k] = Users(x[k])
      BY <2>1
    <3>3. U(y) = [k \in 1..(n + 1) |-> Users(y[k])]
      BY <2>1
    <3> HIDE DEF U, n, v, y
    <3>4. \A k \in 1..(n + 1) : v[k] = Users(y[k])
      BY <2>1, <3>1, <3>2, Zenon
    <3>5. v = [k \in 1..(n + 1) |-> Users(y[k])]
      BY <3>1, <3>4
    <3> QED
      BY <3>3, <3>5 DEF v
  <2>7. FlattenSeq(Append(U(x), Users(s))) = FlattenSeq(U(x)) \o Users(s)
    <3> HIDE DEF U
    <3> QED
      BY <2>4, <2>5, FlattenAppend
  <2> HIDE DEF U
  <2> QED
    BY <2>1, <2>2, <2>3, <2>4, <2>6, <2>7
<1>3. P \in SUBSET Seq(Seq(Message))
  OBVIOUS
<1>4. Seq(Seq(Message)) \subseteq P
  <2> HIDE DEF P
  <2> QED
    BY <1>1, <1>2, <1>3, SeqInduction
<1> QED
  BY <1>4

\* A message of the user, or one of the assistant with one result per call.
IsGroup(g) ==
    /\ g \in Seq(Message) /\ Len(g) >= 1
    /\ g[1].role # "tool" /\ \A k \in 2..Len(g) : g[k].role = "tool"
    /\ g[1].role = "user" => Len(g) = 1
    /\ g[1].role = "assistant" =>
          /\ {g[k].id : k \in 2..Len(g)} = ToSet(g[1].calls)
          /\ \A k, l \in 2..Len(g) : g[k].id = g[l].id => k = l
          /\ "" \notin ToSet(g[1].calls)
          /\ Cardinality(ToSet(g[1].calls)) = Len(g[1].calls)

\* A message without calls is a group of its own.
LEMMA SingleGroup ==
    ASSUME NEW m \in Message, m.role # "tool", m.role = "user" \/ m.calls = <<>>
    PROVE  IsGroup(<<m>>)
<1> DEFINE g == <<m>>
<1>1. g \in Seq(Message) /\ Len(g) = 1 /\ g[1] = m /\ 2..1 = {}
  OBVIOUS
<1> HIDE DEF g
<1>2. {g[k].id : k \in 2..Len(g)} = {} /\ \A k \in 2..Len(g) : FALSE
  BY <1>1
<1>3. m.role = "user" => IsGroup(g)
  BY <1>1, <1>2 DEF IsGroup
<1>4. m.calls = <<>> => ToSet(m.calls) = {} /\ Len(m.calls) = 0 /\ Cardinality(ToSet(m.calls)) = 0
  <2>1. ToSet(<<>>) = {} /\ Len(<<>>) = 0 /\ Cardinality({}) = 0
    BY FS_EmptySet DEF ToSet
  <2> QED
    BY <2>1, Zenon
<1>5. m.calls = <<>> => IsGroup(g)
  <2> SUFFICES ASSUME m.calls = <<>> PROVE IsGroup(g)
    OBVIOUS
  <2>1. /\ {g[k].id : k \in 2..Len(g)} = ToSet(g[1].calls)
        /\ "" \notin ToSet(g[1].calls)
        /\ Cardinality(ToSet(g[1].calls)) = Len(g[1].calls)
    BY <1>1, <1>2, <1>4, Zenon
  <2>2. Len(g) >= 1 /\ g[1].role # "tool"
    BY <1>1
  <2> QED
    BY <1>1, <1>2, <2>1, <2>2, Zenon DEF IsGroup
<1> QED
  BY <1>3, <1>5 DEF g

\* The results of a call are tool messages, one of each id.
LEMMA ResultsShape ==
    ASSUME NEW h \in Seq(Message), NEW i \in DOMAIN h
    PROVE  /\ FollowingTools(h, i) \subseteq DOMAIN h /\ Results(h, i) \subseteq FollowingTools(h, i)
           /\ \A j \in FollowingTools(h, i) : h[j].role = "tool" /\ j > i
           /\ \A j, k \in Results(h, i) : h[j].id = h[k].id => j = k
<1>1. Len(h) \in Nat /\ DOMAIN h = 1..Len(h) /\ i \in 1..Len(h)
  OBVIOUS
<1>2. \A j \in FollowingTools(h, i) : j \in (i + 1)..Len(h) /\ j \in (i + 1)..j /\ h[j].role = "tool"
  BY <1>1 DEF FollowingTools
<1>3. Results(h, i) \subseteq FollowingTools(h, i)
  BY DEF Results
<1>4. ASSUME NEW j \in Results(h, i), NEW k \in Results(h, i), h[j].id = h[k].id PROVE j = k
  <2>1. j \in Int /\ k \in Int
    BY <1>1, <1>2, <1>3
  <2>2. ~(k < j) /\ ~(j < k)
    BY <1>3, <1>4 DEF Results
  <2> QED
    BY <2>1, <2>2
<1>5. \A j \in (i + 1)..Len(h) : j \in 1..Len(h) /\ j > i
  BY <1>1
<1> QED
  BY <1>1, <1>2, <1>3, <1>4, <1>5

\* Calls with all their results are a group.
LEMMA CompleteGroup ==
    ASSUME NEW h \in Seq(Message), NEW i \in DOMAIN h, h[i].role = "assistant",
           Cardinality(Expected(h[i])) = Len(h[i].calls),
           {h[j].id : j \in Results(h, i)} = Expected(h[i])
    PROVE  IsGroup(<<h[i]>> \o Chosen(h, Results(h, i)))
<1> DEFINE m == h[i]
           R == Results(h, i)
           c == Chosen(h, R)
           g == <<m>> \o c
           n == Len(c)
<1>1. m \in Message /\ c \in Seq(Message) /\ n \in Nat
  <2>1. c \in Seq(Message)
    BY ChosenTypes
  <2> QED
    BY <2>1
<1>2. PICK f : Positions(f, h, R, c)
  BY ChosenPositions
<1>3. /\ R \subseteq DOMAIN h /\ (\A j \in R : h[j].role = "tool")
      /\ \A j, k \in R : h[j].id = h[k].id => j = k
  BY ResultsShape
<1> HIDE DEF R, c
<1>4. /\ \A k \in 1..n : f[k] \in R /\ c[k] = h[f[k]]
      /\ \A k, l \in 1..n : f[k] = f[l] => k = l
      /\ \A j \in R : \E k \in 1..n : f[k] = j
  BY <1>2, <1>3 DEF Positions
<1>5. /\ \A k \in 1..n : c[k].role = "tool"
      /\ \A k, l \in 1..n : c[k].id = c[l].id => k = l
      /\ {c[k].id : k \in 1..n} = Expected(m)
  <2>1. \A k \in 1..n : c[k].role = "tool"
    BY <1>3, <1>4
  <2>2. \A k, l \in 1..n : c[k].id = c[l].id => k = l
    BY <1>3, <1>4
  <2>3. {h[j].id : j \in R} = Expected(m)
    BY DEF R
  <2>4. {c[k].id : k \in 1..n} = {h[j].id : j \in R}
    BY <1>4
  <2> QED
    BY <2>1, <2>2, <2>3, <2>4
<1>6. /\ g \in Seq(Message) /\ Len(g) = n + 1 /\ g[1] = m
      /\ \A k \in 2..(n + 1) : k - 1 \in 1..n /\ g[k] = c[k - 1]
      /\ \A k \in 1..n : k + 1 \in 2..(n + 1) /\ (k + 1) - 1 = k
  BY <1>1
<1>7. "" \notin ToSet(m.calls) /\ Expected(m) = ToSet(m.calls)
  <2>1. m.calls \in Seq(STRING)
    BY <1>1 DEF Message
  <2>2. IsFiniteSet(ToSet(m.calls)) /\ Cardinality(ToSet(m.calls)) <= Len(m.calls)
    BY <2>1, SetOfSeq
  <2>3. Cardinality(ToSet(m.calls) \ {""})
           = IF "" \in ToSet(m.calls) THEN Cardinality(ToSet(m.calls)) - 1 ELSE Cardinality(ToSet(m.calls))
    BY <2>2, FS_RemoveElement
  <2>4. Cardinality(ToSet(m.calls)) \in Nat /\ Len(m.calls) \in Nat
    BY <2>1, <2>2, FS_CardinalityType
  <2>5. Cardinality(ToSet(m.calls) \ {""}) = Len(m.calls)
    BY DEF Expected
  <2>6. "" \notin ToSet(m.calls)
    <3> DEFINE x == Cardinality(ToSet(m.calls))
               y == Cardinality(ToSet(m.calls) \ {""})
               l == Len(m.calls)
    <3> HIDE DEF x, y, l
    <3>1. x \in Nat /\ l \in Nat /\ x <= l /\ y = l
      BY <2>2, <2>4, <2>5 DEF x, y, l
    <3>2. "" \in ToSet(m.calls) => y = x - 1
      BY <2>3, Zenon DEF x, y
    <3>3. ~(l = x - 1)
      BY <3>1
    <3> QED
      BY <3>1, <3>2, <3>3
  <2> QED
    BY <2>6 DEF Expected
<1> HIDE DEF g, m
<1>8. {g[k].id : k \in 2..Len(g)} = {c[k].id : k \in 1..n}
  <2>1. \A k \in 2..(n + 1) : \E l \in 1..n : g[k].id = c[l].id
    BY <1>6
  <2>2. \A k \in 1..n : \E l \in 2..(n + 1) : g[l].id = c[k].id
    <3> SUFFICES ASSUME NEW k \in 1..n PROVE g[k + 1].id = c[k].id /\ k + 1 \in 2..(n + 1)
      OBVIOUS
    <3> QED
      BY <1>6
  <2>3. Len(g) = n + 1
    BY <1>6
  <2>4. {g[k].id : k \in 2..(n + 1)} = {c[k].id : k \in 1..n}
    <3> DEFINE K == 2..(n + 1)
               L == 1..n
    <3> HIDE DEF K, L
    <3>1. (\A k \in K : \E l \in L : g[k].id = c[l].id) /\ (\A k \in L : \E l \in K : g[l].id = c[k].id)
      BY <2>1, <2>2 DEF K, L
    <3>2. {g[k].id : k \in K} = {c[k].id : k \in L}
      <4>1. ASSUME NEW k \in K PROVE g[k].id \in {c[l].id : l \in L}
        BY <3>1
      <4>2. ASSUME NEW k \in L PROVE c[k].id \in {g[l].id : l \in K}
        BY <3>1
      <4> QED
        BY <4>1, <4>2
    <3> QED
      BY <3>2 DEF K, L
  <2> QED
    BY <2>3, <2>4
<1>9. \A k \in 2..(n + 1) : g[k].role = "tool"
  BY <1>5, <1>6
<1>10. \A k, l \in 2..(n + 1) : g[k].id = g[l].id => k = l
  <2> SUFFICES ASSUME NEW k \in 2..(n + 1), NEW l \in 2..(n + 1), g[k].id = g[l].id PROVE k = l
    OBVIOUS
  <2>1. c[k - 1].id = c[l - 1].id /\ k - 1 \in 1..n /\ l - 1 \in 1..n
    BY <1>6
  <2>2. k - 1 = l - 1
    BY <1>5, <2>1
  <2> QED
    BY <2>2
<1>11. Cardinality(ToSet(m.calls)) = Len(m.calls)
  BY <1>7 DEF m
<1>12. m.role = "assistant"
  BY DEF m
<1>13. Len(g) >= 1
  BY <1>1, <1>6
<1>14. IsGroup(g)
  BY <1>5, <1>6, <1>7, <1>8, <1>9, <1>10, <1>11, <1>12, <1>13 DEF IsGroup
<1> QED
  BY <1>14 DEF g, m, c, R

\* What a message of the history becomes: a group or nothing.
LEMMA GroupShape ==
    ASSUME NEW h \in Seq(Message), NEW i \in DOMAIN h
    PROVE  /\ GroupAt(h, i) = <<>> \/ IsGroup(GroupAt(h, i))
           /\ h[i].role = "user" => GroupAt(h, i) = <<h[i]>>
           /\ h[i].role # "user" /\ GroupAt(h, i) # <<>> => GroupAt(h, i)[1].role = "assistant"
<1> DEFINE m == h[i]
           c == Chosen(h, Results(h, i))
           bare == [m EXCEPT !.calls = <<>>, !.tokens = m.plain]
           complete == /\ Cardinality(Expected(m)) = Len(m.calls)
                       /\ {h[j].id : j \in Results(h, i)} = Expected(m)
<1>1. m \in Message /\ c \in Seq(Message)
  <2>1. c \in Seq(Message)
    BY ChosenTypes
  <2> QED
    BY <2>1
<1>2. m.role \in {"user", "assistant", "tool"}
  BY <1>1 DEF Message
<1>3. bare \in Message /\ bare.calls = <<>> /\ bare.role = m.role
  <2>1. m = [role |-> m.role, calls |-> m.calls, id |-> m.id, blank |-> m.blank, tokens |-> m.tokens, plain |-> m.plain]
        /\ m.id \in STRING /\ m.blank \in BOOLEAN /\ m.plain \in Nat
    BY <1>1 DEF Message
  <2>2. bare = [role |-> m.role, calls |-> <<>>, id |-> m.id, blank |-> m.blank, tokens |-> m.plain, plain |-> m.plain]
    <3> HIDE DEF m
    <3>1. [m EXCEPT !.calls = <<>>]
             = [role |-> m.role, calls |-> <<>>, id |-> m.id, blank |-> m.blank, tokens |-> m.tokens, plain |-> m.plain]
      <4>1. \A e : [m EXCEPT !.calls = e]
               = [role |-> m.role, calls |-> e, id |-> m.id, blank |-> m.blank, tokens |-> m.tokens, plain |-> m.plain]
        BY <2>1
      <4> QED
        BY <4>1, Zenon
    <3> DEFINE p == [m EXCEPT !.calls = <<>>]
    <3>2. bare = [p EXCEPT !.tokens = m.plain]
      BY DEF m
    <3>3. [p EXCEPT !.tokens = m.plain]
             = [role |-> m.role, calls |-> <<>>, id |-> m.id, blank |-> m.blank, tokens |-> m.plain, plain |-> m.plain]
      <4> HIDE DEF p
      <4>1. p = [role |-> m.role, calls |-> <<>>, id |-> m.id, blank |-> m.blank, tokens |-> m.tokens, plain |-> m.plain]
        BY <3>1 DEF p
      <4> QED
        BY <4>1
    <3> HIDE DEF bare, p
    <3> QED
      BY <3>2, <3>3
  <2>3. <<>> \in Seq(STRING)
    OBVIOUS
  <2> HIDE DEF bare, m
  <2> QED
    BY <1>2, <2>1, <2>2, <2>3 DEF Message
<1>4. GroupAt(h, i) = IF m.role = "tool" THEN <<>>
                      ELSE IF m.role = "user" \/ m.calls = <<>> THEN <<m>>
                      ELSE IF complete THEN <<m>> \o c
                      ELSE IF m.blank THEN <<>>
                      ELSE <<bare>>
  BY DEF GroupAt
<1>5. complete /\ m.role = "assistant" => IsGroup(<<m>> \o c)
  BY CompleteGroup
<1>6. (<<m>> \o c)[1] = m /\ <<m>>[1] = m /\ <<bare>>[1] = bare
  BY <1>1
<1>7. m.role # "tool" /\ (m.role = "user" \/ m.calls = <<>>) => IsGroup(<<m>>)
  BY <1>1, SingleGroup
<1>8. m.role # "tool" => IsGroup(<<bare>>)
  <2> HIDE DEF bare, m
  <2> QED
    BY <1>3, SingleGroup
<1> HIDE DEF m, c, bare, complete
<1>9. GroupAt(h, i) = <<>> \/ IsGroup(GroupAt(h, i))
  BY <1>2, <1>4, <1>5, <1>7, <1>8, Zenon
<1>10. m.role = "user" => GroupAt(h, i) = <<m>>
  BY <1>4, Zenon
<1>11. m.role # "user" /\ GroupAt(h, i) # <<>> => GroupAt(h, i)[1].role = m.role
  BY <1>3, <1>4, <1>6, Zenon
<1>12. m.role # "user" /\ GroupAt(h, i) # <<>> => m.role = "assistant"
  BY <1>2, <1>4, Zenon
<1> QED
  BY <1>9, <1>10, <1>11, <1>12 DEF m

\* Only the first message of a group can be the user's.
LEMMA UsersOfGroup ==
    ASSUME NEW g, IsGroup(g)
    PROVE  /\ g[1].role = "user" => Users(g) = g
           /\ g[1].role # "user" => Users(g) = <<>>
<1> DEFINE I == {k \in DOMAIN g : g[k].role = "user"}
<1>1. g \in Seq(Message) /\ Len(g) >= 1 /\ (\A k \in 2..Len(g) : g[k].role = "tool")
      /\ (g[1].role = "user" => Len(g) = 1)
  BY DEF IsGroup
<1>2. DOMAIN g = 1..Len(g) /\ Len(g) \in Nat /\ \A k \in 1..Len(g) : k = 1 \/ k \in 2..Len(g)
  BY <1>1
<1>3. Users(g) = Chosen(g, I)
  BY DEF Users
<1>4. g[1].role = "user" => \A k \in DOMAIN g : k \in I
  BY <1>1, <1>2
<1>5. g[1].role # "user" => \A k \in DOMAIN g : k \notin I
  BY <1>1, <1>2
<1> HIDE DEF I
<1> QED
  BY <1>1, <1>3, <1>4, <1>5, ChosenAllOrNone

\* Grouping drops no user message and adds none.
LEMMA UsersOfGroups ==
    ASSUME NEW h \in Seq(Message)
    PROVE  Users(FlattenSeq(Groups(h))) = Users(h)
<1> DEFINE gs == [i \in DOMAIN h |-> GroupAt(h, i)]
           I == {i \in DOMAIN gs : gs[i] # <<>>}
           n == Len(h)
<1>1. n \in Nat /\ DOMAIN h = 1..n /\ DOMAIN gs = 1..n
  OBVIOUS
<1>2. gs \in Seq(Seq(Message))
  <2>1. \A i \in DOMAIN h : GroupAt(h, i) \in Seq(Message)
    BY GroupTypes
  <2>2. gs = [i \in 1..n |-> GroupAt(h, i)]
    BY <1>1
  <2> HIDE DEF gs, n
  <2> QED
    BY <1>1, <2>1, <2>2
<1>3. Groups(h) = Chosen(gs, I)
  BY DEF Groups
<1>4. \A k \in DOMAIN gs : k \notin I => gs[k] = <<>>
  OBVIOUS
<1>5. Users(FlattenSeq(Groups(h))) = FlattenSeq([k \in DOMAIN gs |-> Users(gs[k])])
  <2> HIDE DEF gs, I
  <2> QED
    BY <1>2, <1>3, <1>4, FlattenChosen, UsersOfFlatten
<1> DEFINE J == {k \in DOMAIN h : h[k].role = "user"}
<1>6. ASSUME NEW k \in DOMAIN h PROVE Users(gs[k]) = IF k \in J THEN <<h[k]>> ELSE <<>>
  <2>1. gs[k] = GroupAt(h, k)
    OBVIOUS
  <2>2. GroupAt(h, k) = <<>> \/ IsGroup(GroupAt(h, k))
    BY GroupShape
  <2>3. CASE k \in J
    <3>1. GroupAt(h, k) = <<h[k]>>
      BY <2>3, GroupShape
    <3>2. <<h[k]>> # <<>> /\ <<h[k]>>[1] = h[k] /\ h[k].role = "user"
      BY <2>3
    <3>3. IsGroup(<<h[k]>>)
      BY <2>2, <3>1, <3>2, Zenon
    <3>4. Users(<<h[k]>>) = <<h[k]>>
      BY <3>2, <3>3, UsersOfGroup
    <3> HIDE DEF J, gs
    <3> QED
      BY <2>1, <2>3, <3>1, <3>4, Zenon
  <2>4. CASE k \notin J
    <3>1. h[k].role # "user"
      BY <2>4
    <3>2. GroupAt(h, k) # <<>> => Users(GroupAt(h, k)) = <<>>
      BY <2>2, <3>1, GroupShape, UsersOfGroup
    <3>3. Users(<<>>) = <<>>
      BY ChosenEmpty DEF Users
    <3>4. Users(GroupAt(h, k)) = <<>>
      BY <3>2, <3>3, Zenon
    <3> HIDE DEF J, gs
    <3> QED
      BY <2>1, <2>4, <3>4, Zenon
  <2> QED
    BY <2>3, <2>4
<1>7. [k \in DOMAIN gs |-> Users(gs[k])] = [k \in DOMAIN h |-> IF k \in J THEN <<h[k]>> ELSE <<>>]
  <2>1. DOMAIN gs = DOMAIN h
    BY <1>1
  <2> HIDE DEF gs, J
  <2> QED
    BY <1>6, <2>1
<1>8. Users(h) = FlattenSeq([k \in DOMAIN h |-> IF k \in J THEN <<h[k]>> ELSE <<>>])
  BY DEF Users, Chosen
<1> HIDE DEF gs, J
<1> QED
  BY <1>5, <1>7, <1>8, Zenon

\* The groups are groups.
LEMMA GroupsAreGroups ==
    ASSUME NEW h \in Seq(Message)
    PROVE  \A k \in DOMAIN Groups(h) : IsGroup(Groups(h)[k])
<1> DEFINE gs == [i \in DOMAIN h |-> GroupAt(h, i)]
           I == {i \in DOMAIN gs : gs[i] # <<>>}
           c == Chosen(gs, I)
<1>1. gs \in Seq(Seq(Message))
  <2>1. \A i \in DOMAIN h : GroupAt(h, i) \in Seq(Message)
    BY GroupTypes
  <2>2. DOMAIN h = 1..Len(h) /\ Len(h) \in Nat
    OBVIOUS
  <2> QED
    BY <2>1, <2>2
<1>2. Groups(h) = c
  BY DEF Groups
<1>3. \A i \in I \cap DOMAIN gs : IsGroup(gs[i])
  BY GroupShape
<1>4. PICK f : Positions(f, gs, I, c)
  <2> HIDE DEF gs, I
  <2> QED
    BY <1>1, ChosenPositions
<1>5. c \in Seq(Seq(Message)) /\ DOMAIN c = 1..Len(c)
  <2>1. c \in Seq(Seq(Message))
    <3> HIDE DEF gs, I
    <3> QED
      BY <1>1, ChosenTypes
  <2> HIDE DEF c
  <2> QED
    BY <2>1
<1> HIDE DEF c, gs, I
<1>6. \A k \in 1..Len(c) : f[k] \in I \cap DOMAIN gs /\ c[k] = gs[f[k]]
  BY <1>4 DEF Positions
<1> QED
  BY <1>2, <1>3, <1>5, <1>6

\* Messages of a history followed by a group.
LEMMA ConcatMessages ==
    ASSUME NEW a \in Seq(Message), NEW g \in Seq(Message)
    PROVE  /\ Len(a) \in Nat /\ Len(g) \in Nat
           /\ a \o g \in Seq(Message) /\ Len(a \o g) = Len(a) + Len(g)
           /\ DOMAIN a = 1..Len(a) /\ DOMAIN g = 1..Len(g) /\ DOMAIN (a \o g) = 1..(Len(a) + Len(g))
           /\ \A k \in 1..Len(a) : (a \o g)[k] = a[k]
           /\ \A k \in 1..Len(g) : (a \o g)[Len(a) + k] = g[k]
  OBVIOUS

\* A group after a history gives no message before it another result.
LEMMA FollowingIsLocal ==
    ASSUME NEW a \in Seq(Message), NEW g, IsGroup(g)
    PROVE  /\ \A j \in 1..Len(a) : FollowingTools(a \o g, j) = FollowingTools(a, j)
           /\ FollowingTools(a \o g, Len(a) + 1) = (Len(a) + 2)..(Len(a) + Len(g))
<1> DEFINE h == a \o g
           n == Len(a)
           p == Len(g)
<1>1. g \in Seq(Message) /\ p >= 1 /\ g[1].role # "tool" /\ \A k \in 2..p : g[k].role = "tool"
  BY DEF IsGroup
<1>2. /\ n \in Nat /\ p \in Nat /\ Len(h) = n + p
      /\ \A k \in 1..n : h[k] = a[k]
      /\ \A k \in 1..p : h[n + k] = g[k]
  BY <1>1, ConcatMessages
<1> HIDE DEF h, n, p
<1>3. h[n + 1].role # "tool" /\ \A k \in (n + 2)..(n + p) : h[k].role = "tool"
  <2>1. 1 \in 1..p
    BY <1>1, <1>2
  <2>2. ASSUME NEW k \in (n + 2)..(n + p) PROVE h[k].role = "tool"
    <3>1. k - n \in 1..p /\ k - n \in 2..p /\ n + (k - n) = k
      BY <1>2
    <3> QED
      BY <1>1, <1>2, <3>1
  <2> QED
    BY <1>1, <1>2, <2>1, <2>2
<1>4. ASSUME NEW j \in 1..n PROVE FollowingTools(h, j) = FollowingTools(a, j)
  <2>1. FollowingTools(h, j) = {i \in (j + 1)..(n + p) : \A k \in (j + 1)..i : h[k].role = "tool"}
    BY <1>2 DEF FollowingTools
  <2>2. FollowingTools(a, j) = {i \in (j + 1)..n : \A k \in (j + 1)..i : a[k].role = "tool"}
    BY DEF FollowingTools, n
  <2>3. ASSUME NEW i \in (j + 1)..(n + p), i > n PROVE ~\A k \in (j + 1)..i : h[k].role = "tool"
    <3>1. n + 1 \in (j + 1)..i
      BY <1>2, <2>3
    <3> QED
      BY <1>3, <3>1
  <2>4. \A i \in (j + 1)..n : i \in (j + 1)..(n + p) /\ \A k \in (j + 1)..i : h[k] = a[k]
    <3> SUFFICES ASSUME NEW i \in (j + 1)..n PROVE i \in (j + 1)..(n + p) /\ \A k \in (j + 1)..i : h[k] = a[k]
      OBVIOUS
    <3>1. i \in (j + 1)..(n + p) /\ \A k \in (j + 1)..i : k \in 1..n
      BY <1>2
    <3> QED
      BY <1>2, <3>1
  <2>5. \A i \in (j + 1)..(n + p) : i > n \/ i \in (j + 1)..n
    BY <1>2
  <2>6. \A i : i \in FollowingTools(h, j) <=> i \in FollowingTools(a, j)
    <3>1. ASSUME NEW i \in FollowingTools(h, j) PROVE i \in FollowingTools(a, j)
      <4>1. i \in (j + 1)..(n + p) /\ \A k \in (j + 1)..i : h[k].role = "tool"
        BY <2>1
      <4>2. i \in (j + 1)..n
        BY <2>3, <2>5, <4>1
      <4>3. \A k \in (j + 1)..i : a[k].role = "tool"
        BY <2>4, <4>1, <4>2
      <4> QED
        BY <2>2, <4>2, <4>3
    <3>2. ASSUME NEW i \in FollowingTools(a, j) PROVE i \in FollowingTools(h, j)
      <4>1. i \in (j + 1)..n /\ \A k \in (j + 1)..i : a[k].role = "tool"
        BY <2>2
      <4>2. i \in (j + 1)..(n + p) /\ \A k \in (j + 1)..i : h[k].role = "tool"
        BY <2>4, <4>1
      <4> QED
        BY <2>1, <4>2
    <3> QED
      BY <3>1, <3>2
  <2> QED
    BY <2>6
<1>5. FollowingTools(h, n + 1) = (n + 2)..(n + p)
  <2>1. (n + 1) + 1 = n + 2
    BY <1>2
  <2>2. FollowingTools(h, n + 1) = {i \in (n + 2)..(n + p) : \A k \in (n + 2)..i : h[k].role = "tool"}
    BY <1>2, <2>1 DEF FollowingTools
  <2>3. \A i \in (n + 2)..(n + p) : \A k \in (n + 2)..i : k \in (n + 2)..(n + p)
    BY <1>2
  <2>4. \A i \in (n + 2)..(n + p) : \A k \in (n + 2)..i : h[k].role = "tool"
    BY <1>3, <2>3
  <2> QED
    BY <2>2, <2>4
<1> QED
  BY <1>4, <1>5 DEF h, n, p

\* The results of an earlier message stay, and with them its group.
LEMMA GroupIsLocal ==
    ASSUME NEW a \in Seq(Message), NEW g, IsGroup(g), NEW j \in 1..Len(a)
    PROVE  GroupAt(a \o g, j) = GroupAt(a, j)
<1> DEFINE h == a \o g
           F == FollowingTools(a, j)
           R == Results(a, j)
<1>1. g \in Seq(Message)
  BY DEF IsGroup
<1>2. /\ Len(a) \in Nat /\ DOMAIN a = 1..Len(a) /\ DOMAIN g = 1..Len(g) /\ Len(g) \in Nat
      /\ \A k \in 1..Len(a) : h[k] = a[k]
  BY <1>1, ConcatMessages
<1>3. FollowingTools(h, j) = F
  BY FollowingIsLocal
<1>4. F \subseteq 1..Len(a) /\ R \subseteq F
  BY <1>2, ResultsShape
<1> HIDE DEF h
<1>5. h[j] = a[j] /\ \A k \in F : h[k] = a[k]
  BY <1>2, <1>4
<1>6. Results(h, j) = R
  <2>1. Results(h, j) = {i \in F : /\ h[i].id \in Expected(h[j])
                                   /\ \A k \in F : k < i => h[k].id # h[i].id}
    BY <1>3 DEF Results
  <2>2. R = {i \in F : /\ a[i].id \in Expected(a[j])
                       /\ \A k \in F : k < i => a[k].id # a[i].id}
    BY DEF Results
  <2> HIDE DEF F, R
  <2> QED
    BY <1>5, <2>1, <2>2
<1>7. Chosen(h, R) = Chosen(a, R)
  <2>1. \A k \in DOMAIN g : k \in {} <=> Len(a) + k \in R
    <3>1. \A k \in 1..Len(g) : Len(a) + k \notin 1..Len(a)
      BY <1>2
    <3> HIDE DEF R, F
    <3> QED
      BY <1>2, <1>4, <3>1
  <2>2. Chosen(a \o g, R) = Chosen(a, R) \o Chosen(g, {})
    <3> HIDE DEF R
    <3> QED
      BY <1>1, <2>1, ChosenConcat
  <2>3. Chosen(g, {}) = <<>>
    BY <1>1, ChosenAllOrNone
  <2>4. Chosen(a, R) \in Seq(Message)
    BY ChosenTypes
  <2>5. Chosen(a, R) \o <<>> = Chosen(a, R)
    BY <2>4, AppendToConcat
  <2> HIDE DEF R
  <2> QED
    BY <2>2, <2>3, <2>5, Zenon DEF h
<1>8. {h[k].id : k \in R} = {a[k].id : k \in R}
  <2> HIDE DEF R, F
  <2> QED
    BY <1>4, <1>5
<1>9. GroupAt(h, j) = GroupAt(a, j)
  <2> DEFINE m == a[j]
             complete == /\ Cardinality(Expected(m)) = Len(m.calls)
                         /\ {a[k].id : k \in R} = Expected(m)
             c == Chosen(a, R)
             Group == IF m.role = "tool" THEN <<>>
                      ELSE IF m.role = "user" \/ m.calls = <<>> THEN <<m>>
                      ELSE IF complete THEN <<m>> \o c
                      ELSE IF m.blank THEN <<>>
                      ELSE <<[m EXCEPT !.calls = <<>>, !.tokens = m.plain]>>
  <2>1. GroupAt(a, j) = Group
    BY DEF GroupAt
  <2>2. GroupAt(h, j) = Group
    BY <1>5, <1>6, <1>7, <1>8, Zenon DEF GroupAt
  <2> QED
    BY <2>1, <2>2
<1> QED
  BY <1>9 DEF h

\* A group after a history is one of its groups, as it is.
LEMMA LastGroup ==
    ASSUME NEW a \in Seq(Message), NEW g, IsGroup(g)
    PROVE  /\ GroupAt(a \o g, Len(a) + 1) = g
           /\ \A k \in 2..Len(g) : GroupAt(a \o g, Len(a) + k) = <<>>
<1> DEFINE h == a \o g
           n == Len(a)
           p == Len(g)
           m == g[1]
           R == Results(h, n + 1)
           c == Chosen(h, R)
<1>1. /\ g \in Seq(Message) /\ p >= 1 /\ m.role # "tool" /\ (\A k \in 2..p : g[k].role = "tool")
      /\ m.role = "user" => p = 1
  BY DEF IsGroup
<1>2. /\ n \in Nat /\ p \in Nat /\ Len(h) = n + p /\ h \in Seq(Message)
      /\ DOMAIN a = 1..n /\ DOMAIN g = 1..p /\ DOMAIN h = 1..(n + p)
      /\ \A k \in 1..n : h[k] = a[k]
      /\ \A k \in 1..p : h[n + k] = g[k]
  BY <1>1, ConcatMessages
<1>3. FollowingTools(h, n + 1) = (n + 2)..(n + p)
  BY FollowingIsLocal
<1>4. h[n + 1] = m /\ m \in Message /\ 1 \in 1..p
  <2>1. 1 \in 1..p
    BY <1>1, <1>2
  <2> QED
    BY <1>1, <1>2, <2>1
<1> HIDE DEF h, n, p
<1>5. ASSUME NEW k \in 2..p PROVE GroupAt(h, n + k) = <<>>
  <2>1. k \in 1..p
    BY <1>2
  <2>2. h[n + k].role = "tool"
    BY <1>1, <1>2, <2>1
  <2> QED
    BY <2>2, Zenon DEF GroupAt
<1>6. p = 1 => g = <<m>>
  <2> SUFFICES ASSUME p = 1 PROVE g = <<m>>
    OBVIOUS
  <2>1. <<m>> \in Seq(Message) /\ Len(<<m>>) = 1 /\ <<m>>[1] = m
    BY <1>4
  <2>2. Len(g) = 1 /\ g \in Seq(Message) /\ \A k \in 1..Len(g) : g[k] = <<m>>[k]
    BY <1>1, <2>1 DEF p
  <2> DEFINE t == <<m>>
  <2> HIDE DEF t, m
  <2>3. t \in Seq(Message) /\ Len(t) = Len(g) /\ \A k \in 1..Len(g) : g[k] = t[k]
    BY <2>1, <2>2 DEF t
  <2>4. g = t
    BY <2>2, <2>3, SeqEqual
  <2> QED
    BY <2>4 DEF t
<1>7. m.role = "user" \/ m.role = "assistant"
  BY <1>1, <1>4 DEF Message
<1>8. CASE m.role = "user"
  <2>1. GroupAt(h, n + 1) = <<m>>
    BY <1>4, <1>8, Zenon DEF GroupAt
  <2> QED
    BY <1>1, <1>5, <1>6, <1>8, <2>1 DEF h, n, p
<1>9. CASE m.role = "assistant"
  <2>1. /\ {g[k].id : k \in 2..p} = ToSet(m.calls)
        /\ \A k, l \in 2..p : g[k].id = g[l].id => k = l
        /\ "" \notin ToSet(m.calls)
        /\ Cardinality(ToSet(m.calls)) = Len(m.calls)
    BY <1>9 DEF IsGroup, p
  <2>2. Expected(m) = ToSet(m.calls)
    BY <2>1 DEF Expected
  <2>3. CASE m.calls = <<>>
    <3>1. ToSet(m.calls) = {}
      BY <2>3 DEF ToSet
    <3>2. p = 1
      <4>1. ~(2 \in 2..p)
        BY <2>1, <3>1
      <4> QED
        BY <1>1, <1>2, <4>1
    <3>3. GroupAt(h, n + 1) = <<m>>
      BY <1>1, <1>4, <2>3, Zenon DEF GroupAt
    <3> QED
      BY <1>5, <1>6, <3>2, <3>3 DEF h, n, p
  <2>4. CASE m.calls # <<>>
    <3>1. \A i \in (n + 2)..(n + p) : i - n \in 2..p /\ i - n \in 1..p /\ h[i] = g[i - n]
      <4> SUFFICES ASSUME NEW i \in (n + 2)..(n + p)
                   PROVE i - n \in 2..p /\ i - n \in 1..p /\ h[i] = g[i - n]
        OBVIOUS
      <4>1. i - n \in 2..p /\ i - n \in 1..p /\ n + (i - n) = i
        BY <1>2
      <4>2. h[n + (i - n)] = g[i - n]
        BY <1>2, <4>1
      <4> QED
        BY <4>1, <4>2
    <3>2. R = (n + 2)..(n + p)
      <4>1. R = {i \in (n + 2)..(n + p) : /\ h[i].id \in ToSet(m.calls)
                                          /\ \A k \in (n + 2)..(n + p) : k < i => h[k].id # h[i].id}
        BY <1>3, <1>4, <2>2 DEF Results
      <4>2. ASSUME NEW i \in (n + 2)..(n + p) PROVE h[i].id \in ToSet(m.calls)
        <5>1. i - n \in 2..p /\ h[i] = g[i - n]
          BY <3>1
        <5>2. \A l \in 2..p : g[l].id \in ToSet(m.calls)
          BY <2>1
        <5> QED
          BY <5>1, <5>2, Zenon
      <4>3. ASSUME NEW i \in (n + 2)..(n + p), NEW k \in (n + 2)..(n + p), k < i PROVE h[k].id # h[i].id
        <5>1. k - n # i - n
          BY <1>2, <4>3
        <5>2. i - n \in 2..p /\ h[i] = g[i - n] /\ k - n \in 2..p /\ h[k] = g[k - n]
          BY <3>1
        <5> QED
          BY <2>1, <5>1, <5>2, Zenon
      <4> QED
        BY <4>1, <4>2, <4>3
    <3>3. {h[i].id : i \in R} = Expected(m)
      <4>1. \A k \in 2..p : n + k \in (n + 2)..(n + p) /\ k \in 1..p
        BY <1>2
      <4>2. \A k \in 2..p : h[n + k].id = g[k].id
        BY <1>2, <4>1
      <4> HIDE DEF R
      <4>3. ASSUME NEW x \in {h[i].id : i \in R} PROVE x \in {g[k].id : k \in 2..p}
        <5>1. PICK i \in R : x = h[i].id
          OBVIOUS
        <5> QED
          BY <3>1, <3>2, <5>1
      <4>4. ASSUME NEW x \in {g[k].id : k \in 2..p} PROVE x \in {h[i].id : i \in R}
        <5>1. PICK k \in 2..p : x = g[k].id
          OBVIOUS
        <5>2. n + k \in R /\ h[n + k].id = x
          BY <3>2, <4>1, <4>2, <5>1
        <5> QED
          BY <5>2
      <4>5. {h[i].id : i \in R} = {g[k].id : k \in 2..p}
        BY <4>3, <4>4
      <4> QED
        BY <2>1, <2>2, <4>5, Zenon
    <3>4. GroupAt(h, n + 1) = <<m>> \o c
      <4>1. Cardinality(Expected(m)) = Len(m.calls)
        BY <2>1, <2>2
      <4> HIDE DEF m
      <4>2. m.role # "tool" /\ m.role # "user"
        BY <1>9
      <4> QED
        BY <1>4, <2>4, <3>3, <4>1, <4>2, Zenon DEF GroupAt
    <3>5. c = Chosen(g, 2..p)
      <4> HIDE DEF R
      <4>1. \A k \in DOMAIN g : k \in 2..p <=> Len(a) + k \in R
        BY <1>2, <3>2 DEF n
      <4>2. Chosen(a \o g, R) = Chosen(a, R) \o Chosen(g, 2..p)
        <5> DEFINE J == 2..p
        <5> HIDE DEF J
        <5>1. \A k \in DOMAIN g : k \in J <=> Len(a) + k \in R
          BY <4>1 DEF J
        <5>2. Chosen(a \o g, R) = Chosen(a, R) \o Chosen(g, J)
          BY <1>1, <5>1, ChosenConcat
        <5> QED
          BY <5>2 DEF J
      <4>3. \A k \in DOMAIN a : k \notin R
        BY <1>2, <3>2
      <4>4. Chosen(a, R) = <<>>
        BY <4>3, ChosenAllOrNone
      <4>5. Chosen(g, 2..p) \in Seq(Message)
        BY <1>1, ChosenTypes
      <4>6. <<>> \o Chosen(g, 2..p) = Chosen(g, 2..p)
        BY <4>5, AppendToConcat
      <4> QED
        BY <4>2, <4>4, <4>6, Zenon DEF h
    <3>6. <<m>> \o Chosen(g, 2..p) = g
      <4> DEFINE t == SubSeq(g, 2, p)
      <4>1. /\ t \in Seq(Message) /\ Len(t) = p - 1 /\ DOMAIN t = 1..(p - 1)
            /\ \A k \in 1..(p - 1) : t[k] = g[k + 1]
        BY <1>1, <1>2 DEF p
      <4>2. g = <<m>> \o t
        <5>1. g = SubSeq(g, 1, 1) \o SubSeq(g, 2, p) /\ SubSeq(g, 1, 1) = <<m>>
          <6>1. 1 \in 1..(Len(g) + 1) /\ 1 \in (1 - 1)..Len(g) /\ Len(g) \in 1..Len(g) /\ 1 + 1 = 2
            BY <1>1, <1>2 DEF p
          <6>2. SubSeq(g, 1, 1) \o SubSeq(g, 1 + 1, Len(g)) = SubSeq(g, 1, Len(g))
            BY <1>1, <6>1, ConcatAdjacentSubSeq
          <6>3. SubSeq(g, 1, Len(g)) = g
            BY <1>1, SubSeqFull
          <6>4. SubSeq(g, 1, 1) = <<g[1]>>
            <7>1. SubSeq(g, 1, 1) = [k \in 1..1 |-> g[k]] /\ <<g[1]>> = [k \in 1..1 |-> g[1]]
              BY <1>1, <1>4
            <7>2. \A k \in 1..1 : g[k] = g[1]
              OBVIOUS
            <7> QED
              BY <7>1, <7>2
          <6> QED
            BY <6>1, <6>2, <6>3, <6>4, Zenon DEF p
        <5> QED
          BY <5>1
      <4>3. Chosen(<<m>> \o t, 2..p) = Chosen(t, 1..(p - 1))
        <5> HIDE DEF t
        <5>1. PICK r \in Seq(Message) : r = t
          BY <4>1
        <5> HIDE DEF m
        <5>6. PICK q \in Seq(Message) : q = <<m>> /\ Len(q) = 1
          <6>1. <<m>> \in Seq(Message) /\ Len(<<m>>) = 1
            BY <1>4
          <6> QED
            BY <6>1, Zenon
        <5> DEFINE I == 2..p
                   J == 1..(p - 1)
        <5>2. (\A k \in DOMAIN q : k \notin I) /\ \A k \in DOMAIN r : k \in J <=> Len(q) + k \in I
          BY <1>2, <4>1, <5>1, <5>6
        <5> HIDE DEF I, J
        <5>3. Chosen(q \o r, I) = Chosen(r, J)
          BY <5>2, ChosenOfRest
        <5> QED
          BY <5>1, <5>3, <5>6, Zenon DEF I, J
      <4>5. Chosen(t, 1..(p - 1)) = t
        <5> HIDE DEF t
        <5>1. \A k \in DOMAIN t : k \in 1..(p - 1)
          BY <4>1
        <5> QED
          BY <4>1, <5>1, ChosenAllOrNone
      <4>7. Chosen(g, 2..p) = t
        <5> HIDE DEF t
        <5> QED
          BY <4>2, <4>3, <4>5, Zenon
      <4> QED
        BY <4>2, <4>7
    <3> HIDE DEF c
    <3> QED
      BY <1>5, <3>4, <3>5, <3>6 DEF h, n, p
  <2> QED
    BY <2>3, <2>4
<1> QED
  BY <1>7, <1>8, <1>9

\* The messages that are groups.
AllGroups == {g \in Seq(Message) : IsGroup(g)}

\* Sequences of groups.
LEMMA GroupSequences ==
    ASSUME NEW gs
    PROVE  gs \in Seq(AllGroups) <=> gs \in Seq(Seq(Message)) /\ \A k \in DOMAIN gs : IsGroup(gs[k])
<1>1. ASSUME gs \in Seq(AllGroups) PROVE gs \in Seq(Seq(Message)) /\ \A k \in DOMAIN gs : IsGroup(gs[k])
  BY <1>1 DEF AllGroups
<1>2. ASSUME gs \in Seq(Seq(Message)), \A k \in DOMAIN gs : IsGroup(gs[k]) PROVE gs \in Seq(AllGroups)
  BY <1>2 DEF AllGroups
<1> QED
  BY <1>1, <1>2

\* A group more in the history is a group more.
LEMMA GroupsAppend ==
    ASSUME NEW a \in Seq(Message), NEW g, IsGroup(g)
    PROVE  Groups(a \o g) = Append(Groups(a), g)
<1> DEFINE h == a \o g
           n == Len(a)
           p == Len(g)
           ga == [i \in DOMAIN a |-> GroupAt(a, i)]
           gh == [i \in DOMAIN h |-> GroupAt(h, i)]
           gg == [k \in 1..p |-> IF k = 1 THEN g ELSE <<>>]
           A == {i \in DOMAIN ga : ga[i] # <<>>}
           H == {i \in DOMAIN gh : gh[i] # <<>>}
<1>1. g \in Seq(Message) /\ p >= 1 /\ g # <<>>
  <2>1. g \in Seq(Message) /\ p >= 1
    BY DEF IsGroup
  <2> QED
    BY <2>1
<1>2. n \in Nat /\ p \in Nat /\ h \in Seq(Message) /\ DOMAIN a = 1..n /\ DOMAIN h = 1..(n + p)
  BY <1>1, ConcatMessages
<1>3. Groups(a) = Chosen(ga, A) /\ Groups(h) = Chosen(gh, H)
  BY DEF Groups
<1> HIDE DEF h, n, p
<1>4. ga \in Seq(Seq(Message)) /\ Len(ga) = n /\ DOMAIN ga = 1..n
  <2>1. \A i \in 1..n : GroupAt(a, i) \in Seq(Message)
    BY <1>2, GroupTypes
  <2>2. ga = [i \in 1..n |-> GroupAt(a, i)]
    BY <1>2
  <2> HIDE DEF ga
  <2> QED
    BY <1>2, <2>1, <2>2
<1>5. gg \in Seq(Seq(Message)) /\ Len(gg) = p /\ DOMAIN gg = 1..p
  <2>1. \A k \in 1..p : (IF k = 1 THEN g ELSE <<>>) \in Seq(Message)
    BY <1>1
  <2> QED
    BY <1>2, <2>1
<1>6. gh = ga \o gg
  <2> DEFINE t == ga \o gg
  <2>1. /\ t \in Seq(Seq(Message)) /\ Len(t) = n + p
        /\ \A k \in 1..(n + p) : t[k] = IF k <= n THEN ga[k] ELSE gg[k - n]
    <3> HIDE DEF ga, gg
    <3>1. t \in Seq(Seq(Message)) /\ Len(t) = Len(ga) + Len(gg)
          /\ \A k \in 1..(Len(ga) + Len(gg)) : t[k] = IF k <= Len(ga) THEN ga[k] ELSE gg[k - Len(ga)]
      BY <1>4, <1>5, ConcatProperties
    <3> QED
      BY <1>4, <1>5, <3>1
  <2>2. t = [k \in 1..(n + p) |-> t[k]]
    <3> HIDE DEF t
    <3> QED
      BY <1>2, <2>1
  <2>3. ASSUME NEW k \in 1..(n + p) PROVE t[k] = GroupAt(h, k)
    <3>1. CASE k <= n
      <4>1. k \in 1..n
        BY <1>2, <3>1
      <4>2. ga[k] = GroupAt(a, k)
        BY <1>2, <4>1
      <4>3. GroupAt(h, k) = GroupAt(a, k)
        BY <4>1, GroupIsLocal DEF h, n
      <4> HIDE DEF t
      <4> QED
        BY <2>1, <3>1, <4>2, <4>3
    <3>2. CASE ~(k <= n)
      <4>1. k - n \in 1..p /\ n + (k - n) = k
        BY <1>2, <3>2
      <4>2. t[k] = gg[k - n]
        <5> HIDE DEF t, gg
        <5> QED
          BY <2>1, <3>2
      <4>3. CASE k - n = 1
        <5>1. GroupAt(h, n + 1) = g
          BY LastGroup DEF h, n
        <5>2. gg[1] = g
          BY <4>1, <4>3
        <5> HIDE DEF t, gg
        <5> QED
          BY <4>1, <4>2, <4>3, <5>1, <5>2
      <4>4. CASE k - n # 1
        <5>1. k - n \in 2..p
          BY <4>1, <4>4
        <5>2. GroupAt(h, n + (k - n)) = <<>>
          <6>1. \A j \in 2..Len(g) : GroupAt(a \o g, Len(a) + j) = <<>>
            BY LastGroup
          <6> HIDE DEF t, gg, ga, gh, A, H
          <6> QED
            BY <5>1, <6>1 DEF h, n, p
        <5>3. gg[k - n] = <<>>
          BY <4>1, <4>4
        <5> HIDE DEF t, gg
        <5> QED
          BY <4>1, <4>2, <5>2, <5>3
      <4> QED
        BY <4>3, <4>4
    <3> QED
      BY <3>1, <3>2
  <2>4. gh = [k \in 1..(n + p) |-> GroupAt(h, k)]
    BY <1>2
  <2> HIDE DEF gh, t
  <2>5. t = gh
    BY <2>2, <2>3, <2>4
  <2> QED
    BY <2>5 DEF t
<1> HIDE DEF ga, gg, gh
<1> DEFINE G == {1}
<1>7. DOMAIN gh = 1..(n + p)
  BY <1>2 DEF gh
<1>8. ASSUME NEW k \in 1..n PROVE gh[k] = ga[k] /\ k \in 1..(n + p)
  BY <1>2, <1>4, <1>5, <1>6
<1>9. ASSUME NEW k \in 1..p PROVE gh[n + k] = gg[k] /\ n + k \in 1..(n + p)
  <2>1. \A i \in 1..(Len(ga) + Len(gg)) : (ga \o gg)[i] = IF i <= Len(ga) THEN ga[i] ELSE gg[i - Len(ga)]
    BY <1>4, <1>5, ConcatProperties
  <2>2. n + k \in 1..(n + p) /\ ~(n + k <= n) /\ (n + k) - n = k
    BY <1>2
  <2> QED
    BY <1>4, <1>5, <1>6, <2>1, <2>2
<1>10. \A k \in DOMAIN ga : k \in H <=> k \in A
  BY <1>4, <1>7, <1>8
<1>11. \A k \in DOMAIN gg : k \in G <=> Len(ga) + k \in H
  <2> SUFFICES ASSUME NEW k \in 1..p PROVE k = 1 <=> gh[n + k] # <<>>
    BY <1>4, <1>5, <1>7, <1>9
  <2>1. gg[k] = IF k = 1 THEN g ELSE <<>>
    BY DEF gg
  <2> QED
    BY <1>1, <1>9, <2>1, Zenon
<1> HIDE DEF G, H, A
<1>12. Chosen(gh, H) = Chosen(ga, H) \o Chosen(gg, G)
  <2>1. PICK x \in Seq(Seq(Message)), y \in Seq(Seq(Message)) : x = ga /\ y = gg
    BY <1>4, <1>5
  <2>2. \A k \in DOMAIN y : k \in G <=> Len(x) + k \in H
    BY <1>11, <2>1
  <2>3. Chosen(x \o y, H) = Chosen(x, H) \o Chosen(y, G)
    BY SMTT(60), <2>2, ChosenConcat
  <2> QED
    BY <1>6, <2>1, <2>3
<1>13. Chosen(ga, H) = Chosen(ga, A)
  BY <1>10, ChosenSame
<1>14. Chosen(gg, G) = <<g>>
  <2>1. PICK f : Positions(f, gg, G, Chosen(gg, G))
    BY <1>5, ChosenPositions
  <2> DEFINE c == Chosen(gg, G)
  <2>2. c \in Seq(Seq(Message)) /\ Len(c) \in Nat /\ DOMAIN c = 1..Len(c)
    <3>1. c \in Seq(Seq(Message))
      BY <1>5, ChosenTypes
    <3> HIDE DEF c
    <3> QED
      BY <3>1
  <2>3. G \cap DOMAIN gg = {1}
    BY <1>1, <1>2, <1>5 DEF G
  <2>4. /\ \A k \in 1..Len(c) : f[k] = 1 /\ c[k] = gg[f[k]]
        /\ \A k, l \in 1..Len(c) : f[k] = f[l] => k = l
        /\ \E k \in 1..Len(c) : f[k] = 1
    BY <2>1, <2>3 DEF Positions
  <2> HIDE DEF c
  <2>5. Len(c) = 1
    <3>1. Len(c) >= 1
      BY <2>2, <2>4
    <3>2. Len(c) >= 2 => 1 \in 1..Len(c) /\ 2 \in 1..Len(c)
      BY <2>2
    <3>3. ~(Len(c) >= 2)
      BY <2>4, <3>2
    <3> QED
      BY <2>2, <3>1, <3>3
  <2>6. c[1] = g
    <3>1. 1 \in 1..Len(c) /\ 1 \in 1..p
      BY <1>1, <1>2, <2>5
    <3>2. gg[1] = g
      BY <3>1 DEF gg
    <3> QED
      BY <2>4, <3>1, <3>2
  <2>7. c = <<g>>
    BY <2>2, <2>5, <2>6
  <2> QED
    BY <2>7 DEF c
<1>15. Chosen(ga, A) \in Seq(Seq(Message))
  BY <1>4, ChosenTypes
<1>16. Chosen(ga, A) \o <<g>> = Append(Chosen(ga, A), g)
  BY <1>1, <1>15, AppendToConcat
<1> QED
  BY <1>3, <1>12, <1>13, <1>14, <1>16, Zenon DEF h

\* Grouping what groups are flattened to gives the groups again.
LEMMA GroupsOfFlatten ==
    ASSUME NEW gs \in Seq(AllGroups)
    PROVE  Groups(FlattenSeq(gs)) = gs
<1> DEFINE P == {x \in Seq(AllGroups) : Groups(FlattenSeq(x)) = x}
<1>1. <<>> \in P
  <2>1. <<>> \in Seq(AllGroups) /\ FlattenSeq(<<>>) = <<>>
    BY FlattenEmpty
  <2>2. [i \in DOMAIN <<>> |-> GroupAt(<<>>, i)] = <<>>
    OBVIOUS
  <2> DEFINE G == [i \in DOMAIN <<>> |-> GroupAt(<<>>, i)]
  <2>3. Groups(<<>>) = Chosen(G, {i \in DOMAIN G : G[i] # <<>>})
    BY DEF Groups
  <2>4. G = <<>>
    BY <2>2
  <2>5. Groups(<<>>) = <<>>
    <3> HIDE DEF G
    <3> QED
      BY <2>3, <2>4, ChosenEmpty
  <2> QED
    BY <2>1, <2>5
<1>2. ASSUME NEW x \in P, NEW g \in AllGroups PROVE Append(x, g) \in P
  <2>1. x \in Seq(AllGroups) /\ Groups(FlattenSeq(x)) = x /\ Append(x, g) \in Seq(AllGroups)
    OBVIOUS
  <2>2. x \in Seq(Seq(Message)) /\ g \in Seq(Message) /\ IsGroup(g)
    BY <2>1, GroupSequences DEF AllGroups
  <2>3. FlattenSeq(Append(x, g)) = FlattenSeq(x) \o g /\ FlattenSeq(x) \in Seq(Message)
    BY <2>2, FlattenAppend
  <2>4. Groups(FlattenSeq(x) \o g) = Append(Groups(FlattenSeq(x)), g)
    BY <2>2, <2>3, GroupsAppend
  <2> QED
    BY <2>1, <2>3, <2>4
<1>3. P \in SUBSET Seq(AllGroups)
  OBVIOUS
<1>4. Seq(AllGroups) \subseteq P
  <2> HIDE DEF P
  <2> QED
    BY <1>1, <1>2, <1>3, SeqInduction
<1> QED
  BY <1>4

\* A group has a result for each of its calls.
LEMMA GroupCalls ==
    ASSUME NEW g, IsGroup(g), g[1].role = "assistant"
    PROVE  Len(g) - 1 = Len(g[1].calls)
<1> DEFINE p == Len(g)
           f == [k \in 2..p |-> g[k].id]
           C == ToSet(g[1].calls)
<1>1. /\ p \in Nat /\ p >= 1
      /\ {g[k].id : k \in 2..p} = C
      /\ \A k, l \in 2..p : g[k].id = g[l].id => k = l
      /\ Cardinality(C) = Len(g[1].calls)
  <2>1. g \in Seq(Message)
    BY DEF IsGroup
  <2>2. p \in Nat
    BY <2>1
  <2> QED
    <3>1. /\ p >= 1
          /\ {g[k].id : k \in 2..p} = ToSet(g[1].calls)
          /\ \A k, l \in 2..p : g[k].id = g[l].id => k = l
          /\ Cardinality(ToSet(g[1].calls)) = Len(g[1].calls)
      BY DEF IsGroup
    <3> QED
      BY <2>2, <3>1 DEF C
<1> HIDE DEF p, C
<1>2. IsFiniteSet(2..p) /\ Cardinality(2..p) = p - 1
  <2>1. IsFiniteSet(2..p) /\ Cardinality(2..p) = IF 2 > p THEN 0 ELSE p - 2 + 1
    BY SMTT(60), <1>1, FS_Interval
  <2> QED
    BY <1>1, <2>1
<1>3. f \in Surjection(2..p, C) /\ f \in Injection(2..p, C)
  <2>1. \A k \in 2..p : f[k] = g[k].id
    OBVIOUS
  <2>2. f \in [2..p -> C]
    BY <1>1
  <2>3. \A y \in C : \E k \in 2..p : f[k] = y
    BY <1>1, <2>1
  <2> HIDE DEF f
  <2>4. \A k, l \in 2..p : f[k] = f[l] => k = l
    BY <1>1, <2>1
  <2> DEFINE K == 2..p
  <2>5. f \in [K -> C] /\ (\A y \in C : \E k \in K : f[k] = y) /\ \A k, l \in K : f[k] = f[l] => k = l
    BY <2>2, <2>3, <2>4
  <2> HIDE DEF K
  <2>6. f \in Surjection(K, C) /\ f \in Injection(K, C)
    BY <2>5 DEF Surjection, Injection, IsInjective
  <2> QED
    BY <2>6 DEF K
<1>4. Cardinality(C) = Cardinality(2..p)
  <2> HIDE DEF f
  <2> QED
    BY <1>2, <1>3, FS_Surjection
<1> QED
  BY <1>1, <1>2, <1>4 DEF p

\* A group more keeps calls and results together.
LEMMA CorrelatedAppend ==
    ASSUME NEW a \in Seq(Message), Correlated(a), NEW g, IsGroup(g)
    PROVE  Correlated(a \o g)
<1> DEFINE h == a \o g
           n == Len(a)
           p == Len(g)
<1>1. /\ g \in Seq(Message) /\ p >= 1 /\ g[1].role # "tool" /\ (\A k \in 2..p : g[k].role = "tool")
      /\ g[1].role = "user" => p = 1
  BY DEF IsGroup
<1>2. /\ n \in Nat /\ p \in Nat /\ h \in Seq(Message) /\ Len(h) = n + p
      /\ DOMAIN a = 1..n /\ DOMAIN g = 1..p /\ DOMAIN h = 1..(n + p)
      /\ \A k \in 1..n : h[k] = a[k]
      /\ \A k \in 1..p : h[n + k] = g[k]
  BY <1>1, ConcatMessages
<1>3. FollowingTools(h, n + 1) = (n + 2)..(n + p) /\ \A j \in 1..n : FollowingTools(h, j) = FollowingTools(a, j)
  BY FollowingIsLocal
<1> HIDE DEF h, n, p
<1>4. ASSUME NEW j \in 1..n
      PROVE /\ h[j].role = "tool" => \E i \in 1..(j - 1) : Answers(h, i, j)
            /\ h[j].role = "assistant" => /\ {h[k].id : k \in FollowingTools(h, j)} = ToSet(h[j].calls)
                                          /\ Cardinality(FollowingTools(h, j)) = Len(h[j].calls)
  <2>1. /\ a[j].role = "tool" => \E i \in 1..(j - 1) : Answers(a, i, j)
        /\ a[j].role = "assistant" => /\ {a[k].id : k \in FollowingTools(a, j)} = ToSet(a[j].calls)
                                      /\ Cardinality(FollowingTools(a, j)) = Len(a[j].calls)
    BY <1>2 DEF Correlated
  <2>2. ASSUME NEW i \in 1..(j - 1), Answers(a, i, j) PROVE Answers(h, i, j)
    <3>1. i \in 1..n /\ \A k \in (i + 1)..j : k \in 1..n
      BY <1>2
    <3> QED
      BY <1>2, <2>2, <3>1 DEF Answers
  <2>3. FollowingTools(h, j) = FollowingTools(a, j) /\ FollowingTools(a, j) \subseteq 1..n /\ h[j] = a[j]
    BY <1>2, <1>3, ResultsShape
  <2>4. {h[k].id : k \in FollowingTools(a, j)} = {a[k].id : k \in FollowingTools(a, j)}
    BY <1>2, <2>3
  <2> QED
    BY <2>1, <2>2, <2>3, <2>4, Zenon
<1>5. h[n + 1] = g[1]
  <2>1. 1 \in 1..p
    BY <1>1, <1>2
  <2> QED
    BY <1>2, <2>1
<1>6. ASSUME g[1].role = "assistant"
      PROVE  /\ {h[k].id : k \in FollowingTools(h, n + 1)} = ToSet(h[n + 1].calls)
             /\ Cardinality(FollowingTools(h, n + 1)) = Len(h[n + 1].calls)
  <2>1. {g[k].id : k \in 2..p} = ToSet(g[1].calls)
    BY <1>6 DEF IsGroup, p
  <2>2. {h[k].id : k \in (n + 2)..(n + p)} = {g[k].id : k \in 2..p}
    <3>1. ASSUME NEW x \in {h[k].id : k \in (n + 2)..(n + p)} PROVE x \in {g[k].id : k \in 2..p}
      <4>1. PICK k \in (n + 2)..(n + p) : x = h[k].id
        OBVIOUS
      <4>2. k - n \in 2..p /\ k - n \in 1..p /\ n + (k - n) = k
        BY <1>2
      <4>3. h[k] = g[k - n]
        BY <1>2, <4>2
      <4> QED
        BY <4>1, <4>2, <4>3
    <3>2. ASSUME NEW x \in {g[k].id : k \in 2..p} PROVE x \in {h[k].id : k \in (n + 2)..(n + p)}
      <4>1. PICK k \in 2..p : x = g[k].id
        OBVIOUS
      <4>2. n + k \in (n + 2)..(n + p) /\ k \in 1..p
        BY <1>2
      <4>3. h[n + k] = g[k]
        BY <1>2, <4>2
      <4> QED
        BY <4>1, <4>2, <4>3
    <3> QED
      BY <3>1, <3>2
  <2>3. Cardinality((n + 2)..(n + p)) = p - 1
    <3>1. Cardinality((n + 2)..(n + p)) = IF n + 2 > n + p THEN 0 ELSE (n + p) - (n + 2) + 1
      <4>1. n + 2 \in Int /\ n + p \in Int
        BY <1>2
      <4> QED
        BY <4>1, FS_Interval
    <3> QED
      BY <1>1, <1>2, <3>1
  <2>4. p - 1 = Len(g[1].calls)
    BY <1>6, GroupCalls DEF p
  <2> QED
    BY <1>3, <1>5, <2>1, <2>2, <2>3, <2>4, Zenon
<1>7. ASSUME NEW j \in (n + 2)..(n + p)
      PROVE  h[j].role = "tool" /\ \E i \in 1..(j - 1) : Answers(h, i, j)
  <2>1. /\ j - n \in 2..p /\ j - n \in 1..p /\ n + (j - n) = j /\ n + 1 \in 1..(j - 1) /\ (n + 1) + 1 = n + 2
        /\ p # 1
    BY <1>2
  <2>2. h[j] = g[j - n]
    BY <1>2, <2>1
  <2>3. g[1].role = "assistant"
    <3>1. g[1] \in Message
      BY <1>1, <1>2
    <3> QED
      BY <1>1, <2>1, <3>1 DEF Message
  <2>4. h[j].id \in ToSet(g[1].calls)
    <3>1. {g[k].id : k \in 2..p} = ToSet(g[1].calls)
      BY <2>3 DEF IsGroup, p
    <3> QED
      BY <2>1, <2>2, <3>1
  <2>5. \A k \in (n + 2)..j : h[k].role = "tool"
    <3> SUFFICES ASSUME NEW k \in (n + 2)..j PROVE h[k].role = "tool"
      OBVIOUS
    <3>1. k - n \in 2..p /\ k - n \in 1..p /\ n + (k - n) = k
      BY <1>2
    <3>2. h[k] = g[k - n]
      BY <1>2, <3>1
    <3> QED
      BY <1>1, <3>1, <3>2
  <2>6. Answers(h, n + 1, j)
    BY <1>5, <2>1, <2>3, <2>4, <2>5, Zenon DEF Answers
  <2>7. h[j].role = "tool"
    BY <1>1, <2>1, <2>2
  <2> QED
    BY <2>1, <2>6, <2>7
<1>8. \A j \in DOMAIN h : j \in 1..n \/ j = n + 1 \/ j \in (n + 2)..(n + p)
  BY <1>2
<1>9. "tool" # "assistant"
  OBVIOUS
<1>10. Correlated(h)
  <2> SUFFICES ASSUME NEW j \in DOMAIN h
               PROVE  /\ h[j].role = "tool" => \E i \in 1..(j - 1) : Answers(h, i, j)
                      /\ h[j].role = "assistant" => /\ {h[k].id : k \in FollowingTools(h, j)} = ToSet(h[j].calls)
                                                    /\ Cardinality(FollowingTools(h, j)) = Len(h[j].calls)
    BY Zenon DEF Correlated
  <2>1. CASE j \in 1..n
    BY <1>4, <2>1
  <2>2. CASE j = n + 1
    BY <1>1, <1>5, <1>6, <2>2, Zenon
  <2>3. CASE j \in (n + 2)..(n + p)
    BY <1>7, <1>9, <2>3, Zenon
  <2> QED
    BY <1>8, <2>1, <2>2, <2>3
<1> QED
  BY <1>10 DEF h

\* What groups are flattened to is well formed.
LEMMA CorrelatedFlatten ==
    ASSUME NEW gs \in Seq(AllGroups)
    PROVE  Correlated(FlattenSeq(gs))
<1> DEFINE P == {x \in Seq(AllGroups) : Correlated(FlattenSeq(x))}
<1>1. <<>> \in P
  <2>1. <<>> \in Seq(AllGroups) /\ FlattenSeq(<<>>) = <<>>
    BY FlattenEmpty
  <2>2. Correlated(<<>>)
    BY DEF Correlated
  <2> QED
    BY <2>1, <2>2
<1>2. ASSUME NEW x \in P, NEW g \in AllGroups PROVE Append(x, g) \in P
  <2>1. x \in Seq(AllGroups) /\ Correlated(FlattenSeq(x)) /\ Append(x, g) \in Seq(AllGroups)
    OBVIOUS
  <2>2. x \in Seq(Seq(Message)) /\ g \in Seq(Message) /\ IsGroup(g)
    BY <2>1, GroupSequences DEF AllGroups
  <2>3. FlattenSeq(Append(x, g)) = FlattenSeq(x) \o g /\ FlattenSeq(x) \in Seq(Message)
    BY <2>2, FlattenAppend
  <2>4. Correlated(FlattenSeq(x) \o g)
    BY <2>1, <2>2, <2>3, CorrelatedAppend
  <2> QED
    BY <2>1, <2>3, <2>4
<1>3. P \in SUBSET Seq(AllGroups)
  OBVIOUS
<1>4. Seq(AllGroups) \subseteq P
  <2> HIDE DEF P
  <2> QED
    BY <1>1, <1>2, <1>3, SeqInduction
<1> QED
  BY <1>4

\* What is kept of the groups is their newest part, as they are.
LEMMA KeptGroups ==
    ASSUME NEW h \in Seq(Message), NEW budget \in Nat
    PROVE  \E old, new \in Seq(AllGroups) :
              Groups(h) = old \o new /\ TrimHistory(h, budget) = FlattenSeq(new)
<1> DEFINE gs == Groups(h)
           rs == Reverse(gs)
           sizes == GroupSizes(rs)
           n == Len(Fitting(sizes, budget))
           l == Len(gs)
           old == SubSeq(gs, 1, l - n)
           new == SubSeq(gs, l - n + 1, l)
<1>1. gs \in Seq(Seq(Message)) /\ \A k \in DOMAIN gs : IsGroup(gs[k])
  BY GroupsTypes, GroupsAreGroups
<1>2. gs \in Seq(AllGroups)
  BY <1>1, GroupSequences
<1>3. rs \in Seq(Seq(Message)) /\ sizes = Reverse(GroupSizes(gs))
  BY <1>1, SizesOfReverse
<1>4. n \in 0..l
  <2>1. sizes \in Seq(Nat)
    <3> HIDE DEF rs
    <3> QED
      BY <1>3, TokensOfGroups
  <2>2. Len(sizes) = l
    <3>1. Len(rs) = l
      <4>1. rs = [k \in 1..l |-> gs[l - k + 1]] /\ l \in Nat
        BY <1>1 DEF Reverse
      <4> HIDE DEF rs, l
      <4> QED
        BY <1>3, <4>1
    <3>2. sizes = [k \in DOMAIN rs |-> GroupTokens(rs[k])]
      BY DEF GroupSizes
    <3> HIDE DEF sizes, rs
    <3> QED
      BY <1>3, <2>1, <3>1, <3>2
  <2> HIDE DEF sizes
  <2>3. PICK m \in 0..Len(sizes) : Fitting(sizes, budget) = SubSeq(sizes, 1, m)
    BY <2>1, FittingFits
  <2>4. Len(SubSeq(sizes, 1, m)) = m
    BY <2>1
  <2> QED
    BY <2>2, <2>3, <2>4
<1>5. TrimHistory(h, budget) = FlattenSeq(Reverse(SubSeq(rs, 1, n)))
  BY DEF TrimHistory, GroupSizes
<1> HIDE DEF n, gs
<1>6. /\ Reverse(SubSeq(rs, 1, n)) = new /\ gs = old \o new
      /\ old \in Seq(AllGroups) /\ new \in Seq(AllGroups)
  BY <1>2, <1>4, ReversedPrefix
<1> HIDE DEF old, new, rs
<1> QED
  BY <1>5, <1>6, Zenon DEF gs

\* Every history is trimmed to a coherent one (the formula of HistoryCoherent).
LEMMA TrimmedIsCoherent ==
    ASSUME NEW h \in Seq(Message), NEW budget \in Nat
    PROVE  LET kept == TrimHistory(h, budget)
           IN  /\ Correlated(kept)
               /\ HistoryTokens(kept) <= budget
               /\ IsSuffix(Users(kept), Users(h))
               /\ TrimHistory(kept, budget) = kept
<1> DEFINE kept == TrimHistory(h, budget)
<1>1. PICK old \in Seq(AllGroups), new \in Seq(AllGroups) :
         Groups(h) = old \o new /\ kept = FlattenSeq(new)
  BY KeptGroups
<1>2. old \in Seq(Seq(Message)) /\ new \in Seq(Seq(Message))
  BY GroupSequences
<1>3. HistoryTokens(kept) <= budget /\ kept \in Seq(Message)
  BY TrimmedFits
<1> HIDE DEF kept
<1>4. Correlated(kept)
  BY <1>1, CorrelatedFlatten
<1>5. IsSuffix(Users(kept), Users(h))
  <2>1. FlattenSeq(old \o new) = FlattenSeq(old) \o FlattenSeq(new)
    BY <1>2, FlattenConcat
  <2>2. FlattenSeq(old) \in Seq(Message) /\ FlattenSeq(new) \in Seq(Message)
    BY <1>2, JoinsExists, FlattenIs
  <2>3. /\ Users(FlattenSeq(old) \o FlattenSeq(new)) = Users(FlattenSeq(old)) \o Users(FlattenSeq(new))
        /\ Users(FlattenSeq(old)) \in Seq(Message) /\ Users(FlattenSeq(new)) \in Seq(Message)
    BY <2>2, UsersConcat
  <2>4. Users(FlattenSeq(Groups(h))) = Users(h)
    BY UsersOfGroups
  <2>5. IsSuffix(Users(FlattenSeq(new)), Users(FlattenSeq(old)) \o Users(FlattenSeq(new)))
    BY <2>3, SuffixOfConcat
  <2> QED
    BY <1>1, <2>1, <2>3, <2>4, <2>5, Zenon
<1>6. TrimHistory(kept, budget) = kept
  <2> DEFINE rs == Reverse(new)
             sizes == GroupSizes(rs)
  <2>1. Groups(kept) = new
    BY <1>1, GroupsOfFlatten
  <2>2. rs \in Seq(Seq(Message)) /\ sizes = Reverse(GroupSizes(new))
    BY <1>2, SizesOfReverse
  <2>3. GroupSizes(new) \in Seq(Nat) /\ HistoryTokens(kept) = Sum(GroupSizes(new))
    BY <1>1, <1>2, TokensOfGroups
  <2>4. sizes \in Seq(Nat) /\ Sum(sizes) = Sum(GroupSizes(new))
    BY <2>2, <2>3, SumOfReverse
  <2>5. Fitting(sizes, budget) = sizes
    <3> HIDE DEF sizes
    <3>1. Sum(sizes) <= budget
      BY <1>3, <2>3, <2>4
    <3> QED
      BY <2>4, <3>1, FittingAll
  <2>6. Len(sizes) = Len(new) /\ Len(new) \in Nat /\ Len(new) \in 0..Len(new)
    <3>1. Len(rs) = Len(new) /\ Len(new) \in Nat
      <4> DEFINE l == Len(new)
      <4>1. rs = [k \in 1..l |-> new[l - k + 1]] /\ l \in Nat
        BY <1>2 DEF Reverse
      <4> HIDE DEF rs, l
      <4>2. Len(rs) = l
        BY <2>2, <4>1
      <4> QED
        BY <4>1, <4>2 DEF l
    <3>2. sizes = [k \in DOMAIN rs |-> GroupTokens(rs[k])]
      BY DEF GroupSizes
    <3> HIDE DEF sizes, rs
    <3> QED
      BY <2>2, <2>4, <3>1, <3>2
  <2>7. TrimHistory(kept, budget) = FlattenSeq(Reverse(SubSeq(rs, 1, Len(Fitting(sizes, budget)))))
    BY <2>1 DEF TrimHistory, GroupSizes
  <2>8. Reverse(SubSeq(rs, 1, Len(new))) = new
    <3>1. Reverse(SubSeq(Reverse(new), 1, Len(new))) = SubSeq(new, Len(new) - Len(new) + 1, Len(new))
      BY <1>2, <2>6, ReversedPrefix
    <3>2. Len(new) - Len(new) + 1 = 1
      BY <2>6
    <3>3. SubSeq(new, 1, Len(new)) = new
      BY <1>2, SubSeqFull
    <3> QED
      BY <3>1, <3>2, <3>3
  <2> HIDE DEF rs, sizes
  <2> QED
    BY <1>1, <2>5, <2>6, <2>7, <2>8
<1> QED
  BY <1>3, <1>4, <1>5, <1>6 DEF kept

----------------------------------------------------------------------------
(* The messages of a round.                                                  *)

\* A constant added up.
LEMMA SumOfConstant ==
    ASSUME NEW n \in Nat, NEW c \in Nat, NEW w, \A k \in 1..n : w[k] = c
    PROVE  SumOn(w, 1..n) = n * c
<1> DEFINE Bad == {k \in 0..n : SumOn(w, 1..k) # k * c}
<1>1. SUFFICES ASSUME Bad # {} PROVE FALSE
  <2>1. n \notin Bad
    BY <1>1
  <2> QED
    BY <2>1
<1>2. PICK m \in Bad : \A k \in Bad : m <= k
  <2>1. Bad \in SUBSET Nat
    OBVIOUS
  <2> HIDE DEF Bad
  <2> QED
    BY <1>1, <2>1, LeastNat
<1>3. m # 0
  <2>1. 1..0 = {} /\ 0 * c = 0
    OBVIOUS
  <2>2. SumOn(w, 1..0) = 0
    BY <2>1, SumEmpty
  <2> QED
    BY <1>2, <2>1, <2>2
<1>4. m \in Nat /\ m > 0 /\ m - 1 \in 0..n /\ ~(m <= m - 1) /\ w[m] = c /\ \A j \in 1..m : w[j] \in Nat
  BY <1>2, <1>3
<1>5. SumOn(w, 1..(m - 1)) = (m - 1) * c
  BY <1>2, <1>4
<1>6. SumOn(w, 1..m) = c + (m - 1) * c
  BY <1>4, <1>5, SumOfLast
<1>7. c + (m - 1) * c = m * c
  BY <1>4
<1> QED
  BY <1>2, <1>6, <1>7

\* Sizes of calls are natural numbers.
LEMMA CallTypes ==
    ASSUME NEW calls \in Seq(Call)
    PROVE  /\ Len(calls) \in Nat /\ DOMAIN calls = 1..Len(calls)
           /\ \A k \in 1..Len(calls) : calls[k] \in Call /\ calls[k].id \in Nat /\ calls[k].head \in Nat
           /\ Heads(calls) \in Nat
           /\ MinimumResults(calls) \in Nat
           /\ MinimumResults(calls) = SumOn([k \in 1..Len(calls) |-> ObjectMessage(calls[k])], 1..Len(calls))
           /\ MinimumAssistant(calls) \in Nat
<1> DEFINE n == Len(calls)
<1>1. n \in Nat /\ DOMAIN calls = 1..n /\ \A k \in 1..n : calls[k] \in Call
  OBVIOUS
<1>2. \A k \in 1..n : calls[k].id \in Nat /\ calls[k].head \in Nat
  BY <1>1 DEF Call
<1>3. Heads(calls) \in Nat
  <2> DEFINE w == [k \in 1..n |-> calls[k].head]
  <2>1. w \in Seq(Nat)
    <3> HIDE DEF n
    <3> QED
      BY <1>1, <1>2
  <2>2. Sum(w) \in Nat
    <3> HIDE DEF w
    <3> QED
      BY <2>1, SumOfNats
  <2> QED
    BY <1>1, <2>2 DEF Heads
<1>4. EmptyObject \in Nat /\ EmptyText \in Nat
  BY TranscriptAssumption
<1> DEFINE v == [k \in 1..n |-> ObjectMessage(calls[k])]
<1>5. v \in Seq(Nat) /\ DOMAIN v = 1..n
  <2>1. \A k \in 1..n : ObjectMessage(calls[k]) \in Nat
    BY <1>2, <1>4 DEF ObjectMessage
  <2> HIDE DEF n
  <2> QED
    BY <1>1, <2>1
<1>6. Sum(v) \in Nat /\ Sum(v) = SumOn(v, 1..n)
  <2> HIDE DEF v
  <2> QED
    BY <1>5, SumOfNats, SumIsSumOn
<1>7. MinimumResults(calls) = Sum(v)
  BY <1>1 DEF MinimumResults
<1>8. MinimumAssistant(calls) \in Nat
  <2>1. n * EmptyObject \in Nat
    BY <1>1, <1>4
  <2> QED
    BY <1>3, <1>4, <2>1 DEF MinimumAssistant
<1> QED
  BY <1>1, <1>2, <1>3, <1>6, <1>7, <1>8

\* The arguments sent stay within {} for every call and what was left.
LEMMA ArgumentsFit ==
    ASSUME NEW calls \in Seq(Call), NEW extra \in Nat
    PROVE  Sum(BoundCalls(calls, extra)) \in 0..(Len(calls) * EmptyObject + extra)
<1> DEFINE n == Len(calls)
           v == BoundCalls(calls, extra)
           w == [k \in 1..n |-> EmptyObject]
<1>1. n \in Nat /\ EmptyObject \in Nat
  BY TranscriptAssumption
<1>2. PICK left \in [0..n -> Nat] :
         /\ left[0] = extra /\ v \in Seq(Nat) /\ Len(v) = n
         /\ \A k \in 1..n : v[k] + left[k] <= EmptyObject + left[k - 1]
  BY BoundCallsShare
<1> HIDE DEF v
<1>3. \A k \in 1..n : v[k] \in Nat /\ w[k] \in Nat /\ v[k] + left[k] <= w[k] + left[k - 1]
  BY <1>1, <1>2
<1>4. \A k \in 1..n : w[k] = EmptyObject
  OBVIOUS
<1> HIDE DEF n, w
<1>5. SumOn(v, 1..n) <= SumOn(w, 1..n) + left[0]
  BY <1>1, <1>3, SharesAddUp
<1>6. SumOn(w, 1..n) = n * EmptyObject
  BY <1>1, <1>4, SumOfConstant
<1>7. Sum(v) = SumOn(v, 1..n) /\ Sum(v) \in Nat
  <2>1. DOMAIN v = 1..n
    BY <1>2
  <2> QED
    BY <1>2, <2>1, SumIsSumOn, SumOfNats
<1>8. n * EmptyObject \in Nat
  BY <1>1
<1> QED
  BY <1>2, <1>5, <1>6, <1>7, <1>8 DEF v, n

\* The assistant message of a round takes no more than its minimum and a third
\* of the free tokens.
LEMMA AssistantFits ==
    ASSUME NEW calls \in Seq(Call), NEW text \in Nat, Available \in Nat,
           MinimumAssistant(calls) + MinimumResults(calls) <= Available
    PROVE  /\ AssistantTokens(calls, text) \in Nat
           /\ AssistantTokens(calls, text) + MinimumResults(calls) <= Available
<1> DEFINE free == Available - MinimumAssistant(calls) - MinimumResults(calls)
           share == free \div 3
           sent == Sum(BoundCalls(calls, share \div 2))
           bare == EmptyText + Heads(calls) + sent + 1
           room == Monus(MinimumAssistant(calls) + share, bare)
<1>1. MinimumAssistant(calls) \in Nat /\ MinimumResults(calls) \in Nat /\ Heads(calls) \in Nat
      /\ Len(calls) \in Nat
  BY CallTypes
<1>2. EmptyText \in Nat /\ EmptyObject \in Nat
  BY TranscriptAssumption
<1>3. free \in Nat
  BY <1>1
<1>4. share \in Nat /\ 3 * share <= free /\ share \div 2 \in Nat /\ share \div 2 <= share
  <2> HIDE DEF free
  <2> QED
    BY <1>3
<1>5. sent \in 0..(Len(calls) * EmptyObject + share \div 2)
  <2> HIDE DEF share
  <2> QED
    BY <1>4, ArgumentsFit
<1>6. Len(calls) * EmptyObject \in Nat
  BY <1>1, <1>2
<1>7. MinimumAssistant(calls) = EmptyText + Heads(calls) + Len(calls) * EmptyObject + 1
  BY DEF MinimumAssistant
<1>8. AssistantTokens(calls, text) = bare - EmptyText + TruncatedText(text, room)
  BY DEF AssistantTokens
<1>9. sent \in Nat /\ bare \in Nat /\ bare >= EmptyText /\ bare <= MinimumAssistant(calls) + share
  <2> DEFINE objects == Len(calls) * EmptyObject
             half == share \div 2
  <2>1. sent \in 0..(objects + half) /\ objects \in Nat /\ half \in Nat /\ half <= share
    BY <1>4, <1>5, <1>6
  <2>2. MinimumAssistant(calls) = EmptyText + Heads(calls) + objects + 1
    BY <1>7
  <2>3. bare = EmptyText + Heads(calls) + sent + 1
    OBVIOUS
  <2> HIDE DEF objects, half, sent, share, bare
  <2>4. sent \in Nat /\ sent <= objects + half
    BY <2>1
  <2>5. \A e, h, o, a, d, s \in Nat :
          a <= o + d /\ d <= s => /\ e + h + a + 1 \in Nat /\ e + h + a + 1 >= e
                               /\ e + h + a + 1 <= (e + h + o + 1) + s
    OBVIOUS
  <2> QED
    BY <1>1, <1>2, <1>4, <2>1, <2>2, <2>3, <2>4, <2>5
<1> HIDE DEF free, share, sent, bare
<1>10. TruncatedText(text, room) \in Nat
       /\ bare - EmptyText + TruncatedText(text, room) <= MinimumAssistant(calls) + share
  BY SMTT(60), <1>1, <1>2, <1>4, <1>9 DEF TruncatedText, AtLeast, AtMost, Monus
<1>11. bare - EmptyText + TruncatedText(text, room) \in Nat
  BY <1>2, <1>9, <1>10
<1>12. MinimumAssistant(calls) + share + MinimumResults(calls) <= Available
  BY <1>1, <1>3, <1>4 DEF free
<1> QED
  BY <1>1, <1>4, <1>8, <1>10, <1>11, <1>12

\* The results sent fit into what the round has left for them.
LEMMA ResultsFit ==
    ASSUME NEW calls \in Seq(Call), NEW sizes \in Seq(Nat), Len(sizes) = Len(calls), NEW extra \in Nat
    PROVE  /\ BoundResults(sizes, extra) \in Seq(Nat) /\ Len(BoundResults(sizes, extra)) = Len(calls)
           /\ Sum([k \in DOMAIN calls |-> BoundResults(sizes, extra)[k] + calls[k].id + 1])
                 \in 0..(MinimumResults(calls) + extra)
<1> DEFINE n == Len(calls)
           sent == BoundResults(sizes, extra)
           v == [k \in 1..n |-> sent[k] + calls[k].id + 1]
           w == [k \in 1..n |-> ObjectMessage(calls[k])]
<1>1. /\ n \in Nat /\ EmptyObject \in Nat /\ DOMAIN calls = 1..n
      /\ \A k \in 1..n : calls[k].id \in Nat
  BY CallTypes, TranscriptAssumption
<1>0. MinimumResults(calls) \in Nat /\ MinimumResults(calls) = SumOn(w, 1..n)
  BY CallTypes
<1>2. PICK left \in [0..n -> Nat] :
         /\ left[0] = extra /\ sent \in Seq(Nat) /\ Len(sent) = n
         /\ \A k \in 1..n : sent[k] + left[k] <= EmptyObject + left[k - 1]
  BY BoundResultsShare
<1> HIDE DEF sent
<1>9. \A k \in 1..n : sent[k] \in Nat
  <2> HIDE DEF n
  <2> QED
    BY <1>2, ElementOfSeq
<1>3. ASSUME NEW k \in 1..n
      PROVE  v[k] \in Nat /\ w[k] \in Nat /\ v[k] + left[k] <= w[k] + left[k - 1]
  <2>1. v[k] = sent[k] + calls[k].id + 1 /\ w[k] = EmptyObject + calls[k].id + 1
    BY DEF ObjectMessage
  <2>2. sent[k] \in Nat /\ calls[k].id \in Nat /\ left[k] \in Nat /\ left[k - 1] \in Nat
    <3>1. k \in 0..n /\ k - 1 \in 0..n
      BY <1>1
    <3> HIDE DEF n
    <3> QED
      BY <1>1, <1>9, <3>1
  <2>3. sent[k] + left[k] <= EmptyObject + left[k - 1]
    BY <1>2
  <2> HIDE DEF v, w, n
  <2>4. \A x, e, i, l, y \in Nat : x + l <= e + y => (x + i + 1) + l <= (e + i + 1) + y
    OBVIOUS
  <2>5. (sent[k] + calls[k].id + 1) + left[k] <= (EmptyObject + calls[k].id + 1) + left[k - 1]
    BY <1>1, <2>2, <2>3, <2>4
  <2>6. sent[k] + calls[k].id + 1 \in Nat /\ EmptyObject + calls[k].id + 1 \in Nat
    <3>1. \A x, i \in Nat : x + i + 1 \in Nat
      OBVIOUS
    <3> QED
      BY <1>1, <2>2, <3>1
  <2> QED
    BY <2>1, <2>5, <2>6
<1>4. v \in Seq(Nat) /\ DOMAIN v = 1..n
  <2> HIDE DEF n
  <2>1. \A k \in 1..n : sent[k] + calls[k].id + 1 \in Nat
    <3>1. \A x, i \in Nat : x + i + 1 \in Nat
      OBVIOUS
    <3> QED
      BY <1>1, <1>9, <3>1
  <2> QED
    BY <1>1, <2>1
<1>5. SumOn(v, 1..n) <= SumOn(w, 1..n) + left[0]
  <2> HIDE DEF v, w, n
  <2> QED
    BY <1>1, <1>3, SharesAddUp
<1>6. Sum(v) = SumOn(v, 1..n) /\ Sum(v) \in Nat
  <2> HIDE DEF v
  <2> QED
    BY <1>4, SumIsSumOn, SumOfNats
<1>7. [k \in DOMAIN calls |-> sent[k] + calls[k].id + 1] = v
  BY <1>1
<1>8. Sum(v) \in 0..(MinimumResults(calls) + extra)
  <2> HIDE DEF v, w, n
  <2> QED
    BY <1>0, <1>2, <1>5, <1>6
<1> QED
  BY <1>2, <1>7, <1>8 DEF sent

\* A result fits when either of the two forms the bound allows does.
LEMMA EitherFits ==
    ASSUME NEW st, NEW max, NEW a, NEW b, st.fits = (a <= max \/ b <= max), b <= max
    PROVE  st.fits
  OBVIOUS

\* With a bound the configuration allows, every result can be stored.
LEMMA StoredFits ==
    ASSUME NEW c \in Call, NEW r \in Outcome, NEW max \in Nat, max >= 4096
    PROVE  Stored(c, r, max).fits
<1> DEFINE limit == AtMost(max \div 8, 4096)
           short == AtMost(r.summary, limit) * r.escape
           fixed == Envelope + c.bytes + EmptyPreviewBytes
           summary == IF fixed + short > max THEN 0 ELSE short
           whole == Envelope + c.bytes + r.summary * r.escape + r.bytes
<1>1. Stored(c, r, max).fits = (whole <= max \/ fixed + summary <= max)
  BY DEF Stored
<1>2. fixed \in Nat /\ fixed <= max
  <2>1. c.bytes \in 0..3072
    BY DEF Call, MaxIdentifierBytes
  <2>2. \A b \in 0..3072 : 53 + b + 31 \in Nat /\ 53 + b + 31 <= max
    BY SMTT(60)
  <2>3. fixed = 53 + c.bytes + 31
    BY DEF Envelope, EmptyPreviewBytes
  <2>4. 53 + c.bytes + 31 \in Nat /\ 53 + c.bytes + 31 <= max
    <3> DEFINE b == c.bytes
    <3>1. b \in 0..3072
      BY <2>1
    <3> HIDE DEF b
    <3>2. 53 + b + 31 \in Nat /\ 53 + b + 31 <= max
      BY <2>2, <3>1
    <3> QED
      BY <3>2 DEF b
  <2> HIDE DEF fixed
  <2> QED
    BY <2>3, <2>4
<1>3. short \in Nat
  <2>1. r.summary \in Nat /\ r.escape \in Nat
    BY DEF Outcome
  <2>2. limit \in Nat
    BY DEF AtMost
  <2>3. AtMost(r.summary, limit) \in Nat
    <3> HIDE DEF limit
    <3> QED
      BY <2>1, <2>2 DEF AtMost
  <2> HIDE DEF limit
  <2> QED
    BY <2>1, <2>3
<1>4. fixed + summary <= max
  <2> HIDE DEF fixed, short
  <2> QED
    BY <1>2, <1>3
<1> QED
  <2>1. Stored(c, r, max).fits = (whole <= max \/ fixed + summary <= max)
    BY <1>1
  <2> DEFINE st == Stored(c, r, max)
             b == fixed + summary
  <2>2. st.fits = (whole <= max \/ b <= max) /\ b <= max
    BY <2>1, <1>4
  <2> HIDE DEF st, b, whole, fixed, summary, short, limit
  <2>3. st.fits
    BY <2>2, EitherFits
  <2> QED
    BY <2>3 DEF st
-----------------------------------------------------------------------------
(* The turn. *)

SessionNode == [tokens : Nat, own : BOOLEAN]

TranscriptTypes ==
    /\ cfg \in Config /\ Valid(cfg)
    /\ profile \in {"LocalMemory", "ExternalContext"}
    /\ phase \in {"history", "turn", "refused", "unreportable"}
    /\ history \in Seq(Message) /\ session \in Seq(SessionNode)
    /\ memory.abstracts \in Seq(Nat) /\ memory.raws \in Seq(Nat)
    /\ summaries \in Seq(Nat) /\ used \in Nat /\ rounds \in Nat

InBudget ==
    /\ used <= cfg.reserveTools
    /\ phase # "unreportable"
    /\ phase = "turn" =>
          HistoryBudget >= 0 /\ HistoryTokens(history) <= HistoryBudget

TranscriptInv == TranscriptTypes /\ InBudget

\* The numbers of a valid configuration.
LEMMA ConfigNumbers ==
    ASSUME NEW c \in Config, Valid(c)
    PROVE  /\ c.total \in Nat /\ c.reserveSystem \in Nat /\ c.reserveTools \in Nat
           /\ c.reserveWorking \in Nat /\ c.maxResultBytes \in Nat /\ c.maxResultBytes >= 4096
           /\ c.sessionRatio \in Nat /\ c.sessionRatio <= Scale
           /\ RemainingTokens(c) \in Nat
           /\ RemainingTokens(c) + c.reserveSystem + c.reserveTools + c.reserveWorking = c.total
<1>1. /\ c.total \in Nat /\ c.reserveSystem \in Nat /\ c.reserveTools \in Nat
      /\ c.reserveWorking \in Nat /\ c.maxResultBytes \in Nat
  BY DEF Config
<1>2. c.reserveSystem + c.reserveTools + c.reserveWorking <= c.total
  BY DEF Valid
<1>5. c.sessionRatio \in Nat /\ c.sessionRatio <= Scale
  <2>1. c.sessionRatio \in 0..Scale
    BY DEF Valid
  <2>2. Scale \in Nat
    BY SMT DEF Scale
  <2> QED
    BY <2>1, <2>2, SMT
<1>3. /\ RemainingTokens(c) \in Nat
      /\ RemainingTokens(c) + c.reserveSystem + c.reserveTools + c.reserveWorking = c.total
  <2>1. \A t, s, l, w \in Nat : s + l + w <= t =>
           /\ Monus(Monus(Monus(t, s), l), w) \in Nat
           /\ Monus(Monus(Monus(t, s), l), w) + s + l + w = t
    BY DEF Monus
  <2>2. RemainingTokens(c) = Monus(Monus(Monus(c.total, c.reserveSystem), c.reserveTools), c.reserveWorking)
    BY DEF RemainingTokens
  <2> QED
    <3> DEFINE t == c.total
               s == c.reserveSystem
               l == c.reserveTools
               w == c.reserveWorking
               m == Monus(Monus(Monus(t, s), l), w)
    <3>1. t \in Nat /\ s \in Nat /\ l \in Nat /\ w \in Nat /\ s + l + w <= t
      BY <1>1, <1>2
    <3>2. m \in Nat /\ m + s + l + w = t
      <4> HIDE DEF t, s, l, w
      <4> QED
        BY <2>1, <3>1
    <3>3. RemainingTokens(c) = m
      BY <2>2
    <3> QED
      <4> HIDE DEF m
      <4> QED
        BY <3>2, <3>3
<1>4. c.maxResultBytes >= 4096
  <2>1. c.maxResultBytes \in MinToolResultBytes..MaxToolPayloadBytes
    BY DEF Valid, ValidBounds
  <2>2. MinToolResultBytes \in Nat /\ MinToolResultBytes = 4096
    BY SMT DEF MinToolResultBytes
  <2> QED
    BY <1>1, <2>1, <2>2, SMT
<1> QED
  BY <1>1, <1>2, <1>3, <1>4, <1>5

\* Once the minimum of a round is reserved, the round is completed: what it
\* appends stays within the reserve for tools.
LEMMA RoundCompletes ==
    ASSUME TranscriptInv, NEW calls \in CallChoices, NEW text \in Texts,
           NEW outcomes \in [DOMAIN calls -> Outcomes], ToolRound(calls, text, outcomes)
    PROVE  /\ phase = "turn" /\ phase' = "turn"
           /\ used' \in Nat /\ used' <= cfg.reserveTools /\ rounds' \in Nat
           /\ summaries' \in Seq(Nat) /\ session' \in Seq(SessionNode)
<1> DEFINE n == Len(calls)
           sizes == StoredTokens(calls, outcomes)
           assistant == AssistantTokens(calls, text)
           extra == Available - assistant - MinimumResults(calls)
           sent == SentResults(calls, outcomes, assistant)
           results == ResultTokens(calls, sent)
           nodes == [k \in DOMAIN sent |-> [tokens |-> sent[k], own |-> TRUE]]
<1>1. calls \in Seq(Call) /\ text \in Nat /\ \A k \in DOMAIN calls : outcomes[k] \in Outcome
  BY TranscriptAssumption
<1>2. /\ n \in Nat /\ DOMAIN calls = 1..n /\ \A k \in 1..n : calls[k] \in Call
      /\ MinimumResults(calls) \in Nat
  BY <1>1, CallTypes
<1>3. cfg.reserveTools \in Nat /\ cfg.maxResultBytes \in Nat /\ cfg.maxResultBytes >= 4096
  BY ConfigNumbers DEF TranscriptInv, TranscriptTypes
<1>4. used \in Nat /\ rounds \in Nat /\ summaries \in Seq(Nat) /\ session \in Seq(SessionNode)
  BY DEF TranscriptInv, TranscriptTypes
<1>5. used <= cfg.reserveTools
  BY DEF TranscriptInv, InBudget
<1>6. Available \in Nat /\ used + Available = cfg.reserveTools
  <2>1. \A a, b \in Nat : b <= a => a - b \in Nat /\ b + (a - b) = a
    OBVIOUS
  <2> QED
    BY <1>3, <1>4, <1>5, <2>1 DEF Available
<1>7. MinimumAssistant(calls) + MinimumResults(calls) <= Available /\ phase = "turn"
  BY DEF ToolRound
<1>8. assistant \in Nat /\ assistant + MinimumResults(calls) <= Available
  BY <1>1, <1>6, <1>7, AssistantFits
<1>9. extra \in Nat /\ assistant + MinimumResults(calls) + extra = Available
  <2>1. \A x, y, z \in Nat : y + z <= x => x - y - z \in Nat /\ y + z + (x - y - z) = x
    OBVIOUS
  <2> HIDE DEF assistant
  <2> QED
    BY <1>2, <1>6, <1>8, <2>1
<1>10. sizes \in Seq(Nat) /\ Len(sizes) = n
  <2>1. \A k \in 1..n : outcomes[k].cut \in Nat /\ outcomes[k].tokens \in Nat
    BY <1>1, <1>2 DEF Outcome
  <2> DEFINE cut(k) == Stored(calls[k], outcomes[k], cfg.maxResultBytes).cut
  <2>2. sizes = [k \in 1..n |-> IF cut(k) THEN outcomes[k].cut ELSE outcomes[k].tokens]
    BY <1>2 DEF StoredTokens
  <2> HIDE DEF n, cut, sizes
  <2> QED
    BY <1>2, <2>1, <2>2
<1>11. sent \in Seq(Nat) /\ Len(sent) = n /\ results \in 0..(MinimumResults(calls) + extra)
  <2>1. sent = BoundResults(sizes, extra)
    BY DEF SentResults
  <2> HIDE DEF extra, sizes, sent
  <2>2. sent \in Seq(Nat) /\ Len(sent) = n
        /\ Sum([k \in DOMAIN calls |-> sent[k] + calls[k].id + 1]) \in 0..(MinimumResults(calls) + extra)
    BY <1>1, <1>9, <1>10, <2>1, ResultsFit
  <2> QED
    BY <2>2 DEF ResultTokens
<1>12. used + assistant + results \in Nat /\ used + assistant + results <= cfg.reserveTools
  <2>1. \A u, a, r, m, e, v, w \in Nat :
           r \in 0..(m + e) /\ a + m + e = v /\ u + v = w => u + a + r \in Nat /\ u + a + r <= w
    OBVIOUS
  <2> DEFINE m == MinimumResults(calls)
             w == cfg.reserveTools
  <2>2. m \in Nat /\ w \in Nat /\ results \in 0..(m + extra) /\ assistant + m + extra = Available
        /\ used + Available = w /\ used \in Nat /\ Available \in Nat /\ assistant \in Nat /\ extra \in Nat
    <3> HIDE DEF assistant, extra, results, sent, sizes
    <3> QED
      BY <1>2, <1>3, <1>4, <1>6, <1>8, <1>9, <1>11
  <2> HIDE DEF assistant, extra, results, m, w
  <2>3. results \in Nat
    BY <2>2
  <2>4. used + assistant + results \in Nat /\ used + assistant + results <= w
    BY <2>1, <2>2, <2>3
  <2> QED
    BY <2>4 DEF w
<1>13. Storable(calls, outcomes)
  <2> SUFFICES ASSUME NEW k \in DOMAIN calls
               PROVE  Stored(calls[k], outcomes[k], cfg.maxResultBytes).fits
    BY DEF Storable
  <2>1. calls[k] \in Call /\ outcomes[k] \in Outcome
    BY <1>1, <1>2
  <2> QED
    BY <1>3, <2>1, StoredFits
<1>14. ~(Available - assistant < MinimumResults(calls))
  <2>1. \A x, y, z \in Nat : y + z <= x => ~(x - y < z)
    OBVIOUS
  <2> HIDE DEF assistant
  <2> QED
    BY <1>2, <1>6, <1>8, <2>1
<1>15. ~(~Storable(calls, outcomes) \/ used + assistant + results > cfg.reserveTools)
  <2>1. \A x, y \in Nat : x <= y => ~(x > y)
    OBVIOUS
  <2> HIDE DEF assistant, results
  <2> QED
    BY <1>3, <1>12, <1>13, <2>1
<1>16. /\ used' = used + assistant + results /\ rounds' = rounds + 1 /\ phase' = phase
       /\ summaries' = summaries \o sent
       /\ session' = session \o IF profile = "LocalMemory" THEN nodes ELSE <<>>
  <2>1. IF Available - assistant < MinimumResults(calls)
        THEN phase' = "refused" /\ UNCHANGED <<session, summaries, used, rounds>>
        ELSE IF ~Storable(calls, outcomes) \/ used + assistant + results > cfg.reserveTools
        THEN phase' = "unreportable" /\ UNCHANGED <<session, summaries, used, rounds>>
        ELSE /\ used' = used + assistant + results /\ rounds' = rounds + 1 /\ UNCHANGED phase
             /\ summaries' = summaries \o sent
             /\ session' = session \o IF profile = "LocalMemory" THEN nodes ELSE <<>>
    BY Zenon DEF ToolRound
  <2> DEFINE after == session \o IF profile = "LocalMemory" THEN nodes ELSE <<>>
             others == summaries \o sent
             tokens == used + assistant + results
  <2>2. used' = tokens /\ rounds' = rounds + 1 /\ phase' = phase /\ summaries' = others /\ session' = after
    <3> HIDE DEF assistant, sent, results, nodes
    <3> QED
      BY <1>14, <1>15, <2>1, Zenon
  <2> QED
    BY <2>2
<1>17. nodes \in Seq(SessionNode)
  <2>1. DOMAIN sent = 1..n /\ \A k \in 1..n : sent[k] \in Nat
    <3> HIDE DEF sent, n
    <3> QED
      BY <1>2, <1>11, ElementOfSeq
  <2>2. \A x \in Nat : [tokens |-> x, own |-> TRUE] \in SessionNode
    BY DEF SessionNode
  <2>3. nodes = [k \in 1..n |-> [tokens |-> sent[k], own |-> TRUE]]
    BY <2>1
  <2> HIDE DEF sent, n
  <2> QED
    BY <1>2, <2>1, <2>2, <2>3
<1>18. summaries' \in Seq(Nat)
  <2> HIDE DEF sent
  <2> QED
    BY <1>4, <1>11, <1>16, ConcatProperties
<1>19. session' \in Seq(SessionNode)
  <2>1. <<>> \in Seq(SessionNode)
    OBVIOUS
  <2>2. (IF profile = "LocalMemory" THEN nodes ELSE <<>>) \in Seq(SessionNode)
    <3> HIDE DEF nodes
    <3> QED
      BY <1>17, <2>1
  <2> DEFINE added == IF profile = "LocalMemory" THEN nodes ELSE <<>>
  <2>3. session' = session \o added /\ added \in Seq(SessionNode)
    BY <1>16, <2>2
  <2> HIDE DEF added, nodes
  <2> QED
    BY <1>4, <2>3, ConcatProperties
<1> QED
  <2> HIDE DEF sent, results, assistant, nodes
  <2> QED
    BY <1>4, <1>7, <1>12, <1>16, <1>18, <1>19

\* What the prompt and the working text take beyond their reserves.
LEMMA FixedFits ==
    ASSUME NEW c \in Config
    PROVE  /\ FixedTokens(c) \in Nat
           /\ SystemTokens + WorkingTokens <= FixedTokens(c) + c.reserveSystem + c.reserveWorking
<1>1. /\ c.reserveSystem \in Nat /\ c.reserveWorking \in Nat
      /\ SystemTokens \in Nat /\ WorkingTokens \in Nat
  BY TranscriptAssumption DEF Config
<1>2. \A s, w, a, b \in Nat : /\ Monus(w, b) + Monus(s, a) \in Nat
                              /\ s + w <= Monus(w, b) + Monus(s, a) + a + b
  BY DEF Monus
<1> QED
  BY <1>1, <1>2 DEF FixedTokens

\* The initial states.
LEMMA TranscriptInitially == TranscriptInit => TranscriptInv
<1> SUFFICES ASSUME TranscriptInit PROVE TranscriptInv
  OBVIOUS
<1>1. /\ cfg \in Config /\ Valid(cfg) /\ profile \in {"LocalMemory", "ExternalContext"}
      /\ phase = "history" /\ history = <<>> /\ summaries = <<>> /\ used = 0 /\ rounds = 0
  BY TranscriptAssumption DEF TranscriptInit
<1>2. history \in Seq(Message) /\ summaries \in Seq(Nat) /\ used \in Nat /\ rounds \in Nat
  BY <1>1
<1>3. session \in Seq(SessionNode)
  <2>1. CASE profile = "LocalMemory"
    <3>1. PICK v \in SessionViews : session = [k \in DOMAIN v |-> [tokens |-> v[k], own |-> FALSE]]
      BY <2>1 DEF TranscriptInit
    <3>2. v \in Seq(Nat)
      BY TranscriptAssumption
    <3>3. \A x \in Nat : [tokens |-> x, own |-> FALSE] \in SessionNode
      BY DEF SessionNode
    <3>4. session = [k \in 1..Len(v) |-> [tokens |-> v[k], own |-> FALSE]]
      BY <3>1, <3>2
    <3> QED
      BY <3>2, <3>3, <3>4
  <2>2. CASE profile # "LocalMemory"
    <3>1. session = <<>>
      BY <2>2 DEF TranscriptInit
    <3> QED
      BY <3>1
  <2> QED
    BY <2>1, <2>2
<1>4. memory.abstracts \in Seq(Nat) /\ memory.raws \in Seq(Nat)
  <2>1. memory \in Memories \/ memory = [abstracts |-> <<>>, raws |-> <<>>]
    BY DEF TranscriptInit
  <2>2. CASE memory \in Memories
    BY <2>2, TranscriptAssumption
  <2>3. CASE memory = [abstracts |-> <<>>, raws |-> <<>>]
    <3>1. memory.abstracts = <<>> /\ memory.raws = <<>>
      BY <2>3
    <3> QED
      BY <3>1
  <2> QED
    BY <2>1, <2>2, <2>3
<1>5. used <= cfg.reserveTools
  BY <1>1, ConfigNumbers
<1> QED
  BY <1>1, <1>2, <1>3, <1>4, <1>5 DEF TranscriptInv, TranscriptTypes, InBudget

\* Every step keeps the types and the budget.
LEMMA TranscriptStep == TranscriptInv /\ [TranscriptNext]_transcriptVars => TranscriptInv'
<1> SUFFICES ASSUME TranscriptInv, [TranscriptNext]_transcriptVars PROVE TranscriptInv'
  OBVIOUS
<1>0. TranscriptTypes /\ InBudget
  BY DEF TranscriptInv
<1>1. CASE Hear
  <2>1. PICK m \in Messages : history' = Append(history, m)
    BY <1>1 DEF Hear
  <2>2. history' \in Seq(Message)
    BY <1>0, <2>1, TranscriptAssumption DEF TranscriptTypes
  <2>3. phase = "history" /\ UNCHANGED <<cfg, profile, phase, session, memory, summaries, used, rounds>>
    BY <1>1 DEF Hear
  <2> QED
    BY <1>0, <2>2, <2>3 DEF TranscriptInv, TranscriptTypes, InBudget
<1>2. CASE StartTurn
  <2>1. UNCHANGED <<cfg, profile, session, memory, summaries, used, rounds>>
    BY <1>2 DEF StartTurn
  <2>2. HistoryBudget \in Int /\ HistoryBudget' = HistoryBudget
    <3>1. RemainingTokens(cfg) \in Nat /\ FixedTokens(cfg) \in Nat
      BY <1>0, ConfigNumbers, FixedFits DEF TranscriptTypes
    <3> QED
      BY <2>1, <3>1 DEF HistoryBudget
  <2>3. CASE HistoryBudget < 0
    <3>1. phase' = "refused" /\ history' = history
      BY <1>2, <2>3 DEF StartTurn
    <3> QED
      BY <1>0, <2>1, <3>1 DEF TranscriptInv, TranscriptTypes, InBudget
  <2>4. CASE ~(HistoryBudget < 0)
    <3>1. phase' = "turn" /\ history' = TrimHistory(history, HistoryBudget)
      BY <1>2, <2>4 DEF StartTurn
    <3>2. HistoryBudget \in Nat /\ HistoryBudget >= 0
      BY <2>2, <2>4
    <3>3. history' \in Seq(Message) /\ HistoryTokens(history') <= HistoryBudget
      BY <1>0, <3>1, <3>2, TrimmedFits DEF TranscriptTypes
    <3>4. (HistoryTokens(history))' = HistoryTokens(history')
      BY DEF HistoryTokens
    <3> QED
      BY <1>0, <2>1, <2>2, <3>1, <3>2, <3>3, <3>4 DEF TranscriptInv, TranscriptTypes, InBudget
  <2> QED
    BY <2>3, <2>4
<1>3. ASSUME NEW calls \in CallChoices, RefuseRound(calls) PROVE TranscriptInv'
  <2>1. phase' = "refused" /\ UNCHANGED <<cfg, profile, history, session, memory, summaries, used, rounds>>
    BY <1>3 DEF RefuseRound
  <2> QED
    BY <1>0, <2>1 DEF TranscriptInv, TranscriptTypes, InBudget
<1>4. ASSUME NEW calls \in CallChoices, NEW text \in Texts, NEW outcomes \in [DOMAIN calls -> Outcomes],
             ToolRound(calls, text, outcomes)
      PROVE  TranscriptInv'
  <2>1. /\ phase = "turn" /\ phase' = "turn"
        /\ used' \in Nat /\ used' <= cfg.reserveTools /\ rounds' \in Nat
        /\ summaries' \in Seq(Nat) /\ session' \in Seq(SessionNode)
    BY <1>4, RoundCompletes
  <2>2. UNCHANGED <<cfg, profile, history, memory>>
    BY <1>4, Zenon DEF ToolRound
  <2>3. HistoryBudget' = HistoryBudget /\ (HistoryTokens(history))' = HistoryTokens(history)
    BY <2>2 DEF HistoryBudget, HistoryTokens
  <2> QED
    BY <1>0, <2>1, <2>2, <2>3 DEF TranscriptInv, TranscriptTypes, InBudget
<1>5. CASE UNCHANGED transcriptVars
  <2>1. HistoryBudget' = HistoryBudget /\ (HistoryTokens(history))' = HistoryTokens(history)
    BY <1>5 DEF transcriptVars, HistoryBudget, HistoryTokens
  <2> QED
    BY <1>0, <1>5, <2>1 DEF transcriptVars, TranscriptInv, TranscriptTypes, InBudget
<1> QED
  BY <1>1, <1>2, <1>3, <1>4, <1>5 DEF TranscriptNext

\* Type correctness of the transcript, and the budgets of its parts: the turn's
\* own messages stay within the reserve for tools and the trimmed history within
\* what the reserves leave, whatever the estimates are.
THEOREM TranscriptInvariant == TranscriptSpec => []TranscriptInv
  BY TranscriptInitially, TranscriptStep, PTL DEF TranscriptSpec

\* After the minimum of a round is reserved no later check can fail: no tool has
\* run whose result cannot be reported (ToolExecutionNode; the storage bound and
\* the transcript check after the tools never refuse).
THEOREM NothingIsLostAfterRun == TranscriptSpec => []NothingLostAfterRun
<1>1. TranscriptInv => NothingLostAfterRun
  BY DEF TranscriptInv, InBudget, NothingLostAfterRun
<1> QED
  BY <1>1, TranscriptInvariant, PTL

\* A share of a budget is no larger than the budget.
LEMMA SplitFits ==
    ASSUME NEW r \in Nat, NEW q \in Nat, q <= Scale
    PROVE  SplitBudget(r, q) \in Nat /\ SplitBudget(r, q) <= r
<1>1. r * q \in Nat /\ r * q <= r * 1000000
  <2>1. \A a, b, c \in Nat : b <= c => a * b \in Nat /\ a * b <= a * c
    BY SMT
  <2>2. q \in Nat /\ 1000000 \in Nat /\ q <= 1000000
    BY SMT DEF Scale
  <2> QED
    BY <2>1, <2>2, SMT
<1>2. \A x, y \in Nat : x <= y * 1000000 => x \div 1000000 \in Nat /\ x \div 1000000 <= y
  BY SMT
<1> DEFINE x == r * q
<1>3. x \in Nat /\ x <= r * 1000000
  BY <1>1 DEF x
<1>4. SplitBudget(r, q) = x \div 1000000
  BY SMT DEF SplitBudget, Scale
<1> HIDE DEF x
<1>5. x \div 1000000 \in Nat /\ x \div 1000000 <= r
  BY <1>2, <1>3, SMT
<1> QED
  BY <1>4, <1>5, SMT

\* The parts of a memory-aware request share what the reserves leave; until the
\* turn has messages of its own, tool results of earlier work take their reserve.
LEMMA AssembledFits ==
    ASSUME TranscriptInv
    PROVE  /\ AssembledTokens \in Nat
           /\ AssembledTokens <= SystemTokens + RemainingTokens(cfg)
                                 + IF used = 0 THEN cfg.reserveTools ELSE 0
<1> DEFINE remaining == RemainingTokens(cfg)
           sessionBudget == SplitBudget(remaining, cfg.sessionRatio)
           memoryBudget == Monus(remaining, sessionBudget)
           shown == Chosen(session, {k \in DOMAIN session : used = 0 \/ ~session[k].own})
           shownTokens == [k \in DOMAIN shown |-> shown[k].tokens]
           results == IF used = 0 THEN summaries ELSE <<>>
           a == Sum(SessionContext(shownTokens, sessionBudget))
           b == Sum(MemoryContext(memory, memoryBudget))
           d == Sum(ToolContext(results, cfg.reserveTools))
<1>1. remaining \in Nat /\ cfg.reserveTools \in Nat /\ SystemTokens \in Nat
  BY ConfigNumbers, TranscriptAssumption DEF TranscriptInv, TranscriptTypes
<1>2. sessionBudget \in Nat /\ sessionBudget <= remaining
  <2>1. cfg.sessionRatio \in Nat /\ cfg.sessionRatio <= Scale
    BY ConfigNumbers DEF TranscriptInv, TranscriptTypes
  <2> HIDE DEF remaining
  <2> QED
    BY <1>1, <2>1, SplitFits
<1>3. memoryBudget \in Nat /\ sessionBudget + memoryBudget = remaining
  <2>1. \A x, y \in Nat : y <= x => Monus(x, y) \in Nat /\ y + Monus(x, y) = x
    BY DEF Monus
  <2> HIDE DEF remaining, sessionBudget
  <2> QED
    BY <1>1, <1>2, <2>1
<1>4. a \in Nat /\ a <= sessionBudget
  <2>1. shown \in Seq(SessionNode)
    BY ChosenTypes DEF TranscriptInv, TranscriptTypes
  <2>2. shownTokens \in Seq(Nat)
    <3>1. Len(shown) \in Nat /\ DOMAIN shown = 1..Len(shown)
          /\ \A k \in 1..Len(shown) : shown[k] \in SessionNode
      <4> HIDE DEF shown
      <4> QED
        BY <2>1
    <3>2. \A k \in 1..Len(shown) : shown[k].tokens \in Nat
      <4> HIDE DEF shown
      <4> QED
        BY <3>1 DEF SessionNode
    <3>3. shownTokens = [k \in 1..Len(shown) |-> shown[k].tokens]
      BY <3>1
    <3> HIDE DEF shown, shownTokens
    <3> QED
      BY <3>1, <3>2, <3>3
  <2> HIDE DEF shownTokens, sessionBudget
  <2> QED
    BY <1>2, <2>2, SessionContextFits, SumOfNats
<1>5. b \in Nat /\ b <= memoryBudget
  <2>1. memory.abstracts \in Seq(Nat) /\ memory.raws \in Seq(Nat)
    BY DEF TranscriptInv, TranscriptTypes
  <2> HIDE DEF memoryBudget
  <2> QED
    BY <1>3, <2>1, MemoryContextFits, SumOfNats
<1>6. d \in Nat /\ d <= IF used = 0 THEN cfg.reserveTools ELSE 0
  <2>1. results \in Seq(Nat)
    BY DEF TranscriptInv, TranscriptTypes
  <2>2. ToolContext(results, cfg.reserveTools) \in Seq(Nat) /\ d <= cfg.reserveTools
    <3> HIDE DEF results
    <3> QED
      BY <1>1, <2>1, FittingFits DEF ToolContext
  <2>3. d \in Nat
    <3> HIDE DEF results
    <3> QED
      BY <2>2, SumOfNats
  <2>4. used # 0 => d = 0
    <3> SUFFICES ASSUME used # 0 PROVE d = 0
      OBVIOUS
    <3>1. results = <<>>
      OBVIOUS
    <3>2. PICK n \in 0..Len(results) : Fitting(results, cfg.reserveTools) = SubSeq(results, 1, n)
      <4> HIDE DEF results
      <4> QED
        BY <1>1, <2>1, FittingFits
    <3>3. n = 0
      BY <3>1
    <3>4. SubSeq(results, 1, n) = <<>>
      BY <3>1, <3>3
    <3> QED
      BY <3>2, <3>4, SumOfEmpty DEF ToolContext
  <2> HIDE DEF d
  <2> QED
    BY <1>1, <2>2, <2>3, <2>4
<1>7. AssembledTokens = SystemTokens + a + b + d
  BY DEF AssembledTokens
<1> DEFINE t == IF used = 0 THEN cfg.reserveTools ELSE 0
<1>8. t \in Nat
  BY <1>1
<1>9. SystemTokens + a + b + d \in Nat /\ SystemTokens + a + b + d <= SystemTokens + remaining + t
  <2>1. \A s, w, x, y, z, p, q, r \in Nat :
           w <= p /\ x <= q /\ y <= z /\ p + q = r => s + w + x + y \in Nat /\ s + w + x + y <= s + r + z
    OBVIOUS
  <2> HIDE DEF a, b, d, t, remaining, sessionBudget, memoryBudget
  <2>2. d <= t
    BY <1>6 DEF t
  <2> QED
    BY <1>1, <1>2, <1>3, <1>4, <1>5, <1>6, <1>8, <2>1, <2>2
<1> QED
  <2> HIDE DEF a, b, d
  <2> QED
    BY <1>7, <1>9

\* [PromptFits] For every estimator, history, memory and tool: a request with external
\* context stays within the configured window in every round; one with local memory
\* exceeds it by its history and its prompt beyond the reserves at most, and these
\* together by no more than what the reserves leave.
THEOREM PromptAlwaysFits == TranscriptSpec => []PromptFits
<1>1. TranscriptInv => PromptFits
  <2> DEFINE rest == RemainingTokens(cfg)
             fixed == FixedTokens(cfg)
             h == HistoryTokens(history)
             besides == IF profile = "LocalMemory" THEN h + fixed ELSE 0
  <2> SUFFICES ASSUME TranscriptInv, phase = "turn"
               PROVE  RequestTokens <= cfg.total + besides /\ besides <= rest
    BY DEF PromptFits
  <2>1. /\ cfg.total \in Nat /\ cfg.reserveSystem \in Nat /\ cfg.reserveTools \in Nat
        /\ cfg.reserveWorking \in Nat /\ rest \in Nat
        /\ rest + cfg.reserveSystem + cfg.reserveTools + cfg.reserveWorking = cfg.total
    BY ConfigNumbers DEF TranscriptInv, TranscriptTypes
  <2>2. SystemTokens \in Nat /\ WorkingTokens \in Nat /\ used \in Nat /\ used <= cfg.reserveTools
    BY TranscriptAssumption DEF TranscriptInv, TranscriptTypes, InBudget
  <2>3. fixed \in Nat /\ SystemTokens + WorkingTokens <= fixed + cfg.reserveSystem + cfg.reserveWorking
    BY FixedFits DEF TranscriptInv, TranscriptTypes
  <2>4. h \in Nat
    <3>1. history \in Seq(Message)
      BY DEF TranscriptInv, TranscriptTypes
    <3>2. TokensIn(history) \in Seq(Nat)
      BY <3>1, TokensInTypes
    <3> QED
      BY <3>2, SumOfNats DEF HistoryTokens, TokensIn
  <2>5. h + fixed <= rest
    <3>1. HistoryBudget >= 0 /\ h <= HistoryBudget /\ HistoryBudget = rest - fixed
      BY DEF TranscriptInv, InBudget, HistoryBudget
    <3>2. \A x, y, z \in Nat : x <= y - z => x + z <= y
      OBVIOUS
    <3> HIDE DEF h, rest, fixed
    <3> QED
      BY <2>1, <2>3, <2>4, <3>1, <3>2
  <2>6. CASE profile = "LocalMemory"
    <3> DEFINE a == AssembledTokens
               t == IF used = 0 THEN cfg.reserveTools ELSE 0
    <3>1. a \in Nat /\ a <= SystemTokens + rest + t
      BY AssembledFits
    <3>2. t \in Nat /\ t + used <= cfg.reserveTools
      BY <2>1, <2>2
    <3>3. RequestTokens = a + h + WorkingTokens + used /\ besides = h + fixed
      BY <2>6 DEF RequestTokens
    <3>4. \A x, s, r, f, g, y, u, w, rs, rt, rw, n \in Nat :
             /\ x <= s + r + y /\ y + u <= rt /\ s + w <= f + rs + rw /\ r + rs + rt + rw = n
             => x + g + w + u <= n + (g + f)
      OBVIOUS
    <3> HIDE DEF a, t, h, rest, fixed, besides
    <3>5. a + h + WorkingTokens + used <= cfg.total + (h + fixed)
      BY <2>1, <2>2, <2>3, <2>4, <3>1, <3>2, <3>4
    <3> QED
      BY <2>5, <3>3, <3>5
  <2>7. CASE profile # "LocalMemory"
    <3>1. RequestTokens = SystemTokens + h + WorkingTokens + used /\ besides = 0
      BY <2>7 DEF RequestTokens
    <3>2. \A x, s, r, f, u, w, rs, rt, rw, n \in Nat :
             /\ x + f <= r /\ u <= rt /\ s + w <= f + rs + rw /\ r + rs + rt + rw = n
             => s + x + w + u <= n + 0
      OBVIOUS
    <3> HIDE DEF h, rest, fixed, besides
    <3>3. SystemTokens + h + WorkingTokens + used <= cfg.total + 0
      BY <2>1, <2>2, <2>3, <2>4, <2>5, <3>2
    <3> QED
      BY <2>1, <3>1, <3>3
  <2> QED
    BY <2>6, <2>7
<1> QED
  BY <1>1, TranscriptInvariant, PTL

\* Whatever history a host hands over, the one the model is sent is well formed,
\* in its budget, the newest part of it as far as the user's messages go, and not
\* trimmed further (trim_conversation_history, coherent_conversation_groups).
THEOREM TrimmedHistoryIsCoherent == TranscriptSpec => []HistoryCoherent
<1>1. TranscriptInv => HistoryCoherent
  <2> SUFFICES ASSUME TranscriptInv, HistoryBudget >= 0
               PROVE LET kept == TrimHistory(history, HistoryBudget)
                     IN  /\ Correlated(kept)
                         /\ HistoryTokens(kept) <= HistoryBudget
                         /\ IsSuffix(Users(kept), Users(history))
                         /\ TrimHistory(kept, HistoryBudget) = kept
    BY DEF HistoryCoherent
  <2>1. history \in Seq(Message)
    BY DEF TranscriptInv, TranscriptTypes
  <2>2. HistoryBudget \in Nat
    <3>1. HistoryBudget \in Int
      <4>1. cfg \in Config /\ Valid(cfg)
        BY DEF TranscriptInv, TranscriptTypes
      <4>2. RemainingTokens(cfg) \in Nat /\ FixedTokens(cfg) \in Nat
        BY <4>1, ConfigNumbers, FixedFits
      <4> QED
        BY <4>2 DEF HistoryBudget
    <3> QED
      BY <3>1
  <2> QED
    BY <2>1, <2>2, TrimmedIsCoherent
<1> QED
  BY <1>1, TranscriptInvariant, PTL
=============================================================================
