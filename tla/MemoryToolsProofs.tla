-------------------------- MODULE MemoryToolsProofs --------------------------
(* Proofs about the read path: the two node repositories and the memory tools
   over them, whatever is stored, in whatever order and under whatever caps.
   Everything rests on one invariant of both backends, ReadsInv, and on one of
   the abstract nodes, ToolsInv. The sorts of the code are ranks in a strict
   total order; what a loop computes is shown of the least number of turns for
   which it could fail.                                                       *)
EXTENDS MemoryTools, DataLemmas

(* Orders. A strict total order on a finite set is a set R of pairs; the rank  *)
(* of an element is the number of elements before it.                          *)

IsOrder(R, S) ==
    /\ \A i \in S : <<i, i>> \notin R
    /\ \A i, j, k \in S : <<i, j>> \in R /\ <<j, k>> \in R => <<i, k>> \in R
    /\ \A i, j \in S : i = j \/ <<i, j>> \in R \/ <<j, i>> \in R

Below(R, S, i) == {j \in S : <<j, i>> \in R}
RankIn(R, S) == [i \in S |-> Cardinality(Below(R, S, i))]

\* A sequence of all the elements, each once and in order.
Enumerates(s, S, R) ==
    /\ s \in Seq(S) /\ Len(s) = Cardinality(S)
    /\ \A k \in 1..Len(s) : Cardinality(Below(R, S, s[k])) = k - 1
    /\ \A i \in S : /\ Cardinality(Below(R, S, i)) + 1 \in 1..Len(s)
                    /\ s[Cardinality(Below(R, S, i)) + 1] = i
    /\ \A k, l \in 1..Len(s) : <<s[k], s[l]>> \in R <=> k < l
    /\ \A k, l \in 1..Len(s) : s[k] = s[l] => k = l

\* Ranks are smaller than the number of elements and grow along the order.
LEMMA RanksGrow ==
    ASSUME NEW S, IsFiniteSet(S), NEW R, IsOrder(R, S)
    PROVE  /\ Cardinality(S) \in Nat
           /\ \A i \in S : Cardinality(Below(R, S, i)) \in 0..(Cardinality(S) - 1)
           /\ \A i, j \in S : <<i, j>> \in R => Cardinality(Below(R, S, i)) < Cardinality(Below(R, S, j))
<1>1. Cardinality(S) \in Nat
  BY FS_CardinalityType
<1>2. ASSUME NEW i \in S
      PROVE  /\ IsFiniteSet(Below(R, S, i)) /\ Cardinality(Below(R, S, i)) \in Nat
             /\ Cardinality(Below(R, S, i)) <= Cardinality(S) - 1
  <2>1. Below(R, S, i) \in SUBSET (S \ {i})
    BY DEF Below, IsOrder
  <2>2. IsFiniteSet(S \ {i}) /\ Cardinality(S \ {i}) = Cardinality(S) - 1
    BY FS_RemoveElement
  <2>3. IsFiniteSet(Below(R, S, i)) /\ Cardinality(Below(R, S, i)) <= Cardinality(S \ {i})
    BY <2>1, <2>2, FS_Subset
  <2> QED
    BY <2>2, <2>3, FS_CardinalityType
<1>3. ASSUME NEW i \in S, NEW j \in S, <<i, j>> \in R
      PROVE  Cardinality(Below(R, S, i)) < Cardinality(Below(R, S, j))
  <2>1. Below(R, S, i) \cup {i} \in SUBSET Below(R, S, j) /\ i \notin Below(R, S, i)
    BY <1>3 DEF Below, IsOrder
  <2>2. Cardinality(Below(R, S, i) \cup {i}) = Cardinality(Below(R, S, i)) + 1
    BY <1>2, <2>1, FS_AddElement
  <2>3. Cardinality(Below(R, S, i) \cup {i}) <= Cardinality(Below(R, S, j))
    BY <1>2, <2>1, FS_Subset
  <2> QED
    BY <1>2, <2>2, <2>3
<1> QED
  BY <1>1, <1>2, <1>3

\* Every smaller number is the rank of an element.
LEMMA RanksCover ==
    ASSUME NEW S, IsFiniteSet(S), NEW R, IsOrder(R, S), NEW k \in 1..Cardinality(S)
    PROVE  \E i \in S : Cardinality(Below(R, S, i)) = k - 1
<1> DEFINE n == Cardinality(S)
           f == [i \in S |-> Cardinality(Below(R, S, i)) + 1]
<1>1. n \in Nat
  BY FS_CardinalityType
<1>2. IsFiniteSet(1..n) /\ Cardinality(1..n) = n
  BY <1>1, IntervalSize
<1>3. f \in [S -> 1..n]
  <2>1. ASSUME NEW i \in S PROVE Cardinality(Below(R, S, i)) + 1 \in 1..n
    BY <1>1, RanksGrow
  <2> QED
    BY <2>1
<1>4. ASSUME NEW i \in S, NEW j \in S, f[i] = f[j] PROVE i = j
  <2>1. Cardinality(Below(R, S, i)) = Cardinality(Below(R, S, j)) /\ Cardinality(Below(R, S, i)) \in Nat
    <3>1. Cardinality(Below(R, S, i)) \in Nat /\ Cardinality(Below(R, S, j)) \in Nat
      BY RanksGrow
    <3> QED
      BY <1>4, <3>1
  <2>2. \/ i = j \/ <<i, j>> \in R \/ <<j, i>> \in R
    BY DEF IsOrder
  <2> QED
    BY <2>1, <2>2, RanksGrow
<1>5. f \in Injection(S, 1..n)
  <2> HIDE DEF f, n
  <2> QED
    BY <1>3, <1>4 DEF Injection, IsInjective
<1>6. f \in Surjection(S, 1..n)
  <2> HIDE DEF f
  <2> QED
    BY <1>2, <1>5, FS_Injection
<1>7. PICK i \in S : f[i] = k
  <2> HIDE DEF f
  <2> QED
    BY <1>6 DEF Surjection
<1>8. Cardinality(Below(R, S, i)) \in Nat /\ k \in Int
  BY <1>1, RanksGrow
<1> QED
  BY <1>7, <1>8

\* The elements by rank are the elements in order.
LEMMA InOrder ==
    ASSUME NEW S, IsFiniteSet(S), NEW R, IsOrder(R, S)
    PROVE  Enumerates(ByRank(RankIn(R, S)), S, R)
<1> DEFINE n == Cardinality(S)
           s == ByRank(RankIn(R, S))
           c(i) == Cardinality(Below(R, S, i))
<1>1. n \in Nat
  BY FS_CardinalityType
<1>2. s = [k \in 1..n |-> CHOOSE i \in S : c(i) = k - 1]
  <2>1. DOMAIN RankIn(R, S) = S /\ \A i \in S : RankIn(R, S)[i] = c(i)
    BY DEF RankIn
  <2>2. s = [k \in 1..n |-> CHOOSE i \in DOMAIN RankIn(R, S) : RankIn(R, S)[i] = k - 1]
    BY <2>1 DEF ByRank
  <2>3. s = [k \in 1..n |-> CHOOSE i \in S : RankIn(R, S)[i] = k - 1]
    BY <2>1, <2>2
  <2> QED
    BY <2>3 DEF RankIn
<1>3. ASSUME NEW k \in 1..n PROVE s[k] \in S /\ c(s[k]) = k - 1
  <2>1. \E i \in S : c(i) = k - 1
    BY RanksCover
  <2>2. s[k] = CHOOSE i \in S : c(i) = k - 1
    <3> HIDE DEF s, c
    <3> QED
      BY <1>2
  <2> HIDE DEF s, c
  <2> QED
    BY <2>1, <2>2
<1>4. s \in Seq(S) /\ Len(s) = n
  <2>1. s \in [1..n -> S]
    <3> HIDE DEF c
    <3> QED
      BY <1>2, <1>3
  <2> HIDE DEF s
  <2> QED
    BY <1>1, <2>1
<1>5. ASSUME NEW k \in 1..n, NEW l \in 1..n, s[k] = s[l] PROVE k = l
  <2>1. k - 1 = l - 1 /\ k \in Int /\ l \in Int
    <3> HIDE DEF s, c, n
    <3> QED
      BY <1>1, <1>3, <1>5
  <2> QED
    BY <2>1
<1>6. ASSUME NEW i \in S PROVE c(i) + 1 \in 1..n /\ s[c(i) + 1] = i
  <2>1. c(i) \in Nat /\ c(i) + 1 \in 1..n
    <3>1. c(i) \in 0..(n - 1)
      BY RanksGrow
    <3> QED
      BY <1>1, <3>1
  <2>2. s[c(i) + 1] \in S /\ c(s[c(i) + 1]) = c(i)
    <3>1. s[c(i) + 1] \in S /\ c(s[c(i) + 1]) = c(i) + 1 - 1
      <4> HIDE DEF s, c
      <4> QED
        BY <1>3, <2>1
    <3> HIDE DEF s, c
    <3> QED
      BY <2>1, <3>1
  <2>3. PICK j \in S : j = s[c(i) + 1]
    BY <2>2
  <2>4. i = j \/ <<i, j>> \in R \/ <<j, i>> \in R
    BY DEF IsOrder
  <2>5. c(j) = c(i)
    <3> HIDE DEF s, c
    <3> QED
      BY <2>2, <2>3
  <2>6. i = j
    BY <2>1, <2>4, <2>5, RanksGrow
  <2> HIDE DEF s, c
  <2> QED
    BY <2>1, <2>3, <2>6
<1>7. ASSUME NEW k \in 1..n, NEW l \in 1..n PROVE <<s[k], s[l]>> \in R <=> k < l
  <2>1. PICK i \in S : i = s[k] /\ c(i) = k - 1
    BY <1>3
  <2>2. PICK j \in S : j = s[l] /\ c(j) = l - 1
    BY <1>3
  <2>3. k \in Int /\ l \in Int
    BY <1>1
  <2>4. (<<i, j>> \in R => c(i) < c(j)) /\ (<<j, i>> \in R => c(j) < c(i))
    BY RanksGrow
  <2>5. i = j \/ <<i, j>> \in R \/ <<j, i>> \in R
    BY DEF IsOrder
  <2> HIDE DEF s, c
  <2> QED
    BY <2>1, <2>2, <2>3, <2>4, <2>5
<1>8. Enumerates(s, S, R)
  <2> HIDE DEF s
  <2> QED
    BY <1>3, <1>4, <1>5, <1>6, <1>7 DEF Enumerates
<1> QED
  BY <1>8

\* A part of an ordered set is ordered.
LEMMA OrderOfPart ==
    ASSUME NEW S, NEW R, IsOrder(R, S), NEW B \in SUBSET S
    PROVE  IsOrder(R, B)
BY DEF IsOrder

\* The elements of such a sequence.
LEMMA EnumeratedSet ==
    ASSUME NEW S, NEW R, NEW s, Enumerates(s, S, R)
    PROVE  ToSet(s) = S
<1>1. s \in Seq(S) /\ DOMAIN s = 1..Len(s) /\ \A k \in 1..Len(s) : s[k] \in S
  BY DEF Enumerates
<1>2. ASSUME NEW i \in S PROVE \E k \in 1..Len(s) : s[k] = i
  BY DEF Enumerates
<1> QED
  BY <1>1, <1>2 DEF ToSet

\* The first n elements of a sequence, the last n of it.
LEMMA FirstOf ==
    ASSUME NEW T, NEW s \in Seq(T), NEW n \in Nat
    PROVE  /\ First(s, n) \in Seq(T) /\ Len(First(s, n)) = IF n < Len(s) THEN n ELSE Len(s)
           /\ Len(s) \in Nat
           /\ \A k \in 1..Len(First(s, n)) : First(s, n)[k] = s[k]
           /\ ToSet(First(s, n)) \subseteq ToSet(s)
           /\ Len(s) <= n => First(s, n) = s
<1> DEFINE m == IF n < Len(s) THEN n ELSE Len(s)
<1>1. m \in Nat /\ Len(s) \in Nat /\ m <= Len(s) /\ DOMAIN s = 1..Len(s)
  OBVIOUS
<1>2. \A i \in 1..m : s[i] \in T
  BY <1>1
<1>3. First(s, n) = SubSeq(s, 1, m)
  BY DEF First
<1>4. /\ First(s, n) \in Seq(T) /\ Len(First(s, n)) = m
      /\ \A k \in 1..m : First(s, n)[k] = s[k]
  <2> HIDE DEF m
  <2>1. /\ SubSeq(s, 1, m) \in Seq(T)
        /\ Len(SubSeq(s, 1, m)) = IF 1 <= m THEN m - 1 + 1 ELSE 0
        /\ \A i \in 1..(m - 1 + 1) : SubSeq(s, 1, m)[i] = s[1 + i - 1]
    <3>1. m \in Int /\ 1 \in Int
      BY <1>1
    <3> QED
      BY <1>2, <3>1, SubSeqProperties
  <2>2. ASSUME NEW k \in 1..m PROVE First(s, n)[k] = s[k]
    <3>1. k \in 1..(m - 1 + 1) /\ 1 + k - 1 = k
      BY <1>1
    <3> QED
      BY <1>3, <2>1, <3>1
  <2> QED
    BY <1>1, <1>3, <2>1, <2>2
<1>5. ToSet(First(s, n)) \subseteq ToSet(s)
  <2>1. DOMAIN First(s, n) = 1..m
    <3> HIDE DEF m
    <3> QED
      BY <1>4
  <2> HIDE DEF m
  <2>2. \A k \in 1..m : k \in DOMAIN s
    BY <1>1
  <2> QED
    BY <1>4, <2>1, <2>2 DEF ToSet
<1>6. Len(s) <= n => First(s, n) = s
  <2>1. Len(s) <= n => m = Len(s)
    <3>1. Len(s) <= n => ~(n < Len(s))
      <4> HIDE DEF m
      <4> QED
        BY <1>1
    <3> QED
      BY <3>1
  <2> HIDE DEF m
  <2> QED
    BY <1>4, <2>1, SeqEqual
<1> QED
  BY <1>1, <1>4, <1>5, <1>6

\* The last n of a sequence.
LEMMA NewestOf ==
    ASSUME NEW T, NEW s \in Seq(T), NEW n \in Nat
    PROVE  /\ Newest(s, n) \in Seq(T) /\ Len(Newest(s, n)) = IF n < Len(s) THEN n ELSE Len(s)
           /\ Len(s) \in Nat
           /\ \A k \in 1..Len(Newest(s, n)) : Newest(s, n)[k] = s[Len(s) - Len(Newest(s, n)) + k]
           /\ ToSet(Newest(s, n)) \subseteq ToSet(s)
           /\ Len(s) <= n => Newest(s, n) = s
<1> DEFINE m == IF n < Len(s) THEN n ELSE Len(s)
           a == Len(s) - m + 1
<1>1. m \in Nat /\ Len(s) \in Nat /\ m <= Len(s) /\ a \in Int /\ 1 <= a /\ DOMAIN s = 1..Len(s)
  OBVIOUS
<1>2. \A i \in a..Len(s) : s[i] \in T
  <2>1. \A i \in a..Len(s) : i \in 1..Len(s)
    BY <1>1
  <2> QED
    BY <2>1
<1>3. Newest(s, n) = SubSeq(s, a, Len(s))
  <2>1. a = IF n < Len(s) THEN Len(s) - n + 1 ELSE 1
    <3>1. Len(s) - Len(s) + 1 = 1
      <4> HIDE DEF a, m
      <4> QED
        BY <1>1
    <3> QED
      BY <3>1
  <2> HIDE DEF a
  <2> QED
    BY <2>1 DEF Newest
<1>4. /\ Newest(s, n) \in Seq(T) /\ Len(Newest(s, n)) = m
      /\ \A k \in 1..m : Newest(s, n)[k] = s[Len(s) - m + k]
  <2>1. /\ SubSeq(s, a, Len(s)) \in Seq(T)
        /\ Len(SubSeq(s, a, Len(s))) = IF a <= Len(s) THEN Len(s) - a + 1 ELSE 0
        /\ \A i \in 1..(Len(s) - a + 1) : SubSeq(s, a, Len(s))[i] = s[a + i - 1]
    <3>1. a \in Int /\ Len(s) \in Int
      BY <1>1
    <3> HIDE DEF a, m
    <3> QED
      BY <1>2, <3>1, SubSeqProperties
  <2>2. Len(s) - a + 1 = m /\ (a <= Len(s) \/ m = 0)
    BY <1>1
  <2>3. ASSUME NEW k \in 1..m PROVE Newest(s, n)[k] = s[Len(s) - m + k]
    <3>1. a + k - 1 = Len(s) - m + k
      <4> HIDE DEF m
      <4> QED
        BY <1>1
    <3> HIDE DEF a, m
    <3> QED
      BY <1>3, <2>1, <2>2, <2>3, <3>1
  <2> HIDE DEF a, m
  <2> QED
    BY <1>1, <1>3, <2>1, <2>2, <2>3
<1>5. ToSet(Newest(s, n)) \subseteq ToSet(s)
  <2>1. DOMAIN Newest(s, n) = 1..m
    <3> HIDE DEF m
    <3> QED
      BY <1>4
  <2>2. \A k \in 1..m : Len(s) - m + k \in DOMAIN s
    <3> HIDE DEF m
    <3> QED
      BY <1>1
  <2> HIDE DEF m
  <2> QED
    BY <1>4, <2>1, <2>2 DEF ToSet
<1>6. Len(s) <= n => Newest(s, n) = s
  <2>1. Len(s) <= n => m = Len(s)
    <3>1. Len(s) <= n => ~(n < Len(s))
      <4> HIDE DEF m
      <4> QED
        BY <1>1
    <3> QED
      BY <3>1
  <2>2. ASSUME m = Len(s) PROVE Newest(s, n) = s
    <3> HIDE DEF m
    <3>1. \A k \in 1..Len(s) : Newest(s, n)[k] = s[k]
      <4>1. \A k \in 1..Len(s) : Len(s) - Len(s) + k = k
        BY <1>1
      <4> QED
        BY <1>4, <2>2, <4>1
    <3> QED
      BY <1>4, <2>2, <3>1, SeqEqual
  <2> QED
    BY <2>1, <2>2
<1>7. m = IF n < Len(s) THEN n ELSE Len(s)
  OBVIOUS
<1> HIDE DEF m
<1> QED
  BY <1>1, <1>4, <1>5, <1>6, <1>7

\* The first n of a part that holds everything before its elements are the first
\* n of the whole, if there are that many.
LEMMA FirstOfPart ==
    ASSUME NEW S, IsFiniteSet(S), NEW R, IsOrder(R, S), NEW B \in SUBSET S,
           \A b \in B, a \in S : <<a, b>> \in R => a \in B,
           NEW s, Enumerates(s, S, R), NEW t, Enumerates(t, B, R),
           NEW n \in Nat, B = S \/ Cardinality(B) >= n
    PROVE  First(s, n) = First(t, n)
<1>1. s \in Seq(S) /\ t \in Seq(B) /\ Len(s) = Cardinality(S) /\ Len(t) = Cardinality(B)
  BY DEF Enumerates
<1>2. t \in Seq(S)
  BY <1>1, SeqMonotonic
<1>3. Cardinality(B) <= Cardinality(S) /\ (Cardinality(B) < n => B = S)
  <2>1. Cardinality(S) \in Nat /\ Cardinality(B) \in Nat /\ Cardinality(B) <= Cardinality(S)
    BY FS_Subset, FS_CardinalityType
  <2> QED
    BY <2>1
<1>4. Len(s) \in Nat /\ Len(t) \in Nat
  BY <1>1
<1>5. ASSUME NEW k \in 1..Len(t) PROVE s[k] = t[k]
  <2>1. t[k] \in B /\ t[k] \in S
    BY <1>1
  <2>2. Below(R, S, t[k]) = Below(R, B, t[k])
    BY <2>1 DEF Below
  <2>3. Cardinality(Below(R, B, t[k])) = k - 1
    BY DEF Enumerates
  <2>4. s[Cardinality(Below(R, S, t[k])) + 1] = t[k]
    BY <2>1 DEF Enumerates
  <2>5. k - 1 + 1 = k
    BY <1>4
  <2> QED
    BY <2>2, <2>3, <2>4, <2>5
<1>6. /\ First(s, n) \in Seq(S) /\ Len(First(s, n)) = (IF n < Len(s) THEN n ELSE Len(s))
      /\ \A k \in 1..Len(First(s, n)) : First(s, n)[k] = s[k]
  BY <1>1, FirstOf
<1>7. /\ First(t, n) \in Seq(S) /\ Len(First(t, n)) = (IF n < Len(t) THEN n ELSE Len(t))
      /\ \A k \in 1..Len(First(t, n)) : First(t, n)[k] = t[k]
  BY <1>2, FirstOf
<1>8. Len(First(s, n)) = Len(First(t, n)) /\ Len(First(t, n)) <= Len(t) /\ Len(First(t, n)) \in Nat
  BY <1>1, <1>3, <1>4, <1>6, <1>7
<1>9. ASSUME NEW k \in 1..Len(First(s, n)) PROVE First(s, n)[k] = First(t, n)[k]
  <2>1. k \in 1..Len(t)
    BY <1>4, <1>8
  <2> QED
    BY <1>5, <1>6, <1>7, <1>8, <2>1
<1> QED
  BY <1>6, <1>7, <1>8, <1>9, SeqEqual

----------------------------------------------------------------------------
(* The greatest elements of an ordered set, as a capped index file keeps them. *)

Above(R, S, i) == {j \in S : <<i, j>> \in R}
Top(R, S, cap) == {i \in S : Cardinality(Above(R, S, i)) < cap}
Least(cap, n) == IF cap < n THEN cap ELSE n

\* Ranks from the other end, and how many elements are at the top.
LEMMA TopSize ==
    ASSUME NEW S, IsFiniteSet(S), NEW R, IsOrder(R, S), NEW cap \in Nat
    PROVE  /\ \A i \in S : Cardinality(Above(R, S, i)) \in Nat
           /\ \A i, j \in S : <<i, j>> \in R => Cardinality(Above(R, S, j)) < Cardinality(Above(R, S, i))
           /\ Top(R, S, cap) \in SUBSET S /\ IsFiniteSet(Top(R, S, cap))
           /\ Cardinality(S) \in Nat
           /\ Cardinality(Top(R, S, cap)) = Least(cap, Cardinality(S))
           /\ Cardinality(S) <= cap => Top(R, S, cap) = S
<1> DEFINE Q == {p \in S \X S : <<p[2], p[1]>> \in R}
           n == Cardinality(S)
           m == Least(cap, n)
<1>1. IsOrder(Q, S)
  <2>1. \A i, j \in S : <<i, j>> \in Q <=> <<j, i>> \in R
    OBVIOUS
  <2> HIDE DEF Q
  <2> QED
    BY <2>1 DEF IsOrder
<1>2. ASSUME NEW i \in S PROVE Below(Q, S, i) = Above(R, S, i)
  BY DEF Below, Above
<1>3. n \in Nat /\ \A i \in S : Cardinality(Above(R, S, i)) \in 0..(n - 1)
  <2> HIDE DEF Q
  <2> QED
    BY <1>1, <1>2, RanksGrow
<1>4. \A i, j \in S : <<i, j>> \in R => Cardinality(Above(R, S, j)) < Cardinality(Above(R, S, i))
  <2>1. \A i, j \in S : <<i, j>> \in R => <<j, i>> \in Q
    OBVIOUS
  <2> HIDE DEF Q
  <2> QED
    BY <1>1, <1>2, <2>1, RanksGrow
<1>5. Top(R, S, cap) \in SUBSET S /\ IsFiniteSet(Top(R, S, cap))
  <2>1. Top(R, S, cap) \in SUBSET S
    BY DEF Top
  <2> QED
    BY <2>1, FS_Subset
<1>6. Cardinality(Top(R, S, cap)) = m
  <2> DEFINE s == ByRank(RankIn(Q, S))
             T == Top(R, S, cap)
             f == [k \in 1..m |-> s[k]]
  <2>1. Enumerates(s, S, Q)
    <3> HIDE DEF Q
    <3> QED
      BY <1>1, InOrder
  <2>2. m \in Nat /\ m <= n /\ m <= cap /\ (m = n \/ m = cap)
    BY <1>3 DEF Least
  <2>3. ASSUME NEW k \in 1..m PROVE s[k] \in T
    <3>1. k \in 1..n /\ k - 1 < cap
      BY <1>3, <2>2
    <3>2. s[k] \in S /\ Cardinality(Below(Q, S, s[k])) = k - 1
      <4> HIDE DEF s, Q, m
      <4> QED
        BY <2>1, <3>1 DEF Enumerates
    <3>3. Cardinality(Above(R, S, s[k])) = k - 1
      <4> HIDE DEF s, Q, m
      <4> QED
        BY <1>2, <3>2
    <3> HIDE DEF s, Q, m
    <3> QED
      BY <3>1, <3>2, <3>3 DEF Top
  <2>4. ASSUME NEW i \in T PROVE \E k \in 1..m : s[k] = i
    <3>1. i \in S /\ Cardinality(Above(R, S, i)) < cap
      BY DEF Top
    <3>2. Cardinality(Above(R, S, i)) + 1 \in 1..m
      <4>1. Cardinality(Above(R, S, i)) \in 0..(n - 1)
        BY <1>3, <3>1
      <4> HIDE DEF m
      <4> QED
        BY <1>3, <2>2, <3>1, <4>1
    <3>3. s[Cardinality(Above(R, S, i)) + 1] = i
      <4>1. s[Cardinality(Below(Q, S, i)) + 1] = i
        <5> HIDE DEF s, Q
        <5> QED
          BY <2>1, <3>1 DEF Enumerates
      <4> HIDE DEF s, Q
      <4> QED
        BY <1>2, <3>1, <4>1
    <3> HIDE DEF s, m
    <3> QED
      BY <3>2, <3>3
  <2>5. \A k, l \in 1..m : s[k] = s[l] => k = l
    <3>1. \A k \in 1..m : k \in 1..n
      <4> HIDE DEF m
      <4> QED
        BY <1>3, <2>2
    <3> HIDE DEF s, Q, m
    <3> QED
      BY <2>1, <3>1 DEF Enumerates
  <2>6. f \in [1..m -> T] /\ \A k \in 1..m : f[k] = s[k]
    <3> HIDE DEF s, T, m
    <3> QED
      BY <2>3
  <2>7. f \in Bijection(1..m, T)
    <3> HIDE DEF s, T, f, m
    <3>1. f \in Injection(1..m, T)
      BY <2>5, <2>6 DEF Injection, IsInjective
    <3>2. f \in Surjection(1..m, T)
      BY <2>4, <2>6 DEF Surjection
    <3> QED
      BY <3>1, <3>2 DEF Bijection
  <2> HIDE DEF f, T, m
  <2> QED
    BY <2>2, <2>7, FS_CountingElements DEF ExistsBijection, T
<1>7. ASSUME n <= cap PROVE Top(R, S, cap) = S
  <2>1. \A i \in S : Cardinality(Above(R, S, i)) < cap
    <3> HIDE DEF n
    <3> QED
      BY <1>3, <1>7
  <2> QED
    BY <2>1 DEF Top
<1>8. \A i \in S : Cardinality(Above(R, S, i)) \in Nat
  <2> HIDE DEF n
  <2> QED
    BY <1>3
<1> QED
  BY <1>3, <1>4, <1>5, <1>6, <1>7, <1>8

\* What is not at the top comes before all that is.
LEMMA TopIsAbove ==
    ASSUME NEW S, IsFiniteSet(S), NEW R, IsOrder(R, S), NEW cap \in Nat,
           NEW i \in S, i \notin Top(R, S, cap), NEW j \in Top(R, S, cap)
    PROVE  <<i, j>> \in R
<1>1. j \in S /\ Cardinality(Above(R, S, j)) < cap /\ ~(Cardinality(Above(R, S, i)) < cap) /\ i # j
  BY DEF Top
<1>2. Cardinality(Above(R, S, i)) \in Nat /\ Cardinality(Above(R, S, j)) \in Nat
  BY <1>1, TopSize
<1>3. <<j, i>> \in R => Cardinality(Above(R, S, i)) < Cardinality(Above(R, S, j))
  BY <1>1, TopSize
<1> QED
  BY <1>1, <1>2, <1>3 DEF IsOrder

\* Elements added to the top, and the top taken again, are the top of all.
LEMMA TopAgain ==
    ASSUME NEW A, IsFiniteSet(A), NEW X, IsFiniteSet(X), NEW R, NEW B, B = A \cup X, IsOrder(R, B), NEW cap \in Nat,
           NEW C, C = Top(R, A, cap), NEW D, D = C \cup X
    PROVE  Top(R, D, cap) = Top(R, B, cap)
<1>1. IsOrder(R, A)
  BY DEF IsOrder
<1>2. C \in SUBSET A /\ IsFiniteSet(C) /\ Cardinality(A) \in Nat
      /\ Cardinality(C) = Least(cap, Cardinality(A))
  BY <1>1, TopSize
<1>3. IsFiniteSet(B) /\ IsFiniteSet(D) /\ D \in SUBSET B
  BY <1>2, FS_Union
<1>4. IsOrder(R, D)
  <2> QED
    BY <1>3, OrderOfPart
<1>5. ASSUME NEW i \in B
      PROVE  /\ IsFiniteSet(Above(R, B, i)) /\ Cardinality(Above(R, B, i)) \in Nat
             /\ Cardinality(Above(R, D, i)) \in Nat /\ Cardinality(Above(R, A, i)) \in Nat
             /\ Cardinality(Above(R, D, i)) <= Cardinality(Above(R, B, i))
             /\ Cardinality(Above(R, A, i)) <= Cardinality(Above(R, B, i))
  <2>1. Above(R, B, i) \in SUBSET B /\ Above(R, D, i) \in SUBSET Above(R, B, i)
        /\ Above(R, A, i) \in SUBSET Above(R, B, i)
    BY <1>3 DEF Above
  <2>2. IsFiniteSet(Above(R, B, i))
    BY <1>3, <2>1, FS_Subset
  <2> QED
    BY <2>1, <2>2, FS_Subset, FS_CardinalityType
<1>6. ASSUME NEW i \in Top(R, B, cap) PROVE i \in Top(R, D, cap)
  <2>1. i \in B /\ Cardinality(Above(R, B, i)) < cap
    BY DEF Top
  <2>2. i \in D
    <3>1. CASE i \in X
      BY <3>1
    <3>2. CASE i \in A
      <4>1. Cardinality(Above(R, A, i)) < cap
          BY <1>5, <2>1
      <4> QED
        BY <3>2, <4>1 DEF Top
    <3> QED
      BY <2>1, <3>1, <3>2
  <2>3. Cardinality(Above(R, D, i)) < cap
    <3>1. /\ Cardinality(Above(R, D, i)) \in Nat /\ Cardinality(Above(R, B, i)) \in Nat
          /\ Cardinality(Above(R, D, i)) <= Cardinality(Above(R, B, i))
      BY <1>5, <2>1
    <3> QED
      BY <2>1, <3>1
  <2> QED
    BY <2>2, <2>3 DEF Top
<1>7. ASSUME NEW i \in Top(R, D, cap) PROVE i \in Top(R, B, cap)
  <2>1. i \in D /\ i \in B /\ Cardinality(Above(R, D, i)) < cap
    BY <1>3 DEF Top
  <2>2. SUFFICES ASSUME ~(Cardinality(Above(R, B, i)) < cap) PROVE FALSE
    <3> QED
      BY <2>1 DEF Top
  <2>3. PICK j \in B : j \notin D /\ <<i, j>> \in R
    <3>1. SUFFICES ASSUME \A j \in B : <<i, j>> \in R => j \in D PROVE FALSE
      OBVIOUS
    <3>2. Above(R, B, i) = Above(R, D, i)
      <4> QED
        BY <1>3, <3>1 DEF Above
    <3> QED
      BY <2>1, <2>2, <3>2
  <2>4. j \in A /\ j \notin C
    BY <2>3
  <2>5. ASSUME NEW c \in C PROVE c \in Above(R, D, i)
    <3>1. <<j, c>> \in R /\ c \in A
      BY <1>1, <1>2, <2>4, TopIsAbove
    <3>2. <<i, c>> \in R
      <4>1. i \in B /\ j \in B /\ c \in B
        BY <2>1, <2>3, <3>1
      <4> QED
        BY <2>3, <3>1, <4>1 DEF IsOrder
    <3> QED
      BY <3>2 DEF Above
  <2>6. Cardinality(C) <= Cardinality(Above(R, D, i))
    <3>1. C \in SUBSET Above(R, D, i)
      BY <2>5
    <3>2. Above(R, D, i) \in SUBSET D
      BY DEF Above
    <3>3. IsFiniteSet(Above(R, D, i))
      <4> QED
        BY <1>3, <3>2, FS_Subset
    <3> QED
      BY <3>1, <3>3, FS_Subset
  <2>7. Cardinality(C) = cap
    <3>1. ~(Cardinality(A) <= cap)
      BY <1>1, <2>4, TopSize
    <3> QED
      BY <1>2, <3>1 DEF Least
  <2>8. Cardinality(Above(R, D, i)) \in Nat
    BY <1>5, <2>1
  <2> QED
    BY <2>1, <2>6, <2>7, <2>8
<1> QED
  BY <1>6, <1>7

\* The last n in order are found among the top, if it holds that many.
LEMMA NewestOfTop ==
    ASSUME NEW S, IsFiniteSet(S), NEW R, IsOrder(R, S), NEW cap \in Nat,
           NEW s, Enumerates(s, S, R), NEW t, Enumerates(t, Top(R, S, cap), R),
           NEW n \in Nat, n <= cap
    PROVE  Newest(s, n) = Newest(t, n)
<1> DEFINE T == Top(R, S, cap)
           d == Len(s) - Len(t)
<1>1. /\ T \in SUBSET S /\ IsFiniteSet(T) /\ Cardinality(S) \in Nat
      /\ Cardinality(T) = Least(cap, Cardinality(S))
      /\ Cardinality(S) <= cap => T = S
  BY TopSize
<1>2. s \in Seq(S) /\ t \in Seq(T) /\ Len(s) = Cardinality(S) /\ Len(t) = Cardinality(T)
  BY DEF Enumerates
<1>3. t \in Seq(S)
  <2> HIDE DEF T
  <2> QED
    BY <1>1, <1>2, SeqMonotonic
<1>4. Len(s) \in Nat /\ Len(t) \in Nat /\ Len(t) <= Len(s) /\ d \in Nat
      /\ (IF n < Len(t) THEN n ELSE Len(t)) = (IF n < Len(s) THEN n ELSE Len(s))
  <2>1. Len(s) \in Nat /\ Len(t) = IF cap < Len(s) THEN cap ELSE Len(s)
    <3> HIDE DEF T
    <3> QED
      BY <1>1, <1>2 DEF Least
  <2> QED
    BY <2>1
<1>5. ASSUME NEW k \in 1..Len(t) PROVE s[d + k] = t[k]
  <2>1. t[k] \in T /\ t[k] \in S
    <3> HIDE DEF T
    <3> QED
      BY <1>1, <1>2
  <2>2. PICK b \in T : b = t[k]
    BY <2>1
  <2>3. Below(R, S, b) = Below(R, T, b) \cup (S \ T)
    <3>1. \A i \in S \ T : <<i, b>> \in R
      BY TopIsAbove
    <3> HIDE DEF T
    <3> QED
      BY <1>1, <3>1 DEF Below
  <2>4. Below(R, T, b) \cap (S \ T) = {} /\ Below(R, T, b) \in SUBSET T
    BY DEF Below
  <2>5. IsFiniteSet(Below(R, T, b)) /\ IsFiniteSet(S \ T)
    <3> HIDE DEF T
    <3> QED
      BY <1>1, <2>4, FS_Subset, FS_Difference
  <2>6. Cardinality(S \ T) = d
    <3>1. Cardinality(S \ T) = Cardinality(S) - Cardinality(S \cap T)
      BY FS_Difference
    <3>2. S \cap T = T
      BY <1>1
    <3> HIDE DEF T
    <3> QED
      BY <1>2, <3>1, <3>2
  <2>7. Cardinality(Below(R, T, b)) = k - 1
    <3> HIDE DEF T
    <3> QED
      BY <2>2 DEF Enumerates, T
  <2>8. Cardinality(Below(R, S, b)) = k - 1 + d
    <3>1. Cardinality(Below(R, T, b) \cup (S \ T))
             = Cardinality(Below(R, T, b)) + Cardinality(S \ T) - Cardinality(Below(R, T, b) \cap (S \ T))
      <4> HIDE DEF T, d
      <4> QED
        BY <2>5, FS_Union
    <3>2. Cardinality(Below(R, T, b) \cap (S \ T)) = 0
      BY <2>4, FS_EmptySet
    <3> HIDE DEF T, d
    <3> QED
      BY <1>4, <2>3, <2>6, <2>7, <3>1, <3>2
  <2>9. s[Cardinality(Below(R, S, b)) + 1] = b
    <3> HIDE DEF T
    <3> QED
      BY <2>1, <2>2 DEF Enumerates
  <2>10. k - 1 + d + 1 = d + k
    <3> HIDE DEF d
    <3> QED
      BY <1>4
  <2> HIDE DEF T, d
  <2> QED
    BY <2>2, <2>8, <2>9, <2>10
<1>6. /\ Newest(s, n) \in Seq(S) /\ Len(Newest(s, n)) = (IF n < Len(s) THEN n ELSE Len(s))
      /\ \A k \in 1..Len(Newest(s, n)) : Newest(s, n)[k] = s[Len(s) - Len(Newest(s, n)) + k]
  BY <1>2, NewestOf
<1>7. /\ Newest(t, n) \in Seq(S) /\ Len(Newest(t, n)) = (IF n < Len(t) THEN n ELSE Len(t))
      /\ \A k \in 1..Len(Newest(t, n)) : Newest(t, n)[k] = t[Len(t) - Len(Newest(t, n)) + k]
  BY <1>3, NewestOf
<1>8. PICK q \in Nat : q = Len(Newest(s, n)) /\ q = Len(Newest(t, n)) /\ q <= Len(t)
  <2> HIDE DEF d
  <2> QED
    BY <1>4, <1>6, <1>7
<1>9. ASSUME NEW k \in 1..q PROVE Newest(s, n)[k] = Newest(t, n)[k]
  <2>1. Len(t) - q + k \in 1..Len(t) /\ d + (Len(t) - q + k) = Len(s) - q + k
    BY <1>4, <1>8
  <2>2. PICK l \in 1..Len(t) : l = Len(t) - q + k /\ d + l = Len(s) - q + k
    BY <2>1
  <2>3. s[d + l] = t[l]
    BY <1>5
  <2> HIDE DEF d
  <2> QED
    BY <1>6, <1>7, <1>8, <2>2, <2>3
<1> QED
  BY <1>6, <1>7, <1>8, <1>9, SeqEqual

----------------------------------------------------------------------------
(* The orders of the model.                                                   *)

RawNodes == [loop : Loops, ts : Times, key : Keys \cup {NoKey}, distilled : BOOLEAN, pushed : BOOLEAN]
IsRaw(raw) == DOMAIN raw \in SUBSET RawIds /\ IsFiniteSet(DOMAIN raw) /\ raw \in [DOMAIN raw -> RawNodes]

TimeOrder(raw) == {p \in (DOMAIN raw) \X (DOMAIN raw) : Before(raw, p[1], p[2])}
NewestOrder(raw) == {p \in (DOMAIN raw) \X (DOMAIN raw) : Ahead(raw, p[1], p[2])}
ScoreOrder == {p \in RawIds \X RawIds : Closer(p[1], p[2])}

\* The pairs of those orders.
LEMMA OrderedPairs ==
    ASSUME NEW raw, NEW i \in DOMAIN raw, NEW j \in DOMAIN raw
    PROVE  /\ <<i, j>> \in TimeOrder(raw) <=> Before(raw, i, j)
           /\ <<i, j>> \in NewestOrder(raw) <=> Ahead(raw, i, j)
<1>1. <<i, j>> \in (DOMAIN raw) \X (DOMAIN raw) /\ <<i, j>>[1] = i /\ <<i, j>>[2] = j
  OBVIOUS
<1>2. <<i, j>> \in TimeOrder(raw) <=> Before(raw, <<i, j>>[1], <<i, j>>[2])
  BY <1>1, Zenon DEF TimeOrder
<1>3. <<i, j>> \in NewestOrder(raw) <=> Ahead(raw, <<i, j>>[1], <<i, j>>[2])
  BY <1>1, Zenon DEF NewestOrder
<1> QED
  BY <1>1, <1>2, <1>3

\* Nodes are ordered by time and id, whichever way.
LEMMA RawOrders ==
    ASSUME NEW raw, IsRaw(raw)
    PROVE  IsOrder(TimeOrder(raw), DOMAIN raw) /\ IsOrder(NewestOrder(raw), DOMAIN raw)
<1>1. \A i \in DOMAIN raw : i \in Nat /\ raw[i].ts \in Nat
  BY ReadsAssumption DEF IsRaw, RawNodes
<1>2. PICK D, ts : D = DOMAIN raw /\ ts = [i \in D |-> raw[i].ts]
  OBVIOUS
<1>3. D \subseteq Nat /\ \A i \in D : ts[i] \in Nat /\ ts[i] = raw[i].ts
  BY <1>1, <1>2
<1>4. ASSUME NEW i \in D, NEW j \in D
      PROVE  <<i, j>> \in TimeOrder(raw) <=> ts[i] < ts[j] \/ (ts[i] = ts[j] /\ i < j)
  <2>1. <<i, j>> \in TimeOrder(raw) <=> Before(raw, i, j)
    BY <1>2, OrderedPairs
  <2> QED
    BY <1>3, <2>1 DEF Before
<1>5. ASSUME NEW i \in D, NEW j \in D
      PROVE  <<i, j>> \in NewestOrder(raw) <=> ts[i] > ts[j] \/ (ts[i] = ts[j] /\ i < j)
  <2>1. <<i, j>> \in NewestOrder(raw) <=> Ahead(raw, i, j)
    BY <1>2, OrderedPairs
  <2> QED
    BY <1>3, <2>1 DEF Ahead
<1>6. IsOrder(TimeOrder(raw), D)
  BY <1>3, <1>4 DEF IsOrder
<1>7. IsOrder(NewestOrder(raw), D)
  BY <1>3, <1>5 DEF IsOrder
<1> QED
  BY <1>2, <1>6, <1>7

\* And by score and id.
LEMMA ScoreIsOrder == IsOrder(ScoreOrder, RawIds)
<1>1. \A i \in RawIds : i \in Nat /\ Similarity[i] \in Nat
  BY ReadsAssumption
<1>2. \A i, j \in RawIds : <<i, j>> \in ScoreOrder <=>
          Similarity[i] > Similarity[j] \/ (Similarity[i] = Similarity[j] /\ i < j)
  BY DEF ScoreOrder, Closer
<1> QED
  BY <1>1, <1>2 DEF IsOrder

\* The sorts of the model are those orders, and a capped file is the top.
LEMMA InTimeIs ==
    ASSUME NEW raw, IsRaw(raw), NEW ids \in SUBSET DOMAIN raw
    PROVE  IsFiniteSet(ids) /\ IsOrder(TimeOrder(raw), ids) /\ Enumerates(InTime(raw, ids), ids, TimeOrder(raw))
<1> DEFINE R == TimeOrder(raw)
<1>1. IsFiniteSet(ids) /\ IsOrder(R, ids)
  <2>1. IsFiniteSet(ids)
    BY FS_Subset DEF IsRaw
  <2> QED
    BY <2>1, RawOrders, OrderOfPart
<1>2. ASSUME NEW i \in ids PROVE {j \in ids : Before(raw, j, i)} = Below(R, ids, i)
  BY OrderedPairs DEF Below
<1>3. InTime(raw, ids) = ByRank(RankIn(R, ids))
  <2> HIDE DEF R
  <2> QED
    BY <1>2 DEF InTime, RankIn
<1> HIDE DEF R
<1> QED
  BY <1>1, <1>3, InOrder DEF R

\* The order of a timeline is one, and the sort by it lists the elements once.
LEMMA NewestFirstIs ==
    ASSUME NEW raw, IsRaw(raw), NEW ids \in SUBSET DOMAIN raw
    PROVE  /\ IsFiniteSet(ids) /\ IsOrder(NewestOrder(raw), ids)
           /\ Enumerates(NewestFirst(raw, ids), ids, NewestOrder(raw))
<1> DEFINE R == NewestOrder(raw)
<1>1. IsFiniteSet(ids) /\ IsOrder(R, ids)
  <2>1. IsFiniteSet(ids)
    BY FS_Subset DEF IsRaw
  <2> QED
    BY <2>1, RawOrders, OrderOfPart
<1>2. ASSUME NEW i \in ids PROVE {j \in ids : Ahead(raw, j, i)} = Below(R, ids, i)
  BY OrderedPairs DEF Below
<1>3. NewestFirst(raw, ids) = ByRank(RankIn(R, ids))
  <2> HIDE DEF R
  <2> QED
    BY <1>2 DEF NewestFirst, RankIn
<1> HIDE DEF R
<1> QED
  BY <1>1, <1>3, InOrder DEF R

\* So does the sort of a search.
LEMMA ByScoreIs ==
    ASSUME NEW ids \in SUBSET RawIds, IsFiniteSet(ids)
    PROVE  Enumerates(ByScore(ids), ids, ScoreOrder)
<1> DEFINE R == ScoreOrder
<1>1. IsOrder(R, ids)
  BY ScoreIsOrder, OrderOfPart
<1>2. ASSUME NEW i \in ids PROVE {j \in ids : Closer(j, i)} = Below(R, ids, i)
  BY DEF Below, ScoreOrder
<1>3. ByScore(ids) = ByRank(RankIn(R, ids))
  <2> HIDE DEF R
  <2> QED
    BY <1>2 DEF ByScore, RankIn
<1> HIDE DEF R
<1> QED
  BY <1>1, <1>3, InOrder DEF R

\* A capped index file keeps the elements at the top of the order of time.
LEMMA CappedIs ==
    ASSUME NEW raw, NEW ids \in SUBSET DOMAIN raw, NEW cap
    PROVE  Capped(raw, ids, cap) = Top(TimeOrder(raw), ids, cap)
<1>1. ASSUME NEW i \in ids PROVE {j \in ids : Before(raw, i, j)} = Above(TimeOrder(raw), ids, i)
  BY OrderedPairs DEF Above
<1> QED
  BY <1>1 DEF Capped, Top

\* Elements of a sequence kept by position.
LEMMA KeptAtIs ==
    ASSUME NEW T, NEW s \in Seq(T), NEW here \in SUBSET DOMAIN s
    PROVE  /\ KeptAt(s, here) \in Seq(T) /\ IsFiniteSet(here) /\ Len(KeptAt(s, here)) = Cardinality(here)
           /\ ToSet(KeptAt(s, here)) = {s[k] : k \in here}
           /\ IsInjective(s) => IsInjective(KeptAt(s, here))
<1> DEFINE R == {p \in Nat \X Nat : p[1] < p[2]}
           q == ByRank([p \in here |-> Cardinality({r \in here : r < p})])
           t == KeptAt(s, here)
<1>1. DOMAIN s = 1..Len(s) /\ Len(s) \in Nat /\ here \in SUBSET Nat /\ \A k \in here : s[k] \in T
  OBVIOUS
<1>2. IsFiniteSet(here)
  <2>1. IsFiniteSet(1..Len(s))
    BY <1>1, IntervalSize
  <2> QED
    BY <1>1, <2>1, FS_Subset
<1>3. IsOrder(R, here)
  <2>1. \A i, j \in Nat : <<i, j>> \in R <=> i < j
    OBVIOUS
  <2> HIDE DEF R
  <2> QED
    BY <1>1, <2>1 DEF IsOrder
<1>4. Enumerates(q, here, R)
  <2>1. ASSUME NEW p \in here PROVE {r \in here : r < p} = Below(R, here, p)
    BY <1>1 DEF Below
  <2>2. q = ByRank(RankIn(R, here))
    <3> HIDE DEF R
    <3> QED
      BY <2>1 DEF RankIn
  <2> HIDE DEF R, q
  <2> QED
    BY <1>2, <1>3, <2>2, InOrder
<1>5. /\ q \in Seq(here) /\ Len(q) = Cardinality(here) /\ DOMAIN q = 1..Len(q) /\ Len(q) \in Nat
      /\ \A k \in 1..Len(q) : q[k] \in here
      /\ \A k, l \in 1..Len(q) : q[k] = q[l] => k = l
      /\ \A i \in here : \E k \in 1..Len(q) : q[k] = i
  <2> HIDE DEF q, R
  <2> QED
    BY <1>4 DEF Enumerates
<1>6. t = [k \in 1..Len(q) |-> s[q[k]]]
  <2>1. t = [k \in DOMAIN q |-> s[q[k]]]
    BY DEF KeptAt
  <2> HIDE DEF t, q
  <2> QED
    BY <1>5, <2>1
<1>7. t \in Seq(T) /\ Len(t) = Len(q) /\ DOMAIN t = 1..Len(q) /\ \A k \in 1..Len(q) : t[k] = s[q[k]]
  <2> HIDE DEF t, q
  <2>1. \A k \in 1..Len(q) : s[q[k]] \in T
    BY <1>1, <1>5
  <2> QED
    BY <1>5, <1>6, <2>1
<1>8. ToSet(t) = {s[k] : k \in here}
  <2> HIDE DEF t, q
  <2>1. ASSUME NEW x \in ToSet(t) PROVE x \in {s[k] : k \in here}
    BY <1>5, <1>7 DEF ToSet
  <2>2. ASSUME NEW k \in here PROVE s[k] \in ToSet(t)
    <3>1. PICK l \in 1..Len(q) : q[l] = k
      BY <1>5
    <3> QED
      BY <1>7, <3>1 DEF ToSet
  <2> QED
    BY <2>1, <2>2
<1>9. ASSUME IsInjective(s) PROVE IsInjective(t)
  <2> HIDE DEF t, q
  <2>1. \A k, l \in 1..Len(q) : t[k] = t[l] => k = l
    BY <1>1, <1>5, <1>7, <1>9 DEF IsInjective
  <2> QED
    BY <1>7, <2>1 DEF IsInjective
<1> HIDE DEF t, q
<1>10. t \in Seq(T) /\ Len(t) = Cardinality(here)
  BY <1>5, <1>7
<1> QED
  BY <1>2, <1>8, <1>9, <1>10 DEF t

\* A stable sort by time keeps the elements and brings them in order.
LEMMA StableIs ==
    ASSUME NEW raw, IsRaw(raw), NEW ids \in Seq(DOMAIN raw)
    PROVE  /\ StableByTime(raw, ids) \in Seq(DOMAIN raw) /\ Len(StableByTime(raw, ids)) = Len(ids)
           /\ ToSet(StableByTime(raw, ids)) = ToSet(ids)
           /\ IsInjective(ids) => IsInjective(StableByTime(raw, ids))
           /\ \A k, l \in 1..Len(ids) :
                 k < l => raw[StableByTime(raw, ids)[k]].ts <= raw[StableByTime(raw, ids)[l]].ts
<1> DEFINE D == DOMAIN ids
           Sooner(p, q) == \/ raw[ids[p]].ts < raw[ids[q]].ts
                           \/ raw[ids[p]].ts = raw[ids[q]].ts /\ p < q
           R == {pq \in D \X D : Sooner(pq[1], pq[2])}
           q == ByRank([p \in D |-> Cardinality({r \in D : Sooner(r, p)})])
           t == StableByTime(raw, ids)
<1>1. D = 1..Len(ids) /\ Len(ids) \in Nat /\ D \in SUBSET Nat /\ \A k \in D : ids[k] \in DOMAIN raw
  OBVIOUS
<1>2. PICK ts \in [D -> Nat] : \A k \in D : ts[k] = raw[ids[k]].ts
  <2>1. \A k \in D : raw[ids[k]].ts \in Nat
    <3> HIDE DEF D
    <3> QED
      BY <1>1, ReadsAssumption DEF IsRaw, RawNodes
  <2>2. [k \in D |-> raw[ids[k]].ts] \in [D -> Nat]
    <3> HIDE DEF D
    <3> QED
      BY <2>1
  <2> HIDE DEF D
  <2> QED
    BY <2>2
<1>3. IsFiniteSet(D) /\ Cardinality(D) = Len(ids)
  BY <1>1, IntervalSize
<1>4. \A i, j \in D : <<i, j>> \in R <=> ts[i] < ts[j] \/ (ts[i] = ts[j] /\ i < j)
  <2> HIDE DEF D
  <2> QED
    BY <1>2
<1>5. IsOrder(R, D)
  <2> HIDE DEF D, R, Sooner
  <2>1. \A i \in D : ts[i] \in Nat /\ i \in Nat
    BY <1>1, <1>2
  <2> QED
    BY <2>1, <1>4 DEF IsOrder
<1>6. Enumerates(q, D, R)
  <2>1. ASSUME NEW p \in D PROVE {r \in D : Sooner(r, p)} = Below(R, D, p)
    <3> HIDE DEF D
    <3> QED
      BY DEF Below
  <2>2. q = ByRank(RankIn(R, D))
    <3> HIDE DEF R, D, Sooner
    <3> QED
      BY <2>1 DEF RankIn
  <2> HIDE DEF R, q, D
  <2> QED
    BY <1>3, <1>5, <2>2, InOrder
<1>7. /\ Len(q) = Len(ids) /\ q \in Seq(D)
      /\ \A k \in 1..Len(ids) : q[k] \in D
      /\ \A k, l \in 1..Len(ids) : q[k] = q[l] => k = l
      /\ \A i \in D : \E k \in 1..Len(ids) : q[k] = i
      /\ \A k, l \in 1..Len(ids) : k < l => <<q[k], q[l]>> \in R
  <2> HIDE DEF q, R, D, Sooner
  <2>1. /\ Len(q) = Len(ids) /\ q \in Seq(D)
        /\ \A i \in D : Cardinality(Below(R, D, i)) + 1 \in 1..Len(q) /\ q[Cardinality(Below(R, D, i)) + 1] = i
        /\ \A k, l \in 1..Len(q) : <<q[k], q[l]>> \in R <=> k < l
        /\ \A k, l \in 1..Len(q) : q[k] = q[l] => k = l
    BY <1>3, <1>6 DEF Enumerates
  <2>2. \A k \in 1..Len(q) : q[k] \in D
    BY <2>1
  <2>3. \A i \in D : \E k \in 1..Len(ids) : q[k] = i
    BY <2>1
  <2>4. \A k, l \in 1..Len(ids) : k < l => <<q[k], q[l]>> \in R
    BY <2>1
  <2> QED
    BY <2>1, <2>2, <2>3, <2>4
<1>8. t = [k \in D |-> ids[q[k]]]
  BY DEF StableByTime
<1> HIDE DEF t, q, R, D
<1>9. /\ t \in Seq(DOMAIN raw) /\ Len(t) = Len(ids) /\ DOMAIN t = 1..Len(ids)
      /\ \A k \in 1..Len(ids) : t[k] = ids[q[k]]
  <2>1. \A k \in 1..Len(ids) : ids[q[k]] \in DOMAIN raw
    BY <1>1, <1>7
  <2> QED
    BY <1>1, <1>8, <2>1
<1>10. ToSet(t) = ToSet(ids)
  <2>1. ASSUME NEW x \in ToSet(t) PROVE x \in ToSet(ids)
    BY <1>7, <1>9 DEF ToSet, D
  <2>2. ASSUME NEW k \in D PROVE ids[k] \in ToSet(t)
    <3>1. PICK l \in 1..Len(ids) : q[l] = k
      BY <1>7
    <3> QED
      BY <1>9, <3>1 DEF ToSet
  <2> QED
    BY <2>1, <2>2 DEF ToSet, D
<1>11. ASSUME IsInjective(ids) PROVE IsInjective(t)
  <2>1. \A k, l \in 1..Len(ids) : t[k] = t[l] => k = l
    <3> HIDE DEF Sooner
    <3>1. ASSUME NEW k \in 1..Len(ids), NEW l \in 1..Len(ids), t[k] = t[l] PROVE k = l
      <4>1. ids[q[k]] = ids[q[l]] /\ q[k] \in D /\ q[l] \in D
        BY <1>7, <1>9, <3>1
      <4>2. q[k] = q[l]
        BY <1>11, <4>1 DEF IsInjective, D
      <4> QED
        BY <1>7, <4>2
    <3> QED
      BY <3>1
  <2> QED
    BY <1>9, <2>1 DEF IsInjective
<1>12. ASSUME NEW k \in 1..Len(ids), NEW l \in 1..Len(ids), k < l PROVE raw[t[k]].ts <= raw[t[l]].ts
  <2>1. PICK i \in D, j \in D : i = q[k] /\ j = q[l] /\ <<i, j>> \in R
    BY <1>7, <1>12
  <2>2. ts[i] <= ts[j] /\ ts[i] = raw[ids[i]].ts /\ ts[j] = raw[ids[j]].ts
    BY SMTT(60), <1>2, <1>4, <2>1
  <2> QED
    BY <1>9, <2>1, <2>2
<1> QED
  BY <1>9, <1>10, <1>11, <1>12 DEF t

----------------------------------------------------------------------------
(* What holds of both backends in every reachable state: the index files are
   what the bodies make them, a key belongs to one node, the shards hold nodes
   of their session up to their cap, and memory holds the same bodies. *)

StoreShape(o) ==
    o = [raw |-> o.raw, session |-> o.session, loop |-> o.loop, ops |-> o.ops,
         undistilled |-> o.undistilled, pushed |-> o.pushed, timeline |-> o.timeline,
         emb |-> o.emb, shard |-> o.shard]
MemShape(m) == m = [raw |-> m.raw, session |-> m.session, loop |-> m.loop, ops |-> m.ops, emb |-> m.emb]
OfLoop(raw, l) == {i \in DOMAIN raw : raw[i].loop = l}
IndexesMatch(o) ==
    /\ o.session = [s \in Sessions |-> Capped(o.raw, Of(o.raw, s), SessionCap)]
    /\ o.loop = [l \in Loops |-> Capped(o.raw, OfLoop(o.raw, l), LoopCap)]
    /\ o.undistilled = Undistilled(o.raw)
    /\ o.pushed = {i \in Undistilled(o.raw) : o.raw[i].pushed}
    /\ o.timeline = [d \in Days |-> {i \in DOMAIN o.raw : Day(o.raw[i].ts) = d}]
KeysOf(raw) == {raw[i].key : i \in DOMAIN raw} \ {NoKey}
KeysMatch(o) ==
    /\ \A i, j \in DOMAIN o.raw : o.raw[i].key = o.raw[j].key /\ o.raw[i].key # NoKey => i = j
    /\ o.ops = [k \in KeysOf(o.raw) |-> CHOOSE i \in DOMAIN o.raw : o.raw[i].key = k]
ShardsFor(o, raw) ==
    /\ o.shard \in [Sessions -> Seq(RawIds)]
    /\ \A s \in Sessions : /\ IsInjective(o.shard[s])
                           /\ ToSet(o.shard[s]) \subseteq Of(raw, s)
                           /\ Len(o.shard[s]) = Least(ShardCap, Cardinality(Of(raw, s)))
    /\ o.emb \in [UNION {ToSet(o.shard[s]) : s \in Sessions} -> Nat]
MemMatches(m, o) ==
    /\ m.raw = o.raw /\ m.ops = o.ops
    /\ m.emb = [i \in DOMAIN o.raw |-> Session(o.raw[i])]
    /\ m.session \in [Sessions -> Seq(DOMAIN o.raw)] /\ m.loop \in [Loops -> Seq(DOMAIN o.raw)]
    /\ \A s \in Sessions : IsInjective(m.session[s]) /\ ToSet(m.session[s]) = Of(o.raw, s)
    /\ \A l \in Loops : IsInjective(m.loop[l]) /\ ToSet(m.loop[l]) = OfLoop(o.raw, l)
ReadsOk(m, o) ==
    /\ StoreShape(o) /\ MemShape(m) /\ IsRaw(o.raw)
    /\ IndexesMatch(o) /\ KeysMatch(o) /\ ShardsFor(o, o.raw) /\ MemMatches(m, o)
ReadsInv == ReadsOk(mem, obj)

\* What SyncRawIndexes changes.
Synced(n, o, id) ==
    /\ StoreShape(n) /\ n.raw = o.raw /\ n.ops = o.ops /\ n.emb = o.emb /\ n.shard = o.shard
    /\ n.session = [o.session EXCEPT ![Session(o.raw[id])] = UpsertBounded(o.raw, @, id, SessionCap)]
    /\ n.loop = [o.loop EXCEPT ![o.raw[id].loop] = UpsertBounded(o.raw, @, id, LoopCap)]
    /\ n.undistilled = Listed(o.undistilled, id, ~o.raw[id].distilled)
    /\ n.pushed = Listed(o.pushed, id, ~o.raw[id].distilled /\ o.raw[id].pushed)
    /\ n.timeline = [o.timeline EXCEPT ![Day(o.raw[id].ts)] = @ \cup {id}]

\* The indexes of one node are written, and nothing else.
LEMMA SyncFields ==
    ASSUME NEW o, StoreShape(o), NEW id
    PROVE  Synced(SyncRawIndexes(o, id), o, id)
<1>1. PICK s : s = Session(o.raw[id])
  OBVIOUS
<1>2. PICK n : n = SyncRawIndexes(o, id)
  OBVIOUS
<1>3. n =
        [o EXCEPT !.session[s] = UpsertBounded(o.raw, @, id, SessionCap),
                  !.loop[o.raw[id].loop] = UpsertBounded(o.raw, @, id, LoopCap),
                  !.undistilled = Listed(@, id, ~o.raw[id].distilled),
                  !.pushed = Listed(@, id, ~o.raw[id].distilled /\ o.raw[id].pushed),
                  !.timeline[Day(o.raw[id].ts)] = @ \cup {id}]
  BY <1>1, <1>2 DEF SyncRawIndexes
<1>4. Synced(n, o, id)
  BY <1>1, <1>3 DEF StoreShape, Synced
<1> QED
  BY <1>2, <1>4

----------------------------------------------------------------------------
(* An insertion, a retry and an update keep the index files in step. *)

\* A capped file depends on the timestamps only.
LEMMA CappedSame ==
    ASSUME NEW raw, NEW raw2, NEW ids, NEW cap, \A i \in ids : raw2[i].ts = raw[i].ts
    PROVE  Capped(raw2, ids, cap) = Capped(raw, ids, cap)
<1>1. ASSUME NEW i \in ids, NEW j \in ids PROVE Before(raw2, i, j) <=> Before(raw, i, j)
  BY DEF Before
<1>2. ASSUME NEW i \in ids PROVE {j \in ids : Before(raw2, i, j)} = {j \in ids : Before(raw, i, j)}
  BY <1>1
<1> QED
  BY <1>2 DEF Capped

\* A node written to a capped file of all the others.
LEMMA CappedAgain ==
    ASSUME NEW raw, NEW raw2, IsRaw(raw2), NEW ids \in SUBSET DOMAIN raw, DOMAIN raw \subseteq DOMAIN raw2,
           NEW id \in DOMAIN raw2, NEW cap \in Nat, \A i \in ids : raw2[i].ts = raw[i].ts
    PROVE  UpsertBounded(raw2, Capped(raw, ids, cap), id, cap) = Capped(raw2, ids \cup {id}, cap)
<1> DEFINE R == TimeOrder(raw2)
<1>1. Capped(raw, ids, cap) = Top(R, ids, cap)
  <2>1. Capped(raw2, ids, cap) = Capped(raw, ids, cap)
    BY CappedSame
  <2>2. ids \in SUBSET DOMAIN raw2
    OBVIOUS
  <2> QED
    BY <2>1, <2>2, CappedIs
<1>2. Top(R, ids, cap) \cup {id} \in SUBSET DOMAIN raw2 /\ ids \cup {id} \in SUBSET DOMAIN raw2
  BY DEF Top
<1>3. IsFiniteSet(ids) /\ IsOrder(R, ids \cup {id})
  BY <1>2, InTimeIs
<1>4. Top(R, Top(R, ids, cap) \cup {id}, cap) = Top(R, ids \cup {id}, cap)
  <2>1. PICK X, B, C, D, Q : /\ X = {id} /\ B = ids \cup X /\ C = Top(R, ids, cap) /\ D = C \cup X
                             /\ Q = R
    OBVIOUS
  <2>2. IsOrder(Q, B) /\ C = Top(Q, ids, cap) /\ IsFiniteSet(X)
    BY <1>3, <2>1, FS_Singleton
  <2>3. Top(Q, D, cap) = Top(Q, B, cap)
    BY <1>3, <2>1, <2>2, TopAgain
  <2> HIDE DEF R
  <2> QED
    BY <2>1, <2>3
<1>5. Capped(raw2, Top(R, ids, cap) \cup {id}, cap) = Top(R, Top(R, ids, cap) \cup {id}, cap)
  <2> HIDE DEF R
  <2> QED
    BY <1>2, CappedIs DEF R
<1>6. Capped(raw2, ids \cup {id}, cap) = Top(R, ids \cup {id}, cap)
  BY <1>2, CappedIs
<1> HIDE DEF R
<1> QED
  BY <1>1, <1>4, <1>5, <1>6 DEF UpsertBounded

\* One more body, or another lifecycle of a body: w holds the bodies to be, and
\* the indexes before.
Rewritten(o, w, id) ==
    /\ StoreShape(o) /\ StoreShape(w) /\ IsRaw(o.raw) /\ IsRaw(w.raw)
    /\ w.session = o.session /\ w.loop = o.loop /\ w.undistilled = o.undistilled
    /\ w.pushed = o.pushed /\ w.timeline = o.timeline
    /\ DOMAIN w.raw = DOMAIN o.raw \cup {id}
    /\ \A i \in DOMAIN o.raw : i # id => w.raw[i] = o.raw[i]
    /\ id \in DOMAIN o.raw => w.raw[id].loop = o.raw[id].loop /\ w.raw[id].ts = o.raw[id].ts

\* Of a session, of a loop.
LEMMA OfWritten ==
    ASSUME NEW o, NEW w, NEW id, Rewritten(o, w, id)
    PROVE  /\ \A s \in Sessions : /\ Session(w.raw[id]) = s => Of(w.raw, s) = Of(o.raw, s) \cup {id}
                                  /\ Session(w.raw[id]) # s => Of(w.raw, s) = Of(o.raw, s)
           /\ \A l \in Loops : /\ w.raw[id].loop = l => OfLoop(w.raw, l) = OfLoop(o.raw, l) \cup {id}
                               /\ w.raw[id].loop # l => OfLoop(w.raw, l) = OfLoop(o.raw, l)
           /\ \A i \in DOMAIN o.raw : w.raw[i].ts = o.raw[i].ts /\ w.raw[i].loop = o.raw[i].loop
           /\ w.raw[id] \in RawNodes /\ Session(w.raw[id]) \in Sessions /\ id \in DOMAIN w.raw
           /\ w.raw[id].loop \in Loops /\ Day(w.raw[id].ts) \in Days
<1>1. \A i \in DOMAIN o.raw : w.raw[i].ts = o.raw[i].ts /\ w.raw[i].loop = o.raw[i].loop
  BY DEF Rewritten
<1>2. DOMAIN w.raw = DOMAIN o.raw \cup {id}
  BY DEF Rewritten
<1>3. id \in DOMAIN w.raw /\ w.raw[id] \in RawNodes
  BY <1>2 DEF Rewritten, IsRaw
<1>4. w.raw[id].loop \in Loops /\ w.raw[id].ts \in Times
  BY <1>3 DEF RawNodes
<1>5. Session(w.raw[id]) \in Sessions
  BY <1>4, ReadsAssumption DEF Session
<1>6. Day(w.raw[id].ts) \in Days
  BY <1>4 DEF Days
<1>7. ASSUME NEW s \in Sessions
      PROVE  /\ Session(w.raw[id]) = s => Of(w.raw, s) = Of(o.raw, s) \cup {id}
             /\ Session(w.raw[id]) # s => Of(w.raw, s) = Of(o.raw, s)
  <2>1. s # Everywhere
    BY ReadsAssumption
  <2>2. \A i \in DOMAIN o.raw : Session(w.raw[i]) = Session(o.raw[i])
    BY <1>1 DEF Session
  <2> QED
    BY <1>2, <2>1, <2>2 DEF Of
<1>8. ASSUME NEW l \in Loops
      PROVE  /\ w.raw[id].loop = l => OfLoop(w.raw, l) = OfLoop(o.raw, l) \cup {id}
             /\ w.raw[id].loop # l => OfLoop(w.raw, l) = OfLoop(o.raw, l)
  BY <1>1, <1>2 DEF OfLoop
<1> QED
  BY <1>1, <1>3, <1>4, <1>5, <1>6, <1>7, <1>8

\* Then the synchronised indexes match the bodies again.
LEMMA SyncKeepsIndexes ==
    ASSUME NEW o, NEW w, NEW id, Rewritten(o, w, id), IndexesMatch(o)
    PROVE  IndexesMatch(SyncRawIndexes(w, id))
<1> DEFINE n == SyncRawIndexes(w, id)
           s0 == Session(w.raw[id])
           l0 == w.raw[id].loop
<1>1. /\ n.raw = w.raw
      /\ n.session = [o.session EXCEPT ![s0] = UpsertBounded(w.raw, @, id, SessionCap)]
      /\ n.loop = [o.loop EXCEPT ![l0] = UpsertBounded(w.raw, @, id, LoopCap)]
      /\ n.undistilled = Listed(o.undistilled, id, ~w.raw[id].distilled)
      /\ n.pushed = Listed(o.pushed, id, ~w.raw[id].distilled /\ w.raw[id].pushed)
      /\ n.timeline = [o.timeline EXCEPT ![Day(w.raw[id].ts)] = @ \cup {id}]
  <2>1. /\ StoreShape(w) /\ w.session = o.session /\ w.loop = o.loop /\ w.undistilled = o.undistilled
        /\ w.pushed = o.pushed /\ w.timeline = o.timeline
    BY DEF Rewritten
  <2>2. Synced(n, w, id)
    BY <2>1, SyncFields
  <2> HIDE DEF n
  <2> QED
    BY <2>1, <2>2 DEF Synced
<1> HIDE DEF n
<1>2. /\ IsRaw(w.raw) /\ IsRaw(o.raw) /\ DOMAIN w.raw = DOMAIN o.raw \cup {id} /\ id \in DOMAIN w.raw
      /\ \A i \in DOMAIN o.raw : w.raw[i].ts = o.raw[i].ts /\ w.raw[i].loop = o.raw[i].loop
      /\ \A i \in DOMAIN o.raw : i # id => w.raw[i] = o.raw[i]
  BY OfWritten DEF Rewritten
<1>3. n.session = [s \in Sessions |-> Capped(n.raw, Of(n.raw, s), SessionCap)]
  <2>1. o.session = [s \in Sessions |-> Capped(o.raw, Of(o.raw, s), SessionCap)]
    BY DEF IndexesMatch
  <2>2. s0 \in Sessions
    BY OfWritten
  <2>3. ASSUME NEW s \in Sessions PROVE n.session[s] = Capped(w.raw, Of(w.raw, s), SessionCap)
    <3>1. Of(o.raw, s) \in SUBSET DOMAIN o.raw
      BY DEF Of
    <3>2. \A i \in Of(o.raw, s) : w.raw[i].ts = o.raw[i].ts
      BY <1>2, <3>1
    <3>3. CASE s = s0
      <4>1. Of(w.raw, s) = Of(o.raw, s) \cup {id}
        BY <3>3, OfWritten
      <4>2. n.session[s] = UpsertBounded(w.raw, Capped(o.raw, Of(o.raw, s), SessionCap), id, SessionCap)
        <5> HIDE DEF s0
        <5> QED
          BY <1>1, <2>1, <2>2, <3>3
      <4>3. SessionCap \in Nat /\ DOMAIN o.raw \subseteq DOMAIN w.raw
        BY <1>2, ReadsAssumption
      <4>4. UpsertBounded(w.raw, Capped(o.raw, Of(o.raw, s), SessionCap), id, SessionCap)
              = Capped(w.raw, Of(o.raw, s) \cup {id}, SessionCap)
        BY <1>2, <3>1, <3>2, <4>3, CappedAgain
      <4> QED
        BY <4>1, <4>2, <4>4
    <3>4. CASE s # s0
      <4>1. Of(w.raw, s) = Of(o.raw, s)
        BY <3>4, OfWritten
      <4>2. n.session[s] = Capped(o.raw, Of(o.raw, s), SessionCap)
        <5> HIDE DEF s0
        <5> QED
          BY <1>1, <2>1, <2>2, <3>4
      <4> QED
        BY <3>2, <4>1, <4>2, CappedSame
    <3> QED
      BY <3>3, <3>4
  <2>4. n.session = [s \in Sessions |-> n.session[s]]
    BY <1>1, <2>1
  <2> QED
    BY <1>1, <2>3, <2>4
<1>4. n.loop = [l \in Loops |-> Capped(n.raw, OfLoop(n.raw, l), LoopCap)]
  <2>1. o.loop = [l \in Loops |-> Capped(o.raw, OfLoop(o.raw, l), LoopCap)]
    BY DEF IndexesMatch
  <2>2. l0 \in Loops
    BY OfWritten
  <2>3. ASSUME NEW l \in Loops PROVE n.loop[l] = Capped(w.raw, OfLoop(w.raw, l), LoopCap)
    <3>1. OfLoop(o.raw, l) \in SUBSET DOMAIN o.raw
      BY DEF OfLoop
    <3>2. \A i \in OfLoop(o.raw, l) : w.raw[i].ts = o.raw[i].ts
      BY <1>2, <3>1
    <3>3. CASE l = l0
      <4>1. OfLoop(w.raw, l) = OfLoop(o.raw, l) \cup {id}
        BY <3>3, OfWritten
      <4>2. n.loop[l] = UpsertBounded(w.raw, Capped(o.raw, OfLoop(o.raw, l), LoopCap), id, LoopCap)
        <5> HIDE DEF l0
        <5> QED
          BY <1>1, <2>1, <2>2, <3>3
      <4>3. LoopCap \in Nat /\ DOMAIN o.raw \subseteq DOMAIN w.raw
        BY <1>2, ReadsAssumption
      <4>4. UpsertBounded(w.raw, Capped(o.raw, OfLoop(o.raw, l), LoopCap), id, LoopCap)
              = Capped(w.raw, OfLoop(o.raw, l) \cup {id}, LoopCap)
        BY <1>2, <3>1, <3>2, <4>3, CappedAgain
      <4> QED
        BY <4>1, <4>2, <4>4
    <3>4. CASE l # l0
      <4>1. OfLoop(w.raw, l) = OfLoop(o.raw, l)
        BY <3>4, OfWritten
      <4>2. n.loop[l] = Capped(o.raw, OfLoop(o.raw, l), LoopCap)
        <5> HIDE DEF l0
        <5> QED
          BY <1>1, <2>1, <2>2, <3>4
      <4> QED
        BY <3>2, <4>1, <4>2, CappedSame
    <3> QED
      BY <3>3, <3>4
  <2>4. n.loop = [l \in Loops |-> n.loop[l]]
    BY <1>1, <2>1
  <2> QED
    BY <1>1, <2>3, <2>4
<1>5. n.undistilled = Undistilled(n.raw)
  <2>1. o.undistilled = Undistilled(o.raw)
    BY DEF IndexesMatch
  <2> QED
    BY <1>1, <1>2, <2>1 DEF Undistilled, Listed
<1>6. n.pushed = {i \in Undistilled(n.raw) : n.raw[i].pushed}
  <2>1. o.pushed = {i \in Undistilled(o.raw) : o.raw[i].pushed}
    BY DEF IndexesMatch
  <2> QED
    BY <1>1, <1>2, <2>1 DEF Undistilled, Listed
<1>7. n.timeline = [d \in Days |-> {i \in DOMAIN n.raw : Day(n.raw[i].ts) = d}]
  <2>1. o.timeline = [d \in Days |-> {i \in DOMAIN o.raw : Day(o.raw[i].ts) = d}]
    BY DEF IndexesMatch
  <2>2. PICK d0 \in Days : d0 = Day(w.raw[id].ts)
    BY OfWritten
  <2>3. ASSUME NEW d \in Days PROVE n.timeline[d] = {i \in DOMAIN w.raw : Day(w.raw[i].ts) = d}
    <3>1. n.timeline[d] = IF d = d0 THEN o.timeline[d] \cup {id} ELSE o.timeline[d]
      BY <1>1, <2>1, <2>2
    <3>2. o.timeline[d] = {i \in DOMAIN o.raw : Day(o.raw[i].ts) = d}
      BY <2>1
    <3>3. \A i \in DOMAIN o.raw : Day(w.raw[i].ts) = Day(o.raw[i].ts)
      BY <1>2
    <3> QED
      BY <1>2, <2>2, <3>1, <3>2, <3>3
  <2>4. n.timeline = [d \in Days |-> n.timeline[d]]
    BY <1>1, <2>1
  <2>5. ASSUME NEW d \in Days PROVE n.timeline[d] = {i \in DOMAIN n.raw : Day(n.raw[i].ts) = d}
    BY <1>1, <2>3
  <2> QED
    BY <2>4, <2>5
<1> QED
  BY <1>3, <1>4, <1>5, <1>6, <1>7 DEF IndexesMatch, n

\* A sequence without repetitions has as many elements as positions.
LEMMA DistinctSize ==
    ASSUME NEW T, NEW s \in Seq(T), IsInjective(s)
    PROVE  IsFiniteSet(ToSet(s)) /\ Cardinality(ToSet(s)) = Len(s) /\ Len(s) \in Nat
<1>1. Len(s) \in Nat /\ DOMAIN s = 1..Len(s)
  OBVIOUS
<1>2. IsFiniteSet(1..Len(s)) /\ Cardinality(1..Len(s)) = Len(s)
  BY <1>1, IntervalSize
<1>3. s \in Surjection(1..Len(s), ToSet(s)) /\ s \in Injection(1..Len(s), ToSet(s))
  BY <1>1 DEF Surjection, Injection, IsInjective, ToSet
<1>4. s \in Bijection(1..Len(s), ToSet(s))
  BY <1>3 DEF Bijection
<1> QED
  BY <1>1, <1>2, <1>4, FS_Bijection DEF ExistsBijection

\* An id written to a manifest is in it once, and no other id comes in.
LEMMA ManifestIs ==
    ASSUME NEW s \in Seq(RawIds), IsInjective(s), NEW id \in RawIds
    PROVE  LET k == UpsertManifest(s, id)
           IN  /\ k \in Seq(RawIds) /\ IsInjective(k) /\ ToSet(k) \subseteq ToSet(s) \cup {id}
               /\ Len(k) = Least(ShardCap, IF id \in ToSet(s) THEN Len(s) ELSE Len(s) + 1)
<1> DEFINE here == {p \in DOMAIN s : s[p] # id}
           kept == KeptAt(s, here)
           all == Append(kept, id)
<1>1. /\ kept \in Seq(RawIds) /\ Len(kept) = Cardinality(here) /\ IsInjective(kept)
      /\ ToSet(kept) = {s[p] : p \in here} /\ IsFiniteSet(here)
  <2>1. here \in SUBSET DOMAIN s
    OBVIOUS
  <2> HIDE DEF here
  <2> QED
    BY <2>1, KeptAtIs
<1>2. DOMAIN s = 1..Len(s) /\ Len(s) \in Nat /\ Cardinality(DOMAIN s) = Len(s) /\ IsFiniteSet(DOMAIN s)
  BY IntervalSize
<1>3. Len(kept) + 1 = IF id \in ToSet(s) THEN Len(s) ELSE Len(s) + 1
  <2>1. CASE id \in ToSet(s)
    <3>1. PICK p \in DOMAIN s : s[p] = id
      BY <2>1 DEF ToSet
    <3>2. here = DOMAIN s \ {p}
      BY <3>1 DEF IsInjective
    <3>3. Cardinality(DOMAIN s \ {p}) = Len(s) - 1
      BY <1>2, FS_RemoveElement
    <3> HIDE DEF here, kept
    <3> QED
      BY <1>1, <1>2, <2>1, <3>2, <3>3
  <2>2. CASE id \notin ToSet(s)
    <3>1. here = DOMAIN s
      BY <2>2 DEF ToSet
    <3> HIDE DEF here, kept
    <3> QED
      BY <1>1, <1>2, <2>2, <3>1
  <2> QED
    BY <2>1, <2>2
<1>4. /\ all \in Seq(RawIds) /\ Len(all) = Len(kept) + 1 /\ all[Len(all)] = id
      /\ DOMAIN all = 1..(Len(kept) + 1) /\ Len(kept) \in Nat /\ DOMAIN kept = 1..Len(kept)
      /\ \A p \in 1..Len(kept) : all[p] = kept[p] /\ kept[p] # id /\ kept[p] \in ToSet(s)
  <2>1. \A p \in 1..Len(kept) : kept[p] # id /\ kept[p] \in ToSet(s)
    <3>1. \A x \in ToSet(kept) : x # id /\ x \in ToSet(s)
      <4> HIDE DEF kept
      <4> QED
        BY <1>1 DEF ToSet
    <3>2. \A p \in 1..Len(kept) : kept[p] \in ToSet(kept)
      <4>1. DOMAIN kept = 1..Len(kept)
        <5> HIDE DEF kept
        <5> QED
          BY <1>1
      <4> HIDE DEF kept
      <4> QED
        BY <4>1 DEF ToSet
    <3> HIDE DEF kept
    <3> QED
      BY <3>1, <3>2
  <2> HIDE DEF kept
  <2>2. Len(kept) \in Nat /\ DOMAIN kept = 1..Len(kept)
    BY <1>1
  <2>3. /\ all \in Seq(RawIds) /\ Len(all) = Len(kept) + 1 /\ all[Len(kept) + 1] = id
        /\ \A p \in 1..Len(kept) : all[p] = kept[p]
    <3>1. PICK t \in Seq(RawIds) : t = kept
      BY <1>1
    <3>2. PICK u : u = Append(t, id)
      OBVIOUS
    <3>3. u \in Seq(RawIds) /\ Len(u) = Len(t) + 1 /\ u[Len(t) + 1] = id /\ \A p \in 1..Len(t) : u[p] = t[p]
      BY <3>2, AppendProperties
    <3> QED
      BY <3>1, <3>2, <3>3
  <2> HIDE DEF all
  <2> QED
    BY <2>1, <2>2, <2>3
<1>5. IsInjective(all) /\ ToSet(all) \subseteq ToSet(s) \cup {id}
  <2>1. \A p, q \in 1..(Len(kept) + 1) : all[p] = all[q] => p = q
    <3>1. \A p, q \in 1..Len(kept) : kept[p] = kept[q] => p = q
      <4> HIDE DEF kept
      <4> QED
        BY <1>1, <1>4 DEF IsInjective
    <3>2. \A p \in 1..(Len(kept) + 1) : p \in 1..Len(kept) \/ p = Len(kept) + 1
      <4> HIDE DEF kept, all
      <4> QED
        BY <1>4
    <3>3. ASSUME NEW p \in 1..(Len(kept) + 1), NEW q \in 1..(Len(kept) + 1), all[p] = all[q] PROVE p = q
      <4> HIDE DEF kept, all
      <4>1. CASE p \in 1..Len(kept) /\ q \in 1..Len(kept)
        BY <1>4, <3>1, <3>3, <4>1
      <4>2. CASE p \in 1..Len(kept) /\ q = Len(kept) + 1
        BY <1>4, <3>3, <4>2
      <4>3. CASE p = Len(kept) + 1 /\ q \in 1..Len(kept)
        BY <1>4, <3>3, <4>3
      <4>4. CASE p = Len(kept) + 1 /\ q = Len(kept) + 1
        BY <4>4
      <4> QED
        BY <3>2, <4>1, <4>2, <4>3, <4>4
    <3> HIDE DEF kept, all
    <3> QED
      BY <3>3
  <2> HIDE DEF kept, all
  <2>2. IsInjective(all)
    BY <1>4, <2>1 DEF IsInjective
  <2>3. \A p \in DOMAIN all : all[p] \in ToSet(s) \cup {id}
    BY <1>4
  <2>4. ToSet(all) \subseteq ToSet(s) \cup {id}
    BY <2>3 DEF ToSet
  <2> QED
    BY <2>2, <2>4
<1>6. UpsertManifest(s, id) = Newest(all, ShardCap)
  BY DEF UpsertManifest
<1>7. PICK k : k = Newest(all, ShardCap)
  OBVIOUS
<1>8. /\ k \in Seq(RawIds) /\ Len(k) = (IF ShardCap < Len(all) THEN ShardCap ELSE Len(all))
      /\ \A p \in 1..Len(k) : k[p] = all[Len(all) - Len(k) + p]
      /\ ToSet(k) \subseteq ToSet(all) /\ Len(all) \in Nat
  <2>1. ShardCap \in Nat
    BY ReadsAssumption
  <2> HIDE DEF all
  <2> QED
    BY <1>4, <1>7, <2>1, NewestOf
<1>9. IsInjective(k)
  <2>1. Len(k) \in Nat /\ Len(k) <= Len(all) /\ DOMAIN k = 1..Len(k) /\ DOMAIN all = 1..Len(all)
    <3>1. ShardCap \in Nat
      BY ReadsAssumption
    <3> HIDE DEF all, kept
    <3> QED
      BY <1>4, <1>8, <3>1
  <2>2. ASSUME NEW p \in 1..Len(k), NEW q \in 1..Len(k), k[p] = k[q] PROVE p = q
    <3>1. PICK a \in 1..Len(all), b \in 1..Len(all) : a = Len(all) - Len(k) + p /\ b = Len(all) - Len(k) + q
      <4>1. \A r \in 1..Len(k) : Len(all) - Len(k) + r \in 1..Len(all)
        <5> HIDE DEF all
        <5> QED
          BY <1>8, <2>1
      <4> HIDE DEF all
      <4> QED
        BY <4>1
    <3>2. all[a] = all[b]
      BY <1>8, <2>2, <3>1
    <3>3. a = b
      <4> HIDE DEF all
      <4> QED
        BY <1>5, <2>1, <3>2 DEF IsInjective
    <3> HIDE DEF all
    <3> QED
      BY <2>1, <3>1, <3>3
  <2> QED
    BY <2>1, <2>2 DEF IsInjective
<1> HIDE DEF all, kept, here
<1>10. Len(k) = Least(ShardCap, IF id \in ToSet(s) THEN Len(s) ELSE Len(s) + 1)
  BY <1>3, <1>4, <1>8 DEF Least
<1>11. ToSet(k) \subseteq ToSet(s) \cup {id}
  BY <1>5, <1>8
<1> QED
  BY <1>6, <1>7, <1>8, <1>9, <1>10, <1>11

----------------------------------------------------------------------------
(* Embeddings and their manifests. *)

\* What the embedding of a node changes.
BodiesKept(o, id, s) ==
    (DOMAIN o.emb \cup {id}) \ ((ToSet(o.shard[s]) \cup {id}) \ ToSet(UpsertManifest(o.shard[s], id)))
Embedded(n, o, id, stamp, s) ==
    /\ StoreShape(n) /\ n.raw = o.raw /\ n.ops = o.ops /\ n.session = o.session /\ n.loop = o.loop
    /\ n.undistilled = o.undistilled /\ n.pushed = o.pushed /\ n.timeline = o.timeline
    /\ n.shard = [o.shard EXCEPT ![s] = UpsertManifest(@, id)]
    /\ n.emb = [i \in BodiesKept(o, id, s) |-> IF i = id THEN stamp ELSE o.emb[i]]

\* The embedding and its manifest are written, and nothing else.
LEMMA IndexFields ==
    ASSUME NEW o, StoreShape(o), NEW id, NEW stamp
    PROVE  Embedded(ObjIndex(o, id, stamp), o, id, stamp, Session(o.raw[id]))
<1>1. DOMAIN Put(o.emb, id, stamp) = DOMAIN o.emb \cup {id}
  BY DEF Put
<1>2. PICK s, k : s = Session(o.raw[id]) /\ k = UpsertManifest(o.shard[s], id)
  OBVIOUS
<1>3. PICK kept : kept = BodiesKept(o, id, s)
  OBVIOUS
<1>4. PICK emb : emb = [i \in kept |-> Put(o.emb, id, stamp)[i]]
  OBVIOUS
<1>5. ObjIndex(o, id, stamp) = [o EXCEPT !.shard[s] = k, !.emb = emb]
  BY <1>1, <1>2, <1>3, <1>4 DEF ObjIndex, BodiesKept
<1>6. emb = [i \in kept |-> IF i = id THEN stamp ELSE o.emb[i]]
  <2>1. ASSUME NEW i \in kept PROVE Put(o.emb, id, stamp)[i] = IF i = id THEN stamp ELSE o.emb[i]
    BY <1>3 DEF Put, BodiesKept
  <2> QED
    BY <1>4, <2>1
<1>7. PICK n : n = ObjIndex(o, id, stamp)
  OBVIOUS
<1>8. /\ StoreShape(n) /\ n.raw = o.raw /\ n.ops = o.ops /\ n.session = o.session /\ n.loop = o.loop
      /\ n.undistilled = o.undistilled /\ n.pushed = o.pushed /\ n.timeline = o.timeline
      /\ n.shard = [o.shard EXCEPT ![s] = k] /\ n.emb = emb
  BY <1>5, <1>7 DEF StoreShape
<1>9. Embedded(n, o, id, stamp, s)
  BY <1>2, <1>3, <1>6, <1>8 DEF Embedded
<1> QED
  BY <1>2, <1>7, <1>9

\* Bodies of raw0 and possibly one more: the shards of the sessions match again.
LEMMA IndexKeepsShards ==
    ASSUME NEW o, StoreShape(o), IsRaw(o.raw), NEW raw0, IsRaw(raw0), ShardsFor(o, raw0),
           NEW id \in DOMAIN o.raw, NEW s0 \in Sessions, s0 = Session(o.raw[id]),
           Of(o.raw, s0) = Of(raw0, s0) \cup {id},
           \A s \in Sessions : s # s0 => Of(o.raw, s) = Of(raw0, s),
           NEW stamp \in Nat
    PROVE  ShardsFor(ObjIndex(o, id, stamp), o.raw)
<1> DEFINE old == o.shard[s0]
           k == UpsertManifest(old, id)
           gone == (ToSet(old) \cup {id}) \ ToSet(k)
           kept == (DOMAIN o.emb \cup {id}) \ gone
           n == ObjIndex(o, id, stamp)
<1>1. /\ n.shard = [o.shard EXCEPT ![s0] = k]
      /\ n.emb = [i \in kept |-> IF i = id THEN stamp ELSE o.emb[i]]
  <2>1. Embedded(n, o, id, stamp, s0)
    BY IndexFields
  <2> HIDE DEF n
  <2> QED
    BY <2>1 DEF Embedded, BodiesKept
<1>2. /\ o.shard \in [Sessions -> Seq(RawIds)]
      /\ \A s \in Sessions : /\ IsInjective(o.shard[s])
                             /\ ToSet(o.shard[s]) \subseteq Of(raw0, s)
                             /\ Len(o.shard[s]) = Least(ShardCap, Cardinality(Of(raw0, s)))
      /\ o.emb \in [UNION {ToSet(o.shard[s]) : s \in Sessions} -> Nat]
  BY DEF ShardsFor
<1>3. /\ id \in RawIds /\ ShardCap \in Nat /\ old \in Seq(RawIds) /\ IsInjective(old)
      /\ ToSet(old) \subseteq Of(raw0, s0) /\ Len(old) = Least(ShardCap, Cardinality(Of(raw0, s0)))
  BY <1>2, ReadsAssumption DEF IsRaw
<1>4. /\ k \in Seq(RawIds) /\ IsInjective(k) /\ ToSet(k) \subseteq ToSet(old) \cup {id}
      /\ Len(k) = Least(ShardCap, IF id \in ToSet(old) THEN Len(old) ELSE Len(old) + 1)
  BY <1>3, ManifestIs
<1>5. IsFiniteSet(Of(raw0, s0)) /\ Cardinality(Of(raw0, s0)) \in Nat
  <2>1. Of(raw0, s0) \in SUBSET DOMAIN raw0
    BY DEF Of
  <2> QED
    BY <2>1, FS_Subset, FS_CardinalityType DEF IsRaw
<1>6. IsFiniteSet(ToSet(old)) /\ Cardinality(ToSet(old)) = Len(old) /\ Len(old) \in Nat
  BY <1>3, DistinctSize
<1> HIDE DEF k, old
<1>7. Len(k) = Least(ShardCap, Cardinality(Of(o.raw, s0)))
  <2>1. CASE id \in ToSet(old)
    <3>1. Of(o.raw, s0) = Of(raw0, s0)
      BY <1>3, <2>1
    <3> QED
      BY <1>3, <1>4, <1>5, <1>6, <2>1, <3>1 DEF Least
  <2>2. CASE id \notin ToSet(old) /\ id \in Of(raw0, s0)
    <3>1. Of(o.raw, s0) = Of(raw0, s0)
      BY <2>2
    <3>2. ~(Cardinality(Of(raw0, s0)) < ShardCap)
      <4>1. SUFFICES ASSUME Cardinality(Of(raw0, s0)) < ShardCap PROVE FALSE
        OBVIOUS
      <4>2. Len(old) = Cardinality(Of(raw0, s0))
        BY <1>3, <1>5, <4>1 DEF Least
      <4>3. ToSet(old) = Of(raw0, s0)
        BY <1>3, <1>5, <1>6, <4>2, FS_Subset
      <4> QED
        BY <2>2, <4>3
    <3>3. Len(old) = ShardCap
      BY <1>3, <1>5, <3>2 DEF Least
    <3>4. Len(k) = Least(ShardCap, ShardCap + 1)
      BY <1>4, <2>2, <3>3
    <3>5. Least(ShardCap, Cardinality(Of(raw0, s0))) = ShardCap
      BY <1>3, <1>5, <3>2 DEF Least
    <3>6. Least(ShardCap, ShardCap + 1) = ShardCap
      BY <1>3 DEF Least
    <3> QED
      BY <3>1, <3>4, <3>5, <3>6
  <2>3. CASE id \notin Of(raw0, s0)
    <3>1. Cardinality(Of(o.raw, s0)) = Cardinality(Of(raw0, s0)) + 1
      BY ZenonT(60), <1>5, <2>3, FS_AddElement
    <3>2. id \notin ToSet(old)
      BY <1>3, <2>3
    <3> QED
      BY <1>3, <1>4, <1>5, <3>1, <3>2 DEF Least
  <2> QED
    BY <2>1, <2>2, <2>3
<1>8. ToSet(k) \subseteq Of(o.raw, s0)
  BY <1>3, <1>4
<1>9. \A s \in Sessions : s # s0 => ToSet(o.shard[s]) \cap (ToSet(old) \cup {id}) = {}
  <2>1. ASSUME NEW s \in Sessions, s # s0, NEW i \in ToSet(o.shard[s]), i \in ToSet(old) \cup {id}
        PROVE  FALSE
    <3>1. i \in Of(o.raw, s) /\ i \in Of(o.raw, s0)
      BY <1>2, <1>3, <2>1
    <3>2. s # Everywhere /\ s0 # Everywhere
      BY ReadsAssumption
    <3>3. Session(o.raw[i]) = s /\ Session(o.raw[i]) = s0
      BY <3>1, <3>2 DEF Of
    <3> QED
      BY <2>1, <3>3
  <2> QED
    BY <2>1
<1>10. n.shard[s0] = k /\ \A s \in Sessions : s # s0 => n.shard[s] = o.shard[s]
  <2> HIDE DEF n
  <2> QED
    BY <1>1, <1>2
<1>11. n.shard \in [Sessions -> Seq(RawIds)]
  <2> HIDE DEF n
  <2> QED
    BY <1>1, <1>2, <1>4
<1> HIDE DEF n
<1>12. kept = UNION {ToSet(n.shard[s]) : s \in Sessions}
  <2>1. DOMAIN o.emb = UNION {ToSet(o.shard[s]) : s \in Sessions}
    BY <1>2
  <2>2. ASSUME NEW i \in kept PROVE i \in UNION {ToSet(n.shard[s]) : s \in Sessions}
    <3>1. CASE i \in ToSet(old) \cup {id}
      BY <1>10, <3>1
    <3>2. CASE i \notin ToSet(old) \cup {id}
      <4>1. PICK s \in Sessions : i \in ToSet(o.shard[s])
        BY <2>1, <3>2
      <4>2. s # s0
        BY <3>2, <4>1 DEF old
      <4> QED
        BY <1>10, <4>1, <4>2
    <3> QED
      BY <3>1, <3>2
  <2>3. ASSUME NEW s \in Sessions, NEW i \in ToSet(n.shard[s]) PROVE i \in kept
    <3>1. CASE s = s0
      <4>1. i \in ToSet(k) /\ i \in ToSet(old) \cup {id}
        BY <1>4, <1>10, <2>3, <3>1
      <4>2. i \in DOMAIN o.emb \cup {id}
        BY <2>1, <4>1 DEF old
      <4> QED
        BY <4>1, <4>2
    <3>2. CASE s # s0
      <4>1. i \in ToSet(o.shard[s])
        BY <1>10, <2>3, <3>2
      <4>2. i \in DOMAIN o.emb
        BY <2>1, <4>1
      <4> QED
        BY <1>9, <3>2, <4>1, <4>2
    <3> QED
      BY <3>1, <3>2
  <2> HIDE DEF kept
  <2> QED
    BY <2>2, <2>3
<1>13. n.emb \in [kept -> Nat]
  <2>1. ASSUME NEW i \in kept PROVE (IF i = id THEN stamp ELSE o.emb[i]) \in Nat
    <3>1. i = id \/ i \in DOMAIN o.emb
      OBVIOUS
    <3>2. i \in DOMAIN o.emb => o.emb[i] \in Nat
      BY <1>2
    <3> QED
      BY <3>1, <3>2
  <2> HIDE DEF kept
  <2> QED
    BY <1>1, <2>1
<1>14. ASSUME NEW s \in Sessions
       PROVE  /\ IsInjective(n.shard[s]) /\ ToSet(n.shard[s]) \subseteq Of(o.raw, s)
              /\ Len(n.shard[s]) = Least(ShardCap, Cardinality(Of(o.raw, s)))
  <2>1. CASE s = s0
    BY <1>4, <1>7, <1>8, <1>10, <2>1
  <2>2. CASE s # s0
    BY <1>2, <1>10, <2>2
  <2> QED
    BY <2>1, <2>2
<1> HIDE DEF kept
<1>15. n.emb \in [UNION {ToSet(n.shard[s]) : s \in Sessions} -> Nat]
  BY <1>12, <1>13
<1> QED
  BY <1>11, <1>14, <1>15 DEF ShardsFor, n

\* A finite set of numbers has a greatest one.
LEMMA GreatestOf ==
    ASSUME NEW S, IsFiniteSet(S), S # {}, S \subseteq Nat
    PROVE  Max(S) \in S /\ \A y \in S : y <= Max(S)
<1> DEFINE R == {p \in Nat \X Nat : p[1] < p[2]}
           s == ByRank(RankIn(R, S))
<1>1. \A i, j \in Nat : <<i, j>> \in R <=> i < j
  OBVIOUS
<1>2. IsOrder(R, S)
  <2> HIDE DEF R
  <2> QED
    BY <1>1 DEF IsOrder
<1>3. Enumerates(s, S, R)
  <2> HIDE DEF R
  <2> QED
    BY <1>2, InOrder
<1>4. Cardinality(S) \in Nat /\ Cardinality(S) # 0
  BY FS_CardinalityType, FS_EmptySet
<1>5. PICK m \in S : \A y \in S : y <= m
  <2> HIDE DEF s, R
  <2>1. s \in Seq(S) /\ Len(s) = Cardinality(S) /\ Len(s) \in 1..Len(s) /\ s[Len(s)] \in S
    BY <1>3, <1>4 DEF Enumerates
  <2>2. ASSUME NEW y \in S PROVE y <= s[Len(s)]
    <3>1. PICK k \in 1..Len(s) : s[k] = y
      BY <1>3 DEF Enumerates
    <3>2. k = Len(s) \/ k < Len(s)
      BY <2>1
    <3>3. k < Len(s) => <<y, s[Len(s)]>> \in R
      BY <1>3, <2>1, <3>1 DEF Enumerates
    <3>4. s[Len(s)] \in Nat /\ y \in Nat
      BY <2>1
    <3> QED
      BY <1>1, <3>1, <3>2, <3>3, <3>4
  <2> QED
    BY <2>1, <2>2
<1>6. \E x \in S : \A y \in S : x >= y
  BY <1>5
<1>7. Max(S) = CHOOSE x \in S : \A y \in S : x >= y
  BY DEF Max
<1>8. PICK x \in S : x = Max(S) /\ \A y \in S : x >= y
  BY <1>6, <1>7
<1> QED
  BY <1>8

\* The stamp of a repair.
LEMMA NowIsNat ==
    ASSUME ReadsInv, Times # {}
    PROVE  Now \in Nat
<1> DEFINE S == Times \cup {obj.emb[i] : i \in DOMAIN obj.emb}
<1>1. obj.emb \in [UNION {ToSet(obj.shard[s]) : s \in Sessions} -> Nat]
  BY DEF ReadsInv, ReadsOk, ShardsFor
<1>2. DOMAIN obj.emb \subseteq DOMAIN obj.raw
  <2>1. \A s \in Sessions : ToSet(obj.shard[s]) \subseteq Of(obj.raw, s)
    BY DEF ReadsInv, ReadsOk, ShardsFor
  <2>2. \A s \in Sessions : Of(obj.raw, s) \subseteq DOMAIN obj.raw
    BY DEF Of
  <2> QED
    BY <1>1, <2>1, <2>2
<1>3. IsFiniteSet(DOMAIN obj.emb)
  BY <1>2, FS_Subset DEF ReadsInv, ReadsOk, IsRaw
<1>4. IsFiniteSet({obj.emb[i] : i \in DOMAIN obj.emb})
  <2>1. PICK D, f : D = DOMAIN obj.emb /\ f = obj.emb
    OBVIOUS
  <2>2. IsFiniteSet({f[i] : i \in D})
    <3>1. f \in Surjection(D, {f[i] : i \in D})
      BY <1>1, <2>1 DEF Surjection
    <3> QED
      BY <1>3, <2>1, <3>1, FS_Surjection
  <2> QED
    BY <2>1, <2>2
<1>5. IsFiniteSet(S) /\ S # {} /\ S \subseteq Nat
  BY <1>1, <1>4, FS_Union, ReadsAssumption
<1>6. Max(S) \in Nat
  <2> HIDE DEF S
  <2> QED
    BY <1>5, GreatestOf
<1>7. Now = 1 + Max(S)
  BY DEF Now
<1> HIDE DEF S
<1> QED
  BY <1>6, <1>7

----------------------------------------------------------------------------
(* Commits and repairs. *)

\* The map of the keys, by its values: one node holds a key.
KeysHeld(ops, raw) ==
    /\ \A i, j \in DOMAIN raw : raw[i].key = raw[j].key /\ raw[i].key # NoKey => i = j
    /\ ops \in [KeysOf(raw) -> DOMAIN raw]
    /\ \A k \in KeysOf(raw) : raw[ops[k]].key = k

\* The keys of a consistent store are held that way.
LEMMA KeysByValue ==
    ASSUME NEW o
    PROVE  KeysMatch(o) <=> KeysHeld(o.ops, o.raw)
<1> DEFINE raw == o.raw
           Holder(k) == CHOOSE i \in DOMAIN raw : raw[i].key = k
<1>1. ASSUME NEW k \in KeysOf(raw) PROVE Holder(k) \in DOMAIN raw /\ raw[Holder(k)].key = k /\ k # NoKey
  <2>1. \E i \in DOMAIN raw : raw[i].key = k
    BY DEF KeysOf
  <2> QED
    BY <2>1 DEF KeysOf
<1>2. ASSUME KeysMatch(o) PROVE KeysHeld(o.ops, raw)
  <2>1. o.ops = [k \in KeysOf(raw) |-> Holder(k)]
    BY <1>2 DEF KeysMatch
  <2>2. o.ops \in [KeysOf(raw) -> DOMAIN raw]
    <3> HIDE DEF Holder
    <3> QED
      BY <1>1, <2>1
  <2>3. \A k \in KeysOf(raw) : raw[o.ops[k]].key = k
    <3> HIDE DEF Holder
    <3> QED
      BY <1>1, <2>1
  <2>4. \A i, j \in DOMAIN raw : raw[i].key = raw[j].key /\ raw[i].key # NoKey => i = j
    BY <1>2 DEF KeysMatch
  <2> QED
    BY <2>2, <2>3, <2>4 DEF KeysHeld
<1>3. ASSUME KeysHeld(o.ops, raw) PROVE KeysMatch(o)
  <2>1. \A i, j \in DOMAIN raw : raw[i].key = raw[j].key /\ raw[i].key # NoKey => i = j
    BY <1>3 DEF KeysHeld
  <2>2. o.ops \in [KeysOf(raw) -> DOMAIN raw] /\ \A k \in KeysOf(raw) : raw[o.ops[k]].key = k
    BY <1>3 DEF KeysHeld
  <2>3. ASSUME NEW k \in KeysOf(raw) PROVE o.ops[k] = Holder(k)
    <3>1. o.ops[k] \in DOMAIN raw /\ raw[o.ops[k]].key = k
      BY <2>2
    <3>2. Holder(k) \in DOMAIN raw /\ raw[Holder(k)].key = k /\ k # NoKey
      BY <1>1
    <3> HIDE DEF Holder, raw
    <3> QED
      BY <2>1, <3>1, <3>2
  <2>4. o.ops = [k \in KeysOf(raw) |-> Holder(k)]
    <3> HIDE DEF Holder
    <3> QED
      BY <2>2, <2>3
  <2> QED
    BY <2>1, <2>4 DEF KeysMatch
<1> QED
  BY <1>2, <1>3

\* The store with a new body under its key, before its indexes are written.
WithBody(o, id, node) == [o EXCEPT !.raw = Put(@, id, node),
                                   !.ops = IF node.key = NoKey THEN @ ELSE Put(@, node.key, id)]
Bodied(w, o, id, node) ==
    /\ StoreShape(w) /\ w.session = o.session /\ w.loop = o.loop /\ w.undistilled = o.undistilled
    /\ w.pushed = o.pushed /\ w.timeline = o.timeline /\ w.shard = o.shard /\ w.emb = o.emb
    /\ w.raw = [i \in DOMAIN o.raw \cup {id} |-> IF i = id THEN node ELSE o.raw[i]]
    /\ node.key = NoKey => w.ops = o.ops
    /\ node.key # NoKey =>
          w.ops = [k \in DOMAIN o.ops \cup {node.key} |-> IF k = node.key THEN id ELSE o.ops[k]]

\* A commit is the new body, its indexes, and its embedding.
LEMMA CommitFields ==
    ASSUME NEW o, StoreShape(o), NEW id, NEW node
    PROVE  Bodied(WithBody(o, id, node), o, id, node)
<1>1. PICK p, q, w : /\ p = Put(o.raw, id, node)
                     /\ q = IF node.key = NoKey THEN o.ops ELSE Put(o.ops, node.key, id)
                     /\ w = WithBody(o, id, node)
  OBVIOUS
<1>2. w = [o EXCEPT !.raw = p, !.ops = q]
  BY <1>1 DEF WithBody
<1>3. /\ StoreShape(w) /\ w.session = o.session /\ w.loop = o.loop /\ w.undistilled = o.undistilled
      /\ w.pushed = o.pushed /\ w.timeline = o.timeline /\ w.shard = o.shard /\ w.emb = o.emb
      /\ w.raw = p /\ w.ops = q
  BY <1>2 DEF StoreShape
<1>4. p = [i \in DOMAIN o.raw \cup {id} |-> IF i = id THEN node ELSE o.raw[i]]
  BY <1>1 DEF Put
<1>5. /\ node.key = NoKey => q = o.ops
      /\ node.key # NoKey =>
            q = [k \in DOMAIN o.ops \cup {node.key} |-> IF k = node.key THEN id ELSE o.ops[k]]
  BY <1>1 DEF Put
<1>6. Bodied(w, o, id, node)
  BY <1>3, <1>4, <1>5 DEF Bodied
<1> QED
  BY <1>1, <1>6

\* The same in memory.
Inserted(n, m, id, node) ==
    /\ MemShape(n)
    /\ n.raw = [i \in DOMAIN m.raw \cup {id} |-> IF i = id THEN node ELSE m.raw[i]]
    /\ n.session = [m.session EXCEPT ![Session(node)] = Append(@, id)]
    /\ n.loop = [m.loop EXCEPT ![node.loop] = Append(@, id)]
    /\ node.key = NoKey => n.ops = m.ops
    /\ node.key # NoKey =>
          n.ops = [k \in DOMAIN m.ops \cup {node.key} |-> IF k = node.key THEN id ELSE m.ops[k]]
    /\ n.emb = [i \in DOMAIN m.emb \cup {id} |-> IF i = id THEN Session(node) ELSE m.emb[i]]

\* An insertion in memory writes the body, both lists and the key.
LEMMA InsertFields ==
    ASSUME NEW m, MemShape(m), NEW id, NEW node
    PROVE  Inserted(MemIndex(MemInsert(m, id, node), id), m, id, node)
<1>1. PICK p, q, x, y : /\ p = Put(m.raw, id, node)
                        /\ q = IF node.key = NoKey THEN m.ops ELSE Put(m.ops, node.key, id)
                        /\ x = [m.session EXCEPT ![Session(node)] = Append(@, id)]
                        /\ y = [m.loop EXCEPT ![node.loop] = Append(@, id)]
  OBVIOUS
<1>2. PICK i, n, s : i = MemInsert(m, id, node) /\ n = MemIndex(i, id) /\ s = Session(node)
  OBVIOUS
<1>3. i = [m EXCEPT !.raw = p, !.session = x, !.loop = y, !.ops = q]
  BY <1>1, <1>2 DEF MemInsert
<1>4. i = [raw |-> p, session |-> x, loop |-> y, ops |-> q, emb |-> m.emb]
  BY <1>3 DEF MemShape
<1>5. p = [j \in DOMAIN m.raw \cup {id} |-> IF j = id THEN node ELSE m.raw[j]]
  BY <1>1 DEF Put
<1>6. /\ node.key = NoKey => q = m.ops
      /\ node.key # NoKey =>
            q = [k \in DOMAIN m.ops \cup {node.key} |-> IF k = node.key THEN id ELSE m.ops[k]]
  BY <1>1 DEF Put
<1>7. Session(i.raw[id]) = s
  BY <1>2, <1>4, <1>5
<1>8. PICK e : e = Put(m.emb, id, s)
  OBVIOUS
<1>9. n = [i EXCEPT !.emb = e]
  BY <1>2, <1>4, <1>7, <1>8 DEF MemIndex
<1>10. n = [raw |-> p, session |-> x, loop |-> y, ops |-> q, emb |-> e]
  BY <1>4, <1>9
<1>11. e = [j \in DOMAIN m.emb \cup {id} |-> IF j = id THEN s ELSE m.emb[j]]
  BY <1>8 DEF Put
<1>12. Inserted(n, m, id, node)
  BY <1>1, <1>2, <1>5, <1>6, <1>10, <1>11 DEF MemShape, Inserted
<1> QED
  BY <1>2, <1>12

\* A new element at the end of a sequence without repetitions.
LEMMA AppendDistinct ==
    ASSUME NEW U, NEW T \in SUBSET U, NEW s \in Seq(T), IsInjective(s), NEW x \in U, x \notin ToSet(s)
    PROVE  LET t == Append(s, x)
           IN  /\ t \in Seq(U) /\ IsInjective(t)
               /\ \A y : y \in ToSet(t) <=> y \in ToSet(s) \/ y = x
<1> DEFINE t == Append(s, x)
<1>1. Len(s) \in Nat /\ DOMAIN s = 1..Len(s) /\ s \in Seq(U) /\ \A k \in 1..Len(s) : s[k] # x
  BY DEF ToSet
<1>2. /\ t \in Seq(U) /\ Len(t) = Len(s) + 1 /\ t[Len(s) + 1] = x
      /\ \A k \in 1..Len(s) : t[k] = s[k]
  BY <1>1, AppendProperties
<1> HIDE DEF t
<1>3. DOMAIN t = 1..(Len(s) + 1)
  BY <1>2
<1>4. \A k \in 1..(Len(s) + 1) : k \in 1..Len(s) \/ k = Len(s) + 1
  BY <1>1
<1>5. \A k, l \in 1..(Len(s) + 1) : t[k] = t[l] => k = l
  <2>1. \A k, l \in 1..Len(s) : s[k] = s[l] => k = l
    BY <1>1 DEF IsInjective
  <2> QED
    BY <1>1, <1>2, <1>4, <2>1
<1>6. IsInjective(t)
  BY <1>3, <1>5 DEF IsInjective
<1>7. ToSet(t) = ToSet(s) \cup {x}
  <2>1. ASSUME NEW y \in ToSet(t) PROVE y \in ToSet(s) \cup {x}
    <3>1. PICK k \in 1..(Len(s) + 1) : t[k] = y
      BY <1>3 DEF ToSet
    <3>2. CASE k \in 1..Len(s)
      BY <1>1, <1>2, <3>1, <3>2 DEF ToSet
    <3>3. CASE k = Len(s) + 1
      BY <1>2, <3>1, <3>3
    <3> QED
      BY <1>4, <3>2, <3>3
  <2>2. ASSUME NEW y \in ToSet(s) PROVE y \in ToSet(t)
    <3>1. PICK k \in 1..Len(s) : s[k] = y
      BY <1>1 DEF ToSet
    <3>2. k \in 1..(Len(s) + 1) /\ t[k] = y
      BY <1>1, <1>2, <3>1
    <3> QED
      BY <1>3, <3>2 DEF ToSet
  <2>3. x \in ToSet(t)
    <3>1. Len(s) + 1 \in 1..(Len(s) + 1)
      BY <1>1
    <3> QED
      BY <1>2, <1>3, <3>1 DEF ToSet
  <2> QED
    BY <2>1, <2>2, <2>3
<1> QED
  BY <1>2, <1>6, <1>7 DEF t

\* One more node under a free key, or under none.
LEMMA KeysOfNew ==
    ASSUME NEW o, NEW w, KeysHeld(o.ops, o.raw), NEW id, id \notin DOMAIN o.raw, NEW node,
           node.key = NoKey \/ node.key \notin KeysOf(o.raw),
           w.raw = [i \in DOMAIN o.raw \cup {id} |-> IF i = id THEN node ELSE o.raw[i]],
           node.key = NoKey => w.ops = o.ops,
           node.key # NoKey =>
               w.ops = [k \in DOMAIN o.ops \cup {node.key} |-> IF k = node.key THEN id ELSE o.ops[k]]
    PROVE  KeysHeld(w.ops, w.raw)
<1>1. /\ \A i, j \in DOMAIN o.raw : o.raw[i].key = o.raw[j].key /\ o.raw[i].key # NoKey => i = j
      /\ o.ops \in [KeysOf(o.raw) -> DOMAIN o.raw]
      /\ \A k \in KeysOf(o.raw) : o.raw[o.ops[k]].key = k
  BY DEF KeysHeld
<1>2. /\ DOMAIN w.raw = DOMAIN o.raw \cup {id} /\ w.raw[id] = node
      /\ \A i \in DOMAIN o.raw : w.raw[i] = o.raw[i]
  OBVIOUS
<1>3. \A i \in DOMAIN o.raw : o.raw[i].key # NoKey => o.raw[i].key # node.key
  BY DEF KeysOf
<1>4. \A i, j \in DOMAIN w.raw : w.raw[i].key = w.raw[j].key /\ w.raw[i].key # NoKey => i = j
  BY <1>1, <1>2, <1>3
<1>5. CASE node.key = NoKey
  <2>1. KeysOf(w.raw) = KeysOf(o.raw)
    BY <1>2, <1>5 DEF KeysOf
  <2>2. w.ops \in [KeysOf(w.raw) -> DOMAIN w.raw]
    BY <1>1, <1>2, <1>5, <2>1
  <2>3. \A k \in KeysOf(w.raw) : w.raw[w.ops[k]].key = k
    BY <1>1, <1>2, <1>5, <2>1
  <2> QED
    BY <1>4, <2>2, <2>3 DEF KeysHeld
<1>6. CASE node.key # NoKey
  <2>1. KeysOf(w.raw) = KeysOf(o.raw) \cup {node.key}
    <3>1. ASSUME NEW k \in KeysOf(w.raw) PROVE k \in KeysOf(o.raw) \cup {node.key}
      BY <1>2 DEF KeysOf
    <3>2. ASSUME NEW k \in KeysOf(o.raw) PROVE k \in KeysOf(w.raw)
      BY <1>2 DEF KeysOf
    <3>3. node.key \in KeysOf(w.raw)
      BY <1>2, <1>6 DEF KeysOf
    <3> QED
      BY <3>1, <3>2, <3>3
  <2>2. w.ops = [k \in KeysOf(w.raw) |-> IF k = node.key THEN id ELSE o.ops[k]]
    BY <1>1, <1>6, <2>1
  <2>3. ASSUME NEW k \in KeysOf(w.raw) PROVE w.ops[k] \in DOMAIN w.raw /\ w.raw[w.ops[k]].key = k
    <3>1. CASE k = node.key
      BY <1>2, <2>2, <3>1
    <3>2. CASE k # node.key
      <4>1. k \in KeysOf(o.raw) /\ w.ops[k] = o.ops[k]
        BY <2>1, <2>2, <3>2
      <4>2. o.ops[k] \in DOMAIN o.raw /\ o.raw[o.ops[k]].key = k
        BY <1>1, <4>1
      <4> QED
        BY <1>2, <4>1, <4>2
    <3> QED
      BY <3>1, <3>2
  <2>4. w.ops \in [KeysOf(w.raw) -> DOMAIN w.raw]
    BY <2>2, <2>3
  <2> QED
    BY <1>4, <2>3, <2>4 DEF KeysHeld
<1> QED
  BY <1>5, <1>6

\* The parts of the invariant depend on the fields they name.
LEMMA SameIndexes ==
    ASSUME NEW o, NEW n, n.raw = o.raw, n.session = o.session, n.loop = o.loop,
           n.undistilled = o.undistilled, n.pushed = o.pushed, n.timeline = o.timeline
    PROVE  IndexesMatch(o) => IndexesMatch(n)
BY DEF IndexesMatch

\* The shards do not depend on what else the bodies hold.
LEMMA SameShards ==
    ASSUME NEW o, NEW n, NEW raw, n.shard = o.shard, n.emb = o.emb
    PROVE  ShardsFor(o, raw) => ShardsFor(n, raw)
BY DEF ShardsFor

\* A node of a new id, under a key nobody holds, in both stores.
LEMMA CommitKeeps ==
    ASSUME NEW m, NEW o, ReadsOk(m, o), NEW id \in RawIds, id \notin DOMAIN o.raw, NEW node \in RawNodes,
           node.key = NoKey \/ node.key \notin KeysOf(o.raw)
    PROVE  ReadsOk(MemIndex(MemInsert(m, id, node), id), ObjCommit(o, id, node))
<1>1. /\ StoreShape(o) /\ MemShape(m) /\ IsRaw(o.raw)
      /\ IndexesMatch(o) /\ KeysHeld(o.ops, o.raw) /\ ShardsFor(o, o.raw) /\ MemMatches(m, o)
  BY KeysByValue DEF ReadsOk
<1>2. PICK w : w = WithBody(o, id, node)
  OBVIOUS
<1>3. /\ StoreShape(w) /\ w.session = o.session /\ w.loop = o.loop /\ w.undistilled = o.undistilled
      /\ w.pushed = o.pushed /\ w.timeline = o.timeline /\ w.shard = o.shard /\ w.emb = o.emb
      /\ w.raw = [i \in DOMAIN o.raw \cup {id} |-> IF i = id THEN node ELSE o.raw[i]]
      /\ node.key = NoKey => w.ops = o.ops
      /\ node.key # NoKey =>
            w.ops = [k \in DOMAIN o.ops \cup {node.key} |-> IF k = node.key THEN id ELSE o.ops[k]]
  <2>1. Bodied(w, o, id, node)
    BY <1>1, <1>2, CommitFields
  <2> QED
    BY <2>1 DEF Bodied
<1>4. /\ DOMAIN w.raw = DOMAIN o.raw \cup {id} /\ w.raw[id] = node
      /\ \A i \in DOMAIN o.raw : w.raw[i] = o.raw[i]
  BY <1>3
<1>5. IsRaw(w.raw)
  <2>1. IsFiniteSet(DOMAIN w.raw)
    BY <1>1, <1>4, FS_AddElement DEF IsRaw
  <2>2. \A i \in DOMAIN w.raw : w.raw[i] \in RawNodes
    BY <1>1, <1>4 DEF IsRaw
  <2>3. w.raw \in [DOMAIN w.raw -> RawNodes]
    BY <1>3, <2>2
  <2> QED
    BY <1>1, <1>4, <2>1, <2>3 DEF IsRaw
<1>6. Rewritten(o, w, id)
  BY <1>1, <1>3, <1>4, <1>5 DEF Rewritten
<1>7. PICK n1 : n1 = SyncRawIndexes(w, id)
  OBVIOUS
<1>8. IndexesMatch(n1)
  BY <1>1, <1>6, <1>7, SyncKeepsIndexes
<1>9. StoreShape(n1) /\ n1.raw = w.raw /\ n1.ops = w.ops /\ n1.emb = w.emb /\ n1.shard = w.shard
  <2>1. Synced(n1, w, id)
    BY <1>3, <1>7, SyncFields
  <2> QED
    BY <2>1 DEF Synced
<1>10. PICK n : n = ObjIndex(n1, id, node.ts)
  OBVIOUS
<1>11. n = ObjCommit(o, id, node)
  BY <1>2, <1>7, <1>10 DEF ObjCommit, WithBody
<1>12. PICK s0 \in Sessions : s0 = Session(node)
  BY ReadsAssumption DEF Session, RawNodes
<1>13. /\ StoreShape(n) /\ n.raw = w.raw /\ n.ops = w.ops /\ n.session = n1.session /\ n.loop = n1.loop
       /\ n.undistilled = n1.undistilled /\ n.pushed = n1.pushed /\ n.timeline = n1.timeline
  <2>1. Embedded(n, n1, id, node.ts, Session(n1.raw[id]))
    BY <1>9, <1>10, IndexFields
  <2> QED
    BY <1>9, <2>1 DEF Embedded
<1>14. ShardsFor(n, n.raw)
  <2>1. ShardsFor(n1, o.raw)
    BY <1>1, <1>3, <1>9, SameShards
  <2>2. Of(n1.raw, s0) = Of(o.raw, s0) \cup {id} /\ \A s \in Sessions : s # s0 => Of(n1.raw, s) = Of(o.raw, s)
    BY <1>4, <1>6, <1>9, <1>12, OfWritten
  <2>3. node.ts \in Nat
    BY ReadsAssumption DEF RawNodes
  <2>4. id \in DOMAIN n1.raw /\ s0 = Session(n1.raw[id]) /\ IsRaw(n1.raw)
    BY <1>4, <1>5, <1>9, <1>12
  <2>5. ShardsFor(n, n1.raw)
    BY <1>1, <1>9, <1>10, <2>1, <2>2, <2>3, <2>4, IndexKeepsShards
  <2> QED
    BY <1>9, <1>13, <2>5
<1>15. IndexesMatch(n)
  BY <1>8, <1>9, <1>13, SameIndexes
<1>16. KeysMatch(n)
  <2>1. KeysHeld(w.ops, w.raw)
    BY <1>1, <1>3, KeysOfNew
  <2> QED
    BY <1>13, <2>1, KeysByValue
<1>17. PICK p : p = MemIndex(MemInsert(m, id, node), id)
  OBVIOUS
<1>18. /\ MemShape(p)
       /\ p.raw = [i \in DOMAIN m.raw \cup {id} |-> IF i = id THEN node ELSE m.raw[i]]
       /\ p.session = [m.session EXCEPT ![s0] = Append(@, id)]
       /\ p.loop = [m.loop EXCEPT ![node.loop] = Append(@, id)]
       /\ node.key = NoKey => p.ops = m.ops
       /\ node.key # NoKey =>
             p.ops = [k \in DOMAIN m.ops \cup {node.key} |-> IF k = node.key THEN id ELSE m.ops[k]]
       /\ p.emb = [i \in DOMAIN m.emb \cup {id} |-> IF i = id THEN s0 ELSE m.emb[i]]
  <2>1. Inserted(p, m, id, node)
    BY <1>1, <1>17, InsertFields
  <2> QED
    BY <1>12, <2>1 DEF Inserted
<1>19. /\ m.raw = o.raw /\ m.ops = o.ops
       /\ m.emb = [i \in DOMAIN o.raw |-> Session(o.raw[i])]
       /\ m.session \in [Sessions -> Seq(DOMAIN o.raw)] /\ m.loop \in [Loops -> Seq(DOMAIN o.raw)]
       /\ \A s \in Sessions : IsInjective(m.session[s]) /\ ToSet(m.session[s]) = Of(o.raw, s)
       /\ \A l \in Loops : IsInjective(m.loop[l]) /\ ToSet(m.loop[l]) = OfLoop(o.raw, l)
  BY <1>1 DEF MemMatches
<1>20. p.raw = n.raw /\ p.ops = n.ops
  BY <1>3, <1>13, <1>18, <1>19
<1>21. p.emb = [i \in DOMAIN n.raw |-> Session(n.raw[i])]
  <2>1. ASSUME NEW i \in DOMAIN n.raw
        PROVE  (IF i = id THEN s0 ELSE m.emb[i]) = Session(n.raw[i])
    BY <1>4, <1>12, <1>13, <1>19
  <2>2. DOMAIN m.emb \cup {id} = DOMAIN n.raw
    BY <1>4, <1>13, <1>19
  <2> QED
    BY <1>18, <2>1, <2>2
<1>22. p.session \in [Sessions -> Seq(DOMAIN n.raw)]
       /\ \A s \in Sessions : IsInjective(p.session[s]) /\ ToSet(p.session[s]) = Of(n.raw, s)
  <2>1. ASSUME NEW s \in Sessions
        PROVE  /\ p.session[s] \in Seq(DOMAIN n.raw) /\ IsInjective(p.session[s])
               /\ ToSet(p.session[s]) = Of(n.raw, s)
    <3>1. m.session[s] \in Seq(DOMAIN o.raw) /\ IsInjective(m.session[s]) /\ ToSet(m.session[s]) = Of(o.raw, s)
      BY <1>19
    <3>2. id \notin ToSet(m.session[s])
      BY <3>1 DEF Of
    <3>3. DOMAIN o.raw \subseteq DOMAIN n.raw /\ id \in DOMAIN n.raw
      BY <1>4, <1>13
    <3>4. CASE s = s0
      <4>1. p.session[s] = Append(m.session[s], id)
        BY <1>18, <1>19, <3>4
      <4>2. Of(n.raw, s) = Of(o.raw, s) \cup {id}
        BY <1>4, <1>6, <1>12, <1>13, <3>4, OfWritten
      <4>3. p.session[s] \in Seq(DOMAIN n.raw) /\ IsInjective(p.session[s])
            /\ ToSet(p.session[s]) = ToSet(m.session[s]) \cup {id}
        <5>1. PICK T, U, a, b : T = DOMAIN o.raw /\ U = DOMAIN n.raw /\ a = m.session[s] /\ b = p.session[s]
          OBVIOUS
        <5>2. T \in SUBSET U /\ a \in Seq(T) /\ IsInjective(a) /\ id \notin ToSet(a) /\ id \in U /\ b = Append(a, id)
          BY <3>1, <3>2, <3>3, <4>1, <5>1
        <5>3. b \in Seq(U) /\ IsInjective(b) /\ \A y : y \in ToSet(b) <=> y \in ToSet(a) \/ y = id
          BY <5>2, AppendDistinct
        <5>4. ToSet(b) = ToSet(a) \cup {id}
          BY <5>3
        <5> QED
          BY <5>1, <5>3, <5>4
      <4> QED
        BY <3>1, <4>2, <4>3
    <3>5. CASE s # s0
      <4>1. p.session[s] = m.session[s]
        BY <1>18, <1>19, <3>5
      <4>2. Of(n.raw, s) = Of(o.raw, s)
        BY <1>4, <1>6, <1>12, <1>13, <3>5, OfWritten
      <4>3. m.session[s] \in Seq(DOMAIN n.raw)
        BY <3>1, <3>3
      <4> QED
        BY <3>1, <4>1, <4>2, <4>3
    <3> QED
      BY <3>4, <3>5
  <2>2. p.session = [s \in Sessions |-> p.session[s]]
    BY <1>18, <1>19
  <2> QED
    BY <2>1, <2>2
<1>23. p.loop \in [Loops -> Seq(DOMAIN n.raw)]
       /\ \A l \in Loops : IsInjective(p.loop[l]) /\ ToSet(p.loop[l]) = OfLoop(n.raw, l)
  <2>1. ASSUME NEW l \in Loops
        PROVE  /\ p.loop[l] \in Seq(DOMAIN n.raw) /\ IsInjective(p.loop[l])
               /\ ToSet(p.loop[l]) = OfLoop(n.raw, l)
    <3>1. m.loop[l] \in Seq(DOMAIN o.raw) /\ IsInjective(m.loop[l]) /\ ToSet(m.loop[l]) = OfLoop(o.raw, l)
      BY <1>19
    <3>2. id \notin ToSet(m.loop[l])
      BY <3>1 DEF OfLoop
    <3>3. DOMAIN o.raw \subseteq DOMAIN n.raw /\ id \in DOMAIN n.raw
      BY <1>4, <1>13
    <3>4. CASE l = node.loop
      <4>1. p.loop[l] = Append(m.loop[l], id)
        BY <1>18, <1>19, <3>4
      <4>2. OfLoop(n.raw, l) = OfLoop(o.raw, l) \cup {id}
        BY <1>4, <1>6, <1>13, <3>4, OfWritten
      <4>3. p.loop[l] \in Seq(DOMAIN n.raw) /\ IsInjective(p.loop[l])
            /\ ToSet(p.loop[l]) = ToSet(m.loop[l]) \cup {id}
        <5>1. PICK T, U, a, b : T = DOMAIN o.raw /\ U = DOMAIN n.raw /\ a = m.loop[l] /\ b = p.loop[l]
          OBVIOUS
        <5>2. T \in SUBSET U /\ a \in Seq(T) /\ IsInjective(a) /\ id \notin ToSet(a) /\ id \in U /\ b = Append(a, id)
          BY <3>1, <3>2, <3>3, <4>1, <5>1
        <5>3. b \in Seq(U) /\ IsInjective(b) /\ \A y : y \in ToSet(b) <=> y \in ToSet(a) \/ y = id
          BY <5>2, AppendDistinct
        <5>4. ToSet(b) = ToSet(a) \cup {id}
          BY <5>3
        <5> QED
          BY <5>1, <5>3, <5>4
      <4> QED
        BY <3>1, <4>2, <4>3
    <3>5. CASE l # node.loop
      <4>1. p.loop[l] = m.loop[l]
        BY <1>18, <1>19, <3>5
      <4>2. OfLoop(n.raw, l) = OfLoop(o.raw, l)
        BY <1>4, <1>6, <1>13, <3>5, OfWritten
      <4>3. m.loop[l] \in Seq(DOMAIN n.raw)
        BY <3>1, <3>3
      <4> QED
        BY <3>1, <4>1, <4>2, <4>3
    <3> QED
      BY <3>4, <3>5
  <2>2. p.loop = [l \in Loops |-> p.loop[l]]
    BY <1>18, <1>19
  <2> QED
    BY <2>1, <2>2
<1>24. MemMatches(p, n)
  BY <1>20, <1>21, <1>22, <1>23 DEF MemMatches
<1>25. IsRaw(n.raw)
  BY <1>5, <1>13
<1> QED
  BY <1>11, <1>13, <1>14, <1>15, <1>16, <1>17, <1>18, <1>24, <1>25 DEF ReadsOk

\* The embedding of a node that is there already, stored again.
LEMMA RepairKeeps ==
    ASSUME NEW m, NEW o, ReadsOk(m, o), NEW id \in DOMAIN o.raw, NEW stamp \in Nat
    PROVE  ReadsOk(MemIndex(m, id), ObjIndex(o, id, stamp))
<1>1. /\ StoreShape(o) /\ MemShape(m) /\ IsRaw(o.raw)
      /\ IndexesMatch(o) /\ KeysMatch(o) /\ ShardsFor(o, o.raw) /\ MemMatches(m, o)
  BY DEF ReadsOk
<1>2. PICK s0 \in Sessions : s0 = Session(o.raw[id])
  BY <1>1, ReadsAssumption DEF Session, IsRaw, RawNodes
<1>3. PICK n : n = ObjIndex(o, id, stamp)
  OBVIOUS
<1>4. /\ StoreShape(n) /\ n.raw = o.raw /\ n.ops = o.ops /\ n.session = o.session /\ n.loop = o.loop
      /\ n.undistilled = o.undistilled /\ n.pushed = o.pushed /\ n.timeline = o.timeline
  <2>1. Embedded(n, o, id, stamp, Session(o.raw[id]))
    BY <1>1, <1>3, IndexFields
  <2> QED
    BY <2>1 DEF Embedded
<1>5. ShardsFor(n, n.raw)
  <2>1. Of(o.raw, s0) = Of(o.raw, s0) \cup {id}
    BY <1>2 DEF Of
  <2>2. ShardsFor(n, o.raw)
    BY <1>1, <1>2, <1>3, <2>1, IndexKeepsShards
  <2> QED
    BY <1>4, <2>2
<1>6. IndexesMatch(n)
  BY <1>1, <1>4, SameIndexes
<1>7. KeysMatch(n)
  BY <1>1, <1>4 DEF KeysMatch
<1>8. MemIndex(m, id) = m
  <2>1. m.emb = [i \in DOMAIN o.raw |-> Session(o.raw[i])] /\ m.raw = o.raw
    BY <1>1 DEF MemMatches
  <2>2. Put(m.emb, id, Session(m.raw[id])) = m.emb
    <3>1. DOMAIN m.emb \cup {id} = DOMAIN m.emb
      BY <2>1
    <3>2. \A i \in DOMAIN m.emb : (IF i = id THEN Session(m.raw[id]) ELSE m.emb[i]) = m.emb[i]
      BY <2>1
    <3> QED
      BY <2>1, <3>1, <3>2 DEF Put
  <2>3. [m EXCEPT !.emb = m.emb] = m
    BY <1>1 DEF MemShape
  <2> QED
    BY <2>2, <2>3 DEF MemIndex
<1>9. MemMatches(m, n)
  BY <1>1, <1>4 DEF MemMatches
<1> QED
  BY <1>1, <1>3, <1>4, <1>5, <1>6, <1>7, <1>8, <1>9 DEF ReadsOk

\* A finite set of numbers as a sequence: each element once.
LEMMA ListedOnce ==
    ASSUME NEW S \in SUBSET Nat, IsFiniteSet(S)
    PROVE  LET f == SetToSeq(S)
           IN  /\ f \in Seq(S) /\ IsInjective(f) /\ Len(f) \in Nat
               /\ \A i \in S : \E k \in 1..Len(f) : f[k] = i
<1> DEFINE R == {p \in Nat \X Nat : p[1] < p[2]}
           s == ByRank(RankIn(R, S))
           n == Cardinality(S)
<1>1. \A i, j \in Nat : <<i, j>> \in R <=> i < j
  OBVIOUS
<1>2. IsOrder(R, S)
  <2> HIDE DEF R
  <2> QED
    BY <1>1 DEF IsOrder
<1>3. Enumerates(s, S, R)
  <2> HIDE DEF R
  <2> QED
    BY <1>2, InOrder
<1>4. n \in Nat
  BY FS_CardinalityType
<1>5. \E f \in [1..n -> S] : IsInjective(f)
  <2> HIDE DEF s, R
  <2>1. s \in Seq(S) /\ Len(s) = n /\ \A k, l \in 1..n : s[k] = s[l] => k = l
    BY <1>3 DEF Enumerates
  <2>2. s \in [1..n -> S]
    BY <2>1
  <2>3. IsInjective(s)
    BY <2>1, <2>2 DEF IsInjective
  <2> QED
    BY <2>2, <2>3
<1>6. PICK f : f = SetToSeq(S)
  OBVIOUS
<1>7. f \in [1..n -> S] /\ IsInjective(f)
  BY <1>5, <1>6 DEF SetToSeq
<1>8. f \in Seq(S) /\ Len(f) = n
  BY <1>4, <1>7
<1>9. f \in Injection(1..n, S)
  BY <1>7 DEF Injection, IsInjective
<1>10. f \in Surjection(1..n, S)
  <2>1. IsFiniteSet(1..n) /\ Cardinality(1..n) = n
    BY <1>4, IntervalSize
  <2> QED
    BY <1>9, <2>1, FS_Injection
<1>11. \A i \in S : \E k \in 1..n : f[k] = i
  BY <1>10 DEF Surjection
<1> QED
  BY <1>4, <1>6, <1>7, <1>8, <1>11

----------------------------------------------------------------------------
(* Updates patch one node after the other. *)

\* One id of a lifecycle update after the other.
LifecycleStep(o, id, p) == SyncRawIndexes([o EXCEPT !.raw[id] = Patched(@, p)], id)
IsUpdate(g, n, o, order, p) ==
    g = [k \in 0..n |-> IF k = 0 THEN o ELSE LifecycleStep(g[k - 1], order[k], p)]

\* The states of an update exist for every number of nodes.
LEMMA UpdateExists ==
    ASSUME NEW o, NEW order, NEW p, NEW n \in Nat
    PROVE  \E g : IsUpdate(g, n, o, order, p)
<1> DEFINE Bad == {m \in Nat : ~\E g : IsUpdate(g, m, o, order, p)}
<1>1. SUFFICES ASSUME Bad # {} PROVE FALSE
  OBVIOUS
<1>2. PICK m \in Bad : \A k \in Bad : m <= k
  <2>1. Bad \in SUBSET Nat
    OBVIOUS
  <2> HIDE DEF Bad
  <2> QED
    BY <1>1, <2>1, LeastNat
<1>3. m # 0
  <2> DEFINE g == [k \in 0..0 |-> o]
  <2>1. \A k \in 0..0 : g[k] = IF k = 0 THEN o ELSE LifecycleStep(g[k - 1], order[k], p)
    OBVIOUS
  <2>2. IsUpdate(g, 0, o, order, p)
    BY <2>1 DEF IsUpdate
  <2> QED
    BY <2>2
<1>4. PICK g : IsUpdate(g, m - 1, o, order, p)
  BY <1>2, <1>3
<1> DEFINE h == [k \in 0..m |-> IF k = m THEN LifecycleStep(g[m - 1], order[m], p) ELSE g[k]]
<1>5. ASSUME NEW k \in 0..m PROVE h[k] = IF k = 0 THEN o ELSE LifecycleStep(h[k - 1], order[k], p)
  <2>1. CASE k < m
    <3>1. g[k] = IF k = 0 THEN o ELSE LifecycleStep(g[k - 1], order[k], p)
      BY <1>3, <1>4, <2>1 DEF IsUpdate
    <3>2. h[k] = g[k] /\ (k # 0 => h[k - 1] = g[k - 1])
      BY <2>1
    <3> QED
      BY <3>1, <3>2
  <2>2. CASE k = m
    BY <1>3, <2>2
  <2> QED
    BY <2>1, <2>2
<1>6. IsUpdate(h, m, o, order, p)
  <2>1. h = [k \in 0..m |-> h[k]]
    OBVIOUS
  <2> HIDE DEF h
  <2> QED
    BY <1>5, <2>1 DEF IsUpdate
<1> QED
  BY <1>6

\* The update is the last of such a sequence of stores.
LEMMA UpdateUnfold ==
    ASSUME NEW o, NEW ids, NEW p, NEW order, order = SetToSeq(ids \cap DOMAIN o.raw), Len(order) \in Nat
    PROVE  \E g : IsUpdate(g, Len(order), o, order, p) /\ ObjUpdate(o, ids, p) = g[Len(order)]
<1>1. \E g : IsUpdate(g, Len(order), o, order, p)
  BY UpdateExists
<1>2. PICK h : h = CHOOSE g : IsUpdate(g, Len(order), o, order, p)
  OBVIOUS
<1>3. IsUpdate(h, Len(order), o, order, p)
  BY <1>1, <1>2
<1>4. ObjUpdate(o, ids, p) = h[Len(order)]
  BY <1>2 DEF ObjUpdate, IsUpdate, LifecycleStep
<1> QED
  BY <1>3, <1>4

\* A patch keeps what a node was inserted with.
LEMMA PatchedIs ==
    ASSUME NEW node \in RawNodes, NEW p \in Patches
    PROVE  /\ Patched(node, p) \in RawNodes /\ Patched(node, p).loop = node.loop
           /\ Patched(node, p).ts = node.ts /\ Patched(node, p).key = node.key
<1>1. p.distilled \in BOOLEAN /\ p.pushed \in BOOLEAN
  <2>1. CASE p \in [distilled : {TRUE}, pushed : {TRUE, FALSE}]
    <3>1. p.distilled \in {TRUE} /\ p.pushed \in {TRUE, FALSE}
      BY <2>1
    <3> QED
      BY <3>1
  <2>2. CASE p \in {[distilled |-> FALSE, pushed |-> TRUE]}
    <3>1. p = [distilled |-> FALSE, pushed |-> TRUE]
      BY <2>2
    <3>2. p.distilled = FALSE /\ p.pushed = TRUE
      BY <3>1
    <3> QED
      BY <3>2
  <2> QED
    BY <2>1, <2>2 DEF Patches
<1> QED
  BY <1>1 DEF Patched, RawNodes

\* The store x: the nodes of done patched in the store o, their indexes in step.
Lifecycled(x, o, done, p) ==
    /\ StoreShape(x) /\ IsRaw(x.raw) /\ IndexesMatch(x)
    /\ x.ops = o.ops /\ x.shard = o.shard /\ x.emb = o.emb
    /\ x.raw = [i \in DOMAIN o.raw |-> IF i \in done THEN Patched(o.raw[i], p) ELSE o.raw[i]]

\* The next node of the update is patched, and its indexes follow.
LEMMA LifecycleStepKeeps ==
    ASSUME NEW o, IsRaw(o.raw), NEW x, NEW done, NEW p \in Patches, Lifecycled(x, o, done, p),
           NEW id \in DOMAIN o.raw, id \notin done, NEW more, more = done \cup {id}
    PROVE  Lifecycled(LifecycleStep(x, id, p), o, more, p)
<1>1. /\ StoreShape(x) /\ IsRaw(x.raw) /\ IndexesMatch(x)
      /\ x.ops = o.ops /\ x.shard = o.shard /\ x.emb = o.emb
      /\ x.raw = [i \in DOMAIN o.raw |-> IF i \in done THEN Patched(o.raw[i], p) ELSE o.raw[i]]
  BY DEF Lifecycled
<1>2. PICK w, n : w = [x EXCEPT !.raw[id] = Patched(@, p)] /\ n = SyncRawIndexes(w, id)
  OBVIOUS
<1>3. /\ StoreShape(w) /\ w.session = x.session /\ w.loop = x.loop /\ w.undistilled = x.undistilled
      /\ w.pushed = x.pushed /\ w.timeline = x.timeline /\ w.ops = x.ops /\ w.shard = x.shard
      /\ w.emb = x.emb /\ w.raw = [x.raw EXCEPT ![id] = Patched(@, p)]
  BY <1>1, <1>2 DEF StoreShape
<1>4. w.raw = [i \in DOMAIN o.raw |-> IF i \in more THEN Patched(o.raw[i], p) ELSE o.raw[i]]
  <2>1. DOMAIN w.raw = DOMAIN o.raw /\ w.raw = [i \in DOMAIN o.raw |-> w.raw[i]]
    BY <1>1, <1>3
  <2>2. ASSUME NEW i \in DOMAIN o.raw
        PROVE  w.raw[i] = IF i \in more THEN Patched(o.raw[i], p) ELSE o.raw[i]
    <3>1. CASE i = id
      <4>1. x.raw[id] = o.raw[id] /\ w.raw[id] = Patched(x.raw[id], p)
        BY <1>1, <1>3
      <4> QED
        BY <3>1, <4>1
    <3>2. CASE i # id
      <4>1. w.raw[i] = x.raw[i]
        BY <1>1, <1>3, <3>2
      <4> QED
        BY <1>1, <3>2, <4>1
    <3> QED
      BY <3>1, <3>2
  <2> QED
    BY <2>1, <2>2
<1>5. \A i \in DOMAIN o.raw : /\ Patched(o.raw[i], p) \in RawNodes /\ Patched(o.raw[i], p).loop = o.raw[i].loop
                              /\ Patched(o.raw[i], p).ts = o.raw[i].ts
  BY PatchedIs DEF IsRaw
<1>6. IsRaw(w.raw)
  <2>1. \A i \in DOMAIN o.raw : w.raw[i] \in RawNodes
    BY <1>4, <1>5 DEF IsRaw
  <2>2. DOMAIN w.raw = DOMAIN o.raw /\ w.raw \in [DOMAIN w.raw -> RawNodes]
    BY <1>4, <2>1
  <2> QED
    BY <2>2 DEF IsRaw
<1>7. Rewritten(x, w, id)
  <2>1. DOMAIN w.raw = DOMAIN x.raw \cup {id}
    BY <1>1, <1>4
  <2>2. \A i \in DOMAIN x.raw : i # id => w.raw[i] = x.raw[i]
    BY <1>1, <1>3
  <2>3. w.raw[id].loop = x.raw[id].loop /\ w.raw[id].ts = x.raw[id].ts
    <3>1. w.raw[id] = Patched(o.raw[id], p) /\ x.raw[id] = o.raw[id]
      BY <1>1, <1>4
    <3> QED
      BY <1>5, <3>1
  <2> QED
    BY <1>1, <1>3, <1>6, <2>1, <2>2, <2>3 DEF Rewritten
<1>8. IndexesMatch(n)
  BY <1>1, <1>2, <1>7, SyncKeepsIndexes
<1>9. StoreShape(n) /\ n.raw = w.raw /\ n.ops = w.ops /\ n.emb = w.emb /\ n.shard = w.shard
  <2>1. Synced(n, w, id)
    BY <1>2, <1>3, SyncFields
  <2> QED
    BY <2>1 DEF Synced
<1>10. Lifecycled(n, o, more, p)
  BY <1>1, <1>3, <1>4, <1>6, <1>8, <1>9 DEF Lifecycled
<1> QED
  BY <1>2, <1>10 DEF LifecycleStep

\* A whole update.
LEMMA UpdateIs ==
    ASSUME NEW o, StoreShape(o), IsRaw(o.raw), IndexesMatch(o), NEW p \in Patches, NEW ids
    PROVE  Lifecycled(ObjUpdate(o, ids, p), o, ids, p)
<1> DEFINE S == ids \cap DOMAIN o.raw
<1>1. S \in SUBSET Nat /\ IsFiniteSet(S)
  BY FS_Subset, ReadsAssumption DEF IsRaw
<1>2. PICK order : order = SetToSeq(S)
  OBVIOUS
<1>3. PICK n \in Nat : n = Len(order)
  <2> HIDE DEF S
  <2> QED
    BY <1>1, <1>2, ListedOnce
<1>4. /\ \A k \in 1..n : order[k] \in S
      /\ \A k, l \in 1..n : order[k] = order[l] => k = l
      /\ \A i \in S : \E k \in 1..n : order[k] = i
  <2> HIDE DEF S
  <2>1. order \in Seq(S) /\ IsInjective(order) /\ \A i \in S : \E k \in 1..n : order[k] = i
    BY <1>1, <1>2, <1>3, ListedOnce
  <2> QED
    BY <1>3, <2>1 DEF IsInjective
<1>5. PICK g : IsUpdate(g, n, o, order, p) /\ ObjUpdate(o, ids, p) = g[n]
  BY <1>2, <1>3, UpdateUnfold
<1>6. \A k \in 0..n : g[k] = IF k = 0 THEN o ELSE LifecycleStep(g[k - 1], order[k], p)
  BY <1>5 DEF IsUpdate
<1> DEFINE Done(k) == {order[j] : j \in 1..k}
           Bad == {k \in 0..n : ~Lifecycled(g[k], o, Done(k), p)}
<1>7. Bad = {}
  <2>1. SUFFICES ASSUME Bad # {} PROVE FALSE
    OBVIOUS
  <2>2. PICK m \in Bad : \A k \in Bad : m <= k
    <3>1. Bad \in SUBSET Nat
      OBVIOUS
    <3> HIDE DEF Bad
    <3> QED
      BY <2>1, <3>1, LeastNat
  <2>3. m \in 0..n /\ ~Lifecycled(g[m], o, Done(m), p)
    BY <2>2
  <2>4. m # 0
    <3>1. g[0] = o
      BY <1>6
    <3>2. Done(0) = {}
      OBVIOUS
    <3>3. PICK none : none = {}
      OBVIOUS
    <3>4. o.raw = [i \in DOMAIN o.raw |-> IF i \in none THEN Patched(o.raw[i], p) ELSE o.raw[i]]
      <4>1. o.raw = [i \in DOMAIN o.raw |-> o.raw[i]]
        BY DEF IsRaw
      <4> QED
        BY <3>3, <4>1
    <3>5. Lifecycled(o, o, none, p)
      BY <3>4 DEF Lifecycled
    <3> HIDE DEF Done
    <3> QED
      BY <2>3, <3>1, <3>2, <3>3, <3>5
  <2>5. m - 1 \in 0..n /\ m \in 1..n /\ ~(m <= m - 1)
    BY <2>3, <2>4
  <2>6. Lifecycled(g[m - 1], o, Done(m - 1), p)
    BY <2>2, <2>5
  <2>7. PICK id, done, more : id = order[m] /\ done = Done(m - 1) /\ more = Done(m)
    OBVIOUS
  <2>8. id \in DOMAIN o.raw
    BY <1>4, <2>5, <2>7
  <2>9. id \notin done
    <3>1. ASSUME NEW j \in 1..(m - 1), order[j] = order[m] PROVE FALSE
      <4>1. j \in 1..n /\ j # m
        BY <2>5
      <4> QED
        BY <1>4, <2>5, <3>1, <4>1
    <3> QED
      BY <2>7, <3>1
  <2>10. more = done \cup {id}
    <3>1. \A j \in 1..m : j \in 1..(m - 1) \/ j = m
      BY <2>5
    <3>2. \A j \in 1..(m - 1) : j \in 1..m
      BY <2>5
    <3> QED
      BY <2>5, <2>7, <3>1, <3>2
  <2>11. PICK x : x = g[m - 1]
    OBVIOUS
  <2>12. Lifecycled(x, o, done, p)
    BY <2>6, <2>7, <2>11
  <2>13. Lifecycled(LifecycleStep(x, id, p), o, more, p)
    BY <2>8, <2>9, <2>10, <2>12, LifecycleStepKeeps
  <2>14. g[m] = LifecycleStep(x, id, p)
    BY <1>6, <2>4, <2>5, <2>7, <2>11
  <2> HIDE DEF Done
  <2> QED
    BY <2>3, <2>7, <2>13, <2>14
<1>8. n \in 0..n
  OBVIOUS
<1>9. Lifecycled(g[n], o, Done(n), p)
  BY <1>7, <1>8
<1>10. \A i \in DOMAIN o.raw : i \in Done(n) <=> i \in ids
  BY <1>4
<1>11. PICK x, done : x = g[n] /\ done = Done(n)
  OBVIOUS
<1> HIDE DEF Done
<1>12. Lifecycled(x, o, done, p)
  BY <1>9, <1>11
<1>13. x.raw = [i \in DOMAIN o.raw |-> IF i \in done THEN Patched(o.raw[i], p) ELSE o.raw[i]]
  BY <1>12 DEF Lifecycled
<1>14. x.raw = [i \in DOMAIN o.raw |-> IF i \in ids THEN Patched(o.raw[i], p) ELSE o.raw[i]]
  BY <1>10, <1>11, <1>13
<1>15. Lifecycled(x, o, ids, p)
  BY <1>12, <1>14 DEF Lifecycled
<1> QED
  BY <1>5, <1>11, <1>15

\* The update of both stores.
LEMMA UpdateKeeps ==
    ASSUME NEW m, NEW o, ReadsOk(m, o), NEW p \in Patches, NEW ids
    PROVE  ReadsOk(MemUpdate(m, ids, p), ObjUpdate(o, ids, p))
<1>1. /\ StoreShape(o) /\ MemShape(m) /\ IsRaw(o.raw)
      /\ IndexesMatch(o) /\ KeysHeld(o.ops, o.raw) /\ ShardsFor(o, o.raw) /\ MemMatches(m, o)
  BY KeysByValue DEF ReadsOk
<1>2. PICK n, q : n = ObjUpdate(o, ids, p) /\ q = MemUpdate(m, ids, p)
  OBVIOUS
<1>3. /\ StoreShape(n) /\ IsRaw(n.raw) /\ IndexesMatch(n)
      /\ n.ops = o.ops /\ n.shard = o.shard /\ n.emb = o.emb
      /\ n.raw = [i \in DOMAIN o.raw |-> IF i \in ids THEN Patched(o.raw[i], p) ELSE o.raw[i]]
  <2>1. Lifecycled(n, o, ids, p)
    BY <1>1, <1>2, UpdateIs
  <2> QED
    BY <2>1 DEF Lifecycled
<1>4. DOMAIN n.raw = DOMAIN o.raw
      /\ \A i \in DOMAIN o.raw : n.raw[i].loop = o.raw[i].loop /\ n.raw[i].key = o.raw[i].key
  <2>1. \A i \in DOMAIN o.raw : o.raw[i] \in RawNodes
    BY <1>1 DEF IsRaw
  <2>2. \A i \in DOMAIN o.raw : Patched(o.raw[i], p).loop = o.raw[i].loop /\ Patched(o.raw[i], p).key = o.raw[i].key
    BY <2>1, PatchedIs
  <2> QED
    BY <1>3, <2>2
<1>5. \A s : Of(n.raw, s) = Of(o.raw, s)
  BY <1>4 DEF Of, Session
<1>6. \A l : OfLoop(n.raw, l) = OfLoop(o.raw, l)
  BY <1>4 DEF OfLoop
<1>7. KeysMatch(n)
  <2>1. KeysOf(n.raw) = KeysOf(o.raw)
    BY <1>4 DEF KeysOf
  <2>2. KeysHeld(n.ops, n.raw)
    <3>1. /\ \A i, j \in DOMAIN o.raw : o.raw[i].key = o.raw[j].key /\ o.raw[i].key # NoKey => i = j
          /\ o.ops \in [KeysOf(o.raw) -> DOMAIN o.raw]
          /\ \A k \in KeysOf(o.raw) : o.raw[o.ops[k]].key = k
      BY <1>1 DEF KeysHeld
    <3>2. \A i, j \in DOMAIN n.raw : n.raw[i].key = n.raw[j].key /\ n.raw[i].key # NoKey => i = j
      BY <1>4, <3>1
    <3>3. n.ops \in [KeysOf(n.raw) -> DOMAIN n.raw] /\ \A k \in KeysOf(n.raw) : n.raw[n.ops[k]].key = k
      BY ZenonT(60), <1>3, <1>4, <2>1, <3>1
    <3> QED
      BY <3>2, <3>3 DEF KeysHeld
  <2> QED
    BY <2>2, KeysByValue
<1>8. ShardsFor(n, n.raw)
  <2>1. ShardsFor(n, o.raw)
    BY <1>1, <1>3, SameShards
  <2>2. /\ n.shard \in [Sessions -> Seq(RawIds)]
        /\ n.emb \in [UNION {ToSet(n.shard[s]) : s \in Sessions} -> Nat]
    BY <2>1 DEF ShardsFor
  <2>3. ASSUME NEW s \in Sessions
        PROVE  /\ IsInjective(n.shard[s]) /\ ToSet(n.shard[s]) \subseteq Of(n.raw, s)
               /\ Len(n.shard[s]) = Least(ShardCap, Cardinality(Of(n.raw, s)))
    <3>1. /\ IsInjective(n.shard[s]) /\ ToSet(n.shard[s]) \subseteq Of(o.raw, s)
          /\ Len(n.shard[s]) = Least(ShardCap, Cardinality(Of(o.raw, s)))
      BY <2>1 DEF ShardsFor
    <3>2. Of(n.raw, s) = Of(o.raw, s)
      BY <1>5
    <3> QED
      BY <3>1, <3>2
  <2> QED
    BY <2>2, <2>3 DEF ShardsFor
<1>9. /\ m.raw = o.raw /\ m.ops = o.ops
      /\ m.emb = [i \in DOMAIN o.raw |-> Session(o.raw[i])]
      /\ m.session \in [Sessions -> Seq(DOMAIN o.raw)] /\ m.loop \in [Loops -> Seq(DOMAIN o.raw)]
      /\ \A s \in Sessions : IsInjective(m.session[s]) /\ ToSet(m.session[s]) = Of(o.raw, s)
      /\ \A l \in Loops : IsInjective(m.loop[l]) /\ ToSet(m.loop[l]) = OfLoop(o.raw, l)
  BY <1>1 DEF MemMatches
<1>10. /\ MemShape(q) /\ q.session = m.session /\ q.loop = m.loop /\ q.ops = m.ops /\ q.emb = m.emb
       /\ q.raw = [i \in DOMAIN m.raw |-> IF i \in ids THEN Patched(m.raw[i], p) ELSE m.raw[i]]
  BY <1>1, <1>2 DEF MemShape, MemUpdate
<1>11. q.raw = n.raw
  BY <1>3, <1>9, <1>10
<1>12. q.emb = [i \in DOMAIN n.raw |-> Session(n.raw[i])]
  <2>1. \A i \in DOMAIN o.raw : Session(n.raw[i]) = Session(o.raw[i])
    BY <1>4 DEF Session
  <2> QED
    BY <1>4, <1>9, <1>10, <2>1
<1>13. MemMatches(q, n)
  BY <1>3, <1>4, <1>5, <1>6, <1>9, <1>10, <1>11, <1>12 DEF MemMatches
<1> QED
  BY <1>2, <1>3, <1>7, <1>8, <1>10, <1>13 DEF ReadsOk

\* A rebuilt embedding shard lists the same ids, by their stamps.
LEMMA RebuiltShardIs ==
    ASSUME NEW o, IsRaw(o.raw), ShardsFor(o, o.raw), NEW s \in Sessions
    PROVE  LET r == RebuiltShard(o, s)
           IN  /\ r \in Seq(RawIds) /\ IsInjective(r) /\ ToSet(r) = ToSet(o.shard[s])
               /\ Len(r) = Len(o.shard[s]) /\ Newest(r, ShardCap) = r
<1> DEFINE ids == {i \in DOMAIN o.emb : Session(o.raw[i]) = s}
           Sooner(i, j) == o.emb[i] < o.emb[j] \/ (o.emb[i] = o.emb[j] /\ i < j)
           R == {p \in ids \X ids : Sooner(p[1], p[2])}
           r == RebuiltShard(o, s)
<1>1. /\ o.shard[s] \in Seq(RawIds) /\ IsInjective(o.shard[s])
      /\ Len(o.shard[s]) = Least(ShardCap, Cardinality(Of(o.raw, s)))
      /\ o.emb \in [UNION {ToSet(o.shard[t]) : t \in Sessions} -> Nat]
      /\ \A t \in Sessions : ToSet(o.shard[t]) \subseteq Of(o.raw, t)
  BY DEF ShardsFor
<1>2. ids = ToSet(o.shard[s])
  <2>1. \A t \in Sessions : t # Everywhere
    BY ReadsAssumption
  <2>2. \A t \in Sessions : \A i \in Of(o.raw, t) : Session(o.raw[i]) = t
    BY <2>1 DEF Of
  <2>3. \A t \in Sessions : \A i \in ToSet(o.shard[t]) : Session(o.raw[i]) = t
    BY <1>1, <2>2
  <2>4. DOMAIN o.emb = UNION {ToSet(o.shard[t]) : t \in Sessions}
    BY <1>1
  <2>5. ASSUME NEW i \in ids PROVE i \in ToSet(o.shard[s])
    <3>1. PICK t \in Sessions : i \in ToSet(o.shard[t])
      BY <2>4
    <3> QED
      BY <2>3, <3>1
  <2>6. ASSUME NEW i \in ToSet(o.shard[s]) PROVE i \in ids
    BY <2>3, <2>4
  <2> HIDE DEF ids
  <2> QED
    BY <2>5, <2>6
<1>3. IsFiniteSet(ids) /\ Cardinality(ids) = Len(o.shard[s]) /\ Len(o.shard[s]) \in Nat
  BY <1>1, <1>2, DistinctSize
<1>4. \A i \in ids : i \in Nat /\ i \in RawIds /\ o.emb[i] \in Nat
  <2>1. \A i \in ids : i \in RawIds
    BY <1>1, <1>2 DEF ToSet
  <2>2. \A i \in ids : o.emb[i] \in Nat
    BY <1>1
  <2> HIDE DEF ids
  <2> QED
    BY <2>1, <2>2, ReadsAssumption
<1>5. IsOrder(R, ids)
  <2> HIDE DEF ids
  <2>1. \A i, j \in ids : <<i, j>> \in R <=> o.emb[i] < o.emb[j] \/ (o.emb[i] = o.emb[j] /\ i < j)
    OBVIOUS
  <2> HIDE DEF R
  <2> QED
    BY <1>4, <2>1 DEF IsOrder
<1>6. r = ByRank(RankIn(R, ids))
  <2>1. r = ByRank([i \in ids |-> Cardinality({j \in ids : Sooner(j, i)})])
    BY DEF RebuiltShard
  <2> HIDE DEF ids, r
  <2>2. ASSUME NEW i \in ids PROVE {j \in ids : Sooner(j, i)} = Below(R, ids, i)
    BY DEF Below
  <2> HIDE DEF R, Sooner
  <2> QED
    BY <2>1, <2>2 DEF RankIn
<1> HIDE DEF ids, R, r
<1>7. Enumerates(r, ids, R)
  BY <1>3, <1>5, <1>6, InOrder
<1>8. ToSet(r) = ids
  BY <1>7, EnumeratedSet
<1>9. r \in Seq(ids) /\ Len(r) = Cardinality(ids) /\ \A k, l \in 1..Len(r) : r[k] = r[l] => k = l
  BY <1>7 DEF Enumerates
<1>10. r \in Seq(RawIds) /\ IsInjective(r)
  <2>1. \A i \in ids : i \in RawIds
    BY <1>4
  <2>2. r \in Seq(RawIds)
    BY <1>9, <2>1
  <2>3. DOMAIN r = 1..Len(r)
    BY <1>9
  <2> QED
    BY <1>9, <2>2, <2>3 DEF IsInjective
<1>11. Newest(r, ShardCap) = r
  <2>1. IsFiniteSet(Of(o.raw, s)) /\ Cardinality(Of(o.raw, s)) \in Nat
    <3>1. Of(o.raw, s) \in SUBSET DOMAIN o.raw
      BY DEF Of
    <3> QED
      BY <3>1, FS_Subset, FS_CardinalityType DEF IsRaw
  <2>2. ShardCap \in Nat
    BY ReadsAssumption
  <2>3. Len(r) <= ShardCap
    <3>1. Least(ShardCap, Cardinality(Of(o.raw, s))) <= ShardCap
      BY <2>1, <2>2 DEF Least
    <3> QED
      BY <1>1, <1>3, <1>9, <3>1
  <2> QED
    BY <1>10, <2>2, <2>3, NewestOf
<1> QED
  BY <1>2, <1>3, <1>8, <1>9, <1>10, <1>11 DEF r

----------------------------------------------------------------------------
(* Rebuilds. *)

\* A rebuild changes the order of manifests at most.
Reordered(n, o) ==
    /\ StoreShape(n) /\ n.raw = o.raw /\ n.ops = o.ops /\ n.session = o.session /\ n.loop = o.loop
    /\ n.undistilled = o.undistilled /\ n.pushed = o.pushed /\ n.timeline = o.timeline /\ n.emb = o.emb
    /\ n.shard \in [Sessions -> Seq(RawIds)]
    /\ \A s \in Sessions : /\ IsInjective(n.shard[s]) /\ ToSet(n.shard[s]) = ToSet(o.shard[s])
                           /\ Len(n.shard[s]) = Len(o.shard[s])

\* The rebuilt files of a consistent store are the files it has.
LEMMA RebuiltIs ==
    ASSUME NEW o, StoreShape(o), IsRaw(o.raw), IndexesMatch(o), KeysMatch(o), ShardsFor(o, o.raw)
    PROVE  Reordered(Rebuilt(o), o)
<1>1. PICK shard : shard = [s \in Sessions |-> Newest(RebuiltShard(o, s), ShardCap)]
  OBVIOUS
<1>2. PICK emb : emb = [i \in UNION {ToSet(Newest(RebuiltShard(o, s), ShardCap)) : s \in Sessions} |-> o.emb[i]]
  OBVIOUS
<1>3. ASSUME NEW s \in Sessions
      PROVE  /\ shard[s] \in Seq(RawIds) /\ IsInjective(shard[s]) /\ ToSet(shard[s]) = ToSet(o.shard[s])
             /\ Len(shard[s]) = Len(o.shard[s])
  <2>1. PICK r : r = RebuiltShard(o, s)
    OBVIOUS
  <2>2. /\ r \in Seq(RawIds) /\ IsInjective(r) /\ ToSet(r) = ToSet(o.shard[s])
        /\ Len(r) = Len(o.shard[s]) /\ Newest(r, ShardCap) = r
    BY <2>1, RebuiltShardIs
  <2>3. shard[s] = r
    BY <1>1, <2>1, <2>2
  <2> QED
    BY <2>2, <2>3
<1>4. emb = o.emb
  <2>1. o.emb \in [UNION {ToSet(o.shard[s]) : s \in Sessions} -> Nat]
    BY DEF ShardsFor
  <2>2. \A s \in Sessions : ToSet(Newest(RebuiltShard(o, s), ShardCap)) = ToSet(o.shard[s])
    BY <1>1, <1>3
  <2>3. UNION {ToSet(Newest(RebuiltShard(o, s), ShardCap)) : s \in Sessions}
          = UNION {ToSet(o.shard[s]) : s \in Sessions}
    BY <2>2
  <2>4. PICK D : D = UNION {ToSet(o.shard[s]) : s \in Sessions}
    OBVIOUS
  <2>5. emb = [i \in D |-> o.emb[i]] /\ o.emb \in [D -> Nat]
    BY <1>2, <2>1, <2>3, <2>4
  <2> QED
    BY <2>5
<1>5. /\ o.session = [s \in Sessions |-> Capped(o.raw, Of(o.raw, s), SessionCap)]
      /\ o.loop = [l \in Loops |-> Capped(o.raw, {i \in DOMAIN o.raw : o.raw[i].loop = l}, LoopCap)]
      /\ o.undistilled = Undistilled(o.raw)
      /\ o.pushed = {i \in Undistilled(o.raw) : o.raw[i].pushed}
      /\ o.timeline = [d \in Days |-> {i \in DOMAIN o.raw : Day(o.raw[i].ts) = d}]
  BY DEF IndexesMatch, OfLoop
<1>6. o.ops = [k \in {o.raw[i].key : i \in DOMAIN o.raw} \ {NoKey} |->
                   CHOOSE i \in DOMAIN o.raw : o.raw[i].key = k]
  BY DEF KeysMatch, KeysOf
<1>7. PICK n : n = Rebuilt(o)
  OBVIOUS
<1>8. n = [o EXCEPT !.session = o.session, !.loop = o.loop, !.undistilled = o.undistilled,
                    !.pushed = o.pushed, !.timeline = o.timeline, !.ops = o.ops,
                    !.shard = shard, !.emb = emb]
  <2>1. n = [o EXCEPT
       !.session = [s \in Sessions |-> Capped(o.raw, Of(o.raw, s), SessionCap)],
       !.loop = [l \in Loops |-> Capped(o.raw, {i \in DOMAIN o.raw : o.raw[i].loop = l}, LoopCap)],
       !.undistilled = Undistilled(o.raw),
       !.pushed = {i \in Undistilled(o.raw) : o.raw[i].pushed},
       !.timeline = [d \in Days |-> {i \in DOMAIN o.raw : Day(o.raw[i].ts) = d}],
       !.ops = [k \in {o.raw[i].key : i \in DOMAIN o.raw} \ {NoKey} |->
                   CHOOSE i \in DOMAIN o.raw : o.raw[i].key = k],
       !.shard = [s \in Sessions |-> Newest(RebuiltShard(o, s), ShardCap)],
       !.emb = [i \in UNION {ToSet(Newest(RebuiltShard(o, s), ShardCap)) : s \in Sessions}
                   |-> o.emb[i]]]
    BY <1>7 DEF Rebuilt
  <2> QED
    BY <1>1, <1>2, <1>5, <1>6, <2>1, Zenon
<1>9. /\ StoreShape(n) /\ n.raw = o.raw /\ n.ops = o.ops /\ n.session = o.session /\ n.loop = o.loop
      /\ n.undistilled = o.undistilled /\ n.pushed = o.pushed /\ n.timeline = o.timeline /\ n.emb = emb
      /\ n.shard = shard
  BY <1>8 DEF StoreShape
<1>10. shard \in [Sessions -> Seq(RawIds)]
  BY <1>1, <1>3
<1>11. Reordered(n, o)
  BY <1>3, <1>4, <1>9, <1>10 DEF Reordered
<1> QED
  BY <1>7, <1>11

\* So a rebuild keeps the store consistent.
LEMMA RebuildKeeps ==
    ASSUME NEW m, NEW o, ReadsOk(m, o)
    PROVE  ReadsOk(m, Rebuilt(o))
<1>1. /\ StoreShape(o) /\ MemShape(m) /\ IsRaw(o.raw)
      /\ IndexesMatch(o) /\ KeysMatch(o) /\ ShardsFor(o, o.raw) /\ MemMatches(m, o)
  BY DEF ReadsOk
<1>2. PICK n : n = Rebuilt(o)
  OBVIOUS
<1>3. Reordered(n, o)
  BY <1>1, <1>2, RebuiltIs
<1>4. /\ StoreShape(n) /\ n.raw = o.raw /\ n.ops = o.ops /\ n.session = o.session /\ n.loop = o.loop
      /\ n.undistilled = o.undistilled /\ n.pushed = o.pushed /\ n.timeline = o.timeline /\ n.emb = o.emb
      /\ n.shard \in [Sessions -> Seq(RawIds)]
      /\ \A s \in Sessions : /\ IsInjective(n.shard[s]) /\ ToSet(n.shard[s]) = ToSet(o.shard[s])
                             /\ Len(n.shard[s]) = Len(o.shard[s])
  BY <1>3 DEF Reordered
<1>5. IndexesMatch(n)
  BY <1>1, <1>4, SameIndexes
<1>6. KeysMatch(n)
  BY <1>1, <1>4 DEF KeysMatch
<1>7. ShardsFor(n, n.raw)
  <2>1. UNION {ToSet(n.shard[s]) : s \in Sessions} = UNION {ToSet(o.shard[s]) : s \in Sessions}
    BY <1>4
  <2>2. n.emb \in [UNION {ToSet(n.shard[s]) : s \in Sessions} -> Nat]
    BY <1>1, <1>4, <2>1 DEF ShardsFor
  <2>3. ASSUME NEW s \in Sessions
        PROVE  /\ IsInjective(n.shard[s]) /\ ToSet(n.shard[s]) \subseteq Of(n.raw, s)
               /\ Len(n.shard[s]) = Least(ShardCap, Cardinality(Of(n.raw, s)))
    <3>1. ToSet(o.shard[s]) \subseteq Of(o.raw, s) /\ Len(o.shard[s]) = Least(ShardCap, Cardinality(Of(o.raw, s)))
      BY <1>1 DEF ShardsFor
    <3> QED
      BY <1>4, <3>1
  <2> QED
    BY <1>4, <2>2, <2>3 DEF ShardsFor
<1>8. MemMatches(m, n)
  BY <1>1, <1>4 DEF MemMatches
<1> QED
  BY <1>1, <1>2, <1>4, <1>5, <1>6, <1>7, <1>8 DEF ReadsOk

\* [RebuildChangesNothing] in every state of the invariant.
LEMMA RebuildNeutral ==
    ASSUME ReadsInv
    PROVE  RebuildChangesNothing
<1>1. /\ StoreShape(obj) /\ IsRaw(obj.raw)
      /\ IndexesMatch(obj) /\ KeysMatch(obj) /\ ShardsFor(obj, obj.raw) /\ mem.ops = obj.ops
  BY DEF ReadsInv, ReadsOk, MemMatches
<1>2. PICK n : n = Rebuilt(obj)
  OBVIOUS
<1>3. Reordered(n, obj)
  BY <1>1, <1>2, RebuiltIs
<1>4. /\ StoreShape(n) /\ n.raw = obj.raw /\ n.ops = obj.ops /\ n.session = obj.session /\ n.loop = obj.loop
      /\ n.undistilled = obj.undistilled /\ n.pushed = obj.pushed /\ n.timeline = obj.timeline
      /\ n.emb = obj.emb
      /\ \A s \in Sessions : ToSet(n.shard[s]) = ToSet(obj.shard[s])
  BY <1>3 DEF Reordered
<1>5. [n EXCEPT !.shard = obj.shard] = obj
  <2>1. [n EXCEPT !.shard = obj.shard]
          = [raw |-> obj.raw, session |-> obj.session, loop |-> obj.loop, ops |-> obj.ops,
             undistilled |-> obj.undistilled, pushed |-> obj.pushed, timeline |-> obj.timeline,
             emb |-> obj.emb, shard |-> obj.shard]
    BY <1>4 DEF StoreShape
  <2> QED
    BY <1>1, <2>1 DEF StoreShape
<1>6. [s \in Sessions |-> ToSet(n.shard[s])] = [s \in Sessions |-> ToSet(obj.shard[s])]
  BY <1>4
<1> QED
  BY <1>1, <1>2, <1>4, <1>5, <1>6 DEF RebuildChangesNothing

----------------------------------------------------------------------------
(* The invariant, and what follows of rebuilds. *)

\* The empty stores.
LEMMA ReadsInvInit == ReadsInit => ReadsInv
<1> SUFFICES ASSUME ReadsInit PROVE ReadsOk(mem, obj)
  BY DEF ReadsInv
<1>1. mem = EmptyMem /\ obj = EmptyObj
  BY DEF ReadsInit
<1>2. /\ StoreShape(obj) /\ MemShape(mem) /\ obj.raw = <<>> /\ obj.ops = <<>> /\ obj.emb = <<>>
      /\ obj.session = [s \in Sessions |-> {}] /\ obj.loop = [l \in Loops |-> {}]
      /\ obj.undistilled = {} /\ obj.pushed = {} /\ obj.timeline = [d \in Days |-> {}]
      /\ obj.shard = [s \in Sessions |-> <<>>]
      /\ mem.raw = <<>> /\ mem.ops = <<>> /\ mem.emb = <<>>
      /\ mem.session = [s \in Sessions |-> <<>>] /\ mem.loop = [l \in Loops |-> <<>>]
  BY <1>1 DEF EmptyMem, EmptyObj, StoreShape, MemShape
<1>3. DOMAIN obj.raw = {}
  BY <1>2
<1>4. IsRaw(obj.raw)
  BY <1>2, <1>3, FS_EmptySet DEF IsRaw
<1>5. /\ \A s : Of(obj.raw, s) = {} /\ \A l : OfLoop(obj.raw, l) = {} /\ Undistilled(obj.raw) = {}
      /\ KeysOf(obj.raw) = {} /\ \A raw, cap : Capped(raw, {}, cap) = {}
  BY <1>3 DEF Of, OfLoop, Undistilled, KeysOf, Capped
<1>6. IndexesMatch(obj)
  <2>1. ASSUME NEW s PROVE Capped(obj.raw, Of(obj.raw, s), SessionCap) = {}
    BY <1>5
  <2>2. ASSUME NEW l PROVE Capped(obj.raw, OfLoop(obj.raw, l), LoopCap) = {}
    BY <1>5
  <2>3. obj.session = [s \in Sessions |-> Capped(obj.raw, Of(obj.raw, s), SessionCap)]
    BY <1>2, <2>1
  <2>4. obj.loop = [l \in Loops |-> Capped(obj.raw, OfLoop(obj.raw, l), LoopCap)]
    BY <1>2, <2>2
  <2>5. obj.timeline = [d \in Days |-> {i \in DOMAIN obj.raw : Day(obj.raw[i].ts) = d}]
    BY <1>2, <1>3
  <2>6. obj.undistilled = Undistilled(obj.raw) /\ obj.pushed = {i \in Undistilled(obj.raw) : obj.raw[i].pushed}
    BY <1>2, <1>5
  <2> QED
    BY <2>3, <2>4, <2>5, <2>6 DEF IndexesMatch
<1>7. KeysMatch(obj)
  <2>1. obj.ops = [k \in KeysOf(obj.raw) |-> CHOOSE i \in DOMAIN obj.raw : obj.raw[i].key = k]
    BY <1>2, <1>5
  <2> QED
    BY <1>3, <2>1 DEF KeysMatch
<1>8. ToSet(<<>>) = {} /\ IsInjective(<<>>) /\ Len(<<>>) = 0
  BY DEF ToSet, IsInjective
<1>9. ShardsFor(obj, obj.raw)
  <2>1. Least(ShardCap, 0) = 0
    BY ReadsAssumption DEF Least
  <2>2. Cardinality({}) = 0
    BY FS_EmptySet
  <2>3. ASSUME NEW s \in Sessions
        PROVE  /\ IsInjective(obj.shard[s]) /\ ToSet(obj.shard[s]) \subseteq Of(obj.raw, s)
               /\ Len(obj.shard[s]) = Least(ShardCap, Cardinality(Of(obj.raw, s)))
    <3>1. obj.shard[s] = <<>> /\ Of(obj.raw, s) = {}
      BY <1>2, <1>5
    <3> QED
      BY <1>8, <2>1, <2>2, <3>1
  <2>4. obj.shard \in [Sessions -> Seq(RawIds)]
    BY <1>2
  <2>5. UNION {ToSet(obj.shard[s]) : s \in Sessions} = {}
    BY <1>2, <1>8
  <2>6. obj.emb \in [UNION {ToSet(obj.shard[s]) : s \in Sessions} -> Nat]
    BY <1>2, <2>5
  <2> QED
    BY <2>3, <2>4, <2>6 DEF ShardsFor
<1>10. MemMatches(mem, obj)
  <2>1. mem.emb = [i \in DOMAIN obj.raw |-> Session(obj.raw[i])]
    BY <1>2, <1>3
  <2>2. mem.session \in [Sessions -> Seq(DOMAIN obj.raw)] /\ mem.loop \in [Loops -> Seq(DOMAIN obj.raw)]
    BY <1>2
  <2>3. \A s \in Sessions : IsInjective(mem.session[s]) /\ ToSet(mem.session[s]) = Of(obj.raw, s)
    BY <1>2, <1>5, <1>8
  <2>4. \A l \in Loops : IsInjective(mem.loop[l]) /\ ToSet(mem.loop[l]) = OfLoop(obj.raw, l)
    BY <1>2, <1>5, <1>8
  <2> QED
    BY <1>2, <2>1, <2>2, <2>3, <2>4 DEF MemMatches
<1> QED
  BY <1>2, <1>4, <1>6, <1>7, <1>9, <1>10 DEF ReadsOk

\* Inserts, retries under a key, lifecycle updates and rebuilds keep it.
LEMMA ReadsInvStep == ReadsInv /\ [ReadsNext]_readVars => ReadsInv'
<1> SUFFICES ASSUME ReadsInv, [ReadsNext]_readVars PROVE ReadsOk(mem', obj')
  BY DEF ReadsInv
<1>1. ReadsOk(mem, obj)
  BY DEF ReadsInv
<1>2. ASSUME NEW id \in RawIds, NEW l \in Loops, NEW t \in Times, NEW key \in Keys \cup {NoKey},
             PersistRaw(id, l, t, key)
      PROVE  ReadsOk(mem', obj')
  <2>1. PICK node : node = NewNode(l, t, key)
    OBVIOUS
  <2>2. node \in RawNodes /\ node.key = key
    BY <2>1 DEF NewNode, RawNodes
  <2>3. /\ id \notin DOMAIN obj.raw \cup DOMAIN mem.raw
        /\ mem' = MemIndex(MemInsertOnce(mem, id, node),
                           IF id \in DOMAIN MemInsertOnce(mem, id, node).raw THEN id
                           ELSE MemInsertOnce(mem, id, node).ops[key])
        /\ ObjHolds(obj, key) => obj' = ObjIndex(obj, obj.ops[key], Now)
        /\ ~ObjHolds(obj, key) => obj' = ObjCommit(obj, id, node)
    BY <1>2, <2>1 DEF PersistRaw
  <2>4. /\ mem.raw = obj.raw /\ mem.ops = obj.ops
        /\ KeysHeld(obj.ops, obj.raw)
    BY <1>1, KeysByValue DEF ReadsOk, MemMatches
  <2>5. obj.ops \in [KeysOf(obj.raw) -> DOMAIN obj.raw]
    BY <2>4 DEF KeysHeld
  <2>6. ObjHolds(obj, key) <=> key \in KeysOf(obj.raw)
    BY <2>5 DEF ObjHolds
  <2>7. MemHolds(mem, key) <=> key \in KeysOf(obj.raw)
    BY <2>4, <2>5 DEF MemHolds
  <2>8. CASE key \in KeysOf(obj.raw)
    <3>1. PICK old \in DOMAIN obj.raw : old = obj.ops[key]
      BY <2>5, <2>8
    <3>2. MemInsertOnce(mem, id, node) = mem
      BY <2>2, <2>7, <2>8 DEF MemInsertOnce
    <3>3. mem' = MemIndex(mem, old)
      BY <2>3, <2>4, <3>1, <3>2
    <3>4. obj' = ObjIndex(obj, old, Now)
      BY <2>3, <2>6, <2>8, <3>1
    <3>5. Now \in Nat
      BY NowIsNat
    <3> QED
      BY <1>1, <3>3, <3>4, <3>5, RepairKeeps
  <2>9. CASE key \notin KeysOf(obj.raw)
    <3>1. PICK m : m = MemInsert(mem, id, node)
      OBVIOUS
    <3>2. MemInsertOnce(mem, id, node) = m
      BY <2>2, <2>7, <2>9, <3>1 DEF MemInsertOnce
    <3>3. id \in DOMAIN m.raw
      <4>1. m.raw = Put(mem.raw, id, node)
        BY <1>1, <3>1 DEF MemInsert, ReadsOk, MemShape
      <4> QED
        BY <4>1 DEF Put
    <3>4. mem' = MemIndex(m, id)
      BY <2>3, <3>2, <3>3
    <3>5. obj' = ObjCommit(obj, id, node)
      BY <2>3, <2>6, <2>9
    <3>6. id \notin DOMAIN obj.raw /\ node.key \notin KeysOf(obj.raw)
      BY <2>2, <2>3, <2>9
    <3>7. ReadsOk(MemIndex(MemInsert(mem, id, node), id), ObjCommit(obj, id, node))
      BY <1>1, <2>2, <3>6, CommitKeeps
    <3> QED
      BY <3>1, <3>4, <3>5, <3>7
  <2> QED
    BY <2>8, <2>9
<1>3. ASSUME NEW ids, NEW p \in Patches, UpdateRawLifecycle(ids, p)
      PROVE  ReadsOk(mem', obj')
  <2>1. mem' = MemUpdate(mem, ids, p) /\ obj' = ObjUpdate(obj, ids, p)
    BY <1>3 DEF UpdateRawLifecycle
  <2> QED
    BY <1>1, <2>1, UpdateKeeps
<1>4. ASSUME RebuildIndexes PROVE ReadsOk(mem', obj')
  <2>1. mem' = mem /\ obj' = Rebuilt(obj)
    BY <1>4 DEF RebuildIndexes
  <2> QED
    BY <1>1, <2>1, RebuildKeeps
<1>5. ASSUME UNCHANGED readVars PROVE ReadsOk(mem', obj')
  BY <1>1, <1>5 DEF readVars
<1> QED
  BY <1>2, <1>3, <1>4, <1>5 DEF ReadsNext

\* The indexes, keys, shards and both repositories are consistent in every
\* state, whatever the order of inserts, retries, updates and rebuilds.
THEOREM ReadsInvariant == MemorySpec => []ReadsInv
<1>1. ReadsInit => ReadsInv
  BY ReadsInvInit
<1>2. ReadsInv /\ [MemoryNext]_<<readVars, toolVars>> => ReadsInv'
  <2> SUFFICES ASSUME ReadsInv, [MemoryNext]_<<readVars, toolVars>> PROVE ReadsInv'
    OBVIOUS
  <2>1. ASSUME ReadsNext PROVE ReadsInv'
    BY <2>1, ReadsInvStep
  <2>2. ASSUME UNCHANGED readVars PROVE ReadsInv'
    BY <2>2, ReadsInvStep
  <2> QED
    BY <2>1, <2>2 DEF MemoryNext
<1> QED
  BY <1>1, <1>2, PTL DEF MemorySpec

\* [RebuildChangesNothing] What inserts, updates and evictions keep up file by
\* file is what a rebuild makes of the bodies.
THEOREM RebuildsAgree == MemorySpec => []RebuildChangesNothing
BY ReadsInvariant, RebuildNeutral, PTL

----------------------------------------------------------------------------
(* Searches. *)

\* The nodes of a session are a finite set of ids.
LEMMA OfIs ==
    ASSUME NEW raw, IsRaw(raw), NEW s
    PROVE  /\ Of(raw, s) \in SUBSET DOMAIN raw /\ Of(raw, s) \in SUBSET RawIds
           /\ IsFiniteSet(Of(raw, s)) /\ Cardinality(Of(raw, s)) \in Nat
<1>1. Of(raw, s) \in SUBSET DOMAIN raw
  BY DEF Of
<1> QED
  BY <1>1, FS_Subset, FS_CardinalityType DEF IsRaw

\* The nodes a search of the object store ranks.
LEMMA SearchedIs ==
    ASSUME ReadsInv, NEW s \in Sessions, NEW k \in Nat
    PROVE  /\ ObjSearch(s, k) = First(ByScore(ToSet(obj.shard[s])), k)
           /\ ToSet(obj.shard[s]) \in SUBSET RawIds /\ IsFiniteSet(ToSet(obj.shard[s]))
           /\ ToSet(obj.shard[s]) \subseteq Of(obj.raw, s)
           /\ Cardinality(ToSet(obj.shard[s])) = Least(ShardCap, Cardinality(Of(obj.raw, s)))
           /\ Enumerates(ByScore(ToSet(obj.shard[s])), ToSet(obj.shard[s]), ScoreOrder)
<1>1. IsRaw(obj.raw) /\ ShardsFor(obj, obj.raw)
  BY DEF ReadsInv, ReadsOk
<1>2. /\ obj.shard[s] \in Seq(RawIds) /\ IsInjective(obj.shard[s])
      /\ ToSet(obj.shard[s]) \subseteq Of(obj.raw, s)
      /\ Len(obj.shard[s]) = Least(ShardCap, Cardinality(Of(obj.raw, s)))
      /\ DOMAIN obj.emb = UNION {ToSet(obj.shard[t]) : t \in Sessions}
  BY <1>1 DEF ShardsFor
<1>3. {i \in ToSet(obj.shard[s]) : i \in DOMAIN obj.emb} = ToSet(obj.shard[s])
  BY <1>2
<1>4. IsFiniteSet(ToSet(obj.shard[s])) /\ Cardinality(ToSet(obj.shard[s])) = Len(obj.shard[s])
  BY <1>2, DistinctSize
<1>5. ToSet(obj.shard[s]) \in SUBSET RawIds
  BY <1>1, <1>2, OfIs
<1>6. Enumerates(ByScore(ToSet(obj.shard[s])), ToSet(obj.shard[s]), ScoreOrder)
  BY <1>4, <1>5, ByScoreIs
<1>7. ObjSearch(s, k) = First(ByScore(ToSet(obj.shard[s])), k)
  BY <1>3 DEF ObjSearch
<1> QED
  BY <1>2, <1>4, <1>5, <1>6, <1>7

\* In a consistent state both backends find the same.
LEMMA SearchesMatch ==
    ASSUME ReadsInv
    PROVE  SearchAgrees
<1> SUFFICES ASSUME NEW s \in Sessions, NEW k \in Limits
             PROVE  /\ Cardinality(Of(mem.raw, s)) <= ShardCap => MemSearch(s, k) = ObjSearch(s, k)
                    /\ ~(Cardinality(Of(mem.raw, s)) <= ShardCap) =>
                         /\ ToSet(ObjSearch(s, k)) \subseteq Of(obj.raw, s)
                         /\ Len(ObjSearch(s, k)) = IF k < ShardCap THEN k ELSE ShardCap
  BY DEF SearchAgrees
<1>1. IsRaw(obj.raw) /\ mem.raw = obj.raw /\ mem.emb = [i \in DOMAIN obj.raw |-> Session(obj.raw[i])]
  BY DEF ReadsInv, ReadsOk, MemMatches
<1>2. k \in Nat /\ ShardCap \in Nat
  BY ReadsAssumption DEF Limits
<1>3. PICK B, all : B = ToSet(obj.shard[s]) /\ all = Of(obj.raw, s)
  OBVIOUS
<1>4. /\ ObjSearch(s, k) = First(ByScore(B), k)
      /\ B \in SUBSET RawIds /\ IsFiniteSet(B) /\ B \subseteq all
      /\ Cardinality(B) = Least(ShardCap, Cardinality(all))
      /\ Enumerates(ByScore(B), B, ScoreOrder)
  BY <1>2, <1>3, SearchedIs
<1>5. IsFiniteSet(all) /\ Cardinality(all) \in Nat
  BY <1>1, <1>3, OfIs
<1>6. ASSUME Cardinality(all) <= ShardCap PROVE MemSearch(s, k) = ObjSearch(s, k)
  <2>1. Cardinality(B) = Cardinality(all)
    BY <1>2, <1>4, <1>5, <1>6 DEF Least
  <2>2. B = all
    BY <1>4, <1>5, <2>1, FS_Subset
  <2>3. s # Everywhere
    BY ReadsAssumption
  <2>4. {i \in DOMAIN mem.emb : mem.emb[i] = s} = all
    BY <1>1, <1>3, <2>3 DEF Of
  <2> QED
    BY <1>4, <2>2, <2>4 DEF MemSearch
<1>7. ASSUME ~(Cardinality(all) <= ShardCap)
      PROVE  /\ ToSet(ObjSearch(s, k)) \subseteq all
             /\ Len(ObjSearch(s, k)) = IF k < ShardCap THEN k ELSE ShardCap
  <2>1. Cardinality(B) = ShardCap
    BY <1>2, <1>4, <1>5, <1>7 DEF Least
  <2>2. PICK t : t = ByScore(B)
    OBVIOUS
  <2>3. t \in Seq(B) /\ Len(t) = ShardCap
    BY <1>4, <2>1, <2>2 DEF Enumerates
  <2>4. ToSet(t) = B
    BY <1>4, <2>2, EnumeratedSet
  <2>5. Len(First(t, k)) = (IF k < Len(t) THEN k ELSE Len(t)) /\ ToSet(First(t, k)) \subseteq ToSet(t)
    BY <1>2, <2>3, FirstOf
  <2> QED
    BY <1>4, <2>2, <2>3, <2>4, <2>5
<1> QED
  BY <1>1, <1>3, <1>6, <1>7

\* [SearchAgrees] A search of a session that fits its shard finds the same in
\* both backends, and in a full shard as many nodes as it holds.
THEOREM SearchesAgree == MemorySpec => []SearchAgrees
BY ReadsInvariant, SearchesMatch, PTL

----------------------------------------------------------------------------
(* Timelines: the days are read from the newest on. *)

\* Later timestamps are not on earlier days.
LEMMA DayGrows ==
    ASSUME NEW t \in Nat, NEW u \in Nat, t <= u
    PROVE  Day(t) \in Nat /\ Day(u) \in Nat /\ Day(t) <= Day(u)
<1>1. PICK L \in Nat \ {0} : L = DayLength
  BY ReadsAssumption
<1>2. PICK p, q : p = t \div L /\ q = u \div L
  OBVIOUS
<1>3. p \in Nat /\ q \in Nat
  BY <1>1, <1>2
<1>4. L * p <= t /\ u < L * (q + 1)
  BY <1>1, <1>2, <1>3
<1>5. ~(q < p)
  <2>1. SUFFICES ASSUME q < p PROVE FALSE
    OBVIOUS
  <2>2. q + 1 <= p
    BY <1>3, <2>1
  <2>3. L * (q + 1) <= L * p
    BY <1>1, <1>3, <2>2
  <2> QED
    BY <1>1, <1>3, <1>4, <2>3
<1> QED
  BY <1>1, <1>2, <1>3, <1>5 DEF Day

\* The entries between two timestamps, by days, the days after a day, the days
\* that are read, and what is found there.
Between(raw, from, to) == {i \in DOMAIN raw : raw[i].ts \in from..to}
ByDay(raw, S) == [d \in Days |-> {i \in S : Day(raw[i].ts) = d}]
After(window) == [d \in Days |-> UNION {window[e] : e \in {x \in Days : x > d}}]
Opened(newer, n) == {d \in Days : Cardinality(newer[d]) < n}
Found(window, read) == UNION {window[d] : d \in read}

ReadEnough(raw, S, B, n) ==
    /\ B \in SUBSET S /\ IsFiniteSet(S)
    /\ \A b \in B, a \in S : <<a, b>> \in NewestOrder(raw) => a \in B
    /\ B = S \/ Cardinality(B) >= n

\* The days are read from the newest on until there are enough entries: what is
\* read holds everything newer than any of it, and is all or enough.
LEMMA DaysRead ==
    ASSUME NEW raw, IsRaw(raw), NEW from, NEW to, NEW n \in Nat,
           NEW S, S = Between(raw, from, to), NEW window, window = ByDay(raw, S),
           NEW newer, newer = After(window), NEW read, read = Opened(newer, n),
           NEW B, B = Found(window, read)
    PROVE  ReadEnough(raw, S, B, n)
<1>1. S \in SUBSET DOMAIN raw /\ IsFiniteSet(S)
  <2>1. S \in SUBSET DOMAIN raw
    BY DEF Between
  <2> QED
    BY <2>1, FS_Subset DEF IsRaw
<1>2. \A i \in S : raw[i].ts \in Nat /\ Day(raw[i].ts) \in Days /\ Day(raw[i].ts) \in Nat
  <2>1. ASSUME NEW i \in S PROVE raw[i].ts \in Times
    BY <1>1 DEF IsRaw, RawNodes
  <2>2. ASSUME NEW t \in Times PROVE t \in Nat /\ Day(t) \in Days /\ Day(t) \in Nat
    <3>1. t \in Nat
      BY ReadsAssumption
    <3>2. Day(t) \in Nat
      BY <3>1, DayGrows
    <3> QED
      BY <3>1, <3>2 DEF Days
  <2> QED
    BY <2>1, <2>2
<1>3. \A d \in Days, i \in S : i \in window[d] <=> Day(raw[i].ts) = d
  BY DEF ByDay
<1>4. /\ \A d \in Days : window[d] \in SUBSET S /\ newer[d] \in SUBSET S
      /\ read \subseteq Days
  BY DEF ByDay, After, Opened
<1>5. \A i \in S : i \in B <=> Day(raw[i].ts) \in read
  <2>1. ASSUME NEW i \in S, i \in B PROVE Day(raw[i].ts) \in read
    <3>1. PICK d \in read : i \in window[d]
      BY <2>1 DEF Found
    <3> QED
      BY <1>3, <1>4, <3>1
  <2>2. ASSUME NEW i \in S, Day(raw[i].ts) \in read PROVE i \in B
    <3>1. i \in window[Day(raw[i].ts)]
      BY <1>2, <1>3
    <3> QED
      BY <2>2, <3>1 DEF Found
  <2> QED
    BY <2>1, <2>2
<1>6. B \in SUBSET S
  <2>1. ASSUME NEW i \in B PROVE i \in S
    <3>1. PICK d \in read : i \in window[d]
      BY DEF Found
    <3> QED
      BY <1>4, <3>1
  <2> QED
    BY <2>1
<1>7. ASSUME NEW i \in S, NEW d \in Days PROVE i \in newer[d] <=> Day(raw[i].ts) > d
  <2>1. i \in newer[d] => Day(raw[i].ts) > d
    BY <1>3 DEF After
  <2>2. ASSUME Day(raw[i].ts) > d PROVE i \in newer[d]
    <3>1. PICK e : e = Day(raw[i].ts)
      OBVIOUS
    <3>2. e \in Days /\ e > d /\ i \in window[e]
      BY <1>2, <1>3, <2>2, <3>1
    <3> QED
      BY <3>2 DEF After
  <2> QED
    BY <2>1, <2>2
<1>8. \A d \in Days : d \in Nat
  <2>1. \A t \in Times : t \in Nat
    BY ReadsAssumption
  <2>2. \A t \in Times : Day(t) \in Nat
    BY <2>1, DayGrows
  <2> QED
    BY <2>2 DEF Days
<1>9. ASSUME NEW b \in B, NEW a \in S, <<a, b>> \in NewestOrder(raw) PROVE a \in B
  <2>1. b \in S
    BY <1>6
  <2>2. Ahead(raw, a, b)
    BY <1>1, <1>9, <2>1, OrderedPairs
  <2>3. raw[b].ts <= raw[a].ts /\ raw[a].ts \in Nat /\ raw[b].ts \in Nat
    BY <1>2, <2>1, <2>2 DEF Ahead
  <2>4. PICK d, e : d = Day(raw[b].ts) /\ e = Day(raw[a].ts)
    OBVIOUS
  <2>5. d \in read /\ d \in Days /\ e \in Days /\ d \in Nat /\ e \in Nat /\ d <= e
    BY <1>2, <1>5, <1>9, <2>1, <2>3, <2>4, DayGrows
  <2>6. newer[e] \subseteq newer[d]
    <3>1. ASSUME NEW i \in newer[e] PROVE i \in newer[d]
      <4>1. i \in S
        BY <1>4, <2>5
      <4>2. Day(raw[i].ts) > e /\ Day(raw[i].ts) \in Nat
        BY <1>2, <1>7, <2>5, <3>1, <4>1
      <4>3. Day(raw[i].ts) > d
        BY <2>5, <4>2
      <4> QED
        BY <1>7, <2>5, <4>1, <4>3
    <3> QED
      BY <3>1
  <2>7. Cardinality(newer[e]) <= Cardinality(newer[d]) /\ Cardinality(newer[e]) \in Nat
        /\ Cardinality(newer[d]) \in Nat
    <3>1. IsFiniteSet(newer[d])
      BY <1>1, <1>4, <2>5, FS_Subset
    <3> QED
      BY <2>6, <3>1, FS_Subset, FS_CardinalityType
  <2>8. e \in read
    BY <2>5, <2>7 DEF Opened
  <2> QED
    BY <1>5, <2>4, <2>8
<1>10. ASSUME B # S PROVE Cardinality(B) >= n
  <2> DEFINE Late == {Day(raw[i].ts) : i \in S \ B}
  <2>1. S \ B # {} /\ IsFiniteSet(S \ B)
    BY <1>1, <1>6, <1>10, FS_Subset
  <2>2. IsFiniteSet(Late) /\ Late # {} /\ Late \subseteq Nat
    <3>1. PICK f : f = [i \in S \ B |-> Day(raw[i].ts)]
      OBVIOUS
    <3>2. f \in Surjection(S \ B, Late)
      BY <3>1 DEF Surjection
    <3>3. IsFiniteSet(Late)
      <4> HIDE DEF Late
      <4> QED
        BY <2>1, <3>2, FS_Surjection
    <3>4. Late # {}
      BY <2>1
    <3>5. Late \subseteq Nat
      BY <1>2
    <3> QED
      BY <3>3, <3>4, <3>5
  <2>3. PICK d \in Late : \A e \in Late : e <= d
    <3> HIDE DEF Late
    <3> QED
      BY <2>2, GreatestOf
  <2>4. PICK i \in S \ B : d = Day(raw[i].ts)
    OBVIOUS
  <2>5. d \in Days /\ d \in Nat /\ d \notin read
    BY <1>2, <1>5, <2>4
  <2>6. newer[d] \subseteq B
    <3>1. ASSUME NEW j \in newer[d], j \notin B PROVE FALSE
      <4>1. j \in S /\ Day(raw[j].ts) > d
        BY <1>4, <1>7, <2>5, <3>1
      <4>2. Day(raw[j].ts) \in Late /\ Day(raw[j].ts) \in Nat
        BY <1>2, <3>1, <4>1
      <4>3. Day(raw[j].ts) <= d
        BY <2>3, <4>2
      <4> QED
        BY <2>5, <4>1, <4>2, <4>3
    <3> QED
      BY <3>1
  <2>7. ~(Cardinality(newer[d]) < n)
    BY <2>5 DEF Opened
  <2>8. IsFiniteSet(B)
    BY <1>1, <1>6, FS_Subset
  <2>9. Cardinality(newer[d]) <= Cardinality(B) /\ Cardinality(newer[d]) \in Nat /\ Cardinality(B) \in Nat
    <3>1. IsFiniteSet(newer[d])
      BY <2>6, <2>8, FS_Subset
    <3> QED
      BY <2>6, <2>8, <3>1, FS_Subset, FS_CardinalityType
  <2> QED
    BY <2>7, <2>9
<1> QED
  BY <1>1, <1>6, <1>9, <1>10 DEF ReadEnough

\* The two global timelines.
LEMMA GlobalTimelineIs ==
    ASSUME IsRaw(obj.raw), IndexesMatch(obj), NEW from, NEW to, NEW n \in Nat
    PROVE  GlobalTimeline(from, to, n)
             = First(NewestFirst(obj.raw, {i \in DOMAIN obj.raw : obj.raw[i].ts \in from..to}), n)
<1>1. PICK raw, S, window : raw = obj.raw /\ S = Between(raw, from, to) /\ window = ByDay(raw, S)
  OBVIOUS
<1>2. window = [d \in Days |-> {i \in S : Day(raw[i].ts) = d}] /\ IsRaw(raw)
  BY <1>1 DEF ByDay
<1>3. PICK newer, read, B : newer = After(window) /\ read = Opened(newer, n) /\ B = Found(window, read)
  OBVIOUS
<1>6. /\ B \in SUBSET S /\ IsFiniteSet(S)
      /\ \A b \in B, a \in S : <<a, b>> \in NewestOrder(raw) => a \in B
      /\ B = S \/ Cardinality(B) >= n
  <2>1. ReadEnough(raw, S, B, n)
    BY <1>1, <1>2, <1>3, DaysRead
  <2> QED
    BY <2>1 DEF ReadEnough
<1>7. S \in SUBSET DOMAIN raw /\ B \in SUBSET DOMAIN raw
  BY <1>1, <1>6 DEF Between
<1>8. /\ IsOrder(NewestOrder(raw), S)
      /\ Enumerates(NewestFirst(raw, S), S, NewestOrder(raw))
      /\ Enumerates(NewestFirst(raw, B), B, NewestOrder(raw))
  BY <1>2, <1>7, NewestFirstIs
<1>9. First(NewestFirst(raw, S), n) = First(NewestFirst(raw, B), n)
  <2>1. PICK R, s, t : R = NewestOrder(raw) /\ s = NewestFirst(raw, S) /\ t = NewestFirst(raw, B)
    OBVIOUS
  <2>2. IsOrder(R, S) /\ Enumerates(s, S, R) /\ Enumerates(t, B, R)
    BY <1>8, <2>1
  <2>3. \A b \in B, a \in S : <<a, b>> \in R => a \in B
    BY <1>6, <2>1
  <2>4. First(s, n) = First(t, n)
    BY <1>6, <2>2, <2>3, FirstOfPart
  <2> QED
    BY <2>1, <2>4
<1>10. GlobalTimeline(from, to, n) = First(NewestFirst(raw, B), n)
  <2> DEFINE Window(d) == {i \in obj.timeline[d] : obj.raw[i].ts \in from..to}
             Newer(d) == UNION {Window(e) : e \in {x \in Days : x > d}}
             Read == {d \in Days : Cardinality(Newer(d)) < n}
  <2>1. GlobalTimeline(from, to, n) = First(NewestFirst(obj.raw, UNION {Window(d) : d \in Read}), n)
    BY DEF GlobalTimeline
  <2>2. \A d \in Days : Window(d) = window[d]
    <3>1. obj.timeline = [d \in Days |-> {i \in DOMAIN obj.raw : Day(obj.raw[i].ts) = d}]
      BY DEF IndexesMatch
    <3>2. ASSUME NEW d \in Days PROVE Window(d) = window[d]
      <4>1. obj.timeline[d] = {i \in DOMAIN obj.raw : Day(obj.raw[i].ts) = d}
        BY <3>1
      <4>2. window[d] = {i \in S : Day(raw[i].ts) = d}
        BY <1>2
      <4>3. S = {i \in DOMAIN obj.raw : obj.raw[i].ts \in from..to} /\ raw = obj.raw
        BY <1>1 DEF Between
      <4> QED
        BY <4>1, <4>2, <4>3
    <3> QED
      BY <3>2
  <2>3. \A d \in Days : Newer(d) = newer[d]
    <3> HIDE DEF Window
    <3> QED
      BY <1>3, <2>2 DEF After
  <2>4. Read = read
    <3> HIDE DEF Newer
    <3> QED
      BY <1>3, <2>3 DEF Opened
  <2>5. UNION {Window(d) : d \in Read} = B
    <3>1. \A d \in read : d \in Days
      BY <1>3 DEF Opened
    <3> HIDE DEF Window, Read
    <3> QED
      BY <1>3, <2>2, <2>4, <3>1 DEF Found
  <2> HIDE DEF Window, Read
  <2> QED
    BY <1>1, <2>1, <2>5
<1> QED
  BY <1>1, <1>9, <1>10 DEF Between

\* In a consistent state both backends list the same timeline.
LEMMA TimelinesMatch ==
    ASSUME ReadsInv
    PROVE  TimelineAgrees
<1> SUFFICES ASSUME NEW scope \in Scopes, NEW n \in Limits, NEW from \in Times, NEW to \in Times,
                    scope = Everywhere \/ Cardinality(Of(mem.raw, scope)) <= SessionCap
             PROVE  MemTimeline(scope, from, to, n) = ObjTimeline(scope, from, to, n)
  BY DEF TimelineAgrees
<1>1. IsRaw(obj.raw) /\ IndexesMatch(obj) /\ mem.raw = obj.raw
  BY DEF ReadsInv, ReadsOk, MemMatches
<1>2. n \in Nat
  BY DEF Limits
<1>3. PICK raw : raw = obj.raw
  OBVIOUS
<1>4. CASE scope = Everywhere
  <2>1. {i \in Of(raw, scope) : raw[i].ts \in from..to} = {i \in DOMAIN raw : raw[i].ts \in from..to}
    BY <1>4 DEF Of
  <2>2. MemTimeline(scope, from, to, n)
          = First(NewestFirst(raw, {i \in DOMAIN raw : raw[i].ts \in from..to}), n)
    BY <1>1, <1>3, <2>1 DEF MemTimeline
  <2>3. ObjTimeline(scope, from, to, n) = GlobalTimeline(from, to, n)
    BY <1>4 DEF ObjTimeline
  <2>4. GlobalTimeline(from, to, n)
          = First(NewestFirst(raw, {i \in DOMAIN raw : raw[i].ts \in from..to}), n)
    BY <1>1, <1>2, <1>3, GlobalTimelineIs
  <2> QED
    BY <2>2, <2>3, <2>4
<1>5. CASE scope # Everywhere
  <2>1. scope \in Sessions /\ Cardinality(Of(raw, scope)) <= SessionCap /\ SessionCap \in Nat
    BY <1>1, <1>3, <1>5, ReadsAssumption DEF Scopes
  <2>2. obj.session[scope] = Capped(raw, Of(raw, scope), SessionCap)
    BY <1>1, <1>3, <2>1 DEF IndexesMatch
  <2>3. Of(raw, scope) \in SUBSET DOMAIN raw /\ IsFiniteSet(Of(raw, scope))
        /\ IsOrder(TimeOrder(raw), Of(raw, scope))
    BY <1>1, <1>3, OfIs, InTimeIs
  <2>4. Capped(raw, Of(raw, scope), SessionCap) = Of(raw, scope)
    BY <2>1, <2>3, CappedIs, TopSize
  <2>5. ObjTimeline(scope, from, to, n)
          = First(NewestFirst(raw, {i \in Of(raw, scope) : raw[i].ts \in from..to}), n)
    BY <1>3, <1>5, <2>2, <2>4 DEF ObjTimeline, SessionTimeline
  <2> QED
    BY <1>1, <1>3, <2>5 DEF MemTimeline
<1> QED
  BY <1>4, <1>5

\* [TimelineAgrees] The timelines of both backends are equal, ties included, and
\* reading the days from the newest on loses no entry.
THEOREM TimelinesAgree == MemorySpec => []TimelineAgrees
BY ReadsInvariant, TimelinesMatch, PTL

----------------------------------------------------------------------------
(* Sessions, loops and the backlog, in the order of time. *)

\* Sorted by time: the elements of ids, each once.
SortedBy(raw, a, ids) ==
    /\ a \in Seq(ids) /\ IsInjective(a) /\ ToSet(a) = ids
    /\ \A k, l \in 1..Len(a) : k < l => raw[a[k]].ts <= raw[a[l]].ts

\* Of two such sequences none is behind the other anywhere.
LEMMA NotSooner ==
    ASSUME NEW raw, NEW ids, \A i \in ids : raw[i].ts \in Nat, NEW a, NEW b,
           SortedBy(raw, a, ids), SortedBy(raw, b, ids), NEW k \in 1..Len(a), k \in 1..Len(b)
    PROVE  ~(raw[a[k]].ts < raw[b[k]].ts)
<1>1. SUFFICES ASSUME raw[a[k]].ts < raw[b[k]].ts PROVE FALSE
  OBVIOUS
<1>2. /\ a \in Seq(ids) /\ DOMAIN a = 1..Len(a) /\ Len(a) \in Nat /\ \A j \in 1..Len(a) : a[j] \in ids
      /\ b \in Seq(ids) /\ DOMAIN b = 1..Len(b) /\ Len(b) \in Nat /\ \A j \in 1..Len(b) : b[j] \in ids
  BY DEF SortedBy
<1>3. ASSUME NEW j \in 1..k PROVE \E p \in 1..(k - 1) : b[p] = a[j]
  <2>1. j \in 1..Len(a) /\ raw[a[j]].ts <= raw[a[k]].ts
    <3>1. j \in 1..Len(a) /\ (j = k \/ j < k)
      BY <1>2
    <3>2. a[j] \in ids /\ a[k] \in ids
      BY <1>2, <3>1
    <3>3. j < k => raw[a[j]].ts <= raw[a[k]].ts
      BY <3>1 DEF SortedBy
    <3> QED
      BY <3>1, <3>2, <3>3
  <2>2. a[j] \in ToSet(b)
    BY <1>2, <2>1 DEF SortedBy
  <2>3. PICK p \in 1..Len(b) : b[p] = a[j]
    BY <1>2, <2>2 DEF ToSet
  <2>4. ~(k < p) /\ p # k
    <3>1. k < p => raw[b[k]].ts <= raw[b[p]].ts
      BY DEF SortedBy
    <3>2. a[j] \in ids /\ a[k] \in ids /\ b[k] \in ids
      BY <1>2, <2>1
    <3>3. raw[a[j]].ts < raw[b[k]].ts /\ raw[a[j]].ts \in Nat /\ raw[b[k]].ts \in Nat
      BY <1>1, <2>1, <3>2
    <3> QED
      BY <2>3, <3>1, <3>3
  <2> QED
    BY <1>2, <2>3, <2>4
<1>4. PICK f : f = [j \in 1..k |-> CHOOSE p \in 1..(k - 1) : b[p] = a[j]]
  OBVIOUS
<1>5. \A j \in 1..k : f[j] \in 1..(k - 1) /\ b[f[j]] = a[j]
  BY <1>3, <1>4
<1>6. f \in [1..k -> 1..(k - 1)]
  BY <1>4, <1>5
<1>7. k \in Nat /\ k - 1 \in Nat
  BY <1>2
<1>8. /\ IsFiniteSet(1..k) /\ Cardinality(1..k) = k
      /\ IsFiniteSet(1..(k - 1)) /\ Cardinality(1..(k - 1)) = k - 1
  BY <1>7, IntervalSize
<1>9. PICK S, T : S = 1..k /\ T = 1..(k - 1)
  OBVIOUS
<1>20. \E x, y \in S : x # y /\ f[x] = f[y]
  <2>1. IsFiniteSet(S) /\ IsFiniteSet(T) /\ Cardinality(T) < Cardinality(S) /\ f \in [S -> T]
    BY <1>6, <1>7, <1>8, <1>9
  <2> HIDE <1>9
  <2> QED
    BY <2>1, FS_PigeonHole
<1>21. PICK x \in 1..k, y \in 1..k : x # y /\ f[x] = f[y]
  BY <1>9, <1>20
<1>10. a[x] = a[y]
  BY <1>5, <1>21
<1>11. x \in 1..Len(a) /\ y \in 1..Len(a)
  BY <1>2
<1> QED
  BY <1>2, <1>21, <1>10, <1>11 DEF SortedBy, IsInjective

\* So they have the same times, and are the same if no two times are equal.
Alike(raw, a, b) == Len(a) = Len(b) /\ \A k \in 1..Len(a) : raw[a[k]].ts = raw[b[k]].ts

\* Two sorted sequences of the same nodes have the same times.
LEMMA SortedAlike ==
    ASSUME NEW raw, NEW ids, \A i \in ids : raw[i].ts \in Nat, NEW a, NEW b,
           SortedBy(raw, a, ids), SortedBy(raw, b, ids)
    PROVE  /\ Alike(raw, a, b)
           /\ (\A i, j \in ids : raw[i].ts = raw[j].ts => i = j) => a = b
<1>1. /\ a \in Seq(ids) /\ DOMAIN a = 1..Len(a) /\ Len(a) \in Nat /\ \A j \in 1..Len(a) : a[j] \in ids
      /\ b \in Seq(ids) /\ DOMAIN b = 1..Len(b) /\ Len(b) \in Nat /\ \A j \in 1..Len(b) : b[j] \in ids
  BY DEF SortedBy
<1>2. Len(a) = Len(b)
  <2>1. Cardinality(ToSet(a)) = Len(a) /\ Cardinality(ToSet(b)) = Len(b)
    BY <1>1, DistinctSize DEF SortedBy
  <2> QED
    BY <2>1 DEF SortedBy
<1>3. ASSUME NEW k \in 1..Len(a) PROVE raw[a[k]].ts = raw[b[k]].ts
  <2>1. k \in 1..Len(b) /\ a[k] \in ids /\ b[k] \in ids
    BY <1>1, <1>2
  <2>2. ~(raw[a[k]].ts < raw[b[k]].ts)
    BY <2>1, NotSooner
  <2>3. ~(raw[b[k]].ts < raw[a[k]].ts)
    BY <2>1, NotSooner
  <2>4. raw[a[k]].ts \in Nat /\ raw[b[k]].ts \in Nat
    BY <2>1
  <2> QED
    BY <2>2, <2>3, <2>4
<1>4. ASSUME \A i, j \in ids : raw[i].ts = raw[j].ts => i = j PROVE a = b
  <2>1. \A k \in 1..Len(a) : a[k] = b[k]
    BY <1>1, <1>2, <1>3, <1>4
  <2> QED
    BY <1>1, <1>2, <2>1
<1> QED
  BY <1>2, <1>3, <1>4 DEF Alike

\* The sort of the object store is one of them, and so is the one of the map.
LEMMA BothSorted ==
    ASSUME NEW raw, IsRaw(raw), NEW ids \in SUBSET DOMAIN raw, NEW listed \in Seq(DOMAIN raw),
           IsInjective(listed), ToSet(listed) = ids
    PROVE  /\ SortedBy(raw, InTime(raw, ids), ids) /\ SortedBy(raw, StableByTime(raw, listed), ids)
           /\ \A i \in ids : raw[i].ts \in Nat
<1>1. \A i \in DOMAIN raw : raw[i].ts \in Nat
  BY ReadsAssumption DEF IsRaw, RawNodes
<1>2. PICK e, R : e = InTime(raw, ids) /\ R = TimeOrder(raw)
  OBVIOUS
<1>3. Enumerates(e, ids, R) /\ IsOrder(R, ids) /\ IsFiniteSet(ids)
  BY <1>2, InTimeIs
<1>4. /\ e \in Seq(ids) /\ DOMAIN e = 1..Len(e) /\ Len(e) \in Nat
      /\ \A k, l \in 1..Len(e) : <<e[k], e[l]>> \in R <=> k < l
      /\ \A k, l \in 1..Len(e) : e[k] = e[l] => k = l
      /\ \A k \in 1..Len(e) : e[k] \in ids
  <2>1. /\ e \in Seq(ids)
        /\ \A k, l \in 1..Len(e) : <<e[k], e[l]>> \in R <=> k < l
        /\ \A k, l \in 1..Len(e) : e[k] = e[l] => k = l
    BY <1>3 DEF Enumerates
  <2> QED
    BY <2>1
<1>5. SortedBy(raw, e, ids)
  <2>1. IsInjective(e)
    BY <1>4 DEF IsInjective
  <2>2. ToSet(e) = ids
    BY <1>3, EnumeratedSet
  <2>3. ASSUME NEW k \in 1..Len(e), NEW l \in 1..Len(e), k < l PROVE raw[e[k]].ts <= raw[e[l]].ts
    <3>1. e[k] \in DOMAIN raw /\ e[l] \in DOMAIN raw /\ <<e[k], e[l]>> \in R
      BY <1>4, <2>3
    <3>2. Before(raw, e[k], e[l])
      BY <1>2, <3>1, OrderedPairs
    <3>3. raw[e[k]].ts \in Nat /\ raw[e[l]].ts \in Nat
      BY <1>1, <3>1
    <3> QED
      BY <3>2, <3>3 DEF Before
  <2> QED
    BY <1>4, <2>1, <2>2, <2>3 DEF SortedBy
<1>6. PICK t : t = StableByTime(raw, listed)
  OBVIOUS
<1>7. /\ t \in Seq(DOMAIN raw) /\ Len(t) = Len(listed) /\ ToSet(t) = ids /\ IsInjective(t)
      /\ \A k, l \in 1..Len(listed) : k < l => raw[t[k]].ts <= raw[t[l]].ts
  BY <1>6, StableIs
<1>8. t \in Seq(ids)
  <2>1. DOMAIN t = 1..Len(t) /\ Len(t) \in Nat /\ \A k \in 1..Len(t) : t[k] \in ToSet(t)
    BY <1>7 DEF ToSet
  <2>2. \A k \in 1..Len(t) : t[k] \in ids
    BY <1>7, <2>1
  <2>3. t = [k \in 1..Len(t) |-> t[k]]
    BY <1>7, <2>1
  <2> QED
    BY <2>1, <2>2, <2>3
<1>9. SortedBy(raw, t, ids)
  BY <1>7, <1>8 DEF SortedBy
<1> QED
  BY <1>1, <1>2, <1>5, <1>6, <1>9

\* Sorted answers over the same nodes agree, and so do their newest entries.
LEMMA SortedSame ==
    ASSUME NEW ids, obj.raw = mem.raw, \A i \in ids : mem.raw[i].ts \in Nat, NEW a, NEW b,
           SortedBy(mem.raw, a, ids), SortedBy(mem.raw, b, ids), NEW n \in Nat
    PROVE  Same(ids, a, b) /\ Same(ids, Newest(a, n), Newest(b, n))
<1>1. PICK raw : raw = mem.raw
  OBVIOUS
<1>2. /\ Alike(raw, a, b)
      /\ (\A i, j \in ids : raw[i].ts = raw[j].ts => i = j) => a = b
  BY <1>1, SortedAlike
<1>3. CASE ~Tied(ids)
  <2>1. a = b
    BY <1>1, <1>2, <1>3 DEF Tied
  <2> QED
    BY <1>3, <2>1 DEF Same
<1>4. CASE Tied(ids)
  <2>1. a \in Seq(ids) /\ b \in Seq(ids)
    BY DEF SortedBy
  <2>2. /\ DOMAIN a = 1..Len(a) /\ DOMAIN b = 1..Len(b) /\ Len(a) \in Nat /\ Len(a) = Len(b)
        /\ \A k \in 1..Len(a) : raw[a[k]].ts = raw[b[k]].ts
    BY <1>2, <2>1 DEF Alike
  <2>3. TimesOf(raw, a) = TimesOf(raw, b)
    BY <2>2 DEF TimesOf
  <2>4. PICK x, y : x = Newest(a, n) /\ y = Newest(b, n)
    OBVIOUS
  <2>5. /\ x \in Seq(ids) /\ Len(x) = IF n < Len(a) THEN n ELSE Len(a)
        /\ \A k \in 1..Len(x) : x[k] = a[Len(a) - Len(x) + k]
    BY <2>1, <2>4, NewestOf
  <2>6. /\ y \in Seq(ids) /\ Len(y) = IF n < Len(b) THEN n ELSE Len(b)
        /\ \A k \in 1..Len(y) : y[k] = b[Len(b) - Len(y) + k]
    BY <2>1, <2>4, NewestOf
  <2>7. DOMAIN x = 1..Len(x) /\ DOMAIN y = 1..Len(y) /\ Len(x) = Len(y) /\ Len(x) \in Nat /\ ~(Len(a) < Len(x))
    BY <2>2, <2>5, <2>6
  <2>8. ASSUME NEW k \in 1..Len(x) PROVE raw[x[k]].ts = raw[y[k]].ts
    <3>1. Len(a) - Len(x) + k \in 1..Len(a)
      BY <2>2, <2>7
    <3>2. x[k] = a[Len(a) - Len(x) + k] /\ y[k] = b[Len(a) - Len(x) + k]
      BY <2>2, <2>5, <2>6, <2>7
    <3> QED
      BY <2>2, <3>1, <3>2
  <2>9. TimesOf(raw, x) = TimesOf(raw, y)
    BY <2>7, <2>8 DEF TimesOf
  <2> QED
    BY <1>1, <1>4, <2>3, <2>4, <2>9 DEF Same
<1> QED
  BY <1>3, <1>4

\* The view of a session for every limit within its index file.
LEMMA RecentMatch ==
    ASSUME ReadsInv, NEW s \in Sessions, NEW n \in 1..SessionCap
    PROVE  Same(Of(mem.raw, s), MemRecent(s, n), ObjRecent(s, n))
<1>1. PICK raw, all, R : raw = mem.raw /\ all = Of(raw, s) /\ R = TimeOrder(raw)
  OBVIOUS
<1>2. /\ IsRaw(raw) /\ obj.raw = raw /\ mem.session[s] \in Seq(DOMAIN raw)
      /\ IsInjective(mem.session[s]) /\ ToSet(mem.session[s]) = all
      /\ obj.session[s] = Capped(raw, all, SessionCap)
  BY <1>1 DEF ReadsInv, ReadsOk, MemMatches, IndexesMatch
<1>3. all \in SUBSET DOMAIN raw /\ SessionCap \in Nat /\ n \in Nat /\ n <= SessionCap
  BY <1>1, ReadsAssumption DEF Of
<1>4. PICK e, t, u : e = InTime(raw, all) /\ t = InTime(raw, obj.session[s]) /\ u = StableByTime(raw, mem.session[s])
  OBVIOUS
<1>5. SortedBy(raw, e, all) /\ SortedBy(raw, u, all) /\ \A i \in all : raw[i].ts \in Nat
  BY <1>2, <1>3, <1>4, BothSorted
<1>6. Same(all, Newest(u, n), Newest(e, n))
  BY <1>1, <1>2, <1>3, <1>5, SortedSame
<1>7. IsFiniteSet(all) /\ IsOrder(R, all) /\ Enumerates(e, all, R)
  BY <1>1, <1>2, <1>3, <1>4, InTimeIs
<1>8. PICK top : top = Top(R, all, SessionCap)
  OBVIOUS
<1>9. obj.session[s] = top
  BY <1>1, <1>2, <1>3, <1>8, CappedIs
<1>10. top \in SUBSET DOMAIN raw
  BY <1>3, <1>8 DEF Top
<1>11. Enumerates(t, top, R)
  BY <1>1, <1>2, <1>4, <1>9, <1>10, InTimeIs
<1>12. Newest(e, n) = Newest(t, n)
  BY <1>3, <1>7, <1>8, <1>11, NewestOfTop
<1> QED
  BY <1>1, <1>2, <1>4, <1>6, <1>12 DEF MemRecent, MemSessionRaw, ObjRecent, ObjSessionRaw

\* The input of a distillation, and how an oversized loop is recognised.
LEMMA LoopsMatch ==
    ASSUME ReadsInv, NEW l \in Loops, NEW n \in 1..SessionCap
    PROVE  IF Cardinality(OfLoop(mem.raw, l)) <= n
           THEN /\ Same(OfLoop(mem.raw, l), MemLoopBounded(l, n + 1), ObjLoopBounded(l, n + 1))
                /\ Same(OfLoop(mem.raw, l), MemLoop(l), ObjLoop(l))
           ELSE Len(MemLoopBounded(l, n + 1)) > n /\ Len(ObjLoopBounded(l, n + 1)) > n
<1>1. PICK raw, all, R : raw = mem.raw /\ all = OfLoop(raw, l) /\ R = TimeOrder(raw)
  OBVIOUS
<1>2. PICK listed : listed = mem.loop[l]
  OBVIOUS
<1>3. /\ IsRaw(raw) /\ obj.raw = raw /\ listed \in Seq(DOMAIN raw)
      /\ IsInjective(listed) /\ ToSet(listed) = all
      /\ obj.loop[l] = Capped(raw, all, LoopCap)
  BY <1>1, <1>2 DEF ReadsInv, ReadsOk, MemMatches, IndexesMatch
<1>4. /\ all \in SUBSET DOMAIN raw /\ LoopCap \in Nat /\ n \in Nat /\ n + 1 \in Nat
      /\ n + 1 <= LoopCap
  BY <1>1, ReadsAssumption DEF OfLoop
<1>5. Cardinality(all) = Len(listed) /\ Len(listed) \in Nat
  BY <1>3, DistinctSize
<1>6. IsFiniteSet(all) /\ IsOrder(R, all)
  BY <1>1, <1>3, <1>4, InTimeIs
<1>7. PICK top : top = Top(R, all, LoopCap)
  OBVIOUS
<1>8. /\ obj.loop[l] = top /\ top \in SUBSET all /\ top \in SUBSET DOMAIN raw
      /\ Cardinality(top) = Least(LoopCap, Cardinality(all))
  <2>1. obj.loop[l] = top
    BY <1>1, <1>3, <1>4, <1>7, CappedIs
  <2>2. top \in SUBSET all /\ Cardinality(top) = Least(LoopCap, Cardinality(all))
    BY <1>4, <1>6, <1>7, TopSize
  <2> QED
    BY <1>4, <2>1, <2>2
<1>9. PICK t, u : t = InTime(raw, top) /\ u = StableByTime(raw, listed)
  OBVIOUS
<1>10. t \in Seq(top) /\ Len(t) = Cardinality(top) /\ Len(t) \in Nat
  BY <1>1, <1>3, <1>8, <1>9, InTimeIs DEF Enumerates
<1>11. PICK f, g : f = First(listed, n + 1) /\ g = First(t, n + 1)
  OBVIOUS
<1>12. f \in Seq(DOMAIN raw) /\ Len(f) = (IF n + 1 < Len(listed) THEN n + 1 ELSE Len(listed))
       /\ (Len(listed) <= n + 1 => f = listed)
  BY <1>3, <1>4, <1>11, FirstOf
<1>13. Len(g) = (IF n + 1 < Len(t) THEN n + 1 ELSE Len(t)) /\ (Len(t) <= n + 1 => g = t)
  BY <1>4, <1>10, <1>11, FirstOf
<1>14. CASE Cardinality(all) <= n
  <2>1. Cardinality(top) = Cardinality(all)
    BY <1>4, <1>5, <1>8, <1>14 DEF Least
  <2>2. top = all
    BY <1>6, <1>8, <2>1, FS_Subset
  <2>3. f = listed /\ g = t
    BY <1>4, <1>5, <1>10, <1>12, <1>13, <1>14, <2>1
  <2>4. SortedBy(raw, t, all) /\ SortedBy(raw, u, all) /\ \A i \in all : raw[i].ts \in Nat
    BY <1>3, <1>4, <1>9, <2>2, BothSorted
  <2>5. Same(all, u, t)
    BY <1>1, <1>3, <1>4, <2>4, SortedSame
  <2>6. MemLoopBounded(l, n + 1) = u /\ MemLoop(l) = u
    BY <1>1, <1>2, <1>9, <1>11, <2>3 DEF MemLoopBounded, MemLoop
  <2>7. ObjLoopBounded(l, n + 1) = t /\ ObjLoop(l) = t
    BY <1>3, <1>8, <1>9, <1>11, <2>3 DEF ObjLoopBounded, ObjLoop
  <2> QED
    BY <1>1, <1>14, <2>5, <2>6, <2>7
<1>15. CASE ~(Cardinality(all) <= n)
  <2>1. Len(f) > n
    BY <1>4, <1>5, <1>12, <1>15
  <2>2. Len(t) >= n + 1
    BY <1>4, <1>5, <1>8, <1>10, <1>15 DEF Least
  <2>3. Len(g) > n
    BY <1>4, <1>10, <1>13, <2>2
  <2>4. Len(MemLoopBounded(l, n + 1)) = Len(f)
    BY <1>1, <1>2, <1>3, <1>11, <1>12, StableIs DEF MemLoopBounded
  <2>5. ObjLoopBounded(l, n + 1) = g
    BY <1>3, <1>8, <1>9, <1>11 DEF ObjLoopBounded, ObjLoop
  <2> QED
    BY <1>1, <1>15, <2>1, <2>3, <2>4, <2>5
<1> QED
  BY <1>14, <1>15

\* What a session, a loop and the backlog list, whichever backend is asked.
LEMMA ReadsMatch == ReadsInv => ReadsAgree
<1> SUFFICES ASSUME ReadsInv PROVE ReadsAgree
  OBVIOUS
<1>1. \A s \in Sessions, n \in 1..SessionCap : Same(Of(mem.raw, s), MemRecent(s, n), ObjRecent(s, n))
  BY RecentMatch
<1>2. ASSUME NEW l \in Loops, NEW n \in 1..SessionCap
      PROVE  LET all == {i \in DOMAIN mem.raw : mem.raw[i].loop = l}
             IN  IF Cardinality(all) <= n
                 THEN /\ Same(all, MemLoopBounded(l, n + 1), ObjLoopBounded(l, n + 1))
                      /\ Same(all, MemLoop(l), ObjLoop(l))
                 ELSE Len(MemLoopBounded(l, n + 1)) > n /\ Len(ObjLoopBounded(l, n + 1)) > n
  BY LoopsMatch DEF OfLoop
<1>3. ASSUME NEW onlyPushed \in BOOLEAN, NEW n \in Limits
      PROVE  Same(DOMAIN mem.raw, MemBacklog(onlyPushed, n), ObjBacklog(onlyPushed, n))
  <2>1. obj.raw = mem.raw /\ obj.undistilled = Undistilled(mem.raw)
        /\ obj.pushed = {i \in Undistilled(mem.raw) : mem.raw[i].pushed}
    BY DEF ReadsInv, ReadsOk, MemMatches, IndexesMatch
  <2>2. {i \in Undistilled(mem.raw) : onlyPushed => mem.raw[i].pushed}
           = IF onlyPushed THEN obj.pushed ELSE obj.undistilled
    BY <2>1
  <2>3. MemBacklog(onlyPushed, n) = ObjBacklog(onlyPushed, n)
    BY <2>1, <2>2 DEF MemBacklog, ObjBacklog
  <2> QED
    BY <2>1, <2>3 DEF Same
<1> QED
  BY <1>1, <1>2, <1>3 DEF ReadsAgree

\* Both backends list the same of a session, of a loop and of the backlog, in the
\* order of time, up to the order of nodes stored at the same time.
THEOREM ReadsOfBothAgree == MemorySpec => []ReadsAgree
BY ReadsInvariant, ReadsMatch, PTL

----------------------------------------------------------------------------
(* The abstract nodes. *)

\* Abstract nodes as PersistAbstract and ImportAbstract store them; the sources of
\* a node the engine checked are there and of its session.
KnowOk(k, done, raw) ==
    /\ DOMAIN k \in SUBSET AbstractIds
    /\ \A a \in DOMAIN k : \E c \in Contents, s \in Sessions : k[a] = StoredNode(c, s)
    /\ \A a \in DOMAIN k \ done : \A i \in ToSet(k[a].raws) :
          i \in DOMAIN raw /\ Session(raw[i]) = k[a].session

\* Between two states no raw node goes and none changes its session.
Kept(raw, raw2) ==
    \A i \in DOMAIN raw : i \in DOMAIN raw2 /\ Session(raw2[i]) = Session(raw[i])

\* The least of a set of numbers.
LEMMA LeastOf ==
    ASSUME NEW S \in SUBSET Nat, S # {}
    PROVE  Min(S) \in S /\ \A y \in S : Min(S) <= y
BY LeastNat DEF Min

\* A clamped limit is at least one and within its bound.
LEMMA Clamped ==
    ASSUME NEW r \in Nat, NEW b \in Nat \ {0}
    PROVE  Clamp(r, b) \in Nat /\ 1 <= Clamp(r, b) /\ Clamp(r, b) <= b /\ (r = b => Clamp(r, b) = b)
<1>1. PICK m : m = Max({r, 1})
  OBVIOUS
<1>2. m \in {r, 1} /\ \A y \in {r, 1} : y <= m
  <2>1. PICK S : S = {r, 1}
    OBVIOUS
  <2>2. IsFiniteSet(S) /\ S # {} /\ S \subseteq Nat
    <3>1. IsFiniteSet({r} \cup {1})
      BY FS_Singleton, FS_AddElement
    <3>2. S = {r} \cup {1}
      BY <2>1
    <3> QED
      BY <2>1, <3>1, <3>2
  <2> HIDE <2>1
  <2>3. Max(S) \in S /\ \A y \in S : y <= Max(S)
    BY <2>2, GreatestOf
  <2> QED
    BY <1>1, <2>1, <2>3
<1>3. PICK n : n = Min({m, b})
  OBVIOUS
<1>4. n \in {m, b} /\ \A y \in {m, b} : n <= y
  <2>1. PICK S : S = {m, b}
    OBVIOUS
  <2>2. S \in SUBSET Nat /\ S # {}
    BY <1>2, <2>1
  <2>3. Min(S) \in S /\ \A y \in S : Min(S) <= y
    BY <2>2, LeastOf
  <2> QED
    BY <1>3, <2>1, <2>3
<1>5. n \in Nat /\ 1 <= n /\ n <= b /\ (r = b => n = b)
  BY <1>2, <1>4
<1> QED
  BY <1>1, <1>3, <1>5 DEF Clamp

\* A sequence of at most n elements has at most n different ones, and so have
\* those of them that are kept.
LEMMA FewShown ==
    ASSUME NEW T, NEW s \in Seq(T), NEW A \in SUBSET ToSet(s)
    PROVE  IsFiniteSet(A) /\ Cardinality(A) \in Nat /\ Cardinality(A) <= Len(s)
<1>1. DOMAIN s = 1..Len(s) /\ Len(s) \in Nat
  OBVIOUS
<1>2. IsFiniteSet(1..Len(s)) /\ Cardinality(1..Len(s)) = Len(s)
  BY <1>1, IntervalSize
<1>3. s \in Surjection(1..Len(s), ToSet(s))
  BY <1>1 DEF ToSet, Surjection
<1>4. IsFiniteSet(ToSet(s)) /\ Cardinality(ToSet(s)) <= Len(s) /\ Cardinality(ToSet(s)) \in Nat
  BY <1>2, <1>3, FS_Surjection, FS_CardinalityType
<1>5. IsFiniteSet(A) /\ Cardinality(A) <= Cardinality(ToSet(s)) /\ Cardinality(A) \in Nat
  BY <1>4, FS_Subset, FS_CardinalityType
<1> QED
  BY <1>1, <1>4, <1>5

\* The fields of a stored abstract node.
LEMMA StoredIs ==
    ASSUME NEW done, NEW raw, KnowOk(know, done, raw), NEW a \in DOMAIN know
    PROVE  /\ a \in AbstractIds /\ know[a].session \in Sessions /\ know[a].raws \in Seq(RawIds)
           /\ know[a].links \in SUBSET AbstractIds /\ know[a].relations \in SUBSET Relation
<1>1. PICK c \in Contents, s \in Sessions : know[a] = StoredNode(c, s)
  BY DEF KnowOk
<1>2. c \in AbstractContent
  BY ToolsAssumption
<1>3. c.raws \in Seq(RawIds) /\ c.links \in SUBSET AbstractIds /\ c.relations \in SUBSET Relation
  BY <1>2 DEF AbstractContent
<1> QED
  BY <1>1, <1>3 DEF StoredNode, KnowOk

\* The inserts, updates and rebuilds keep every raw node and its session.
LEMMA RawKept == ReadsInv /\ [ReadsNext]_readVars => Kept(obj.raw, obj'.raw)
<1> SUFFICES ASSUME ReadsInv, [ReadsNext]_readVars PROVE Kept(obj.raw, obj'.raw)
  OBVIOUS
<1>1. ReadsOk(mem, obj)
  BY DEF ReadsInv
<1>1a. ReadsOk(mem', obj')
  BY ReadsInvStep DEF ReadsInv
<1>2. ASSUME NEW id \in RawIds, NEW l \in Loops, NEW t \in Times, NEW key \in Keys \cup {NoKey},
             PersistRaw(id, l, t, key)
      PROVE  Kept(obj.raw, obj'.raw)
  <2>1. PICK m : m = MemInsertOnce(mem, id, NewNode(l, t, key))
    OBVIOUS
  <2>2. PICK i : i = IF id \in DOMAIN m.raw THEN id ELSE m.ops[key]
    OBVIOUS
  <2>3. mem' = MemIndex(m, i) /\ id \notin DOMAIN mem.raw
    BY <1>2, <2>1, <2>2 DEF PersistRaw
  <2>4. MemShape(mem)
    BY <1>1 DEF ReadsOk
  <2>5. Kept(mem.raw, m.raw) /\ MemShape(m)
    <3>1. CASE m = mem
      BY <2>4, <3>1 DEF Kept
    <3>2. CASE m = MemInsert(mem, id, NewNode(l, t, key))
      <4>1. m.raw = Put(mem.raw, id, NewNode(l, t, key)) /\ MemShape(m)
        BY <2>4, <3>2 DEF MemInsert, MemShape
      <4> QED
        BY <2>3, <4>1 DEF Kept, Put
    <3> QED
      BY <2>1, <3>1, <3>2 DEF MemInsertOnce
  <2>6. mem'.raw = m.raw
    BY <2>3, <2>5 DEF MemIndex, MemShape
  <2> QED
    BY <1>1, <1>1a, <2>5, <2>6 DEF ReadsOk, MemMatches
<1>3. ASSUME NEW ids, NEW p \in Patches, UpdateRawLifecycle(ids, p)
      PROVE  Kept(obj.raw, obj'.raw)
  <2>1. mem' = MemUpdate(mem, ids, p)
    BY <1>3 DEF UpdateRawLifecycle
  <2>2. MemShape(mem) /\ mem.raw = obj.raw /\ mem'.raw = obj'.raw /\ IsRaw(obj.raw)
    BY <1>1, <1>1a DEF ReadsOk, MemMatches
  <2>3. mem'.raw = [i \in DOMAIN mem.raw |-> IF i \in ids THEN Patched(mem.raw[i], p) ELSE mem.raw[i]]
    BY <2>1, <2>2 DEF MemUpdate, MemShape
  <2>4. ASSUME NEW i \in DOMAIN mem.raw PROVE Session(mem'.raw[i]) = Session(mem.raw[i])
    <3>1. Patched(mem.raw[i], p).loop = mem.raw[i].loop
      BY <2>2 DEF Patched, IsRaw, RawNodes
    <3> QED
      BY <2>3, <3>1 DEF Session
  <2> QED
    BY <2>2, <2>3, <2>4 DEF Kept
<1>4. ASSUME RebuildIndexes PROVE Kept(obj.raw, obj'.raw)
  <2>1. mem' = mem
    BY <1>4 DEF RebuildIndexes
  <2>2. mem.raw = obj.raw /\ mem'.raw = obj'.raw
    BY <1>1, <1>1a DEF ReadsOk, MemMatches
  <2> QED
    BY <2>1, <2>2 DEF Kept
<1>5. ASSUME UNCHANGED readVars PROVE Kept(obj.raw, obj'.raw)
  BY <1>5 DEF readVars, Kept
<1> QED
  BY <1>2, <1>3, <1>4, <1>5 DEF ReadsNext

\* What holds of the abstract nodes outlives changes of the raw nodes.
ToolsInv == KnowOk(know, imported, obj.raw)

\* Raw nodes are only added to or patched, which no abstract node notices.
LEMMA ToolsInvReads ==
    ASSUME ToolsInv, UNCHANGED toolVars, Kept(obj.raw, obj'.raw)
    PROVE  ToolsInv'
<1>1. know' = know /\ imported' = imported
  BY DEF toolVars
<1>2. \A a \in DOMAIN know \ imported : \A i \in ToSet(know[a].raws) :
          i \in DOMAIN obj'.raw /\ Session(obj'.raw[i]) = know[a].session
  BY DEF ToolsInv, KnowOk, Kept
<1> QED
  BY <1>1, <1>2 DEF ToolsInv, KnowOk

\* A new node is stored whole; if the engine stored it, its sources were there.
LEMMA ToolsInvStores ==
    ASSUME ToolsInv, obj' = obj, NEW a \in AbstractIds, NEW s \in Sessions, NEW c \in Contents,
           PersistAbstract(a, s, c) \/ ImportAbstract(a, s, c)
    PROVE  ToolsInv'
<1>1. a \notin DOMAIN know /\ know' = Put(know, a, StoredNode(c, s))
  BY DEF PersistAbstract, ImportAbstract
<1>2. /\ DOMAIN know' = DOMAIN know \cup {a} /\ know'[a] = StoredNode(c, s)
      /\ \A b \in DOMAIN know : b # a /\ know'[b] = know[b]
  BY <1>1 DEF Put
<1>3. DOMAIN know' \in SUBSET AbstractIds
  BY <1>2 DEF ToolsInv, KnowOk
<1>4. \A b \in DOMAIN know' : \E d \in Contents, r \in Sessions : know'[b] = StoredNode(d, r)
  BY <1>2 DEF ToolsInv, KnowOk
<1>5. ASSUME NEW b \in DOMAIN know' \ imported', NEW i \in ToSet(know'[b].raws)
      PROVE  i \in DOMAIN obj'.raw /\ Session(obj'.raw[i]) = know'[b].session
  <2>1. CASE b # a
    <3>1. b \in DOMAIN know \ imported /\ know'[b] = know[b]
      BY <1>2, <2>1 DEF PersistAbstract, ImportAbstract
    <3> QED
      BY <1>5, <3>1 DEF ToolsInv, KnowOk
  <2>2. CASE b = a
    <3>1. WellReferenced(c, s)
      BY <2>2 DEF PersistAbstract, ImportAbstract
    <3>2. know'[b].raws = c.raws /\ know'[b].session = s
      BY <1>2, <2>2 DEF StoredNode
    <3>3. i \in RawReferences(c)
      BY <1>5, <3>2 DEF RawReferences
    <3> QED
      BY <3>1, <3>2, <3>3 DEF WellReferenced
  <2> QED
    BY <2>1, <2>2
<1> QED
  BY <1>3, <1>4, <1>5 DEF ToolsInv, KnowOk

\* Every abstract node has the session it was stored with, and what the engine
\* stored keeps its sources.
THEOREM ToolsInvariant == MemorySpec => [](ReadsInv /\ ToolsInv)
<1>1. ReadsInit /\ ToolsInit => ToolsInv
  BY DEF ToolsInit, ToolsInv, KnowOk
<1>2. ReadsInv /\ ToolsInv /\ [MemoryNext]_<<readVars, toolVars>> => ToolsInv'
  <2> SUFFICES ASSUME ReadsInv, ToolsInv, [MemoryNext]_<<readVars, toolVars>> PROVE ToolsInv'
    OBVIOUS
  <2>1. CASE ReadsNext /\ UNCHANGED toolVars
    BY <2>1, RawKept, ToolsInvReads
  <2>2. CASE ToolsNext /\ UNCHANGED readVars
    <3>1. obj' = obj
      BY <2>2 DEF readVars
    <3> QED
      BY <2>2, <3>1, ToolsInvStores DEF ToolsNext
  <2>3. CASE UNCHANGED <<readVars, toolVars>>
    BY <2>3, RawKept, ToolsInvReads
  <2> QED
    BY <2>1, <2>2, <2>3 DEF MemoryNext
<1> QED
  BY <1>1, <1>2, ReadsInvariant, PTL DEF MemorySpec

----------------------------------------------------------------------------
(* The edges of a node. *)

\* Edges, and the order their answers come in.
EdgeType == [predicate : AllPredicates, to : AbstractIds]
PlaceOf(e) == CHOOSE k \in DOMAIN PredicateOrder : PredicateOrder[k] = e.predicate
PriorTo(e, f) == \/ PlaceOf(e) < PlaceOf(f)
                 \/ PlaceOf(e) = PlaceOf(f) /\ e.to < f.to
EdgeOrder == {p \in EdgeType \X EdgeType : PriorTo(p[1], p[2])}
Chosen(a, predicates) == {e \in Edges(a) : e.predicate \in predicates}
MostEdges == Cardinality(AbstractIds) * Cardinality(AllPredicates)

\* There are finitely many predicates, nodes and edges.
LEMMA EdgeTypeIs ==
    /\ IsFiniteSet(EdgeType) /\ MostEdges \in Nat /\ Cardinality(EdgeType) <= MostEdges
    /\ Cardinality(AbstractIds) \in Nat /\ Cardinality(AllPredicates) \in Nat /\ IsFiniteSet(AllPredicates)
    /\ Cardinality(AllPredicates) >= 1
<1>1. PredicateOrder \in Seq(STRING)
  BY ToolsAssumption
<1>2. IsFiniteSet(ToSet(PredicateOrder))
  BY <1>1, FewShown
<1>3. IsFiniteSet(AllPredicates) /\ IsFiniteSet(AbstractIds)
  BY <1>2, ToolsAssumption DEF AllPredicates
<1>4. Cardinality(AllPredicates) \in Nat /\ Cardinality(AbstractIds) \in Nat
  BY <1>3, FS_CardinalityType
<1>5. IsFiniteSet(AbstractIds \X AllPredicates)
      /\ Cardinality(AbstractIds \X AllPredicates) = Cardinality(AbstractIds) * Cardinality(AllPredicates)
  BY <1>3, FS_Product
<1>6. PICK f : f = [p \in AbstractIds \X AllPredicates |-> [predicate |-> p[2], to |-> p[1]]]
  OBVIOUS
<1>7. f \in Surjection(AbstractIds \X AllPredicates, EdgeType)
  <2>1. f \in [AbstractIds \X AllPredicates -> EdgeType]
    BY <1>6 DEF EdgeType
  <2>2. ASSUME NEW e \in EdgeType PROVE \E p \in AbstractIds \X AllPredicates : f[p] = e
    <3>1. <<e.to, e.predicate>> \in AbstractIds \X AllPredicates
      BY DEF EdgeType
    <3>2. f[<<e.to, e.predicate>>] = [predicate |-> e.predicate, to |-> e.to]
      BY <1>6, <3>1
    <3>3. e = [predicate |-> e.predicate, to |-> e.to]
      BY DEF EdgeType
    <3> QED
      BY <3>1, <3>2, <3>3
  <2> QED
    BY <2>1, <2>2 DEF Surjection
<1>8. IsFiniteSet(EdgeType) /\ Cardinality(EdgeType) <= Cardinality(AbstractIds \X AllPredicates)
  BY <1>5, <1>7, FS_Surjection
<1>9. Cardinality(AllPredicates) >= 1
  <2>1. Cardinality(AllPredicates) # 0
    BY <1>3, ToolsAssumption, FS_EmptySet
  <2> QED
    BY <1>4, <2>1
<1> QED
  BY <1>3, <1>4, <1>5, <1>8, <1>9 DEF MostEdges

\* The order is one.
LEMMA EdgesOrdered == IsOrder(EdgeOrder, EdgeType)
<1>1. ASSUME NEW e \in EdgeType
      PROVE  PlaceOf(e) \in Nat /\ PredicateOrder[PlaceOf(e)] = e.predicate /\ e.to \in Nat
  <2>1. e.predicate \in AllPredicates /\ e.to \in Nat
    BY ToolsAssumption DEF EdgeType
  <2>2. \E k \in DOMAIN PredicateOrder : PredicateOrder[k] = e.predicate
    BY <2>1 DEF AllPredicates, ToSet
  <2>3. DOMAIN PredicateOrder \subseteq Nat
    BY ToolsAssumption
  <2> QED
    BY <2>1, <2>2, <2>3 DEF PlaceOf
<1>2. ASSUME NEW e \in EdgeType, NEW f \in EdgeType
      PROVE  /\ <<e, f>> \in EdgeOrder <=> PriorTo(e, f)
             /\ PlaceOf(e) = PlaceOf(f) /\ e.to = f.to => e = f
  <2>1. <<e, f>> \in EdgeType \X EdgeType /\ <<e, f>>[1] = e /\ <<e, f>>[2] = f
    OBVIOUS
  <2>2. <<e, f>> \in EdgeOrder <=> PriorTo(<<e, f>>[1], <<e, f>>[2])
    BY <2>1 DEF EdgeOrder
  <2>3. PlaceOf(e) = PlaceOf(f) => e.predicate = f.predicate
    BY <1>1
  <2>4. e = [predicate |-> e.predicate, to |-> e.to] /\ f = [predicate |-> f.predicate, to |-> f.to]
    BY DEF EdgeType
  <2> QED
    BY <2>1, <2>2, <2>3, <2>4
<1>3. PICK place : place = [e \in EdgeType |-> PlaceOf(e)]
  OBVIOUS
<1>4. \A e, f \in EdgeType : <<e, f>> \in EdgeOrder <=>
          place[e] < place[f] \/ (place[e] = place[f] /\ e.to < f.to)
  BY <1>2, <1>3 DEF PriorTo
<1>5. \A e \in EdgeType : place[e] \in Nat /\ e.to \in Nat
  BY <1>1, <1>3
<1>6. \A e, f \in EdgeType : place[e] = place[f] /\ e.to = f.to => e = f
  BY <1>2, <1>3
<1> QED
  <2>1. \A i \in EdgeType : <<i, i>> \notin EdgeOrder
    BY <1>4, <1>5
  <2>2. ASSUME NEW i \in EdgeType, NEW j \in EdgeType, NEW k \in EdgeType,
               <<i, j>> \in EdgeOrder, <<j, k>> \in EdgeOrder
        PROVE  <<i, k>> \in EdgeOrder
    BY <1>4, <1>5, <2>2
  <2>3. ASSUME NEW i \in EdgeType, NEW j \in EdgeType
        PROVE  i = j \/ <<i, j>> \in EdgeOrder \/ <<j, i>> \in EdgeOrder
    BY <1>4, <1>5, <1>6
  <2> QED
    BY <2>1, <2>2, <2>3 DEF IsOrder

\* The edges of a stored node, each once.
LEMMA EdgesOfIs ==
    ASSUME ToolsInv, NEW a \in DOMAIN know, NEW predicates
    PROVE  /\ Chosen(a, predicates) \in SUBSET EdgeType
           /\ Enumerates(EdgesOf(a, predicates), Chosen(a, predicates), EdgeOrder)
           /\ Cardinality(Chosen(a, predicates)) \in Nat
           /\ Cardinality(Chosen(a, predicates)) <= MostEdges
<1>1. PICK edges : edges = Chosen(a, predicates)
  OBVIOUS
<1>2. edges \in SUBSET EdgeType
  <2>1. know[a].links \in SUBSET AbstractIds /\ know[a].relations \in SUBSET Relation
    BY StoredIs DEF ToolsInv
  <2>2. \A b \in know[a].links : [predicate |-> "reference", to |-> b] \in EdgeType
    BY <2>1, ToolsAssumption DEF EdgeType
  <2>3. \A r \in know[a].relations : [predicate |-> r.predicate, to |-> r.to] \in EdgeType
    BY <2>1 DEF EdgeType, Relation, Predicates
  <2> QED
    BY <1>1, <2>2, <2>3 DEF Chosen, Edges
<1>3. IsFiniteSet(edges) /\ Cardinality(edges) \in Nat /\ Cardinality(edges) <= MostEdges
  <2>1. IsFiniteSet(edges) /\ Cardinality(edges) <= Cardinality(EdgeType)
    BY <1>2, EdgeTypeIs, FS_Subset
  <2>2. Cardinality(edges) \in Nat /\ Cardinality(EdgeType) \in Nat
    BY <2>1, EdgeTypeIs, FS_CardinalityType
  <2> QED
    BY <2>1, <2>2, EdgeTypeIs
<1>4. IsOrder(EdgeOrder, edges)
  BY <1>2, EdgesOrdered, OrderOfPart
<1>5. Enumerates(ByRank(RankIn(EdgeOrder, edges)), edges, EdgeOrder)
  BY <1>3, <1>4, InOrder
<1>6. EdgesOf(a, predicates) = ByRank(RankIn(EdgeOrder, edges))
  <2>1. ASSUME NEW e \in edges PROVE {f \in edges : PriorTo(f, e)} = Below(EdgeOrder, edges, e)
    <3>1. ASSUME NEW f \in edges PROVE <<f, e>> \in EdgeOrder <=> PriorTo(f, e)
      <4>1. <<f, e>> \in EdgeType \X EdgeType /\ <<f, e>>[1] = f /\ <<f, e>>[2] = e
        BY <1>2
      <4>2. <<f, e>> \in EdgeOrder <=> PriorTo(<<f, e>>[1], <<f, e>>[2])
        BY <4>1 DEF EdgeOrder
      <4> QED
        BY <4>1, <4>2
    <3> QED
      BY <3>1 DEF Below
  <2>2. [e \in edges |-> Cardinality({f \in edges : PriorTo(f, e)})] = RankIn(EdgeOrder, edges)
    BY <2>1 DEF RankIn
  <2>3. EdgesOf(a, predicates) = ByRank([e \in edges |-> Cardinality({f \in edges : PriorTo(f, e)})])
    BY <1>1 DEF EdgesOf, Chosen, PriorTo, PlaceOf
  <2> QED
    BY <2>2, <2>3
<1> QED
  BY <1>1, <1>2, <1>3, <1>5, <1>6

----------------------------------------------------------------------------
(* The loop of a traversal. *)

\* Entries of the queue of a traversal, which are its hits later on.
Entries == [node : AbstractIds, depth : Nat, via : AllPredicates \cup {"start"}]
StartOf(start) == [node |-> start, depth |-> 0, via |-> "start"]
Begin(start) == [visited |-> {}, hits |-> <<>>, queue |-> <<StartOf(start)>>]
Follows(e, h, predicates) ==
    /\ e.depth = h.depth + 1 /\ e.via \in predicates
    /\ [predicate |-> e.via, to |-> e.node] \in Edges(h.node)

\* One turn of the loop, and the states of the loop after 0 to n turns.
TurnOf(w, s, depth, predicates, maxHits) ==
    IF w.queue = <<>> \/ Len(w.hits) >= maxHits THEN w ELSE Visit(w, s, depth, predicates, maxHits)
IsWalk(g, n, start, s, depth, predicates, maxHits) ==
    g = [k \in 0..n |-> IF k = 0 THEN Begin(start) ELSE TurnOf(g[k - 1], s, depth, predicates, maxHits)]

\* Those states exist for every number of turns.
LEMMA WalkExists ==
    ASSUME NEW start, NEW s, NEW depth, NEW predicates, NEW maxHits, NEW n \in Nat
    PROVE  \E g : IsWalk(g, n, start, s, depth, predicates, maxHits)
<1> DEFINE Bad == {m \in Nat : ~\E g : IsWalk(g, m, start, s, depth, predicates, maxHits)}
<1>1. SUFFICES ASSUME Bad # {} PROVE FALSE
  OBVIOUS
<1>2. PICK m \in Bad : \A k \in Bad : m <= k
  <2>1. Bad \in SUBSET Nat
    OBVIOUS
  <2> HIDE DEF Bad
  <2> QED
    BY <1>1, <2>1, LeastNat
<1>3. m # 0
  <2> DEFINE g == [k \in 0..0 |-> Begin(start)]
  <2>1. \A k \in 0..0 : g[k] = IF k = 0 THEN Begin(start)
                               ELSE TurnOf(g[k - 1], s, depth, predicates, maxHits)
    OBVIOUS
  <2>2. IsWalk(g, 0, start, s, depth, predicates, maxHits)
    BY <2>1 DEF IsWalk
  <2> QED
    BY <2>2
<1>4. PICK g : IsWalk(g, m - 1, start, s, depth, predicates, maxHits)
  BY <1>2, <1>3
<1> DEFINE h == [k \in 0..m |-> IF k = m THEN TurnOf(g[m - 1], s, depth, predicates, maxHits) ELSE g[k]]
<1>5. ASSUME NEW k \in 0..m
      PROVE  h[k] = IF k = 0 THEN Begin(start) ELSE TurnOf(h[k - 1], s, depth, predicates, maxHits)
  <2>1. CASE k < m
    <3>1. g[k] = IF k = 0 THEN Begin(start) ELSE TurnOf(g[k - 1], s, depth, predicates, maxHits)
      BY <1>3, <1>4, <2>1 DEF IsWalk
    <3>2. h[k] = g[k] /\ (k # 0 => h[k - 1] = g[k - 1])
      BY <2>1
    <3> QED
      BY <3>1, <3>2
  <2>2. CASE k = m
    BY <1>3, <2>2
  <2> QED
    BY <2>1, <2>2
<1>6. IsWalk(h, m, start, s, depth, predicates, maxHits)
  <2>1. h = [k \in 0..m |-> h[k]]
    OBVIOUS
  <2> HIDE DEF h
  <2> QED
    BY <1>5, <2>1 DEF IsWalk
<1> QED
  BY <1>6

\* The bound on the turns.
LEMMA TurnsIs == Turns \in Nat /\ Turns = 1 + MostEdges * Cardinality(AbstractIds) /\ Turns >= 1
<1>1. MostEdges \in Nat /\ Cardinality(AbstractIds) \in Nat
  BY EdgeTypeIs
<1>2. MostEdges * Cardinality(AbstractIds) \in Nat
  BY <1>1
<1> QED
  BY <1>2 DEF Turns, MostEdges

\* A traversal answers with the hits after the last turn.
LEMMA TraverseUnfold ==
    ASSUME NEW start, NEW s, NEW depth, NEW predicates, NEW maxHits
    PROVE  \E g : /\ IsWalk(g, Turns, start, s, depth, predicates, maxHits)
                  /\ Traverse(start, s, depth, predicates, maxHits) = g[Turns].hits
<1>1. \E g : IsWalk(g, Turns, start, s, depth, predicates, maxHits)
  BY TurnsIs, WalkExists
<1>2. PICK h : h = CHOOSE g : IsWalk(g, Turns, start, s, depth, predicates, maxHits)
  OBVIOUS
<1>3. IsWalk(h, Turns, start, s, depth, predicates, maxHits)
  BY <1>1, <1>2
<1>4. Traverse(start, s, depth, predicates, maxHits) = h[Turns].hits
  BY <1>2 DEF Traverse, IsWalk, TurnOf, Begin, StartOf
<1> QED
  BY <1>3, <1>4

\* What a hit puts into the queue: an entry for each of its chosen edges.
LEMMA OnwardIs ==
    ASSUME ToolsInv, NEW hit \in Entries, hit.node \in DOMAIN know, NEW predicates
    PROVE  /\ Onward(hit, predicates) \in Seq(Entries)
           /\ Len(Onward(hit, predicates)) = Cardinality(Chosen(hit.node, predicates))
           /\ \A k \in 1..Len(Onward(hit, predicates)) : Follows(Onward(hit, predicates)[k], hit, predicates)
           /\ \A e \in Chosen(hit.node, predicates) : \E k \in 1..Len(Onward(hit, predicates)) :
                 /\ Onward(hit, predicates)[k].node = e.to
                 /\ Onward(hit, predicates)[k].depth = hit.depth + 1
<1>1. PICK edges, chosen, on : /\ edges = EdgesOf(hit.node, predicates)
                               /\ chosen = Chosen(hit.node, predicates)
                               /\ on = Onward(hit, predicates)
  OBVIOUS
<1>2. chosen \in SUBSET EdgeType /\ Enumerates(edges, chosen, EdgeOrder)
  BY <1>1, EdgesOfIs
<1>3. edges \in Seq(chosen) /\ Len(edges) = Cardinality(chosen) /\ ToSet(edges) = chosen
  <2>1. ToSet(edges) = chosen
    BY <1>2, EnumeratedSet
  <2>2. edges \in Seq(chosen) /\ Len(edges) = Cardinality(chosen)
    BY <1>2 DEF Enumerates
  <2> QED
    BY <2>1, <2>2
<1>4. DOMAIN edges = 1..Len(edges) /\ Len(edges) \in Nat /\ \A k \in 1..Len(edges) : edges[k] \in chosen
  BY <1>3
<1>5. on = [k \in 1..Len(edges) |->
               [node |-> edges[k].to, depth |-> hit.depth + 1, via |-> edges[k].predicate]]
  BY <1>1, <1>4 DEF Onward
<1>6. ASSUME NEW k \in 1..Len(edges)
      PROVE  on[k] \in Entries /\ Follows(on[k], hit, predicates) /\ on[k].node = edges[k].to
             /\ on[k].depth = hit.depth + 1
  <2>1. edges[k] \in EdgeType /\ edges[k] \in Chosen(hit.node, predicates) /\ hit.depth \in Nat
    BY <1>1, <1>2, <1>4 DEF Entries
  <2>2. on[k] = [node |-> edges[k].to, depth |-> hit.depth + 1, via |-> edges[k].predicate]
    BY <1>5
  <2>3. on[k] \in Entries
    BY <2>1, <2>2 DEF Entries, EdgeType
  <2>4. edges[k] = [predicate |-> on[k].via, to |-> on[k].node]
    BY <2>1, <2>2 DEF EdgeType
  <2>5. edges[k] \in Edges(hit.node) /\ edges[k].predicate \in predicates
    BY <2>1 DEF Chosen
  <2> QED
    BY <2>1, <2>2, <2>3, <2>4, <2>5 DEF Follows
<1>7. on \in Seq(Entries) /\ Len(on) = Len(edges)
  <2>1. on = [k \in 1..Len(edges) |-> on[k]]
    BY <1>5
  <2> QED
    BY <1>4, <1>6, <2>1
<1>8. ASSUME NEW e \in chosen
      PROVE  \E k \in 1..Len(on) : on[k].node = e.to /\ on[k].depth = hit.depth + 1
  <2>1. PICK k \in 1..Len(edges) : edges[k] = e
    BY <1>3, <1>4 DEF ToSet
  <2> QED
    BY <1>6, <1>7, <2>1
<1> QED
  BY <1>1, <1>3, <1>6, <1>7, <1>8

WalkShape(w) ==
    /\ w = [visited |-> w.visited, hits |-> w.hits, queue |-> w.queue]
    /\ w.visited \in SUBSET AbstractIds /\ w.hits \in Seq(Entries) /\ w.queue \in Seq(Entries)

\* What holds between two turns: hits and queue fit, the hits are different nodes
\* of the session, and each of them but start follows an earlier one.
WalkOk(w, start, s, depth, predicates, maxHits) ==
    /\ WalkShape(w) /\ Len(w.hits) + Len(w.queue) <= maxHits
    /\ \A k \in 1..Len(w.hits) :
          w.hits[k].node \in w.visited /\ InScope(w.hits[k].node, s) /\ w.hits[k].depth <= depth
    /\ \A j, k \in 1..Len(w.hits) : w.hits[j].node = w.hits[k].node => j = k
    /\ \A k \in 2..Len(w.hits) : \E j \in 1..(k - 1) : Follows(w.hits[k], w.hits[j], predicates)
    /\ Len(w.hits) # 0 =>
          /\ w.hits[1] = StartOf(start)
          /\ \A q \in 1..Len(w.queue) : \E j \in 1..Len(w.hits) : Follows(w.queue[q], w.hits[j], predicates)
    /\ Len(w.hits) = 0 => w = Begin(start)

\* The three outcomes of a turn.
Dropped(v, w) ==
    v.visited = w.visited /\ v.hits = w.hits /\ v.queue = Tail(w.queue)
Passed(v, w) ==
    v.visited = w.visited \cup {w.queue[1].node} /\ v.hits = w.hits /\ v.queue = Tail(w.queue)
IsHit(v, w, more) ==
    /\ v.visited = w.visited \cup {w.queue[1].node} /\ v.hits = Append(w.hits, w.queue[1])
    /\ v.queue = Tail(w.queue) \o more
Room(w, maxHits) == maxHits - (Len(w.hits) + 1 + Len(Tail(w.queue)))

\* A turn has one of these outcomes, and leaves room for the edges of a hit.
LEMMA TurnIs ==
    ASSUME ToolsInv, NEW w, WalkShape(w), NEW s, NEW depth, NEW predicates, NEW maxHits \in Nat,
           Len(w.hits) + Len(w.queue) <= maxHits, w.queue # <<>>,
           NEW v, v = TurnOf(w, s, depth, predicates, maxHits)
    PROVE  /\ w.queue[1] \in Entries /\ Room(w, maxHits) \in Nat /\ WalkShape(v)
           /\ \/ (w.queue[1].depth > depth \/ w.queue[1].node \in w.visited) /\ Dropped(v, w)
              \/ /\ ~(w.queue[1].depth > depth) /\ w.queue[1].node \notin w.visited
                 /\ ~InScope(w.queue[1].node, s) /\ Passed(v, w)
              \/ /\ ~(w.queue[1].depth > depth) /\ w.queue[1].node \notin w.visited
                 /\ InScope(w.queue[1].node, s)
                 /\ IsHit(v, w, First(Onward(w.queue[1], predicates), Room(w, maxHits)))
<1>1. PICK head, rest, more :
          /\ head = w.queue[1] /\ rest = Tail(w.queue)
          /\ more = First(Onward(head, predicates), Room(w, maxHits))
  OBVIOUS
<1>2. /\ w.visited \in SUBSET AbstractIds /\ w.hits \in Seq(Entries) /\ w.queue \in Seq(Entries)
      /\ Len(w.queue) \in Nat /\ Len(w.queue) > 0 /\ Len(w.hits) \in Nat
  BY DEF WalkShape
<1>3. head \in Entries /\ rest \in Seq(Entries) /\ Head(w.queue) = head /\ Len(rest) = Len(w.queue) - 1
  BY <1>1, <1>2
<1>4. Room(w, maxHits) \in Nat /\ ~(Len(w.hits) >= maxHits)
  <2>1. PICK h, q : h = Len(w.hits) /\ q = Len(w.queue)
    OBVIOUS
  <2>2. Room(w, maxHits) = maxHits - (h + 1 + (q - 1))
    BY <1>1, <1>3, <2>1 DEF Room
  <2>3. h \in Nat /\ q \in Nat /\ q > 0 /\ h + q <= maxHits
    BY <1>2, <2>1
  <2>4. maxHits - (h + 1 + (q - 1)) \in Nat /\ ~(h >= maxHits)
    BY <2>3
  <2> QED
    BY <2>1, <2>2, <2>4
<1>5. v = Visit(w, s, depth, predicates, maxHits)
  BY <1>4 DEF TurnOf
<1>6. CASE head.depth > depth \/ head.node \in w.visited
  <2>1. v = [w EXCEPT !.queue = rest]
    BY <1>1, <1>3, <1>5, <1>6 DEF Visit
  <2>2. v = [visited |-> w.visited, hits |-> w.hits, queue |-> rest]
    BY <2>1 DEF WalkShape
  <2>3. Dropped(v, w) /\ WalkShape(v)
    BY <1>1, <1>2, <1>3, <2>2 DEF Dropped, WalkShape
  <2> QED
    BY <1>1, <1>3, <1>4, <1>6, <2>3
<1>7. CASE ~(head.depth > depth) /\ head.node \notin w.visited /\ ~InScope(head.node, s)
  <2>1. v = [visited |-> w.visited \cup {head.node}, hits |-> w.hits, queue |-> rest]
    BY <1>1, <1>3, <1>5, <1>7 DEF Visit
  <2>2. head.node \in AbstractIds
    BY <1>3 DEF Entries
  <2>3. Passed(v, w) /\ WalkShape(v)
    BY <1>1, <1>2, <1>3, <2>1, <2>2 DEF Passed, WalkShape
  <2> QED
    BY <1>1, <1>3, <1>4, <1>7, <2>3
<1>8. CASE ~(head.depth > depth) /\ head.node \notin w.visited /\ InScope(head.node, s)
  <2>1. v = [visited |-> w.visited \cup {head.node}, hits |-> Append(w.hits, head), queue |-> rest \o more]
    BY <1>1, <1>3, <1>5, <1>8 DEF Visit, Room
  <2>2. head.node \in AbstractIds /\ head.node \in DOMAIN know
    BY <1>3, <1>8 DEF Entries, InScope
  <2>3. Onward(head, predicates) \in Seq(Entries)
    BY <1>3, <2>2, OnwardIs
  <2>4. more \in Seq(Entries)
    BY <1>1, <1>4, <2>3, FirstOf
  <2>5. Append(w.hits, head) \in Seq(Entries) /\ rest \o more \in Seq(Entries)
    BY <1>2, <1>3, <2>4
  <2>6. IsHit(v, w, more) /\ WalkShape(v)
    BY <1>1, <1>2, <2>1, <2>2, <2>5 DEF IsHit, WalkShape
  <2> QED
    BY <1>1, <1>3, <1>4, <1>8, <2>6
<1> QED
  BY <1>6, <1>7, <1>8

\* The queue without its head.
LEMMA TailIs ==
    ASSUME NEW T, NEW queue \in Seq(T), queue # <<>>
    PROVE  /\ Tail(queue) \in Seq(T) /\ Len(queue) \in Nat /\ Len(Tail(queue)) = Len(queue) - 1 /\ Len(queue) >= 1
           /\ \A q \in 1..Len(Tail(queue)) : q + 1 \in 1..Len(queue) /\ Tail(queue)[q] = queue[q + 1]
OBVIOUS

\* The hits and the queue after a hit, entry by entry.
LEMMA HitIs ==
    ASSUME NEW T, NEW hits \in Seq(T), NEW queue \in Seq(T), queue # <<>>, NEW more \in Seq(T),
           NEW hits2, hits2 = Append(hits, queue[1]), NEW queue2, queue2 = Tail(queue) \o more
    PROVE  /\ Len(hits) \in Nat /\ Len(hits2) = Len(hits) + 1 /\ hits2[Len(hits) + 1] = queue[1]
           /\ \A k \in 1..Len(hits) : hits2[k] = hits[k]
           /\ Len(queue) \in Nat /\ Len(more) \in Nat /\ Len(queue2) = Len(queue) - 1 + Len(more)
           /\ \A q \in 1..Len(queue2) :
                 \/ q <= Len(queue) - 1 /\ q + 1 \in 1..Len(queue) /\ queue2[q] = queue[q + 1]
                 \/ q > Len(queue) - 1 /\ q - (Len(queue) - 1) \in 1..Len(more)
                    /\ queue2[q] = more[q - (Len(queue) - 1)]
           /\ \A q \in 1..Len(more) : /\ Len(queue) - 1 + q \in 1..Len(queue2)
                                      /\ queue2[Len(queue) - 1 + q] = more[q]
<1>1. PICK rest : rest = Tail(queue)
  OBVIOUS
<1>2. rest \in Seq(T) /\ Len(queue) \in Nat /\ Len(rest) = Len(queue) - 1 /\ Len(queue) >= 1
      /\ \A q \in 1..Len(rest) : q + 1 \in 1..Len(queue) /\ rest[q] = queue[q + 1]
  BY <1>1, TailIs
<1>3. /\ Len(hits) \in Nat /\ Len(hits2) = Len(hits) + 1 /\ hits2[Len(hits) + 1] = queue[1]
      /\ \A k \in 1..Len(hits) : hits2[k] = hits[k]
  BY <1>2
<1>4. queue2 = rest \o more
  BY <1>1
<1>5. /\ Len(more) \in Nat /\ Len(rest) \in Nat /\ Len(queue2) = Len(rest) + Len(more)
      /\ \A q \in 1..Len(queue2) : queue2[q] = IF q <= Len(rest) THEN rest[q] ELSE more[q - Len(rest)]
  BY <1>2, <1>4
<1>6. ASSUME NEW q \in 1..Len(queue2)
      PROVE  \/ q <= Len(queue) - 1 /\ q + 1 \in 1..Len(queue) /\ queue2[q] = queue[q + 1]
             \/ q > Len(queue) - 1 /\ q - (Len(queue) - 1) \in 1..Len(more)
                /\ queue2[q] = more[q - (Len(queue) - 1)]
  <2>1. CASE q <= Len(rest)
    BY SMTT(60), <1>2, <1>5, <2>1
  <2>2. CASE ~(q <= Len(rest))
    BY <1>2, <1>5, <2>2
  <2> QED
    BY <2>1, <2>2
<1>7. ASSUME NEW q \in 1..Len(more)
      PROVE  Len(queue) - 1 + q \in 1..Len(queue2) /\ queue2[Len(queue) - 1 + q] = more[q]
  <2>1. PICK j : j = Len(rest) + q
    OBVIOUS
  <2>2. j \in 1..Len(queue2) /\ ~(j <= Len(rest)) /\ j - Len(rest) = q
    BY SMTT(60), <1>5, <2>1
  <2>3. queue2[j] = more[q]
    BY <1>5, <2>2
  <2> QED
    BY <1>2, <2>1, <2>2, <2>3
<1> QED
  BY <1>2, <1>3, <1>5, <1>6, <1>7

\* The part of a hit that goes into the queue.
LEMMA MoreIs ==
    ASSUME ToolsInv, NEW hit \in Entries, hit.node \in DOMAIN know, NEW predicates, NEW room \in Nat,
           NEW more, more = First(Onward(hit, predicates), room)
    PROVE  /\ more \in Seq(Entries) /\ Len(more) \in Nat /\ Len(more) <= room /\ Len(more) <= MostEdges
           /\ \A k \in 1..Len(more) : Follows(more[k], hit, predicates)
           /\ MostEdges <= room => more = Onward(hit, predicates)
<1>1. PICK on : on = Onward(hit, predicates)
  OBVIOUS
<1>2. /\ on \in Seq(Entries) /\ Len(on) \in Nat /\ Len(on) <= MostEdges
      /\ \A k \in 1..Len(on) : Follows(on[k], hit, predicates)
  BY <1>1, OnwardIs, EdgesOfIs
<1>3. /\ more \in Seq(Entries) /\ Len(more) = (IF room < Len(on) THEN room ELSE Len(on))
      /\ \A k \in 1..Len(more) : more[k] = on[k]
      /\ Len(on) <= room => more = on
  BY <1>1, <1>2, FirstOf
<1>4. Len(more) \in Nat /\ Len(more) <= room /\ Len(more) <= Len(on)
  BY <1>2, <1>3
<1>5. MostEdges \in Nat
  BY EdgeTypeIs
<1> QED
  BY <1>1, <1>2, <1>3, <1>4, <1>5

\* The traversal begins well.
LEMMA WalkBegins ==
    ASSUME NEW start, NEW s, InScope(start, s), start \in AbstractIds, NEW depth \in Nat, NEW predicates,
           NEW maxHits \in Nat \ {0}
    PROVE  WalkOk(Begin(start), start, s, depth, predicates, maxHits)
<1>1. StartOf(start) \in Entries
  BY DEF StartOf, Entries
<1>2. PICK w : w = Begin(start)
  OBVIOUS
<1>3. w = [visited |-> {}, hits |-> <<>>, queue |-> <<StartOf(start)>>]
  BY <1>2 DEF Begin
<1>4. Len(w.hits) = 0 /\ Len(w.queue) = 1 /\ w.hits \in Seq(Entries) /\ w.queue \in Seq(Entries)
  BY <1>1, <1>3
<1>5. WalkShape(w)
  BY <1>3, <1>4 DEF WalkShape
<1> QED
  BY <1>2, <1>4, <1>5 DEF WalkOk

\* Every turn keeps that up.
LEMMA WalkStep ==
    ASSUME ToolsInv, NEW start, NEW s, InScope(start, s), NEW depth \in Nat, NEW predicates,
           NEW maxHits \in Nat, NEW w, WalkOk(w, start, s, depth, predicates, maxHits),
           NEW v, v = TurnOf(w, s, depth, predicates, maxHits)
    PROVE  WalkOk(v, start, s, depth, predicates, maxHits)
<1>1. CASE w.queue = <<>>
  <2>1. v = w
    BY <1>1 DEF TurnOf
  <2> QED
    BY <2>1
<1>2. CASE w.queue # <<>>
  <2>1. WalkShape(w) /\ Len(w.hits) + Len(w.queue) <= maxHits
    BY DEF WalkOk
  <2>2. PICK more : more = First(Onward(w.queue[1], predicates), Room(w, maxHits))
    OBVIOUS
  <2>3. /\ w.queue[1] \in Entries /\ Room(w, maxHits) \in Nat /\ WalkShape(v)
        /\ \/ (w.queue[1].depth > depth \/ w.queue[1].node \in w.visited) /\ Dropped(v, w)
           \/ /\ ~(w.queue[1].depth > depth) /\ w.queue[1].node \notin w.visited
              /\ ~InScope(w.queue[1].node, s) /\ Passed(v, w)
           \/ /\ ~(w.queue[1].depth > depth) /\ w.queue[1].node \notin w.visited
              /\ InScope(w.queue[1].node, s) /\ IsHit(v, w, more)
    BY <1>2, <2>1, <2>2, TurnIs
  <2>4. w.hits \in Seq(Entries) /\ w.queue \in Seq(Entries) /\ Len(w.hits) \in Nat
    BY <2>1 DEF WalkShape
  <2>5. /\ Tail(w.queue) \in Seq(Entries) /\ Len(w.queue) \in Nat
        /\ Len(Tail(w.queue)) = Len(w.queue) - 1 /\ Len(w.queue) >= 1
        /\ \A q \in 1..Len(Tail(w.queue)) : q + 1 \in 1..Len(w.queue) /\ Tail(w.queue)[q] = w.queue[q + 1]
    BY <1>2, <2>4, TailIs
  <2>6. Len(w.hits) = 0 =>
            w.queue[1] = StartOf(start) /\ w.visited = {} /\ w.queue[1].depth = 0 /\ w.queue[1].node = start
    BY DEF WalkOk, Begin, StartOf
  <2>7. CASE /\ v.hits = w.hits /\ v.queue = Tail(w.queue) /\ Len(w.hits) # 0
             /\ w.visited \subseteq v.visited
    <3>1. Len(v.hits) + Len(v.queue) <= maxHits
      <4>1. PICK h, q : h = Len(w.hits) /\ q = Len(w.queue)
        OBVIOUS
      <4>2. h \in Nat /\ q \in Nat /\ h + q <= maxHits
        BY <2>1, <2>4, <2>5, <4>1
      <4>3. h + (q - 1) <= maxHits
        BY <4>2
      <4> QED
        BY <2>5, <2>7, <4>1, <4>3
    <3>2. ASSUME NEW q \in 1..Len(v.queue) PROVE \E j \in 1..Len(v.hits) : Follows(v.queue[q], v.hits[j], predicates)
      BY <2>5, <2>7 DEF WalkOk
    <3>3. v.hits[1] = StartOf(start) /\ Len(v.hits) # 0
      BY <2>7 DEF WalkOk
    <3>4. /\ \A k \in 1..Len(v.hits) :
                v.hits[k].node \in v.visited /\ InScope(v.hits[k].node, s) /\ v.hits[k].depth <= depth
          /\ \A j, k \in 1..Len(v.hits) : v.hits[j].node = v.hits[k].node => j = k
          /\ \A k \in 2..Len(v.hits) : \E j \in 1..(k - 1) : Follows(v.hits[k], v.hits[j], predicates)
      BY <2>7 DEF WalkOk
    <3> QED
      BY <2>3, <3>1, <3>2, <3>3, <3>4 DEF WalkOk
  <2>8. CASE (w.queue[1].depth > depth \/ w.queue[1].node \in w.visited) /\ Dropped(v, w)
    BY <2>6, <2>7, <2>8 DEF Dropped
  <2>9. CASE /\ ~(w.queue[1].depth > depth) /\ w.queue[1].node \notin w.visited
             /\ ~InScope(w.queue[1].node, s) /\ Passed(v, w)
    BY <2>6, <2>7, <2>9 DEF Passed
  <2>10. CASE /\ ~(w.queue[1].depth > depth) /\ w.queue[1].node \notin w.visited
              /\ InScope(w.queue[1].node, s) /\ IsHit(v, w, more)
    <3>1. PICK head, n : head = w.queue[1] /\ n = Len(w.hits)
      OBVIOUS
    <3>2. head \in Entries /\ head.node \in DOMAIN know /\ n \in Nat
      BY <2>3, <2>4, <2>10, <3>1 DEF InScope
    <3>3. /\ more \in Seq(Entries) /\ Len(more) \in Nat /\ Len(more) <= Room(w, maxHits)
          /\ \A k \in 1..Len(more) : Follows(more[k], head, predicates)
      BY <2>2, <2>3, <3>1, <3>2, MoreIs
    <3>4. v.hits = Append(w.hits, w.queue[1]) /\ v.queue = Tail(w.queue) \o more
          /\ v.visited = w.visited \cup {head.node}
      BY <2>10, <3>1 DEF IsHit
    <3>5. /\ Len(v.hits) = n + 1 /\ v.hits[n + 1] = head
          /\ \A k \in 1..n : v.hits[k] = w.hits[k]
          /\ Len(v.queue) = Len(w.queue) - 1 + Len(more)
          /\ \A q \in 1..Len(v.queue) :
                 \/ q <= Len(w.queue) - 1 /\ q + 1 \in 1..Len(w.queue) /\ v.queue[q] = w.queue[q + 1]
                 \/ q > Len(w.queue) - 1 /\ q - (Len(w.queue) - 1) \in 1..Len(more)
                    /\ v.queue[q] = more[q - (Len(w.queue) - 1)]
      <4>1. PICK hits, queue, hits2, queue2 :
                hits = w.hits /\ queue = w.queue /\ hits2 = v.hits /\ queue2 = v.queue
        OBVIOUS
      <4>2. /\ hits \in Seq(Entries) /\ queue \in Seq(Entries) /\ queue # <<>>
            /\ hits2 = Append(hits, queue[1]) /\ queue2 = Tail(queue) \o more
        BY <1>2, <2>4, <3>4, <4>1
      <4>3. /\ Len(hits2) = Len(hits) + 1 /\ hits2[Len(hits) + 1] = queue[1]
            /\ \A k \in 1..Len(hits) : hits2[k] = hits[k]
            /\ Len(queue2) = Len(queue) - 1 + Len(more)
            /\ \A q \in 1..Len(queue2) :
                 \/ q <= Len(queue) - 1 /\ q + 1 \in 1..Len(queue) /\ queue2[q] = queue[q + 1]
                 \/ q > Len(queue) - 1 /\ q - (Len(queue) - 1) \in 1..Len(more)
                    /\ queue2[q] = more[q - (Len(queue) - 1)]
        BY <3>3, <4>2, HitIs
      <4> QED
        BY <3>1, <4>1, <4>3
    <3>6. Len(v.hits) + Len(v.queue) <= maxHits
      <4>1. PICK q, l : q = Len(w.queue) /\ l = Len(more)
        OBVIOUS
      <4>2. q \in Nat /\ l \in Nat /\ Room(w, maxHits) = maxHits - (n + 1 + (q - 1))
        BY <2>5, <3>1, <3>3, <4>1 DEF Room
      <4>3. l <= maxHits - (n + 1 + (q - 1))
        BY <3>3, <4>1, <4>2
      <4>4. (n + 1) + (q - 1 + l) <= maxHits
        BY <3>2, <4>2, <4>3
      <4> QED
        BY <3>5, <4>1, <4>4
    <3>7. head.depth <= depth
      BY <2>10, <3>1, <3>2 DEF Entries
    <3>8. \A k \in 1..n : w.hits[k].node \in w.visited /\ InScope(w.hits[k].node, s) /\ w.hits[k].depth <= depth
      BY <3>1 DEF WalkOk
    <3>9. ASSUME NEW k \in 1..Len(v.hits)
          PROVE  v.hits[k].node \in v.visited /\ InScope(v.hits[k].node, s) /\ v.hits[k].depth <= depth
      BY <2>10, <3>1, <3>2, <3>4, <3>5, <3>7, <3>8
    <3>10. ASSUME NEW j \in 1..Len(v.hits), NEW k \in 1..Len(v.hits), v.hits[j].node = v.hits[k].node
           PROVE  j = k
      <4>1. \A i \in 1..n : v.hits[i].node # head.node
        BY <2>10, <3>1, <3>5, <3>8
      <4>2. \A x, y \in 1..n : w.hits[x].node = w.hits[y].node => x = y
        BY <3>1 DEF WalkOk
      <4>3. (j \in 1..n \/ j = n + 1) /\ (k \in 1..n \/ k = n + 1)
        BY <3>2, <3>5
      <4> QED
        BY <3>5, <3>10, <4>1, <4>2, <4>3
    <3>11. n # 0 => \A q \in 1..Len(w.queue) : \E j \in 1..n : Follows(w.queue[q], w.hits[j], predicates)
      BY <3>1 DEF WalkOk
    <3>12. ASSUME NEW k \in 2..Len(v.hits) PROVE \E j \in 1..(k - 1) : Follows(v.hits[k], v.hits[j], predicates)
      <4>1. CASE k \in 2..n
        <5>1. PICK j \in 1..(k - 1) : Follows(w.hits[k], w.hits[j], predicates)
          BY <3>1, <4>1 DEF WalkOk
        <5>2. v.hits[k] = w.hits[k] /\ v.hits[j] = w.hits[j]
          BY SMTT(60), <3>2, <3>5, <4>1
        <5> QED
          BY <5>1, <5>2
      <4>2. CASE k = n + 1
        <5>1. n # 0 /\ 1 \in 1..Len(w.queue)
          BY <2>5, <3>2, <4>2
        <5>2. PICK j \in 1..n : Follows(head, w.hits[j], predicates)
          BY <3>1, <3>11, <5>1
        <5>3. v.hits[k] = head /\ v.hits[j] = w.hits[j] /\ j \in 1..(k - 1)
          BY <3>2, <3>5, <4>2
        <5> QED
          BY <5>2, <5>3
      <4>3. k \in 2..n \/ k = n + 1
        BY <3>2, <3>5
      <4> QED
        BY <4>1, <4>2, <4>3
    <3>13. v.hits[1] = StartOf(start)
      <4>1. CASE n = 0
        BY <2>6, <3>1, <3>5, <4>1
      <4>2. CASE n # 0
        <5>1. w.hits[1] = StartOf(start) /\ 1 \in 1..n
          BY <3>1, <3>2, <4>2 DEF WalkOk
        <5> QED
          BY <3>5, <5>1
      <4> QED
        BY <4>1, <4>2
    <3>14. ASSUME NEW q \in 1..Len(v.queue)
           PROVE  \E j \in 1..Len(v.hits) : Follows(v.queue[q], v.hits[j], predicates)
      <4>1. CASE q <= Len(w.queue) - 1 /\ q + 1 \in 1..Len(w.queue) /\ v.queue[q] = w.queue[q + 1]
        <5>1. n # 0
          <6>1. Len(w.hits) = 0 => Len(w.queue) = 1
            BY DEF WalkOk, Begin
          <6> QED
            BY <3>1, <4>1, <6>1
        <5>2. PICK j \in 1..n : Follows(w.queue[q + 1], w.hits[j], predicates)
          BY <3>11, <4>1, <5>1
        <5>3. j \in 1..Len(v.hits) /\ v.hits[j] = w.hits[j]
          BY <3>2, <3>5
        <5> QED
          BY <4>1, <5>2, <5>3
      <4>2. CASE q - (Len(w.queue) - 1) \in 1..Len(more) /\ v.queue[q] = more[q - (Len(w.queue) - 1)]
        <5>1. Follows(v.queue[q], head, predicates)
          BY <3>3, <4>2
        <5>2. n + 1 \in 1..Len(v.hits)
          BY <3>2, <3>5
        <5> QED
          BY <3>5, <5>1, <5>2
      <4> QED
        BY <3>5, <4>1, <4>2
    <3>15. Len(v.hits) # 0
      BY <3>2, <3>5
    <3> QED
      BY <2>3, <3>6, <3>9, <3>10, <3>12, <3>13, <3>14, <3>15 DEF WalkOk
  <2> QED
    BY <2>2, <2>3, <2>8, <2>9, <2>10
<1> QED
  BY <1>1, <1>2

\* The first turn visits start, and no turn loses a hit.
LEMMA WalkGrows ==
    ASSUME ToolsInv, NEW start, NEW s, InScope(start, s), NEW depth \in Nat, NEW predicates,
           NEW maxHits \in Nat \ {0}, NEW w, WalkOk(w, start, s, depth, predicates, maxHits),
           NEW v, v = TurnOf(w, s, depth, predicates, maxHits)
    PROVE  Len(v.hits) # 0
<1>1. WalkShape(w) /\ Len(w.hits) + Len(w.queue) <= maxHits /\ w.hits \in Seq(Entries)
      /\ w.queue \in Seq(Entries) /\ Len(w.hits) \in Nat /\ maxHits \in Nat
  BY DEF WalkOk, WalkShape
<1>2. CASE w.queue = <<>> \/ Len(w.hits) >= maxHits
  <2>1. v = w
    BY <1>2 DEF TurnOf
  <2>2. Len(w.hits) # 0
    <3>1. SUFFICES ASSUME Len(w.hits) = 0 PROVE FALSE
      OBVIOUS
    <3>2. w.queue = <<StartOf(start)>>
      BY <3>1 DEF WalkOk, Begin
    <3> QED
      BY <1>2, <3>1, <3>2
  <2> QED
    BY <2>1, <2>2
<1>3. CASE w.queue # <<>>
  <2>1. PICK more : more = First(Onward(w.queue[1], predicates), Room(w, maxHits))
    OBVIOUS
  <2>2. \/ (w.queue[1].depth > depth \/ w.queue[1].node \in w.visited) /\ Dropped(v, w)
        \/ /\ ~(w.queue[1].depth > depth) /\ w.queue[1].node \notin w.visited
           /\ ~InScope(w.queue[1].node, s) /\ Passed(v, w)
        \/ /\ ~(w.queue[1].depth > depth) /\ w.queue[1].node \notin w.visited
           /\ InScope(w.queue[1].node, s) /\ IsHit(v, w, more)
    BY <1>1, <1>3, <2>1, TurnIs
  <2>3. Len(w.hits) = 0 =>
            w.queue[1] = StartOf(start) /\ w.visited = {} /\ w.queue[1].depth = 0 /\ w.queue[1].node = start
    BY DEF WalkOk, Begin, StartOf
  <2>4. IsHit(v, w, more) => Len(v.hits) # 0
    BY <1>1 DEF IsHit
  <2> QED
    BY <2>2, <2>3, <2>4 DEF Dropped, Passed
<1> QED
  BY <1>2, <1>3

\* All states of a traversal are of that kind, and from the first turn on it has hits.
LEMMA WalkStays ==
    ASSUME ToolsInv, NEW start, NEW s, InScope(start, s), NEW depth \in Nat, NEW predicates,
           NEW maxHits \in Nat \ {0}, NEW n \in Nat, NEW g,
           IsWalk(g, n, start, s, depth, predicates, maxHits), NEW k \in 0..n
    PROVE  WalkOk(g[k], start, s, depth, predicates, maxHits) /\ (k # 0 => Len(g[k].hits) # 0)
<1> DEFINE Good(j) == WalkOk(g[j], start, s, depth, predicates, maxHits) /\ (j # 0 => Len(g[j].hits) # 0)
           Bad == {j \in 0..n : ~Good(j)}
<1>1. SUFFICES ASSUME Bad # {} PROVE FALSE
  OBVIOUS
<1>2. PICK m \in Bad : \A j \in Bad : m <= j
  <2>1. Bad \in SUBSET Nat
    OBVIOUS
  <2> HIDE DEF Bad
  <2> QED
    BY <1>1, <2>1, LeastNat
<1>3. start \in AbstractIds
  BY DEF InScope, ToolsInv, KnowOk
<1>4. m # 0
  <2>1. g[0] = Begin(start)
    BY DEF IsWalk
  <2>2. Good(0)
    BY <1>3, <2>1, WalkBegins
  <2> QED
    BY <2>2
<1>5. m \in 1..n /\ m - 1 \in 0..n /\ Good(m - 1)
  BY <1>2, <1>4
<1>6. PICK w, v : w = g[m - 1] /\ v = g[m]
  OBVIOUS
<1>7. v = TurnOf(w, s, depth, predicates, maxHits)
  BY <1>5, <1>6 DEF IsWalk
<1>8. WalkOk(w, start, s, depth, predicates, maxHits)
  BY <1>5, <1>6
<1>9. WalkOk(v, start, s, depth, predicates, maxHits)
  BY <1>7, <1>8, WalkStep
<1>10. Len(v.hits) # 0
  BY <1>7, <1>8, WalkGrows
<1> QED
  BY <1>2, <1>6, <1>9, <1>10

\* So is the answer of a traversal.
LEMMA TraverseIs ==
    ASSUME ToolsInv, NEW start, NEW s, InScope(start, s), NEW depth \in Nat, NEW predicates,
           NEW maxHits \in Nat \ {0}
    PROVE  \E w : /\ WalkOk(w, start, s, depth, predicates, maxHits) /\ Len(w.hits) # 0
                  /\ Traverse(start, s, depth, predicates, maxHits) = w.hits
<1>1. PICK g : /\ IsWalk(g, Turns, start, s, depth, predicates, maxHits)
               /\ Traverse(start, s, depth, predicates, maxHits) = g[Turns].hits
  BY TraverseUnfold
<1>2. PICK t : t = Turns
  OBVIOUS
<1>3. t \in Nat /\ t \in 0..t /\ t # 0
  BY <1>2, TurnsIs
<1>4. WalkOk(g[t], start, s, depth, predicates, maxHits) /\ Len(g[t].hits) # 0
  BY <1>1, <1>2, <1>3, WalkStays
<1> QED
  BY <1>1, <1>2, <1>4

----------------------------------------------------------------------------
(* What the tools may show. *)

\* Prepared calls: bound to the session, with limits within the configured ones.
LEMMA PreparedSearch ==
    ASSUME NEW s, NEW p \in Calls("semantic_search_memory", s)
    PROVE  p.session = s /\ p.topK \in Nat /\ p.topK <= MaxTopK
<1>1. PICK q : q \in Arguments("semantic_search_memory") /\ p = Prepare("semantic_search_memory", q, s)
  BY DEF Calls
<1>2. /\ q \in [target : {"raw", "abstract", "both"}, topK : {0, MaxTopK + 1}, threshold : {0, 2},
                session : Sessions]
      /\ p = [q EXCEPT !.topK = Clamp(q.topK, MaxTopK), !.session = s]
  BY <1>1 DEF Arguments, Prepare
<1>3. p.session = s /\ p.topK = Clamp(q.topK, MaxTopK) /\ q.topK \in Nat /\ MaxTopK \in Nat \ {0}
  BY <1>2, ToolsAssumption
<1> QED
  BY <1>3, Clamped

\* A graph search has a bounded depth and at least one hit to find.
LEMMA PreparedGraph ==
    ASSUME NEW s, NEW p \in Calls("graph_search_memory", s)
    PROVE  p.session = s /\ p.depth \in Nat /\ p.maxHits \in Nat \ {0} /\ p.maxHits <= MaxHits
<1>1. PICK q : q \in Arguments("graph_search_memory") /\ p = Prepare("graph_search_memory", q, s)
  BY DEF Calls
<1>2. /\ q \in [start : AbstractIds, depth : Depths, predicates : {AllPredicates, {"reference"}},
                maxHits : {0, MaxHits + 1}, session : Sessions]
      /\ p = [q EXCEPT !.depth = Min({q.depth, MaxDepth}), !.maxHits = Clamp(q.maxHits, MaxHits),
                       !.session = s]
  BY <1>1 DEF Arguments, Prepare
<1>3. /\ p.session = s /\ p.maxHits = Clamp(q.maxHits, MaxHits) /\ p.depth = Min({q.depth, MaxDepth})
      /\ q.maxHits \in Nat /\ MaxHits \in Nat \ {0} /\ q.depth \in Nat /\ MaxDepth \in Nat
  BY <1>2, ToolsAssumption DEF Depths
<1>4. p.maxHits \in Nat /\ 1 <= p.maxHits /\ p.maxHits <= MaxHits
  BY <1>3, Clamped
<1>5. PICK S : S = {q.depth, MaxDepth}
  OBVIOUS
<1>6. Min(S) \in S /\ S \in SUBSET Nat
  <2>1. S \in SUBSET Nat /\ S # {}
    BY <1>3, <1>5
  <2> QED
    BY <2>1, LeastOf
<1> QED
  BY <1>3, <1>4, <1>5, <1>6

\* A provenance lookup has a bounded number of sources.
LEMMA PreparedLookup ==
    ASSUME NEW s, NEW p \in Calls("provenance_lookup", s)
    PROVE  p.session = s /\ p.limit \in Nat /\ p.limit <= MaxProvenance
<1>1. PICK q : q \in Arguments("provenance_lookup") /\ p = Prepare("provenance_lookup", q, s)
  BY DEF Calls
<1>2. /\ q \in [node : AbstractIds, limit : {1, MaxProvenance + 1}, session : Sessions]
      /\ p = [q EXCEPT !.limit = Clamp(q.limit, MaxProvenance), !.session = s]
  BY <1>1 DEF Arguments, Prepare
<1>3. p.session = s /\ p.limit = Clamp(q.limit, MaxProvenance) /\ q.limit \in Nat
      /\ MaxProvenance \in Nat \ {0}
  BY <1>2, ToolsAssumption
<1> QED
  BY <1>3, Clamped

\* A timeline has a bounded length.
LEMMA PreparedTimeline ==
    ASSUME NEW s, NEW p \in Calls("timeline_search", s)
    PROVE  p.session = s /\ p.limit \in Nat /\ p.limit <= MaxTimeline
<1>1. PICK q : q \in Arguments("timeline_search") /\ p = Prepare("timeline_search", q, s)
  BY DEF Calls
<1>2. /\ q \in [from : {Min(Times)}, to : Times, limit : {1, MaxTimeline + 1}, session : Sessions]
      /\ p = [q EXCEPT !.limit = Clamp(q.limit, MaxTimeline), !.session = s]
  BY <1>1 DEF Arguments, Prepare
<1>3. p.session = s /\ p.limit = Clamp(q.limit, MaxTimeline) /\ q.limit \in Nat
      /\ MaxTimeline \in Nat \ {0}
  BY <1>2, ToolsAssumption
<1> QED
  BY <1>3, Clamped

\* What an answer may show in session s, and how much.
AnswerOk(answer, s, name) ==
    /\ \A i \in answer.raws \cup answer.sources : Session(obj.raw[i]) = s
    /\ \A a \in answer.abstracts : know[a].session = s
    /\ Cardinality(answer.raws) <= MostRaws(name)
    /\ Cardinality(answer.abstracts) <= MostAbstracts(name)

\* An error shows nothing.
LEMMA NothingShown == \A s : \A name \in ToolNames : AnswerOk(None, s, name)
<1>1. Cardinality({}) = 0
  BY FS_EmptySet
<1>2. \A name \in ToolNames : 0 <= MostRaws(name) /\ 0 <= MostAbstracts(name)
  BY ToolsAssumption DEF ToolNames, MostRaws, MostAbstracts
<1> QED
  BY <1>1, <1>2 DEF AnswerOk, None

\* An abstract node that is not of the session is not found by its id.
LEMMA ForeignRefused ==
    ASSUME NEW s \in Sessions, NEW a, ~InScope(a, s)
    PROVE  Refused(a, s)
<1>1. ASSUME NEW p \in CallsOf[s]["graph_search_memory"], p.start = a
      PROVE  ~ToolCall("graph_search_memory", p).found
  <2>1. p.session = s
    BY PreparedGraph DEF CallsOf, ToolNames
  <2>2. GraphSearch(p) = None
    BY <1>1, <2>1 DEF GraphSearch
  <2>3. ToolCall("graph_search_memory", p) = None
    BY <2>2 DEF ToolCall, Execute
  <2> QED
    BY <2>3 DEF None
<1>2. ASSUME NEW p \in CallsOf[s]["provenance_lookup"], p.node = a
      PROVE  ~ToolCall("provenance_lookup", p).found
  <2>1. p.session = s
    BY PreparedLookup DEF CallsOf, ToolNames
  <2>2. ProvenanceLookup(p) = None
    BY <1>2, <2>1 DEF ProvenanceLookup
  <2>3. ToolCall("provenance_lookup", p) = None
    BY <2>2 DEF ToolCall, Execute
  <2> QED
    BY <2>3 DEF None
<1> QED
  BY <1>1, <1>2 DEF Refused

\* The order of a search for abstract nodes: nearer first, then by id.
NearerOrder == {p \in AbstractIds \X AbstractIds :
                  \/ Closeness[p[1]] > Closeness[p[2]]
                  \/ Closeness[p[1]] = Closeness[p[2]] /\ p[1] < p[2]}

\* The sort of a search for abstract nodes lists those of the session once.
LEMMA ClosestIs ==
    ASSUME ToolsInv, NEW s
    PROVE  Enumerates(ClosestAbstracts(s), {a \in DOMAIN know : know[a].session = s}, NearerOrder)
<1> DEFINE Nearer(a, b) == \/ Closeness[a] > Closeness[b]
                           \/ Closeness[a] = Closeness[b] /\ a < b
<1>1. PICK mine : mine = {a \in DOMAIN know : know[a].session = s}
  OBVIOUS
<1>2. mine \in SUBSET AbstractIds /\ IsFiniteSet(mine)
  <2>1. mine \in SUBSET AbstractIds
    BY <1>1 DEF ToolsInv, KnowOk
  <2> QED
    BY <2>1, FS_Subset, ToolsAssumption
<1>3. ASSUME NEW a \in AbstractIds, NEW b \in AbstractIds
      PROVE  <<a, b>> \in NearerOrder <=> Nearer(a, b)
  <2>1. <<a, b>> \in AbstractIds \X AbstractIds /\ <<a, b>>[1] = a /\ <<a, b>>[2] = b
    OBVIOUS
  <2> QED
    BY <2>1 DEF NearerOrder
<1>4. IsOrder(NearerOrder, AbstractIds)
  <2>1. \A a \in AbstractIds : a \in Nat /\ Closeness[a] \in Nat
    BY ToolsAssumption
  <2>2. \A a \in AbstractIds : ~Nearer(a, a)
    BY <2>1
  <2>3. \A a, b, c \in AbstractIds : Nearer(a, b) /\ Nearer(b, c) => Nearer(a, c)
    BY <2>1
  <2>4. \A a, b \in AbstractIds : a = b \/ Nearer(a, b) \/ Nearer(b, a)
    BY <2>1
  <2> HIDE DEF Nearer
  <2> QED
    BY <1>3, <2>2, <2>3, <2>4 DEF IsOrder
<1>5. Enumerates(ByRank(RankIn(NearerOrder, mine)), mine, NearerOrder)
  BY <1>2, <1>4, OrderOfPart, InOrder
<1>6. ClosestAbstracts(s) = ByRank(RankIn(NearerOrder, mine))
  <2>1. ASSUME NEW a \in mine PROVE {b \in mine : Nearer(b, a)} = Below(NearerOrder, mine, a)
    <3> HIDE DEF Nearer
    <3> QED
      BY <1>2, <1>3 DEF Below
  <2>2. [a \in mine |-> Cardinality({b \in mine : Nearer(b, a)})] = RankIn(NearerOrder, mine)
    BY <2>1 DEF RankIn
  <2>3. ClosestAbstracts(s) = ByRank([a \in mine |-> Cardinality({b \in mine : Nearer(b, a)})])
    BY <1>1 DEF ClosestAbstracts
  <2> QED
    BY <2>2, <2>3
<1> QED
  BY <1>1, <1>5, <1>6

\* A semantic search shows what is left of at most topK nodes of each kind.
LEMMA SearchIsolated ==
    ASSUME ReadsInv, ToolsInv, NEW s \in Sessions, NEW p \in Calls("semantic_search_memory", s)
    PROVE  AnswerOk(SemanticSearch(p), s, "semantic_search_memory")
<1>1. p.session = s /\ p.topK \in Nat /\ p.topK <= MaxTopK
  BY PreparedSearch
<1>2. PICK answer : answer = SemanticSearch(p)
  OBVIOUS
<1>3. /\ answer.raws = (IF p.target = "abstract" THEN {} ELSE SearchRaw(p))
      /\ answer.abstracts = (IF p.target = "raw" THEN {} ELSE SearchAbstract(p))
      /\ answer.sources = {}
  BY <1>2 DEF SemanticSearch, Shown
<1>4. \A i \in SearchRaw(p) : Session(obj.raw[i]) = s
  BY <1>1 DEF SearchRaw
<1>5. \A a \in SearchAbstract(p) : know[a].session = s
  BY <1>1 DEF SearchAbstract
<1>6. Cardinality(SearchRaw(p)) \in Nat /\ Cardinality(SearchRaw(p)) <= MaxTopK
  <2>1. PICK listed, hits : listed = ByScore(ToSet(obj.shard[s])) /\ hits = First(listed, p.topK)
    OBVIOUS
  <2>2. ObjSearch(s, p.topK) = hits /\ Enumerates(listed, ToSet(obj.shard[s]), ScoreOrder)
    BY <1>1, <2>1, SearchedIs
  <2>3. listed \in Seq(ToSet(obj.shard[s]))
    BY <2>2 DEF Enumerates
  <2>4. hits \in Seq(ToSet(obj.shard[s])) /\ Len(listed) \in Nat
        /\ Len(hits) = (IF p.topK < Len(listed) THEN p.topK ELSE Len(listed))
    BY <1>1, <2>1, <2>3, FirstOf
  <2>5. SearchRaw(p) \in SUBSET ToSet(hits)
    BY <1>1, <2>2 DEF SearchRaw
  <2>6. Cardinality(SearchRaw(p)) \in Nat /\ Cardinality(SearchRaw(p)) <= Len(hits)
    BY <2>4, <2>5, FewShown
  <2> QED
    BY <1>1, <2>4, <2>6, ToolsAssumption
<1>7. Cardinality(SearchAbstract(p)) \in Nat /\ Cardinality(SearchAbstract(p)) <= MaxTopK
  <2>1. PICK mine, listed, hits :
           /\ mine = {a \in DOMAIN know : know[a].session = s}
           /\ listed = ClosestAbstracts(s) /\ hits = First(listed, p.topK)
    OBVIOUS
  <2>2. listed \in Seq(mine)
    BY <2>1, ClosestIs DEF Enumerates
  <2>3. hits \in Seq(mine) /\ Len(listed) \in Nat
        /\ Len(hits) = (IF p.topK < Len(listed) THEN p.topK ELSE Len(listed))
    BY <1>1, <2>1, <2>2, FirstOf
  <2>4. SearchAbstract(p) \in SUBSET ToSet(hits)
    BY <1>1, <2>1 DEF SearchAbstract
  <2>5. Cardinality(SearchAbstract(p)) \in Nat /\ Cardinality(SearchAbstract(p)) <= Len(hits)
    BY <2>3, <2>4, FewShown
  <2> QED
    BY <1>1, <2>3, <2>5, ToolsAssumption
<1>8. Cardinality(answer.raws) <= MaxTopK /\ Cardinality(answer.abstracts) <= MaxTopK
  BY <1>3, <1>6, <1>7, FS_EmptySet, ToolsAssumption
<1> QED
  BY <1>2, <1>3, <1>4, <1>5, <1>8 DEF AnswerOk, MostRaws, MostAbstracts

\* A graph search shows hits in scope, and there are at most maxHits.
LEMMA GraphIsolated ==
    ASSUME ToolsInv, NEW s \in Sessions, NEW p \in Calls("graph_search_memory", s)
    PROVE  AnswerOk(GraphSearch(p), s, "graph_search_memory")
<1>1. p.session = s /\ p.depth \in Nat /\ p.maxHits \in Nat \ {0} /\ p.maxHits <= MaxHits
  BY PreparedGraph
<1>2. CASE ~InScope(p.start, s)
  <2>1. GraphSearch(p) = None
    BY <1>1, <1>2 DEF GraphSearch
  <2> QED
    BY <2>1, NothingShown DEF ToolNames
<1>3. CASE InScope(p.start, s)
  <2>1. PICK hits : hits = Traverse(p.start, s, p.depth, p.predicates, p.maxHits)
    OBVIOUS
  <2>2. PICK shown : shown = {a \in {hits[k].node : k \in DOMAIN hits} : InScope(a, s)}
    OBVIOUS
  <2>3. GraphSearch(p) = Shown({}, shown, {})
    BY <1>1, <1>3, <2>1, <2>2 DEF GraphSearch
  <2>4. PICK w : WalkOk(w, p.start, s, p.depth, p.predicates, p.maxHits) /\ hits = w.hits
    BY <1>1, <1>3, <2>1, TraverseIs
  <2>5. hits \in Seq(Entries) /\ w.queue \in Seq(Entries) /\ Len(hits) + Len(w.queue) <= p.maxHits
    BY <2>4 DEF WalkOk, WalkShape
  <2>6. DOMAIN hits = 1..Len(hits) /\ Len(hits) \in Nat /\ Len(hits) <= p.maxHits
    <3>1. PICK q : q = Len(w.queue)
      OBVIOUS
    <3>2. q \in Nat /\ Len(hits) \in Nat /\ Len(hits) + q <= p.maxHits
      BY <2>5, <3>1
    <3> QED
      BY <1>1, <2>5, <3>2
  <2>7. PICK nodes : nodes = [k \in 1..Len(hits) |-> hits[k].node]
    OBVIOUS
  <2>8. nodes \in Seq(AbstractIds) /\ Len(nodes) = Len(hits) /\ shown \in SUBSET ToSet(nodes)
    <3>1. \A k \in 1..Len(hits) : hits[k].node \in AbstractIds
      <4>1. \A k \in 1..Len(hits) : hits[k] \in Entries
        BY <2>5, <2>6
      <4> QED
        BY <4>1 DEF Entries
    <3>2. nodes \in Seq(AbstractIds) /\ Len(nodes) = Len(hits) /\ DOMAIN nodes = 1..Len(hits)
      BY <2>6, <2>7, <3>1
    <3>3. \A k \in 1..Len(hits) : hits[k].node \in ToSet(nodes)
      BY <2>7, <3>2 DEF ToSet
    <3> QED
      BY <2>2, <2>6, <3>2, <3>3
  <2>9. Cardinality(shown) \in Nat /\ Cardinality(shown) <= Len(hits)
    BY <2>8, FewShown
  <2>10. Cardinality(shown) <= MaxHits
    BY <1>1, <2>6, <2>9, ToolsAssumption
  <2>11. \A a \in shown : know[a].session = s
    BY <2>2 DEF InScope
  <2>12. Cardinality({}) = 0
    BY FS_EmptySet
  <2> QED
    BY <2>3, <2>10, <2>11, <2>12 DEF AnswerOk, Shown, MostRaws, MostAbstracts
<1> QED
  BY <1>2, <1>3

\* A lookup shows the first sources of a node of the session, or nothing.
LEMMA LookupIsolated ==
    ASSUME ToolsInv, NEW s \in Sessions, NEW p \in Calls("provenance_lookup", s)
    PROVE  AnswerOk(ProvenanceLookup(p), s, "provenance_lookup")
<1>1. p.session = s /\ p.limit \in Nat /\ p.limit <= MaxProvenance
  BY PreparedLookup
<1>2. PICK raws, visible :
          /\ raws = First(know[p.node].raws, p.limit)
          /\ visible = {i \in ToSet(raws) : i \in DOMAIN obj.raw /\ Session(obj.raw[i]) = s}
  OBVIOUS
<1>3. CASE ~InScope(p.node, s) \/ visible # ToSet(raws)
  <2>1. ProvenanceLookup(p) = None
    BY <1>1, <1>2, <1>3 DEF ProvenanceLookup
  <2> QED
    BY <2>1, NothingShown DEF ToolNames
<1>4. CASE InScope(p.node, s) /\ visible = ToSet(raws)
  <2>1. PICK refs : refs = visible \cup UNION {r.provenance \cap visible : r \in know[p.node].relations}
    OBVIOUS
  <2>2. ProvenanceLookup(p) = Shown(visible, {p.node}, refs)
    BY <1>1, <1>2, <1>4, <2>1 DEF ProvenanceLookup
  <2>3. \A i \in refs : i \in visible
    BY <2>1
  <2>4. know[p.node].raws \in Seq(RawIds)
    BY <1>4, StoredIs DEF ToolsInv, InScope
  <2>5. /\ raws \in Seq(RawIds) /\ Len(know[p.node].raws) \in Nat
        /\ Len(raws) = (IF p.limit < Len(know[p.node].raws) THEN p.limit ELSE Len(know[p.node].raws))
    BY <1>1, <1>2, <2>4, FirstOf
  <2>6. visible \in SUBSET ToSet(raws)
    BY <1>2
  <2>7. Cardinality(visible) \in Nat /\ Cardinality(visible) <= Len(raws)
    BY <2>5, <2>6, FewShown
  <2>8. Cardinality(visible) <= MaxProvenance
    BY <1>1, <2>5, <2>7, ToolsAssumption
  <2>9. Cardinality({p.node}) = 1
    BY FS_Singleton
  <2>10. know[p.node].session = s /\ \A i \in visible : Session(obj.raw[i]) = s
    BY <1>2, <1>4 DEF InScope
  <2> QED
    BY <2>2, <2>3, <2>8, <2>9, <2>10 DEF AnswerOk, Shown, MostRaws, MostAbstracts
<1> QED
  BY <1>3, <1>4

\* A timeline of a session comes from its index file.
LEMMA TimelineIsolated ==
    ASSUME ReadsInv, NEW s \in Sessions, NEW p \in Calls("timeline_search", s)
    PROVE  AnswerOk(TimelineSearch(p), s, "timeline_search")
<1>1. p.session = s /\ p.limit \in Nat /\ p.limit <= MaxTimeline
  BY PreparedTimeline
<1>2. PICK ids, listed, shown :
          /\ ids = {i \in obj.session[s] : obj.raw[i].ts \in p.from..p.to}
          /\ listed = NewestFirst(obj.raw, ids) /\ shown = First(listed, p.limit)
  OBVIOUS
<1>3. TimelineSearch(p) = Shown(ToSet(shown), {}, {})
  BY <1>1, <1>2, ReadsAssumption DEF TimelineSearch, ObjTimeline, SessionTimeline
<1>4. IsRaw(obj.raw) /\ obj.session[s] = Capped(obj.raw, Of(obj.raw, s), SessionCap)
  BY DEF ReadsInv, ReadsOk, IndexesMatch
<1>5. ids \in SUBSET DOMAIN obj.raw /\ \A i \in ids : Session(obj.raw[i]) = s
  <2>1. s # Everywhere
    BY ReadsAssumption
  <2>2. \A i \in obj.session[s] : i \in Of(obj.raw, s)
    BY <1>4 DEF Capped
  <2> QED
    BY <1>2, <2>1, <2>2 DEF Of
<1>6. listed \in Seq(ids)
  BY <1>2, <1>4, <1>5, NewestFirstIs DEF Enumerates
<1>7. /\ shown \in Seq(ids) /\ Len(listed) \in Nat
      /\ Len(shown) = (IF p.limit < Len(listed) THEN p.limit ELSE Len(listed))
  BY <1>1, <1>2, <1>6, FirstOf
<1>8. PICK all : all = ToSet(shown)
  OBVIOUS
<1>9. Cardinality(all) \in Nat /\ Cardinality(all) <= Len(shown)
  BY <1>7, <1>8, FewShown
<1>10. Cardinality(all) <= MaxTimeline
  BY <1>1, <1>7, <1>9, ToolsAssumption
<1>11. Cardinality({}) = 0
  BY FS_EmptySet
<1>12. \A i \in all : i \in ids
  BY <1>7, <1>8 DEF ToSet
<1> QED
  BY <1>3, <1>5, <1>8, <1>10, <1>11, <1>12 DEF AnswerOk, Shown, MostRaws, MostAbstracts

\* [SessionIsolation] In a consistent state no call leaves its session.
LEMMA SessionsAreIsolated == ReadsInv /\ ToolsInv => SessionIsolation
<1> SUFFICES ASSUME ReadsInv, ToolsInv, NEW s \in Sessions, NEW name \in ToolNames, NEW p \in CallsOf[s][name]
             PROVE  AnswerOk(ToolCall(name, p), s, name)
  BY ForeignRefused DEF SessionIsolation, AnswerOk
<1>0. p \in Calls(name, s)
  BY DEF CallsOf
<1>1. CASE name \notin Enabled
  BY <1>1, NothingShown DEF ToolCall
<1>2. CASE name \in Enabled
  <2>1. ToolCall(name, p) = Execute(name, p)
    BY <1>2 DEF ToolCall
  <2>2. CASE name = "semantic_search_memory"
    <3>1. Execute(name, p) = SemanticSearch(p)
      BY <2>2 DEF Execute
    <3> QED
      BY <2>1, <2>2, <3>1, <1>0, SearchIsolated
  <2>3. CASE name = "graph_search_memory"
    <3>1. Execute(name, p) = GraphSearch(p)
      BY <2>3 DEF Execute
    <3> QED
      BY <2>1, <2>3, <3>1, <1>0, GraphIsolated
  <2>4. CASE name = "provenance_lookup"
    <3>1. Execute(name, p) = ProvenanceLookup(p)
      BY <2>4 DEF Execute
    <3> QED
      BY <2>1, <2>4, <3>1, <1>0, LookupIsolated
  <2>5. CASE name = "timeline_search"
    <3>1. Execute(name, p) = TimelineSearch(p)
      BY <2>5 DEF Execute
    <3> QED
      BY <2>1, <2>5, <3>1, <1>0, TimelineIsolated
  <2> QED
    BY <2>2, <2>3, <2>4, <2>5 DEF ToolNames
<1> QED
  BY <1>1, <1>2

\* [SessionIsolation] Whatever the model asks a tool for, and whatever the stored
\* nodes refer to, it sees nodes and sources of the running session only, and only so many;
\* what the objects of their relations name elsewhere it cannot open.
THEOREM ToolsStayInSession == MemorySpec => []SessionIsolation
BY ToolsInvariant, SessionsAreIsolated, PTL

\* [ProvenanceReadable] In a consistent state the sources of a checked node are found.
LEMMA SourcesAreReadable ==
    ASSUME "provenance_lookup" \in Enabled
    PROVE  ToolsInv => ProvenanceReadable
<1> SUFFICES ASSUME ToolsInv, NEW a \in DOMAIN know \ imported
             PROVE  LET p == [node |-> a, limit |-> MaxProvenance, session |-> know[a].session]
                        answer == ToolCall("provenance_lookup", Prepare("provenance_lookup", p, p.session))
                    IN  answer.found /\ answer.raws = ToSet(First(know[a].raws, MaxProvenance))
  BY DEF ProvenanceReadable
<1>1. PICK p, call : /\ p = [node |-> a, limit |-> MaxProvenance, session |-> know[a].session]
                     /\ call = Prepare("provenance_lookup", p, p.session)
  OBVIOUS
<1>2. call = [p EXCEPT !.limit = Clamp(MaxProvenance, MaxProvenance), !.session = p.session]
  BY <1>1 DEF Prepare
<1>3. Clamp(MaxProvenance, MaxProvenance) = MaxProvenance
  BY Clamped, ToolsAssumption
<1>4. call.node = a /\ call.limit = MaxProvenance /\ call.session = know[a].session
  BY <1>1, <1>2, <1>3
<1>5. PICK raws : raws = First(know[a].raws, MaxProvenance)
  OBVIOUS
<1>6. InScope(a, know[a].session)
  BY DEF InScope
<1>7. know[a].raws \in Seq(RawIds)
  BY StoredIs DEF ToolsInv
<1>8. ToSet(raws) \subseteq ToSet(know[a].raws)
  BY <1>5, <1>7, FirstOf, ToolsAssumption
<1>9. \A i \in ToSet(raws) : i \in DOMAIN obj.raw /\ Session(obj.raw[i]) = know[a].session
  BY <1>8 DEF ToolsInv, KnowOk
<1>10. PICK visible : visible = {i \in ToSet(raws) : i \in DOMAIN obj.raw /\ Session(obj.raw[i]) = know[a].session}
  OBVIOUS
<1>11. visible = ToSet(raws)
  BY <1>9, <1>10
<1>12. PICK refs : ProvenanceLookup(call) = Shown(visible, {a}, refs)
  BY <1>4, <1>5, <1>6, <1>10, <1>11 DEF ProvenanceLookup
<1>13. ToolCall("provenance_lookup", call) = ProvenanceLookup(call)
  BY DEF ToolCall, Execute
<1> QED
  BY <1>1, <1>5, <1>11, <1>12, <1>13 DEF Shown

\* [ProvenanceReadable] The lookup is all or nothing, yet a node the engine stored
\* is never refused: its sources stay where they were when it was stored.
THEOREM StoredSourcesStayReadable ==
    ASSUME "provenance_lookup" \in Enabled
    PROVE  MemorySpec => []ProvenanceReadable
BY ToolsInvariant, SourcesAreReadable, PTL

----------------------------------------------------------------------------
(* What is within reach of a node. *)

\* One more step along the edges, and the sets reached by 0 to d steps.
Farther(reached, s, predicates) ==
    reached \cup {b \in DOMAIN know : /\ InScope(b, s)
                                      /\ \E a \in reached : \E e \in Edges(a) :
                                            /\ e.to = b
                                            /\ e.predicate \in predicates}
Here(start, s) == {start} \cap {a \in DOMAIN know : InScope(a, s)}
IsReach(g, d, start, s, predicates) ==
    g = [n \in 0..d |-> IF n = 0 THEN Here(start, s)
                        ELSE Farther(g[n - 1], s, predicates)]

\* Those sets exist for every distance.
LEMMA ReachExists ==
    ASSUME NEW start, NEW s, NEW predicates, NEW d \in Nat
    PROVE  \E g : IsReach(g, d, start, s, predicates)
<1> DEFINE Bad == {m \in Nat : ~\E g : IsReach(g, m, start, s, predicates)}
<1>1. SUFFICES ASSUME Bad # {} PROVE FALSE
  OBVIOUS
<1>2. PICK m \in Bad : \A k \in Bad : m <= k
  <2>1. Bad \in SUBSET Nat
    OBVIOUS
  <2> HIDE DEF Bad
  <2> QED
    BY <1>1, <2>1, LeastNat
<1>3. m # 0
  <2> DEFINE g == [k \in 0..0 |-> Here(start, s)]
  <2>1. \A k \in 0..0 : g[k] = IF k = 0 THEN Here(start, s) ELSE Farther(g[k - 1], s, predicates)
    OBVIOUS
  <2>2. IsReach(g, 0, start, s, predicates)
    BY <2>1 DEF IsReach
  <2> QED
    BY <2>2
<1>4. PICK g : IsReach(g, m - 1, start, s, predicates)
  BY <1>2, <1>3
<1> DEFINE h == [k \in 0..m |-> IF k = m THEN Farther(g[m - 1], s, predicates) ELSE g[k]]
<1>5. ASSUME NEW k \in 0..m
      PROVE  h[k] = IF k = 0 THEN Here(start, s) ELSE Farther(h[k - 1], s, predicates)
  <2>1. CASE k < m
    <3>1. g[k] = IF k = 0 THEN Here(start, s) ELSE Farther(g[k - 1], s, predicates)
      BY <1>3, <1>4, <2>1 DEF IsReach
    <3>2. h[k] = g[k] /\ (k # 0 => h[k - 1] = g[k - 1])
      BY <2>1
    <3> QED
      BY <3>1, <3>2
  <2>2. CASE k = m
    BY <1>3, <2>2
  <2> QED
    BY <2>1, <2>2
<1>6. IsReach(h, m, start, s, predicates)
  <2>1. h = [k \in 0..m |-> h[k]]
    OBVIOUS
  <2> HIDE DEF h
  <2> QED
    BY <1>5, <2>1 DEF IsReach
<1> QED
  BY <1>6

\* The sets do not depend on how many more are computed.
LEMMA ReachUnique ==
    ASSUME NEW start, NEW s, NEW predicates, NEW d \in Nat, NEW c \in Nat, NEW g, NEW h,
           IsReach(g, d, start, s, predicates), IsReach(h, c, start, s, predicates),
           NEW k \in Nat, k <= d, k <= c
    PROVE  g[k] = h[k]
<1> DEFINE Bad == {m \in Nat : m <= d /\ m <= c /\ g[m] # h[m]}
<1>1. SUFFICES ASSUME Bad # {} PROVE FALSE
  OBVIOUS
<1>2. PICK m \in Bad : \A j \in Bad : m <= j
  <2>1. Bad \in SUBSET Nat
    OBVIOUS
  <2> HIDE DEF Bad
  <2> QED
    BY <1>1, <2>1, LeastNat
<1>3. m # 0
  BY <1>2 DEF IsReach
<1>4. m - 1 \in Nat /\ m - 1 <= d /\ m - 1 <= c /\ g[m - 1] = h[m - 1]
  BY <1>2, <1>3
<1>5. m \in 0..d /\ m \in 0..c
  BY <1>2
<1>6. g[m] = Farther(g[m - 1], s, predicates) /\ h[m] = Farther(h[m - 1], s, predicates)
  BY <1>3, <1>5 DEF IsReach
<1> QED
  BY <1>2, <1>4, <1>6

\* What is within d steps is the last of such a sequence.
LEMMA WithinUnfold ==
    ASSUME NEW start, NEW s, NEW predicates, NEW d \in Nat
    PROVE  \E g : IsReach(g, d, start, s, predicates) /\ Within(start, s, predicates, d) = g[d]
<1>1. \E g : IsReach(g, d, start, s, predicates)
  BY ReachExists
<1>2. PICK h : h = CHOOSE g : IsReach(g, d, start, s, predicates)
  OBVIOUS
<1>3. IsReach(h, d, start, s, predicates)
  BY <1>1, <1>2
<1>4. Within(start, s, predicates, d) = h[d]
  BY <1>2 DEF Within, IsReach, Farther, Here
<1> QED
  BY <1>3, <1>4

\* Within no step there is start; with another one, what the edges lead to.
LEMMA WithinSteps ==
    ASSUME NEW start, NEW s, InScope(start, s), NEW predicates, NEW d \in Nat
    PROVE  /\ Within(start, s, predicates, 0) = {start}
           /\ Within(start, s, predicates, d + 1) = Farther(Within(start, s, predicates, d), s, predicates)
<1>1. PICK g : IsReach(g, 0, start, s, predicates) /\ Within(start, s, predicates, 0) = g[0]
  BY WithinUnfold
<1>2. g[0] = {start}
  <2>1. g[0] = Here(start, s)
    BY <1>1 DEF IsReach
  <2> QED
    BY <2>1 DEF Here, InScope
<1>3. PICK c : c = d + 1
  OBVIOUS
<1>4. c \in Nat /\ d <= c /\ d <= d /\ c \in 0..c /\ c # 0 /\ c - 1 = d
  BY <1>3
<1>5. PICK f : IsReach(f, d, start, s, predicates) /\ Within(start, s, predicates, d) = f[d]
  BY WithinUnfold
<1>6. PICK h : IsReach(h, c, start, s, predicates) /\ Within(start, s, predicates, c) = h[c]
  BY <1>4, WithinUnfold
<1>7. f[d] = h[d]
  BY <1>4, <1>5, <1>6, ReachUnique
<1>8. h[c] = Farther(h[d], s, predicates)
  BY <1>4, <1>6 DEF IsReach
<1> QED
  BY <1>1, <1>2, <1>3, <1>5, <1>6, <1>7, <1>8

\* More steps lead at least as far, and never out of the session.
LEMMA WithinGrows ==
    ASSUME NEW start, NEW s, InScope(start, s), NEW predicates, NEW c \in Nat, NEW d \in Nat, c <= d
    PROVE  /\ Within(start, s, predicates, c) \in SUBSET Within(start, s, predicates, d)
           /\ \A a \in Within(start, s, predicates, d) : InScope(a, s)
<1> DEFINE W(n) == Within(start, s, predicates, n)
           Good(n) == (c <= n => W(c) \in SUBSET W(n)) /\ \A a \in W(n) : InScope(a, s)
           Bad == {n \in Nat : ~Good(n)}
<1>1. SUFFICES ASSUME Bad # {} PROVE FALSE
  OBVIOUS
<1>2. PICK m \in Bad : \A j \in Bad : m <= j
  <2>1. Bad \in SUBSET Nat
    OBVIOUS
  <2> HIDE DEF Bad
  <2> QED
    BY <1>1, <2>1, LeastNat
<1>3. m # 0
  <2>1. W(0) = {start}
    BY WithinSteps
  <2>2. c <= 0 => c = 0
    OBVIOUS
  <2>3. Good(0)
    BY <2>1, <2>2
  <2> QED
    BY <2>3
<1>4. m - 1 \in Nat /\ Good(m - 1)
  BY <1>2, <1>3
<1>5. PICK k : k = m - 1
  OBVIOUS
<1>6. k \in Nat /\ m = k + 1 /\ Good(k)
  BY <1>4, <1>5
<1>7. W(m) = Farther(W(k), s, predicates)
  BY <1>6, WithinSteps
<1>8. Good(m)
  <2>1. \A a \in W(k) : a \in W(m)
    BY <1>7 DEF Farther
  <2>2. \A a \in W(m) : InScope(a, s)
    BY <1>6, <1>7 DEF Farther
  <2>3. c <= m => c <= k \/ c = m
    BY <1>6
  <2>4. c <= m => W(c) \in SUBSET W(m)
    BY <1>6, <2>1, <2>3
  <2> QED
    BY <2>2, <2>4
<1> QED
  BY <1>2, <1>8

----------------------------------------------------------------------------
(* With room for every edge the loop ends with an empty queue. *)

\* A traversal has no more hits than there are nodes.
LEMMA HitsFew ==
    ASSUME NEW start, NEW s, NEW depth, NEW predicates, NEW maxHits, NEW w,
           WalkOk(w, start, s, depth, predicates, maxHits)
    PROVE  Len(w.hits) \in Nat /\ Len(w.hits) <= Cardinality(AbstractIds)
<1>1. w.hits \in Seq(Entries) /\ Len(w.hits) \in Nat
  BY DEF WalkOk, WalkShape
<1>2. PICK nodes : nodes = [k \in 1..Len(w.hits) |-> w.hits[k].node]
  OBVIOUS
<1>3. \A k \in 1..Len(w.hits) : w.hits[k].node \in AbstractIds
  <2>1. \A k \in 1..Len(w.hits) : w.hits[k] \in Entries
    BY <1>1
  <2> QED
    BY <2>1 DEF Entries
<1>4. nodes \in Seq(AbstractIds) /\ Len(nodes) = Len(w.hits) /\ DOMAIN nodes = 1..Len(w.hits)
  BY <1>1, <1>2, <1>3
<1>5. IsInjective(nodes)
  BY <1>2, <1>4 DEF IsInjective, WalkOk
<1>6. Cardinality(ToSet(nodes)) = Len(w.hits)
  BY <1>4, <1>5, DistinctSize
<1>7. ToSet(nodes) \in SUBSET AbstractIds
  BY <1>4 DEF ToSet
<1>8. Cardinality(ToSet(nodes)) <= Cardinality(AbstractIds)
  BY <1>7, FS_Subset, ToolsAssumption
<1> QED
  BY <1>1, <1>6, <1>8

\* Products of the bounds: f full rows of m fit into a rows.
LEMMA RowsFit ==
    ASSUME NEW a \in Nat, NEW m \in Nat, NEW f \in Nat
    PROVE  /\ f <= a => f * m <= m * a
           /\ f + 1 <= a => f * m + m <= m * a
<1>1. ASSUME f <= a PROVE f * m <= m * a
  <2>1. PICK x \in Nat : a = f + x
    <3>1. a - f \in Nat /\ a = f + (a - f)
      BY <1>1
    <3> QED
      BY <3>1
  <2>2. m * a = f * m + x * m
    BY <2>1
  <2>3. x * m \in Nat /\ f * m \in Nat
    BY <2>1
  <2> QED
    BY <2>2, <2>3
<1>2. ASSUME f + 1 <= a PROVE f * m + m <= m * a
  <2>1. PICK x \in Nat : a = (f + 1) + x
    <3>1. a - (f + 1) \in Nat /\ a = (f + 1) + (a - (f + 1))
      BY <1>2
    <3> QED
      BY <3>1
  <2>2. m * a = (f * m + m) + x * m
    BY <2>1
  <2>3. x * m \in Nat /\ f * m \in Nat
    BY <2>1
  <2> QED
    BY <2>2, <2>3
<1> QED
  BY <1>1, <1>2

\* With the most room, a turn is taken for every entry that was ever queued.
Counted(w, n) ==
    /\ Len(w.hits) <= n
    /\ w.queue # <<>> => n + Len(w.queue) <= 1 + Len(w.hits) * MostEdges

\* There are more turns than hits.
LEMMA TurnsSuffice ==
    ASSUME NEW a \in AbstractIds
    PROVE  Cardinality(AbstractIds) < Turns
<1>1. PICK n, p, m : n = Cardinality(AbstractIds) /\ p = Cardinality(AllPredicates) /\ m = MostEdges
  OBVIOUS
<1>2. n \in Nat /\ p \in Nat /\ p >= 1 /\ m = n * p /\ m \in Nat
  BY <1>1, EdgeTypeIs DEF MostEdges
<1>3. n >= 1
  <2>1. n # 0
    BY <1>1, FS_EmptySet, ToolsAssumption
  <2> QED
    BY <1>2, <2>1
<1>4. m >= 1
  <2>1. 1 * p <= p * n
    BY <1>2, <1>3, RowsFit
  <2> QED
    BY <1>2, <2>1
<1>5. n <= m * n
  <2>1. 1 * n <= n * m
    BY <1>2, <1>4, RowsFit
  <2> QED
    BY <1>2, <2>1
<1>6. Turns = 1 + m * n
  BY <1>1, TurnsIs
<1>7. PICK x : x = m * n
  OBVIOUS
<1>8. x \in Nat /\ n < 1 + x
  BY <1>2, <1>5, <1>7
<1> QED
  BY <1>1, <1>6, <1>7, <1>8

\* So there is room for all edges of another hit.
LEMMA RoomForAll ==
    ASSUME NEW w, WalkShape(w), w.queue # <<>>, NEW n \in Nat, Counted(w, n),
           Len(w.hits) + 1 <= Cardinality(AbstractIds)
    PROVE  MostEdges <= Room(w, Turns)
<1>1. PICK a, m, h, q, t : /\ a = Cardinality(AbstractIds) /\ m = MostEdges /\ h = Len(w.hits)
                           /\ q = Len(w.queue) /\ t = Turns
  OBVIOUS
<1>2. a \in Nat /\ m \in Nat /\ h \in Nat /\ q \in Nat /\ t = 1 + m * a
  BY <1>1, EdgeTypeIs, TurnsIs DEF WalkShape
<1>3. Room(w, Turns) = t - (h + 1 + (q - 1))
  <2>1. Len(Tail(w.queue)) = q - 1
    BY <1>1, TailIs DEF WalkShape
  <2> QED
    BY <1>1, <2>1 DEF Room
<1>4. h <= n /\ n + q <= 1 + h * m /\ h + 1 <= a
  BY <1>1 DEF Counted
<1>5. h * m + m <= m * a
  BY <1>2, <1>4, RowsFit
<1>6. h * m \in Nat /\ m * a \in Nat
  BY <1>2
<1>7. m <= t - (h + 1 + (q - 1))
  <2>1. PICK x, y : x = h * m /\ y = m * a
    OBVIOUS
  <2>2. x \in Nat /\ y \in Nat /\ x + m <= y /\ n + q <= 1 + x /\ t = 1 + y
    BY <1>2, <1>4, <1>5, <1>6, <2>1
  <2> QED
    BY <1>2, <1>4, <2>2
<1> QED
  BY <1>1, <1>3, <1>7

\* The count goes on from turn to turn.
LEMMA CountStep ==
    ASSUME ToolsInv, NEW w, WalkShape(w), NEW s, NEW depth, NEW predicates, NEW maxHits \in Nat,
           Len(w.hits) + Len(w.queue) <= maxHits, NEW n \in Nat, Counted(w, n),
           NEW v, v = TurnOf(w, s, depth, predicates, maxHits), Len(w.hits) < maxHits
    PROVE  Counted(v, n + 1)
<1>1. w.hits \in Seq(Entries) /\ w.queue \in Seq(Entries) /\ Len(w.hits) \in Nat /\ MostEdges \in Nat
  BY EdgeTypeIs DEF WalkShape
<1>2. CASE w.queue = <<>>
  <2>1. v = w
    BY <1>2 DEF TurnOf
  <2> QED
    BY <1>1, <1>2, <2>1 DEF Counted
<1>3. CASE w.queue # <<>>
  <2>1. PICK more : more = First(Onward(w.queue[1], predicates), Room(w, maxHits))
    OBVIOUS
  <2>2. /\ w.queue[1] \in Entries /\ Room(w, maxHits) \in Nat
        /\ \/ Dropped(v, w)
           \/ Passed(v, w)
           \/ InScope(w.queue[1].node, s) /\ IsHit(v, w, more)
    BY <1>1, <1>3, <2>1, TurnIs
  <2>3. Tail(w.queue) \in Seq(Entries) /\ Len(w.queue) \in Nat /\ Len(Tail(w.queue)) = Len(w.queue) - 1
    BY <1>1, <1>3, TailIs
  <2>4. PICK h, q, x : h = Len(w.hits) /\ q = Len(w.queue) /\ x = Len(w.hits) * MostEdges
    OBVIOUS
  <2>5. h \in Nat /\ q \in Nat /\ x \in Nat /\ h <= n /\ n + q <= 1 + x
    BY <1>1, <1>3, <2>3, <2>4 DEF Counted
  <2>6. CASE v.hits = w.hits /\ v.queue = Tail(w.queue)
    <3>1. n + 1 + (q - 1) <= 1 + x /\ h <= n + 1
      BY <2>5
    <3> QED
      BY <2>3, <2>4, <2>6, <3>1 DEF Counted
  <2>7. CASE InScope(w.queue[1].node, s) /\ IsHit(v, w, more)
    <3>1. more \in Seq(Entries) /\ Len(more) \in Nat /\ Len(more) <= MostEdges
      BY <2>1, <2>2, <2>7, MoreIs DEF InScope
    <3>2. Len(v.hits) = h + 1 /\ Len(v.queue) = (q - 1) + Len(more)
      BY <1>1, <2>3, <2>4, <2>7, <3>1 DEF IsHit
    <3>3. (h + 1) * MostEdges = x + MostEdges
      BY <1>1, <2>4, <2>5
    <3>4. PICK l, m : l = Len(more) /\ m = MostEdges
      OBVIOUS
    <3>5. l \in Nat /\ m \in Nat /\ l <= m
      BY <1>1, <3>1, <3>4
    <3>6. n + 1 + ((q - 1) + l) <= 1 + (x + m) /\ h + 1 <= n + 1
      BY <2>5, <3>5
    <3> QED
      BY <3>2, <3>3, <3>4, <3>6 DEF Counted
  <2> QED
    BY <2>2, <2>6, <2>7 DEF Dropped, Passed
<1> QED
  BY <1>2, <1>3

----------------------------------------------------------------------------
(* And it visits the nodes by their distance. *)

\* The nodes are visited by their distance from start: the queue is sorted by
\* depth, hits are at their distance, and the edges of a hit lead to nodes that
\* were visited or are queued.
Spread(w, start, s, depth, predicates) ==
    /\ \A p, q \in 1..Len(w.queue) : p < q => w.queue[p].depth <= w.queue[q].depth
    /\ \A q \in 1..Len(w.queue) : w.queue[q].depth <= w.queue[1].depth + 1
    /\ \A k \in 1..Len(w.hits), q \in 1..Len(w.queue) : w.hits[k].depth <= w.queue[q].depth
    /\ \A a \in w.visited : InScope(a, s) => \E k \in 1..Len(w.hits) : w.hits[k].node = a
    /\ \A k \in 1..Len(w.hits) :
          /\ w.hits[k].node \in Within(start, s, predicates, w.hits[k].depth)
          /\ \A d \in Nat : d < w.hits[k].depth => w.hits[k].node \notin Within(start, s, predicates, d)
    /\ \A k \in 1..Len(w.hits) : w.hits[k].depth < depth =>
          \A e \in Chosen(w.hits[k].node, predicates) :
              \/ e.to \in w.visited
              \/ \E q \in 1..Len(w.queue) : w.queue[q].node = e.to /\ w.queue[q].depth = w.hits[k].depth + 1

\* What is within d steps was visited, once nothing of depth d is left in the queue.
LEMMA Covered ==
    ASSUME NEW start, NEW s, InScope(start, s), NEW depth \in Nat, NEW predicates, NEW maxHits,
           NEW w, WalkOk(w, start, s, depth, predicates, maxHits), Len(w.hits) # 0,
           Spread(w, start, s, depth, predicates), NEW d \in Nat, d <= depth,
           \A q \in 1..Len(w.queue) : ~(w.queue[q].depth <= d),
           NEW x \in Within(start, s, predicates, d)
    PROVE  x \in w.visited
<1> DEFINE W(n) == Within(start, s, predicates, n)
           Bad == {n \in Nat : n <= d /\ \E y \in W(n) : y \notin w.visited}
<1>1. SUFFICES ASSUME Bad # {} PROVE FALSE
  OBVIOUS
<1>2. PICK m \in Bad : \A j \in Bad : m <= j
  <2>1. Bad \in SUBSET Nat
    OBVIOUS
  <2> HIDE DEF Bad
  <2> QED
    BY <1>1, <2>1, LeastNat
<1>3. w.hits \in Seq(Entries) /\ w.queue \in Seq(Entries) /\ Len(w.hits) \in Nat
      /\ (\A k \in 1..Len(w.hits) : w.hits[k].depth \in Nat)
      /\ (\A q \in 1..Len(w.queue) : w.queue[q].depth \in Nat)
  <2>1. w.hits \in Seq(Entries) /\ w.queue \in Seq(Entries)
    BY DEF WalkOk, WalkShape
  <2>2. /\ Len(w.hits) \in Nat /\ \A k \in 1..Len(w.hits) : w.hits[k] \in Entries
        /\ \A q \in 1..Len(w.queue) : w.queue[q] \in Entries
    BY <2>1
  <2> QED
    BY <2>1, <2>2 DEF Entries
<1>4. m # 0
  <2>1. W(0) = {start}
    BY WithinSteps
  <2>2. 1 \in 1..Len(w.hits) /\ w.hits[1].node = start
    BY <1>3 DEF WalkOk, StartOf
  <2>3. start \in w.visited
    BY <2>2 DEF WalkOk
  <2> QED
    BY <1>2, <2>1, <2>3
<1>5. PICK k : k = m - 1
  OBVIOUS
<1>6. k \in Nat /\ m = k + 1 /\ k < d /\ k \notin Bad /\ m <= d
  BY <1>2, <1>4, <1>5
<1>7. \A y \in W(k) : y \in w.visited
  BY <1>6
<1>8. PICK y \in W(m) : y \notin w.visited
  BY <1>2
<1>9. W(m) = Farther(W(k), s, predicates)
  BY <1>6, WithinSteps
<1>10. PICK a \in W(k) : \E e \in Edges(a) : e.to = y /\ e.predicate \in predicates
  BY <1>7, <1>8, <1>9 DEF Farther
<1>11. PICK e \in Edges(a) : e.to = y /\ e.predicate \in predicates
  BY <1>10
<1>12. InScope(a, s) /\ a \in w.visited
  BY <1>6, <1>7, <1>10, WithinGrows
<1>13. PICK i \in 1..Len(w.hits) : w.hits[i].node = a
  BY <1>12 DEF Spread
<1>14. ~(k < w.hits[i].depth)
  BY <1>6, <1>10, <1>13 DEF Spread
<1>15. w.hits[i].depth \in Nat /\ w.hits[i].depth < depth
  BY <1>3, <1>6, <1>14
<1>16. e \in Chosen(w.hits[i].node, predicates)
  BY <1>11, <1>13 DEF Chosen
<1>17. \E q \in 1..Len(w.queue) : w.queue[q].node = e.to /\ w.queue[q].depth = w.hits[i].depth + 1
  BY <1>8, <1>11, <1>15, <1>16 DEF Spread
<1>18. w.hits[i].depth + 1 <= d
  BY <1>6, <1>14, <1>15
<1> QED
  BY <1>17, <1>18

\* A new hit is at the distance its entry says.
LEMMA HitsAtDistance ==
    ASSUME NEW start, NEW s, InScope(start, s), NEW depth \in Nat, NEW predicates, NEW maxHits,
           NEW w, WalkOk(w, start, s, depth, predicates, maxHits), w.queue # <<>>,
           Spread(w, start, s, depth, predicates),
           ~(w.queue[1].depth > depth), w.queue[1].node \notin w.visited, InScope(w.queue[1].node, s)
    PROVE  /\ w.queue[1].depth \in Nat
           /\ w.queue[1].node \in Within(start, s, predicates, w.queue[1].depth)
           /\ \A d \in Nat : d < w.queue[1].depth => w.queue[1].node \notin Within(start, s, predicates, d)
<1>1. /\ w.hits \in Seq(Entries) /\ w.queue \in Seq(Entries) /\ Len(w.hits) \in Nat
      /\ Len(w.queue) \in Nat /\ 1 \in 1..Len(w.queue)
      /\ \A q \in 1..Len(w.queue) : w.queue[q].depth \in Nat
      /\ \A k \in 1..Len(w.hits) : w.hits[k].depth \in Nat
  <2>1. w.hits \in Seq(Entries) /\ w.queue \in Seq(Entries)
    BY DEF WalkOk, WalkShape
  <2>2. /\ Len(w.hits) \in Nat /\ \A k \in 1..Len(w.hits) : w.hits[k] \in Entries
        /\ Len(w.queue) \in Nat /\ 1 \in 1..Len(w.queue)
        /\ \A q \in 1..Len(w.queue) : w.queue[q] \in Entries
    BY <2>1
  <2> QED
    BY <2>1, <2>2 DEF Entries
<1>2. CASE Len(w.hits) = 0
  <2>1. w.queue[1] = StartOf(start)
    BY <1>2 DEF WalkOk, Begin
  <2>2. w.queue[1].depth = 0 /\ w.queue[1].node = start
    BY <2>1 DEF StartOf
  <2>3. Within(start, s, predicates, 0) = {start}
    BY WithinSteps
  <2> QED
    BY <2>2, <2>3
<1>3. CASE Len(w.hits) # 0
  <2>1. PICK head, D : head = w.queue[1] /\ D = head.depth
    OBVIOUS
  <2>2. D \in Nat /\ D <= depth
    BY <1>1, <2>1
  <2>3. PICK j \in 1..Len(w.hits) : Follows(head, w.hits[j], predicates)
    BY <1>1, <1>3, <2>1 DEF WalkOk
  <2>4. PICK a, c : a = w.hits[j].node /\ c = w.hits[j].depth
    OBVIOUS
  <2>5. c \in Nat /\ D = c + 1 /\ a \in Within(start, s, predicates, c)
    BY <1>1, <2>1, <2>3, <2>4 DEF Follows, Spread
  <2>6. [predicate |-> head.via, to |-> head.node] \in Edges(a) /\ head.via \in predicates
    BY <2>3, <2>4 DEF Follows
  <2>7. PICK e : e = [predicate |-> head.via, to |-> head.node]
    OBVIOUS
  <2>8. e \in Edges(a) /\ e.to = head.node /\ e.predicate \in predicates
    BY <2>6, <2>7
  <2>9. head.node \in Farther(Within(start, s, predicates, c), s, predicates)
    BY <2>1, <2>5, <2>8 DEF Farther, InScope
  <2>10. head.node \in Within(start, s, predicates, D)
    BY <2>5, <2>9, WithinSteps
  <2>11. ASSUME NEW d \in Nat, d < D, head.node \in Within(start, s, predicates, d) PROVE FALSE
    <3>1. \A q \in 1..Len(w.queue) : ~(w.queue[q].depth <= d)
      <4>1. \A q \in 1..Len(w.queue) : q = 1 \/ 1 < q
        BY <1>1
      <4>2. \A q \in 1..Len(w.queue) : D <= w.queue[q].depth
        BY <1>1, <2>1, <2>2, <4>1 DEF Spread
      <4> QED
        BY <1>1, <2>2, <2>11, <4>2
    <3>2. d <= depth
      BY <2>2, <2>11
    <3>3. head.node \in w.visited
      BY <1>3, <2>11, <3>1, <3>2, Covered
    <3> QED
      BY <2>1, <3>3
  <2> QED
    BY <2>1, <2>2, <2>10, <2>11
<1> QED
  BY <1>2, <1>3

\* At the beginning start is the only entry.
LEMMA SpreadBegins ==
    ASSUME NEW start, NEW s, NEW depth, NEW predicates
    PROVE  Spread(Begin(start), start, s, depth, predicates)
<1>1. PICK w : w = Begin(start)
  OBVIOUS
<1>2. w.visited = {} /\ w.hits = <<>> /\ w.queue = <<StartOf(start)>>
  BY <1>1 DEF Begin
<1>3. Len(w.hits) = 0 /\ Len(w.queue) = 1 /\ w.queue[1].depth = 0
  BY <1>2 DEF StartOf
<1> QED
  BY <1>1, <1>2, <1>3 DEF Spread

\* Depths are numbers.
LEMMA DepthsAre ==
    ASSUME NEW w, WalkShape(w)
    PROVE  /\ w.hits \in Seq(Entries) /\ w.queue \in Seq(Entries) /\ Len(w.hits) \in Nat /\ Len(w.queue) \in Nat
           /\ \A k \in 1..Len(w.hits) : w.hits[k].depth \in Nat
           /\ \A q \in 1..Len(w.queue) : w.queue[q].depth \in Nat
<1>1. w.hits \in Seq(Entries) /\ w.queue \in Seq(Entries)
  BY DEF WalkShape
<1>2. /\ Len(w.hits) \in Nat /\ \A k \in 1..Len(w.hits) : w.hits[k] \in Entries
      /\ Len(w.queue) \in Nat /\ \A q \in 1..Len(w.queue) : w.queue[q] \in Entries
  BY <1>1
<1> QED
  BY <1>1, <1>2 DEF Entries

\* A turn that drops the head of the queue, or passes a node of another session.
LEMMA SpreadSkips ==
    ASSUME NEW start, NEW s, NEW depth \in Nat, NEW predicates,
           NEW w, WalkShape(w), w.queue # <<>>, Spread(w, start, s, depth, predicates),
           NEW v, v.hits = w.hits, v.queue = Tail(w.queue), w.visited \subseteq v.visited,
           w.queue[1].depth > depth \/ w.queue[1].node \in v.visited,
           \A a \in v.visited : a \in w.visited \/ ~InScope(a, s)
    PROVE  Spread(v, start, s, depth, predicates)
<1>1. /\ w.queue \in Seq(Entries) /\ Len(w.queue) \in Nat
      /\ \A k \in 1..Len(w.hits) : w.hits[k].depth \in Nat
      /\ \A q \in 1..Len(w.queue) : w.queue[q].depth \in Nat
  BY DepthsAre
<1>2. PICK n : n = Len(v.queue)
  OBVIOUS
<1>3. /\ n \in Nat /\ Len(w.queue) = n + 1
      /\ \A q \in 1..n : q + 1 \in 1..Len(w.queue) /\ v.queue[q] = w.queue[q + 1]
  <2>1. /\ Tail(w.queue) \in Seq(Entries) /\ Len(Tail(w.queue)) = Len(w.queue) - 1 /\ Len(w.queue) >= 1
        /\ \A q \in 1..Len(Tail(w.queue)) : q + 1 \in 1..Len(w.queue) /\ Tail(w.queue)[q] = w.queue[q + 1]
    BY <1>1, TailIs
  <2> QED
    BY <1>1, <1>2, <2>1
<1>4. ASSUME NEW p \in 1..n, NEW q \in 1..n, p < q PROVE v.queue[p].depth <= v.queue[q].depth
  <2>1. p + 1 \in 1..Len(w.queue) /\ q + 1 \in 1..Len(w.queue) /\ p + 1 < q + 1
    BY <1>3, <1>4
  <2> QED
    BY <1>3, <2>1 DEF Spread
<1>5. ASSUME NEW q \in 1..n PROVE v.queue[q].depth <= v.queue[1].depth + 1
  <2>1. 1 \in 1..n /\ 2 \in 1..Len(w.queue) /\ 1 \in 1..Len(w.queue) /\ v.queue[1] = w.queue[2]
    BY <1>3
  <2>2. w.queue[1].depth <= w.queue[2].depth
    BY <2>1 DEF Spread
  <2>3. w.queue[q + 1].depth <= w.queue[1].depth + 1 /\ q + 1 \in 1..Len(w.queue)
    BY <1>3 DEF Spread
  <2>4. w.queue[q + 1].depth <= w.queue[2].depth + 1
    <3>1. PICK x, y, z : x = w.queue[1].depth /\ y = w.queue[2].depth /\ z = w.queue[q + 1].depth
      OBVIOUS
    <3>2. x \in Nat /\ y \in Nat /\ z \in Nat
      BY <1>1, <2>1, <2>3, <3>1
    <3>3. x <= y /\ z <= x + 1
      BY <2>2, <2>3, <3>1
    <3>4. z <= y + 1
      BY <3>2, <3>3
    <3> QED
      BY <3>1, <3>4
  <2> QED
    BY <1>3, <2>1, <2>4
<1>6. ASSUME NEW k \in 1..Len(v.hits), NEW q \in 1..n PROVE v.hits[k].depth <= v.queue[q].depth
  BY <1>3 DEF Spread
<1>7. \A a \in v.visited : InScope(a, s) => \E k \in 1..Len(v.hits) : v.hits[k].node = a
  BY DEF Spread
<1>8. \A k \in 1..Len(v.hits) :
          /\ v.hits[k].node \in Within(start, s, predicates, v.hits[k].depth)
          /\ \A d \in Nat : d < v.hits[k].depth => v.hits[k].node \notin Within(start, s, predicates, d)
  BY DEF Spread
<1>9. ASSUME NEW k \in 1..Len(v.hits), v.hits[k].depth < depth, NEW e \in Chosen(v.hits[k].node, predicates),
             e.to \notin v.visited
      PROVE  \E q \in 1..n : v.queue[q].node = e.to /\ v.queue[q].depth = v.hits[k].depth + 1
  <2>1. PICK q \in 1..Len(w.queue) : w.queue[q].node = e.to /\ w.queue[q].depth = w.hits[k].depth + 1
    <3>1. e.to \notin w.visited /\ v.hits[k] = w.hits[k]
      BY <1>9
    <3> QED
      BY <1>9, <3>1 DEF Spread
  <2>2. q # 1
    <3>1. w.hits[k].depth \in Nat /\ w.hits[k].depth < depth
      BY <1>1, <1>9
    <3>2. ~(w.hits[k].depth + 1 > depth)
      BY <3>1
    <3> QED
      BY <1>9, <2>1, <3>2
  <2>3. q - 1 \in 1..n /\ (q - 1) + 1 = q
    BY <1>3, <2>2
  <2>4. v.queue[q - 1] = w.queue[q]
    BY <1>3, <2>3
  <2> QED
    BY <2>1, <2>3, <2>4
<1> QED
  BY <1>2, <1>4, <1>5, <1>6, <1>7, <1>8, <1>9 DEF Spread

\* A turn with a hit, all of whose edges are queued.
LEMMA SpreadHits ==
    ASSUME ToolsInv, NEW start, NEW s, InScope(start, s), NEW depth \in Nat, NEW predicates, NEW maxHits,
           NEW w, WalkOk(w, start, s, depth, predicates, maxHits), w.queue # <<>>,
           Spread(w, start, s, depth, predicates),
           ~(w.queue[1].depth > depth), w.queue[1].node \notin w.visited, InScope(w.queue[1].node, s),
           NEW more, more = Onward(w.queue[1], predicates), NEW v, IsHit(v, w, more)
    PROVE  Spread(v, start, s, depth, predicates)
<1>1. WalkShape(w)
  BY DEF WalkOk
<1>2. /\ w.hits \in Seq(Entries) /\ w.queue \in Seq(Entries) /\ Len(w.hits) \in Nat /\ Len(w.queue) \in Nat
      /\ \A k \in 1..Len(w.hits) : w.hits[k].depth \in Nat
      /\ \A q \in 1..Len(w.queue) : w.queue[q].depth \in Nat
  BY <1>1, DepthsAre
<1>3. PICK head, D, h, r : head = w.queue[1] /\ D = head.depth /\ h = Len(w.hits) /\ r = Len(w.queue) - 1
  OBVIOUS
<1>4. /\ Len(w.queue) = r + 1 /\ r \in Nat /\ h \in Nat /\ 1 \in 1..Len(w.queue)
      /\ head \in Entries /\ head.node \in DOMAIN know
  <2>1. Len(w.queue) >= 1
    BY <1>2
  <2>2. w.queue[1] \in Entries
    BY <1>2, <2>1
  <2> QED
    BY <1>2, <1>3, <2>1, <2>2 DEF InScope
<1>5. /\ D \in Nat /\ head.node \in Within(start, s, predicates, D)
      /\ \A d \in Nat : d < D => head.node \notin Within(start, s, predicates, d)
  BY <1>3, HitsAtDistance
<1>6. /\ more \in Seq(Entries)
      /\ \A k \in 1..Len(more) : Follows(more[k], head, predicates)
      /\ \A e \in Chosen(head.node, predicates) : \E k \in 1..Len(more) :
            more[k].node = e.to /\ more[k].depth = D + 1
  BY SMTT(60), <1>3, <1>4, OnwardIs
<1>7. \A k \in 1..Len(more) : more[k].depth = D + 1
  BY <1>3, <1>6 DEF Follows
<1>8. PICK hits, queue, hits2, queue2 :
          hits = w.hits /\ queue = w.queue /\ hits2 = v.hits /\ queue2 = v.queue
  OBVIOUS
<1>9. /\ hits \in Seq(Entries) /\ queue \in Seq(Entries) /\ queue # <<>>
      /\ hits2 = Append(hits, queue[1]) /\ queue2 = Tail(queue) \o more
  BY <1>2, <1>8 DEF IsHit
<1>10. /\ Len(hits2) = Len(hits) + 1 /\ hits2[Len(hits) + 1] = queue[1]
       /\ \A k \in 1..Len(hits) : hits2[k] = hits[k]
       /\ Len(more) \in Nat /\ Len(queue2) = Len(queue) - 1 + Len(more)
       /\ \A q \in 1..Len(queue2) :
             \/ q <= Len(queue) - 1 /\ q + 1 \in 1..Len(queue) /\ queue2[q] = queue[q + 1]
             \/ q > Len(queue) - 1 /\ q - (Len(queue) - 1) \in 1..Len(more)
                /\ queue2[q] = more[q - (Len(queue) - 1)]
       /\ \A q \in 1..Len(more) : /\ Len(queue) - 1 + q \in 1..Len(queue2)
                                  /\ queue2[Len(queue) - 1 + q] = more[q]
  BY <1>6, <1>9, HitIs
<1>11. /\ Len(v.hits) = h + 1 /\ v.hits[h + 1] = head
       /\ \A k \in 1..h : v.hits[k] = w.hits[k]
       /\ Len(v.queue) = r + Len(more)
       /\ \A q \in 1..Len(v.queue) :
             \/ q <= r /\ q + 1 \in 1..Len(w.queue) /\ v.queue[q] = w.queue[q + 1]
             \/ q > r /\ q - r \in 1..Len(more) /\ v.queue[q] = more[q - r]
       /\ \A q \in 1..Len(more) : r + q \in 1..Len(v.queue) /\ v.queue[r + q] = more[q]
       /\ v.visited = w.visited \cup {head.node}
  BY <1>3, <1>8, <1>10 DEF IsHit
<1>12. \A q \in 1..Len(w.queue) : D <= w.queue[q].depth /\ w.queue[q].depth <= D + 1
  <2>1. \A q \in 1..Len(w.queue) : q = 1 \/ 1 < q
    BY <1>2
  <2> QED
    BY <1>2, <1>3, <1>4, <1>5, <2>1 DEF Spread
<1>13. ASSUME NEW q \in 1..Len(v.queue)
       PROVE  /\ v.queue[q].depth \in Nat /\ D <= v.queue[q].depth /\ v.queue[q].depth <= D + 1
              /\ q > r => v.queue[q].depth = D + 1
  <2>1. CASE q <= r /\ q + 1 \in 1..Len(w.queue) /\ v.queue[q] = w.queue[q + 1]
    BY <1>2, <1>4, <1>12, <2>1
  <2>2. CASE q > r /\ q - r \in 1..Len(more) /\ v.queue[q] = more[q - r]
    <3>1. v.queue[q].depth = D + 1
      BY <1>7, <2>2
    <3> QED
      BY <1>5, <3>1
  <2> QED
    BY <1>11, <2>1, <2>2
<1>14. ASSUME NEW p \in 1..Len(v.queue), NEW q \in 1..Len(v.queue), p < q
       PROVE  v.queue[p].depth <= v.queue[q].depth
  <2>1. CASE q > r
    BY <1>13, <2>1
  <2>2. CASE ~(q > r)
    <3>1. ~(p > r)
      BY <1>4, <1>14, <2>2
    <3>2. /\ p + 1 \in 1..Len(w.queue) /\ v.queue[p] = w.queue[p + 1]
          /\ q + 1 \in 1..Len(w.queue) /\ v.queue[q] = w.queue[q + 1] /\ p + 1 < q + 1
      <4>1. p \in Int /\ q \in Int /\ p + 1 < q + 1
        BY <1>4, <1>14
      <4>2. p + 1 \in 1..Len(w.queue) /\ v.queue[p] = w.queue[p + 1]
        BY <1>11, <3>1
      <4>3. q + 1 \in 1..Len(w.queue) /\ v.queue[q] = w.queue[q + 1]
        BY <1>11, <2>2
      <4> QED
        BY <4>1, <4>2, <4>3
    <3> QED
      BY <3>2 DEF Spread
  <2> QED
    BY <2>1, <2>2
<1>15. ASSUME NEW q \in 1..Len(v.queue) PROVE v.queue[q].depth <= v.queue[1].depth + 1
  <2>1. 1 \in 1..Len(v.queue)
    BY <1>11
  <2> QED
    BY <1>5, <1>13, <2>1
<1>16. ASSUME NEW k \in 1..Len(v.hits), NEW q \in 1..Len(v.queue) PROVE v.hits[k].depth <= v.queue[q].depth
  <2>1. v.hits[k].depth \in Nat /\ v.hits[k].depth <= D
    <3>1. CASE k \in 1..h
      <4>1. w.hits[k].depth <= w.queue[1].depth
        BY <1>3, <1>4, <3>1 DEF Spread
      <4> QED
        BY <1>2, <1>3, <1>11, <3>1, <4>1
    <3>2. CASE k = h + 1
      BY <1>3, <1>5, <1>11, <3>2
    <3> QED
      BY <1>4, <1>11, <3>1, <3>2
  <2> QED
    BY <1>5, <1>13, <2>1
<1>17. ASSUME NEW a \in v.visited, InScope(a, s) PROVE \E k \in 1..Len(v.hits) : v.hits[k].node = a
  <2>1. CASE a = head.node
    <3>1. h + 1 \in 1..Len(v.hits)
      BY <1>4, <1>11
    <3> QED
      BY <1>11, <2>1, <3>1
  <2>2. CASE a \in w.visited
    <3>1. PICK k \in 1..h : w.hits[k].node = a
      BY <1>3, <1>17, <2>2 DEF Spread
    <3>2. k \in 1..Len(v.hits)
      BY <1>4, <1>11
    <3> QED
      BY <1>11, <3>1, <3>2
  <2> QED
    BY <1>11, <2>1, <2>2
<1>18. ASSUME NEW k \in 1..Len(v.hits)
       PROVE  /\ v.hits[k].node \in Within(start, s, predicates, v.hits[k].depth)
              /\ \A d \in Nat : d < v.hits[k].depth => v.hits[k].node \notin Within(start, s, predicates, d)
  <2>1. CASE k \in 1..h
    BY <1>3, <1>11, <2>1 DEF Spread
  <2>2. CASE k = h + 1
    BY <1>3, <1>5, <1>11, <2>2
  <2> QED
    BY <1>4, <1>11, <2>1, <2>2
<1>19. ASSUME NEW k \in 1..Len(v.hits), v.hits[k].depth < depth, NEW e \in Chosen(v.hits[k].node, predicates),
              e.to \notin v.visited
       PROVE  \E q \in 1..Len(v.queue) : v.queue[q].node = e.to /\ v.queue[q].depth = v.hits[k].depth + 1
  <2>1. CASE k \in 1..h
    <3>1. v.hits[k] = w.hits[k] /\ e.to \notin w.visited /\ e.to # head.node
      BY <1>11, <1>19, <2>1
    <3>2. PICK q \in 1..Len(w.queue) : w.queue[q].node = e.to /\ w.queue[q].depth = w.hits[k].depth + 1
      BY <1>3, <1>19, <2>1, <3>1 DEF Spread
    <3>3. q # 1
      BY <1>3, <3>1, <3>2
    <3>4. q - 1 \in 1..Len(v.queue) /\ ~(q - 1 > r) /\ (q - 1) + 1 = q
      BY <1>4, <1>10, <1>11, <3>3
    <3>5. v.queue[q - 1] = w.queue[q]
      BY <1>11, <3>4
    <3> QED
      BY <3>1, <3>2, <3>4, <3>5
  <2>2. CASE k = h + 1
    <3>1. v.hits[k] = head /\ e \in Chosen(head.node, predicates)
      BY <1>11, <1>19, <2>2
    <3>2. PICK q \in 1..Len(more) : more[q].node = e.to /\ more[q].depth = D + 1
      BY <1>6, <3>1
    <3>3. r + q \in 1..Len(v.queue) /\ v.queue[r + q] = more[q]
      BY <1>11
    <3> QED
      BY <1>3, <3>1, <3>2, <3>3
  <2> QED
    BY <1>4, <1>11, <2>1, <2>2
<1> QED
  BY <1>14, <1>15, <1>16, <1>17, <1>18, <1>19 DEF Spread

\* With the most room a turn keeps the nodes in the order of their distance.
LEMMA SpreadStep ==
    ASSUME ToolsInv, NEW start, NEW s, InScope(start, s), NEW depth \in Nat, NEW predicates,
           NEW w, WalkOk(w, start, s, depth, predicates, Turns), NEW n \in Nat, Counted(w, n),
           Spread(w, start, s, depth, predicates),
           NEW v, v = TurnOf(w, s, depth, predicates, Turns)
    PROVE  WalkOk(v, start, s, depth, predicates, Turns) /\ Counted(v, n + 1) /\ Spread(v, start, s, depth, predicates)
<1>1. PICK maxHits : maxHits = Turns
  OBVIOUS
<1>2. maxHits \in Nat /\ start \in AbstractIds
  BY <1>1, TurnsIs DEF InScope, ToolsInv, KnowOk
<1>3. WalkOk(w, start, s, depth, predicates, maxHits) /\ v = TurnOf(w, s, depth, predicates, maxHits)
  BY <1>1
<1>4. WalkOk(v, start, s, depth, predicates, maxHits)
  BY <1>2, <1>3, WalkStep
<1>5. WalkShape(w) /\ Len(w.hits) + Len(w.queue) <= maxHits
  BY <1>3 DEF WalkOk
<1>6. Len(w.hits) \in Nat /\ Len(w.hits) < maxHits
  <2>1. Len(w.hits) \in Nat /\ Len(w.hits) <= Cardinality(AbstractIds)
    BY <1>3, HitsFew
  <2> QED
    BY <1>1, <1>2, <2>1, TurnsSuffice, EdgeTypeIs
<1>7. Counted(v, n + 1)
  BY <1>2, <1>3, <1>5, <1>6, CountStep
<1>8. CASE w.queue = <<>>
  <2>1. v = w
    BY <1>8 DEF TurnOf
  <2> QED
    BY <1>1, <1>4, <1>7, <2>1
<1>9. CASE w.queue # <<>>
  <2>1. PICK more : more = First(Onward(w.queue[1], predicates), Room(w, maxHits))
    OBVIOUS
  <2>2. /\ w.queue[1] \in Entries /\ Room(w, maxHits) \in Nat
        /\ \/ (w.queue[1].depth > depth \/ w.queue[1].node \in w.visited) /\ Dropped(v, w)
           \/ /\ ~(w.queue[1].depth > depth) /\ w.queue[1].node \notin w.visited
              /\ ~InScope(w.queue[1].node, s) /\ Passed(v, w)
           \/ /\ ~(w.queue[1].depth > depth) /\ w.queue[1].node \notin w.visited
              /\ InScope(w.queue[1].node, s) /\ IsHit(v, w, more)
    BY <1>2, <1>3, <1>5, <1>9, <2>1, TurnIs
  <2>3. CASE (w.queue[1].depth > depth \/ w.queue[1].node \in w.visited) /\ Dropped(v, w)
    <3>1. /\ v.hits = w.hits /\ v.queue = Tail(w.queue) /\ w.visited \subseteq v.visited
          /\ (w.queue[1].depth > depth \/ w.queue[1].node \in v.visited)
          /\ \A a \in v.visited : a \in w.visited \/ ~InScope(a, s)
      BY <2>3 DEF Dropped
    <3>2. Spread(v, start, s, depth, predicates)
      BY <1>5, <1>9, <3>1, SpreadSkips
    <3> QED
      BY <1>1, <1>4, <1>7, <3>2
  <2>4. CASE ~InScope(w.queue[1].node, s) /\ Passed(v, w)
    <3>1. /\ v.hits = w.hits /\ v.queue = Tail(w.queue) /\ w.visited \subseteq v.visited
          /\ w.queue[1].node \in v.visited
          /\ \A a \in v.visited : a \in w.visited \/ ~InScope(a, s)
      BY <2>4 DEF Passed
    <3>2. Spread(v, start, s, depth, predicates)
      BY <1>5, <1>9, <3>1, SpreadSkips
    <3> QED
      BY <1>1, <1>4, <1>7, <3>2
  <2>5. CASE /\ ~(w.queue[1].depth > depth) /\ w.queue[1].node \notin w.visited
             /\ InScope(w.queue[1].node, s) /\ IsHit(v, w, more)
    <3>1. Len(v.hits) = Len(w.hits) + 1
      <4>1. w.hits \in Seq(Entries) /\ v.hits = Append(w.hits, w.queue[1])
        BY <1>5, <2>5 DEF IsHit, WalkShape
      <4> QED
        BY <4>1
    <3>2. Len(w.hits) + 1 <= Cardinality(AbstractIds)
      BY <1>4, <3>1, HitsFew
    <3>3. MostEdges <= Room(w, Turns)
      BY <1>5, <1>9, <3>2, RoomForAll
    <3>4. w.queue[1].node \in DOMAIN know
      BY <2>5 DEF InScope
    <3>5. more = Onward(w.queue[1], predicates)
      BY <1>1, <2>1, <2>2, <3>3, <3>4, MoreIs
    <3>6. Spread(v, start, s, depth, predicates)
      BY <1>3, <1>9, <2>5, <3>5, SpreadHits
    <3> QED
      BY <1>1, <1>4, <1>7, <3>6
  <2> QED
    BY <2>2, <2>3, <2>4, <2>5
<1> QED
  BY <1>8, <1>9

\* So it does from the beginning to the last turn.
LEMMA SpreadStays ==
    ASSUME ToolsInv, NEW start, NEW s, InScope(start, s), NEW depth \in Nat, NEW predicates,
           NEW n \in Nat, NEW g, IsWalk(g, n, start, s, depth, predicates, Turns), NEW k \in 0..n
    PROVE  /\ WalkOk(g[k], start, s, depth, predicates, Turns) /\ Counted(g[k], k)
           /\ Spread(g[k], start, s, depth, predicates)
<1> DEFINE Good(j) == /\ WalkOk(g[j], start, s, depth, predicates, Turns) /\ Counted(g[j], j)
                      /\ Spread(g[j], start, s, depth, predicates)
           Bad == {j \in 0..n : ~Good(j)}
<1>1. SUFFICES ASSUME Bad # {} PROVE FALSE
  OBVIOUS
<1>2. PICK m \in Bad : \A j \in Bad : m <= j
  <2>1. Bad \in SUBSET Nat
    OBVIOUS
  <2> HIDE DEF Bad
  <2> QED
    BY <1>1, <2>1, LeastNat
<1>3. start \in AbstractIds
  BY DEF InScope, ToolsInv, KnowOk
<1>4. m # 0
  <2>1. g[0] = Begin(start)
    BY DEF IsWalk
  <2>2. Turns \in Nat \ {0}
    BY TurnsIs
  <2>3. WalkOk(Begin(start), start, s, depth, predicates, Turns)
    BY <1>3, <2>2, WalkBegins
  <2>4. Counted(Begin(start), 0)
    <3>1. Len(Begin(start).hits) = 0 /\ Len(Begin(start).queue) = 1
      BY DEF Begin
    <3>2. 0 * MostEdges = 0
      BY EdgeTypeIs
    <3> QED
      BY <3>1, <3>2 DEF Counted
  <2>5. Good(0)
    BY <2>1, <2>3, <2>4, SpreadBegins
  <2> QED
    BY <2>5
<1>5. PICK i : i = m - 1
  OBVIOUS
<1>6. i \in Nat /\ m = i + 1 /\ Good(i) /\ m \in 1..n
  BY <1>2, <1>4, <1>5
<1>7. PICK w, v : w = g[i] /\ v = g[m]
  OBVIOUS
<1>8. v = TurnOf(w, s, depth, predicates, Turns)
  BY <1>5, <1>6, <1>7 DEF IsWalk
<1>9. /\ WalkOk(w, start, s, depth, predicates, Turns) /\ Counted(w, i)
      /\ Spread(w, start, s, depth, predicates)
  BY <1>6, <1>7
<1>10. /\ WalkOk(v, start, s, depth, predicates, Turns) /\ Counted(v, i + 1)
       /\ Spread(v, start, s, depth, predicates)
  BY <1>6, <1>8, <1>9, SpreadStep
<1> QED
  BY <1>2, <1>6, <1>7, <1>10

\* After the last turn nothing is queued, and the hits are what is within reach.
LEMMA TraverseReaches ==
    ASSUME ToolsInv, NEW start, NEW s, InScope(start, s), NEW depth \in Nat, NEW predicates,
           NEW hits, hits = Traverse(start, s, depth, predicates, Turns)
    PROVE  /\ \A x : x \in {hits[k].node : k \in DOMAIN hits} <=> x \in Within(start, s, predicates, depth)
           /\ \A k \in DOMAIN hits, d \in Nat :
                 d < hits[k].depth => hits[k].node \notin Within(start, s, predicates, d)
           /\ \A k \in DOMAIN hits : hits[k].depth \in Nat
<1>1. PICK g : /\ IsWalk(g, Turns, start, s, depth, predicates, Turns)
               /\ Traverse(start, s, depth, predicates, Turns) = g[Turns].hits
  BY TraverseUnfold
<1>2. Turns \in Nat /\ Turns \in 0..Turns /\ Turns # 0 /\ Turns \in Nat \ {0}
  BY TurnsIs
<1>3. PICK w : w = g[Turns]
  OBVIOUS
<1>4. /\ WalkOk(w, start, s, depth, predicates, Turns) /\ Counted(w, Turns)
      /\ Spread(w, start, s, depth, predicates)
  BY <1>1, <1>2, <1>3, SpreadStays
<1>5. Len(w.hits) # 0
  BY <1>1, <1>2, <1>3, WalkStays
<1>6. WalkShape(w)
  BY <1>4 DEF WalkOk
<1>7. /\ w.hits \in Seq(Entries) /\ w.queue \in Seq(Entries) /\ Len(w.hits) \in Nat /\ Len(w.queue) \in Nat
      /\ \A k \in 1..Len(w.hits) : w.hits[k].depth \in Nat
  BY <1>6, DepthsAre
<1>8. w.queue = <<>>
  <2>1. SUFFICES ASSUME w.queue # <<>> PROVE FALSE
    OBVIOUS
  <2>2. PICK t, q, h, m, a, x, y :
            /\ t = Turns /\ q = Len(w.queue) /\ h = Len(w.hits) /\ m = MostEdges
            /\ a = Cardinality(AbstractIds) /\ x = h * m /\ y = m * a
    OBVIOUS
  <2>3. t + q <= 1 + x /\ t = 1 + y
    BY <1>4, <2>1, <2>2, TurnsIs DEF Counted
  <2>4. a \in Nat /\ m \in Nat /\ h \in Nat /\ q \in Nat /\ h <= a
    BY <1>4, <1>7, <2>2, HitsFew, EdgeTypeIs
  <2>5. x <= y
    BY <2>2, <2>4, RowsFit
  <2>6. x \in Nat /\ y \in Nat
    BY <2>2, <2>4
  <2>7. q >= 1
    BY <1>7, <2>1, <2>2
  <2> QED
    BY <2>3, <2>4, <2>5, <2>6, <2>7
<1>9. DOMAIN hits = 1..Len(w.hits) /\ hits = w.hits
  BY <1>1, <1>3, <1>7
<1>10. ASSUME NEW k \in 1..Len(w.hits) PROVE w.hits[k].node \in Within(start, s, predicates, depth)
  <2>1. w.hits[k].depth \in Nat /\ w.hits[k].depth <= depth
    BY <1>4, <1>7 DEF WalkOk
  <2>2. w.hits[k].node \in Within(start, s, predicates, w.hits[k].depth)
    BY <1>4 DEF Spread
  <2>3. Within(start, s, predicates, w.hits[k].depth) \in SUBSET Within(start, s, predicates, depth)
    BY <2>1, WithinGrows
  <2> QED
    BY <2>2, <2>3
<1>11. ASSUME NEW x \in Within(start, s, predicates, depth) PROVE \E k \in 1..Len(w.hits) : w.hits[k].node = x
  <2>1. \A q \in 1..Len(w.queue) : ~(w.queue[q].depth <= depth)
    BY <1>8
  <2>2. x \in w.visited
    BY <1>4, <1>5, <2>1, Covered
  <2>3. InScope(x, s)
    BY WithinGrows
  <2> QED
    BY <1>4, <2>2, <2>3 DEF Spread
<1>12. \A k \in 1..Len(w.hits), d \in Nat :
          d < w.hits[k].depth => w.hits[k].node \notin Within(start, s, predicates, d)
  BY <1>4 DEF Spread
<1> QED
  BY <1>7, <1>9, <1>10, <1>11, <1>12

\* What holds of the hits of every traversal, however little room it has.
HitsOk(hits, start, s, depth, predicates, maxHits) ==
    /\ Len(hits) \in 1..maxHits /\ hits[1].node = start
    /\ Cardinality({hits[k].node : k \in DOMAIN hits}) = Len(hits)
    /\ \A k \in 2..Len(hits) : \E j \in 1..(k - 1) :
          /\ hits[k].depth = hits[j].depth + 1 /\ hits[k].depth <= depth
          /\ [predicate |-> hits[k].via, to |-> hits[k].node] \in Edges(hits[j].node)
          /\ hits[k].via \in predicates /\ InScope(hits[k].node, s)

\* Such are the hits of a traversal from a node of the session.
LEMMA TraverseHits ==
    ASSUME ToolsInv, NEW start, NEW s, InScope(start, s), NEW depth \in Nat, NEW predicates,
           NEW maxHits \in Nat \ {0}, NEW hits, hits = Traverse(start, s, depth, predicates, maxHits)
    PROVE  HitsOk(hits, start, s, depth, predicates, maxHits)
<1>1. PICK w : /\ WalkOk(w, start, s, depth, predicates, maxHits) /\ Len(w.hits) # 0 /\ hits = w.hits
  BY TraverseIs
<1>2. WalkShape(w) /\ Len(w.hits) + Len(w.queue) <= maxHits
  BY <1>1 DEF WalkOk
<1>3. /\ hits \in Seq(Entries) /\ Len(hits) \in Nat /\ Len(w.queue) \in Nat /\ DOMAIN hits = 1..Len(hits)
      /\ \A k \in 1..Len(hits) : hits[k] \in Entries
  BY <1>1, <1>2, DepthsAre
<1>4. Len(hits) \in 1..maxHits
  <2>1. PICK h, q : h = Len(hits) /\ q = Len(w.queue)
    OBVIOUS
  <2>2. h \in Nat /\ q \in Nat /\ h # 0 /\ h + q <= maxHits
    BY <1>1, <1>2, <1>3, <2>1
  <2>3. h \in 1..maxHits
    BY <2>2
  <2> QED
    BY <2>1, <2>3
<1>5. hits[1].node = start
  BY <1>1 DEF WalkOk, StartOf
<1>6. PICK nodes : nodes = [k \in 1..Len(hits) |-> hits[k].node]
  OBVIOUS
<1>7. \A k \in 1..Len(hits) : hits[k].node \in AbstractIds
  BY <1>3 DEF Entries
<1>8. nodes \in Seq(AbstractIds) /\ Len(nodes) = Len(hits) /\ DOMAIN nodes = 1..Len(hits)
  BY <1>3, <1>6, <1>7
<1>9. IsInjective(nodes)
  BY <1>1, <1>6, <1>8 DEF IsInjective, WalkOk
<1>10. Cardinality(ToSet(nodes)) = Len(hits)
  BY <1>8, <1>9, DistinctSize
<1>11. ToSet(nodes) = {hits[k].node : k \in DOMAIN hits}
  BY <1>3, <1>6, <1>8 DEF ToSet
<1>12. ASSUME NEW k \in 2..Len(hits)
       PROVE  \E j \in 1..(k - 1) :
                 /\ hits[k].depth = hits[j].depth + 1 /\ hits[k].depth <= depth
                 /\ [predicate |-> hits[k].via, to |-> hits[k].node] \in Edges(hits[j].node)
                 /\ hits[k].via \in predicates /\ InScope(hits[k].node, s)
  <2>1. PICK j \in 1..(k - 1) : Follows(hits[k], hits[j], predicates)
    BY <1>1 DEF WalkOk
  <2>2. k \in 1..Len(hits)
    BY <1>3
  <2>3. InScope(hits[k].node, s) /\ hits[k].depth <= depth
    BY <1>1, <2>2 DEF WalkOk
  <2> QED
    BY <2>1, <2>3 DEF Follows
<1> QED
  BY <1>4, <1>5, <1>10, <1>11, <1>12 DEF HitsOk

\* [TraversalCorrect] In a consistent state every traversal answers so.
LEMMA TraversalIsCorrect == ToolsInv => TraversalCorrect
<1> SUFFICES ASSUME ToolsInv, NEW start \in DOMAIN know, NEW depth \in Depths,
                    NEW predicates \in {AllPredicates, {"reference"}}, NEW maxHits \in {1, 2, Turns}
             PROVE  LET s == know[start].session
                        hits == Traverse(start, s, depth, predicates, maxHits)
                        nodes == {hits[k].node : k \in DOMAIN hits}
                    IN  /\ Len(hits) \in 1..maxHits /\ hits[1].node = start
                        /\ Cardinality(nodes) = Len(hits)
                        /\ \A k \in 2..Len(hits) : \E j \in 1..(k - 1) :
                              /\ hits[k].depth = hits[j].depth + 1 /\ hits[k].depth <= depth
                              /\ [predicate |-> hits[k].via, to |-> hits[k].node] \in Edges(hits[j].node)
                              /\ hits[k].via \in predicates /\ InScope(hits[k].node, s)
                        /\ maxHits = Turns =>
                              /\ nodes = Within(start, s, predicates, depth)
                              /\ \A k \in DOMAIN hits :
                                    hits[k].node \notin UNION {Within(start, s, predicates, d) : d \in 0..(hits[k].depth - 1)}
  BY DEF TraversalCorrect
<1>1. PICK s, hits : s = know[start].session /\ hits = Traverse(start, s, depth, predicates, maxHits)
  OBVIOUS
<1>2. InScope(start, s) /\ depth \in Nat /\ maxHits \in Nat \ {0}
  BY <1>1, TurnsIs, ToolsAssumption DEF InScope, Depths
<1>3. HitsOk(hits, start, s, depth, predicates, maxHits)
  BY <1>1, <1>2, TraverseHits
<1>4. ASSUME maxHits = Turns
      PROVE  /\ {hits[k].node : k \in DOMAIN hits} = Within(start, s, predicates, depth)
             /\ \A k \in DOMAIN hits :
                   hits[k].node \notin UNION {Within(start, s, predicates, d) : d \in 0..(hits[k].depth - 1)}
  <2>1. /\ \A x : x \in {hits[k].node : k \in DOMAIN hits} <=> x \in Within(start, s, predicates, depth)
        /\ \A k \in DOMAIN hits, d \in Nat :
              d < hits[k].depth => hits[k].node \notin Within(start, s, predicates, d)
        /\ \A k \in DOMAIN hits : hits[k].depth \in Nat
    <3>1. hits = Traverse(start, s, depth, predicates, Turns)
      BY <1>1, <1>4
    <3> QED
      BY <1>2, <3>1, TraverseReaches
  <2>2. {hits[k].node : k \in DOMAIN hits} = Within(start, s, predicates, depth)
    BY <2>1
  <2>3. ASSUME NEW k \in DOMAIN hits, NEW d \in 0..(hits[k].depth - 1)
        PROVE  hits[k].node \notin Within(start, s, predicates, d)
    <3>1. d \in Nat /\ d < hits[k].depth
      BY <2>1
    <3> QED
      BY <2>1, <3>1
  <2>4. ASSUME NEW k \in DOMAIN hits
        PROVE  hits[k].node \notin UNION {Within(start, s, predicates, d) : d \in 0..(hits[k].depth - 1)}
    BY <2>3
  <2> QED
    BY <2>2, <2>4
<1> QED
  BY <1>1, <1>3, <1>4 DEF HitsOk

\* [TraversalCorrect] A traversal answers with different nodes of the session, each
\* an edge further than an earlier one; with room for every edge with exactly the
\* nodes within the depth, each at its distance from start.
THEOREM TraversalsAreCorrect == MemorySpec => []TraversalCorrect
BY ToolsInvariant, TraversalIsCorrect, PTL
=============================================================================
