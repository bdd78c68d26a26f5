--------------------------- MODULE ObjectStoreProofs ---------------------------
(***************************************************************************)
(* Proofs about ObjectStore, for every number of nodes, every assignment of *)
(* operation keys and every number of operations given up.                  *)
(*                                                                         *)
(* The order in which an operation writes its files is settled first        *)
(* (Places): the body of a node precedes the rest, and nothing due is left  *)
(* out.  ProgressInv then says that what was written so far is right, which *)
(* no later write of the operation undoes; StableInv and IndexInv, which    *)
(* hold until an operation is given up, say who the journal speaks of and   *)
(* what the indexes may differ in.                                          *)
(***************************************************************************)
EXTENDS ObjectStore, TLAPS, SequenceTheorems

(* Operations. *)

Singles(S) == {<<n>> : n \in S}
Pairs == {<<n, m>> : n \in Raw, m \in Raw}
Commits == [set : {"commit"}, nodes : Singles(Node)]
Updates == [set : Patch, nodes : Singles(Raw) \cup Pairs]
Repairs == [set : {"vector", "graph"}, nodes : Singles(Node)]
Mutations == Commits \cup Updates
Operations == Mutations \cup Repairs

\* The files of a new raw node, in their order.
RawParts == <<"body", "receipt", "session", "loop", "undistilled", "pushed", "timeline",
              "embedding", "manifest">>

\* A concatenation is known by its elements.
LEMMA ConcatIs ==
    ASSUME NEW s \in Seq(Part), NEW t \in Seq(Part), NEW r \in Seq(Part),
           Len(r) = Len(s) + Len(t),
           \A i \in 1..Len(s) : r[i] = s[i],
           \A i \in 1..Len(t) : r[i + Len(s)] = t[i]
    PROVE  s \o t = r
<1> DEFINE c == s \o t
<1>1. /\ c \in Seq(Part) /\ Len(c) = Len(s) + Len(t)
      /\ \A i \in 1..Len(s) + Len(t) : c[i] = IF i <= Len(s) THEN s[i] ELSE t[i - Len(s)]
  BY ConcatProperties
<1> HIDE DEF c
<1>2. ASSUME NEW i \in 1..Len(c) PROVE c[i] = r[i]
  <2>1. CASE i <= Len(s)
    BY <1>1, <2>1
  <2>2. CASE i > Len(s)
    <3>1. i - Len(s) \in 1..Len(t) /\ (i - Len(s)) + Len(s) = i
      BY <1>1, <2>2
    <3> QED
      BY <1>1, <2>2, <3>1
  <2> QED
    BY <1>1, <2>1, <2>2
<1>3. c = r
  BY <1>1, <1>2, SeqEqual
<1> QED
  BY <1>3 DEF c

\* The files of the indexes after the body of an update.
LEMMA BodyThenSync ==
    <<"body">> \o SyncParts = <<"body", "session", "loop", "undistilled", "pushed", "timeline">>
<1> DEFINE b == <<"body">>
           r == <<"body", "session", "loop", "undistilled", "pushed", "timeline">>
<1>1. b \in Seq(Part) /\ SyncParts \in Seq(Part) /\ r \in Seq(Part)
  BY DEF SyncParts, Part, Index, RawIndex
<1>2. Len(b) = 1 /\ Len(SyncParts) = 5 /\ Len(r) = 6
  BY DEF SyncParts
<1>3. /\ r[1] = b[1] /\ r[2] = SyncParts[1] /\ r[3] = SyncParts[2] /\ r[4] = SyncParts[3]
      /\ r[5] = SyncParts[4] /\ r[6] = SyncParts[5]
  BY DEF SyncParts
<1> HIDE DEF b, r
<1>4. /\ \A i \in 1..Len(b) : r[i] = b[i]
      /\ \A i \in 1..Len(SyncParts) : r[i + Len(b)] = SyncParts[i]
  <2>1. \A i \in 1..1 : i = 1
    OBVIOUS
  <2>2. \A i \in 1..5 : i = 1 \/ i = 2 \/ i = 3 \/ i = 4 \/ i = 5
    OBVIOUS
  <2> QED
    BY <1>2, <1>3, <2>1, <2>2
<1>5. Len(r) = Len(b) + Len(SyncParts)
  BY <1>2
<1>6. b \o SyncParts = r
  BY <1>1, <1>4, <1>5, ConcatIs, Zenon
<1> QED
  BY <1>6 DEF b, r

\* And of a new raw node.
LEMMA RawCommitSequence ==
    <<"body", "receipt">> \o SyncParts \o <<"embedding", "manifest">> = RawParts
<1> DEFINE b == <<"body", "receipt">>
           r == <<"body", "receipt", "session", "loop", "undistilled", "pushed", "timeline">>
           e == <<"embedding", "manifest">>
<1>1. /\ b \in Seq(Part) /\ SyncParts \in Seq(Part) /\ r \in Seq(Part)
      /\ e \in Seq(Part) /\ RawParts \in Seq(Part)
  BY DEF SyncParts, RawParts, Part, Index, RawIndex, Derived
<1>2. Len(b) = 2 /\ Len(SyncParts) = 5 /\ Len(r) = 7 /\ Len(e) = 2 /\ Len(RawParts) = 9
  BY DEF SyncParts, RawParts
<1>3. /\ r[1] = b[1] /\ r[2] = b[2] /\ r[3] = SyncParts[1] /\ r[4] = SyncParts[2]
      /\ r[5] = SyncParts[3] /\ r[6] = SyncParts[4] /\ r[7] = SyncParts[5]
  BY DEF SyncParts
<1>4. /\ RawParts[1] = r[1] /\ RawParts[2] = r[2] /\ RawParts[3] = r[3] /\ RawParts[4] = r[4]
      /\ RawParts[5] = r[5] /\ RawParts[6] = r[6] /\ RawParts[7] = r[7]
      /\ RawParts[8] = e[1] /\ RawParts[9] = e[2]
  BY DEF RawParts
<1> HIDE DEF b, r, e
<1>0. /\ \A i \in 1..2 : i = 1 \/ i = 2
      /\ \A i \in 1..5 : i = 1 \/ i = 2 \/ i = 3 \/ i = 4 \/ i = 5
      /\ \A i \in 1..7 : i = 1 \/ i = 2 \/ i = 3 \/ i = 4 \/ i = 5 \/ i = 6 \/ i = 7
  OBVIOUS
<1>5. /\ \A i \in 1..Len(b) : r[i] = b[i]
      /\ \A i \in 1..Len(SyncParts) : r[i + Len(b)] = SyncParts[i]
  BY <1>0, <1>2, <1>3
<1>6. b \o SyncParts = r
  <2>1. Len(r) = Len(b) + Len(SyncParts)
    BY <1>2
  <2> QED
    BY <1>1, <1>5, <2>1, ConcatIs, Zenon
<1>7. /\ \A i \in 1..Len(r) : RawParts[i] = r[i]
      /\ \A i \in 1..Len(e) : RawParts[i + Len(r)] = e[i]
  BY <1>0, <1>2, <1>4
<1>8. r \o e = RawParts
  <2>1. Len(RawParts) = Len(r) + Len(e)
    BY <1>2
  <2> QED
    BY <1>1, <1>7, <2>1, ConcatIs, Zenon
<1> QED
  BY <1>6, <1>8 DEF b, e

\* The files of a new raw node.
LEMMA RawCommitParts ==
    ASSUME NEW m \in Commits, m.nodes[1] \in Raw
    PROVE  Parts(m) = RawParts
<1>1. m.set = "commit"
  BY DEF Commits
<1> QED
  BY <1>1, RawCommitSequence DEF Parts

\* The files of a new abstract node: no raw index lists it.
LEMMA AbstractCommitParts ==
    ASSUME NEW m \in Commits, m.nodes[1] \notin Raw
    PROVE  Parts(m) = <<"body", "receipt", "embedding", "manifest", "graph">>
<1>1. m.set = "commit"
  BY DEF Commits
<1> QED
  BY <1>1 DEF Parts

\* The files of a lifecycle update: no receipt, no embedding.
LEMMA UpdateParts ==
    ASSUME NEW m \in Updates
    PROVE  Parts(m) = <<"body", "session", "loop", "undistilled", "pushed", "timeline">>
<1>1. m.set \notin {"commit", "vector", "graph"}
  BY DEF Updates, Patch
<1> QED
  BY <1>1, BodyThenSync DEF Parts

\* The files a repair writes: projections only.
LEMMA RepairParts ==
    ASSUME NEW m \in Repairs
    PROVE  \/ Parts(m) = <<"embedding", "manifest">>
           \/ Parts(m) = <<"graph">>
<1>1. m.set \in {"vector", "graph"}
  BY DEF Repairs
<1> QED
  BY <1>1 DEF Parts

\* An operation on one node writes its files one after the other.
LEMMA SinglePositions ==
    ASSUME NEW m \in Operations, NEW n, m.nodes = <<n>>, Len(Parts(m)) \in Nat \ {0}
    PROVE  /\ Writes(m) = Len(Parts(m))
           /\ \A j \in 1..Len(Parts(m)) : PartAt(m, j) = Parts(m)[j] /\ NodeAt(m, j) = n
<1> DEFINE p == Len(Parts(m))
<1>1. Writes(m) = p
  BY DEF Writes
<1>2. ASSUME NEW j \in 1..p PROVE (j - 1) % p = j - 1 /\ (j - 1) \div p = 0
  <2>1. p \in Nat \ {0}
    OBVIOUS
  <2> HIDE DEF p
  <2> QED
    BY <1>2, <2>1, SMTT(30)
<1> QED
  BY <1>1, <1>2 DEF PartAt, NodeAt

\* An update of two nodes writes all files of the first, then of the second.
LEMMA PairPositions ==
    ASSUME NEW m \in Updates, NEW n, NEW k, m.nodes = <<n, k>>
    PROVE  /\ Writes(m) = 12
           /\ \A j \in 1..6 : PartAt(m, j) = Parts(m)[j] /\ NodeAt(m, j) = n
           /\ \A j \in 7..12 : PartAt(m, j) = Parts(m)[j - 6] /\ NodeAt(m, j) = k
<1>0. Len(Parts(m)) = 6
  BY UpdateParts
<1>1. Writes(m) = 12
  BY <1>0 DEF Writes
<1>2. ASSUME NEW j \in 1..6 PROVE (j - 1) % 6 = j - 1 /\ (j - 1) \div 6 = 0
  BY <1>2, SMTT(30)
<1>3. ASSUME NEW j \in 7..12 PROVE (j - 1) % 6 = j - 7 /\ (j - 1) \div 6 = 1
  BY <1>3, SMTT(30)
<1> QED
  BY <1>0, <1>1, <1>2, <1>3 DEF PartAt, NodeAt

\* The five kinds of operations.
LEMMA Kinds ==
    ASSUME NEW m \in Operations
    PROVE  \/ m \in Commits /\ \E n \in Raw : m.nodes = <<n>>
           \/ m \in Commits /\ \E n \in Node \ Raw : m.nodes = <<n>>
           \/ m \in Updates /\ \E n \in Raw : m.nodes = <<n>>
           \/ m \in Updates /\ \E n, k \in Raw : m.nodes = <<n, k>>
           \/ m \in Repairs /\ \E n \in Node : m.nodes = <<n>>
<1>1. CASE m \in Commits
  BY <1>1 DEF Commits, Singles
<1>2. CASE m \in Updates
  BY <1>2 DEF Updates, Singles, Pairs
<1>3. CASE m \in Repairs
  BY <1>3 DEF Repairs, Singles
<1> QED
  BY <1>1, <1>2, <1>3 DEF Operations, Mutations

\* Raw nodes are nodes.
LEMMA RawInNode == Raw \subseteq Node
BY StoreAssumption DEF Raw, Node

\* The kinds of operations are told apart by their names.
LEMMA Disjoint ==
    /\ Commits \cap Updates = {} /\ Commits \cap Repairs = {} /\ Updates \cap Repairs = {}
    /\ Mutations \cap Repairs = {}
BY DEF Mutations, Commits, Updates, Repairs, Patch

\* What is written at a place, and that the body of a node is written first.
PlaceOK(m, j) ==
    /\ PartAt(m, j) \in Part
    /\ NodeAt(m, j) \in Node
    /\ \E i \in DOMAIN m.nodes : NodeAt(m, j) = m.nodes[i]
    /\ PartAt(m, j) \in {"body", "receipt"} \cup RawIndex => m \in Mutations
    /\ PartAt(m, j) \in RawIndex => NodeAt(m, j) \in Raw
    /\ PartAt(m, j) \in {"receipt", "manifest"} \cup Derived => m \notin Updates
    /\ m \in Mutations /\ PartAt(m, j) # "body" =>
          \E i \in 1..(j - 1) : PartAt(m, i) = "body" /\ NodeAt(m, i) = NodeAt(m, j)

\* What has to be written of a mutation.
Due(m, i, part) ==
    \/ part = "body"
    \/ part \in RawIndex /\ m.nodes[i] \in Raw
    \/ part \in {"receipt", "embedding", "manifest"} /\ m \in Commits

\* Nothing due is left out.
CoverOK(m) ==
    \A i \in DOMAIN m.nodes, part \in Part : Due(m, i, part) =>
        \E j \in 1..Writes(m) : PartAt(m, j) = part /\ NodeAt(m, j) = m.nodes[i]

\* Where the commit of a raw node writes what it has to.
LEMMA RawCommitPlaces ==
    ASSUME NEW m \in Commits, NEW n \in Raw, m.nodes = <<n>>
    PROVE  /\ Writes(m) = 9
           /\ \A j \in 1..9 : PlaceOK(m, j)
           /\ CoverOK(m)
<1>1. Parts(m) = RawParts
  BY RawCommitParts
<1>2. Len(RawParts) = 9
  BY DEF RawParts
<1>3. Writes(m) = 9 /\ \A j \in 1..9 : PartAt(m, j) = RawParts[j] /\ NodeAt(m, j) = n
  <2>1. Len(Parts(m)) = 9 /\ m \in Operations
    BY <1>1, <1>2 DEF Operations, Mutations
  <2>2. Len(Parts(m)) \in Nat \ {0}
    BY <2>1
  <2>3. /\ Writes(m) = Len(Parts(m))
        /\ \A j \in 1..Len(Parts(m)) : PartAt(m, j) = Parts(m)[j] /\ NodeAt(m, j) = n
    BY <2>1, <2>2, SinglePositions, Zenon
  <2> QED
    BY <1>1, <2>1, <2>3
<1>4. /\ PartAt(m, 1) = "body" /\ PartAt(m, 2) = "receipt" /\ PartAt(m, 3) = "session"
      /\ PartAt(m, 4) = "loop" /\ PartAt(m, 5) = "undistilled" /\ PartAt(m, 6) = "pushed"
      /\ PartAt(m, 7) = "timeline" /\ PartAt(m, 8) = "embedding" /\ PartAt(m, 9) = "manifest"
  BY <1>3 DEF RawParts
<1>5. m \in Mutations /\ m \notin Updates /\ n \in Node
  BY Disjoint, RawInNode DEF Mutations
<1>6. DOMAIN m.nodes = {1} /\ m.nodes[1] = n
  OBVIOUS
<1>7. ASSUME NEW j \in 1..9 PROVE PlaceOK(m, j)
  <2>1. NodeAt(m, j) = n /\ (j # 1 => 1 \in 1..(j - 1)) /\ NodeAt(m, 1) = n
    BY <1>3
  <2>2. PartAt(m, j) \in Part /\ (j = 1 \/ PartAt(m, j) # "body")
    <3>1. j = 1 \/ j = 2 \/ j = 3 \/ j = 4 \/ j = 5 \/ j = 6 \/ j = 7 \/ j = 8 \/ j = 9
      OBVIOUS
    <3> QED
      BY <1>4, <3>1 DEF Part, Index, RawIndex, Derived
  <2>3. \E i \in DOMAIN m.nodes : NodeAt(m, j) = m.nodes[i]
    BY <1>6, <2>1
  <2>4. PartAt(m, j) # "body" =>
          \E i \in 1..(j - 1) : PartAt(m, i) = "body" /\ NodeAt(m, i) = NodeAt(m, j)
    BY <1>4, <2>1
  <2> QED
    BY <1>5, <2>1, <2>2, <2>3, <2>4 DEF PlaceOK
<1>8. CoverOK(m)
  <2> SUFFICES ASSUME NEW part \in Part, part # "graph"
               PROVE  \E j \in 1..9 : PartAt(m, j) = part /\ NodeAt(m, j) = n
    BY <1>3, <1>6 DEF CoverOK, Due, RawIndex
  <2>1. part \in {"body", "receipt", "session", "loop", "undistilled", "pushed", "timeline",
                 "embedding", "manifest"}
    BY DEF Part, Index, RawIndex, Derived
  <2> QED
    BY <1>3, <1>4, <2>1
<1> QED
  BY <1>3, <1>7, <1>8

\* Where the commit of an abstract node does.
LEMMA AbstractCommitPlaces ==
    ASSUME NEW m \in Commits, NEW n \in Node \ Raw, m.nodes = <<n>>
    PROVE  /\ Writes(m) = 5
           /\ \A j \in 1..5 : PlaceOK(m, j)
           /\ CoverOK(m)
<1>1. Parts(m) = <<"body", "receipt", "embedding", "manifest", "graph">>
  BY AbstractCommitParts
<1>3. Writes(m) = 5 /\ \A j \in 1..5 : PartAt(m, j) = Parts(m)[j] /\ NodeAt(m, j) = n
  <2>1. Len(Parts(m)) = 5 /\ m \in Operations
    BY <1>1 DEF Operations, Mutations
  <2>2. Len(Parts(m)) \in Nat \ {0}
    BY <2>1
  <2>3. /\ Writes(m) = Len(Parts(m))
        /\ \A j \in 1..Len(Parts(m)) : PartAt(m, j) = Parts(m)[j] /\ NodeAt(m, j) = n
    BY <2>1, <2>2, SinglePositions, Zenon
  <2> QED
    BY <2>1, <2>3
<1>4. /\ PartAt(m, 1) = "body" /\ PartAt(m, 2) = "receipt" /\ PartAt(m, 3) = "embedding"
      /\ PartAt(m, 4) = "manifest" /\ PartAt(m, 5) = "graph"
  BY <1>1, <1>3
<1>5. m \in Mutations /\ m \notin Updates
  BY Disjoint DEF Mutations
<1>6. DOMAIN m.nodes = {1} /\ m.nodes[1] = n
  OBVIOUS
<1>7. ASSUME NEW j \in 1..5 PROVE PlaceOK(m, j)
  <2>1. NodeAt(m, j) = n /\ (j # 1 => 1 \in 1..(j - 1)) /\ NodeAt(m, 1) = n
    BY <1>3
  <2>2. PartAt(m, j) \in Part \ RawIndex /\ (j = 1 \/ PartAt(m, j) # "body")
    <3>1. j = 1 \/ j = 2 \/ j = 3 \/ j = 4 \/ j = 5
      OBVIOUS
    <3> QED
      BY <1>4, <3>1 DEF Part, Index, RawIndex, Derived
  <2>3. \E i \in DOMAIN m.nodes : NodeAt(m, j) = m.nodes[i]
    BY <1>6, <2>1
  <2>4. PartAt(m, j) # "body" =>
          \E i \in 1..(j - 1) : PartAt(m, i) = "body" /\ NodeAt(m, i) = NodeAt(m, j)
    BY <1>4, <2>1
  <2> QED
    BY <1>5, <2>1, <2>2, <2>3, <2>4 DEF PlaceOK
<1>8. CoverOK(m)
  <2> SUFFICES ASSUME NEW part \in {"body", "receipt", "embedding", "manifest"}
               PROVE  \E j \in 1..5 : PartAt(m, j) = part /\ NodeAt(m, j) = n
    BY <1>3, <1>6 DEF CoverOK, Due
  <2> QED
    BY <1>3, <1>4
<1> QED
  BY <1>3, <1>7, <1>8

\* Where the update of one node does.
LEMMA SingleUpdatePlaces ==
    ASSUME NEW m \in Updates, NEW n \in Raw, m.nodes = <<n>>
    PROVE  /\ Writes(m) = 6
           /\ \A j \in 1..6 : PlaceOK(m, j)
           /\ CoverOK(m)
<1>1. Parts(m) = <<"body", "session", "loop", "undistilled", "pushed", "timeline">>
  BY UpdateParts
<1>3. Writes(m) = 6 /\ \A j \in 1..6 : PartAt(m, j) = Parts(m)[j] /\ NodeAt(m, j) = n
  <2>1. Len(Parts(m)) = 6 /\ m \in Operations
    BY <1>1 DEF Operations, Mutations
  <2>2. Len(Parts(m)) \in Nat \ {0}
    BY <2>1
  <2>3. /\ Writes(m) = Len(Parts(m))
        /\ \A j \in 1..Len(Parts(m)) : PartAt(m, j) = Parts(m)[j] /\ NodeAt(m, j) = n
    BY <2>1, <2>2, SinglePositions, Zenon
  <2> QED
    BY <2>1, <2>3
<1>4. /\ PartAt(m, 1) = "body" /\ PartAt(m, 2) = "session" /\ PartAt(m, 3) = "loop"
      /\ PartAt(m, 4) = "undistilled" /\ PartAt(m, 5) = "pushed" /\ PartAt(m, 6) = "timeline"
  BY <1>1, <1>3
<1>5. m \in Mutations /\ m \notin Commits /\ n \in Node
  BY Disjoint, RawInNode DEF Mutations
<1>6. DOMAIN m.nodes = {1} /\ m.nodes[1] = n
  OBVIOUS
<1>7. ASSUME NEW j \in 1..6 PROVE PlaceOK(m, j)
  <2>1. NodeAt(m, j) = n /\ (j # 1 => 1 \in 1..(j - 1)) /\ NodeAt(m, 1) = n
    BY <1>3
  <2>2. PartAt(m, j) \in {"body"} \cup RawIndex /\ (j = 1 \/ PartAt(m, j) # "body")
    <3>1. j = 1 \/ j = 2 \/ j = 3 \/ j = 4 \/ j = 5 \/ j = 6
      OBVIOUS
    <3> QED
      BY <1>4, <3>1 DEF RawIndex
  <2>3. \E i \in DOMAIN m.nodes : NodeAt(m, j) = m.nodes[i]
    BY <1>6, <2>1
  <2>4. PartAt(m, j) # "body" =>
          \E i \in 1..(j - 1) : PartAt(m, i) = "body" /\ NodeAt(m, i) = NodeAt(m, j)
    BY <1>4, <2>1
  <2> QED
    BY <1>5, <2>1, <2>2, <2>3, <2>4 DEF PlaceOK, Part, Index, RawIndex, Derived
<1>8. CoverOK(m)
  <2> SUFFICES ASSUME NEW part \in {"body"} \cup RawIndex
               PROVE  \E j \in 1..6 : PartAt(m, j) = part /\ NodeAt(m, j) = n
    BY <1>3, <1>5, <1>6 DEF CoverOK, Due
  <2> QED
    BY <1>3, <1>4 DEF RawIndex
<1> QED
  BY <1>3, <1>7, <1>8

\* Where the update of two nodes does, the first body before the second.
LEMMA PairUpdatePlaces ==
    ASSUME NEW m \in Updates, NEW n \in Raw, NEW k \in Raw, m.nodes = <<n, k>>
    PROVE  /\ Writes(m) = 12
           /\ \A j \in 1..12 : PlaceOK(m, j)
           /\ CoverOK(m)
<1>1. Parts(m) = <<"body", "session", "loop", "undistilled", "pushed", "timeline">>
  BY UpdateParts
<1>3. /\ Writes(m) = 12
      /\ \A j \in 1..6 : PartAt(m, j) = Parts(m)[j] /\ NodeAt(m, j) = n
      /\ \A j \in 7..12 : PartAt(m, j) = Parts(m)[j - 6] /\ NodeAt(m, j) = k
  BY PairPositions
<1>4. /\ PartAt(m, 1) = "body" /\ PartAt(m, 2) = "session" /\ PartAt(m, 3) = "loop"
      /\ PartAt(m, 4) = "undistilled" /\ PartAt(m, 5) = "pushed" /\ PartAt(m, 6) = "timeline"
  BY <1>1, <1>3
<1>4a. /\ PartAt(m, 7) = "body" /\ PartAt(m, 8) = "session" /\ PartAt(m, 9) = "loop"
       /\ PartAt(m, 10) = "undistilled" /\ PartAt(m, 11) = "pushed" /\ PartAt(m, 12) = "timeline"
  BY <1>1, <1>3
<1>5. m \in Mutations /\ m \notin Commits /\ n \in Node /\ k \in Node
  BY Disjoint, RawInNode DEF Mutations
<1>6. DOMAIN m.nodes = {1, 2} /\ m.nodes[1] = n /\ m.nodes[2] = k
  OBVIOUS
<1>7. ASSUME NEW j \in 1..12 PROVE PlaceOK(m, j)
  <2>0. j \in 1..6 \/ j \in 7..12
    OBVIOUS
  <2>1. NodeAt(m, j) \in {n, k} /\ NodeAt(m, 1) = n /\ NodeAt(m, 7) = k
    BY <1>3, <2>0
  <2>2. PartAt(m, j) \in {"body"} \cup RawIndex
    <3>1. \/ j = 1 \/ j = 2 \/ j = 3 \/ j = 4 \/ j = 5 \/ j = 6
          \/ j = 7 \/ j = 8 \/ j = 9 \/ j = 10 \/ j = 11 \/ j = 12
      OBVIOUS
    <3> QED
      BY <1>4, <1>4a, <3>1 DEF RawIndex
  <2>3. \E i \in DOMAIN m.nodes : NodeAt(m, j) = m.nodes[i]
    BY <1>6, <2>1
  <2>4. ASSUME PartAt(m, j) # "body"
        PROVE \E i \in 1..(j - 1) : PartAt(m, i) = "body" /\ NodeAt(m, i) = NodeAt(m, j)
    <3>1. CASE j \in 1..6
      <4>1. 1 \in 1..(j - 1) /\ NodeAt(m, j) = n
        BY <1>3, <1>4, <2>4, <3>1
      <4> QED
        BY <1>4, <2>1, <4>1
    <3>2. CASE j \in 7..12
      <4>1. 7 \in 1..(j - 1) /\ NodeAt(m, j) = k
        BY <1>3, <1>4a, <2>4, <3>2
      <4> QED
        BY <1>4a, <2>1, <4>1
    <3> QED
      BY <2>0, <3>1, <3>2
  <2> QED
    BY <1>5, <2>1, <2>2, <2>3, <2>4 DEF PlaceOK, Part, Index, RawIndex, Derived
<1>8. CoverOK(m)
  <2> SUFFICES ASSUME NEW i \in {1, 2}, NEW part \in {"body"} \cup RawIndex
               PROVE  \E j \in 1..12 : PartAt(m, j) = part /\ NodeAt(m, j) = m.nodes[i]
    <3>1. ASSUME NEW i, NEW part, Due(m, i, part) PROVE part \in {"body"} \cup RawIndex
      BY <1>5, <3>1 DEF Due
    <3>2. Writes(m) = 12
      BY <1>3
    <3> QED
      BY <1>6, <3>1, <3>2, Zenon DEF CoverOK
  <2>1. \E j \in 1..12 : PartAt(m, j) = part /\ NodeAt(m, j) = n
    BY <1>3, <1>4 DEF RawIndex
  <2>2. \E j \in 1..12 : PartAt(m, j) = part /\ NodeAt(m, j) = k
    BY <1>3, <1>4a DEF RawIndex
  <2> QED
    BY <1>6, <2>1, <2>2
<1> QED
  BY <1>3, <1>7, <1>8

\* Where a repair writes.
LEMMA RepairPlaces ==
    ASSUME NEW m \in Repairs, NEW n \in Node, m.nodes = <<n>>
    PROVE  /\ Writes(m) \in {1, 2}
           /\ \A j \in 1..Writes(m) : PlaceOK(m, j)
<1>1. m \in Operations /\ m \notin Mutations /\ m \notin Updates
  BY Disjoint DEF Operations
<1>2. Len(Parts(m)) \in {1, 2} /\ \A j \in 1..Len(Parts(m)) :
         Parts(m)[j] \in {"manifest"} \cup Derived
  <2>1. \A j \in 1..1 : j = 1
    OBVIOUS
  <2>2. \A j \in 1..2 : j = 1 \/ j = 2
    OBVIOUS
  <2>3. CASE Parts(m) = <<"graph">>
    BY <2>1, <2>3 DEF Derived
  <2>4. CASE Parts(m) = <<"embedding", "manifest">>
    BY <2>2, <2>4 DEF Derived
  <2> QED
    BY <2>3, <2>4, RepairParts
<1>3. /\ Writes(m) = Len(Parts(m))
      /\ \A j \in 1..Len(Parts(m)) : PartAt(m, j) = Parts(m)[j] /\ NodeAt(m, j) = n
  <2>1. Len(Parts(m)) \in Nat \ {0}
    BY <1>2
  <2> QED
    BY <1>1, <2>1, SinglePositions, Zenon
<1>4. DOMAIN m.nodes = {1} /\ m.nodes[1] = n
  OBVIOUS
<1>5. ASSUME NEW j \in 1..Writes(m) PROVE PlaceOK(m, j)
  <2>1. NodeAt(m, j) = n /\ PartAt(m, j) \in {"manifest"} \cup Derived
    BY <1>2, <1>3
  <2>2. \E i \in DOMAIN m.nodes : NodeAt(m, j) = m.nodes[i]
    BY <1>4, <2>1
  <2> QED
    BY <1>1, <2>1, <2>2 DEF PlaceOK, Part, Index, RawIndex, Derived
<1> QED
  BY <1>2, <1>3, <1>5

\* What the rest of the proof needs to know of the order of the writes.
LEMMA Places ==
    ASSUME NEW m \in Operations
    PROVE  /\ Writes(m) \in Nat
           /\ \A j \in 1..Writes(m) : PlaceOK(m, j)
           /\ m \in Mutations => CoverOK(m)
<1>1. CASE m \in Commits /\ \E n \in Raw : m.nodes = <<n>>
  BY <1>1, RawCommitPlaces
<1>2. CASE m \in Commits /\ \E n \in Node \ Raw : m.nodes = <<n>>
  BY <1>2, AbstractCommitPlaces
<1>3. CASE m \in Updates /\ \E n \in Raw : m.nodes = <<n>>
  BY <1>3, SingleUpdatePlaces
<1>4. CASE m \in Updates /\ \E n, k \in Raw : m.nodes = <<n, k>>
  BY <1>4, PairUpdatePlaces
<1>5. CASE m \in Repairs /\ \E n \in Node : m.nodes = <<n>>
  BY <1>5, RepairPlaces, Disjoint
<1> QED
  BY <1>1, <1>2, <1>3, <1>4, <1>5, Kinds

-------------------------------------------------------------------------------
(* Rebuild. *)

\* One file of a rebuild.
Task == [part : {"receipt"}, node : Node] \cup [part : Index, node : {NoNode}]

Contains(s, part) == \E j \in 1..Len(s) : s[j].part = part

\* A concatenation of task lists has the tasks of both.
LEMMA ContainsConcat ==
    ASSUME NEW s \in Seq(Task), NEW t \in Seq(Task), NEW part
    PROVE  /\ s \o t \in Seq(Task)
           /\ Contains(s, part) \/ Contains(t, part) => Contains(s \o t, part)
<1> DEFINE c == s \o t
<1>1. /\ c \in Seq(Task) /\ Len(c) = Len(s) + Len(t)
      /\ \A i \in 1..Len(s) + Len(t) : c[i] = IF i <= Len(s) THEN s[i] ELSE t[i - Len(s)]
      /\ Len(s) \in Nat /\ Len(t) \in Nat
  BY ConcatProperties
<1> HIDE DEF c
<1>2. ASSUME NEW j \in 1..Len(s), s[j].part = part PROVE \E k \in 1..Len(c) : c[k].part = part
  BY <1>1, <1>2
<1>3. ASSUME NEW j \in 1..Len(t), t[j].part = part PROVE \E k \in 1..Len(c) : c[k].part = part
  <2>1. j + Len(s) \in 1..Len(c) /\ ~(j + Len(s) <= Len(s)) /\ (j + Len(s)) - Len(s) = j
    BY <1>1
  <2>2. c[j + Len(s)] = t[j]
    BY <1>1, <2>1
  <2> QED
    BY <1>3, <2>1, <2>2
<1>4. c \in Seq(Task) /\ (Contains(s, part) \/ Contains(t, part) => Contains(c, part))
  BY <1>1, <1>2, <1>3 DEF Contains
<1> QED
  BY <1>4 DEF c

\* A rebuild is a list of tasks, and no index is missing from it.
LEMMA RebuildTasks ==
    /\ Rebuild \in Seq(Task)
    /\ \A part \in Index : Contains(Rebuild, part)
<1>1. RawReceipts \in Seq(Task) /\ AbstractReceipts \in Seq(Task)
  <2>1. Raws \in Nat /\ Abstracts \in Nat
    BY StoreAssumption
  <2>2. RawReceipts \in Seq(Task)
    <3>1. RawReceipts \in [1..Raws -> Task]
      BY <2>1, RawInNode DEF RawReceipts, Task, Raw
    <3> QED
      BY <2>1, <3>1
  <2>3. AbstractReceipts \in Seq(Task)
    <3>1. AbstractReceipts \in [1..Abstracts -> Task]
      BY <2>1 DEF AbstractReceipts, Task, Node
    <3> QED
      BY <2>1, <3>1
  <2> QED
    BY <2>2, <2>3
<1>2. ASSUME NEW part \in Index PROVE Whole(part) \in Seq(Task) /\ Contains(Whole(part), part)
  <2>1. Whole(part) \in Seq(Task) /\ Len(Whole(part)) = 1 /\ Whole(part)[1].part = part
    BY DEF Whole, Task
  <2> QED
    BY <2>1 DEF Contains
<1>3. {"timeline", "undistilled", "pushed", "session", "loop", "manifest"} = Index
  BY DEF Index, RawIndex
<1> DEFINE r1 == RawReceipts \o Whole("timeline")
           r2 == r1 \o Whole("undistilled")
           r3 == r2 \o Whole("pushed")
           r4 == r3 \o Whole("session")
           r5 == r4 \o Whole("loop")
           r6 == r5 \o AbstractReceipts
           r7 == r6 \o Whole("manifest")
<1>4. r1 \in Seq(Task) /\ Contains(r1, "timeline")
  BY <1>1, <1>2, <1>3, ContainsConcat
<1>5. r2 \in Seq(Task) /\ \A p \in {"timeline", "undistilled"} : Contains(r2, p)
  <2> HIDE DEF r1
  <2> QED BY <1>2, <1>3, <1>4, ContainsConcat
<1>6. r3 \in Seq(Task) /\ \A p \in {"timeline", "undistilled", "pushed"} : Contains(r3, p)
  <2> HIDE DEF r2
  <2> QED BY <1>2, <1>3, <1>5, ContainsConcat
<1>7. /\ r4 \in Seq(Task)
      /\ \A p \in {"timeline", "undistilled", "pushed", "session"} : Contains(r4, p)
  <2> HIDE DEF r3
  <2> QED BY <1>2, <1>3, <1>6, ContainsConcat
<1>8. r5 \in Seq(Task) /\ \A p \in RawIndex : Contains(r5, p)
  <2> HIDE DEF r4
  <2> QED BY <1>2, <1>3, <1>7, ContainsConcat DEF RawIndex
<1>9. r6 \in Seq(Task) /\ \A p \in RawIndex : Contains(r6, p)
  <2> HIDE DEF r5
  <2> QED BY <1>1, <1>8, ContainsConcat
<1>10. r7 \in Seq(Task) /\ \A p \in Index : Contains(r7, p)
  <2> HIDE DEF r6
  <2> QED BY <1>2, <1>3, <1>9, ContainsConcat DEF Index
<1>11. r7 = Rebuild
  BY Zenon DEF Rebuild
<1> HIDE DEF r7
<1> QED
  BY <1>10, <1>11

-------------------------------------------------------------------------------
(* Types. *)

Busy == pc \in {"writing", "replaying"}

\* What one file of node n holds once operation op has written it.
Written(part, n) ==
    /\ part = "body" => body[n] = After(op, body[n])
    /\ part = "receipt" => receipt[KeyOf[n]] = n
    /\ part \in RawIndex => (n \in index[part] <=> Lists(part, body[n]))
    /\ part = "manifest" => n \in index["manifest"]
    /\ part \in Derived => n \in derived[part]

ProgressInv == Busy => \A j \in 1..Writes(op) : j < at => Written(PartAt(op, j), NodeAt(op, j))

\* What the lock's holder works on, and that a mutation is what its journal says.
OpInv ==
    /\ journal \in Mutations \cup {Nothing}
    /\ op \in Operations \cup {Nothing}
    /\ repair \in Repairs \cup {Nothing}
    /\ at \in Nat \ {0}
    /\ Busy => op \in Operations
    /\ Busy /\ op \in Mutations => op = journal
    /\ pc = "replaying" => op \in Mutations

\* Updates and repairs are of nodes that exist; only raw nodes are in raw indexes.
NodeInv ==
    /\ repair # Nothing => Exists(repair.nodes[1])
    /\ Busy /\ op \in Repairs => Exists(op.nodes[1])
    /\ journal \in Updates => \A i \in DOMAIN journal.nodes : Exists(journal.nodes[i])
    /\ journal \in Commits => journal.nodes[1] \in used
    /\ \A n \in Node : Exists(n) => n \in used
    /\ \A part \in RawIndex : index[part] \subseteq Raw

TypeInv == TypeOK /\ OpInv /\ NodeInv

\* A mutation applied twice is applied once: a replay may repeat a write.
LEMMA AfterTwice == \A m, l : After(m, After(m, l)) = After(m, l)
BY DEF After

\* A node a mutation was applied to exists.
LEMMA AfterExists == \A m, l : After(m, l) \in Life
BY DEF After, Life

\* The empty journal is no operation.
LEMMA NothingIsNoOperation == Nothing \notin Operations
BY DEF Nothing, Operations, Mutations, Commits, Updates, Repairs, Patch

\* The records the actions build are operations.
LEMMA RecordsOfOperations ==
    /\ \A n \in Node : [set |-> "commit", nodes |-> <<n>>] \in Commits
    /\ \A p \in Patch : \A q \in Batches(p) : [set |-> p, nodes |-> q] \in Updates
    /\ \A n \in Node, s \in {"vector", "graph"} : [set |-> s, nodes |-> <<n>>] \in Repairs
<1>1. ASSUME NEW p \in Patch, NEW q \in Batches(p) PROVE q \in Singles(Raw) \cup Pairs
  <2>1. CASE q \in {<<n>> : n \in Raw}
    BY <2>1 DEF Singles
  <2>2. CASE q \in Raw \X Raw
    BY <2>2 DEF Pairs
  <2> QED
    BY <2>1, <2>2 DEF Batches
<1> QED
  BY <1>1 DEF Commits, Updates, Repairs, Singles

\* The types hold of a store nobody has opened yet.
LEMMA TypeInit == Init => TypeInv /\ ProgressInv
<1> SUFFICES ASSUME Init PROVE TypeInv /\ ProgressInv
  OBVIOUS
<1>1. PICK old \in SUBSET Node :
          /\ \A n, m \in old : KeyOf[n] = KeyOf[m] => n = m
          /\ body = [n \in Node |-> IF n \in old THEN "fresh" ELSE "none"]
          /\ receipt = [k \in Key |-> IF \E n \in old : KeyOf[n] = k
                                      THEN CHOOSE n \in old : KeyOf[n] = k ELSE NoNode]
          /\ derived = [embedding |-> old, graph |-> old \ Raw]
          /\ used = old
          /\ acked = old
  BY DEF Init
<1>2. \A n \in Node : Exists(n) <=> n \in old
  BY <1>1 DEF Exists
<1>3. \A k \in Key :
         \/ receipt[k] = NoNode
         \/ receipt[k] \in old /\ KeyOf[receipt[k]] = k
  <2> TAKE k \in Key
  <2> DEFINE c == CHOOSE n \in old : KeyOf[n] = k
             some == \E n \in old : KeyOf[n] = k
  <2>1. receipt[k] = IF some THEN c ELSE NoNode
    BY <1>1
  <2>2. some => c \in old /\ KeyOf[c] = k
    BY Zenon
  <2> HIDE DEF c
  <2> QED
    BY <2>1, <2>2
<1>4. TypeOK
  <2>1. body \in [Node -> {"none"} \cup Life] /\ receipt \in [Key -> Node \cup {NoNode}]
    <3>1. \A k \in Key : receipt[k] \in Node \cup {NoNode}
      BY <1>3
    <3>2. receipt = [k \in Key |-> receipt[k]]
      BY <1>1
    <3> QED
      BY <1>1, <3>1, <3>2 DEF Life
  <2>2. derived \in [Derived -> SUBSET Node] /\ index \in [Index -> SUBSET Node]
    BY <1>1 DEF Init, Derived
  <2>3. \A k \in Key : receipt[k] # NoNode => KeyOf[receipt[k]] = k /\ Exists(receipt[k])
    BY <1>2, <1>3
  <2>4. used \subseteq Node /\ acked \subseteq used
    BY <1>1
  <2>5. /\ version \in BOOLEAN /\ journal = Nothing /\ pc = "free" /\ at = 1
        /\ live \in BOOLEAN /\ repair = Nothing /\ givenUp = 0
    BY DEF Init
  <2>6. 0 \in 0..MaxGivenUp
    BY StoreAssumption
  <2> QED
    BY <2>1, <2>2, <2>3, <2>4, <2>5, <2>6 DEF TypeOK
<1>5. OpInv
  BY DEF Init, OpInv, Busy
<1>6. NodeInv
  <2>1. Nothing \notin Commits /\ Nothing \notin Updates /\ Nothing \notin Repairs
    BY NothingIsNoOperation DEF Operations, Mutations
  <2> QED
    BY <1>1, <1>2, <2>1 DEF Init, NodeInv, Busy, Index
<1> QED
  BY <1>4, <1>5, <1>6 DEF TypeInv, ProgressInv, Busy, Init

\* One file: what it changes, and what it leaves as it was.
LEMMA WriteEffect ==
    ASSUME TypeInv, ProgressInv, WriteNext
    PROVE  /\ op \in Operations /\ at \in 1..Writes(op) /\ PlaceOK(op, at)
           /\ \A n \in Node :
                 \/ body'[n] = body[n]
                 \/ /\ body'[n] = After(op, body[n])
                    /\ n = NodeAt(op, at) /\ PartAt(op, at) = "body"
           /\ \A n \in Node : Exists(n) => Exists(n)'
           /\ \A j \in 1..Writes(op) : j < at => body'[NodeAt(op, j)] = body[NodeAt(op, j)]
<1>1. op \in Operations /\ at \in Nat \ {0} /\ Busy /\ body \in [Node -> {"none"} \cup Life]
  BY DEF TypeInv, TypeOK, OpInv, WriteNext, Busy
<1>2. at \in 1..Writes(op)
  BY <1>1, Places DEF WriteNext
<1>3. \A j \in 1..Writes(op) : PlaceOK(op, j)
  BY <1>1, Places
<1>4. \A n \in Node :
         \/ body'[n] = body[n]
         \/ /\ body'[n] = After(op, body[n])
            /\ n = NodeAt(op, at) /\ PartAt(op, at) = "body"
  BY <1>1 DEF WriteNext, Write
<1>5. \A n \in Node : Exists(n) => Exists(n)'
  BY <1>4, AfterExists DEF Exists, Life
<1>6. ASSUME NEW j \in 1..Writes(op), j < at
      PROVE body'[NodeAt(op, j)] = body[NodeAt(op, j)]
  <2> DEFINE q == NodeAt(op, j)
  <2>1. q \in Node
    BY <1>3 DEF PlaceOK
  <2>2. SUFFICES ASSUME PartAt(op, at) = "body"
                 PROVE  body[q] = After(op, body[q])
    BY <1>4, <2>1
  <2>3. op \in Mutations
    BY <1>2, <1>3, <2>2 DEF PlaceOK
  <2>4. \E i \in 1..Writes(op) : i < at /\ PartAt(op, i) = "body" /\ NodeAt(op, i) = q
    <3>1. CASE PartAt(op, j) = "body"
      BY <1>6, <3>1
    <3>2. CASE PartAt(op, j) # "body"
      <4>1. PICK i \in 1..(j - 1) : PartAt(op, i) = "body" /\ NodeAt(op, i) = q
        BY <1>3, <2>3, <3>2 DEF PlaceOK
      <4>2. i \in 1..Writes(op) /\ i < at
        BY <1>1, <1>6, Places
      <4> QED
        BY <4>1, <4>2
    <3> QED
      BY <3>1, <3>2
  <2> QED
    BY <1>1, <2>4 DEF ProgressInv, Written
<1> QED
  BY <1>1, <1>2, <1>3, <1>4, <1>5, <1>6

\* The same after the step.
WrittenNext(part, n) ==
    /\ part = "body" => body'[n] = After(op, body'[n])
    /\ part = "receipt" => receipt'[KeyOf[n]] = n
    /\ part \in RawIndex => (n \in index'[part] <=> Lists(part, body'[n]))
    /\ part = "manifest" => n \in index'["manifest"]
    /\ part \in Derived => n \in derived'[part]

\* A file write undoes none of the writes before it.
LEMMA WriteProgress ==
    ASSUME TypeInv, ProgressInv, WriteNext
    PROVE  ProgressInv'
<1> DEFINE P == PartAt(op, at)
           N == NodeAt(op, at)
<1>1. /\ op \in Operations /\ at \in 1..Writes(op) /\ Busy
      /\ Write(P, N) /\ at' = at + 1 /\ UNCHANGED <<pc, op>>
  BY WriteEffect DEF WriteNext, Busy
<1>2. /\ \A j \in 1..Writes(op) : PlaceOK(op, j)
      /\ \A j \in 1..Writes(op) : j < at => Written(PartAt(op, j), NodeAt(op, j))
      /\ \A j \in 1..Writes(op) : j < at => body'[NodeAt(op, j)] = body[NodeAt(op, j)]
  BY <1>1, Places, WriteEffect DEF ProgressInv
<1>3. /\ P \in Part /\ N \in Node
      /\ body \in [Node -> {"none"} \cup Life] /\ receipt \in [Key -> Node \cup {NoNode}]
      /\ index \in [Index -> SUBSET Node] /\ derived \in [Derived -> SUBSET Node]
  BY <1>1, <1>2 DEF PlaceOK, TypeInv, TypeOK
<1>4. Part = {"body", "receipt"} \cup RawIndex \cup {"manifest"} \cup Derived
  BY DEF Part, Index
<1>5. WrittenNext(P, N)
  <2> HIDE DEF P, N
  <2>1. CASE P = "body"
    <3>1. body'[N] = After(op, body[N])
      BY <1>1, <1>3, <2>1 DEF Write
    <3> QED
      BY <1>1, <2>1, <3>1, AfterTwice DEF WrittenNext, RawIndex, Derived
  <2>2. CASE P = "receipt"
    <3>1. KeyOf[N] \in Key
      BY <1>3 DEF Key
    <3> QED
      BY <1>1, <1>3, <2>2, <3>1 DEF Write, WrittenNext, RawIndex, Derived
  <2>3. CASE P \in RawIndex
    <3>1. body' = body /\ P \in Index
      BY <1>1, <2>3 DEF Write, RawIndex, Index
    <3>2. N \in index'[P] <=> Lists(P, body[N])
      BY <1>1, <1>3, <3>1 DEF Write
    <3> QED
      BY <2>3, <3>1, <3>2 DEF WrittenNext, RawIndex, Derived
  <2>4. CASE P = "manifest"
    <3>1. P \in Index /\ Lists(P, body[N])
      BY <2>4 DEF Index, Lists
    <3>2. N \in index'[P]
      BY <1>1, <1>3, <3>1 DEF Write
    <3> QED
      BY <2>4, <3>2 DEF WrittenNext, RawIndex, Derived
  <2>5. CASE P \in Derived
    <3>1. N \in derived'[P]
      BY <1>1, <1>3, <2>5 DEF Write
    <3> QED
      BY <2>5, <3>1 DEF WrittenNext, RawIndex, Derived
  <2> QED
    BY <1>3, <1>4, <2>1, <2>2, <2>3, <2>4, <2>5
<1>6. ASSUME NEW j \in 1..Writes(op), j < at
      PROVE  WrittenNext(PartAt(op, j), NodeAt(op, j))
  <2> DEFINE p == PartAt(op, j)
             q == NodeAt(op, j)
  <2>1. p \in Part /\ q \in Node /\ Written(p, q) /\ body'[q] = body[q]
    BY <1>2, <1>6 DEF PlaceOK
  <2>2. P = "receipt" /\ p = "receipt" => q = N
    <3>1. SUFFICES ASSUME P = "receipt" PROVE q = N
      OBVIOUS
    <3>2. op \in Commits
      BY <1>1, <1>2, <3>1 DEF PlaceOK, Mutations
    <3>3. PICK n \in Node : op.nodes = <<n>>
      BY <3>2 DEF Commits, Singles
    <3>4. \A i \in DOMAIN op.nodes : op.nodes[i] = n
      BY <3>3
    <3> QED
      BY <1>1, <1>2, <3>4 DEF PlaceOK
  <2> HIDE DEF P, N, p, q
  <2>3. p = "body" => body'[q] = After(op, body'[q])
    BY <2>1 DEF Written
  <2>4. p = "receipt" => receipt'[KeyOf[q]] = q
    <3>1. KeyOf[q] \in Key
      BY <2>1 DEF Key
    <3>2. CASE P = "receipt"
      BY <1>1, <1>3, <2>1, <2>2, <3>1, <3>2 DEF Write, Written
    <3>3. CASE P # "receipt"
      BY <1>1, <2>1, <3>3 DEF Write, Written
    <3> QED
      BY <3>2, <3>3
  <2>5. p \in RawIndex => (q \in index'[p] <=> Lists(p, body'[q]))
    <3> SUFFICES ASSUME p \in RawIndex PROVE q \in index'[p] <=> Lists(p, body[q])
      BY <2>1
    <3>1. q \in index[p] <=> Lists(p, body[q])
      BY <2>1 DEF Written
    <3>2. CASE P = p /\ N = q
      BY <1>1, <1>3, <3>2 DEF Write, Index
    <3>3. CASE ~(P = p /\ N = q)
      BY <1>1, <1>3, <3>1, <3>3 DEF Write, Index
    <3> QED
      BY <3>2, <3>3
  <2>6. p = "manifest" => q \in index'["manifest"]
    <3> SUFFICES ASSUME p = "manifest" PROVE q \in index'["manifest"]
      OBVIOUS
    <3>1. q \in index["manifest"] /\ "manifest" \in Index
      BY <2>1 DEF Written, Index
    <3>2. CASE P = "manifest"
      <4>1. Lists("manifest", body[N])
        BY DEF Lists
      <4> QED
        BY <1>1, <1>3, <3>1, <3>2, <4>1 DEF Write
    <3>3. CASE P # "manifest"
      BY <1>1, <1>3, <3>1, <3>3 DEF Write
    <3> QED
      BY <3>2, <3>3
  <2>7. p \in Derived => q \in derived'[p]
    BY <1>1, <1>3, <2>1 DEF Write, Written
  <2> QED
    BY <2>3, <2>4, <2>5, <2>6, <2>7 DEF WrittenNext, p, q
<1>7. ASSUME NEW j \in 1..Writes(op), j < at + 1
      PROVE  WrittenNext(PartAt(op, j), NodeAt(op, j))
  <2>1. CASE j = at
    BY <1>1, <1>5, <2>1
  <2>2. CASE j < at
    BY <1>6, <2>2
  <2> QED
    BY <1>1, <1>7, <2>1, <2>2
<1> QED
  BY <1>1, <1>7 DEF ProgressInv, Written, WrittenNext

\* A file write keeps the types.
LEMMA WriteTypes ==
    ASSUME TypeInv, ProgressInv, WriteNext
    PROVE  TypeInv'
<1> DEFINE P == PartAt(op, at)
           N == NodeAt(op, at)
<1>1. /\ op \in Operations /\ at \in 1..Writes(op) /\ Busy /\ PlaceOK(op, at)
      /\ Write(P, N) /\ at' = at + 1
      /\ UNCHANGED <<version, journal, pc, op, live, repair, used, acked, givenUp>>
  BY WriteEffect DEF WriteNext, Busy, history
<1>2. P \in Part /\ N \in Node /\ KeyOf[N] \in Key
  BY <1>1 DEF PlaceOK, Key
<1>3. \A n \in Node : Exists(n) => Exists(n)'
  BY WriteEffect
<1>4. P = "receipt" => Exists(N)
  <2>1. SUFFICES ASSUME P = "receipt" PROVE Exists(N)
    OBVIOUS
  <2>2. PICK i \in 1..(at - 1) : PartAt(op, i) = "body" /\ NodeAt(op, i) = N
    BY <1>1, <2>1 DEF PlaceOK
  <2>3. i \in 1..Writes(op) /\ i < at
    BY <1>1, Places
  <2>4. body[N] = After(op, body[N])
    BY <1>1, <2>2, <2>3 DEF ProgressInv, Written
  <2> QED
    BY <2>4, AfterExists DEF Exists, Life
<1> HIDE DEF P, N
<1>5. body' \in [Node -> {"none"} \cup Life]
  BY <1>1, <1>2, AfterExists DEF Write, TypeInv, TypeOK
<1>6. receipt' \in [Key -> Node \cup {NoNode}]
  BY <1>1, <1>2 DEF Write, TypeInv, TypeOK
<1>7. index' \in [Index -> SUBSET Node] /\ derived' \in [Derived -> SUBSET Node]
  BY <1>1, <1>2 DEF Write, TypeInv, TypeOK
<1>8. \A k \in Key :
         receipt'[k] # NoNode => KeyOf[receipt'[k]] = k /\ body'[receipt'[k]] # "none"
  <2> TAKE k \in Key
  <2>1. CASE receipt'[k] = receipt[k]
    <3>1. receipt[k] # NoNode => /\ KeyOf[receipt[k]] = k /\ Exists(receipt[k])
                                 /\ receipt[k] \in Node
      BY DEF TypeInv, TypeOK
    <3> QED
      BY <1>3, <2>1, <3>1 DEF Exists
  <2>2. CASE receipt'[k] # receipt[k]
    <3>1. P = "receipt" /\ k = KeyOf[N] /\ receipt'[k] = N
      BY <1>1, <1>2, <2>2 DEF Write, TypeInv, TypeOK
    <3> QED
      BY <1>2, <1>3, <1>4, <3>1 DEF Exists
  <2> QED
    BY <2>1, <2>2
<1>9. TypeOK'
  BY <1>1, <1>5, <1>6, <1>7, <1>8 DEF TypeInv, TypeOK, Exists
<1>10. OpInv'
  BY <1>1 DEF TypeInv, OpInv, Busy
<1>11. \A part \in RawIndex : index'[part] \subseteq Raw
  <2> TAKE part \in RawIndex
  <2>1. part = P => N \in Raw
    BY <1>1 DEF PlaceOK, P, N
  <2> QED
    BY <1>1, <1>2, <2>1 DEF Write, TypeInv, TypeOK, NodeInv, Index
<1>12. \A n \in Node : Exists(n)' => n \in used
  <2> TAKE n \in Node
  <2>1. CASE n = N /\ P = "body"
    <3>1. op \in Mutations /\ op = journal
      BY <1>1, <2>1 DEF PlaceOK, P, TypeInv, OpInv
    <3>2. PICK i \in DOMAIN journal.nodes : n = journal.nodes[i]
      BY <1>1, <2>1, <3>1 DEF PlaceOK, N
    <3>3. CASE journal \in Commits
      <4>1. PICK m \in Node : journal.nodes = <<m>>
        BY <3>3 DEF Commits, Singles
      <4>2. n = journal.nodes[1]
        BY <3>2, <4>1
      <4> QED
        BY <3>3, <4>2 DEF TypeInv, NodeInv
    <3>4. CASE journal \in Updates
      BY <3>2, <3>4 DEF TypeInv, NodeInv
    <3> QED
      BY <3>1, <3>3, <3>4 DEF Mutations
  <2>2. CASE ~(n = N /\ P = "body")
    <3>1. body'[n] = body[n]
      BY <2>2, WriteEffect DEF P, N
    <3> QED
      BY <3>1 DEF Exists, TypeInv, NodeInv
  <2> QED
    BY <2>1, <2>2
<1>13. /\ repair # Nothing => repair.nodes[1] \in Node
       /\ op \in Repairs => op.nodes[1] \in Node
       /\ journal \in Updates => \A i \in DOMAIN journal.nodes : journal.nodes[i] \in Node
  <2>1. \A m \in Repairs : m.nodes[1] \in Node
    BY DEF Repairs, Singles
  <2>2. \A m \in Updates : \A i \in DOMAIN m.nodes : m.nodes[i] \in Node
    BY RawInNode DEF Updates, Singles, Pairs
  <2> QED
    BY <2>1, <2>2 DEF TypeInv, OpInv
<1>14. NodeInv'
  BY <1>1, <1>3, <1>11, <1>12, <1>13 DEF TypeInv, NodeInv, Busy
<1> QED
  BY <1>9, <1>10, <1>14 DEF TypeInv

\* The other steps. None writes a body; most write nothing.
LEMMA OtherTypes ==
    ASSUME TypeInv, ProgressInv, [Next]_vars, ~WriteNext
    PROVE  TypeInv' /\ ProgressInv'
<1> USE DEF TypeInv
<1>0. /\ Nothing \notin Operations /\ Nothing \notin Mutations /\ Nothing \notin Repairs
      /\ Nothing \notin Commits /\ Nothing \notin Updates
      /\ Repairs \subseteq Operations /\ Mutations \subseteq Operations
      /\ Mutations \cap Repairs = {}
  BY NothingIsNoOperation, Disjoint DEF Operations, Mutations
<1>1. CASE \E n \in Node : Commit(n)
  <2>1. PICK n \in Node : Commit(n)
    BY <1>1
  <2> DEFINE m == [set |-> "commit", nodes |-> <<n>>]
  <2>2. m \in Commits /\ m \in Mutations /\ m \notin Repairs /\ m \notin Updates /\ m \in Operations
    BY RecordsOfOperations, Disjoint DEF Mutations, Operations
  <2>3. m.set = "commit" /\ m.nodes[1] = n
    OBVIOUS
  <2>4. /\ pc' = "writing" /\ op' = m /\ at' = 1 /\ journal' = m /\ used' = used \cup {n}
        /\ UNCHANGED <<live, repair, body, receipt, index, derived, version, acked, givenUp>>
    BY <2>1 DEF Commit, Journaled, Begin
  <2> HIDE DEF m
  <2>5. TypeOK'
    BY <2>3, <2>4 DEF TypeOK, Exists
  <2>6. OpInv'
    BY <1>0, <2>2, <2>4 DEF OpInv, Busy
  <2>7. NodeInv'
    BY <1>0, <2>2, <2>3, <2>4 DEF NodeInv, Busy, Exists
  <2>8. ProgressInv'
    BY <2>4 DEF ProgressInv
  <2> QED
    BY <2>5, <2>6, <2>7, <2>8
<1>2. CASE \E k \in Key : Found(k)
  <2>1. PICK k \in Key : Found(k)
    BY <1>2
  <2> DEFINE m == [set |-> "vector", nodes |-> <<receipt[k]>>]
  <2>2. receipt[k] \in Node /\ Exists(receipt[k])
    BY <2>1 DEF Found, TypeOK
  <2>3. m \in Repairs /\ m.set = "vector" /\ m.nodes[1] = receipt[k]
    BY <2>2, RecordsOfOperations
  <2>4. /\ pc = "free" /\ repair' = m
        /\ UNCHANGED <<disk, pc, op, at, live, history>>
    BY <2>1 DEF Found
  <2> HIDE DEF m
  <2> QED
    BY <2>2, <2>3, <2>4
    DEF disk, history, TypeOK, OpInv, NodeInv, ProgressInv, Busy, Exists
<1>3. CASE Reindex
  <2>1. /\ repair \in Repairs /\ pc' = "writing" /\ op' = repair /\ at' = 1
        /\ UNCHANGED <<disk, live, repair, history>>
    BY <1>3 DEF Reindex, Begin, OpInv
  <2>2. repair.set \in {"vector", "graph"}
    BY <2>1 DEF Repairs
  <2>3. TypeOK'
    BY <2>1, <2>2 DEF TypeOK, disk, history, Exists
  <2>4. OpInv' /\ ProgressInv'
    BY <1>0, <2>1 DEF OpInv, Busy, disk, ProgressInv
  <2>5. NodeInv'
    BY <1>0, <2>1 DEF NodeInv, Busy, disk, history, Exists
  <2> QED
    BY <2>3, <2>4, <2>5
<1>4. CASE \E p \in Patch : \E nodes \in Batches(p) : UpdateLifecycle(nodes, p)
  <2>1. PICK p \in Patch : \E nodes \in Batches(p) : UpdateLifecycle(nodes, p)
    BY <1>4
  <2>2. PICK nodes \in Batches(p) : UpdateLifecycle(nodes, p)
    BY <2>1
  <2> DEFINE m == [set |-> p, nodes |-> nodes]
  <2>3. m \in Updates /\ m \in Mutations /\ m \notin Repairs /\ m \notin Commits /\ m \in Operations
    BY RecordsOfOperations, Disjoint DEF Mutations, Operations
  <2>4. m.set \in Patch /\ m.nodes = nodes
    OBVIOUS
  <2>5. /\ pc' = "writing" /\ op' = m /\ at' = 1 /\ journal' = m
        /\ \A i \in DOMAIN nodes : Exists(nodes[i])
        /\ UNCHANGED <<live, repair, body, receipt, index, derived, version, history>>
    BY <2>2 DEF UpdateLifecycle, Journaled, Begin
  <2> HIDE DEF m
  <2>6. TypeOK'
    BY <2>4, <2>5 DEF TypeOK, Exists, history
  <2>7. OpInv'
    BY <1>0, <2>3, <2>5 DEF OpInv, Busy
  <2>8. NodeInv'
    BY <1>0, <2>3, <2>4, <2>5 DEF NodeInv, Busy, Exists, history
  <2>9. ProgressInv'
    BY <2>5 DEF ProgressInv
  <2> QED
    BY <2>6, <2>7, <2>8, <2>9
<1>5. CASE Done
  <2>1. /\ pc' = "free" /\ op' = Nothing /\ at' = 1 /\ journal' = Nothing
        /\ UNCHANGED <<body, receipt, index, derived, version, live, repair, used, givenUp>>
    BY <1>5 DEF Done, Finish
  <2>2. acked' \subseteq used
    <3>1. CASE op.set = "commit"
      <4>1. op = journal /\ op \in Commits
        BY <1>0, <1>5, <3>1 DEF Done, OpInv, Busy, Mutations, Operations, Updates, Repairs, Patch
      <4> QED
        BY <1>5, <3>1, <4>1 DEF Done, NodeInv, TypeOK
    <3>2. CASE op.set # "commit"
      BY <1>5, <3>2 DEF Done, TypeOK
    <3> QED
      BY <3>1, <3>2
  <2> QED
    BY <1>0, <2>1, <2>2 DEF TypeOK, OpInv, NodeInv, ProgressInv, Busy, Exists
<1>6. CASE Repaired
  <2> DEFINE n == op.nodes[1]
  <2>1. /\ pc = "writing" /\ op = repair /\ op \in Repairs
        /\ pc' = "free" /\ op' = Nothing /\ at' = 1
        /\ UNCHANGED <<disk, live, used, givenUp>>
    BY <1>0, <1>6 DEF Repaired, Finish, OpInv, Busy
  <2>2. n \in Node /\ Exists(n) /\ n \in used
    <3>1. n \in Node
      BY <2>1 DEF Repairs, Singles
    <3> QED
      BY <2>1, <3>1 DEF NodeInv, Busy
  <2>3. \/ repair' = Nothing
        \/ /\ repair' = [set |-> "graph", nodes |-> <<n>>]
           /\ repair' \in Repairs /\ repair'.nodes[1] = n /\ repair'.set = "graph"
    BY <1>6, <2>2, RecordsOfOperations DEF Repaired
  <2>4. acked' \subseteq used
    BY <1>6, <2>2 DEF Repaired, TypeOK
  <2> HIDE DEF n
  <2> QED
    BY <1>0, <2>1, <2>2, <2>3, <2>4
    DEF disk, TypeOK, OpInv, NodeInv, ProgressInv, Busy, Exists
<1>7. CASE Open
  <2>1. UNCHANGED <<disk, live, repair, history>> /\ at' = 1
    BY <1>7 DEF Open, Begin
  <2>2. \/ pc' = "checking" /\ op' = Nothing
        \/ pc' = "replaying" /\ op' = journal /\ journal # Nothing
    BY <1>7 DEF Open, Begin
  <2> QED
    BY <1>0, <2>1, <2>2 DEF disk, history, TypeOK, OpInv, NodeInv, ProgressInv, Busy, Exists
<1>8. CASE Replayed
  <2>1. /\ pc' = "checking" /\ op' = Nothing /\ at' = 1 /\ journal' = Nothing
        /\ UNCHANGED <<live, repair, body, receipt, index, derived, version, history>>
    BY <1>8 DEF Replayed, Begin
  <2> QED
    BY <1>0, <2>1 DEF history, TypeOK, OpInv, NodeInv, ProgressInv, Busy, Exists
<1>9. CASE Trust \/ Distrust \/ Cleared \/ Crash \/ GiveUp
  <2>1. /\ pc' \in {"free", "clearing", "rebuilding"} /\ op' = Nothing /\ at' = 1
        /\ live' \in BOOLEAN /\ (repair' = Nothing \/ repair' = repair)
        /\ UNCHANGED <<disk, used, acked>>
    BY <1>9 DEF Trust, Distrust, Cleared, Crash, GiveUp, Begin, Finish, TypeOK, history
  <2>2. givenUp' \in 0..MaxGivenUp
    BY <1>9, StoreAssumption
    DEF Trust, Distrust, Cleared, Crash, GiveUp, TypeOK, history
  <2> QED
    BY <1>0, <2>1, <2>2 DEF disk, TypeOK, OpInv, NodeInv, ProgressInv, Busy, Exists
<1>10. CASE ClearVersion \/ \E part \in Index : Clear(part)
  <2>1. /\ pc = "clearing" /\ version' \in BOOLEAN
        /\ UNCHANGED <<body, receipt, derived, journal, process, history>>
    BY <1>10 DEF ClearVersion, Clear, TypeOK
  <2>2. \/ index' = index
        \/ \E part \in Index : index' = [index EXCEPT ![part] = {}]
    BY <1>10 DEF ClearVersion, Clear
  <2>3. index' \in [Index -> SUBSET Node] /\ \A part \in RawIndex : index'[part] \subseteq Raw
    BY <2>2 DEF TypeOK, NodeInv, Index
  <2> QED
    BY <1>0, <2>1, <2>3 DEF process, history, TypeOK, OpInv, NodeInv, ProgressInv, Busy, Exists
<1>11. CASE RebuildNext
  <2> DEFINE w == Rebuild[at]
  <2>1. /\ pc = "rebuilding" /\ at' = at + 1
        /\ UNCHANGED <<body, derived, version, journal, pc, op, live, repair, history>>
    BY <1>11 DEF RebuildNext
  <2>2. w \in Task
    BY <1>11, RebuildTasks DEF RebuildNext, OpInv
  <2>3. /\ receipt' = IF w.part = "receipt" /\ Exists(w.node)
                      THEN [receipt EXCEPT ![KeyOf[w.node]] = w.node] ELSE receipt
        /\ index' = IF w.part \in Index
                    THEN [index EXCEPT ![w.part] = FromBodies(w.part)] ELSE index
    BY <1>11 DEF RebuildNext
  <2> HIDE DEF w
  <2>4. w.part = "receipt" => w.node \in Node /\ KeyOf[w.node] \in Key
    BY <2>2 DEF Task, Index, RawIndex, Key
  <2>5. /\ receipt' \in [Key -> Node \cup {NoNode}]
        /\ \A k \in Key : receipt'[k] # NoNode => KeyOf[receipt'[k]] = k /\ Exists(receipt'[k])
    BY <2>3, <2>4 DEF TypeOK
  <2>6. /\ index' \in [Index -> SUBSET Node]
        /\ \A part \in RawIndex : index'[part] \subseteq Raw
    <3>1. \A part \in Index : FromBodies(part) \in SUBSET Node
      BY RawInNode DEF FromBodies, TypeOK, Derived
    <3>2. \A part \in RawIndex : FromBodies(part) \in SUBSET Raw
      BY DEF FromBodies, RawIndex
    <3> QED
      BY <2>3, <3>1, <3>2 DEF TypeOK, NodeInv, Index
  <2>7. TypeOK'
    BY <2>1, <2>5, <2>6 DEF TypeOK, history, Exists
  <2> QED
    BY <2>1, <2>6, <2>7 DEF history, OpInv, NodeInv, ProgressInv, Busy, Exists
<1>12. CASE Rebuilt
  <2>1. /\ pc' = "free" /\ op' = Nothing /\ at' = 1 /\ live' = TRUE /\ version' = TRUE
        /\ UNCHANGED <<body, receipt, index, derived, journal, repair, history>>
    BY <1>12 DEF Rebuilt, Finish
  <2> QED
    BY <1>0, <2>1 DEF history, TypeOK, OpInv, NodeInv, ProgressInv, Busy, Exists
<1>13. CASE UNCHANGED vars
  BY <1>13 DEF vars, disk, process, history, TypeOK, OpInv, NodeInv, ProgressInv, Busy, Exists,
               Written
<1> QED
  BY <1>1, <1>2, <1>3, <1>4, <1>5, <1>6, <1>7, <1>8, <1>9, <1>10, <1>11, <1>12, <1>13 DEF Next

\* What was written so far of the operation under way is right, at every moment.
LEMMA TypesInvariant == Spec => [](TypeInv /\ ProgressInv)
<1>1. TypeInv /\ ProgressInv /\ [Next]_vars => TypeInv' /\ ProgressInv'
  BY WriteTypes, WriteProgress, OtherTypes
<1> QED
  BY TypeInit, <1>1, PTL DEF Spec

\* The types of every store, for any numbers of nodes and operations given up.
\* The last conjunct says that a receipt never names a node without a body: the
\* body is written first, so an operation key always leads to a node.
THEOREM TypeCorrect == Spec => []TypeOK
<1>1. TypeInv => TypeOK
  BY DEF TypeInv
<1> QED
  BY <1>1, TypesInvariant, PTL

-------------------------------------------------------------------------------
(* The atomic store. *)

\* Until an operation is given up: who holds the journal, and that a body
\* without a receipt is one a journal speaks of.
StableInv ==
    givenUp = 0 =>
        /\ pc \in {"checking", "clearing", "rebuilding"} => journal = Nothing
        /\ pc = "free" /\ live => journal = Nothing
        /\ pc = "writing" /\ op \in Repairs => journal = Nothing
        /\ \A n \in Node : Exists(n) =>
              \/ receipt[KeyOf[n]] = n
              \/ journal \in Commits /\ journal.nodes[1] = n
        /\ journal \in Commits => receipt[KeyOf[journal.nodes[1]]] \in {NoNode, journal.nodes[1]}

\* When the last file of a mutation is written, all of it is.
LEMMA AllWritten ==
    ASSUME TypeInv, ProgressInv, Busy, op \in Mutations, at > Writes(op)
    PROVE  /\ op = journal
           /\ \A i \in DOMAIN op.nodes, part \in Part :
                 Due(op, i, part) => Written(part, op.nodes[i])
<1>1. op = journal /\ op \in Operations
  BY DEF TypeInv, OpInv, Operations
<1>2. ASSUME NEW i \in DOMAIN op.nodes, NEW part \in Part, Due(op, i, part)
      PROVE  Written(part, op.nodes[i])
  <2>1. PICK j \in 1..Writes(op) : PartAt(op, j) = part /\ NodeAt(op, j) = op.nodes[i]
    BY <1>1, <1>2, Places DEF CoverOK
  <2>2. j < at
    BY <1>1, Places DEF TypeInv, OpInv
  <2> QED
    BY <2>1, <2>2 DEF ProgressInv
<1> QED
  BY <1>1, <1>2

\* What a commit is.
LEMMA CommitShape ==
    ASSUME NEW m \in Commits
    PROVE  /\ m.set = "commit" /\ m.nodes[1] \in Node /\ DOMAIN m.nodes = {1}
           /\ m \in Mutations /\ m \in Operations /\ m \notin Updates /\ m \notin Repairs
<1>1. PICK n \in Node : m.nodes = <<n>>
  BY DEF Commits, Singles
<1> QED
  BY <1>1, Disjoint DEF Commits, Mutations, Operations

\* A mutation that has written its last file has its receipt.
LEMMA ReceiptWritten ==
    ASSUME TypeInv, ProgressInv, Busy, op \in Mutations, at > Writes(op)
    PROVE  op \in Commits => receipt[KeyOf[op.nodes[1]]] = op.nodes[1]
<1> SUFFICES ASSUME op \in Commits PROVE receipt[KeyOf[op.nodes[1]]] = op.nodes[1]
  OBVIOUS
<1>1. 1 \in DOMAIN op.nodes /\ "receipt" \in Part /\ Due(op, 1, "receipt")
  BY CommitShape DEF Due, Part
<1>2. Written("receipt", op.nodes[1])
  BY <1>1, AllWritten
<1> QED
  BY <1>2 DEF Written

\* A store nobody has opened has an empty journal and all its receipts.
LEMMA StableInit == Init => StableInv
<1> SUFFICES ASSUME Init PROVE StableInv
  OBVIOUS
<1>1. PICK old \in SUBSET Node :
          /\ \A n, m \in old : KeyOf[n] = KeyOf[m] => n = m
          /\ body = [n \in Node |-> IF n \in old THEN "fresh" ELSE "none"]
          /\ receipt = [k \in Key |-> IF \E n \in old : KeyOf[n] = k
                                      THEN CHOOSE n \in old : KeyOf[n] = k ELSE NoNode]
  BY DEF Init
<1>2. ASSUME NEW n \in Node, Exists(n) PROVE receipt[KeyOf[n]] = n
  <2> DEFINE c == CHOOSE m \in old : KeyOf[m] = KeyOf[n]
  <2>1. n \in old
    BY <1>1, <1>2 DEF Exists
  <2>2. receipt[KeyOf[n]] = c
    <3>1. KeyOf[n] \in Key
      BY DEF Key
    <3> QED
      BY <1>1, <2>1, <3>1
  <2>3. c \in old /\ KeyOf[c] = KeyOf[n]
    BY <2>1, Zenon
  <2> HIDE DEF c
  <2> QED
    BY <1>1, <2>1, <2>2, <2>3
<1>3. journal = Nothing /\ Nothing \notin Commits
  BY NothingIsNoOperation DEF Init, Operations, Mutations
<1> QED
  BY <1>2, <1>3 DEF StableInv

\* Where a mutation writes, in the store's terms.
LEMMA WritePlace ==
    ASSUME TypeInv, ProgressInv, WriteNext
    PROVE  /\ NodeAt(op, at) \in Node
           /\ PartAt(op, at) \in {"body", "receipt"} \cup RawIndex => op = journal /\ op \in Mutations
           /\ PartAt(op, at) \in {"receipt", "manifest"} \cup Derived => op \in Commits \cup Repairs
           /\ PartAt(op, at) = "receipt" => op \in Commits
           /\ op \in Commits \cup Repairs => NodeAt(op, at) = op.nodes[1]
           /\ op \in Updates => InJournal(NodeAt(op, at)) /\ Exists(NodeAt(op, at))
           /\ op \in Mutations => InJournal(NodeAt(op, at))
<1> DEFINE P == PartAt(op, at)
           N == NodeAt(op, at)
<1>1. op \in Operations /\ PlaceOK(op, at) /\ Busy
  BY WriteEffect DEF WriteNext, Busy
<1>2. op \in Mutations => op = journal
  BY <1>1 DEF TypeInv, OpInv
<1>3. N \in Node /\ \E i \in DOMAIN op.nodes : N = op.nodes[i]
  BY <1>1 DEF PlaceOK
<1>4. P \in {"body", "receipt"} \cup RawIndex => op = journal /\ op \in Mutations
  BY <1>1, <1>2 DEF PlaceOK
<1>5. /\ P \in {"receipt", "manifest"} \cup Derived => op \in Commits \cup Repairs
      /\ P = "receipt" => op \in Commits
  <2>1. P \in {"receipt", "manifest"} \cup Derived => op \notin Updates
    BY <1>1 DEF PlaceOK
  <2> QED
    BY <1>1, <1>4, <2>1 DEF Operations, Mutations
<1>6. op \in Commits \cup Repairs => N = op.nodes[1]
  <2>1. SUFFICES ASSUME op \in Commits \cup Repairs PROVE N = op.nodes[1]
    OBVIOUS
  <2>2. PICK n \in Node : op.nodes = <<n>>
    BY <2>1 DEF Commits, Repairs, Singles
  <2> QED
    BY <1>3, <2>2
<1>7. op \in Mutations => InJournal(N)
  BY <1>2, <1>3 DEF InJournal
<1>8. op \in Updates => Exists(N)
  BY <1>2, <1>3 DEF TypeInv, NodeInv, Mutations
<1> QED
  BY <1>3, <1>4, <1>5, <1>6, <1>7, <1>8 DEF Mutations

\* A file write keeps this: a body without its receipt is the journal's.
LEMMA StableWrite ==
    ASSUME TypeInv, ProgressInv, StableInv, WriteNext
    PROVE  StableInv'
<1> SUFFICES ASSUME givenUp = 0 PROVE StableInv'
  BY DEF StableInv, WriteNext, history
<1> DEFINE P == PartAt(op, at)
           N == NodeAt(op, at)
<1>1. /\ Write(P, N) /\ UNCHANGED <<version, journal, pc, op, live, repair, givenUp>>
      /\ N \in Node /\ KeyOf[N] \in Key
      /\ receipt \in [Key -> Node \cup {NoNode}] /\ NoNode \notin Node
  BY WritePlace, StoreAssumption DEF WriteNext, history, TypeInv, TypeOK, Key
<1>2. P = "receipt" => journal \in Commits /\ N = journal.nodes[1]
  BY WritePlace
<1>3. \A n \in Node : body'[n] = body[n] \/ (n = N /\ P = "body")
  BY WriteEffect
<1>4. P = "body" => Exists(N) \/ (journal \in Commits /\ N = journal.nodes[1])
  BY WritePlace DEF Mutations
<1> HIDE DEF P, N
<1>5. ASSUME NEW k \in Key PROVE receipt'[k] = receipt[k] \/ (P = "receipt" /\ k = KeyOf[N] /\ receipt'[k] = N)
  BY <1>1 DEF Write
<1>6. /\ pc \in {"checking", "clearing", "rebuilding"} => journal = Nothing
      /\ pc = "free" /\ live => journal = Nothing
      /\ pc = "writing" /\ op \in Repairs => journal = Nothing
      /\ \A n \in Node : Exists(n) =>
            \/ receipt[KeyOf[n]] = n
            \/ journal \in Commits /\ journal.nodes[1] = n
      /\ journal \in Commits => receipt[KeyOf[journal.nodes[1]]] \in {NoNode, journal.nodes[1]}
  BY DEF StableInv
<1>7. ASSUME NEW n \in Node, body'[n] # "none"
      PROVE  receipt'[KeyOf[n]] = n \/ (journal \in Commits /\ journal.nodes[1] = n)
  <2>1. KeyOf[n] \in Key
    BY DEF Key
  <2>2. CASE ~Exists(n)
    <3>1. n = N /\ P = "body"
      BY <1>3, <1>7, <2>2 DEF Exists
    <3> QED
      BY <1>4, <2>2, <3>1
  <2>3. CASE Exists(n) /\ ~(journal \in Commits /\ journal.nodes[1] = n)
    <3>1. receipt[KeyOf[n]] = n
      BY <1>6, <2>3
    <3>2. CASE P = "receipt" /\ KeyOf[n] = KeyOf[N]
      <4>1. receipt[KeyOf[n]] \in {NoNode, N}
        BY <1>2, <1>6, <3>2
      <4> QED
        BY <1>1, <1>2, <2>3, <3>1, <3>2, <4>1
    <3> QED
      BY <1>5, <2>1, <3>1, <3>2
  <2> QED
    BY <2>2, <2>3
<1>8. ASSUME journal \in Commits
      PROVE  receipt'[KeyOf[journal.nodes[1]]] \in {NoNode, journal.nodes[1]}
  <2>1. KeyOf[journal.nodes[1]] \in Key
    BY <1>8, CommitShape DEF Key
  <2> QED
    BY <1>2, <1>5, <1>6, <1>8, <2>1
<1> QED
  BY <1>1, <1>6, <1>7, <1>8 DEF StableInv, Exists

\* What is given up stays given up.
LEMMA GivenUpGrows ==
    ASSUME TypeInv, [Next]_vars
    PROVE  (givenUp' = givenUp \/ givenUp' = givenUp + 1) /\ givenUp \in Nat
<1>1. givenUp \in Nat
  BY StoreAssumption DEF TypeInv, TypeOK
<1> SUFFICES givenUp' = givenUp \/ givenUp' = givenUp + 1
  BY <1>1
<1>2. CASE GiveUp
  BY <1>2 DEF GiveUp
<1>3. CASE \/ \E n \in Node : Commit(n)
           \/ \E k \in Key : Found(k)
           \/ \E p \in Patch : \E nodes \in Batches(p) : UpdateLifecycle(nodes, p)
           \/ \E part \in Index : Clear(part)
  BY <1>3 DEF history, Commit, Found, UpdateLifecycle, Clear
<1>4. CASE Reindex \/ WriteNext \/ Done \/ Repaired \/ Open \/ Replayed \/ Trust \/ Distrust
  BY <1>4 DEF history, Reindex, WriteNext, Done, Repaired, Open, Replayed, Trust, Distrust
<1>5. CASE ClearVersion \/ Cleared \/ RebuildNext \/ Rebuilt \/ Crash
  BY <1>5 DEF history, ClearVersion, Cleared, RebuildNext, Rebuilt, Crash
<1>6. CASE UNCHANGED vars
  BY <1>6 DEF vars, history
<1> QED
  BY <1>1, <1>2, <1>3, <1>4, <1>5, <1>6 DEF Next

\* Every other step does.
LEMMA StableOther ==
    ASSUME TypeInv, ProgressInv, StableInv, [Next]_vars, ~WriteNext
    PROVE  StableInv'
<1> SUFFICES ASSUME givenUp' = 0, givenUp = 0 PROVE StableInv'
  BY GivenUpGrows DEF StableInv
<1>0. /\ Nothing \notin Operations /\ Nothing \notin Mutations /\ Nothing \notin Repairs
      /\ Nothing \notin Commits /\ Nothing \notin Updates
      /\ Mutations \cap Repairs = {}
  BY NothingIsNoOperation, Disjoint DEF Operations, Mutations
<1>1. /\ pc \in {"checking", "clearing", "rebuilding"} => journal = Nothing
      /\ pc = "free" /\ live => journal = Nothing
      /\ pc = "writing" /\ op \in Repairs => journal = Nothing
      /\ \A n \in Node : Exists(n) =>
            \/ receipt[KeyOf[n]] = n
            \/ journal \in Commits /\ journal.nodes[1] = n
      /\ journal \in Commits => receipt[KeyOf[journal.nodes[1]]] \in {NoNode, journal.nodes[1]}
  BY DEF StableInv
<1>2. CASE \E n \in Node : Commit(n)
  <2>1. PICK n \in Node : Commit(n)
    BY <1>2
  <2> DEFINE m == [set |-> "commit", nodes |-> <<n>>]
  <2>2. m \in Commits /\ m \notin Repairs /\ m.nodes[1] = n
    BY RecordsOfOperations, Disjoint
  <2>3. /\ pc' = "writing" /\ op' = m /\ journal' = m /\ journal = Nothing
        /\ receipt[KeyOf[n]] = NoNode
        /\ UNCHANGED <<receipt, body, live>>
    BY <1>1, <2>1 DEF Commit, Journaled, Begin
  <2> HIDE DEF m
  <2> QED
    BY <1>0, <1>1, <2>2, <2>3 DEF StableInv, Exists
<1>3. CASE \E p \in Patch : \E nodes \in Batches(p) : UpdateLifecycle(nodes, p)
  <2>0. PICK p \in Patch : \E nodes \in Batches(p) : UpdateLifecycle(nodes, p)
    BY <1>3
  <2>1. PICK nodes \in Batches(p) : UpdateLifecycle(nodes, p)
    BY <2>0
  <2> DEFINE m == [set |-> p, nodes |-> nodes]
  <2>2. m \in Updates /\ m \notin Repairs /\ m \notin Commits
    BY RecordsOfOperations, Disjoint
  <2>3. /\ pc' = "writing" /\ op' = m /\ journal' = m /\ journal = Nothing
        /\ UNCHANGED <<receipt, body, live>>
    BY <1>1, <2>1 DEF UpdateLifecycle, Journaled, Begin
  <2> HIDE DEF m
  <2> QED
    BY <1>0, <1>1, <2>2, <2>3 DEF StableInv, Exists
<1>4. CASE Done \/ Replayed
  <2>1. /\ pc' \in {"free", "checking"} /\ op' = Nothing /\ journal' = Nothing
        /\ UNCHANGED <<receipt, body>>
        /\ Busy /\ op \in Mutations /\ op = journal /\ at > Writes(op)
    BY <1>0, <1>4 DEF Done, Replayed, Finish, Begin, Busy, TypeInv, OpInv
  <2>2. journal \in Commits => receipt[KeyOf[journal.nodes[1]]] = journal.nodes[1]
    BY <2>1, ReceiptWritten
  <2> QED
    BY <1>0, <1>1, <2>1, <2>2 DEF StableInv, Exists
<1>5. CASE \/ \E k \in Key : Found(k)
           \/ Reindex \/ Repaired \/ Open \/ Trust \/ Distrust \/ Cleared \/ Crash
           \/ ClearVersion \/ (\E part \in Index : Clear(part)) \/ Rebuilt
  <2>1. UNCHANGED <<receipt, body, journal>>
    BY <1>5 DEF Found, Reindex, Repaired, Open, Trust, Distrust, Cleared, Crash, ClearVersion, Clear,
       Rebuilt, disk
  <2>2. /\ pc' \in {"checking", "clearing", "rebuilding"} => journal = Nothing
        /\ pc' = "free" /\ live' => journal = Nothing
        /\ pc' = "writing" /\ op' \in Repairs => journal = Nothing
    BY <1>0, <1>1, <1>5 DEF Found, Reindex, Repaired, Open, Trust, Distrust, Cleared, Crash,
       ClearVersion, Clear, Rebuilt, Begin, Finish, process, TypeInv, OpInv, Busy
  <2> QED
    BY <1>1, <2>1, <2>2 DEF StableInv, Exists
<1>6. CASE RebuildNext
  <2>1. /\ pc = "rebuilding" /\ journal = Nothing
        /\ UNCHANGED <<body, journal, pc, op, live>>
    BY <1>1, <1>6 DEF RebuildNext
  <2>2. Rebuild[at] \in Task
    BY <1>6, RebuildTasks DEF RebuildNext, TypeInv, OpInv
  <2>3. receipt' = receipt
    <3> DEFINE w == Rebuild[at]
    <3>1. receipt' = IF w.part = "receipt" /\ Exists(w.node)
                     THEN [receipt EXCEPT ![KeyOf[w.node]] = w.node] ELSE receipt
      BY <1>6 DEF RebuildNext
    <3>2. w.part = "receipt" => w.node \in Node /\ KeyOf[w.node] \in Key
      BY <2>2 DEF Task, Index, RawIndex, Key
    <3> HIDE DEF w
    <3> QED
      BY <1>0, <1>1, <2>1, <3>1, <3>2 DEF TypeInv, TypeOK
  <2> QED
    BY <1>1, <2>1, <2>3 DEF StableInv, Exists
<1>7. CASE GiveUp
  BY <1>7 DEF GiveUp
<1>8. CASE UNCHANGED vars
  BY <1>1, <1>8 DEF StableInv, vars, disk, process, Exists
<1> QED
  BY <1>2, <1>3, <1>4, <1>5, <1>6, <1>7, <1>8 DEF Next

\* It holds of every store.
LEMMA StableInvariant == Spec => []StableInv
<1>1. TypeInv /\ ProgressInv /\ StableInv /\ [Next]_vars => StableInv'
  BY StableWrite, StableOther
<1> QED
  BY StableInit, <1>1, TypesInvariant, PTL DEF Spec

\* With an empty journal the contents are the files.
LEMMA NoJournal ==
    ASSUME journal = Nothing
    PROVE  /\ \A n : ~InJournal(n)
           /\ Contents = [n \in Node |-> body[n]]
           /\ Holders = [k \in Key |-> receipt[k]]
<1>1. DOMAIN journal.nodes = {} /\ journal.set # "commit"
  BY DEF Nothing
<1> QED
  BY <1>1 DEF InJournal, Contents, Holders

\* A store nobody has opened is an atomic store.
LEMMA AtomicInit == Init => A!Init
<1> SUFFICES ASSUME Init PROVE A!Init
  OBVIOUS
<1>1. TypeInv /\ StableInv /\ journal = Nothing /\ givenUp = 0
  BY TypeInit, StableInit DEF Init
<1>2. /\ Contents = [n \in Node |-> body[n]]
      /\ Holders = [k \in Key |-> receipt[k]]
  BY <1>1, NoJournal
<1>3. Contents \in [Node -> {"none", "fresh"}]
  BY <1>2 DEF Init
<1>4. Holders \in [Key -> Node \cup {NoNode}]
  BY <1>1, <1>2 DEF TypeInv, TypeOK
<1>5. \A n \in Node : Contents[n] # "none" => Holders[KeyOf[n]] = n
  <2>1. \A n \in Node : KeyOf[n] \in Key
    BY DEF Key
  <2>2. \A n \in Node : Exists(n) => receipt[KeyOf[n]] = n
    BY <1>1, NothingIsNoOperation DEF StableInv, Operations, Mutations
  <2> QED
    BY <1>2, <2>1, <2>2 DEF Exists
<1>6. \A k \in Key : Holders[k] # NoNode =>
         KeyOf[Holders[k]] = k /\ Contents[Holders[k]] # "none"
  BY <1>1, <1>2 DEF TypeInv, TypeOK, Exists
<1> QED
  BY <1>1, <1>3, <1>4, <1>5, <1>6 DEF A!Init, A!Key, Key

\* Writing a file changes nothing of what the store holds.
LEMMA AtomicWrite ==
    ASSUME TypeInv, ProgressInv, StableInv, WriteNext
    PROVE  UNCHANGED <<Contents, Holders>>
<1> DEFINE P == PartAt(op, at)
           N == NodeAt(op, at)
<1>1. Write(P, N) /\ journal' = journal /\ KeyOf[N] \in Key /\ receipt \in [Key -> Node \cup {NoNode}]
  BY WritePlace DEF WriteNext, history, TypeInv, TypeOK, Key
<1>2. \A n \in Node : \/ body'[n] = body[n]
                      \/ InJournal(n) /\ body'[n] = After(journal, body[n])
  BY WriteEffect, WritePlace
<1>3. ASSUME NEW n \in Node PROVE Contents'[n] = Contents[n]
  <2>1. InJournal(n)' <=> InJournal(n)
    BY <1>1 DEF InJournal
  <2>2. Contents[n] = IF InJournal(n) THEN After(journal, body[n]) ELSE body[n]
    BY DEF Contents
  <2>3. Contents'[n] = IF InJournal(n) THEN After(journal, body'[n]) ELSE body'[n]
    BY <1>1, <2>1 DEF Contents
  <2> QED
    BY <1>2, <2>2, <2>3, AfterTwice
<1>4. Contents' = Contents
  BY <1>3 DEF Contents
<1>5. P = "receipt" => journal.set = "commit" /\ journal.nodes[1] = N
  BY WritePlace, CommitShape
<1> HIDE DEF P, N
<1>6. ASSUME NEW k \in Key PROVE Holders'[k] = Holders[k]
  <2>1. receipt'[k] = receipt[k] \/ (P = "receipt" /\ k = KeyOf[N])
    BY <1>1 DEF Write
  <2> QED
    BY <1>1, <1>5, <2>1 DEF Holders
<1>7. Holders' = Holders
  BY <1>6 DEF Holders
<1> QED
  BY <1>4, <1>7

\* Nor does the removal of a journal all of whose files are written.
LEMMA AtomicDone ==
    ASSUME TypeInv, ProgressInv, Busy, op \in Mutations, at > Writes(op),
           journal' = Nothing, UNCHANGED <<body, receipt>>
    PROVE  UNCHANGED <<Contents, Holders>>
<1>1. op = journal /\ journal \in Mutations
  BY AllWritten
<1>2. \A n \in Node : InJournal(n) => body[n] = After(journal, body[n])
  <2> SUFFICES ASSUME NEW i \in DOMAIN journal.nodes
               PROVE  body[journal.nodes[i]] = After(journal, body[journal.nodes[i]])
    BY DEF InJournal
  <2>1. Written("body", journal.nodes[i])
    BY <1>1, AllWritten DEF Due, Part
  <2> QED
    BY <1>1, <2>1 DEF Written
<1>3. /\ \A n : ~InJournal(n)'
      /\ Contents' = [n \in Node |-> body[n]]
      /\ Holders' = [k \in Key |-> receipt[k]]
  <2>1. DOMAIN journal'.nodes = {} /\ journal'.set # "commit"
    BY DEF Nothing
  <2> QED
    BY <2>1 DEF InJournal, Contents, Holders
<1>4. Contents' = Contents
  BY <1>2, <1>3 DEF Contents
<1>5. journal.set = "commit" => receipt[KeyOf[journal.nodes[1]]] = journal.nodes[1]
  <2>1. journal.set = "commit" => journal \in Commits
    BY <1>1 DEF Mutations, Updates, Patch
  <2> QED
    BY <1>1, <2>1, ReceiptWritten
<1>6. Holders' = Holders
  BY <1>3, <1>5 DEF Holders
<1> QED
  BY <1>4, <1>6

\* A commit whose journal is written has happened.
LEMMA AtomicCommit ==
    ASSUME TypeInv, StableInv, givenUp = 0, NEW n \in Node, Commit(n)
    PROVE  A!Commit(n) /\ UNCHANGED givenUp
<1> DEFINE m == [set |-> "commit", nodes |-> <<n>>]
<1>1. /\ journal = Nothing /\ receipt[KeyOf[n]] = NoNode /\ journal' = m
      /\ UNCHANGED <<body, receipt, givenUp>> /\ KeyOf[n] \in Key
  BY DEF Commit, Journaled, StableInv, Key
<1>2. Contents = [k \in Node |-> body[k]] /\ Holders = [k \in Key |-> receipt[k]]
  BY <1>1, NoJournal
<1>3. m.set = "commit" /\ m.nodes[1] = n /\ DOMAIN m.nodes = {1}
  OBVIOUS
<1> HIDE DEF m
<1>4. \A k \in Node : InJournal(k)' <=> k = n
  BY <1>1, <1>3 DEF InJournal
<1>5. \A l : After(m, l) = "fresh"
  BY <1>3 DEF After
<1>6. Contents' = [Contents EXCEPT ![n] = "fresh"]
  BY <1>1, <1>2, <1>4, <1>5 DEF Contents
<1>7. Holders' = [Holders EXCEPT ![KeyOf[n]] = n]
  BY <1>1, <1>2, <1>3 DEF Holders
<1> QED
  BY <1>1, <1>2, <1>6, <1>7 DEF A!Commit

\* So has a lifecycle update: all of its nodes change at once.
LEMMA AtomicUpdate ==
    ASSUME TypeInv, StableInv, givenUp = 0, NEW p \in Patch, NEW nodes \in Batches(p),
           UpdateLifecycle(nodes, p)
    PROVE  /\ UNCHANGED givenUp
           /\ \E set \in SUBSET Raw :
                 (\A n \in set : Contents[n] # "none") /\ A!UpdateLifecycle(set, p)
<1> DEFINE m == [set |-> p, nodes |-> nodes]
           set == {n \in Raw : \E i \in DOMAIN nodes : nodes[i] = n}
<1>1. /\ journal = Nothing /\ journal' = m /\ UNCHANGED <<body, receipt, givenUp>>
      /\ \A i \in DOMAIN nodes : Exists(nodes[i])
  BY DEF UpdateLifecycle, Journaled, StableInv, history
<1>2. Contents = [k \in Node |-> body[k]] /\ Holders = [k \in Key |-> receipt[k]]
  BY <1>1, NoJournal
<1>3. m.set = p /\ m.nodes = nodes /\ m \in Updates
  BY RecordsOfOperations
<1>4. \A i \in DOMAIN nodes : nodes[i] \in Raw
  BY <1>3 DEF Updates, Singles, Pairs
<1> HIDE DEF m
<1>5. \A n \in Node : InJournal(n)' <=> n \in set
  BY <1>1, <1>3, <1>4 DEF InJournal
<1>6. \A l : After(m, l) = A!Patched(l, p)
  BY <1>3 DEF After, A!Patched, Patch
<1>7. \A n \in set : Contents[n] # "none"
  BY <1>1, <1>2, RawInNode DEF Exists
<1>8. Contents' = [n \in Node |-> IF n \in set THEN A!Patched(Contents[n], p) ELSE Contents[n]]
  BY <1>1, <1>2, <1>5, <1>6 DEF Contents
<1>9. Holders' = Holders
  <2>1. p # "commit"
    BY DEF Patch
  <2> QED
    BY <1>1, <1>2, <1>3, <2>1 DEF Holders
<1>10. set \in SUBSET Raw
  OBVIOUS
<1> HIDE DEF set
<1> QED
  BY <1>1, <1>7, <1>8, <1>9, <1>10 DEF A!UpdateLifecycle

\* While nothing was given up, a rebuild writes the receipts there are.
LEMMA RebuildKeepsReceipts ==
    ASSUME TypeInv, StableInv, givenUp = 0, RebuildNext
    PROVE  receipt' = receipt /\ body' = body
<1> DEFINE w == Rebuild[at]
<1>1. /\ pc = "rebuilding" /\ journal = Nothing /\ Nothing \notin Commits
      /\ \A n \in Node : Exists(n) => receipt[KeyOf[n]] = n
      /\ body' = body
  BY NothingIsNoOperation DEF StableInv, RebuildNext, Operations, Mutations
<1>2. w \in Task
  BY RebuildTasks DEF RebuildNext, TypeInv, OpInv
<1>3. receipt' = IF w.part = "receipt" /\ Exists(w.node)
                 THEN [receipt EXCEPT ![KeyOf[w.node]] = w.node] ELSE receipt
  BY DEF RebuildNext
<1>4. w.part = "receipt" => w.node \in Node /\ KeyOf[w.node] \in Key
  BY <1>2 DEF Task, Index, RawIndex, Key
<1> HIDE DEF w
<1>5. receipt' = receipt
  BY <1>1, <1>3, <1>4 DEF TypeInv, TypeOK
<1> QED
  BY <1>1, <1>5

\* Every step of the store is one of the atomic store, or changes nothing there.
LEMMA AtomicNext ==
    ASSUME TypeInv, ProgressInv, StableInv, [Next]_vars
    PROVE  [A!Next]_(A!vars)
<1> DEFINE Still == UNCHANGED <<Contents, Holders>>
<1>1. CASE givenUp' > 0
  BY <1>1 DEF A!Next, A!GiveUp
<1> SUFFICES ASSUME givenUp = 0, givenUp' = 0 PROVE [A!Next]_(A!vars)
  BY <1>1, GivenUpGrows
<1>2. ASSUME Still PROVE [A!Next]_(A!vars)
  BY <1>2 DEF A!vars
<1>3. ASSUME UNCHANGED <<body, receipt, journal>> PROVE Still
  <2>1. \A n : InJournal(n)' <=> InJournal(n)
    BY <1>3 DEF InJournal
  <2> QED
    BY <1>3, <2>1 DEF Contents, Holders
<1>4. CASE \E n \in Node : Commit(n)
  BY <1>4, AtomicCommit DEF A!Next
<1>5. CASE \E p \in Patch : \E nodes \in Batches(p) : UpdateLifecycle(nodes, p)
  <2>1. PICK p \in Patch : \E nodes \in Batches(p) : UpdateLifecycle(nodes, p)
    BY <1>5
  <2>2. \E set \in SUBSET Raw : (\A n \in set : Contents[n] # "none") /\ A!UpdateLifecycle(set, p)
    BY <2>1, AtomicUpdate
  <2>3. p \in A!Patch
    BY DEF Patch, A!Patch
  <2> QED
    BY <2>2, <2>3 DEF A!Next
<1>6. CASE WriteNext
  BY <1>2, <1>6, AtomicWrite
<1>7. CASE Done \/ Replayed
  <2>0. Nothing \notin Operations /\ Mutations \cap Repairs = {}
    BY NothingIsNoOperation, Disjoint
  <2>1. /\ journal' = Nothing /\ UNCHANGED <<body, receipt>>
        /\ Busy /\ op \in Mutations /\ at > Writes(op)
    BY <1>7, <2>0 DEF Done, Replayed, Finish, Begin, Busy, TypeInv, OpInv, Operations, Mutations
  <2> QED
    BY <1>2, <2>1, AtomicDone
<1>8. CASE RebuildNext
  BY <1>2, <1>3, <1>8, RebuildKeepsReceipts DEF RebuildNext
<1>9. CASE \/ \E k \in Key : Found(k)
           \/ \E part \in Index : Clear(part)
           \/ Reindex \/ Repaired \/ Open \/ Trust \/ Distrust \/ Cleared \/ Crash
           \/ ClearVersion \/ Rebuilt \/ GiveUp \/ UNCHANGED vars
  <2>1. UNCHANGED <<receipt, body, journal>>
    BY <1>9 DEF Found, Reindex, Repaired, Open, Trust, Distrust, Cleared, Crash, ClearVersion, Clear,
       Rebuilt, GiveUp, disk, vars
  <2> QED
    BY <1>2, <1>3, <2>1
<1> QED
  BY <1>4, <1>5, <1>6, <1>7, <1>8, <1>9 DEF Next

\* Until an operation is given up with the store open, the store is the atomic
\* one, whatever moments its process dies at: a mutation happens when its
\* journal is written, and no file write, replay or rebuild after it changes
\* what the store holds.
THEOREM AtomicHolds == Spec => Atomic
<1>1. TypeInv /\ ProgressInv /\ StableInv /\ [Next]_vars => [A!Next]_(A!vars)
  BY AtomicNext
<1> QED
  BY <1>1, AtomicInit, TypesInvariant, StableInvariant, PTL DEF Spec, Atomic, A!Spec

-------------------------------------------------------------------------------
(* The indexes. *)

\* n is a node the journal is about to create.
Coming(n) == journal \in Commits /\ InJournal(n)

\* Where the indexes say what the bodies do: they speak of every node but those
\* the journal still has to write.
Exact ==
    \A n \in Node :
        /\ ~InJournal(n) => \A part \in RawIndex :
              n \in index[part] <=> n \in Raw /\ Exists(n) /\ Lists(part, body[n])
        /\ ~Coming(n) => (n \in index["manifest"] <=> n \in derived["embedding"])

\* Until an operation is given up: the version marker vouches for the indexes,
\* and a store is only open with the marker.
IndexInv ==
    givenUp = 0 =>
        /\ live => version
        /\ pc \in {"clearing", "rebuilding"} => ~version
        /\ version => Exact
        /\ \A n \in Node : ~Coming(n) => (n \in derived["embedding"] <=> Exists(n))

\* What a rebuild has written so far.
RebuildInv ==
    pc = "rebuilding" => \A j \in 1..Len(Rebuild) :
        j < at /\ Rebuild[j].part \in Index =>
            index[Rebuild[j].part] = FromBodies(Rebuild[j].part)

\* Nothing that the invariant speaks of changes.
LEMMA IndexSame ==
    ASSUME IndexInv, UNCHANGED <<body, index, derived, journal, givenUp>>,
           givenUp = 0 => (live' => version'),
           givenUp = 0 => (pc' \in {"clearing", "rebuilding"} => ~version'),
           givenUp = 0 => (version' => version)
    PROVE  IndexInv'
<1>1. \A n : (InJournal(n)' <=> InJournal(n)) /\ (Coming(n)' <=> Coming(n))
  BY DEF InJournal, Coming
<1>2. Exact => Exact'
  BY <1>1 DEF Exact, Exists
<1> QED
  BY <1>1, <1>2 DEF IndexInv, Exists

\* With an empty journal nothing is exempt, so indexes the marker vouches for
\* pass the test of an open.
LEMMA ExactIsComplete ==
    ASSUME TypeInv, IndexInv, givenUp = 0, journal = Nothing, version
    PROVE  Complete
<1>1. \A n : ~InJournal(n) /\ ~Coming(n)
  BY NoJournal DEF Coming
<1>2. Exact
  BY DEF IndexInv
<1>3. \A n \in Raw : Exists(n) => n \in index["timeline"]
  <2>1. \A l : Lists("timeline", l)
    BY DEF Lists
  <2> QED
    BY <1>1, <1>2, <2>1, RawInNode DEF Exact, RawIndex
<1>4. derived["embedding"] \subseteq index["manifest"]
  <2>1. derived["embedding"] \subseteq Node
    BY DEF TypeInv, TypeOK, Derived
  <2> QED
    BY <1>1, <1>2, <2>1 DEF Exact
<1> QED
  BY <1>3, <1>4 DEF Complete

\* A file write touches only what the journal exempts, or what is there already.
LEMMA IndexWrite ==
    ASSUME TypeInv, ProgressInv, StableInv, IndexInv, WriteNext
    PROVE  IndexInv'
<1> DEFINE P == PartAt(op, at)
           N == NodeAt(op, at)
<1>1. /\ Write(P, N) /\ UNCHANGED <<version, journal, pc, op, live, givenUp>>
      /\ N \in Node
      /\ index \in [Index -> SUBSET Node] /\ derived \in [Derived -> SUBSET Node]
  BY WritePlace DEF WriteNext, history, TypeInv, TypeOK
<1> SUFFICES ASSUME givenUp = 0 PROVE IndexInv'
  BY <1>1 DEF IndexInv
<1>2. \A n : (InJournal(n)' <=> InJournal(n)) /\ (Coming(n)' <=> Coming(n))
  BY <1>1 DEF InJournal, Coming
<1>3. \A n \in Node : body'[n] = body[n] \/ (n = N /\ P = "body")
  BY WriteEffect
<1>4. \A n \in Node : Exists(n) => Exists(n)'
  BY WriteEffect
<1>5. P \in {"body", "receipt"} \cup RawIndex => op = journal /\ op \in Mutations /\ InJournal(N)
  BY WritePlace
<1>6. op \in Commits => op = journal /\ InJournal(N)
  BY WritePlace DEF Mutations, TypeInv, OpInv, WriteNext, Busy
<1>7. op \in Updates => P \notin {"manifest"} \cup Derived /\ Exists(N)
  BY WritePlace, Disjoint
<1>8. op \in Repairs => journal = Nothing /\ Exists(N)
  <2>1. SUFFICES ASSUME op \in Repairs PROVE journal = Nothing /\ Exists(N)
    OBVIOUS
  <2>2. Busy /\ pc # "replaying"
    BY <2>1, Disjoint DEF WriteNext, Busy, TypeInv, OpInv
  <2>3. journal = Nothing
    BY <2>1, <2>2 DEF StableInv, Busy
  <2>4. N = op.nodes[1] /\ Exists(op.nodes[1])
    BY <2>1, <2>2, WritePlace DEF TypeInv, NodeInv
  <2> QED
    BY <2>3, <2>4
<1>9. op \in Commits \/ op \in Updates \/ op \in Repairs
  BY WriteEffect DEF Operations, Mutations
<1> HIDE DEF P, N
<1>10. \A n \in Node, part \in Index : n # N \/ part # P => (n \in index'[part] <=> n \in index[part])
  BY <1>1 DEF Write
<1>11. \A n \in Node, part \in Derived : n # N \/ part # P => (n \in derived'[part] <=> n \in derived[part])
  BY <1>1 DEF Write, Derived
<1>12. P \in {"manifest"} \cup Derived /\ ~Coming(N) => op \in Repairs
  BY <1>6, <1>7, <1>9 DEF Coming
<1>13. P = "manifest" => N \in index'["manifest"]
  BY <1>1 DEF Write, Index, Lists
<1>14. P = "embedding" => N \in derived'["embedding"]
  BY <1>1 DEF Write, Derived
<1>15. ASSUME NEW n \in Node, ~Coming(n)
       PROVE  /\ Exists(n)' <=> Exists(n)
              /\ n \in derived'["embedding"] <=> n \in derived["embedding"]
              /\ Exact => (n \in index'["manifest"] <=> n \in index["manifest"])
  <2>1. n \in derived["embedding"] <=> Exists(n)
    BY <1>15 DEF IndexInv
  <2>2. Exists(n)' <=> Exists(n)
    <3>1. CASE n = N /\ P = "body"
      <4>1. op \in Updates
        BY <1>5, <1>6, <1>9, <1>15, <3>1, Disjoint DEF Coming
      <4> QED
        BY <1>4, <1>7, <3>1, <4>1
    <3>2. CASE ~(n = N /\ P = "body")
      BY <1>3, <3>2 DEF Exists
    <3> QED
      BY <3>1, <3>2
  <2>3. n \in derived'["embedding"] <=> n \in derived["embedding"]
    BY <1>8, <1>11, <1>12, <1>14, <1>15, <2>1 DEF Derived
  <2>4. Exact => (n \in index'["manifest"] <=> n \in index["manifest"])
    BY <1>8, <1>10, <1>12, <1>13, <1>15, <2>1 DEF Index, Exact
  <2> QED
    BY <2>2, <2>3, <2>4
<1>16. ASSUME NEW n \in Node, ~InJournal(n), NEW part \in RawIndex
       PROVE  body'[n] = body[n] /\ (n \in index'[part] <=> n \in index[part])
  <2>1. n # N \/ P \notin {"body"} \cup RawIndex
    BY <1>5, <1>16
  <2> QED
    BY <1>3, <1>10, <2>1 DEF Index
<1>17. Exact => Exact'
  <2> SUFFICES ASSUME Exact, NEW n \in Node
               PROVE /\ ~InJournal(n) => \A part \in RawIndex :
                           n \in index'[part] <=> n \in Raw /\ body'[n] # "none" /\ Lists(part, body'[n])
                     /\ ~Coming(n) => (n \in index'["manifest"] <=> n \in derived'["embedding"])
    BY <1>2 DEF Exact, Exists, Lists
  <2> QED
    BY <1>15, <1>16 DEF Exact, Exists
<1> QED
  BY <1>1, <1>2, <1>15, <1>17 DEF IndexInv

\* The journal goes only when the indexes have what it says.
LEMMA IndexDone ==
    ASSUME TypeInv, ProgressInv, IndexInv, Done \/ Replayed
    PROVE  IndexInv'
<1>0. Nothing \notin Operations /\ Nothing \notin Commits /\ Mutations \cap Repairs = {}
  BY NothingIsNoOperation, Disjoint DEF Operations, Mutations
<1>1. /\ journal' = Nothing /\ UNCHANGED <<body, index, derived, version, live, givenUp>>
      /\ pc' \in {"free", "checking"}
      /\ Busy /\ op \in Mutations /\ at > Writes(op)
  BY <1>0 DEF Done, Replayed, Finish, Begin, Busy, TypeInv, OpInv, Operations, Mutations, history
<1> SUFFICES ASSUME givenUp = 0 PROVE IndexInv'
  BY <1>1 DEF IndexInv
<1>2. /\ op = journal
      /\ \A i \in DOMAIN journal.nodes, part \in Part :
            Due(journal, i, part) => Written(part, journal.nodes[i])
  BY <1>1, AllWritten
<1>3. ASSUME NEW n \in Node, InJournal(n)
      PROVE  /\ Exists(n)
             /\ \A part \in RawIndex : n \in index[part] <=> n \in Raw /\ Lists(part, body[n])
             /\ Coming(n) => n \in index["manifest"] /\ n \in derived["embedding"]
  <2>1. PICK i \in DOMAIN journal.nodes : journal.nodes[i] = n
    BY <1>3 DEF InJournal
  <2>2. Exists(n)
    <3>1. Written("body", n)
      BY <1>2, <2>1 DEF Due, Part
    <3> QED
      BY <3>1, AfterExists DEF Written, Exists, Life
  <2>3. ASSUME NEW part \in RawIndex PROVE n \in index[part] <=> n \in Raw /\ Lists(part, body[n])
    <3>1. n \in Raw => Written(part, n)
      BY <1>2, <2>1 DEF Due, Part, Index
    <3>2. index[part] \subseteq Raw
      BY DEF TypeInv, NodeInv
    <3> QED
      BY <3>1, <3>2 DEF Written
  <2>4. ASSUME Coming(n) PROVE n \in index["manifest"] /\ n \in derived["embedding"]
    <3>1. journal \in Commits
      BY <2>4 DEF Coming
    <3>2. Written("manifest", n) /\ Written("embedding", n)
      BY <1>2, <2>1, <3>1 DEF Due, Part, Index, Derived
    <3> QED
      BY <3>2 DEF Written, Derived
  <2> QED
    BY <2>2, <2>3, <2>4
<1>4. \A n : ~InJournal(n)' /\ ~Coming(n)'
  <2>1. DOMAIN journal'.nodes = {}
    BY <1>1 DEF Nothing
  <2> QED
    BY <2>1 DEF InJournal, Coming
<1>5. Exact => Exact'
  <2> SUFFICES ASSUME Exact, NEW n \in Node
               PROVE /\ \A part \in RawIndex :
                           n \in index[part] <=> n \in Raw /\ Exists(n) /\ Lists(part, body[n])
                     /\ n \in index["manifest"] <=> n \in derived["embedding"]
    BY <1>1, <1>4 DEF Exact, Exists, Lists
  <2> QED
    BY <1>3 DEF Exact, Coming
<1>6. \A n \in Node : n \in derived["embedding"] <=> Exists(n)
  BY <1>3 DEF IndexInv, Coming
<1> QED
  BY <1>1, <1>5, <1>6 DEF IndexInv, Exists

\* Every other step: opening, rebuilding, dying, giving up.
LEMMA IndexOther ==
    ASSUME TypeInv, ProgressInv, StableInv, IndexInv, RebuildInv, [Next]_vars, ~WriteNext
    PROVE  IndexInv'
<1> SUFFICES ASSUME givenUp' = 0, givenUp = 0 PROVE IndexInv'
  BY GivenUpGrows DEF IndexInv
<1>1. /\ live => version
      /\ pc \in {"clearing", "rebuilding"} => ~version
      /\ version => Exact
      /\ \A n \in Node : ~Coming(n) => (n \in derived["embedding"] <=> Exists(n))
  BY DEF IndexInv
<1>2. CASE Done \/ Replayed
  BY <1>2, IndexDone
<1>3. CASE \/ \E n \in Node : Commit(n)
           \/ \E p \in Patch : \E nodes \in Batches(p) : UpdateLifecycle(nodes, p)
  <2>1. /\ journal = Nothing /\ UNCHANGED <<body, index, derived, version, live>>
        /\ pc' = "writing"
    BY <1>3 DEF Commit, UpdateLifecycle, Journaled, Begin, StableInv
  <2>2. \A n : ~InJournal(n) /\ ~Coming(n)
    BY <2>1, NoJournal DEF Coming
  <2>3. Exact => Exact'
    BY <2>1, <2>2 DEF Exact, Exists
  <2> QED
    BY <1>1, <2>1, <2>2, <2>3 DEF IndexInv, Exists
<1>4. CASE \/ \E k \in Key : Found(k)
           \/ Reindex \/ Repaired \/ Open \/ Crash \/ Cleared \/ GiveUp
  <2>1. UNCHANGED <<body, index, derived, version, journal, givenUp>>
    BY <1>4 DEF Found, Reindex, Repaired, Open, Crash, Cleared, GiveUp, disk, history
  <2>2. /\ live' => live
        /\ pc' \in {"clearing", "rebuilding"} => pc \in {"clearing", "rebuilding"}
    BY <1>4 DEF Found, Reindex, Repaired, Open, Crash, Cleared, GiveUp, Begin, Finish, process
  <2> QED
    BY <1>1, <2>1, <2>2, IndexSame
<1>5. CASE Trust \/ Distrust
  <2>1. journal = Nothing /\ UNCHANGED <<body, index, derived, version, journal, givenUp>>
    BY <1>5 DEF Trust, Distrust, StableInv, disk, history
  <2>2. /\ live' => version'
        /\ pc' \in {"clearing", "rebuilding"} => ~version'
    BY <1>1, <1>5, <2>1, ExactIsComplete DEF Trust, Distrust, Complete, Begin, Finish
  <2> QED
    BY <2>1, <2>2, IndexSame
<1>6. CASE (\E part \in Index : Clear(part)) \/ ClearVersion \/ RebuildNext
  <2>1. /\ UNCHANGED <<body, derived, journal, live>> /\ ~version /\ ~version'
    BY <1>1, <1>6 DEF Clear, ClearVersion, RebuildNext, process
  <2>2. \A n : Coming(n)' <=> Coming(n)
    BY <2>1 DEF InJournal, Coming
  <2> QED
    BY <1>1, <2>1, <2>2 DEF IndexInv, Exists
<1>7. CASE Rebuilt
  <2>1. /\ journal = Nothing /\ UNCHANGED <<body, index, derived, journal>>
        /\ version' /\ pc' = "free" /\ pc = "rebuilding" /\ at > Len(Rebuild)
    BY <1>7 DEF Rebuilt, Finish, StableInv
  <2>2. \A n : ~InJournal(n) /\ ~Coming(n) /\ ~InJournal(n)' /\ ~Coming(n)'
    <3>1. DOMAIN journal.nodes = {} /\ DOMAIN journal'.nodes = {}
      BY <2>1 DEF Nothing
    <3> QED
      BY <3>1 DEF InJournal, Coming
  <2>3. ASSUME NEW part \in Index PROVE index[part] = FromBodies(part)
    <3>1. PICK j \in 1..Len(Rebuild) : Rebuild[j].part = part
      BY RebuildTasks DEF Contains
    <3>2. j < at
      BY <2>1, RebuildTasks DEF TypeInv, OpInv
    <3> QED
      BY <2>1, <3>1, <3>2 DEF RebuildInv
  <2>4. Exact'
    <3> SUFFICES ASSUME NEW n \in Node
                 PROVE /\ \A part \in RawIndex :
                             n \in index[part] <=> n \in Raw /\ Exists(n) /\ Lists(part, body[n])
                       /\ n \in index["manifest"] <=> n \in derived["embedding"]
      BY <2>1, <2>2 DEF Exact, Exists, Lists
    <3>1. "manifest" \notin RawIndex /\ "manifest" \in Index /\ RawIndex \subseteq Index
      BY DEF Index, RawIndex
    <3> QED
      BY <2>3, <3>1 DEF FromBodies
  <2>5. \A n \in Node : n \in derived["embedding"] <=> Exists(n)
    BY <1>1, <2>2
  <2> QED
    BY <2>1, <2>4, <2>5 DEF IndexInv, Exists
<1>8. CASE UNCHANGED vars
  BY <1>1, <1>8, IndexSame DEF vars, disk, process, history
<1> QED
  BY <1>2, <1>3, <1>4, <1>5, <1>6, <1>7, <1>8 DEF Next

\* A rebuild does not touch what it has written, and nobody else writes.
LEMMA RebuildStep ==
    ASSUME TypeInv, RebuildInv, [Next]_vars
    PROVE  RebuildInv'
<1>1. CASE RebuildNext
  <2> DEFINE w == Rebuild[at]
  <2>1. /\ pc = "rebuilding" /\ at' = at + 1 /\ UNCHANGED <<body, derived>>
        /\ index' = IF w.part \in Index THEN [index EXCEPT ![w.part] = FromBodies(w.part)] ELSE index
        /\ index \in [Index -> SUBSET Node] /\ at \in Nat
    BY <1>1 DEF RebuildNext, TypeInv, TypeOK
  <2>2. \A part : FromBodies(part)' = FromBodies(part)
    BY <2>1 DEF FromBodies, Exists, Lists
  <2>3. Rebuild' = Rebuild
    BY DEF Rebuild, RawReceipts, AbstractReceipts, Whole
  <2>4. Len(Rebuild) \in Nat
    BY RebuildTasks
  <2>5. ASSUME NEW j \in 1..Len(Rebuild), j < at', Rebuild[j].part \in Index
        PROVE  index'[Rebuild[j].part] = FromBodies(Rebuild[j].part)
    <3>1. CASE w.part = Rebuild[j].part
      BY <2>1, <2>5, <3>1
    <3>2. CASE w.part # Rebuild[j].part
      <4>1. j < at
        <5>1. j # at
          BY <3>2
        <5> QED
          BY <2>1, <2>4, <2>5, <5>1
      <4>2. index[Rebuild[j].part] = FromBodies(Rebuild[j].part)
        BY <2>1, <2>5, <4>1 DEF RebuildInv
      <4> QED
        BY <2>1, <2>5, <3>2, <4>2
    <3> QED
      BY <3>1, <3>2
  <2> HIDE DEF w
  <2> QED
    BY <2>2, <2>3, <2>5 DEF RebuildInv
<1>2. CASE Cleared
  <2>1. at' = 1
    BY <1>2 DEF Cleared, Begin
  <2>2. \A j \in 1..Len(Rebuild') : ~(j < at')
    BY <2>1
  <2> QED
    BY <2>2 DEF RebuildInv
<1>3. CASE UNCHANGED vars
  <2>1. \A part : FromBodies(part)' = FromBodies(part)
    BY <1>3 DEF FromBodies, Exists, Lists, vars, disk
  <2>2. Rebuild' = Rebuild
    BY DEF Rebuild, RawReceipts, AbstractReceipts, Whole
  <2> QED
    BY <1>3, <2>1, <2>2 DEF RebuildInv, vars, disk, process
<1>4. CASE \/ \E n \in Node : Commit(n)
           \/ \E p \in Patch : \E nodes \in Batches(p) : UpdateLifecycle(nodes, p)
           \/ \E k \in Key : Found(k)
           \/ \E part \in Index : Clear(part)
           \/ Reindex \/ WriteNext \/ Done \/ Repaired \/ Open \/ Replayed \/ Trust \/ Distrust
           \/ ClearVersion \/ Rebuilt \/ Crash \/ GiveUp
  <2>1. pc' # "rebuilding"
    BY <1>4 DEF Commit, Journaled, UpdateLifecycle, Found, Clear, Reindex, WriteNext, Done, Repaired,
       Open, Replayed, Trust, Distrust, ClearVersion, Rebuilt, Crash, GiveUp, Begin, Finish, process
  <2> QED
    BY <2>1 DEF RebuildInv
<1> QED
  BY <1>1, <1>2, <1>3, <1>4 DEF Next

\* The marker vouches for the indexes, and a rebuild for what it has written.
LEMMA IndexInvariant == Spec => [](IndexInv /\ RebuildInv)
<1>1. Init => IndexInv /\ RebuildInv
  <2> SUFFICES ASSUME Init PROVE IndexInv /\ RebuildInv
    OBVIOUS
  <2>1. /\ ~live /\ ~version /\ pc = "free" /\ journal = Nothing
    BY DEF Init
  <2>2. \A n : ~Coming(n)
    BY <2>1, NoJournal DEF Coming
  <2>3. \A n \in Node : n \in derived["embedding"] <=> Exists(n)
    BY DEF Init, Exists
  <2> QED
    BY <2>1, <2>2, <2>3 DEF IndexInv, RebuildInv
<1>2. TypeInv /\ ProgressInv /\ StableInv /\ IndexInv /\ RebuildInv /\ [Next]_vars
          => IndexInv' /\ RebuildInv'
  BY IndexWrite, IndexOther, RebuildStep
<1> QED
  BY <1>1, <1>2, TypesInvariant, StableInvariant, PTL DEF Spec

\* Until an operation is given up, the indexes of a store at rest list exactly
\* the bodies that belong into them, whatever moment of a mutation, of a replay
\* or of a rebuild its process died at: this is why an open may look at the
\* timeline and the embeddings only, and trust the rest.
THEOREM IndexesExactHolds == Spec => []IndexesExact
<1>1. TypeInv /\ StableInv /\ IndexInv => IndexesExact
  <2> SUFFICES ASSUME TypeInv, StableInv, IndexInv, pc = "free", live, givenUp = 0
               PROVE /\ journal = Nothing
                     /\ \A part \in Index : index[part] = FromBodies(part)
                     /\ derived["embedding"] = {n \in Node : Exists(n)}
    BY DEF IndexesExact
  <2>1. journal = Nothing
    BY DEF StableInv
  <2>2. \A n : ~InJournal(n) /\ ~Coming(n)
    BY <2>1, NoJournal DEF Coming
  <2>3. Exact /\ \A n \in Node : n \in derived["embedding"] <=> Exists(n)
    BY <2>2 DEF IndexInv
  <2>4. derived["embedding"] \subseteq Node /\ index["manifest"] \subseteq Node
    BY DEF TypeInv, TypeOK, Index, Derived
  <2>5. ASSUME NEW part \in RawIndex PROVE index[part] = FromBodies(part)
    <3>1. index[part] \subseteq Raw /\ part # "manifest"
      BY DEF TypeInv, NodeInv, RawIndex
    <3>2. \A n \in Raw : n \in index[part] <=> Exists(n) /\ Lists(part, body[n])
      BY <2>2, <2>3, RawInNode DEF Exact
    <3> QED
      BY <3>1, <3>2 DEF FromBodies
  <2>6. index["manifest"] = FromBodies("manifest")
    BY <2>2, <2>3, <2>4 DEF Exact, FromBodies
  <2> QED
    BY <2>1, <2>3, <2>4, <2>5, <2>6 DEF Index
<1> QED
  BY <1>1, TypesInvariant, StableInvariant, IndexInvariant, PTL
===============================================================================
