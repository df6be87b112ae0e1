---------------------------- MODULE Files_proofs ----------------------------
(***************************************************************************)
(* Proofs about the way of a file into the index.  First MerkleTree, which *)
(* decides whether a file has changed, for any finite set of paths, any    *)
(* contents and any hash of contents, equal hashes of different contents   *)
(* included: BuildMerkleTree returns a well-formed tree of the files on    *)
(* disk, and the difference of two well-formed trees is that of the files  *)
(* they hold.  Then Splitter, which cuts a file into chunks, for files of  *)
(* any length and lines of any size: a call has the property SplitterExact *)
(* of MCAlgorithms.                                                        *)
(***************************************************************************)
EXTENDS MerkleTree, MCAlgorithms, FiniteSetTheorems, SequenceTheorems, TLAPS

-----------------------------------------------------------------------------
(***************************************************************************)
(* Paths.                                                                  *)
(***************************************************************************)
Paths == Path \cup {Root}

\* Induction, as the least counterexample.
LEMMA NatInd ==
  ASSUME NEW S, 0 \in S, \A n \in Nat : n \in S => n + 1 \in S
  PROVE  Nat \subseteq S
<1> DEFINE T == Nat \ S
           R == OpToRel(<, Nat)
<1>1. SUFFICES ASSUME T # {} PROVE FALSE
  BY Zenon
<1>2. IsWellFoundedOn(R, Nat)
  BY Zenon, NatLessThanWellFounded
<1>3. T \subseteq Nat
  BY Zenon
<1>4. PICK x \in T : \A y \in T : ~ (<<y, x>> \in R)
  <2> HIDE DEF R, T
  <2> QED
    BY <1>1, <1>2, <1>3, WFMin
<1>5. \A y \in T : ~ (y < x)
  <2>1. \A a, b \in Nat : a < b => <<a, b>> \in R
    BY Zenon DEF OpToRel
  <2> QED
    BY Zenon, <1>3, <1>4, <2>1
<1> HIDE DEF R
<1> QED
  BY <1>5

LEMMA PathFacts ==
  /\ \A p \in Paths : p \in Seq(Name) /\ Len(p) \in Nat /\ (Len(p) = 0 <=> p = Root)
  /\ \A p \in Path : p \in Paths /\ p # Root /\ Len(p) >= 1
<1>1. Root \in Seq(Name) /\ Len(Root) = 0
  BY DEF Root
<1>2. ASSUME NEW p \in Seq(Name) PROVE Len(p) \in Nat /\ (Len(p) = 0 <=> p = <<>>)
  OBVIOUS
<1>3. ASSUME NEW p \in Path PROVE p \in Seq(Name) /\ p # <<>>
  BY MerkleAssumption
<1>4. ASSUME NEW p \in Path PROVE p # Root /\ Len(p) \in Nat /\ Len(p) # 0
  BY <1>2, <1>3 DEF Root
<1>5. \A p \in Paths : p \in Seq(Name)
  BY <1>1, <1>3 DEF Paths
<1>6. \A p \in Paths : Len(p) \in Nat /\ (Len(p) = 0 <=> p = Root)
  BY <1>2, <1>5 DEF Root
<1>7. \A p \in Path : p \in Paths /\ p # Root /\ Len(p) >= 1
  BY <1>4 DEF Paths
<1> QED
  BY <1>5, <1>6, <1>7

LEMMA FrontFacts ==
  ASSUME NEW q \in Path
  PROVE  /\ Front(q) \in Paths /\ Len(Front(q)) = Len(q) - 1
         /\ \A i \in 1 .. Len(q) - 1 : Front(q)[i] = q[i]
         /\ Last(q) = q[Len(q)]
<1>1. q \in Seq(Name) /\ Len(q) \in Nat /\ Len(q) >= 1 /\ (Len(q) > 1 => Front(q) \in Path)
  BY PathFacts, MerkleAssumption
<1>2. /\ Front(q) \in Seq(Name) /\ Len(Front(q)) = Len(q) - 1
      /\ \A i \in 1 .. Len(q) - 1 : Front(q)[i] = q[i]
  <2> DEFINE k == Len(q) - 1
  <2>1. k \in 0 .. Len(q)
    BY <1>1
  <2>2. Front(q) = SubSeq(q, 1, k)
    BY DEF Front
  <2> HIDE DEF k
  <2>3. /\ SubSeq(q, 1, k) \in Seq(Name) /\ Len(SubSeq(q, 1, k)) = k
        /\ \A i \in 1 .. k : SubSeq(q, 1, k)[i] = q[i]
    BY <1>1, <2>1, SubSeqProperties
  <2> QED
    BY <2>2, <2>3 DEF k
<1>3. Front(q) \in Paths
  <2>1. CASE Len(q) > 1
    BY <1>1, <2>1 DEF Paths
  <2>2. CASE Len(q) = 1
    BY <1>2, <2>2 DEF Paths, Root
  <2> QED
    BY <1>1, <2>1, <2>2
<1> QED
  BY <1>2, <1>3 DEF Last

\* A path is known by its length and its names.
LEMMA SamePath ==
  ASSUME NEW p \in Paths, NEW q \in Paths, Len(p) = Len(q), \A i \in 1 .. Len(p) : p[i] = q[i]
  PROVE  p = q
  BY PathFacts, SeqEqual

LEMMA PrefixIs ==
  ASSUME NEW p \in Paths, NEW q \in Paths
  PROVE  IsPrefix(p, q) <=> Len(p) <= Len(q) /\ \A i \in 1 .. Len(p) : p[i] = q[i]
<1>1. p \in Seq(Name) /\ q \in Seq(Name) /\ Len(p) \in Nat /\ Len(q) \in Nat
  BY PathFacts
<1>2. SUFFICES ASSUME Len(p) <= Len(q)
               PROVE  SubSeq(p, 1, Len(p)) = SubSeq(q, 1, Len(p)) <=> \A i \in 1 .. Len(p) : p[i] = q[i]
  BY DEF IsPrefix
<1> DEFINE a == SubSeq(p, 1, Len(p))
           b == SubSeq(q, 1, Len(p))
<1>3. a \in Seq(Name) /\ Len(a) = Len(p) /\ \A i \in 1 .. Len(p) : a[i] = p[i]
  BY <1>1
<1>4. b \in Seq(Name) /\ Len(b) = Len(p) /\ \A i \in 1 .. Len(p) : b[i] = q[i]
  BY <1>1, <1>2
<1> HIDE DEF a, b
<1>5. a = b <=> \A i \in 1 .. Len(p) : a[i] = b[i]
  BY <1>3, <1>4, SeqEqual
<1>6. a = b <=> \A i \in 1 .. Len(p) : p[i] = q[i]
  BY <1>3, <1>4, <1>5
<1> QED
  BY <1>6 DEF a, b

LEMMA PrefixOrder ==
  ASSUME NEW p \in Paths, NEW q \in Paths
  PROVE  /\ IsPrefix(p, p) /\ IsPrefix(Root, p)
         /\ IsPrefix(p, q) /\ Len(p) = Len(q) => p = q
         /\ \A r \in Paths : IsPrefix(p, q) /\ IsPrefix(q, r) => IsPrefix(p, r)
<1>1. /\ \A r \in Paths : Len(r) \in Nat
      /\ Root \in Paths /\ Len(Root) = 0
  BY PathFacts DEF Paths, Root
<1>2. IsPrefix(p, p)
  BY <1>1, PrefixIs
<1>3. IsPrefix(Root, p)
  BY <1>1, PrefixIs
<1>4. IsPrefix(p, q) /\ Len(p) = Len(q) => p = q
  BY PrefixIs, SamePath
<1>5. ASSUME NEW r \in Paths, IsPrefix(p, q), IsPrefix(q, r) PROVE IsPrefix(p, r)
  <2>1. Len(p) <= Len(q) /\ \A i \in 1 .. Len(p) : p[i] = q[i]
    BY <1>5, PrefixIs
  <2>2. Len(q) <= Len(r) /\ \A i \in 1 .. Len(q) : q[i] = r[i]
    BY <1>5, PrefixIs
  <2>3. Len(p) <= Len(r) /\ \A i \in 1 .. Len(p) : p[i] = r[i]
    BY <1>1, <2>1, <2>2
  <2> QED
    BY <2>3, PrefixIs
<1> QED
  BY <1>2, <1>3, <1>4, <1>5

LEMMA ChildFacts ==
  ASSUME NEW c \in Paths, NEW p, IsChild(c, p)
  PROVE  /\ c \in Path /\ p \in Paths /\ p = Front(c) /\ Len(c) = Len(p) + 1 /\ IsPrefix(p, c)
         /\ Last(c) = c[Len(c)]
<1>1. c \in Path /\ p = Front(c)
  BY DEF IsChild, Paths
<1>2. /\ p \in Paths /\ Len(p) = Len(c) - 1 /\ \A i \in 1 .. Len(c) - 1 : p[i] = c[i]
      /\ Last(c) = c[Len(c)]
  BY <1>1, FrontFacts
<1>3. Len(c) \in Nat /\ Len(p) \in Nat
  BY <1>2, PathFacts
<1>4. Len(c) = Len(p) + 1 /\ Len(p) <= Len(c) /\ \A i \in 1 .. Len(p) : p[i] = c[i]
  BY <1>2, <1>3
<1> QED
  BY <1>1, <1>2, <1>4, PrefixIs

\* A child is known by its parent and its name.
LEMMA SameChild ==
  ASSUME NEW c \in Paths, NEW d \in Paths, NEW p, IsChild(c, p), IsChild(d, p), Last(c) = Last(d)
  PROVE  c = d
<1>1. /\ p \in Paths /\ Len(c) = Len(p) + 1 /\ Len(d) = Len(p) + 1
      /\ IsPrefix(p, c) /\ IsPrefix(p, d) /\ c[Len(c)] = d[Len(d)]
  BY ChildFacts
<1>2. Len(p) \in Nat
  BY <1>1, PathFacts
<1>3. /\ \A i \in 1 .. Len(p) : p[i] = c[i]
      /\ \A i \in 1 .. Len(p) : p[i] = d[i]
  BY <1>1, PrefixIs
<1>4. ASSUME NEW i \in 1 .. Len(c) PROVE c[i] = d[i]
  <2>1. i \in 1 .. Len(p) \/ i = Len(c)
    BY <1>1, <1>2
  <2> QED
    BY <1>1, <1>3, <2>1
<1> QED
  BY <1>1, <1>4, SamePath

\* What lies below a child lies below its parent, and below no other child.
LEMMA BelowChild ==
  ASSUME NEW c \in Paths, NEW p, IsChild(c, p), NEW q \in Paths, IsPrefix(c, q)
  PROVE  /\ IsPrefix(p, q) /\ p # q
         /\ \A d \in Paths : IsChild(d, p) /\ IsPrefix(d, q) => d = c
<1>1. p \in Paths /\ Len(c) = Len(p) + 1 /\ IsPrefix(p, c)
  BY ChildFacts
<1>2. Len(p) \in Nat /\ Len(c) <= Len(q) /\ \A i \in 1 .. Len(c) : c[i] = q[i]
  BY <1>1, PathFacts, PrefixIs
<1>3. IsPrefix(p, q)
  BY <1>1, PrefixOrder
<1>4. p # q
  BY <1>1, <1>2
<1>5. ASSUME NEW d \in Paths, IsChild(d, p), IsPrefix(d, q) PROVE d = c
  <2>1. Len(d) = Len(p) + 1
    BY <1>5, ChildFacts
  <2>2. \A i \in 1 .. Len(d) : d[i] = q[i]
    BY <1>5, PrefixIs
  <2>3. \A i \in 1 .. Len(d) : d[i] = c[i]
    BY <1>1, <1>2, <2>1, <2>2
  <2> QED
    BY <1>1, <2>1, <2>3, SamePath
<1> QED
  BY <1>3, <1>4, <1>5

\* The first k names of a path are a path.
LEMMA PrefixesArePaths ==
  ASSUME NEW q \in Paths, NEW k \in 0 .. Len(q)
  PROVE  /\ SubSeq(q, 1, k) \in Paths /\ Len(SubSeq(q, 1, k)) = k
         /\ \A i \in 1 .. k : SubSeq(q, 1, k)[i] = q[i]
         /\ IsPrefix(SubSeq(q, 1, k), q)
<1>1. q \in Seq(Name) /\ Len(q) \in Nat
  BY PathFacts
<1>2. ASSUME NEW j \in 0 .. Len(q)
      PROVE  /\ SubSeq(q, 1, j) \in Seq(Name) /\ Len(SubSeq(q, 1, j)) = j
             /\ \A i \in 1 .. j : SubSeq(q, 1, j)[i] = q[i]
  BY <1>1, SubSeqProperties
<1> DEFINE S == {n \in Nat : n <= Len(q) => SubSeq(q, 1, Len(q) - n) \in Paths}
<1>3. 0 \in S
  <2> DEFINE r == SubSeq(q, 1, Len(q))
  <2>1. Len(q) \in 0 .. Len(q)
    BY <1>1
  <2>2. r \in Seq(Name) /\ Len(r) = Len(q) /\ \A i \in 1 .. Len(q) : r[i] = q[i]
    BY <1>2, <2>1
  <2> HIDE DEF r
  <2>3. r = q
    BY <1>1, <2>2, SeqEqual
  <2>4. Len(q) - 0 = Len(q)
    BY <1>1
  <2> QED
    BY <2>3, <2>4 DEF r
<1>4. ASSUME NEW n \in Nat, n \in S PROVE n + 1 \in S
  <2>1. SUFFICES ASSUME n + 1 <= Len(q) PROVE SubSeq(q, 1, Len(q) - (n + 1)) \in Paths
    OBVIOUS
  <2> DEFINE j == Len(q) - n
             r == SubSeq(q, 1, j)
             s == SubSeq(q, 1, j - 1)
  <2>2. j \in 1 .. Len(q) /\ j - 1 \in 0 .. Len(q) /\ j \in 0 .. Len(q) /\ j - 1 = Len(q) - (n + 1)
    BY <1>1, <2>1
  <2>3. r \in Paths
    BY <1>4, <2>1, <1>1
  <2>4. Len(r) = j /\ \A i \in 1 .. j : r[i] = q[i]
    BY <1>2, <2>2
  <2>5. s \in Seq(Name) /\ Len(s) = j - 1 /\ \A i \in 1 .. j - 1 : s[i] = q[i]
    BY <1>2, <2>2
  <2> HIDE DEF r, s, j
  <2>6. r \in Path
    BY <2>2, <2>3, <2>4, PathFacts DEF Paths
  <2>7. /\ Front(r) \in Paths /\ Len(Front(r)) = j - 1
        /\ \A i \in 1 .. j - 1 : Front(r)[i] = r[i]
    BY <2>4, <2>6, FrontFacts
  <2>8. \A i \in 1 .. j - 1 : Front(r)[i] = s[i]
    BY <2>2, <2>4, <2>5, <2>7
  <2>9. Front(r) \in Seq(Name)
    BY <2>7, PathFacts
  <2>10. Front(r) = s
    BY <2>5, <2>7, <2>8, <2>9, SeqEqual
  <2> QED
    BY <2>2, <2>7, <2>10 DEF s
<1>5. Len(q) - k \in S
  <2> HIDE DEF S
  <2>1. Nat \subseteq S
    BY <1>3, <1>4, NatInd
  <2> QED
    BY <1>1, <2>1
<1>6. SubSeq(q, 1, k) \in Paths
  <2>1. Len(q) - k <= Len(q) /\ Len(q) - (Len(q) - k) = k
    BY <1>1
  <2> QED
    BY <1>5, <2>1
<1>7. Len(SubSeq(q, 1, k)) = k /\ \A i \in 1 .. k : SubSeq(q, 1, k)[i] = q[i]
  BY <1>2
<1>8. IsPrefix(SubSeq(q, 1, k), q)
  <2> DEFINE r == SubSeq(q, 1, k)
  <2> HIDE DEF r
  <2>1. r \in Paths /\ Len(r) <= Len(q) /\ \A i \in 1 .. Len(r) : r[i] = q[i]
    BY <1>6, <1>7 DEF r
  <2> QED
    BY <2>1, PrefixIs DEF r
<1> QED
  BY <1>6, <1>7, <1>8

\* The child of p on the way to q.
Towards(p, q) == SubSeq(q, 1, Len(p) + 1)

LEMMA TowardsIs ==
  ASSUME NEW p \in Paths, NEW q \in Paths, IsPrefix(p, q), p # q
  PROVE  Towards(p, q) \in Path /\ IsChild(Towards(p, q), p) /\ IsPrefix(Towards(p, q), q)
<1>1. /\ Len(p) \in Nat /\ Len(q) \in Nat /\ Len(p) <= Len(q) /\ Len(p) # Len(q)
      /\ \A i \in 1 .. Len(p) : p[i] = q[i]
  BY PathFacts, PrefixIs, PrefixOrder
<1>2. Len(p) + 1 \in 0 .. Len(q)
  BY <1>1
<1> DEFINE c == Towards(p, q)
<1>3. /\ c \in Paths /\ Len(c) = Len(p) + 1 /\ IsPrefix(c, q)
      /\ \A i \in 1 .. Len(p) + 1 : c[i] = q[i]
  BY <1>2, PrefixesArePaths DEF Towards
<1> HIDE DEF c
<1>4. c \in Path
  BY <1>1, <1>3, PathFacts DEF Paths
<1>5. /\ Front(c) \in Paths /\ Len(Front(c)) = Len(p)
      /\ \A i \in 1 .. Len(p) : Front(c)[i] = c[i]
  BY <1>1, <1>3, <1>4, FrontFacts
<1>6. \A i \in 1 .. Len(p) : Front(c)[i] = p[i]
  BY <1>1, <1>3, <1>5
<1>7. Front(c) = p
  BY <1>5, <1>6, SamePath
<1>8. IsChild(c, p)
  BY <1>4, <1>7, PathFacts DEF IsChild
<1> QED
  BY <1>3, <1>4, <1>8 DEF c

\* A set of paths that holds the parent of each of its paths holds all of their prefixes.
LEMMA ClosedUpwards ==
  ASSUME NEW X, X \subseteq Paths, \A x \in X : x # Root => Front(x) \in X,
         NEW q \in X, NEW p \in Paths, IsPrefix(p, q)
  PROVE  p \in X
<1>1. q \in Paths /\ Len(q) \in Nat /\ Len(p) \in Nat /\ Len(p) <= Len(q)
  BY PathFacts, PrefixIs
<1> DEFINE S == {n \in Nat : \A r \in Paths : IsPrefix(r, q) /\ Len(r) + n = Len(q) => r \in X}
<1>2. 0 \in S
  BY <1>1, PathFacts, PrefixOrder
<1>3. ASSUME NEW n \in Nat, n \in S PROVE n + 1 \in S
  <2>1. SUFFICES ASSUME NEW r \in Paths, IsPrefix(r, q), Len(r) + (n + 1) = Len(q) PROVE r \in X
    OBVIOUS
  <2> DEFINE c == Towards(r, q)
  <2>2. Len(r) \in Nat /\ r # q
    BY <1>1, <2>1, PathFacts
  <2>3. c \in Path /\ IsChild(c, r) /\ IsPrefix(c, q)
    BY <1>1, <2>1, <2>2, TowardsIs
  <2> HIDE DEF c
  <2>4. c \in Paths /\ c # Root /\ Front(c) = r /\ Len(c) = Len(r) + 1
    BY <2>3, PathFacts, ChildFacts DEF IsChild
  <2>5. c \in X
    BY <1>1, <1>3, <2>1, <2>2, <2>3, <2>4
  <2> QED
    BY <2>4, <2>5
<1>4. Len(q) - Len(p) \in S
  <2> HIDE DEF S
  <2>1. Nat \subseteq S
    BY <1>2, <1>3, NatInd
  <2> QED
    BY <1>1, <2>1
<1> QED
  BY <1>1, <1>4

LEMMA PathsHaveDepth == \E n \in Nat : \A p \in Paths : Len(p) <= n
<1> DEFINE S == {n \in Nat : \A X \in SUBSET Path : IsFiniteSet(X) /\ Cardinality(X) = n
                               => \E k \in Nat : \A p \in X : Len(p) <= k}
<1>1. 0 \in S
  <2>1. ASSUME NEW X, IsFiniteSet(X), Cardinality(X) = 0 PROVE X = {}
    BY <2>1, FS_EmptySet
  <2>2. ASSUME NEW X \in SUBSET Path, X = {} PROVE \E k \in Nat : \A p \in X : Len(p) <= k
    BY <2>2
  <2> QED
    BY <2>1, <2>2
<1>2. ASSUME NEW n \in Nat, n \in S PROVE n + 1 \in S
  <2>1. SUFFICES ASSUME NEW X \in SUBSET Path, IsFiniteSet(X), Cardinality(X) = n + 1
                 PROVE  \E k \in Nat : \A p \in X : Len(p) <= k
    OBVIOUS
  <2>2. X # {}
    <3>1. n + 1 # 0
      OBVIOUS
    <3> QED
      BY <2>1, <3>1, FS_EmptySet
  <2>3. PICK x \in X : TRUE
    BY <2>2
  <2>4. IsFiniteSet(X \ {x}) /\ Cardinality(X \ {x}) = n
    <3>1. IsFiniteSet(X \ {x}) /\ Cardinality(X \ {x}) = Cardinality(X) - 1
      BY <2>1, FS_RemoveElement
    <3> QED
      BY <2>1, <3>1
  <2>5. PICK k \in Nat : \A p \in X \ {x} : Len(p) <= k
    <3>1. X \ {x} \in SUBSET Path
      OBVIOUS
    <3> QED
      BY <1>2, <2>4, <3>1
  <2>6. Len(x) \in Nat /\ \A p \in X : Len(p) \in Nat
    BY PathFacts
  <2>7. k + Len(x) \in Nat /\ \A p \in X : Len(p) <= k + Len(x)
    BY <2>5, <2>6
  <2> QED
    BY <2>7
<1>3. Cardinality(Path) \in S
  <2> HIDE DEF S
  <2>1. Nat \subseteq S
    BY <1>1, <1>2, NatInd
  <2>2. Cardinality(Path) \in Nat
    BY MerkleAssumption, FS_CardinalityType
  <2> QED
    BY <2>1, <2>2
<1>4. PICK k \in Nat : \A p \in Path : Len(p) <= k
  BY <1>3, MerkleAssumption
<1>5. Len(Root) <= k
  BY <1>4, PathFacts DEF Paths
<1> QED
  BY <1>4, <1>5 DEF Paths

-----------------------------------------------------------------------------
(***************************************************************************)
(* The two recursions are defined: a call for a path depends on the calls  *)
(* for its children alone, and no path is longer than the longest.         *)
(***************************************************************************)
LEMMA SubtreeIsLocal ==
  ASSUME NEW p \in Paths, NEW f, NEW g, \A c \in Path : IsChild(c, p) => f[c] = g[c]
  PROVE  Subtree(p, f) = Subtree(p, g)
<1>1. \A c \in Entries(p) : f[c] = g[c]
  BY DEF Entries
<1>2. {f[c] : c \in Entries(p)} = {g[c] : c \in Entries(p)}
  BY <1>1
<1> QED
  BY <1>2 DEF Subtree

LEMMA DiffIsLocal ==
  ASSUME NEW prev, NEW next, \A m \in prev \cup next : m.path \in Paths,
         NEW p \in Paths, NEW f, NEW g, \A c \in Path : IsChild(c, p) => f[c] = g[c]
  PROVE  DiffAt(prev, next, p, f) = DiffAt(prev, next, p, g)
<1>1. \A c \in EitherHas(prev, next, p) : f[c] = g[c]
  BY DEF EitherHas, Children, IsChild, Paths
<1>2. {f[c] : c \in EitherHas(prev, next, p)} = {g[c] : c \in EitherHas(prev, next, p)}
  BY <1>1
<1> QED
  BY <1>2 DEF DiffAt

\* BuildMerkleTree of every path.
Builds(f) == f = [p \in Paths |-> Subtree(p, f)]

LEMMA BuildExists == \E f : Builds(f)
<1>1. PICK k \in Nat : \A p \in Paths : Len(p) <= k
  BY PathsHaveDepth
<1>2. \A p \in Paths : Len(p) \in Nat
  BY PathFacts
<1> DEFINE Upto(n, f) == [p \in Paths |-> IF k < Len(p) + n THEN Subtree(p, f) ELSE Nil]
           S == {n \in Nat : \E f : f = Upto(n, f)}
<1>3. 0 \in S
  <2> DEFINE f == [p \in Paths |-> Nil]
  <2>1. f = Upto(0, f)
    BY <1>1, <1>2
  <2> QED
    BY <2>1
<1>4. ASSUME NEW n \in Nat, n \in S PROVE n + 1 \in S
  <2>1. PICK f : f = Upto(n, f)
    BY <1>4
  <2> DEFINE g == Upto(n + 1, f)
  <2>2. ASSUME NEW p \in Paths, k < Len(p) + (n + 1) PROVE Subtree(p, f) = Subtree(p, g)
    <3>1. ASSUME NEW c \in Path, IsChild(c, p) PROVE f[c] = g[c]
      <4>1. c \in Paths /\ Len(c) = Len(p) + 1
        BY <3>1, PathFacts, ChildFacts
      <4>2. k < Len(c) + n /\ k < Len(c) + (n + 1)
        BY <1>1, <1>2, <2>2, <4>1
      <4>3. f[c] = Subtree(c, f)
        BY <2>1, <4>1, <4>2
      <4>4. g[c] = Subtree(c, f)
        BY <4>1, <4>2
      <4> QED
        BY <4>3, <4>4
    <3> HIDE DEF g
    <3> QED
      BY <3>1, SubtreeIsLocal
  <2>3. g = Upto(n + 1, g)
    BY <2>2
  <2>4. PICK h : h = g
    OBVIOUS
  <2>5. h = Upto(n + 1, h)
    BY <2>3, <2>4
  <2>6. \E e : e = Upto(n + 1, e)
    BY <2>5
  <2> QED
    BY <2>6
<1>5. k + 1 \in S
  <2> HIDE DEF S
  <2>1. Nat \subseteq S
    BY <1>3, <1>4, NatInd
  <2> QED
    BY <2>1
<1>6. PICK f : f = Upto(k + 1, f)
  BY <1>5
<1>7. \A p \in Paths : k < Len(p) + (k + 1)
  BY <1>1, <1>2
<1>8. f = [p \in Paths |-> Subtree(p, f)]
  BY <1>6, <1>7
<1> QED
  BY <1>8 DEF Builds

LEMMA BuildIs == \E f : Builds(f) /\ BuildMerkleTree = f[Root]
<1> DEFINE B == CHOOSE f : f = [p \in Path \cup {Root} |-> Subtree(p, f)]
<1>1. B = [p \in Path \cup {Root} |-> Subtree(p, B)]
  BY BuildExists DEF Builds, Paths
<1>2. Builds(B)
  BY <1>1 DEF Builds, Paths
<1>3. BuildMerkleTree = B[Root]
  BY DEF BuildMerkleTree
<1> QED
  BY <1>2, <1>3

\* DiffTrees of the nodes at every path.
Diffs(prev, next, f) == f = [p \in Paths |-> DiffAt(prev, next, p, f)]

LEMMA DiffExists ==
  ASSUME NEW prev, NEW next, \A m \in prev \cup next : m.path \in Paths
  PROVE  \E f : Diffs(prev, next, f)
<1>1. PICK k \in Nat : \A p \in Paths : Len(p) <= k
  BY PathsHaveDepth
<1>2. \A p \in Paths : Len(p) \in Nat
  BY PathFacts
<1> DEFINE Upto(n, f) ==
             [p \in Paths |-> IF k < Len(p) + n THEN DiffAt(prev, next, p, f) ELSE Diff({}, {}, {})]
           S == {n \in Nat : \E f : f = Upto(n, f)}
<1>3. 0 \in S
  <2> DEFINE f == [p \in Paths |-> Diff({}, {}, {})]
  <2>1. f = Upto(0, f)
    BY <1>1, <1>2
  <2> QED
    BY <2>1
<1>4. ASSUME NEW n \in Nat, n \in S PROVE n + 1 \in S
  <2>1. PICK f : f = Upto(n, f)
    BY <1>4
  <2> DEFINE g == Upto(n + 1, f)
  <2>2. ASSUME NEW p \in Paths, k < Len(p) + (n + 1)
        PROVE  DiffAt(prev, next, p, f) = DiffAt(prev, next, p, g)
    <3>1. ASSUME NEW c \in Path, IsChild(c, p) PROVE f[c] = g[c]
      <4>1. c \in Paths /\ Len(c) = Len(p) + 1
        BY <3>1, PathFacts, ChildFacts
      <4>2. k < Len(c) + n /\ k < Len(c) + (n + 1)
        BY <1>1, <1>2, <2>2, <4>1
      <4>3. f[c] = DiffAt(prev, next, c, f)
        BY <2>1, <4>1, <4>2
      <4>4. g[c] = DiffAt(prev, next, c, f)
        BY <4>1, <4>2
      <4> QED
        BY <4>3, <4>4
    <3> HIDE DEF g
    <3> QED
      BY <3>1, DiffIsLocal
  <2>3. g = Upto(n + 1, g)
    BY <2>2
  <2>4. PICK h : h = g
    OBVIOUS
  <2>5. h = Upto(n + 1, h)
    BY <2>3, <2>4
  <2>6. \E e : e = Upto(n + 1, e)
    BY <2>5
  <2> QED
    BY <2>6
<1>5. k + 1 \in S
  <2> HIDE DEF S
  <2>1. Nat \subseteq S
    BY <1>3, <1>4, NatInd
  <2> QED
    BY <2>1
<1>6. PICK f : f = Upto(k + 1, f)
  BY <1>5
<1>7. \A p \in Paths : k < Len(p) + (k + 1)
  BY <1>1, <1>2
<1>8. f = [p \in Paths |-> DiffAt(prev, next, p, f)]
  BY <1>6, <1>7
<1> QED
  BY <1>8 DEF Diffs

LEMMA DiffIs ==
  ASSUME NEW prev, NEW next, \A m \in prev \cup next : m.path \in Paths
  PROVE  \E f : Diffs(prev, next, f) /\ DiffTrees(prev, next) = f[Root]
<1> DEFINE D == CHOOSE f : f = [p \in Path \cup {Root} |-> DiffAt(prev, next, p, f)]
<1>1. D = [p \in Path \cup {Root} |-> DiffAt(prev, next, p, D)]
  BY DiffExists DEF Diffs, Paths
<1>2. Diffs(prev, next, D)
  BY <1>1 DEF Diffs, Paths
<1>3. DiffTrees(prev, next) = D[Root]
  BY DEF DiffTrees
<1> QED
  BY <1>2, <1>3

-----------------------------------------------------------------------------
(***************************************************************************)
(* Well-formed trees: the part at and below p of a tree of the files fs,   *)
(* each with its hash.                                                     *)
(***************************************************************************)
NodesOK(p, t) ==
  \A m \in t : m.path \in Paths /\ IsPrefix(p, m.path) /\ m.type \in {"file", "directory"}

OneNodePerPath(t) == \A m, k \in t : m.path = k.path => m = k

FileNodesOK(t, fs) ==
  \A m \in t : m.type = "file" => \E h : m.hash = <<"file", h>> /\ <<m.path, h>> \in fs

FilesHaveNodes(t, fs) ==
  \A e \in fs : /\ e = <<e[1], e[2]>>
                /\ \E m \in t : m.type = "file" /\ m.path = e[1] /\ m.hash = <<"file", e[2]>>

DirectoriesOK(t) ==
  \A m \in t : m.type = "directory" =>
    m.hash = <<"directory", {<<Last(k.path), k.hash>> : k \in Children(t, m.path)}>>

ParentsHaveNodes(p, t) ==
  \A m \in t : m.path # p => \E k \in t : k.type = "directory" /\ k.path = Front(m.path)

GoodUnder(p, t, fs) ==
  /\ NodesOK(p, t) /\ OneNodePerPath(t) /\ FileNodesOK(t, fs) /\ FilesHaveNodes(t, fs)
  /\ DirectoriesOK(t) /\ ParentsHaveNodes(p, t)
  /\ t # {} => HasNode(t, p)

LEMMA EmptyIsGood ==
  ASSUME NEW p PROVE GoodUnder(p, {}, {})
  BY DEF GoodUnder, NodesOK, OneNodePerPath, FileNodesOK, FilesHaveNodes, DirectoriesOK,
         ParentsHaveNodes

\* A file of its own.
LEMMA FileIsGood ==
  ASSUME NEW p \in Path, NEW h
  PROVE  GoodUnder(p, {[type |-> "file", path |-> p, hash |-> <<"file", h>>]}, {<<p, h>>})
<1> DEFINE n == [type |-> "file", path |-> p, hash |-> <<"file", h>>]
<1>1. p \in Paths /\ IsPrefix(p, p)
  BY PathFacts, PrefixOrder
<1>2. n.type = "file" /\ n.path = p /\ n.hash = <<"file", h>> /\ n.type # "directory"
  OBVIOUS
<1> HIDE DEF n
<1>3. NodesOK(p, {n}) /\ OneNodePerPath({n}) /\ ParentsHaveNodes(p, {n}) /\ HasNode({n}, p)
  BY <1>1, <1>2 DEF NodesOK, OneNodePerPath, ParentsHaveNodes, HasNode
<1>4. FileNodesOK({n}, {<<p, h>>}) /\ FilesHaveNodes({n}, {<<p, h>>})
  BY <1>2 DEF FileNodesOK, FilesHaveNodes
<1>5. DirectoriesOK({n})
  BY <1>2 DEF DirectoriesOK
<1> QED
  BY <1>3, <1>4, <1>5 DEF GoodUnder, n

\* A directory, from the trees of its entries.
AllOf(C, F) == UNION {F[c] : c \in C}

Assembled(p, C, T) ==
  LET children == Children(AllOf(C, T), p)
  IN  IF children = {} THEN Nil ELSE {DirNode(p, children)} \cup AllOf(C, T)

LEMMA DirectoryIsGood ==
  ASSUME NEW p \in Paths, NEW C, NEW T, NEW F,
         \A c \in C : c \in Path /\ IsChild(c, p) /\ GoodUnder(c, T[c], F[c])
  PROVE  GoodUnder(p, Assembled(p, C, T), AllOf(C, F))
<1> PICK below : below = UNION {T[c] : c \in C}
  OBVIOUS
<1> PICK kids : kids = Children(below, p)
  OBVIOUS
<1> PICK t : t = IF kids = {} THEN {} ELSE {DirNode(p, kids)} \cup below
  OBVIOUS
<1> PICK fs : fs = UNION {F[c] : c \in C}
  OBVIOUS
<1> DEFINE d == DirNode(p, kids)
<1> SUFFICES GoodUnder(p, t, fs)
  BY DEF Assembled, AllOf, Nil
<1>1. \A c \in C : c \in Path /\ c \in Paths /\ IsChild(c, p) /\ Len(c) = Len(p) + 1
  BY PathFacts, ChildFacts
<1>2. ASSUME NEW c \in C, NEW m \in T[c]
      PROVE  m.path \in Paths /\ IsPrefix(c, m.path) /\ m.type \in {"file", "directory"}
             /\ IsPrefix(p, m.path) /\ m.path # p /\ m \in below
  <2>1. m.path \in Paths /\ IsPrefix(c, m.path) /\ m.type \in {"file", "directory"}
    BY DEF GoodUnder, NodesOK
  <2>2. IsPrefix(p, m.path) /\ m.path # p
    BY <1>1, <2>1, BelowChild
  <2> QED
    BY <2>1, <2>2
\* Nodes whose paths are related belong to the same entry.
<1>3. ASSUME NEW c \in C, NEW e \in C, NEW m \in T[c], NEW k \in T[e], IsPrefix(m.path, k.path)
      PROVE  c = e
  <2>1. IsPrefix(c, m.path) /\ IsPrefix(e, k.path) /\ m.path \in Paths /\ k.path \in Paths
    BY <1>2
  <2>2. IsPrefix(c, k.path)
    BY <1>1, <1>3, <2>1, PrefixOrder
  <2> QED
    BY <1>1, <2>1, <2>2, BelowChild
<1>4. ASSUME NEW c \in C, NEW m \in T[c] PROVE \E k \in kids : k.path = c
  <2>1. PICK k \in T[c] : k.path = c
    BY DEF GoodUnder, HasNode
  <2> QED
    BY <1>1, <1>2, <2>1 DEF Children
<1>5. CASE kids = {}
  <2>1. \A c \in C : T[c] = {}
    BY <1>4, <1>5
  <2>2. \A c \in C : F[c] = {}
    BY <2>1 DEF GoodUnder, FilesHaveNodes
  <2>3. t = {} /\ fs = {}
    BY <1>5, <2>2
  <2> QED
    BY <2>3, EmptyIsGood
<1>6. CASE kids # {}
  <2>1. t = {d} \cup below
    BY <1>6
  <2>2. d.type = "directory" /\ d.path = p
        /\ d.hash = <<"directory", {<<Last(k.path), k.hash>> : k \in kids}>>
    BY DEF DirNode
  <2> HIDE DEF d
  <2>3. NodesOK(p, t) /\ HasNode(t, p)
    <3>1. \A m \in below : m.path \in Paths /\ IsPrefix(p, m.path) /\ m.type \in {"file", "directory"}
      BY <1>2
    <3>2. IsPrefix(p, p)
      BY PrefixOrder
    <3> QED
      BY <2>1, <2>2, <3>1, <3>2 DEF NodesOK, HasNode
  <2>4. OneNodePerPath(t)
    <3>1. ASSUME NEW m \in below, NEW k \in below, m.path = k.path PROVE m = k
      <4>1. PICK c \in C : m \in T[c]
        OBVIOUS
      <4>2. PICK e \in C : k \in T[e]
        OBVIOUS
      <4>3. IsPrefix(m.path, k.path)
        BY <1>2, <3>1, <4>1, PrefixOrder
      <4>4. c = e
        BY <1>3, <4>1, <4>2, <4>3
      <4> QED
        BY <3>1, <4>1, <4>2, <4>4 DEF GoodUnder, OneNodePerPath
    <3>2. \A m \in below : m.path # d.path
      BY <1>2, <2>2
    <3> QED
      BY <2>1, <3>1, <3>2 DEF OneNodePerPath
  <2>5. FileNodesOK(t, fs)
    <3>1. ASSUME NEW c \in C, NEW m \in T[c], m.type = "file"
          PROVE  \E h : m.hash = <<"file", h>> /\ <<m.path, h>> \in fs
      <4>1. PICK h : m.hash = <<"file", h>> /\ <<m.path, h>> \in F[c]
        BY <3>1 DEF GoodUnder, FileNodesOK
      <4>2. <<m.path, h>> \in fs
        BY <4>1
      <4> QED
        BY <4>1, <4>2
    <3>2. \A m \in below : m.type = "file" => \E h : m.hash = <<"file", h>> /\ <<m.path, h>> \in fs
      BY <3>1
    <3>3. d.type # "file"
      BY <2>2
    <3> QED
      BY <2>1, <3>2, <3>3 DEF FileNodesOK
  <2>6. FilesHaveNodes(t, fs)
    <3>1. ASSUME NEW c \in C, NEW e \in F[c]
          PROVE  /\ e = <<e[1], e[2]>>
                 /\ \E m \in t : m.type = "file" /\ m.path = e[1] /\ m.hash = <<"file", e[2]>>
      <4>1. /\ e = <<e[1], e[2]>>
            /\ \E m \in T[c] : m.type = "file" /\ m.path = e[1] /\ m.hash = <<"file", e[2]>>
        BY DEF GoodUnder, FilesHaveNodes
      <4>2. T[c] \subseteq t
        BY <2>1
      <4> QED
        BY <4>1, <4>2
    <3>2. \A e \in fs : \E c \in C : e \in F[c]
      OBVIOUS
    <3> QED
      BY <3>1, <3>2 DEF FilesHaveNodes
  <2>7. DirectoriesOK(t)
    <3>1. ~ IsChild(p, p)
      <4>1. Len(p) \in Nat
        BY PathFacts
      <4> QED
        BY <4>1, ChildFacts
    <3>2. Children(t, p) = kids
      BY <2>1, <2>2, <3>1 DEF Children
    <3>3. ASSUME NEW c \in C, NEW m \in T[c] PROVE Children(t, m.path) = Children(T[c], m.path)
      <4>1. m.path \in Paths /\ Len(p) \in Nat /\ Len(m.path) \in Nat /\ Len(p) < Len(m.path)
        <5>1. /\ m.path \in Paths /\ IsPrefix(c, m.path) /\ c \in Paths /\ Len(c) = Len(p) + 1
          BY <1>1, <1>2
        <5>2. Len(c) <= Len(m.path) /\ Len(p) \in Nat /\ Len(m.path) \in Nat
          BY <5>1, PathFacts, PrefixIs
        <5> QED
          BY <5>1, <5>2
      <4>2. ~ IsChild(p, m.path)
        <5>1. SUFFICES ASSUME IsChild(p, m.path) PROVE FALSE
          OBVIOUS
        <5>2. Len(p) = Len(m.path) + 1
          BY <5>1, ChildFacts
        <5> QED
          BY <4>1, <5>2
      <4>3. ASSUME NEW k \in below, IsChild(k.path, m.path) PROVE k \in T[c]
        <5>1. PICK e \in C : k \in T[e]
          OBVIOUS
        <5>2. IsPrefix(m.path, k.path)
          BY <1>2, <4>3, <5>1, ChildFacts
        <5> QED
          BY <1>3, <5>1, <5>2
      <4> QED
        BY <1>2, <2>1, <2>2, <4>2, <4>3 DEF Children
    <3>4. ASSUME NEW c \in C, NEW m \in T[c], m.type = "directory"
          PROVE  m.hash = <<"directory", {<<Last(k.path), k.hash>> : k \in Children(t, m.path)}>>
      <4>1. m.hash = <<"directory", {<<Last(k.path), k.hash>> : k \in Children(T[c], m.path)}>>
        BY <3>4 DEF GoodUnder, DirectoriesOK
      <4> QED
        BY <3>3, <4>1
    <3> QED
      BY <2>1, <2>2, <3>2, <3>4 DEF DirectoriesOK
  <2>8. ParentsHaveNodes(p, t)
    <3>1. ASSUME NEW c \in C, NEW m \in T[c]
          PROVE  \E k \in t : k.type = "directory" /\ k.path = Front(m.path)
      <4>1. CASE m.path = c
        BY <1>1, <2>1, <2>2, <4>1 DEF IsChild
      <4>2. CASE m.path # c
        <5>1. \E k \in T[c] : k.type = "directory" /\ k.path = Front(m.path)
          BY <4>2 DEF GoodUnder, ParentsHaveNodes
        <5> QED
          BY <2>1, <5>1
      <4> QED
        BY <4>1, <4>2
    <3>2. \A m \in below : \E k \in t : k.type = "directory" /\ k.path = Front(m.path)
      BY <3>1
    <3> QED
      BY <2>1, <2>2, <3>2 DEF ParentsHaveNodes
  <2> QED
    BY <2>3, <2>4, <2>5, <2>6, <2>7, <2>8 DEF GoodUnder
<1> QED
  BY <1>5, <1>6

-----------------------------------------------------------------------------
(***************************************************************************)
(* What is built is well-formed.                                           *)
(***************************************************************************)
\* Whatever exists is in a directory.
DiskOK ==
  /\ disk \in [Path -> Content \cup {Dir, None}]
  /\ \A q \in Path : disk[q] # None => At(Front(q)) = Dir

\* The files of p that BuildMerkleTree is to find, each with its hash.
Wanted(p, q) ==
  /\ IsPrefix(p, q) /\ disk[q] \in Content /\ isIndexable(q)
  /\ \A i \in Len(p) + 1 .. Len(q) - 1 : q[i] \notin Skipped

FilesUnder(p) == {<<q, HashOf[disk[q]]>> : q \in {q \in Path : Wanted(p, q)}}

LEMMA AboveAreDirectories ==
  ASSUME DiskOK, NEW q \in Path, disk[q] # None, NEW p \in Paths, IsPrefix(p, q), p # q
  PROVE  At(p) = Dir
<1> DEFINE X == {x \in Paths : x = Root \/ disk[x] # None}
           c == Towards(p, q)
<1>1. Dir # None /\ q \in Paths /\ q \in X
  BY MerkleAssumption, PathFacts
<1>2. ASSUME NEW x \in X, x # Root PROVE Front(x) \in X
  <2>1. x \in Path /\ Front(x) \in Paths
    BY <1>2, FrontFacts DEF Paths
  <2>2. At(Front(x)) = Dir
    BY <1>2, <2>1 DEF DiskOK
  <2> QED
    BY <1>1, <2>1, <2>2 DEF At
<1>3. c \in Path /\ IsChild(c, p) /\ IsPrefix(c, q)
  BY <1>1, TowardsIs
<1>4. c \in Paths /\ c # Root /\ Front(c) = p
  BY <1>3, PathFacts DEF IsChild
<1> HIDE DEF c
<1>5. c \in X
  <2>1. X \subseteq Paths
    OBVIOUS
  <2> HIDE DEF X
  <2> QED
    BY <1>1, <1>2, <1>3, <1>4, <2>1, ClosedUpwards
<1> QED
  BY <1>3, <1>4, <1>5 DEF DiskOK

\* The files of a directory are those of its entries.
LEMMA EntriesHoldFiles ==
  ASSUME DiskOK, NEW p \in Paths, At(p) = Dir
  PROVE  FilesUnder(p) = UNION {FilesUnder(c) : c \in Entries(p)}
<1>1. Content \cap {Dir, None} = {} /\ Dir # None
  BY MerkleAssumption
<1>2. ASSUME NEW q \in Path, Wanted(p, q) PROVE \E c \in Entries(p) : Wanted(c, q)
  <2>1. q # p /\ q \in Paths /\ disk[q] # None /\ disk[q] # Dir
    BY <1>1, <1>2, PathFacts DEF Wanted, At, Root
  <2> DEFINE c == Towards(p, q)
  <2>2. c \in Path /\ IsChild(c, p) /\ IsPrefix(c, q)
    BY <1>2, <2>1, TowardsIs DEF Wanted
  <2> HIDE DEF c
  <2>3. c \in Paths /\ Len(c) = Len(p) + 1 /\ Last(c) = c[Len(c)] /\ Len(p) \in Nat /\ Len(q) \in Nat
    BY <2>2, PathFacts, ChildFacts
  <2>4. Len(c) <= Len(q) /\ \A i \in 1 .. Len(c) : c[i] = q[i]
    BY <2>1, <2>2, <2>3, PrefixIs
  <2>5. Last(c) = q[Len(c)]
    BY <2>3, <2>4
  <2>6. CASE c = q
    <3>1. c \in Entries(p)
      BY <2>1, <2>2, <2>6 DEF Entries
    <3>2. Wanted(c, q)
      BY <1>2, <2>2, <2>3 DEF Wanted
    <3> QED
      BY <3>1, <3>2
  <2>7. CASE c # q
    <3>1. Len(c) # Len(q)
      BY <2>1, <2>2, <2>3, <2>7, PrefixOrder
    <3>2. Len(c) \in Len(p) + 1 .. Len(q) - 1
      BY <2>3, <2>4, <3>1
    <3>3. Last(c) \notin Skipped
      BY <1>2, <2>5, <3>2 DEF Wanted
    <3>4. At(c) = Dir
      BY <2>1, <2>2, <2>3, <2>7, AboveAreDirectories
    <3>5. disk[c] = Dir
      BY <2>2, <3>4, PathFacts DEF At
    <3>6. c \in Entries(p)
      BY <1>1, <2>2, <3>3, <3>5 DEF Entries
    <3>7. Wanted(c, q)
      BY <1>2, <2>2, <2>3 DEF Wanted
    <3> QED
      BY <3>6, <3>7
  <2> QED
    BY <2>6, <2>7
<1>3. ASSUME NEW c \in Entries(p), NEW q \in Path, Wanted(c, q) PROVE Wanted(p, q)
  <2>1. c \in Path /\ c \in Paths /\ q \in Paths /\ IsChild(c, p)
    BY PathFacts DEF Entries
  <2>2. /\ Len(c) = Len(p) + 1 /\ Last(c) = c[Len(c)] /\ Len(p) \in Nat /\ Len(q) \in Nat
        /\ IsPrefix(c, q) /\ IsPrefix(p, q)
    BY <1>3, <2>1, PathFacts, ChildFacts, BelowChild DEF Wanted
  <2>3. Len(c) <= Len(q) /\ \A i \in 1 .. Len(c) : c[i] = q[i]
    BY <2>1, <2>2, PrefixIs
  <2>4. ASSUME NEW i \in Len(p) + 1 .. Len(q) - 1 PROVE q[i] \notin Skipped
    <3>1. CASE i = Len(c)
      <4>1. c # q
        BY <2>2, <2>4, <3>1
      <4>2. disk[q] # None
        BY <1>1, <1>3 DEF Wanted
      <4>3. At(c) = Dir
        BY <2>1, <2>2, <4>1, <4>2, AboveAreDirectories
      <4>4. disk[c] = Dir
        BY <2>1, <4>3, PathFacts DEF At
      <4>5. Last(c) \notin Skipped
        BY <4>4 DEF Entries
      <4>6. q[i] = Last(c)
        BY <2>2, <2>3, <3>1
      <4> QED
        BY <4>5, <4>6
    <3>2. CASE i # Len(c)
      <4>1. i \in Len(c) + 1 .. Len(q) - 1
        BY <2>2, <3>2
      <4> QED
        BY <1>3, <4>1 DEF Wanted
    <3> QED
      BY <3>1, <3>2
  <2> QED
    BY <1>3, <2>2, <2>4 DEF Wanted
<1>4. ASSUME NEW e \in FilesUnder(p) PROVE \E c \in Entries(p) : e \in FilesUnder(c)
  BY <1>2 DEF FilesUnder
<1>5. ASSUME NEW c \in Entries(p), NEW e \in FilesUnder(c) PROVE e \in FilesUnder(p)
  BY <1>3 DEF FilesUnder
<1> QED
  BY <1>4, <1>5

\* Below anything but a directory there is nothing.
LEMMA NothingBelowFiles ==
  ASSUME DiskOK, NEW p \in Path, disk[p] # Dir
  PROVE  FilesUnder(p) = IF disk[p] \in Content /\ isIndexable(p)
                         THEN {<<p, HashOf[disk[p]]>>} ELSE {}
<1>1. Content \cap {Dir, None} = {} /\ p \in Paths /\ Len(p) \in Nat /\ IsPrefix(p, p)
  BY MerkleAssumption, PathFacts, PrefixOrder
<1>2. ASSUME NEW q \in Path, Wanted(p, q) PROVE q = p
  <2>1. SUFFICES ASSUME q # p PROVE FALSE
    OBVIOUS
  <2>2. At(p) = Dir
    BY <1>1, <1>2, <2>1, AboveAreDirectories DEF Wanted
  <2> QED
    BY <2>2, PathFacts DEF At
<1>3. ASSUME disk[p] \in Content, isIndexable(p) PROVE Wanted(p, p)
  BY <1>1, <1>3 DEF Wanted
<1>4. CASE disk[p] \in Content /\ isIndexable(p)
  BY <1>2, <1>3, <1>4 DEF FilesUnder
<1>5. CASE ~ (disk[p] \in Content /\ isIndexable(p))
  <2>1. ~ \E q \in Path : Wanted(p, q)
    BY <1>2, <1>5 DEF Wanted
  <2> QED
    BY <1>5, <2>1 DEF FilesUnder
<1> QED
  BY <1>4, <1>5

LEMMA SubtreesAreGood ==
  ASSUME DiskOK, NEW f, Builds(f)
  PROVE  \A p \in Paths : GoodUnder(p, f[p], FilesUnder(p))
<1>1. PICK k \in Nat : \A p \in Paths : Len(p) <= k
  BY PathsHaveDepth
<1>2. \A p \in Paths : Len(p) \in Nat
  BY PathFacts
<1> DEFINE Good(p) == GoodUnder(p, f[p], FilesUnder(p))
           S == {n \in Nat : \A p \in Paths : k < Len(p) + n => Good(p)}
<1>3. 0 \in S
  BY <1>1, <1>2
<1>4. ASSUME NEW n \in Nat, n \in S PROVE n + 1 \in S
  <2>1. SUFFICES ASSUME NEW p \in Paths, k < Len(p) + (n + 1) PROVE Good(p)
    OBVIOUS
  <2>2. f[p] = Subtree(p, f)
    BY DEF Builds
  <2>3. ASSUME NEW c \in Entries(p) PROVE c \in Path /\ IsChild(c, p) /\ Good(c)
    <3>1. c \in Path /\ IsChild(c, p)
      BY DEF Entries
    <3>2. c \in Paths /\ Len(c) = Len(p) + 1
      BY <3>1, PathFacts, ChildFacts
    <3>3. k < Len(c) + n
      BY <1>1, <1>2, <2>1, <3>2
    <3>4. Good(c)
      BY <1>4, <3>2, <3>3
    <3> QED
      BY <3>1, <3>4
  <2>4. CASE At(p) = Dir
    <3>1. PICK C : C = Entries(p)
      OBVIOUS
    <3>2. PICK F : F = [c \in C |-> FilesUnder(c)]
      OBVIOUS
    <3>3. \A c \in C : c \in Path /\ IsChild(c, p) /\ GoodUnder(c, f[c], F[c])
      BY <2>3, <3>1, <3>2
    <3>4. GoodUnder(p, Assembled(p, C, f), AllOf(C, F))
      BY <3>3, DirectoryIsGood
    <3>5. f[p] = Assembled(p, C, f)
      BY <2>2, <2>4, <3>1 DEF Subtree, Assembled, AllOf
    <3>6. {F[c] : c \in C} = {FilesUnder(c) : c \in Entries(p)}
      BY <3>1, <3>2
    <3>7. FilesUnder(p) = AllOf(C, F)
      BY <2>4, <3>6, EntriesHoldFiles DEF AllOf
    <3> QED
      BY <3>4, <3>5, <3>7
  <2>5. CASE At(p) # Dir
    <3>1. p \in Path /\ p # Root /\ disk[p] = At(p)
      BY <2>5 DEF At, Paths
    <3>2. CASE disk[p] \in Content /\ isIndexable(p)
      <4>1. f[p] = {[type |-> "file", path |-> p, hash |-> <<"file", HashOf[disk[p]]>>]}
        BY <2>2, <2>5, <3>1, <3>2 DEF Subtree, FileNode
      <4>2. FilesUnder(p) = {<<p, HashOf[disk[p]]>>}
        BY <2>5, <3>1, <3>2, NothingBelowFiles
      <4>3. PICK h : h = HashOf[disk[p]]
        OBVIOUS
      <4>4. GoodUnder(p, {[type |-> "file", path |-> p, hash |-> <<"file", h>>]}, {<<p, h>>})
        BY <3>1, FileIsGood
      <4> QED
        BY <4>1, <4>2, <4>3, <4>4
    <3>3. CASE ~ (disk[p] \in Content /\ isIndexable(p))
      <4>1. f[p] = {} /\ FilesUnder(p) = {}
        BY <2>2, <2>5, <3>1, <3>3, NothingBelowFiles DEF Subtree, Nil
      <4> QED
        BY <4>1, EmptyIsGood
    <3> QED
      BY <3>2, <3>3
  <2> QED
    BY <2>4, <2>5
<1>5. k + 1 \in S
  <2> HIDE DEF S
  <2>1. Nat \subseteq S
    BY <1>3, <1>4, NatInd
  <2> QED
    BY <2>1
<1>6. \A p \in Paths : k < Len(p) + (k + 1)
  BY <1>1, <1>2
<1> HIDE DEF Good
<1>7. \A p \in Paths : Good(p)
  BY <1>5, <1>6
<1> QED
  BY <1>7 DEF Good

\* A well-formed tree of the files fs.
GoodTree(t, fs) == GoodUnder(Root, t, fs)

LEMMA BuildIsGood ==
  ASSUME DiskOK
  PROVE  GoodTree(BuildMerkleTree, HashPairs)
<1>1. PICK f : Builds(f) /\ BuildMerkleTree = f[Root]
  BY BuildIs
<1>2. Root \in Paths /\ Len(Root) = 0
  BY PathFacts DEF Paths
<1>3. GoodUnder(Root, BuildMerkleTree, FilesUnder(Root))
  BY <1>1, <1>2, SubtreesAreGood
<1>4. ASSUME NEW q \in Path PROVE Wanted(Root, q) <=> q \in FilesNow
  BY <1>2, PathFacts, PrefixOrder DEF Wanted, FilesNow, InSkipped
<1>5. FilesUnder(Root) = HashPairs
  BY <1>4 DEF FilesUnder, HashPairs, HashesNow, FilesNow
<1> QED
  BY <1>3, <1>5 DEF GoodTree

-----------------------------------------------------------------------------
(***************************************************************************)
(* Looking nodes up in a well-formed tree, and what equal hashes say.      *)
(***************************************************************************)
LEMMA TreeFacts ==
  ASSUME NEW t, NEW fs, GoodTree(t, fs)
  PROVE  /\ \A m \in t : m.path \in Paths /\ m.type \in {"file", "directory"}
         /\ \A m, k \in t : m.path = k.path => m = k
         /\ \A m \in t : m.type = "file" => \E h : m.hash = <<"file", h>> /\ <<m.path, h>> \in fs
         /\ \A e \in fs :
              /\ e = <<e[1], e[2]>> /\ e[1] \in Paths
              /\ \E m \in t : m.type = "file" /\ m.path = e[1] /\ m.hash = <<"file", e[2]>>
         /\ \A m \in t : m.type = "directory" =>
              m.hash = <<"directory", {<<Last(k.path), k.hash>> : k \in Children(t, m.path)}>>
         /\ \A m \in t : m.path # Root => \E k \in t : k.type = "directory" /\ k.path = Front(m.path)
<1>1. \A e \in fs : e[1] \in Paths
  BY DEF GoodTree, GoodUnder, NodesOK, FilesHaveNodes
<1> QED
  BY <1>1 DEF GoodTree, GoodUnder, NodesOK, OneNodePerPath, FileNodesOK, FilesHaveNodes,
              DirectoriesOK, ParentsHaveNodes

\* A file is held with one hash.
LEMMA OneHashPerFile ==
  ASSUME NEW t, NEW fs, GoodTree(t, fs), NEW e \in fs, NEW d \in fs, e[1] = d[1]
  PROVE  e = d
<1>1. /\ e = <<e[1], e[2]>> /\ d = <<d[1], d[2]>>
      /\ \E m \in t : m.path = e[1] /\ m.hash = <<"file", e[2]>>
      /\ \E m \in t : m.path = d[1] /\ m.hash = <<"file", d[2]>>
      /\ \A m, k \in t : m.path = k.path => m = k
  BY DEF GoodTree, GoodUnder, FilesHaveNodes, OneNodePerPath
<1>2. <<"file", e[2]>> = <<"file", d[2]>>
  BY <1>1
<1>3. e[2] = d[2]
  BY <1>2
<1> QED
  BY <1>1, <1>3

\* Whatever is above a node has a node, a directory's unless it is the node itself.
LEMMA AboveNodes ==
  ASSUME NEW t, NEW fs, GoodTree(t, fs), NEW m \in t, NEW p \in Paths, IsPrefix(p, m.path)
  PROVE  /\ \E k \in t : k.path = p
         /\ p # m.path => \E k \in t : k.path = p /\ k.type = "directory"
<1>1. /\ \A k \in t : k.path \in Paths
      /\ \A k \in t : k.path # Root => \E j \in t : j.type = "directory" /\ j.path = Front(k.path)
  BY TreeFacts
<1> DEFINE X == {k.path : k \in t}
<1>2. X \subseteq Paths /\ m.path \in X /\ \A x \in X : x # Root => Front(x) \in X
  BY <1>1
<1>3. ASSUME NEW q \in Paths, IsPrefix(q, m.path) PROVE \E k \in t : k.path = q
  <2>1. q \in X
    <3> HIDE DEF X
    <3> QED
      BY <1>2, <1>3, ClosedUpwards
  <2> QED
    BY <2>1
<1>4. ASSUME p # m.path PROVE \E k \in t : k.path = p /\ k.type = "directory"
  <2> DEFINE c == Towards(p, m.path)
  <2>1. c \in Path /\ IsChild(c, p) /\ IsPrefix(c, m.path)
    BY <1>1, <1>4, TowardsIs
  <2> HIDE DEF c
  <2>2. c \in Paths /\ c # Root /\ Front(c) = p
    BY <2>1, PathFacts DEF IsChild
  <2>3. PICK k \in t : k.path = c
    BY <1>3, <2>1, <2>2
  <2> QED
    BY <1>1, <2>2, <2>3
<1> QED
  BY <1>3, <1>4

\* The children of a node that has some are the members of its hash.
LEMMA ChildrenAreHashed ==
  ASSUME NEW t, NEW fs, GoodTree(t, fs), NEW u, NEW gs, GoodTree(u, gs),
         NEW m \in t, NEW n \in u, m.path = n.path, m.hash = n.hash,
         NEW k \in t, IsChild(k.path, m.path)
  PROVE  \E j \in u : j.path = k.path /\ j.hash = k.hash
<1>1. m.type = "directory" /\ k.path \in Paths
  <2>1. k.path # Root /\ Front(k.path) = m.path
    BY DEF IsChild
  <2> QED
    BY <2>1, TreeFacts
<1>2. m.hash = <<"directory", {<<Last(j.path), j.hash>> : j \in Children(t, m.path)}>>
  BY <1>1, TreeFacts
<1>3. n.type = "directory"
  <2>1. SUFFICES ASSUME n.type = "file" PROVE FALSE
    BY TreeFacts
  <2>2. PICK h : n.hash = <<"file", h>>
    BY <2>1 DEF GoodTree, GoodUnder, FileNodesOK
  <2>3. \A a, b : <<"file", a>> # <<"directory", b>>
    OBVIOUS
  <2> QED
    BY <1>2, <2>2, <2>3
<1>4. n.hash = <<"directory", {<<Last(j.path), j.hash>> : j \in Children(u, n.path)}>>
  BY <1>3, TreeFacts
<1>5. {<<Last(j.path), j.hash>> : j \in Children(t, m.path)}
        = {<<Last(j.path), j.hash>> : j \in Children(u, n.path)}
  <2>1. \A a, b : <<"directory", a>> = <<"directory", b>> => a = b
    OBVIOUS
  <2> QED
    BY <1>2, <1>4, <2>1
<1>6. k \in Children(t, m.path)
  BY DEF Children
<1>7. PICK j \in Children(u, n.path) : <<Last(j.path), j.hash>> = <<Last(k.path), k.hash>>
  BY <1>5, <1>6
<1>8. j \in u /\ IsChild(j.path, m.path) /\ Last(j.path) = Last(k.path) /\ j.hash = k.hash
  BY <1>7 DEF Children
<1>9. j.path \in Paths
  BY <1>8, TreeFacts
<1>10. j.path = k.path
  BY <1>1, <1>8, <1>9, SameChild
<1> QED
  BY <1>8, <1>10

\* Equal hashes: the same files below, with the same hashes.
LEMMA EqualHashes ==
  ASSUME NEW t, NEW fs, GoodTree(t, fs), NEW u, NEW gs, GoodTree(u, gs),
         NEW m \in t, NEW n \in u, m.path = n.path, m.hash = n.hash,
         NEW e \in fs, IsPrefix(m.path, e[1])
  PROVE  e \in gs
<1> PICK q : q = e[1]
  OBVIOUS
<1> PICK p : p = m.path
  OBVIOUS
<1>1. /\ e = <<q, e[2]>> /\ q \in Paths /\ p \in Paths
      /\ \A k \in t : k.path \in Paths
      /\ \A k, j \in t : k.path = j.path => k = j
  BY TreeFacts
<1>2. PICK f \in t : f.type = "file" /\ f.path = q /\ f.hash = <<"file", e[2]>>
  BY DEF GoodTree, GoodUnder, FilesHaveNodes
<1>3. Len(p) \in Nat /\ Len(q) \in Nat /\ Len(p) <= Len(q)
  BY <1>1, PathFacts, PrefixIs
<1> PICK l : l = Len(p)
  OBVIOUS
<1> DEFINE Meets(r) == \E k \in t, j \in u : k.path = r /\ j.path = r /\ k.hash = j.hash
           S == {i \in Nat : \A r \in Paths : IsPrefix(r, q) /\ Len(r) = l + i => Meets(r)}
<1>4. 0 \in S
  <2>1. SUFFICES ASSUME NEW r \in Paths, IsPrefix(r, q), Len(r) = Len(p) PROVE r = p
    BY <1>3
  <2>2. \A i \in 1 .. Len(r) : r[i] = q[i]
    BY <1>1, <2>1, PrefixIs
  <2>3. \A i \in 1 .. Len(p) : p[i] = q[i]
    BY <1>1, PrefixIs
  <2> QED
    BY <1>1, <2>1, <2>2, <2>3, SamePath
<1>5. ASSUME NEW i \in Nat, i \in S PROVE i + 1 \in S
  <2> HIDE DEF Meets
  <2>1. SUFFICES ASSUME NEW r \in Paths, IsPrefix(r, q), Len(r) = l + (i + 1) PROVE Meets(r)
    <3>1. i + 1 \in Nat
      BY ONLY i \in Nat
    <3> QED
      BY <3>1
  <2>2. r \in Path
    <3>1. l \in Nat
      BY <1>3
    <3>2. l + (i + 1) # 0
      BY ONLY <3>1, i \in Nat
    <3> QED
      BY <2>1, <3>2, PathFacts DEF Paths
  <2>3. /\ Front(r) \in Paths /\ Len(Front(r)) = l + i /\ IsChild(r, Front(r))
        /\ IsPrefix(Front(r), r)
    <3>1. IsChild(r, Front(r))
      BY <2>2, PathFacts DEF IsChild
    <3>2. Front(r) \in Paths /\ Len(r) = Len(Front(r)) + 1 /\ IsPrefix(Front(r), r)
      BY <3>1, ChildFacts
    <3>3. Len(Front(r)) \in Nat /\ l \in Nat
      BY <1>3, <3>2, PathFacts
    <3>4. Len(Front(r)) = l + i
      BY ONLY <2>1, <3>2, <3>3, i \in Nat
    <3> QED
      BY <3>1, <3>2, <3>4
  <2>4. IsPrefix(Front(r), q)
    BY <1>1, <2>1, <2>3, PrefixOrder
  <2>5. Meets(Front(r))
    BY <1>5, <2>3, <2>4
  <2>6. PICK k \in t, j \in u : k.path = Front(r) /\ j.path = Front(r) /\ k.hash = j.hash
    BY <2>5 DEF Meets
  <2>7. PICK b \in t : b.path = r
    BY <1>2, <2>1, AboveNodes
  <2>8. PICK d \in u : d.path = b.path /\ d.hash = b.hash
    BY <2>3, <2>6, <2>7, ChildrenAreHashed
  <2> QED
    BY <2>7, <2>8 DEF Meets
<1>6. PICK i \in Nat : Len(q) = l + i
  <2>1. Len(q) - Len(p) \in Nat /\ Len(q) = Len(p) + (Len(q) - Len(p))
    BY ONLY <1>3
  <2> QED
    BY <2>1
<1>7. IsPrefix(q, q) /\ i \in S
  <2> HIDE DEF S
  <2>1. Nat \subseteq S
    BY <1>4, <1>5, NatInd
  <2> QED
    BY <1>1, <2>1, PrefixOrder
<1>8. Meets(q)
  BY <1>1, <1>6, <1>7
<1>9. PICK k \in t, j \in u : k.path = q /\ j.path = q /\ k.hash = j.hash
  BY <1>8
<1>10. j.hash = <<"file", e[2]>>
  BY <1>1, <1>2, <1>9
<1>11. \A a, b : <<"file", a>> # <<"directory", b>> /\ (<<"file", a>> = <<"file", b>> => a = b)
  OBVIOUS
<1>12. j.type = "file"
  <2>1. SUFFICES ASSUME j.type = "directory" PROVE FALSE
    BY TreeFacts
  <2>2. \E b : j.hash = <<"directory", b>>
    BY <2>1, TreeFacts
  <2> QED
    BY <1>10, <1>11, <2>2
<1>13. PICK h : j.hash = <<"file", h>> /\ <<j.path, h>> \in gs
  BY <1>12 DEF GoodTree, GoodUnder, FileNodesOK
<1> QED
  BY <1>1, <1>9, <1>10, <1>11, <1>13

-----------------------------------------------------------------------------
(***************************************************************************)
(* The difference of two well-formed trees at and below p, as that of the  *)
(* files they hold.                                                        *)
(***************************************************************************)
Under(p, fs) == {q \in FilesIn(fs) : IsPrefix(p, q)}

Changes(fs, gs) == {q \in FilesIn(fs) : \E e \in gs \ fs : e[1] = q}

FlatDiff(p, fs, gs) ==
  Diff(Under(p, gs) \ FilesIn(fs), Under(p, fs) \cap Changes(fs, gs), Under(p, fs) \ FilesIn(gs))

LEMMA FileNodeOf ==
  ASSUME NEW t, NEW fs, GoodTree(t, fs), NEW q \in FilesIn(fs)
  PROVE  q \in Paths /\ \E m \in t : m.path = q /\ m.type = "file"
<1>1. PICK e \in fs : q = e[1]
  BY DEF FilesIn
<1>2. \E m \in t : m.type = "file" /\ m.path = e[1]
  BY DEF GoodTree, GoodUnder, FilesHaveNodes
<1> QED
  BY <1>1, <1>2 DEF GoodTree, GoodUnder, NodesOK

LEMMA CollectsUnder ==
  ASSUME NEW t, NEW fs, GoodTree(t, fs), NEW p
  PROVE  collectFiles(t, p) = Under(p, fs)
<1>1. ASSUME NEW q \in collectFiles(t, p) PROVE q \in Under(p, fs)
  <2>1. PICK m \in t : m.type = "file" /\ m.path = q /\ IsPrefix(p, q)
    BY DEF collectFiles
  <2>2. PICK h : <<q, h>> \in fs
    BY <2>1 DEF GoodTree, GoodUnder, FileNodesOK
  <2>3. <<q, h>>[1] = q
    OBVIOUS
  <2>4. q \in FilesIn(fs)
    BY <2>2, <2>3 DEF FilesIn
  <2> QED
    BY <2>1, <2>4 DEF Under
<1>2. ASSUME NEW q \in Under(p, fs) PROVE q \in collectFiles(t, p)
  BY FileNodeOf DEF Under, collectFiles
<1> QED
  BY <1>1, <1>2

LEMMA NothingUnderNoNode ==
  ASSUME NEW t, NEW fs, GoodTree(t, fs), NEW p \in Paths, ~ HasNode(t, p)
  PROVE  Under(p, fs) = {}
<1>1. ASSUME NEW q \in Under(p, fs) PROVE FALSE
  <2>1. PICK m \in t : m.path = q
    BY FileNodeOf DEF Under
  <2>2. IsPrefix(p, m.path)
    BY <2>1 DEF Under
  <2> QED
    BY <2>2, AboveNodes DEF HasNode
<1> QED
  BY <1>1

\* Under a directory's node, every file is under one of the children's.
LEMMA UnderDirectory ==
  ASSUME NEW t, NEW fs, GoodTree(t, fs), NEW m \in t, m.type = "directory", NEW q \in Under(m.path, fs)
  PROVE  /\ Towards(m.path, q) \in {k.path : k \in Children(t, m.path)}
         /\ q \in Under(Towards(m.path, q), fs)
<1> PICK p : p = m.path
  OBVIOUS
<1>1. PICK k \in t : k.path = q /\ k.type = "file"
  BY FileNodeOf DEF Under
<1>2. p \in Paths /\ q \in Paths /\ IsPrefix(p, q) /\ q \in FilesIn(fs)
  BY <1>1, TreeFacts DEF Under
<1>3. p # q
  BY <1>1, TreeFacts
<1> DEFINE c == Towards(p, q)
<1>4. c \in Path /\ IsChild(c, p) /\ IsPrefix(c, q)
  BY <1>2, <1>3, TowardsIs
<1> HIDE DEF c
<1>5. c \in Paths
  BY <1>4, PathFacts
<1>6. PICK j \in t : j.path = c
  BY <1>1, <1>4, <1>5, AboveNodes
<1>7. j \in Children(t, p)
  BY <1>4, <1>6 DEF Children
<1> QED
  BY <1>2, <1>4, <1>6, <1>7 DEF Under, c

\* Under a file's node, there is that file and no other.
LEMMA UnderFile ==
  ASSUME NEW t, NEW fs, GoodTree(t, fs), NEW m \in t, m.type = "file"
  PROVE  Under(m.path, fs) = {m.path}
<1>1. m.path \in Paths
  BY TreeFacts
<1>2. ASSUME NEW q \in Under(m.path, fs) PROVE q = m.path
  <2>1. SUFFICES ASSUME q # m.path PROVE FALSE
    OBVIOUS
  <2>2. PICK k \in t : k.path = q
    BY FileNodeOf DEF Under
  <2>3. IsPrefix(m.path, k.path)
    BY <2>2 DEF Under
  <2>4. PICK j \in t : j.path = m.path /\ j.type = "directory"
    BY <1>1, <2>1, <2>2, <2>3, AboveNodes
  <2>5. j = m
    BY <2>4, TreeFacts
  <2> QED
    BY <2>4, <2>5
<1>3. m.path \in Under(m.path, fs)
  <2>1. m.path \in collectFiles(t, m.path)
    BY <1>1, PrefixOrder DEF collectFiles
  <2> QED
    BY <2>1, CollectsUnder
<1> QED
  BY <1>2, <1>3

LEMMA NoFileAtDirectory ==
  ASSUME NEW t, NEW fs, GoodTree(t, fs), NEW m \in t, m.type = "directory"
  PROVE  m.path \notin FilesIn(fs)
<1>1. SUFFICES ASSUME m.path \in FilesIn(fs) PROVE FALSE
  OBVIOUS
<1>2. PICK k \in t : k.path = m.path /\ k.type = "file"
  BY <1>1, FileNodeOf
<1>3. k = m
  BY <1>2, TreeFacts
<1> QED
  BY <1>2, <1>3

\* Nothing to report under nodes with the same hash.
LEMMA SameHashSameFiles ==
  ASSUME NEW t, NEW fs, GoodTree(t, fs), NEW u, NEW gs, GoodTree(u, gs),
         NEW m \in t, NEW n \in u, m.path = n.path, m.hash = n.hash
  PROVE  FlatDiff(m.path, fs, gs) = Diff({}, {}, {})
<1>1. \A e \in fs : IsPrefix(m.path, e[1]) => e \in gs
  BY EqualHashes
<1>2. \A e \in gs : IsPrefix(m.path, e[1]) => e \in fs
  BY EqualHashes
<1>3. Under(m.path, gs) \ FilesIn(fs) = {}
  BY <1>2 DEF Under, FilesIn
<1>4. Under(m.path, fs) \ FilesIn(gs) = {}
  BY <1>1 DEF Under, FilesIn
<1>5. Under(m.path, fs) \cap Changes(fs, gs) = {}
  BY <1>2 DEF Under, Changes
<1> QED
  BY <1>3, <1>4, <1>5 DEF FlatDiff

\* A file on one side and a directory on the other have no file in common.
LEMMA FileAgainstDirectory ==
  ASSUME NEW t, NEW fs, GoodTree(t, fs), NEW u, NEW gs, GoodTree(u, gs),
         NEW m \in t, NEW n \in u, m.path = n.path, m.type # n.type
  PROVE  FlatDiff(m.path, fs, gs) = Diff(Under(m.path, gs), {}, Under(m.path, fs))
<1>1. Under(m.path, fs) \cap FilesIn(gs) = {} /\ Under(m.path, gs) \cap FilesIn(fs) = {}
  <2>1. CASE m.type = "file"
    <3>1. n.type = "directory"
      BY <2>1, TreeFacts
    <3>2. Under(m.path, fs) = {m.path} /\ n.path \notin FilesIn(gs)
      BY <2>1, <3>1, UnderFile, NoFileAtDirectory
    <3> QED
      BY <3>2 DEF Under
  <2>2. CASE n.type = "file"
    <3>1. m.type = "directory"
      BY <2>2, TreeFacts
    <3>2. Under(n.path, gs) = {n.path} /\ m.path \notin FilesIn(fs)
      BY <2>2, <3>1, UnderFile, NoFileAtDirectory
    <3> QED
      BY <3>2 DEF Under
  <2> QED
    BY <2>1, <2>2, TreeFacts
<1>2. Changes(fs, gs) \subseteq FilesIn(gs)
  BY DEF Changes, FilesIn
<1> QED
  BY <1>1, <1>2 DEF FlatDiff

LEMMA FileAgainstFile ==
  ASSUME NEW t, NEW fs, GoodTree(t, fs), NEW u, NEW gs, GoodTree(u, gs),
         NEW m \in t, NEW n \in u, m.path = n.path, m.type = "file", n.type = "file",
         m.hash # n.hash
  PROVE  FlatDiff(m.path, fs, gs) = Diff({}, {m.path}, {})
<1> PICK p : p = m.path
  OBVIOUS
<1>1. Under(p, fs) = {p} /\ Under(p, gs) = {p}
  BY UnderFile
<1>2. p \in FilesIn(fs) /\ p \in FilesIn(gs)
  BY <1>1 DEF Under
<1>3. PICK h : n.hash = <<"file", h>> /\ <<p, h>> \in gs
  BY DEF GoodTree, GoodUnder, FileNodesOK
<1>4. <<p, h>> \notin fs
  <2>1. SUFFICES ASSUME <<p, h>> \in fs PROVE FALSE
    OBVIOUS
  <2>2. <<p, h>>[1] = p /\ <<p, h>>[2] = h
    OBVIOUS
  <2>3. PICK k \in t : k.path = p /\ k.hash = <<"file", h>>
    BY <2>1, <2>2 DEF GoodTree, GoodUnder, FilesHaveNodes
  <2>4. k = m
    BY <2>3, TreeFacts
  <2> QED
    BY <1>3, <2>3, <2>4
<1>5. p \in Changes(fs, gs)
  <2>1. <<p, h>> \in gs \ fs /\ <<p, h>>[1] = p
    BY <1>3, <1>4
  <2> QED
    BY <1>2, <2>1 DEF Changes
<1> QED
  BY <1>1, <1>2, <1>5 DEF FlatDiff

\* Two directories: the differences of what either has below.
LEMMA DirectoryAgainstDirectory ==
  ASSUME NEW t, NEW fs, GoodTree(t, fs), NEW u, NEW gs, GoodTree(u, gs),
         NEW m \in t, NEW n \in u, m.path = n.path, m.type = "directory", n.type = "directory",
         NEW D, \A c \in EitherHas(t, u, m.path) : D[c] = FlatDiff(c, fs, gs)
  PROVE  LET sub == {D[c] : c \in EitherHas(t, u, m.path)}
         IN  FlatDiff(m.path, fs, gs) = Diff(UNION {d.added : d \in sub},
                                             UNION {d.modified : d \in sub},
                                             UNION {d.deleted : d \in sub})
<1> PICK p : p = m.path
  OBVIOUS
<1> PICK C : C = EitherHas(t, u, m.path)
  OBVIOUS
<1>1. \A c \in C : IsChild(c, p) /\ c \in Paths
  BY TreeFacts DEF EitherHas, Children
<1>2. ASSUME NEW q \in Under(p, fs) PROVE \E c \in C : q \in Under(c, fs)
  BY <1>2, UnderDirectory DEF EitherHas
<1>3. ASSUME NEW q \in Under(p, gs) PROVE \E c \in C : q \in Under(c, gs)
  BY <1>3, UnderDirectory DEF EitherHas
<1>4. ASSUME NEW c \in C, NEW q \in Under(c, fs) PROVE q \in Under(p, fs)
  BY <1>1, FileNodeOf, BelowChild DEF Under
<1>5. ASSUME NEW c \in C, NEW q \in Under(c, gs) PROVE q \in Under(p, gs)
  BY <1>1, FileNodeOf, BelowChild DEF Under
<1>6. \A c \in C : D[c].added = Under(c, gs) \ FilesIn(fs)
                   /\ D[c].modified = Under(c, fs) \cap Changes(fs, gs)
                   /\ D[c].deleted = Under(c, fs) \ FilesIn(gs)
  <2>1. TAKE c \in C
  <2>2. D[c] = FlatDiff(c, fs, gs)
    <3>1. c \in EitherHas(t, u, m.path)
      OBVIOUS
    <3> QED
      BY <3>1
  <2>3. FlatDiff(c, fs, gs).added = Under(c, gs) \ FilesIn(fs)
        /\ FlatDiff(c, fs, gs).modified = Under(c, fs) \cap Changes(fs, gs)
        /\ FlatDiff(c, fs, gs).deleted = Under(c, fs) \ FilesIn(gs)
    BY DEF FlatDiff, Diff
  <2> QED
    BY <2>2, <2>3
<1> DEFINE sub == {D[c] : c \in C}
<1>7. UNION {d.added : d \in sub} = Under(p, gs) \ FilesIn(fs)
  <2>1. ASSUME NEW d \in sub, NEW q \in d.added PROVE q \in Under(p, gs) \ FilesIn(fs)
    BY <1>5, <1>6
  <2>2. ASSUME NEW q \in Under(p, gs) \ FilesIn(fs) PROVE \E d \in sub : q \in d.added
    BY <1>3, <1>6
  <2> HIDE DEF sub
  <2> QED
    BY <2>1, <2>2
<1>8. UNION {d.modified : d \in sub} = Under(p, fs) \cap Changes(fs, gs)
  <2>1. ASSUME NEW d \in sub, NEW q \in d.modified PROVE q \in Under(p, fs) \cap Changes(fs, gs)
    BY <1>4, <1>6
  <2>2. ASSUME NEW q \in Under(p, fs) \cap Changes(fs, gs) PROVE \E d \in sub : q \in d.modified
    BY <1>2, <1>6
  <2> HIDE DEF sub
  <2> QED
    BY <2>1, <2>2
<1>9. UNION {d.deleted : d \in sub} = Under(p, fs) \ FilesIn(gs)
  <2>1. ASSUME NEW d \in sub, NEW q \in d.deleted PROVE q \in Under(p, fs) \ FilesIn(gs)
    BY <1>4, <1>6
  <2>2. ASSUME NEW q \in Under(p, fs) \ FilesIn(gs) PROVE \E d \in sub : q \in d.deleted
    BY <1>2, <1>6
  <2> HIDE DEF sub
  <2> QED
    BY <2>1, <2>2
<1> QED
  BY <1>7, <1>8, <1>9 DEF FlatDiff

LEMMA DiffAtIsFlat ==
  ASSUME NEW t, NEW fs, GoodTree(t, fs), NEW u, NEW gs, GoodTree(u, gs), NEW p \in Paths,
         NEW D, \A c \in Path : IsChild(c, p) => D[c] = FlatDiff(c, fs, gs)
  PROVE  DiffAt(t, u, p, D) = FlatDiff(p, fs, gs)
<1>1. collectFiles(t, p) = Under(p, fs) /\ collectFiles(u, p) = Under(p, gs)
  BY CollectsUnder
<1>2. Under(p, fs) \subseteq FilesIn(fs) /\ Under(p, gs) \subseteq FilesIn(gs)
      /\ Changes(fs, gs) \subseteq FilesIn(fs) \cap FilesIn(gs)
  BY DEF Under, Changes, FilesIn
<1>3. \A q \in FilesIn(fs) \cap FilesIn(gs) : q \in Under(p, fs) <=> q \in Under(p, gs)
  BY DEF Under
<1>4. CASE ~ HasNode(t, p)
  <2>1. Under(p, fs) = {}
    BY <1>4, NothingUnderNoNode
  <2>2. FlatDiff(p, fs, gs) = Diff(Under(p, gs), {}, {})
    <3>1. Under(p, gs) \ FilesIn(fs) = Under(p, gs)
      BY <1>2, <1>3, <2>1
    <3> QED
      BY <2>1, <3>1 DEF FlatDiff
  <2> QED
    BY <1>1, <1>4, <2>2 DEF DiffAt
<1>5. CASE HasNode(t, p) /\ ~ HasNode(u, p)
  <2>1. Under(p, gs) = {}
    BY <1>5, NothingUnderNoNode
  <2>2. FlatDiff(p, fs, gs) = Diff({}, {}, Under(p, fs))
    <3>1. Under(p, fs) \ FilesIn(gs) = Under(p, fs) /\ Under(p, fs) \cap Changes(fs, gs) = {}
      BY <1>2, <1>3, <2>1
    <3> QED
      BY <2>1, <3>1 DEF FlatDiff
  <2> QED
    BY <1>1, <1>5, <2>2 DEF DiffAt
<1>6. CASE HasNode(t, p) /\ HasNode(u, p)
  <2>1. PICK old : old = NodeAt(t, p)
    OBVIOUS
  <2>2. PICK new : new = NodeAt(u, p)
    OBVIOUS
  <2>3. old \in t /\ old.path = p /\ new \in u /\ new.path = p
    BY <1>6, <2>1, <2>2 DEF HasNode, NodeAt
  <2>4. old.type \in {"file", "directory"} /\ new.type \in {"file", "directory"}
    BY <2>3, TreeFacts
  <2> DEFINE sub == {D[q] : q \in EitherHas(t, u, p)}
             all == Diff(UNION {d.added : d \in sub}, UNION {d.modified : d \in sub},
                         UNION {d.deleted : d \in sub})
  <2>5. DiffAt(t, u, p, D) =
          IF old.hash = new.hash THEN Diff({}, {}, {})
          ELSE IF old.type # new.type
          THEN Diff(collectFiles(u, p), {}, collectFiles(t, p))
          ELSE IF new.type = "file" THEN Diff({}, {p}, {}) ELSE all
    BY <1>6, <2>1, <2>2 DEF DiffAt
  <2>6. CASE old.hash = new.hash
    <3>1. FlatDiff(p, fs, gs) = Diff({}, {}, {})
      BY <2>3, <2>6, SameHashSameFiles
    <3> QED
      BY <2>5, <2>6, <3>1
  <2>7. CASE old.hash # new.hash /\ old.type # new.type
    <3>1. FlatDiff(p, fs, gs) = Diff(Under(p, gs), {}, Under(p, fs))
      BY <2>3, <2>7, FileAgainstDirectory
    <3> QED
      BY <1>1, <2>5, <2>7, <3>1
  <2>8. CASE old.hash # new.hash /\ old.type = "file" /\ new.type = "file"
    <3>1. FlatDiff(p, fs, gs) = Diff({}, {p}, {})
      BY <2>3, <2>8, FileAgainstFile
    <3> QED
      BY <2>5, <2>8, <3>1
  <2>9. CASE old.hash # new.hash /\ old.type = "directory" /\ new.type = "directory"
    <3>1. \A c \in EitherHas(t, u, p) : c \in Path /\ IsChild(c, p)
      BY TreeFacts DEF EitherHas, Children, IsChild, Paths
    <3>2. \A c \in EitherHas(t, u, old.path) : D[c] = FlatDiff(c, fs, gs)
      BY <2>3, <3>1
    <3>3. FlatDiff(p, fs, gs) = all
      <4> HIDE DEF all
      <4>1. FlatDiff(old.path, fs, gs) =
              Diff(UNION {d.added : d \in {D[c] : c \in EitherHas(t, u, old.path)}},
                   UNION {d.modified : d \in {D[c] : c \in EitherHas(t, u, old.path)}},
                   UNION {d.deleted : d \in {D[c] : c \in EitherHas(t, u, old.path)}})
        BY <2>3, <2>9, <3>2, DirectoryAgainstDirectory
      <4> QED
        BY <2>3, <4>1 DEF all
    <3> HIDE DEF all
    <3> QED
      BY <2>5, <2>9, <3>3
  <2> HIDE DEF all
  <2> QED
    BY <2>4, <2>6, <2>7, <2>8, <2>9
<1> QED
  BY <1>4, <1>5, <1>6

\* DiffTrees, of two well-formed trees.
LEMMA DiffTreesIsFlat ==
  ASSUME NEW t, NEW fs, GoodTree(t, fs), NEW u, NEW gs, GoodTree(u, gs)
  PROVE  DiffTrees(t, u) = Diff(FilesIn(gs) \ FilesIn(fs), Changes(fs, gs), FilesIn(fs) \ FilesIn(gs))
<1>1. \A m \in t \cup u : m.path \in Paths
  BY TreeFacts
<1>2. PICK D : Diffs(t, u, D) /\ DiffTrees(t, u) = D[Root]
  BY <1>1, DiffIs
<1>3. PICK k \in Nat : \A p \in Paths : Len(p) <= k
  BY PathsHaveDepth
<1>4. \A p \in Paths : Len(p) \in Nat
  BY PathFacts
<1> DEFINE Level(p) == D[p] = FlatDiff(p, fs, gs)
           S == {n \in Nat : \A p \in Paths : k < Len(p) + n => Level(p)}
<1>5. 0 \in S
  BY <1>3, <1>4
<1>6. ASSUME NEW n \in Nat, n \in S PROVE n + 1 \in S
  <2>1. SUFFICES ASSUME NEW p \in Paths, k < Len(p) + (n + 1) PROVE Level(p)
    OBVIOUS
  <2>2. ASSUME NEW c \in Path, IsChild(c, p) PROVE Level(c)
    <3>1. c \in Paths /\ Len(c) = Len(p) + 1
      BY <2>2, PathFacts, ChildFacts
    <3>2. k < Len(c) + n
      BY <1>3, <1>4, <2>1, <3>1
    <3> QED
      BY <1>6, <3>1, <3>2
  <2>3. D[p] = DiffAt(t, u, p, D)
    BY <1>2 DEF Diffs
  <2>4. DiffAt(t, u, p, D) = FlatDiff(p, fs, gs)
    BY <2>2, DiffAtIsFlat
  <2> QED
    BY <2>3, <2>4
<1>7. k + 1 \in S
  <2> HIDE DEF S
  <2>1. Nat \subseteq S
    BY <1>5, <1>6, NatInd
  <2> QED
    BY <2>1
<1>8. Root \in Paths /\ k < Len(Root) + (k + 1)
  BY <1>4, <1>3 DEF Paths
<1>9. D[Root] = FlatDiff(Root, fs, gs)
  BY <1>7, <1>8
<1>10. \A q \in FilesIn(fs) \cup FilesIn(gs) : IsPrefix(Root, q)
  BY FileNodeOf, PrefixOrder
<1>11. Under(Root, fs) = FilesIn(fs) /\ Under(Root, gs) = FilesIn(gs)
       /\ Changes(fs, gs) \subseteq FilesIn(fs)
  BY <1>10 DEF Under, Changes
<1>12. FilesIn(fs) \cap Changes(fs, gs) = Changes(fs, gs)
  BY <1>11
<1> QED
  BY <1>2, <1>9, <1>11, <1>12 DEF FlatDiff

-----------------------------------------------------------------------------
(***************************************************************************)
(* What is stored and what is recorded go together.                        *)
(***************************************************************************)
TreeInv == DiskOK /\ GoodTree(stored, recorded)

LEMMA PairsNow ==
  /\ FilesIn(HashPairs) = FilesNow
  /\ \A p \in FilesNow : <<p, HashOf[disk[p]]>> \in HashPairs /\ HashesNow[p] = HashOf[disk[p]]
  /\ \A e \in HashPairs : e[1] \in FilesNow /\ e = <<e[1], HashOf[disk[e[1]]]>>
<1>1. \A p \in FilesNow : HashesNow[p] = HashOf[disk[p]]
  BY DEF HashesNow
<1>2. ASSUME NEW e \in HashPairs PROVE e[1] \in FilesNow /\ e = <<e[1], HashOf[disk[e[1]]]>>
  <2>1. PICK p \in FilesNow : e = <<p, HashesNow[p]>>
    BY DEF HashPairs
  <2>2. e[1] = p
    BY <2>1
  <2> QED
    BY <1>1, <2>1, <2>2
<1>3. ASSUME NEW p \in FilesNow PROVE <<p, HashOf[disk[p]]>> \in HashPairs /\ p \in FilesIn(HashPairs)
  <2>1. <<p, HashOf[disk[p]]>> \in HashPairs
    BY <1>1 DEF HashPairs
  <2>2. <<p, HashOf[disk[p]]>>[1] = p
    OBVIOUS
  <2> QED
    BY <2>1, <2>2 DEF FilesIn
<1>4. \A q \in FilesIn(HashPairs) : q \in FilesNow
  BY <1>2 DEF FilesIn
<1> QED
  BY <1>1, <1>2, <1>3, <1>4

\* No tree, no files.
LEMMA NoTreeNoFiles ==
  ASSUME NEW fs, GoodTree(Nil, fs)
  PROVE  fs = {}
  BY DEF GoodTree, GoodUnder, FilesHaveNodes, Nil

\* Either way the new tree is stored and its files are recorded.
LEMMA UpdateIsExact ==
  ASSUME TreeInv, UpdateIndex
  PROVE  recorded' = HashPairs /\ stored' = BuildMerkleTree /\ disk' = disk
<1>1. CASE UpdateEmpty
  <2>1. HashPairs = {}
    BY <1>1, BuildIsGood, NoTreeNoFiles DEF TreeInv, UpdateEmpty
  <2> QED
    BY <1>1, <2>1 DEF UpdateEmpty
<1>2. CASE UpdateChanged
  BY <1>2 DEF UpdateChanged
<1> QED
  BY <1>1, <1>2 DEF UpdateIndex

\* Above whatever exists there are directories, also after a write.
LEMMA ParentsStay ==
  ASSUME DiskOK, NEW p \in Path, NEW x \in Content \cup {Dir}, HasParent(p),
         disk[p] # Dir, disk' = [disk EXCEPT ![p] = x]
  PROVE  DiskOK'
<1>1. disk' \in [Path -> Content \cup {Dir, None}]
  BY DEF DiskOK
<1>2. ASSUME NEW q \in Path, disk'[q] # None PROVE At(Front(q))' = Dir
  <2>1. Front(q) \in Paths
    BY FrontFacts
  <2>2. At(Front(q)) = Dir
    BY <1>2 DEF DiskOK, HasParent
  <2>3. Front(q) # p
    BY <2>2, PathFacts DEF At
  <2> QED
    BY <2>1, <2>2, <2>3 DEF At, DiskOK, Paths
<1> QED
  BY <1>1, <1>2 DEF DiskOK

\* RemoveAll leaves nothing in what it removes.
LEMMA NoOrphans ==
  ASSUME DiskOK, NEW p \in Path, RemoveAll(p)
  PROVE  DiskOK'
<1>1. disk' = [q \in Path |-> IF IsPrefix(p, q) THEN None ELSE disk[q]]
  BY DEF RemoveAll
<1>2. disk' \in [Path -> Content \cup {Dir, None}]
  BY <1>1 DEF DiskOK
<1>3. ASSUME NEW q \in Path, disk'[q] # None PROVE At(Front(q))' = Dir
  <2>1. ~ IsPrefix(p, q) /\ disk[q] # None
    BY <1>1, <1>3
  <2>2. At(Front(q)) = Dir
    BY <2>1 DEF DiskOK
  <2>3. CASE Front(q) = Root
    BY <2>3 DEF At
  <2>4. CASE Front(q) # Root
    <3>1. Front(q) \in Path /\ q \in Paths /\ p \in Paths
      BY <2>4, FrontFacts, PathFacts DEF Paths
    <3>2. IsPrefix(Front(q), q)
      <4>1. IsChild(q, Front(q))
        BY PathFacts DEF IsChild
      <4> QED
        BY <3>1, <4>1, ChildFacts
    <3>3. ~ IsPrefix(p, Front(q))
      BY <2>1, <3>1, <3>2, PrefixOrder, PathFacts
    <3> QED
      BY <1>1, <2>2, <2>4, <3>1, <3>3 DEF At
  <2> QED
    BY <2>3, <2>4
<1> QED
  BY <1>2, <1>3 DEF DiskOK

LEMMA TreeInvariant == Spec => []TreeInv
<1>1. Init => TreeInv
  <2> SUFFICES ASSUME Init PROVE TreeInv
    OBVIOUS
  <2>1. DiskOK
    BY DEF Init, DiskOK
  <2>2. GoodTree(stored, recorded)
    BY EmptyIsGood DEF Init, GoodTree, Nil
  <2> QED
    BY <2>1, <2>2 DEF TreeInv
<1>2. TreeInv /\ [Next]_vars => TreeInv'
  <2> SUFFICES ASSUME TreeInv, [Next]_vars PROVE TreeInv'
    OBVIOUS
  <2>1. DiskOK
    BY DEF TreeInv
  <2>2. ASSUME NEW p \in Path, NEW c \in Content, WriteFile(p, c) PROVE TreeInv'
    <3>1. DiskOK'
      BY <2>1, <2>2, ParentsStay DEF WriteFile
    <3> QED
      BY <2>2, <3>1 DEF TreeInv, WriteFile, GoodTree
  <2>3. ASSUME NEW p \in Path, MakeDir(p) PROVE TreeInv'
    <3>1. disk[p] # Dir
      BY <2>3, MerkleAssumption DEF MakeDir
    <3>2. DiskOK'
      BY <2>1, <2>3, <3>1, ParentsStay DEF MakeDir
    <3> QED
      BY <2>3, <3>2 DEF TreeInv, MakeDir
  <2>4. ASSUME NEW p \in Path, RemoveAll(p) PROVE TreeInv'
    <3>1. DiskOK'
      BY <2>1, <2>4, NoOrphans
    <3> QED
      BY <2>4, <3>1 DEF TreeInv, RemoveAll
  <2>5. CASE UpdateIndex
    <3>1. recorded' = HashPairs /\ stored' = BuildMerkleTree /\ disk' = disk
      BY <2>5, UpdateIsExact
    <3>2. GoodTree(BuildMerkleTree, HashPairs)
      BY <2>1, BuildIsGood
    <3>3. GoodTree(stored, recorded)'
      BY <3>1, <3>2
    <3>4. DiskOK'
      BY <2>1, <3>1 DEF DiskOK, At
    <3> QED
      BY <3>3, <3>4 DEF TreeInv
  <2>6. CASE UNCHANGED vars
    BY <2>6 DEF TreeInv, DiskOK, At, vars
  <2> QED
    BY <2>2, <2>3, <2>4, <2>5, <2>6 DEF Next
<1> QED
  BY <1>1, <1>2, PTL DEF Spec

(***************************************************************************)
(* DiffTrees (merkle.go 148-197) of the stored tree and the one            *)
(* BuildMerkleTree (53-146) makes of the workspace, whatever the user did  *)
(* since, is the difference of the files they hold: no indexable file is   *)
(* missed by pruning equal hashes or reported twice.                       *)
(***************************************************************************)
THEOREM DifferenceIsFlat == Spec => []DiffIsFlat
<1>1. TreeInv => DiffIsFlat
  <2> SUFFICES ASSUME TreeInv PROVE DiffIsFlat
    OBVIOUS
  <2> PICK hp : hp = HashPairs
    OBVIOUS
  <2> PICK old : old = FilesIn(recorded)
    OBVIOUS
  <2>1. GoodTree(stored, recorded) /\ GoodTree(BuildMerkleTree, hp)
    BY BuildIsGood DEF TreeInv
  <2>2. DiffTrees(stored, BuildMerkleTree) =
          Diff(FilesNow \ old, Changes(recorded, hp), old \ FilesNow)
    BY <2>1, DiffTreesIsFlat, PairsNow
  <2>3. ASSUME NEW p
        PROVE  p \in Changes(recorded, hp)
               <=> p \in FilesNow \cap old /\ <<p, HashesNow[p]>> \notin recorded
    <3>1. ASSUME p \in Changes(recorded, hp)
          PROVE  p \in FilesNow \cap old /\ <<p, HashesNow[p]>> \notin recorded
      <4>1. PICK e \in hp : e \notin recorded /\ e[1] = p
        BY <3>1 DEF Changes
      <4>2. e[1] \in FilesNow /\ e = <<e[1], HashOf[disk[e[1]]]>>
        BY PairsNow
      <4>3. e = <<p, HashesNow[p]>>
        BY <4>1, <4>2, PairsNow
      <4> QED
        BY <3>1, <4>1, <4>2, <4>3 DEF Changes
    <3>2. ASSUME p \in FilesNow \cap old, <<p, HashesNow[p]>> \notin recorded
          PROVE  p \in Changes(recorded, hp)
      <4>1. <<p, HashesNow[p]>> \in hp \ recorded
        BY <3>2, PairsNow
      <4>2. <<p, HashesNow[p]>>[1] = p
        OBVIOUS
      <4> QED
        BY <3>2, <4>1, <4>2 DEF Changes
    <3> QED
      BY <3>1, <3>2
  <2>4. Changes(recorded, hp) = {p \in FilesNow \cap old : <<p, HashesNow[p]>> \notin recorded}
    BY <2>3
  <2> QED
    BY <2>2, <2>4 DEF DiffIsFlat, Diff
<1> QED
  BY <1>1, TreeInvariant, PTL

LEMMA LeastIn ==
  ASSUME NEW S, S \subseteq Nat, S # {}
  PROVE  \E x \in S : \A y \in S : x <= y
<1> DEFINE R == OpToRel(<, Nat)
<1>1. IsWellFoundedOn(R, Nat)
  BY Zenon, NatLessThanWellFounded
<1>2. PICK x \in S : \A y \in S : ~ (<<y, x>> \in R)
  <2> HIDE DEF R
  <2> QED
    BY <1>1, WFMin
<1>3. \A a, b \in Nat : a < b => <<a, b>> \in R
  BY Zenon DEF OpToRel
<1>4. \A y \in S : ~ (y < x)
  BY Zenon, <1>2, <1>3
<1> HIDE DEF R
<1>5. \A y \in S : x <= y
  BY <1>4
<1> QED
  BY <1>5

LEMMA MinIsLeast ==
  ASSUME NEW S, S \subseteq Nat, S # {}
  PROVE  Min(S) \in S /\ \A y \in S : Min(S) <= y
<1>1. \E x \in S : \A y \in S : x <= y
  BY LeastIn
<1> QED
  BY <1>1 DEF Min

LEMMA UpTo ==
  ASSUME NEW n \in Nat, NEW S, 0 \in S, \A k \in 0 .. n - 1 : k \in S => k + 1 \in S
  PROVE  \A k \in 0 .. n : k \in S
<1>1. SUFFICES ASSUME NEW T, T = {k \in 0 .. n : k \notin S}, T # {} PROVE FALSE
  OBVIOUS
<1>2. T \subseteq Nat
  BY <1>1
<1>3. PICK x \in T : \A y \in T : x <= y
  BY <1>1, <1>2, LeastIn
<1>4. x \in 0 .. n /\ x \notin S /\ x # 0
  BY <1>1
<1>5. x - 1 \in 0 .. n - 1 /\ x - 1 \in 0 .. n /\ (x - 1) + 1 = x /\ ~ (x <= x - 1)
  BY <1>4
<1>6. x - 1 \notin T
  BY <1>3, <1>5
<1>7. x - 1 \in S
  BY <1>1, <1>5, <1>6
<1> QED
  BY <1>4, <1>5, <1>7

\* A loop of n rounds, each of which takes a state of S to a state of S.
Rounds(g, n, S) == g \in [1 .. n -> [S -> S]]

IsLoop(f, n, S, a, g) ==
    f \in [0 .. n -> S] /\ \A k \in 0 .. n : f[k] = IF k = 0 THEN a ELSE g[k][f[k - 1]]

LEMMA LoopExists ==
  ASSUME NEW n, NEW S, NEW a, NEW g, n \in Nat, a \in S, Rounds(g, n, S)
  PROVE  \E f : IsLoop(f, n, S, a, g)
<1>0. g \in [1 .. n -> [S -> S]]
  BY DEF Rounds
<1> DEFINE OK(m, f) == \A k \in 0 .. n : k <= m => f[k] = IF k = 0 THEN a ELSE g[k][f[k - 1]]
           T == {m \in 0 .. n : \E f \in [0 .. n -> S] : OK(m, f)}
<1>1. 0 \in T
  <2>1. PICK f : f = [k \in 0 .. n |-> a]
    OBVIOUS
  <2>2. f \in [0 .. n -> S] /\ OK(0, f)
    BY <2>1
  <2> QED
    BY <2>2
<1>2. ASSUME NEW m \in 0 .. n - 1, m \in T PROVE m + 1 \in T
  <2>1. PICK f \in [0 .. n -> S] : OK(m, f)
    BY <1>2
  <2>2. m + 1 \in 1 .. n /\ m \in 0 .. n /\ m + 1 \in 0 .. n
    OBVIOUS
  <2>3. PICK b : b = g[m + 1][f[m]]
    OBVIOUS
  <2>4. b \in S
    BY <1>0, <2>2, <2>3
  <2>5. PICK h : h = [f EXCEPT ![m + 1] = b]
    OBVIOUS
  <2>6. h \in [0 .. n -> S] /\ h[m + 1] = b /\ \A k \in 0 .. n : k # m + 1 => h[k] = f[k]
    BY <2>2, <2>4, <2>5
  <2>7. ASSUME NEW k \in 0 .. n, k <= m + 1
        PROVE  h[k] = IF k = 0 THEN a ELSE g[k][h[k - 1]]
    <3>1. CASE k = m + 1
      <4>1. k - 1 = m /\ k # 0 /\ h[m] = f[m]
        BY <2>2, <2>6, <3>1
      <4> QED
        BY <2>3, <2>6, <3>1, <4>1
    <3>2. CASE k # m + 1
      <4>1. k <= m /\ h[k] = f[k]
        BY <2>6, <2>7, <3>2
      <4>2. f[k] = IF k = 0 THEN a ELSE g[k][f[k - 1]]
        BY <2>1, <4>1
      <4>3. k # 0 => k - 1 \in 0 .. n /\ k - 1 # m + 1
        BY <4>1
      <4> QED
        BY <2>6, <4>1, <4>2, <4>3
    <3> QED
      BY <3>1, <3>2
  <2>8. OK(m + 1, h)
    BY <2>7
  <2> QED
    BY <2>2, <2>6, <2>8
<1>3. n \in T
  <2> HIDE DEF T
  <2>1. \A k \in 0 .. n - 1 : k \in T => k + 1 \in T
    BY <1>2
  <2>2. \A k \in 0 .. n : k \in T
    BY ONLY <1>1, <2>1, UpTo, n \in Nat
  <2> QED
    BY <2>2
<1>4. PICK f \in [0 .. n -> S] : OK(n, f)
  BY <1>3
<1> QED
  BY <1>4 DEF IsLoop

LEMMA GreatestIn ==
  ASSUME NEW n \in Nat, NEW S, S \subseteq 0 .. n, S # {}
  PROVE  Max(S) \in S /\ \A y \in S : y <= Max(S)
<1> PICK T : T = {b \in 0 .. n : \A y \in S : y <= b}
  OBVIOUS
<1>1. n \in T /\ T \subseteq Nat
  OBVIOUS
<1>2. PICK b \in T : \A c \in T : b <= c
  <2>1. T # {}
    BY <1>1
  <2> QED
    BY ONLY <1>1, <2>1, LeastIn
<1>3. b \in S
  <2> SUFFICES ASSUME b \notin S PROVE FALSE
    OBVIOUS
  <2>1. b \in 0 .. n /\ \A y \in S : y <= b /\ y # b /\ y \in 0 .. n
    BY <1>2
  <2>2. b # 0
    <3>1. PICK y : y \in S
      OBVIOUS
    <3> QED
      BY ONLY <2>1, <3>1
  <2>3. b - 1 \in 0 .. n /\ \A y \in S : y <= b - 1
    BY ONLY <2>1, <2>2
  <2>4. b <= b - 1
    BY <1>2, <2>3
  <2> QED
    BY ONLY <2>1, <2>4
<1>4. \A y \in S : y <= b
  BY <1>2
<1>5. \E x \in S : \A y \in S : x >= y
  <2>1. \A y \in S : b >= y
    BY ONLY <1>3, <1>4, S \subseteq 0 .. n
  <2> QED
    BY <1>3, <2>1
<1>6. Max(S) \in S /\ \A y \in S : Max(S) >= y
  BY ONLY <1>5 DEF Max
<1> QED
  BY ONLY <1>6, S \subseteq 0 .. n


-----------------------------------------------------------------------------
(***************************************************************************)
(* Lists laid end to end (Flat).                                           *)
(***************************************************************************)
FlatLoop(flat, lists) ==
    flat = [k \in 0 .. Len(lists) |-> IF k = 0 THEN <<>> ELSE flat[k - 1] \o lists[k]]

LEMMA FlatLoopExists ==
  ASSUME NEW E, NEW lists \in Seq(Seq(E))
  PROVE  \E flat : FlatLoop(flat, lists) /\ \A k \in 0 .. Len(lists) : flat[k] \in Seq(E)
<1> PICK n, Q : n = Len(lists) /\ Q = Seq(E)
  OBVIOUS
<1> PICK g : g = [k \in 1 .. n |-> [s \in Q |-> s \o lists[k]]]
  OBVIOUS
<1>1. n \in Nat /\ <<>> \in Q /\ \A k \in 1 .. n : lists[k] \in Q
  OBVIOUS
<1>2. \A k \in 1 .. n, s \in Q : s \o lists[k] \in Q
  <2> TAKE k \in 1 .. n, s \in Q
  <2>1. s \in Seq(E) /\ lists[k] \in Seq(E)
    BY ONLY <1>1, Q = Seq(E), s \in Q, k \in 1 .. n
  <2> QED
    BY ONLY <2>1, Q = Seq(E)
<1>3. Rounds(g, n, Q)
  BY ONLY <1>2, g = [k \in 1 .. n |-> [s \in Q |-> s \o lists[k]]] DEF Rounds
<1>4. PICK f : IsLoop(f, n, Q, <<>>, g)
  BY ONLY <1>1, <1>3, LoopExists
<1>5. ASSUME NEW k \in 0 .. n PROVE f[k] = IF k = 0 THEN <<>> ELSE f[k - 1] \o lists[k]
  <2>1. k # 0 => k \in 1 .. n /\ k - 1 \in 0 .. n
    BY ONLY <1>1, k \in 0 .. n
  <2>2. k # 0 => f[k - 1] \in Q
    BY ONLY <1>4, <2>1 DEF IsLoop
  <2>3. k # 0 => g[k][f[k - 1]] = f[k - 1] \o lists[k]
    BY ONLY <2>1, <2>2, g = [x \in 1 .. n |-> [s \in Q |-> s \o lists[x]]]
  <2>4. f[k] = IF k = 0 THEN <<>> ELSE g[k][f[k - 1]]
    BY ONLY <1>4, k \in 0 .. n DEF IsLoop
  <2> QED
    BY ONLY <2>3, <2>4
<1>6. f = [k \in 0 .. n |-> f[k]] /\ \A k \in 0 .. n : f[k] \in Q
  BY ONLY <1>4 DEF IsLoop
<1>7. f = [k \in 0 .. n |-> IF k = 0 THEN <<>> ELSE f[k - 1] \o lists[k]]
  BY ONLY <1>5, <1>6
<1>8. FlatLoop(f, lists)
  BY ONLY <1>7, n = Len(lists) DEF FlatLoop
<1> QED
  BY ONLY <1>6, <1>8, n = Len(lists), Q = Seq(E)

\* FlatRun: what the loop has laid end to end after each of its turns.
FlatRun(flat, lists, E) ==
    /\ \A k \in 0 .. Len(lists) : flat[k] \in Seq(E)
    /\ flat[0] = <<>>
    /\ \A k \in 1 .. Len(lists) : flat[k] = flat[k - 1] \o lists[k]

LEMMA FlatIs ==
  ASSUME NEW E, NEW lists \in Seq(Seq(E))
  PROVE  \E flat : FlatRun(flat, lists, E) /\ Flat(lists) = flat[Len(lists)]
<1> DEFINE flat == CHOOSE flat : flat = [k \in 0 .. Len(lists) |-> IF k = 0 THEN <<>> ELSE flat[k - 1] \o lists[k]]
<1>1. PICK f : FlatLoop(f, lists) /\ \A k \in 0 .. Len(lists) : f[k] \in Seq(E)
  BY FlatLoopExists
<1>2. FlatLoop(flat, lists)
  BY <1>1 DEF FlatLoop
<1>3. Flat(lists) = flat[Len(lists)]
  BY DEF Flat
<1> HIDE DEF flat
<1> PICK n : n = Len(lists)
  OBVIOUS
<1>4. n \in Nat
  OBVIOUS
<1>5. \A k \in 0 .. n : flat[k] = IF k = 0 THEN <<>> ELSE flat[k - 1] \o lists[k]
  BY ONLY <1>2, n = Len(lists) DEF FlatLoop
<1>6. \A k \in 0 .. n : f[k] = IF k = 0 THEN <<>> ELSE f[k - 1] \o lists[k]
  BY ONLY <1>1, n = Len(lists) DEF FlatLoop
<1>7. 0 \in 0 .. n /\ \A k \in 1 .. n : k # 0 /\ k \in 0 .. n
  BY ONLY <1>4
<1>8. flat[0] = <<>> /\ f[0] = <<>>
  BY ONLY <1>5, <1>6, <1>7
<1>9. \A k \in 1 .. n : flat[k] = flat[k - 1] \o lists[k] /\ f[k] = f[k - 1] \o lists[k]
  BY ONLY <1>5, <1>6, <1>7
<1> DEFINE T == {k \in 0 .. n : flat[k] = f[k]}
<1>10. 0 \in T
  BY <1>7, <1>8
<1>11. \A k \in 0 .. n - 1 : k \in T => k + 1 \in T
  <2> TAKE k \in 0 .. n - 1
  <2> HAVE k \in T
  <2>1. k + 1 \in 1 .. n /\ k + 1 \in 0 .. n /\ (k + 1) - 1 = k
    BY ONLY <1>4, k \in 0 .. n - 1
  <2>2. flat[k + 1] = flat[k] \o lists[k + 1] /\ f[k + 1] = f[k] \o lists[k + 1]
    BY ONLY <1>9, <2>1
  <2> QED
    BY <2>1, <2>2
<1>12. \A k \in 0 .. n : k \in T
  <2> HIDE DEF T
  <2> QED
    BY ONLY <1>4, <1>10, <1>11, UpTo
<1>13. \A k \in 0 .. n : flat[k] = f[k]
  BY <1>12
<1> QED
  BY ONLY <1>1, <1>3, <1>8, <1>9, <1>13, n = Len(lists) DEF FlatRun

LEMMA FlatIn == ASSUME NEW E, NEW lists \in Seq(Seq(E)) PROVE Flat(lists) \in Seq(E)
<1>1. PICK flat : FlatRun(flat, lists, E) /\ Flat(lists) = flat[Len(lists)]
  BY FlatIs
<1>2. Len(lists) \in 0 .. Len(lists)
  OBVIOUS
<1> QED
  BY ONLY <1>1, <1>2 DEF FlatRun

LEMMA FlatNone == Flat(<<>>) = <<>>
<1>1. <<>> \in Seq(Seq({})) /\ Len(<<>>) = 0
  OBVIOUS
<1>2. PICK flat : FlatRun(flat, <<>>, {}) /\ Flat(<<>>) = flat[Len(<<>>)]
  BY ONLY <1>1, FlatIs
<1> QED
  BY ONLY <1>1, <1>2 DEF FlatRun

LEMMA FlatAppend ==
  ASSUME NEW E, NEW lists \in Seq(Seq(E)), NEW x \in Seq(E)
  PROVE  Flat(Append(lists, x)) = Flat(lists) \o x
<1> PICK n, more : n = Len(lists) /\ more = Append(lists, x)
  OBVIOUS
<1>1. /\ n \in Nat /\ more \in Seq(Seq(E)) /\ Len(more) = n + 1 /\ more[n + 1] = x
      /\ \A k \in 1 .. n : more[k] = lists[k]
  <2> PICK Q : Q = Seq(E)
    OBVIOUS
  <2>1. lists \in Seq(Q) /\ x \in Q
    BY Q = Seq(E)
  <2>2. /\ n \in Nat /\ more \in Seq(Q) /\ Len(more) = n + 1 /\ more[n + 1] = x
        /\ \A k \in 1 .. n : more[k] = lists[k]
    BY ONLY <2>1, n = Len(lists), more = Append(lists, x)
  <2> QED
    BY ONLY <2>2, Q = Seq(E)
<1>2. PICK f : FlatRun(f, lists, E) /\ Flat(lists) = f[n]
  BY FlatIs
<1>3. PICK h : FlatRun(h, more, E) /\ Flat(more) = h[n + 1]
  BY ONLY <1>1, FlatIs
<1>4. f[0] = <<>> /\ h[0] = <<>> /\ \A k \in 1 .. n : f[k] = f[k - 1] \o lists[k]
  BY ONLY <1>2, <1>3, n = Len(lists) DEF FlatRun
<1>5. \A k \in 1 .. n + 1 : h[k] = h[k - 1] \o more[k]
  BY ONLY <1>1, <1>3 DEF FlatRun
<1> DEFINE T == {k \in 0 .. n : h[k] = f[k]}
<1>6. 0 \in T
  BY <1>1, <1>4
<1>7. \A k \in 0 .. n - 1 : k \in T => k + 1 \in T
  <2> TAKE k \in 0 .. n - 1
  <2> HAVE k \in T
  <2>1. k + 1 \in 1 .. n /\ k + 1 \in 1 .. n + 1 /\ k + 1 \in 0 .. n /\ (k + 1) - 1 = k
    BY ONLY <1>1, k \in 0 .. n - 1
  <2>2. h[k + 1] = h[k] \o more[k + 1] /\ f[k + 1] = f[k] \o lists[k + 1]
    BY ONLY <1>4, <1>5, <2>1
  <2>3. more[k + 1] = lists[k + 1]
    BY ONLY <1>1, <2>1
  <2> QED
    BY <2>1, <2>2, <2>3
<1>8. \A k \in 0 .. n : k \in T
  <2> HIDE DEF T
  <2> QED
    BY ONLY <1>1, <1>6, <1>7, UpTo
<1>9. h[n] = f[n]
  BY <1>1, <1>8
<1>10. n + 1 \in 1 .. n + 1 /\ (n + 1) - 1 = n
  BY ONLY <1>1
<1>11. h[n + 1] = h[n] \o more[n + 1]
  BY ONLY <1>5, <1>10
<1> QED
  BY ONLY <1>1, <1>2, <1>3, <1>9, <1>11, more = Append(lists, x)

LEMMA FlatOne == ASSUME NEW E, NEW x \in Seq(E) PROVE Flat(<<x>>) = x
<1>1. <<>> \in Seq(Seq(E))
  OBVIOUS
<1>2. Append(<<>>, x) = <<x>>
  OBVIOUS
<1>3. Flat(Append(<<>>, x)) = Flat(<<>>) \o x
  BY ONLY <1>1, FlatAppend, x \in Seq(E)
<1>4. <<>> \o x = x
  OBVIOUS
<1> QED
  BY ONLY <1>2, <1>3, <1>4, FlatNone

LEMMA FlatConcat ==
  ASSUME NEW E, NEW s \in Seq(Seq(E)), NEW t \in Seq(Seq(E))
  PROVE  Flat(s \o t) = Flat(s) \o Flat(t)
<1> PICK n, Q : n = Len(t) /\ Q = Seq(E)
  OBVIOUS
<1>1. n \in Nat /\ s \in Seq(Q) /\ t \in Seq(Q)
  BY Q = Seq(E)
<1> DEFINE Upto(k) == SubSeq(t, 1, k)
           T == {k \in 0 .. n : Flat(s \o Upto(k)) = Flat(s) \o Flat(Upto(k))}
<1>2. 0 \in T
  <2>1. Upto(0) = <<>>
    BY SubSeqEmpty
  <2>2. s \o <<>> = s
    BY ONLY <1>1
  <2>3. Flat(s) \in Seq(E)
    BY FlatIn
  <2>4. Flat(s) \o <<>> = Flat(s)
    BY ONLY <2>3
  <2>5. Flat(s \o Upto(0)) = Flat(s) \o Flat(Upto(0))
    BY ONLY <2>1, <2>2, <2>4, FlatNone, Zenon
  <2> QED
    BY <1>1, <2>5
<1>3. \A k \in 0 .. n - 1 : k \in T => k + 1 \in T
  <2> TAKE k \in 0 .. n - 1
  <2> HAVE k \in T
  <2> PICK a, b, x : a = Upto(k) /\ b = Upto(k + 1) /\ x = t[k + 1]
    OBVIOUS
  <2>1. k + 1 \in 0 .. n /\ k + 1 \in 1 .. n /\ k \in 0 .. n
    BY ONLY <1>1, k \in 0 .. n - 1
  <2>2. a \in Seq(Q) /\ x \in Q
    BY ONLY <1>1, <2>1, a = SubSeq(t, 1, k), x = t[k + 1], n = Len(t)
  <2>3. b = Append(a, x)
    BY ONLY <1>1, <2>1, a = SubSeq(t, 1, k), b = SubSeq(t, 1, k + 1), x = t[k + 1], n = Len(t)
  <2>4. s \o b = Append(s \o a, x) /\ s \o a \in Seq(Q)
    BY ONLY <1>1, <2>2, <2>3
  <2>5. Flat(b) = Flat(a) \o x
    BY ONLY <2>2, <2>3, FlatAppend, Q = Seq(E)
  <2>6. Flat(s \o b) = Flat(s \o a) \o x
    BY ONLY <2>2, <2>4, FlatAppend, Q = Seq(E)
  <2>7. Flat(s \o a) = Flat(s) \o Flat(a)
    BY a = Upto(k)
  <2>8. Flat(s) \in Seq(E) /\ Flat(a) \in Seq(E) /\ x \in Seq(E)
    BY ONLY <1>1, <2>2, FlatIn, Q = Seq(E)
  <2>9. (Flat(s) \o Flat(a)) \o x = Flat(s) \o (Flat(a) \o x)
    <3> PICK u, v : u = Flat(s) /\ v = Flat(a)
      OBVIOUS
    <3>1. u \in Seq(E) /\ v \in Seq(E) /\ x \in Seq(E)
      BY ONLY <2>8, u = Flat(s), v = Flat(a)
    <3>2. (u \o v) \o x = u \o (v \o x)
      BY ONLY <3>1, SMT
    <3> QED
      BY ONLY <3>2, u = Flat(s), v = Flat(a), Zenon
  <2>10. Flat(s \o b) = Flat(s) \o Flat(b)
    BY ONLY <2>5, <2>6, <2>7, <2>9
  <2> QED
    BY <2>1, <2>10, b = Upto(k + 1)
<1>4. n \in T
  <2> HIDE DEF T
  <2>1. \A k \in 0 .. n : k \in T
    BY ONLY <1>1, <1>2, <1>3, UpTo
  <2> QED
    BY ONLY <1>1, <2>1
<1>5. Upto(n) = t
  BY ONLY <1>1, n = Len(t)
<1> QED
  BY <1>4, <1>5

\* Every member comes from one of the lists.
LEMMA FlatMember ==
  ASSUME NEW E, NEW P, NEW lists \in Seq(Seq(E)),
         \A i \in 1 .. Len(lists) : \A j \in 1 .. Len(lists[i]) : lists[i][j] \in P
  PROVE  \A j \in 1 .. Len(Flat(lists)) : Flat(lists)[j] \in P
<1> PICK n, F : n = Len(lists) /\ F = E \cap P
  OBVIOUS
<1>1. \A i \in 1 .. n : lists[i] \in Seq(F)
  <2> TAKE i \in 1 .. n
  <2> PICK l : l = lists[i]
    OBVIOUS
  <2>1. l \in Seq(E) /\ \A j \in 1 .. Len(l) : l[j] \in P
    BY n = Len(lists)
  <2>2. l \in Seq(F)
    BY ONLY <2>1, F = E \cap P
  <2> QED
    BY ONLY <2>2, l = lists[i]
<1>2. lists \in Seq(Seq(F))
  <2> PICK Q : Q = Seq(F)
    OBVIOUS
  <2> PICK Q1 : Q1 = Seq(E)
    OBVIOUS
  <2>1. lists \in Seq(Q1) /\ \A i \in 1 .. Len(lists) : lists[i] \in Q
    BY ONLY <1>1, n = Len(lists), Q = Seq(F), lists \in Seq(Seq(E)), Q1 = Seq(E)
  <2>2. lists \in Seq(Q)
    BY ONLY <2>1
  <2> QED
    BY ONLY <2>2, Q = Seq(F)
<1>3. Flat(lists) \in Seq(F)
  BY ONLY <1>2, FlatIn
<1> QED
  BY ONLY <1>3, F = E \cap P

-----------------------------------------------------------------------------
(***************************************************************************)
(* The text among some lines (TextOf), and the lines without their blank   *)
(* edges (Trim).                                                           *)
(***************************************************************************)
\* A sequence after another, and a piece of one, item by item.
LEMMA ConcatIs ==
  ASSUME NEW Q, NEW s \in Seq(Q), NEW t \in Seq(Q)
  PROVE  /\ s \o t \in Seq(Q) /\ Len(s \o t) = Len(s) + Len(t)
         /\ \A i \in 1 .. Len(s) : (s \o t)[i] = s[i]
         /\ \A i \in 1 .. Len(t) : (s \o t)[Len(s) + i] = t[i]
<1> PICK u : u = s \o t
  OBVIOUS
<1>1. Len(s) \in Nat /\ Len(t) \in Nat
  OBVIOUS
<1>2. /\ u \in Seq(Q) /\ Len(u) = Len(s) + Len(t)
      /\ \A i \in 1 .. Len(s) + Len(t) : u[i] = IF i <= Len(s) THEN s[i] ELSE t[i - Len(s)]
  BY ONLY ConcatProperties, s \in Seq(Q), t \in Seq(Q), u = s \o t
<1>3. \A i \in 1 .. Len(s) : u[i] = s[i]
  BY ONLY <1>1, <1>2
<1>4. \A i \in 1 .. Len(t) : u[Len(s) + i] = t[i]
  <2> TAKE i \in 1 .. Len(t)
  <2> PICK j, m : m = Len(s) /\ j = m + i
    OBVIOUS
  <2>1. m \in Nat /\ j \in 1 .. m + Len(t) /\ ~ (j <= m) /\ j - m = i
    BY ONLY <1>1, i \in 1 .. Len(t), m = Len(s), j = m + i
  <2>2. u[j] = IF j <= m THEN s[j] ELSE t[j - m]
    BY ONLY <1>2, <2>1, m = Len(s)
  <2> QED
    BY ONLY <2>1, <2>2, m = Len(s), j = m + i
<1> QED
  BY ONLY <1>2, <1>3, <1>4, u = s \o t

LEMMA PieceIs ==
  ASSUME NEW L, NEW s \in Seq(L), NEW a \in Nat, NEW b \in Nat, a <= b, b <= Len(s),
         NEW p, p = SubSeq(s, a + 1, b)
  PROVE  p \in Seq(L) /\ Len(p) = b - a /\ \A i \in 1 .. b - a : p[i] = s[a + i]
<1> PICK n, x : n = Len(s) /\ x = a + 1
  OBVIOUS
<1>1. n \in Nat /\ x \in 1 .. n + 1 /\ b \in x - 1 .. n /\ b - x + 1 = b - a
  BY n = Len(s), x = a + 1
<1>2. p \in Seq(L) /\ Len(p) = b - x + 1
  <2>1. CASE b = a
    <3>1. p = <<>>
      BY ONLY <1>1, <2>1, SubSeqEmpty, p = SubSeq(s, a + 1, b), a \in Nat
    <3> QED
      BY ONLY <1>1, <2>1, <3>1, x = a + 1, a \in Nat
  <2>2. CASE b # a
    <3>1. x \in 1 .. n /\ b \in x .. n
      BY ONLY <1>1, <2>2, x = a + 1, a \in Nat, b \in Nat
    <3> QED
      BY ONLY <3>1, s \in Seq(L), n = Len(s), p = SubSeq(s, a + 1, b), x = a + 1
  <2> QED
    BY <2>1, <2>2
<1>3. \A i \in 1 .. b - a : p[i] = s[a + i]
  <2> TAKE i \in 1 .. b - a
  <2>1. x \in 1 .. n /\ b \in x .. n /\ i \in 1 .. b - x + 1 /\ x + i - 1 = a + i
    BY ONLY <1>1, x = a + 1, a \in Nat, b \in Nat, i \in 1 .. b - a
  <2>2. p[i] = s[x + i - 1]
    BY ONLY <2>1, s \in Seq(L), n = Len(s), p = SubSeq(s, a + 1, b), x = a + 1
  <2> QED
    BY ONLY <2>1, <2>2
<1> QED
  BY ONLY <1>1, <1>2, <1>3

Marks(s) == [k \in DOMAIN s |-> IF s[k] \in Blank THEN <<>> ELSE <<s[k]>>]

LEMMA MarksIn ==
  ASSUME NEW L, NEW s \in Seq(L)
  PROVE  /\ Marks(s) \in Seq(Seq(L)) /\ Len(Marks(s)) = Len(s)
         /\ \A k \in 1 .. Len(s) : Marks(s)[k] = IF s[k] \in Blank THEN <<>> ELSE <<s[k]>>
<1> PICK n, Q : n = Len(s) /\ Q = Seq(L)
  OBVIOUS
<1>1. n \in Nat /\ DOMAIN s = 1 .. n /\ \A k \in 1 .. n : s[k] \in L
  OBVIOUS
<1>2. Marks(s) = [k \in 1 .. n |-> IF s[k] \in Blank THEN <<>> ELSE <<s[k]>>]
  BY ONLY <1>1 DEF Marks
<1>3. \A k \in 1 .. n : (IF s[k] \in Blank THEN <<>> ELSE <<s[k]>>) \in Q
  BY <1>1
<1>4. Marks(s) \in Seq(Q) /\ Len(Marks(s)) = n
  <2>1. Marks(s) \in [1 .. n -> Q]
    BY ONLY <1>2, <1>3
  <2> QED
    BY ONLY <1>1, <2>1
<1>5. \A k \in 1 .. n : Marks(s)[k] = IF s[k] \in Blank THEN <<>> ELSE <<s[k]>>
  BY ONLY <1>2
<1> QED
  BY ONLY <1>4, <1>5, n = Len(s), Q = Seq(L)

LEMMA TextIn == ASSUME NEW L, NEW s \in Seq(L) PROVE TextOf(s) \in Seq(L)
<1>1. TextOf(s) = Flat(Marks(s))
  BY DEF TextOf, Marks
<1>2. Flat(Marks(s)) \in Seq(L)
  BY ONLY MarksIn, FlatIn, s \in Seq(L)
<1> QED
  BY ONLY <1>1, <1>2

LEMMA TextConcat ==
  ASSUME NEW L, NEW s \in Seq(L), NEW t \in Seq(L)
  PROVE  TextOf(s \o t) = TextOf(s) \o TextOf(t)
<1> PICK u, a, b, c, Q : u = s \o t /\ a = Marks(s) /\ b = Marks(t) /\ c = Marks(s \o t) /\ Q = Seq(L)
  OBVIOUS
<1> PICK m, n : m = Len(s) /\ n = Len(t)
  OBVIOUS
<1>1. /\ m \in Nat /\ n \in Nat /\ u \in Seq(L) /\ Len(u) = m + n
      /\ \A k \in 1 .. m : u[k] = s[k]
      /\ \A k \in 1 .. n : u[m + k] = t[k]
  BY ONLY s \in Seq(L), t \in Seq(L), u = s \o t, m = Len(s), n = Len(t)
<1>2. a \in Seq(Q) /\ Len(a) = m /\ \A k \in 1 .. m : a[k] = IF s[k] \in Blank THEN <<>> ELSE <<s[k]>>
  BY ONLY MarksIn, s \in Seq(L), a = Marks(s), m = Len(s), Q = Seq(L)
<1>3. b \in Seq(Q) /\ Len(b) = n /\ \A k \in 1 .. n : b[k] = IF t[k] \in Blank THEN <<>> ELSE <<t[k]>>
  BY ONLY MarksIn, t \in Seq(L), b = Marks(t), n = Len(t), Q = Seq(L)
<1>4. c \in Seq(Q) /\ Len(c) = m + n /\ \A k \in 1 .. m + n : c[k] = IF u[k] \in Blank THEN <<>> ELSE <<u[k]>>
  BY ONLY <1>1, MarksIn, u = s \o t, c = Marks(s \o t), Q = Seq(L)
<1> PICK d : d = a \o b
  OBVIOUS
<1>5. /\ d \in Seq(Q) /\ Len(d) = m + n
      /\ \A k \in 1 .. m : d[k] = a[k]
      /\ \A k \in 1 .. n : d[m + k] = b[k]
  <2>1. a \in Seq(Q) /\ b \in Seq(Q)
    BY ONLY <1>2, <1>3
  <2>2. /\ d \in Seq(Q) /\ Len(d) = Len(a) + Len(b)
        /\ \A k \in 1 .. Len(a) : d[k] = a[k]
        /\ \A k \in 1 .. Len(b) : d[Len(a) + k] = b[k]
    BY ONLY <2>1, ConcatIs, d = a \o b
  <2> QED
    BY ONLY <1>2, <1>3, <2>2
<1>6. \A k \in 1 .. m : c[k] = d[k]
  <2> TAKE k \in 1 .. m
  <2>1. k \in 1 .. m + n
    BY ONLY <1>1, k \in 1 .. m
  <2>2. c[k] = IF u[k] \in Blank THEN <<>> ELSE <<u[k]>>
    BY ONLY <1>4, <2>1, Zenon
  <2>3. a[k] = IF s[k] \in Blank THEN <<>> ELSE <<s[k]>>
    BY ONLY <1>2, k \in 1 .. m, Zenon
  <2>4. u[k] = s[k] /\ d[k] = a[k]
    BY ONLY <1>1, <1>5, k \in 1 .. m, Zenon
  <2> QED
    BY ONLY <2>2, <2>3, <2>4
<1>7. \A k \in 1 .. n : c[m + k] = d[m + k]
  <2> TAKE k \in 1 .. n
  <2>1. m + k \in 1 .. m + n
    BY ONLY <1>1, k \in 1 .. n
  <2>2. c[m + k] = IF u[m + k] \in Blank THEN <<>> ELSE <<u[m + k]>>
    BY ONLY <1>4, <2>1, Zenon
  <2>3. b[k] = IF t[k] \in Blank THEN <<>> ELSE <<t[k]>>
    BY ONLY <1>3, k \in 1 .. n, Zenon
  <2>4. u[m + k] = t[k] /\ d[m + k] = b[k]
    BY ONLY <1>1, <1>5, k \in 1 .. n, Zenon
  <2> QED
    BY ONLY <2>2, <2>3, <2>4
<1>8. \A k \in 1 .. m + n : c[k] = d[k]
  <2> TAKE k \in 1 .. m + n
  <2>1. CASE k <= m
    <3>1. k \in 1 .. m
      BY ONLY <1>1, <2>1, k \in 1 .. m + n
    <3> QED
      BY ONLY <1>6, <3>1
  <2>2. CASE ~ (k <= m)
    <3>1. k - m \in 1 .. n /\ m + (k - m) = k
      BY ONLY <1>1, <2>2, k \in 1 .. m + n
    <3>2. c[m + (k - m)] = d[m + (k - m)]
      BY ONLY <1>7, <3>1
    <3> QED
      BY ONLY <3>1, <3>2
  <2> QED
    BY ONLY <2>1, <2>2
<1>9. c = d
  BY ONLY <1>4, <1>5, <1>8
<1>10. Flat(a \o b) = Flat(a) \o Flat(b)
  BY ONLY <1>2, <1>3, FlatConcat, Q = Seq(L)
<1>11. TextOf(s) = Flat(a) /\ TextOf(t) = Flat(b) /\ TextOf(s \o t) = Flat(c)
  BY DEF TextOf, Marks
<1> QED
  BY ONLY <1>9, <1>10, <1>11, d = a \o b

LEMMA TextOfBlanks ==
  ASSUME NEW L, NEW s \in Seq(L), \A k \in 1 .. Len(s) : s[k] \in Blank
  PROVE  TextOf(s) = <<>>
<1> PICK Q : Q = Seq({})
  OBVIOUS
<1>1. <<>> \in Q
  BY Q = Seq({})
<1>2. \A k \in 1 .. Len(s) : Marks(s)[k] \in Q
  BY <1>1, MarksIn
<1>3. Marks(s) \in Seq(Seq(L)) /\ Len(Marks(s)) = Len(s)
  BY ONLY MarksIn, s \in Seq(L)
<1>4. Marks(s) \in Seq(Q)
  <2> PICK P : P = Seq(L)
    OBVIOUS
  <2>1. Marks(s) \in Seq(P) /\ \A k \in 1 .. Len(Marks(s)) : Marks(s)[k] \in Q
    BY ONLY <1>2, <1>3, P = Seq(L)
  <2> QED
    BY ONLY <2>1
<1>5. Flat(Marks(s)) \in Seq({})
  BY ONLY <1>4, FlatIn, Q = Seq({})
<1>6. Flat(Marks(s)) = <<>>
  BY ONLY <1>5
<1>7. TextOf(s) = Flat(Marks(s))
  BY DEF TextOf, Marks
<1> QED
  BY ONLY <1>6, <1>7

\* What Trim leaves: the lines from a to b, the first and the last that are not blank.
TrimmedTo(lines, a, b) ==
    /\ a \in 1 .. Len(lines) /\ b \in a .. Len(lines)
    /\ lines[a] \notin Blank /\ lines[b] \notin Blank
    /\ \A k \in 1 .. Len(lines) : (k < a \/ b < k) => lines[k] \in Blank

LEMMA TrimIs ==
  ASSUME NEW L, NEW lines \in Seq(L)
  PROVE  \/ Trim(lines) = <<>> /\ \A k \in 1 .. Len(lines) : lines[k] \in Blank
         \/ \E a, b : TrimmedTo(lines, a, b) /\ Trim(lines) = SubSeq(lines, a, b)
<1> PICK n, S : n = Len(lines) /\ S = {k \in DOMAIN lines : lines[k] \notin Blank}
  OBVIOUS
<1>1. n \in Nat /\ DOMAIN lines = 1 .. n /\ S \subseteq 0 .. n /\ S \subseteq Nat
  OBVIOUS
<1>2. Trim(lines) = IF S = {} THEN <<>> ELSE SubSeq(lines, Min(S), Max(S))
  BY DEF Trim
<1>3. CASE S = {}
  <2>1. \A k \in 1 .. n : lines[k] \in Blank
    BY ONLY <1>1, <1>3, S = {k \in DOMAIN lines : lines[k] \notin Blank}
  <2> QED
    BY ONLY <1>2, <1>3, <2>1, n = Len(lines)
<1>4. CASE S # {}
  <2> PICK a, b : a = Min(S) /\ b = Max(S)
    OBVIOUS
  <2>1. a \in S /\ \A y \in S : a <= y
    BY ONLY <1>1, <1>4, MinIsLeast, a = Min(S)
  <2>2. b \in S /\ \A y \in S : y <= b
    BY ONLY <1>1, <1>4, GreatestIn, b = Max(S)
  <2>3. a \in 1 .. n /\ b \in 1 .. n /\ a <= b /\ lines[a] \notin Blank /\ lines[b] \notin Blank
    BY ONLY <1>1, <2>1, <2>2, S = {k \in DOMAIN lines : lines[k] \notin Blank}
  <2>4. ASSUME NEW k \in 1 .. n, k < a \/ b < k PROVE lines[k] \in Blank
    <3>1. k \notin S
      BY ONLY <1>1, <2>1, <2>2, <2>3, <2>4
    <3> QED
      BY ONLY <1>1, <3>1, S = {x \in DOMAIN lines : lines[x] \notin Blank}, k \in 1 .. n
  <2>5. b \in a .. n
    BY ONLY <1>1, <2>3
  <2>6. TrimmedTo(lines, a, b)
    BY ONLY <2>3, <2>4, <2>5, n = Len(lines) DEF TrimmedTo
  <2> QED
    BY ONLY <1>2, <1>4, <2>6, a = Min(S), b = Max(S)
<1> QED
  BY <1>3, <1>4

\* Trim of what is known to start and end at a and b.
LEMMA TrimAt ==
  ASSUME NEW L, NEW lines \in Seq(L), NEW a, NEW b, TrimmedTo(lines, a, b)
  PROVE  Trim(lines) = SubSeq(lines, a, b)
<1>1. a \in 1 .. Len(lines) /\ b \in 1 .. Len(lines) /\ a <= b /\ lines[a] \notin Blank /\ lines[b] \notin Blank
  BY DEF TrimmedTo
<1>2. PICK c, d : TrimmedTo(lines, c, d) /\ Trim(lines) = SubSeq(lines, c, d)
  BY <1>1, TrimIs
<1>3. c \in 1 .. Len(lines) /\ d \in 1 .. Len(lines) /\ c <= d /\ lines[c] \notin Blank /\ lines[d] \notin Blank
  BY <1>2 DEF TrimmedTo
<1>4. ~ (c < a) /\ ~ (b < d)
  BY ONLY <1>3, TrimmedTo(lines, a, b) DEF TrimmedTo
<1>5. ~ (a < c) /\ ~ (d < b)
  BY ONLY <1>1, <1>2 DEF TrimmedTo
<1>6. a = c /\ b = d
  BY ONLY <1>1, <1>3, <1>4, <1>5
<1> QED
  BY ONLY <1>2, <1>6

LEMMA TrimIn ==
  ASSUME NEW L, NEW lines \in Seq(L)
  PROVE  Trim(lines) \in Seq(L) /\ Len(Trim(lines)) <= Len(lines)
<1>1. CASE Trim(lines) = <<>>
  BY <1>1
<1>2. CASE Trim(lines) # <<>>
  <2>1. PICK a, b : TrimmedTo(lines, a, b) /\ Trim(lines) = SubSeq(lines, a, b)
    BY <1>2, TrimIs
  <2>2. a \in 1 .. Len(lines) /\ b \in a .. Len(lines)
    BY ONLY <2>1 DEF TrimmedTo
  <2>3. SubSeq(lines, a, b) \in Seq(L) /\ Len(SubSeq(lines, a, b)) = b - a + 1
    BY ONLY <2>2, lines \in Seq(L)
  <2>4. Len(lines) \in Nat
    OBVIOUS
  <2> QED
    BY ONLY <2>1, <2>2, <2>3, <2>4
<1> QED
  BY <1>1, <1>2

\* A sequence of lines is two pieces of it laid end to end.
LEMMA CutInTwo ==
  ASSUME NEW L, NEW s \in Seq(L), NEW a \in Nat, NEW b \in Nat, NEW c \in Nat,
         a <= b, b <= c, c <= Len(s)
  PROVE  SubSeq(s, a + 1, c) = SubSeq(s, a + 1, b) \o SubSeq(s, b + 1, c)
<1> PICK p, q, r : p = SubSeq(s, a + 1, b) /\ q = SubSeq(s, b + 1, c) /\ r = SubSeq(s, a + 1, c)
  OBVIOUS
<1> PICK n : n = Len(s)
  OBVIOUS
<1>1. n \in Nat /\ c <= n /\ b <= n /\ a <= c
  BY n = Len(s)
<1>2. p \in Seq(L) /\ Len(p) = b - a /\ \A i \in 1 .. b - a : p[i] = s[a + i]
  BY <1>1, PieceIs
<1>3. q \in Seq(L) /\ Len(q) = c - b /\ \A i \in 1 .. c - b : q[i] = s[b + i]
  BY <1>1, PieceIs
<1>4. r \in Seq(L) /\ Len(r) = c - a /\ \A i \in 1 .. c - a : r[i] = s[a + i]
  BY <1>1, PieceIs
<1> PICK d : d = p \o q
  OBVIOUS
<1>5. /\ d \in Seq(L) /\ Len(d) = (b - a) + (c - b)
      /\ \A i \in 1 .. b - a : d[i] = p[i]
      /\ \A i \in 1 .. c - b : d[(b - a) + i] = q[i]
  <2>1. p \in Seq(L) /\ q \in Seq(L)
    BY ONLY <1>2, <1>3
  <2>2. /\ d \in Seq(L) /\ Len(d) = Len(p) + Len(q)
        /\ \A i \in 1 .. Len(p) : d[i] = p[i]
        /\ \A i \in 1 .. Len(q) : d[Len(p) + i] = q[i]
    BY ONLY <2>1, ConcatIs, d = p \o q
  <2> QED
    BY ONLY <1>2, <1>3, <2>2
<1>6. Len(d) = c - a
  BY ONLY <1>5, a \in Nat, b \in Nat, c \in Nat
<1>7. \A i \in 1 .. c - a : d[i] = r[i]
  <2> TAKE i \in 1 .. c - a
  <2>1. CASE i <= b - a
    <3>1. i \in 1 .. b - a
      BY ONLY <2>1, i \in 1 .. c - a, a \in Nat, b \in Nat, c \in Nat
    <3> QED
      BY ONLY <1>2, <1>4, <1>5, <3>1, i \in 1 .. c - a
  <2>2. CASE ~ (i <= b - a)
    <3> PICK j : j = i - (b - a)
      OBVIOUS
    <3>1. j \in 1 .. c - b /\ i = (b - a) + j /\ b + j = a + i
      BY ONLY <2>2, i \in 1 .. c - a, j = i - (b - a), a \in Nat, b \in Nat, c \in Nat
    <3>2. d[(b - a) + j] = q[j] /\ q[j] = s[b + j]
      BY ONLY <1>3, <1>5, <3>1
    <3>3. r[i] = s[a + i]
      BY ONLY <1>4, i \in 1 .. c - a
    <3> QED
      BY ONLY <3>1, <3>2, <3>3
  <2> QED
    BY ONLY <2>1, <2>2
<1>8. \A i \in 1 .. Len(d) : d[i] = r[i]
  BY ONLY <1>6, <1>7
<1>9. d = r
  BY ONLY <1>4, <1>5, <1>6, <1>8, SeqEqual
<1> QED
  BY ONLY <1>9, p = SubSeq(s, a + 1, b), q = SubSeq(s, b + 1, c), r = SubSeq(s, a + 1, c), d = p \o q

\* Two pieces that meet hold the text of the piece they are.
LEMMA TextCut ==
  ASSUME NEW L, NEW s \in Seq(L), NEW a \in Nat, NEW b \in Nat, NEW c \in Nat,
         a <= b, b <= c, c <= Len(s)
  PROVE  TextOf(SubSeq(s, a + 1, c)) = TextOf(SubSeq(s, a + 1, b)) \o TextOf(SubSeq(s, b + 1, c))
<1>0. Len(s) \in Nat
  OBVIOUS
<1>1. SubSeq(s, a + 1, b) \in Seq(L) /\ SubSeq(s, b + 1, c) \in Seq(L)
  BY ONLY <1>0, s \in Seq(L), a \in Nat, b \in Nat, c \in Nat, a <= b, b <= c, c <= Len(s)
<1>2. SubSeq(s, a + 1, c) = SubSeq(s, a + 1, b) \o SubSeq(s, b + 1, c)
  BY CutInTwo
<1> QED
  BY ONLY <1>1, <1>2, TextConcat

LEMMA TextTrim == ASSUME NEW L, NEW s \in Seq(L) PROVE TextOf(Trim(s)) = TextOf(s)
<1> PICK n : n = Len(s)
  OBVIOUS
<1>0. n \in Nat /\ SubSeq(s, 1, n) = s
  OBVIOUS
<1>1. CASE \A k \in 1 .. n : s[k] \in Blank
  <2>1. TextOf(s) = <<>>
    BY ONLY <1>1, TextOfBlanks, s \in Seq(L), n = Len(s)
  <2>2. Trim(s) = <<>>
    <3>1. ~ \E a, b : TrimmedTo(s, a, b)
      BY ONLY <1>1, n = Len(s) DEF TrimmedTo
    <3> QED
      BY ONLY <3>1, TrimIs, s \in Seq(L)
  <2>3. <<>> \in Seq(L) /\ \A k \in 1 .. Len(<<>>) : <<>>[k] \in Blank
    OBVIOUS
  <2>4. TextOf(<<>>) = <<>>
    BY ONLY <2>3, TextOfBlanks
  <2> QED
    BY ONLY <2>1, <2>2, <2>4
<1>2. CASE ~ \A k \in 1 .. n : s[k] \in Blank
  <2>1. PICK a, b : TrimmedTo(s, a, b) /\ Trim(s) = SubSeq(s, a, b)
    BY <1>2, TrimIs
  <2>2. /\ a \in 1 .. n /\ b \in a .. n
        /\ \A k \in 1 .. n : (k < a \/ b < k) => s[k] \in Blank
    BY ONLY <2>1, n = Len(s) DEF TrimmedTo
  <2> PICK x : x = a - 1
    OBVIOUS
  <2>3. x \in Nat /\ a = x + 1 /\ b \in Nat /\ x <= b /\ b <= n
    BY ONLY <1>0, <2>2, x = a - 1
  <2>4. TextOf(SubSeq(s, 0 + 1, n)) = TextOf(SubSeq(s, 0 + 1, x)) \o TextOf(SubSeq(s, x + 1, n))
    <3> PICK z : z = 0
      OBVIOUS
    <3>1. z \in Nat /\ z <= x /\ x <= n /\ n <= Len(s) /\ x \in Nat /\ n \in Nat
      BY <1>0, <2>3
    <3>2. TextOf(SubSeq(s, z + 1, n)) = TextOf(SubSeq(s, z + 1, x)) \o TextOf(SubSeq(s, x + 1, n))
      BY ONLY <3>1, TextCut, s \in Seq(L)
    <3> QED
      BY ONLY <3>2, z = 0
  <2>5. TextOf(SubSeq(s, x + 1, n)) = TextOf(SubSeq(s, x + 1, b)) \o TextOf(SubSeq(s, b + 1, n))
    <3>1. n <= Len(s) /\ x \in Nat /\ n \in Nat /\ b \in Nat /\ x <= b /\ b <= n
      BY <1>0, <2>3
    <3> QED
      BY ONLY <3>1, TextCut, s \in Seq(L)
  <2>6. TextOf(SubSeq(s, 0 + 1, x)) = <<>>
    <3> PICK p, z : p = SubSeq(s, 0 + 1, x) /\ z = 0
      OBVIOUS
    <3>1. z \in Nat /\ z <= x /\ x <= Len(s) /\ x \in Nat /\ p = SubSeq(s, z + 1, x)
      BY <1>0, <2>3
    <3>2. p \in Seq(L) /\ Len(p) = x - z /\ \A k \in 1 .. x - z : p[k] = s[z + k]
      BY ONLY <3>1, PieceIs, s \in Seq(L)
    <3>3. \A k \in 1 .. x - z : p[k] = s[k] /\ k \in 1 .. n /\ k < a
      BY ONLY <1>0, <2>3, <3>2, z = 0
    <3>4. \A k \in 1 .. Len(p) : p[k] \in Blank
      BY ONLY <2>2, <3>2, <3>3
    <3> QED
      BY ONLY <3>2, <3>4, TextOfBlanks, p = SubSeq(s, 0 + 1, x)
  <2>7. TextOf(SubSeq(s, b + 1, n)) = <<>>
    <3> PICK p : p = SubSeq(s, b + 1, n)
      OBVIOUS
    <3>1. n <= Len(s) /\ b \in Nat /\ n \in Nat /\ b <= n
      BY <1>0, <2>3
    <3>2. p \in Seq(L) /\ Len(p) = n - b /\ \A k \in 1 .. n - b : p[k] = s[b + k]
      BY ONLY <3>1, PieceIs, s \in Seq(L), p = SubSeq(s, b + 1, n)
    <3>3. \A k \in 1 .. n - b : p[k] = s[b + k] /\ b + k \in 1 .. n /\ b < b + k
      BY ONLY <1>0, <2>3, <3>2
    <3>4. \A k \in 1 .. Len(p) : p[k] \in Blank
      BY ONLY <2>2, <3>2, <3>3
    <3> QED
      BY ONLY <3>2, <3>4, TextOfBlanks, p = SubSeq(s, b + 1, n)
  <2> PICK m : m = TextOf(SubSeq(s, x + 1, b))
    OBVIOUS
  <2>8. m \in Seq(L)
    <3>1. SubSeq(s, x + 1, b) \in Seq(L)
      BY ONLY <1>0, <2>3, s \in Seq(L), n = Len(s)
    <3> QED
      BY ONLY <3>1, TextIn, m = TextOf(SubSeq(s, x + 1, b))
  <2>9. <<>> \o (m \o <<>>) = m
    BY ONLY <2>8
  <2>10. TextOf(SubSeq(s, 1, n)) = m
    <3>1. 0 + 1 = 1
      OBVIOUS
    <3> QED
      BY ONLY <2>4, <2>5, <2>6, <2>7, <2>9, <3>1, m = TextOf(SubSeq(s, x + 1, b)), Zenon
  <2> QED
    BY ONLY <1>0, <2>1, <2>3, <2>10, m = TextOf(SubSeq(s, x + 1, b))
<1> QED
  BY <1>1, <1>2

LEMMA TrimTwice == ASSUME NEW L, NEW s \in Seq(L) PROVE Trim(Trim(s)) = Trim(s)
<1> PICK n, t : n = Len(s) /\ t = Trim(s)
  OBVIOUS
<1>1. CASE t = <<>>
  <2>1. <<>> \in Seq(L) /\ Len(<<>>) = 0
    OBVIOUS
  <2>2. ~ \E a, b : TrimmedTo(<<>>, a, b)
    BY ONLY <2>1 DEF TrimmedTo
  <2>3. Trim(<<>>) = <<>>
    BY ONLY <2>1, <2>2, TrimIs
  <2> QED
    BY ONLY <1>1, <2>3, t = Trim(s)
<1>2. CASE t # <<>>
  <2>1. PICK a, b : TrimmedTo(s, a, b) /\ t = SubSeq(s, a, b)
    BY ONLY <1>2, TrimIs, s \in Seq(L), t = Trim(s)
  <2>2. n \in Nat /\ a \in 1 .. n /\ b \in a .. n /\ s[a] \notin Blank /\ s[b] \notin Blank
    BY ONLY <2>1, s \in Seq(L), n = Len(s) DEF TrimmedTo
  <2>3. t \in Seq(L) /\ Len(t) = b - a + 1
    BY ONLY <2>1, <2>2, s \in Seq(L), n = Len(s)
  <2>4. \A i \in 1 .. b - a + 1 : t[i] = s[a + i - 1]
    BY ONLY <2>1, <2>2, s \in Seq(L), n = Len(s)
  <2> PICK m : m = b - a + 1
    OBVIOUS
  <2>5. m \in Nat /\ 1 \in 1 .. m /\ m \in 1 .. m /\ a + 1 - 1 = a /\ a + m - 1 = b
    BY ONLY <2>2, m = b - a + 1
  <2>6. t[1] = s[a] /\ t[m] = s[b]
    BY ONLY <2>4, <2>5, m = b - a + 1
  <2>7. TrimmedTo(t, 1, m)
    <3>1. \A k \in 1 .. m : ~ (k < 1) /\ ~ (m < k)
      BY ONLY <2>5
    <3> QED
      BY ONLY <2>2, <2>3, <2>5, <2>6, <3>1, m = b - a + 1 DEF TrimmedTo
  <2>8. Trim(t) = SubSeq(t, 1, m)
    BY ONLY <2>3, <2>7, TrimAt
  <2>9. SubSeq(t, 1, m) = t
    BY ONLY <2>3, m = b - a + 1
  <2> QED
    BY ONLY <2>8, <2>9, t = Trim(s)
<1> QED
  BY <1>1, <1>2

\* Blank lines at the end make no difference.
LEMMA TrimBlankEnd ==
  ASSUME NEW L, NEW s \in Seq(L), NEW x \in L, x \in Blank
  PROVE  Trim(Append(s, x)) = Trim(s)
<1> PICK n, t : n = Len(s) /\ t = Append(s, x)
  OBVIOUS
<1>1. n \in Nat /\ t \in Seq(L) /\ Len(t) = n + 1 /\ t[n + 1] = x /\ \A k \in 1 .. n : t[k] = s[k]
  OBVIOUS
<1>2. CASE \A k \in 1 .. n : s[k] \in Blank
  <2>1. \A k \in 1 .. n + 1 : t[k] \in Blank
    BY <1>1, <1>2
  <2>2. ~ (\E a, b : TrimmedTo(s, a, b)) /\ ~ (\E a, b : TrimmedTo(t, a, b))
    BY ONLY <1>1, <1>2, <2>1, n = Len(s) DEF TrimmedTo
  <2>3. Trim(s) = <<>>
    BY ONLY <2>2, TrimIs, s \in Seq(L)
  <2>4. Trim(t) = <<>>
    BY ONLY <1>1, <2>2, TrimIs
  <2> QED
    BY ONLY <2>3, <2>4, t = Append(s, x)
<1>3. CASE ~ \A k \in 1 .. n : s[k] \in Blank
  <2>1. PICK a, b : TrimmedTo(s, a, b) /\ Trim(s) = SubSeq(s, a, b)
    BY <1>3, TrimIs
  <2>2. /\ a \in 1 .. n /\ b \in a .. n /\ s[a] \notin Blank /\ s[b] \notin Blank
        /\ \A k \in 1 .. n : (k < a \/ b < k) => s[k] \in Blank
    BY ONLY <2>1, n = Len(s) DEF TrimmedTo
  <2>3. a \in 1 .. n + 1 /\ b \in a .. n + 1 /\ b \in 1 .. n
    BY ONLY <1>1, <2>2
  <2>4. t[a] \notin Blank /\ t[b] \notin Blank
    BY ONLY <1>1, <2>2, <2>3
  <2>5. ASSUME NEW k \in 1 .. n + 1, k < a \/ b < k PROVE t[k] \in Blank
    <3>1. CASE k = n + 1
      BY ONLY <1>1, <3>1, x \in Blank
    <3>2. CASE k # n + 1
      <4>1. k \in 1 .. n
        BY ONLY <1>1, <3>2, k \in 1 .. n + 1
      <4> QED
        BY ONLY <1>1, <2>2, <2>5, <4>1
    <3> QED
      BY ONLY <3>1, <3>2
  <2>6. TrimmedTo(t, a, b)
    BY ONLY <1>1, <2>3, <2>4, <2>5 DEF TrimmedTo
  <2>7. Trim(t) = SubSeq(t, a, b)
    BY ONLY <1>1, <2>6, TrimAt
  <2>8. SubSeq(t, a, b) = SubSeq(s, a, b)
    <3>1. \A k \in 1 .. n : t[k] = s[k]
      BY ONLY <1>1
    <3>2. \A k \in 1 .. b - a + 1 : a + k - 1 \in 1 .. n
      BY ONLY <1>1, <2>2
    <3>3. \A k \in 1 .. b - a + 1 : t[a + k - 1] = s[a + k - 1]
      BY ONLY <3>1, <3>2, Zenon
    <3>4. /\ t \in Seq(L) /\ s \in Seq(L) /\ a \in Nat /\ b \in Nat /\ 1 <= a /\ a <= b
          /\ b <= Len(t) /\ b <= Len(s)
      BY ONLY <1>1, <2>2, <2>3, s \in Seq(L), n = Len(s)
    <3> PICK p, q : p = SubSeq(t, a, b) /\ q = SubSeq(s, a, b)
      OBVIOUS
    <3>5. p \in Seq(L) /\ Len(p) = b - a + 1 /\ \A k \in 1 .. b - a + 1 : p[k] = t[a + k - 1]
      BY ONLY <3>4, p = SubSeq(t, a, b)
    <3>6. q \in Seq(L) /\ Len(q) = b - a + 1 /\ \A k \in 1 .. b - a + 1 : q[k] = s[a + k - 1]
      BY ONLY <3>4, q = SubSeq(s, a, b)
    <3>7. Len(p) = Len(q) /\ \A k \in 1 .. Len(p) : p[k] = q[k]
      BY ONLY <3>3, <3>5, <3>6, Zenon
    <3>8. p = q
      BY ONLY <3>5, <3>6, <3>7, SeqEqual
    <3> QED
      BY ONLY <3>8, p = SubSeq(t, a, b), q = SubSeq(s, a, b), Zenon
  <2> QED
    BY ONLY <2>1, <2>7, <2>8, t = Append(s, x)
<1> QED
  BY <1>2, <1>3

-----------------------------------------------------------------------------
(***************************************************************************)
(* The text of a list of chunks (TextOfChunks).                            *)
(***************************************************************************)
ChunkOf(L) == [content : Seq(L), start : Int, end : Int]

Texts(chunks) == [i \in DOMAIN chunks |-> TextOf(chunks[i].content)]

LEMMA ChunkIs ==
  ASSUME NEW L, NEW content \in Seq(L), NEW from \in Int, NEW to \in Int
  PROVE  /\ Chunk(content, from, to) \in ChunkOf(L) /\ Chunk(content, from, to).content = content
         /\ Chunk(content, from, to).start = from /\ Chunk(content, from, to).end = to
<1> PICK Q : Q = Seq(L)
  OBVIOUS
<1>1. content \in Q
  BY Q = Seq(L)
<1> QED
  BY ONLY <1>1, from \in Int, to \in Int, Q = Seq(L) DEF Chunk, ChunkOf

LEMMA TextsIn ==
  ASSUME NEW L, NEW chunks \in Seq(ChunkOf(L))
  PROVE  /\ Texts(chunks) \in Seq(Seq(L)) /\ Len(Texts(chunks)) = Len(chunks)
         /\ \A i \in 1 .. Len(chunks) : Texts(chunks)[i] = TextOf(chunks[i].content)
<1> PICK n, Q, C : n = Len(chunks) /\ Q = Seq(L) /\ C = ChunkOf(L)
  OBVIOUS
<1>1. n \in Nat /\ DOMAIN chunks = 1 .. n /\ \A i \in 1 .. n : chunks[i] \in C
  BY C = ChunkOf(L)
<1>2. \A i \in 1 .. n : TextOf(chunks[i].content) \in Q
  <2> TAKE i \in 1 .. n
  <2>1. chunks[i].content \in Seq(L)
    BY ONLY <1>1, C = ChunkOf(L), i \in 1 .. n DEF ChunkOf
  <2> QED
    BY ONLY <2>1, TextIn, Q = Seq(L)
<1>3. Texts(chunks) = [i \in 1 .. n |-> TextOf(chunks[i].content)]
  BY ONLY <1>1 DEF Texts
<1>4. Texts(chunks) \in [1 .. n -> Q]
  BY ONLY <1>2, <1>3
<1>5. Texts(chunks) \in Seq(Q) /\ Len(Texts(chunks)) = n
  BY ONLY <1>1, <1>4
<1> QED
  BY ONLY <1>3, <1>5, n = Len(chunks), Q = Seq(L)

LEMMA ChunksTextIn == ASSUME NEW L, NEW chunks \in Seq(ChunkOf(L)) PROVE TextOfChunks(chunks) \in Seq(L)
<1>1. TextOfChunks(chunks) = Flat(Texts(chunks))
  BY DEF TextOfChunks, Texts
<1> QED
  BY ONLY <1>1, TextsIn, FlatIn, chunks \in Seq(ChunkOf(L))

LEMMA ChunksTextNone == TextOfChunks(<<>>) = <<>>
<1>1. TextOfChunks(<<>>) = Flat(Texts(<<>>))
  BY DEF TextOfChunks, Texts
<1>2. <<>> \in Seq(ChunkOf({})) /\ Len(<<>>) = 0
  OBVIOUS
<1>3. Texts(<<>>) \in Seq(Seq({})) /\ Len(Texts(<<>>)) = 0
  BY ONLY <1>2, TextsIn
<1>4. Texts(<<>>) = <<>>
  <2> PICK Q : Q = Seq({})
    OBVIOUS
  <2>1. Texts(<<>>) \in Seq(Q) /\ Len(Texts(<<>>)) = 0
    BY ONLY <1>3, Q = Seq({})
  <2> QED
    BY ONLY <2>1
<1> QED
  BY ONLY <1>1, <1>4, FlatNone

LEMMA ChunksTextConcat ==
  ASSUME NEW L, NEW s \in Seq(ChunkOf(L)), NEW t \in Seq(ChunkOf(L))
  PROVE  TextOfChunks(s \o t) = TextOfChunks(s) \o TextOfChunks(t)
<1> PICK u, a, b, c, Q, C : u = s \o t /\ a = Texts(s) /\ b = Texts(t) /\ c = Texts(s \o t) /\ Q = Seq(L) /\ C = ChunkOf(L)
  OBVIOUS
<1> PICK m, n : m = Len(s) /\ n = Len(t)
  OBVIOUS
<1>1. /\ m \in Nat /\ n \in Nat /\ u \in Seq(C) /\ Len(u) = m + n
      /\ \A k \in 1 .. m : u[k] = s[k]
      /\ \A k \in 1 .. n : u[m + k] = t[k]
  <2>1. s \in Seq(C) /\ t \in Seq(C)
    BY C = ChunkOf(L)
  <2>2. /\ u \in Seq(C) /\ Len(u) = Len(s) + Len(t)
        /\ \A k \in 1 .. Len(s) : u[k] = s[k]
        /\ \A k \in 1 .. Len(t) : u[Len(s) + k] = t[k]
    BY ONLY <2>1, ConcatIs, u = s \o t
  <2>3. m \in Nat /\ n \in Nat
    BY ONLY <2>1, m = Len(s), n = Len(t)
  <2> QED
    BY ONLY <2>2, <2>3, m = Len(s), n = Len(t)
<1>2. a \in Seq(Q) /\ Len(a) = m /\ \A k \in 1 .. m : a[k] = TextOf(s[k].content)
  BY ONLY TextsIn, s \in Seq(ChunkOf(L)), a = Texts(s), m = Len(s), Q = Seq(L)
<1>3. b \in Seq(Q) /\ Len(b) = n /\ \A k \in 1 .. n : b[k] = TextOf(t[k].content)
  BY ONLY TextsIn, t \in Seq(ChunkOf(L)), b = Texts(t), n = Len(t), Q = Seq(L)
<1>4. c \in Seq(Q) /\ Len(c) = m + n /\ \A k \in 1 .. m + n : c[k] = TextOf(u[k].content)
  BY ONLY <1>1, TextsIn, u = s \o t, c = Texts(s \o t), Q = Seq(L), C = ChunkOf(L)
<1> PICK d : d = a \o b
  OBVIOUS
<1>5. /\ d \in Seq(Q) /\ Len(d) = m + n
      /\ \A k \in 1 .. m : d[k] = a[k]
      /\ \A k \in 1 .. n : d[m + k] = b[k]
  <2>1. a \in Seq(Q) /\ b \in Seq(Q)
    BY ONLY <1>2, <1>3
  <2>2. /\ d \in Seq(Q) /\ Len(d) = Len(a) + Len(b)
        /\ \A k \in 1 .. Len(a) : d[k] = a[k]
        /\ \A k \in 1 .. Len(b) : d[Len(a) + k] = b[k]
    BY ONLY <2>1, ConcatIs, d = a \o b
  <2> QED
    BY ONLY <1>2, <1>3, <2>2
<1>6. \A k \in 1 .. m : c[k] = d[k]
  <2> TAKE k \in 1 .. m
  <2>1. k \in 1 .. m + n
    BY ONLY <1>1, k \in 1 .. m
  <2>2. c[k] = TextOf(u[k].content)
    BY ONLY <1>4, <2>1, Zenon
  <2>3. a[k] = TextOf(s[k].content)
    BY ONLY <1>2, k \in 1 .. m, Zenon
  <2>4. u[k] = s[k] /\ d[k] = a[k]
    BY ONLY <1>1, <1>5, k \in 1 .. m, Zenon
  <2> QED
    BY ONLY <2>2, <2>3, <2>4, Zenon
<1>7. \A k \in 1 .. n : c[m + k] = d[m + k]
  <2> TAKE k \in 1 .. n
  <2>1. m + k \in 1 .. m + n
    BY ONLY <1>1, k \in 1 .. n
  <2>2. c[m + k] = TextOf(u[m + k].content)
    BY ONLY <1>4, <2>1, Zenon
  <2>3. b[k] = TextOf(t[k].content)
    BY ONLY <1>3, k \in 1 .. n, Zenon
  <2>4. u[m + k] = t[k] /\ d[m + k] = b[k]
    BY ONLY <1>1, <1>5, k \in 1 .. n, Zenon
  <2> QED
    BY ONLY <2>2, <2>3, <2>4, Zenon
<1>8. \A k \in 1 .. Len(c) : c[k] = d[k]
  <2> TAKE k \in 1 .. Len(c)
  <2>0. k \in 1 .. m + n
    BY ONLY <1>4, k \in 1 .. Len(c)
  <2>1. CASE k <= m
    <3>1. k \in 1 .. m
      BY ONLY <1>1, <2>0, <2>1
    <3> QED
      BY ONLY <1>6, <3>1
  <2>2. CASE ~ (k <= m)
    <3>1. k - m \in 1 .. n /\ m + (k - m) = k
      BY ONLY <1>1, <2>0, <2>2
    <3>2. c[m + (k - m)] = d[m + (k - m)]
      BY ONLY <1>7, <3>1
    <3> QED
      BY ONLY <3>1, <3>2
  <2> QED
    BY ONLY <2>1, <2>2
<1>9. c = d
  BY ONLY <1>4, <1>5, <1>8, SeqEqual
<1>10. Flat(a \o b) = Flat(a) \o Flat(b)
  BY ONLY <1>2, <1>3, FlatConcat, Q = Seq(L)
<1>11. TextOfChunks(s) = Flat(a) /\ TextOfChunks(t) = Flat(b) /\ TextOfChunks(s \o t) = Flat(c)
  BY DEF TextOfChunks, Texts
<1> QED
  BY ONLY <1>9, <1>10, <1>11, d = a \o b

LEMMA ChunksTextOne == ASSUME NEW L, NEW c \in ChunkOf(L) PROVE TextOfChunks(<<c>>) = TextOf(c.content)
<1> PICK C, s : C = ChunkOf(L) /\ s = <<c>>
  OBVIOUS
<1>1. s \in Seq(C) /\ Len(s) = 1 /\ s[1] = c
  BY ONLY C = ChunkOf(L), s = <<c>>, c \in ChunkOf(L)
<1>2. Texts(s) \in Seq(Seq(L)) /\ Len(Texts(s)) = 1 /\ Texts(s)[1] = TextOf(c.content)
  <2>1. 1 \in 1 .. Len(s)
    BY ONLY <1>1
  <2> QED
    BY ONLY <1>1, <2>1, TextsIn, C = ChunkOf(L)
<1> PICK x, Q : x = TextOf(c.content) /\ Q = Seq(L)
  OBVIOUS
<1>3. x \in Q /\ Texts(s) = <<x>>
  <2>1. Texts(s) \in Seq(Q) /\ Len(Texts(s)) = 1 /\ Texts(s)[1] = x
    BY ONLY <1>2, x = TextOf(c.content), Q = Seq(L)
  <2> QED
    BY ONLY <2>1
<1>4. Flat(<<x>>) = x
  BY ONLY <1>3, FlatOne, Q = Seq(L)
<1>5. TextOfChunks(s) = Flat(Texts(s))
  BY DEF TextOfChunks, Texts
<1> QED
  BY ONLY <1>3, <1>4, <1>5, x = TextOf(c.content), s = <<c>>

LEMMA ChunksTextAppend ==
  ASSUME NEW L, NEW s \in Seq(ChunkOf(L)), NEW c \in ChunkOf(L)
  PROVE  TextOfChunks(Append(s, c)) = TextOfChunks(s) \o TextOf(c.content)
<1> PICK C : C = ChunkOf(L)
  OBVIOUS
<1>1. Append(s, c) = s \o <<c>> /\ <<c>> \in Seq(C)
  <2>1. s \in Seq(C) /\ c \in C
    BY C = ChunkOf(L)
  <2> QED
    BY ONLY <2>1
<1>2. TextOfChunks(s \o <<c>>) = TextOfChunks(s) \o TextOfChunks(<<c>>)
  BY ONLY <1>1, ChunksTextConcat, s \in Seq(ChunkOf(L)), C = ChunkOf(L)
<1>3. TextOfChunks(<<c>>) = TextOf(c.content)
  BY ChunksTextOne
<1> QED
  BY ONLY <1>1, <1>2, <1>3

-----------------------------------------------------------------------------
(***************************************************************************)
(* How large some lines are (SizeTo, Bytes).                               *)
(***************************************************************************)
Weighed(L) == \A l \in L : Size[l] \in Nat /\ (Size[l] = 0 => l \in Blank)

SizeLoop(sum, lines) == sum = [k \in 0 .. Len(lines) |-> IF k = 0 THEN 0 ELSE sum[k - 1] + Size[lines[k]]]

LEMMA SizeLoopExists ==
  ASSUME NEW L, Weighed(L), NEW lines \in Seq(L)
  PROVE  \E sum : SizeLoop(sum, lines)
<1> PICK n : n = Len(lines)
  OBVIOUS
<1> PICK g : g = [k \in 1 .. n |-> [s \in Nat |-> s + Size[lines[k]]]]
  OBVIOUS
<1>1. n \in Nat /\ 0 \in Nat /\ \A k \in 1 .. n : Size[lines[k]] \in Nat
  BY DEF Weighed
<1>2. \A k \in 1 .. n, s \in Nat : s + Size[lines[k]] \in Nat
  BY ONLY <1>1
<1>3. Rounds(g, n, Nat)
  BY ONLY <1>2, g = [k \in 1 .. n |-> [s \in Nat |-> s + Size[lines[k]]]] DEF Rounds
<1>4. PICK f : IsLoop(f, n, Nat, 0, g)
  BY ONLY <1>1, <1>3, LoopExists
<1>5. ASSUME NEW k \in 0 .. n PROVE f[k] = IF k = 0 THEN 0 ELSE f[k - 1] + Size[lines[k]]
  <2>1. k # 0 => k \in 1 .. n /\ k - 1 \in 0 .. n
    BY ONLY <1>1, k \in 0 .. n
  <2>2. k # 0 => f[k - 1] \in Nat
    BY ONLY <1>4, <2>1 DEF IsLoop
  <2>3. k # 0 => g[k][f[k - 1]] = f[k - 1] + Size[lines[k]]
    BY ONLY <2>1, <2>2, g = [x \in 1 .. n |-> [s \in Nat |-> s + Size[lines[x]]]]
  <2>4. f[k] = IF k = 0 THEN 0 ELSE g[k][f[k - 1]]
    BY ONLY <1>4, k \in 0 .. n DEF IsLoop
  <2> QED
    BY ONLY <2>3, <2>4
<1>6. f = [k \in 0 .. n |-> f[k]]
  BY ONLY <1>4 DEF IsLoop
<1>7. f = [k \in 0 .. n |-> IF k = 0 THEN 0 ELSE f[k - 1] + Size[lines[k]]]
  BY ONLY <1>5, <1>6
<1> QED
  BY ONLY <1>7, n = Len(lines) DEF SizeLoop

LEMMA SizeIs ==
  ASSUME NEW L, Weighed(L), NEW lines \in Seq(L), NEW sum, sum = SizeTo(lines)
  PROVE  /\ sum[0] = 0
         /\ \A k \in 1 .. Len(lines) : sum[k] = sum[k - 1] + Size[lines[k]]
         /\ \A k \in 0 .. Len(lines) : sum[k] \in Nat
         /\ \A i, j \in 0 .. Len(lines) : i <= j => sum[i] <= sum[j]
<1> DEFINE run == CHOOSE run : run = [k \in 0 .. Len(lines) |-> IF k = 0 THEN 0 ELSE run[k - 1] + Size[lines[k]]]
<1>1. \E f : SizeLoop(f, lines)
  BY SizeLoopExists
<1>2. SizeLoop(run, lines)
  BY <1>1 DEF SizeLoop
<1>3. sum = run
  BY DEF SizeTo
<1> HIDE DEF run
<1> PICK n : n = Len(lines)
  OBVIOUS
<1>4. n \in Nat /\ \A k \in 1 .. n : Size[lines[k]] \in Nat
  BY DEF Weighed
<1>5. \A k \in 0 .. n : sum[k] = IF k = 0 THEN 0 ELSE sum[k - 1] + Size[lines[k]]
  BY ONLY <1>2, <1>3, n = Len(lines) DEF SizeLoop
<1>6. sum[0] = 0 /\ \A k \in 1 .. n : sum[k] = sum[k - 1] + Size[lines[k]]
  BY ONLY <1>4, <1>5
<1> DEFINE T == {k \in 0 .. n : sum[k] \in Nat /\ \A i \in 0 .. k : sum[i] <= sum[k]}
<1>7. 0 \in T
  <2>1. \A i \in 0 .. 0 : i = 0
    OBVIOUS
  <2> QED
    BY <1>4, <1>6, <2>1
<1>8. ASSUME NEW k \in 0 .. n - 1, k \in T PROVE k + 1 \in T
  <2>1. k + 1 \in 1 .. n /\ k + 1 \in 0 .. n /\ (k + 1) - 1 = k
    BY ONLY <1>4, k \in 0 .. n - 1
  <2>2. sum[k + 1] = sum[k] + Size[lines[k + 1]] /\ Size[lines[k + 1]] \in Nat
    BY ONLY <1>4, <1>6, <2>1
  <2>3. sum[k] \in Nat /\ \A i \in 0 .. k : sum[i] <= sum[k]
    BY <1>8
  <2>4. sum[k + 1] \in Nat /\ sum[k] <= sum[k + 1]
    BY ONLY <2>2, <2>3
  <2>5. ASSUME NEW i \in 0 .. k + 1 PROVE sum[i] <= sum[k + 1]
    <3>1. CASE i = k + 1
      BY ONLY <2>4, <3>1
    <3>2. CASE i # k + 1
      <4>1. i \in 0 .. k /\ i \in 0 .. n
        BY ONLY <1>4, <3>2, i \in 0 .. k + 1, k \in 0 .. n - 1
      <4>2. sum[i] \in Int
        <5>1. i = 0 \/ (i \in 1 .. n)
          BY ONLY <1>4, <4>1
        <5> DEFINE N == {x \in 0 .. n : sum[x] \in Nat}
        <5>2. 0 \in N
          BY <1>4, <1>6
        <5>3. ASSUME NEW x \in 0 .. n - 1, x \in N PROVE x + 1 \in N
          <6>1. x + 1 \in 1 .. n /\ x + 1 \in 0 .. n /\ (x + 1) - 1 = x
            BY ONLY <1>4, x \in 0 .. n - 1
          <6>2. sum[x + 1] = sum[x] + Size[lines[x + 1]] /\ Size[lines[x + 1]] \in Nat
            BY ONLY <1>4, <1>6, <6>1
          <6>3. sum[x] \in Nat
            BY <5>3
          <6>4. sum[x + 1] \in Nat
            BY ONLY <6>2, <6>3
          <6> QED
            BY <6>1, <6>4
        <5>4. i \in N
          <6> HIDE DEF N
          <6> QED
            BY ONLY <1>4, <4>1, <5>2, <5>3, UpTo
        <5> QED
          BY <5>4
      <4> QED
        BY ONLY <2>3, <2>4, <4>1, <4>2
    <3> QED
      BY ONLY <3>1, <3>2
  <2> QED
    BY <2>1, <2>4, <2>5
<1>9. \A k \in 0 .. n : k \in T
  <2> HIDE DEF T
  <2> QED
    BY ONLY <1>4, <1>7, <1>8, UpTo
<1>10. \A k \in 0 .. n : sum[k] \in Nat
  BY <1>9
<1>11. \A i, j \in 0 .. n : i <= j => sum[i] <= sum[j]
  <2> TAKE i, j \in 0 .. n
  <2> HAVE i <= j
  <2>1. j \in T /\ i \in 0 .. j
    BY ONLY <1>4, <1>9, i \in 0 .. n, j \in 0 .. n, i <= j
  <2> QED
    BY <2>1
<1> QED
  BY ONLY <1>6, <1>10, <1>11, n = Len(lines)

\* What a piece of some lines weighs.
LEMMA BytesOfPiece ==
  ASSUME NEW L, Weighed(L), NEW s \in Seq(L), NEW a \in Nat, NEW b \in Nat, a <= b, b <= Len(s)
  PROVE  Bytes(SubSeq(s, a + 1, b)) = SizeTo(s)[b] - SizeTo(s)[a] + (b - a) - 1
<1> PICK p, f, h, n, m : p = SubSeq(s, a + 1, b) /\ f = SizeTo(s) /\ h = SizeTo(p) /\ n = Len(s) /\ m = b - a
  OBVIOUS
<1>1. n \in Nat /\ m \in Nat /\ a + m = b /\ b <= n
  BY n = Len(s), m = b - a
<1>2. p \in Seq(L) /\ Len(p) = m /\ \A i \in 1 .. m : p[i] = s[a + i]
  BY PieceIs
<1>3. /\ f[0] = 0 /\ \A k \in 1 .. n : f[k] = f[k - 1] + Size[s[k]]
      /\ \A k \in 0 .. n : f[k] \in Nat
  BY ONLY SizeIs, Weighed(L), s \in Seq(L), n = Len(s), f = SizeTo(s)
<1>4. h[0] = 0 /\ \A k \in 1 .. m : h[k] = h[k - 1] + Size[p[k]]
  <2>1. p \in Seq(L)
    BY ONLY <1>2
  <2>2. h[0] = 0 /\ \A k \in 1 .. Len(p) : h[k] = h[k - 1] + Size[p[k]]
    BY ONLY <2>1, SizeIs, Weighed(L), h = SizeTo(p)
  <2> QED
    BY ONLY <1>2, <2>2
<1>0. \A k \in 1 .. n : Size[s[k]] \in Nat
  BY n = Len(s) DEF Weighed
<1> DEFINE T == {k \in 0 .. m : h[k] = f[a + k] - f[a]}
<1>5. 0 \in T
  <2>1. a \in 0 .. n /\ a + 0 = a
    BY ONLY <1>1, a \in Nat
  <2>2. f[a] \in Nat
    BY ONLY <1>3, <2>1
  <2>3. h[0] = f[a + 0] - f[a]
    BY ONLY <1>4, <2>1, <2>2
  <2> QED
    BY <1>1, <2>3
<1>6. ASSUME NEW k \in 0 .. m - 1, k \in T PROVE k + 1 \in T
  <2> PICK j, i : j = k + 1 /\ i = a + k
    OBVIOUS
  <2>1. /\ j \in 1 .. m /\ j \in 0 .. m /\ j - 1 = k /\ a + j = i + 1 /\ i \in 0 .. n
        /\ i + 1 \in 1 .. n /\ i + 1 \in 0 .. n /\ (i + 1) - 1 = i /\ a \in 0 .. n
    BY ONLY <1>1, k \in 0 .. m - 1, a \in Nat, j = k + 1, i = a + k
  <2>2. h[j] = h[k] + Size[p[j]] /\ p[j] = s[i + 1]
    BY ONLY <1>2, <1>4, <2>1
  <2>3. f[i + 1] = f[i] + Size[s[i + 1]] /\ f[i] \in Nat /\ f[a] \in Nat /\ Size[s[i + 1]] \in Nat
    BY ONLY <1>0, <1>3, <2>1
  <2>4. h[k] = f[i] - f[a]
    BY <1>6, i = a + k
  <2>5. h[j] = f[i + 1] - f[a]
    BY ONLY <2>2, <2>3, <2>4
  <2>6. h[j] = f[a + j] - f[a]
    BY ONLY <2>1, <2>5
  <2> QED
    BY <2>1, <2>6, j = k + 1
<1>7. m \in T
  <2> HIDE DEF T
  <2>1. \A k \in 0 .. m : k \in T
    BY ONLY <1>1, <1>5, <1>6, UpTo
  <2> QED
    BY ONLY <1>1, <2>1
<1>8. h[m] = f[b] - f[a]
  BY <1>1, <1>7
<1>9. Bytes(p) = h[m] + m - 1
  BY ONLY <1>2, h = SizeTo(p) DEF Bytes
<1>10. f[a] \in Nat /\ f[b] \in Nat
  <2>1. a \in 0 .. n /\ b \in 0 .. n
    BY ONLY <1>1, a \in Nat, b \in Nat
  <2> QED
    BY ONLY <1>3, <2>1
<1>11. Bytes(p) = f[b] - f[a] + m - 1
  BY ONLY <1>1, <1>8, <1>9, <1>10
<1> QED
  BY ONLY <1>11, p = SubSeq(s, a + 1, b), f = SizeTo(s), m = b - a

\* Without its blank edges a text is no larger.
LEMMA BytesTrim ==
  ASSUME NEW L, Weighed(L), NEW s \in Seq(L)
  PROVE  Bytes(s) \in Int /\ Bytes(Trim(s)) \in Int /\ (Bytes(Trim(s)) <= Bytes(s) \/ Bytes(Trim(s)) = -1)
<1> PICK n, f : n = Len(s) /\ f = SizeTo(s)
  OBVIOUS
<1>1. /\ n \in Nat /\ f[0] = 0 /\ (\A k \in 0 .. n : f[k] \in Nat)
      /\ \A i, j \in 0 .. n : i <= j => f[i] <= f[j]
  BY ONLY SizeIs, Weighed(L), s \in Seq(L), n = Len(s), f = SizeTo(s)
<1>2. Bytes(s) = f[n] + n - 1 /\ f[n] \in Nat
  <2>1. n \in 0 .. n
    BY ONLY <1>1
  <2> QED
    BY ONLY <1>1, <2>1, n = Len(s), f = SizeTo(s) DEF Bytes
<1>3. CASE Trim(s) = <<>>
  <2>1. <<>> \in Seq(L) /\ Len(<<>>) = 0
    OBVIOUS
  <2> PICK e, z : e = <<>> /\ z = SizeTo(<<>>)
    OBVIOUS
  <2>2. z[0] = 0
    BY ONLY <2>1, SizeIs, Weighed(L), z = SizeTo(<<>>)
  <2>3. Bytes(<<>>) = 0 + 0 - 1
    BY ONLY <2>1, <2>2, z = SizeTo(<<>>) DEF Bytes
  <2> QED
    BY ONLY <1>1, <1>2, <1>3, <2>3
<1>4. CASE Trim(s) # <<>>
  <2>1. PICK a, b : TrimmedTo(s, a, b) /\ Trim(s) = SubSeq(s, a, b)
    BY <1>4, TrimIs
  <2>2. a \in 1 .. n /\ b \in a .. n
    BY ONLY <2>1, n = Len(s) DEF TrimmedTo
  <2> PICK x : x = a - 1
    OBVIOUS
  <2>3. /\ x \in Nat /\ b \in Nat /\ x <= b /\ b <= n /\ a = x + 1 /\ x \in 0 .. n /\ b \in 0 .. n
        /\ n \in 0 .. n /\ 0 \in 0 .. n
    BY ONLY <1>1, <2>2, x = a - 1
  <2>4. Bytes(SubSeq(s, x + 1, b)) = f[b] - f[x] + (b - x) - 1
    <3>1. b <= Len(s) /\ x \in Nat /\ b \in Nat /\ x <= b
      BY <2>3
    <3> QED
      BY ONLY <3>1, BytesOfPiece, Weighed(L), s \in Seq(L), f = SizeTo(s)
  <2>5. f[b] <= f[n] /\ f[b] \in Nat /\ f[x] \in Nat
    BY ONLY <1>1, <2>3
  <2> PICK y, z : y = f[b] /\ z = f[x]
    OBVIOUS
  <2>6. Bytes(Trim(s)) = y - z + (b - x) - 1
    BY ONLY <2>1, <2>3, <2>4, y = f[b], z = f[x]
  <2>7. y \in Nat /\ z \in Nat /\ f[n] \in Nat /\ y <= f[n] /\ b - x <= n /\ b - x \in Int
    BY ONLY <1>1, <1>2, <2>3, <2>5, y = f[b], z = f[x]
  <2> PICK g, v, w : g = f[n] /\ v = Bytes(s) /\ w = Bytes(Trim(s))
    OBVIOUS
  <2>8. v = g + n - 1 /\ w = y - z + (b - x) - 1 /\ g \in Nat /\ y <= g
    BY ONLY <1>2, <2>6, <2>7, g = f[n], v = Bytes(s), w = Bytes(Trim(s)), Zenon
  <2>9. v \in Int /\ w \in Int /\ w <= v
    BY ONLY <1>1, <2>7, <2>8
  <2> QED
    BY ONLY <2>9, v = Bytes(s), w = Bytes(Trim(s)), Zenon
<1> QED
  BY <1>3, <1>4

-----------------------------------------------------------------------------
(***************************************************************************)
(* splitLargeChunk: the pieces of a text are what lies between its cuts.   *)
(***************************************************************************)
PieceState(L) == [pieces : Seq(ChunkOf(L)), from : Int, lines : Seq(L), bytes : Int]

NoPieces(start) == [pieces |-> <<>>, from |-> start, lines |-> <<>>, bytes |-> 0]

\* The bytes line i adds, and whether they are too many for the piece.
LineBytes(content, i) == Size[content[i]] + (IF i < Len(content) THEN 1 ELSE 0)

IsFull(content, st, i) == st.bytes + LineBytes(content, i) > MaxChunkSize /\ st.bytes > 0

LEMMA AddLineIs ==
  ASSUME NEW L, Weighed(L), NEW content \in Seq(L), NEW start \in Int, NEW st \in PieceState(L), NEW i \in 1 .. Len(content)
  PROVE  /\ AddLine(content, start, st, i) \in PieceState(L)
         /\ LineBytes(content, i) \in Nat /\ Piece(st) \in ChunkOf(L)
         /\ AddLine(content, start, st, i) =
              IF IsFull(content, st, i)
              THEN [pieces |-> Append(st.pieces, Piece(st)), from |-> start + i - 1,
                    lines |-> <<content[i]>>, bytes |-> LineBytes(content, i)]
              ELSE [pieces |-> st.pieces, from |-> st.from,
                    lines |-> Append(st.lines, content[i]), bytes |-> st.bytes + LineBytes(content, i)]
<1> PICK C, Q, b : C = Seq(ChunkOf(L)) /\ Q = Seq(L) /\ b = LineBytes(content, i)
  OBVIOUS
<1>1. content[i] \in L /\ Size[content[i]] \in Nat /\ i \in Int /\ Len(content) \in Int
  BY DEF Weighed
<1>2. b \in Nat
  BY ONLY <1>1, b = LineBytes(content, i) DEF LineBytes
<1>3. st \in [pieces : C, from : Int, lines : Q, bytes : Int]
  BY ONLY st \in PieceState(L), C = Seq(ChunkOf(L)), Q = Seq(L) DEF PieceState
<1>4. st.pieces \in C /\ st.from \in Int /\ st.lines \in Q /\ st.bytes \in Int
  BY ONLY <1>3
<1>5. Piece(st) \in ChunkOf(L)
  <2>1. st.lines \in Seq(L) /\ Trim(st.lines) \in Seq(L)
    BY ONLY <1>4, TrimIn, Q = Seq(L)
  <2>2. Len(st.lines) \in Nat
    BY ONLY <2>1
  <2> PICK to : to = st.from + Len(st.lines) - 1
    OBVIOUS
  <2>3. to \in Int
    BY ONLY <1>4, <2>2, to = st.from + Len(st.lines) - 1
  <2>4. Chunk(Trim(st.lines), st.from, to) \in ChunkOf(L)
    BY ONLY <1>4, <2>1, <2>3, ChunkIs
  <2> QED
    BY ONLY <2>4, to = st.from + Len(st.lines) - 1 DEF Piece
<1> PICK pieces, lines : pieces = Append(st.pieces, Piece(st)) /\ lines = Append(st.lines, content[i])
  OBVIOUS
<1>6. pieces \in C /\ lines \in Q /\ <<content[i]>> \in Q
  <2> PICK D, c : D = ChunkOf(L) /\ c = Piece(st)
    OBVIOUS
  <2>1. pieces \in Seq(D)
    BY ONLY <1>4, <1>5, D = ChunkOf(L), c = Piece(st), C = Seq(ChunkOf(L)), pieces = Append(st.pieces, Piece(st))
  <2>2. lines \in Seq(L) /\ <<content[i]>> \in Seq(L)
    BY ONLY <1>1, <1>4, Q = Seq(L), lines = Append(st.lines, content[i])
  <2> QED
    BY ONLY <2>1, <2>2, D = ChunkOf(L), C = Seq(ChunkOf(L)), Q = Seq(L)
<1> PICK full, more : full = [pieces |-> pieces, from |-> start + i - 1, lines |-> <<content[i]>>, bytes |-> b]
                      /\ more = [pieces |-> st.pieces, from |-> st.from, lines |-> lines, bytes |-> st.bytes + b]
  OBVIOUS
<1>8. AddLine(content, start, st, i) = IF IsFull(content, st, i) THEN full ELSE more
  BY ONLY full = [pieces |-> pieces, from |-> start + i - 1, lines |-> <<content[i]>>, bytes |-> b],
          more = [pieces |-> st.pieces, from |-> st.from, lines |-> lines, bytes |-> st.bytes + b],
          pieces = Append(st.pieces, Piece(st)), lines = Append(st.lines, content[i]), b = LineBytes(content, i)
     DEF AddLine, IsFull, LineBytes
<1>9. full \in [pieces : C, from : Int, lines : Q, bytes : Int] /\ more \in [pieces : C, from : Int, lines : Q, bytes : Int]
  BY ONLY <1>1, <1>2, <1>4, <1>6, start \in Int, full = [pieces |-> pieces, from |-> start + i - 1, lines |-> <<content[i]>>, bytes |-> b],
          more = [pieces |-> st.pieces, from |-> st.from, lines |-> lines, bytes |-> st.bytes + b]
<1>10. full \in PieceState(L) /\ more \in PieceState(L)
  BY ONLY <1>9, C = Seq(ChunkOf(L)), Q = Seq(L) DEF PieceState
<1> QED
  BY ONLY <1>2, <1>5, <1>8, <1>10, b = LineBytes(content, i), pieces = Append(st.pieces, Piece(st)), lines = Append(st.lines, content[i]),
          full = [pieces |-> pieces, from |-> start + i - 1, lines |-> <<content[i]>>, bytes |-> b],
          more = [pieces |-> st.pieces, from |-> st.from, lines |-> lines, bytes |-> st.bytes + b]

AddLoop(st, content, start) ==
    st = [i \in 0 .. Len(content) |->
            IF i = 0 THEN [pieces |-> <<>>, from |-> start, lines |-> <<>>, bytes |-> 0]
            ELSE AddLine(content, start, st[i - 1], i)]

LEMMA NoPiecesIn == ASSUME NEW L, NEW start \in Int PROVE NoPieces(start) \in PieceState(L)
<1> PICK C, Q : C = Seq(ChunkOf(L)) /\ Q = Seq(L)
  OBVIOUS
<1>1. <<>> \in C /\ <<>> \in Q /\ 0 \in Int
  BY ONLY C = Seq(ChunkOf(L)), Q = Seq(L)
<1>2. NoPieces(start) \in [pieces : C, from : Int, lines : Q, bytes : Int]
  BY ONLY <1>1, start \in Int DEF NoPieces
<1> QED
  BY ONLY <1>2, C = Seq(ChunkOf(L)), Q = Seq(L) DEF PieceState

LEMMA AddLoopExists ==
  ASSUME NEW L, Weighed(L), NEW content \in Seq(L), NEW start \in Int
  PROVE  \E st : AddLoop(st, content, start)
<1> PICK n, Q : n = Len(content) /\ Q = PieceState(L)
  OBVIOUS
<1> PICK g : g = [i \in 1 .. n |-> [st \in Q |-> AddLine(content, start, st, i)]]
  OBVIOUS
<1>1. n \in Nat /\ NoPieces(start) \in Q
  BY NoPiecesIn
<1>2. \A i \in 1 .. n, st \in Q : AddLine(content, start, st, i) \in Q
  BY AddLineIs
<1>3. Rounds(g, n, Q)
  BY ONLY <1>2, g = [i \in 1 .. n |-> [st \in Q |-> AddLine(content, start, st, i)]] DEF Rounds
<1>4. PICK f : IsLoop(f, n, Q, NoPieces(start), g)
  BY ONLY <1>1, <1>3, LoopExists
<1>5. ASSUME NEW i \in 0 .. n PROVE f[i] = IF i = 0 THEN NoPieces(start) ELSE AddLine(content, start, f[i - 1], i)
  <2>1. i # 0 => i \in 1 .. n /\ i - 1 \in 0 .. n
    BY ONLY <1>1, i \in 0 .. n
  <2>2. i # 0 => f[i - 1] \in Q
    BY ONLY <1>4, <2>1 DEF IsLoop
  <2>3. i # 0 => g[i][f[i - 1]] = AddLine(content, start, f[i - 1], i)
    BY ONLY <2>1, <2>2, g = [x \in 1 .. n |-> [st \in Q |-> AddLine(content, start, st, x)]]
  <2>4. f[i] = IF i = 0 THEN NoPieces(start) ELSE g[i][f[i - 1]]
    BY ONLY <1>4, i \in 0 .. n DEF IsLoop
  <2> QED
    BY ONLY <2>3, <2>4
<1>6. f = [i \in 0 .. n |-> f[i]]
  BY ONLY <1>4 DEF IsLoop
<1>7. f = [i \in 0 .. n |-> IF i = 0 THEN NoPieces(start) ELSE AddLine(content, start, f[i - 1], i)]
  BY ONLY <1>5, <1>6
<1>8. AddLoop(f, content, start)
  BY ONLY <1>7, n = Len(content) DEF AddLoop, NoPieces
<1> QED
  BY ONLY <1>8

PiecesOf(st) == IF st.bytes > 0 /\ Trim(st.lines) # <<>> THEN Append(st.pieces, Piece(st)) ELSE st.pieces

AddRun(st, content, start, L) ==
    /\ \A i \in 0 .. Len(content) : st[i] \in PieceState(L)
    /\ st[0] = NoPieces(start)
    /\ \A i \in 1 .. Len(content) : st[i] = AddLine(content, start, st[i - 1], i)

LEMMA SplitIs ==
  ASSUME NEW L, Weighed(L), NEW content \in Seq(L), NEW start \in Int
  PROVE  \E st : AddRun(st, content, start, L) /\ SplitLargeChunk(content, start) = PiecesOf(st[Len(content)])
<1> DEFINE st == CHOOSE st : st = [i \in 0 .. Len(content) |->
            IF i = 0 THEN [pieces |-> <<>>, from |-> start, lines |-> <<>>, bytes |-> 0]
            ELSE AddLine(content, start, st[i - 1], i)]
<1>1. \E f : AddLoop(f, content, start)
  BY AddLoopExists
<1>2. AddLoop(st, content, start)
  BY <1>1 DEF AddLoop
<1>3. SplitLargeChunk(content, start) = PiecesOf(st[Len(content)])
  BY DEF SplitLargeChunk, PiecesOf
<1> HIDE DEF st
<1> PICK n : n = Len(content)
  OBVIOUS
<1>4. n \in Nat
  OBVIOUS
<1>5. \A i \in 0 .. n : st[i] = IF i = 0 THEN NoPieces(start) ELSE AddLine(content, start, st[i - 1], i)
  BY ONLY <1>2, n = Len(content) DEF AddLoop, NoPieces
<1>6. st[0] = NoPieces(start) /\ \A i \in 1 .. n : st[i] = AddLine(content, start, st[i - 1], i)
  BY ONLY <1>4, <1>5
<1> DEFINE T == {i \in 0 .. n : st[i] \in PieceState(L)}
<1>7. 0 \in T
  BY <1>4, <1>6, NoPiecesIn
<1>8. ASSUME NEW i \in 0 .. n - 1, i \in T PROVE i + 1 \in T
  <2>1. i + 1 \in 1 .. n /\ i + 1 \in 0 .. n /\ (i + 1) - 1 = i
    BY ONLY <1>4, i \in 0 .. n - 1
  <2>2. st[i + 1] = AddLine(content, start, st[i], i + 1)
    BY ONLY <1>6, <2>1
  <2>3. st[i] \in PieceState(L)
    BY <1>8
  <2>4. AddLine(content, start, st[i], i + 1) \in PieceState(L)
    BY ONLY <2>1, <2>3, AddLineIs, Weighed(L), content \in Seq(L), start \in Int, n = Len(content)
  <2> QED
    BY <2>1, <2>2, <2>4
<1>9. \A i \in 0 .. n : i \in T
  <2> HIDE DEF T
  <2> QED
    BY ONLY <1>4, <1>7, <1>8, UpTo
<1>10. \A i \in 0 .. n : st[i] \in PieceState(L)
  BY <1>9
<1> QED
  BY ONLY <1>3, <1>6, <1>10, n = Len(content) DEF AddRun

-----------------------------------------------------------------------------
\* A piece is the lines from b + 1 to c, and fits unless it is one line.
PieceOf(p, content, start) ==
    \E b, c \in 0 .. Len(content) :
        /\ b < c /\ p = Chunk(Trim(SubSeq(content, b + 1, c)), start + b, start + c - 1)
        /\ b + 1 = c \/ Bytes(SubSeq(content, b + 1, c)) <= MaxChunkSize

\* After i lines: those up to a are in pieces, the others are in the current one.
PieceAt(content, start, st, i, a) ==
    /\ a \in 0 .. i /\ (i > 0 => a < i) /\ st.from = start + a
    /\ st.lines = SubSeq(content, a + 1, i)
    /\ st.bytes = SizeTo(content)[i] - SizeTo(content)[a] + (i - a) - (IF 0 < i /\ i = Len(content) THEN 1 ELSE 0)
    /\ a + 1 < i => st.bytes <= MaxChunkSize
    /\ \A j \in 1 .. Len(st.pieces) : PieceOf(st.pieces[j], content, start)
    /\ TextOfChunks(st.pieces) = TextOf(SubSeq(content, 0 + 1, a))

\* The current piece, closed after line i.
LEMMA ClosedPiece ==
  ASSUME NEW L, Weighed(L), NEW content \in Seq(L), NEW start \in Int, NEW st \in PieceState(L),
         NEW i \in 1 .. Len(content), NEW a, PieceAt(content, start, st, i, a)
  PROVE  /\ Append(st.pieces, Piece(st)) \in Seq(ChunkOf(L))
         /\ \A j \in 1 .. Len(Append(st.pieces, Piece(st))) : PieceOf(Append(st.pieces, Piece(st))[j], content, start)
         /\ TextOfChunks(Append(st.pieces, Piece(st))) = TextOf(SubSeq(content, 0 + 1, i))
<1> PICK n, c, D, f : n = Len(content) /\ c = Piece(st) /\ D = ChunkOf(L) /\ f = SizeTo(content)
  OBVIOUS
<1>1. /\ a \in 0 .. i /\ (i > 0 => a < i) /\ st.from = start + a
      /\ st.lines = SubSeq(content, a + 1, i)
      /\ st.bytes = f[i] - f[a] + (i - a) - (IF 0 < i /\ i = n THEN 1 ELSE 0)
      /\ a + 1 < i => st.bytes <= MaxChunkSize
      /\ \A j \in 1 .. Len(st.pieces) : PieceOf(st.pieces[j], content, start)
      /\ TextOfChunks(st.pieces) = TextOf(SubSeq(content, 0 + 1, a))
  BY ONLY PieceAt(content, start, st, i, a), n = Len(content), f = SizeTo(content) DEF PieceAt
<1>2. n \in Nat /\ i \in Nat /\ i <= n /\ 0 < i /\ a \in Nat /\ a < i /\ a <= i /\ i \in 0 .. n /\ a \in 0 .. n
  BY <1>1, n = Len(content)
<1>3. st.pieces \in Seq(D) /\ c \in D /\ st.lines \in Seq(L)
  <2>1. st.pieces \in Seq(ChunkOf(L)) /\ st.lines \in Seq(L)
    BY ONLY st \in PieceState(L) DEF PieceState
  <2>2. c \in ChunkOf(L)
    BY AddLineIs
  <2> QED
    BY ONLY <2>1, <2>2, D = ChunkOf(L)
<1> PICK t : t = SubSeq(content, a + 1, i)
  OBVIOUS
<1>4. t \in Seq(L) /\ Len(t) = i - a
  <2>1. i <= Len(content)
    BY <1>2
  <2> QED
    BY ONLY <1>2, <2>1, PieceIs, content \in Seq(L), t = SubSeq(content, a + 1, i)
<1>5. Bytes(t) = f[i] - f[a] + (i - a) - 1
  <2>1. i <= Len(content)
    BY <1>2
  <2> QED
    BY ONLY <1>2, <2>1, BytesOfPiece, Weighed(L), content \in Seq(L), t = SubSeq(content, a + 1, i), f = SizeTo(content)
<1>6. c = Chunk(Trim(t), start + a, start + i - 1)
  <2> PICK to : to = st.from + Len(st.lines) - 1
    OBVIOUS
  <2>1. to = start + i - 1
    BY ONLY <1>1, <1>2, <1>4, start \in Int, t = SubSeq(content, a + 1, i), to = st.from + Len(st.lines) - 1
  <2> QED
    BY ONLY <1>1, <2>1, c = Piece(st), t = SubSeq(content, a + 1, i), to = st.from + Len(st.lines) - 1 DEF Piece
<1>7. PieceOf(c, content, start)
  <2>1. a + 1 = i \/ Bytes(t) <= MaxChunkSize
    <3>1. CASE a + 1 = i
      BY <3>1
    <3>2. CASE a + 1 # i
      <4>1. f[i] \in Nat /\ f[a] \in Nat
        <5>1. \A k \in 0 .. n : f[k] \in Nat
          BY SizeIs, n = Len(content)
        <5> QED
          BY ONLY <1>2, <5>1
      <4>2. a + 1 < i
        BY ONLY <1>2, <3>2
      <4> PICK x, y : x = f[i] /\ y = f[a]
        OBVIOUS
      <4>3. x \in Nat /\ y \in Nat /\ Bytes(t) = x - y + (i - a) - 1
        BY ONLY <1>5, <4>1, x = f[i], y = f[a]
      <4>4. st.bytes = x - y + (i - a) - (IF 0 < i /\ i = n THEN 1 ELSE 0)
        BY ONLY <1>1, x = f[i], y = f[a]
      <4>5. MaxChunkSize \in Nat
        BY SplitterAssumption
      <4> QED
        BY ONLY <1>1, <1>2, <4>2, <4>3, <4>4, <4>5
    <3> QED
      BY <3>1, <3>2
  <2> QED
    BY ONLY <1>2, <1>6, <2>1, n = Len(content), t = SubSeq(content, a + 1, i) DEF PieceOf
<1> PICK ps : ps = Append(st.pieces, c)
  OBVIOUS
<1>8. ps \in Seq(D) /\ \A j \in 1 .. Len(ps) : PieceOf(ps[j], content, start)
  <2>1. ps \in Seq(D) /\ Len(ps) = Len(st.pieces) + 1 /\ ps[Len(st.pieces) + 1] = c /\ \A j \in 1 .. Len(st.pieces) : ps[j] = st.pieces[j]
    BY ONLY <1>3, ps = Append(st.pieces, c)
  <2>2. Len(st.pieces) \in Nat
    BY ONLY <1>3
  <2>3. ASSUME NEW j \in 1 .. Len(ps) PROVE PieceOf(ps[j], content, start)
    <3>1. j = Len(st.pieces) + 1 \/ j \in 1 .. Len(st.pieces)
      BY ONLY <2>1, <2>2, j \in 1 .. Len(ps)
    <3>2. CASE j = Len(st.pieces) + 1
      BY ONLY <1>7, <2>1, <3>2
    <3>3. CASE j \in 1 .. Len(st.pieces)
      <4>1. ps[j] = st.pieces[j]
        BY ONLY <2>1, <3>3
      <4> QED
        BY ONLY <1>1, <3>3, <4>1
    <3> QED
      BY ONLY <3>1, <3>2, <3>3
  <2> QED
    BY ONLY <2>1, <2>3
<1>9. TextOfChunks(ps) = TextOf(SubSeq(content, 0 + 1, i))
  <2>1. TextOfChunks(ps) = TextOfChunks(st.pieces) \o TextOf(c.content)
    BY ONLY <1>3, ChunksTextAppend, D = ChunkOf(L), ps = Append(st.pieces, c)
  <2>2. c.content = Trim(t)
    BY ONLY <1>6 DEF Chunk
  <2>3. TextOf(Trim(t)) = TextOf(t)
    BY ONLY <1>4, TextTrim
  <2> PICK z : z = 0
    OBVIOUS
  <2>4. TextOf(SubSeq(content, z + 1, i)) = TextOf(SubSeq(content, z + 1, a)) \o TextOf(SubSeq(content, a + 1, i))
    <3>1. z \in Nat /\ z <= a /\ i <= Len(content)
      BY <1>2, z = 0
    <3> QED
      BY ONLY <1>2, <3>1, TextCut, content \in Seq(L)
  <2> QED
    BY ONLY <1>1, <2>1, <2>2, <2>3, <2>4, z = 0, t = SubSeq(content, a + 1, i)
<1> QED
  BY ONLY <1>8, <1>9, ps = Append(st.pieces, c), c = Piece(st), D = ChunkOf(L)

LEMMA PieceStart ==
  ASSUME NEW L, Weighed(L), NEW content \in Seq(L), NEW start \in Int
  PROVE  PieceAt(content, start, NoPieces(start), 0, 0)
<1> PICK st, f : st = NoPieces(start) /\ f = SizeTo(content)
  OBVIOUS
<1>1. st.pieces = <<>> /\ st.from = start /\ st.lines = <<>> /\ st.bytes = 0
  BY ONLY st = NoPieces(start) DEF NoPieces
<1>2. f[0] = 0
  BY SizeIs
<1>3. SubSeq(content, 0 + 1, 0) = <<>>
  BY SubSeqEmpty
<1>4. <<>> \in Seq(L) /\ \A k \in 1 .. Len(<<>>) : <<>>[k] \in Blank
  OBVIOUS
<1>5. TextOf(<<>>) = <<>>
  BY ONLY <1>4, TextOfBlanks
<1>6. TextOfChunks(st.pieces) = TextOf(SubSeq(content, 0 + 1, 0))
  BY ONLY <1>1, <1>3, <1>5, ChunksTextNone
<1>7. \A j \in 1 .. Len(st.pieces) : PieceOf(st.pieces[j], content, start)
  BY ONLY <1>1
<1>8. /\ 0 \in 0 .. 0 /\ ~ (0 > 0) /\ start = start + 0 /\ ~ (0 + 1 < 0)
      /\ 0 = f[0] - f[0] + (0 - 0) - (IF 0 < 0 /\ 0 = Len(content) THEN 1 ELSE 0)
  BY ONLY <1>2, start \in Int
<1> QED
  BY ONLY <1>1, <1>3, <1>6, <1>7, <1>8, st = NoPieces(start), f = SizeTo(content) DEF PieceAt

LEMMA PieceStep ==
  ASSUME NEW L, Weighed(L), NEW content \in Seq(L), NEW start \in Int, NEW st \in PieceState(L),
         NEW i \in 0 .. Len(content) - 1, NEW a, PieceAt(content, start, st, i, a)
  PROVE  \E c : PieceAt(content, start, AddLine(content, start, st, i + 1), i + 1, c)
<1> PICK n, f, j, t, b : /\ n = Len(content) /\ f = SizeTo(content) /\ j = i + 1
                         /\ t = AddLine(content, start, st, i + 1) /\ b = LineBytes(content, i + 1)
  OBVIOUS
<1>0. n \in Nat /\ MaxChunkSize \in Nat
  BY SplitterAssumption, n = Len(content)
<1>1. /\ i \in Nat /\ j \in Nat /\ i < n /\ j <= n /\ i <= n /\ i <= j /\ j \in 1 .. n /\ j - 1 = i /\ 0 < j
      /\ i \in 0 .. n /\ j \in 0 .. n
  BY ONLY <1>0, i \in 0 .. Len(content) - 1, n = Len(content), j = i + 1
<1>2. /\ a \in 0 .. i /\ (i > 0 => a < i) /\ st.from = start + a
      /\ st.lines = SubSeq(content, a + 1, i)
      /\ st.bytes = f[i] - f[a] + (i - a) - (IF 0 < i /\ i = n THEN 1 ELSE 0)
      /\ a + 1 < i => st.bytes <= MaxChunkSize
      /\ \A k \in 1 .. Len(st.pieces) : PieceOf(st.pieces[k], content, start)
      /\ TextOfChunks(st.pieces) = TextOf(SubSeq(content, 0 + 1, a))
  <2>1. /\ a \in 0 .. i /\ (i > 0 => a < i) /\ st.from = start + a
        /\ st.lines = SubSeq(content, a + 1, i)
        /\ a + 1 < i => st.bytes <= MaxChunkSize
        /\ \A k \in 1 .. Len(st.pieces) : PieceOf(st.pieces[k], content, start)
        /\ TextOfChunks(st.pieces) = TextOf(SubSeq(content, 0 + 1, a))
    BY ONLY PieceAt(content, start, st, i, a), Zenon DEF PieceAt
  <2>2. st.bytes = SizeTo(content)[i] - SizeTo(content)[a] + (i - a) - (IF 0 < i /\ i = Len(content) THEN 1 ELSE 0)
    BY ONLY PieceAt(content, start, st, i, a), Zenon DEF PieceAt
  <2> QED
    BY ONLY <2>1, <2>2, n = Len(content), f = SizeTo(content)
<1>3. a \in Nat /\ a <= i /\ a < j /\ a \in 0 .. n /\ a \in 0 .. j /\ i \in 0 .. j
  <2>1. a \in 0 .. i
    BY ONLY <1>2, Zenon
  <2> QED
    BY ONLY <1>0, <1>1, <2>1
<1>4. /\ f[j] = f[i] + Size[content[j]] /\ f[i] \in Nat /\ f[a] \in Nat /\ f[a] <= f[i] /\ Size[content[j]] \in Nat
  <2>1. /\ \A k \in 1 .. n : f[k] = f[k - 1] + Size[content[k]]
        /\ \A k \in 0 .. n : f[k] \in Nat
        /\ \A x, y \in 0 .. n : x <= y => f[x] <= f[y]
    BY ONLY SizeIs, Weighed(L), content \in Seq(L), n = Len(content), f = SizeTo(content)
  <2>2. content[j] \in L
    BY ONLY <1>1, content \in Seq(L), n = Len(content)
  <2>3. Size[content[j]] \in Nat
    BY ONLY <2>2, Weighed(L) DEF Weighed
  <2> QED
    BY ONLY <1>1, <1>3, <2>1, <2>3
<1> PICK w, x, y : w = f[i] /\ x = f[a] /\ y = Size[content[j]]
  OBVIOUS
<1>5. w \in Nat /\ x \in Nat /\ y \in Nat /\ x <= w /\ f[j] = w + y
  BY ONLY <1>4, w = f[i], x = f[a], y = Size[content[j]]
<1>6. b = y + (IF j < n THEN 1 ELSE 0)
  <2>1. LineBytes(content, j) = Size[content[j]] + (IF j < Len(content) THEN 1 ELSE 0)
    BY DEF LineBytes
  <2> QED
    BY ONLY <2>1, b = LineBytes(content, i + 1), j = i + 1, y = Size[content[j]], n = Len(content)
<1>7. st.bytes = w - x + (i - a)
  <2>1. st.bytes = f[i] - f[a] + (i - a) - (IF 0 < i /\ i = n THEN 1 ELSE 0)
    BY ONLY <1>2, Zenon
  <2>2. ~ (0 < i /\ i = n)
    BY ONLY <1>0, <1>1
  <2>3. st.bytes = w - x + (i - a) - 0
    BY ONLY <2>1, <2>2, w = f[i], x = f[a]
  <2> QED
    BY ONLY <1>1, <1>3, <1>5, <2>3
<1>8. /\ Piece(st) \in ChunkOf(L)
      /\ t = IF IsFull(content, st, j)
             THEN [pieces |-> Append(st.pieces, Piece(st)), from |-> start + j - 1,
                   lines |-> <<content[j]>>, bytes |-> b]
             ELSE [pieces |-> st.pieces, from |-> st.from,
                   lines |-> Append(st.lines, content[j]), bytes |-> st.bytes + b]
  <2>1. j \in 1 .. Len(content)
    BY ONLY <1>1, n = Len(content)
  <2>2. /\ Piece(st) \in ChunkOf(L)
        /\ AddLine(content, start, st, j) =
              IF IsFull(content, st, j)
              THEN [pieces |-> Append(st.pieces, Piece(st)), from |-> start + j - 1,
                    lines |-> <<content[j]>>, bytes |-> LineBytes(content, j)]
              ELSE [pieces |-> st.pieces, from |-> st.from,
                    lines |-> Append(st.lines, content[j]), bytes |-> st.bytes + LineBytes(content, j)]
    BY ONLY <2>1, AddLineIs, Weighed(L), content \in Seq(L), start \in Int, st \in PieceState(L)
  <2> QED
    BY ONLY <2>2, j = i + 1, t = AddLine(content, start, st, i + 1), b = LineBytes(content, i + 1)
<1>9. IsFull(content, st, j) <=> st.bytes + b > MaxChunkSize /\ st.bytes > 0
  BY ONLY j = i + 1, b = LineBytes(content, i + 1) DEF IsFull
<1>10. CASE IsFull(content, st, j)
  <2>1. i > 0 /\ i \in 1 .. n
    <3>1. st.bytes > 0
      BY ONLY <1>9, <1>10
    <3>2. i = 0 => st.bytes = 0
      <4> SUFFICES ASSUME i = 0 PROVE st.bytes = 0
        OBVIOUS
      <4>1. a = 0
        BY ONLY <1>2, i = 0
      <4>2. w = x
        BY ONLY <4>1, i = 0, w = f[i], x = f[a]
      <4> QED
        BY ONLY <1>5, <1>7, <4>1, <4>2, i = 0
    <3> QED
      BY ONLY <1>1, <3>1, <3>2
  <2> PICK ps : ps = Append(st.pieces, Piece(st))
    OBVIOUS
  <2>2. t.pieces = ps /\ t.from = start + j - 1 /\ t.lines = <<content[j]>> /\ t.bytes = b
    BY ONLY <1>8, <1>10, ps = Append(st.pieces, Piece(st))
  <2>3. /\ \A k \in 1 .. Len(ps) : PieceOf(ps[k], content, start)
        /\ TextOfChunks(ps) = TextOf(SubSeq(content, 0 + 1, i))
    <3>1. i \in 1 .. Len(content)
      BY ONLY <2>1, n = Len(content)
    <3> QED
      BY ONLY <3>1, ClosedPiece, Weighed(L), content \in Seq(L), start \in Int, st \in PieceState(L),
              PieceAt(content, start, st, i, a), ps = Append(st.pieces, Piece(st))
  <2>4. <<content[j]>> = SubSeq(content, i + 1, j)
    BY ONLY <1>1, content \in Seq(L), n = Len(content), j = i + 1
  <2>5. start + j - 1 = start + i /\ ~ (i + 1 < j)
    BY ONLY <1>1, start \in Int
  <2>6. b = f[j] - f[i] + (j - i) - (IF 0 < j /\ j = n THEN 1 ELSE 0)
    BY ONLY <1>0, <1>1, <1>5, <1>6, w = f[i]
  <2>7. PieceAt(content, start, t, j, i)
    BY ONLY <1>1, <1>3, <2>2, <2>3, <2>4, <2>5, <2>6, n = Len(content), f = SizeTo(content) DEF PieceAt
  <2> QED
    BY ONLY <2>7, j = i + 1, t = AddLine(content, start, st, i + 1)
<1>11. CASE ~ IsFull(content, st, j)
  <2>2. t.pieces = st.pieces /\ t.from = st.from /\ t.lines = Append(st.lines, content[j]) /\ t.bytes = st.bytes + b
    BY ONLY <1>8, <1>11
  <2>3. Append(st.lines, content[j]) = SubSeq(content, a + 1, j)
    <3> PICK d : d = a + 1
      OBVIOUS
    <3>1. d \in 1 .. i + 1
      BY ONLY <1>1, <1>3, d = a + 1
    <3>2. Append(SubSeq(content, d, i), content[i + 1]) = SubSeq(content, d, i + 1)
      BY ONLY <1>1, <3>1, content \in Seq(L), n = Len(content)
    <3> QED
      BY ONLY <1>2, <3>2, d = a + 1, j = i + 1
  <2>4. st.bytes + b = f[j] - f[a] + (j - a) - (IF 0 < j /\ j = n THEN 1 ELSE 0)
    <3>1. f[j] - f[a] = (w + y) - x
      BY ONLY <1>5, x = f[a]
    <3>2. j - a = (i - a) + 1
      BY ONLY <1>1, <1>3, j = i + 1
    <3>3. CASE j < n
      BY ONLY <1>0, <1>1, <1>3, <1>5, <1>6, <1>7, <3>1, <3>2, <3>3
    <3>4. CASE ~ (j < n)
      BY ONLY <1>0, <1>1, <1>3, <1>5, <1>6, <1>7, <3>1, <3>2, <3>4
    <3> QED
      BY ONLY <3>3, <3>4
  <2>5. a + 1 < j => st.bytes + b <= MaxChunkSize
    <3> SUFFICES ASSUME a + 1 < j PROVE st.bytes + b <= MaxChunkSize
      OBVIOUS
    <3>1. st.bytes > 0 /\ st.bytes \in Int /\ b \in Int
      BY ONLY <1>1, <1>3, <1>5, <1>6, <1>7, a + 1 < j, j = i + 1
    <3> QED
      BY ONLY <1>0, <1>9, <1>11, <3>1
  <2>7. PieceAt(content, start, t, j, a)
    BY ONLY <1>1, <1>2, <1>3, <2>2, <2>3, <2>4, <2>5, n = Len(content), f = SizeTo(content) DEF PieceAt
  <2> QED
    BY ONLY <2>7, j = i + 1, t = AddLine(content, start, st, i + 1)
<1> QED
  BY <1>10, <1>11

\* splitLargeChunk: every line of text is in one piece, and the pieces fit.
LEMMA LargeChunkCut ==
  ASSUME NEW L, Weighed(L), NEW content \in Seq(L), NEW start \in Int
  PROVE  /\ SplitLargeChunk(content, start) \in Seq(ChunkOf(L))
         /\ \A j \in 1 .. Len(SplitLargeChunk(content, start)) : PieceOf(SplitLargeChunk(content, start)[j], content, start)
         /\ TextOfChunks(SplitLargeChunk(content, start)) = TextOf(content)
<1> PICK n, f, r : n = Len(content) /\ f = SizeTo(content) /\ r = SplitLargeChunk(content, start)
  OBVIOUS
<1>0. n \in Nat
  BY n = Len(content)
<1>1. PICK st : AddRun(st, content, start, L) /\ r = PiecesOf(st[n])
  BY SplitIs
<1>2. /\ \A i \in 0 .. n : st[i] \in PieceState(L)
      /\ st[0] = NoPieces(start)
      /\ \A i \in 1 .. n : st[i] = AddLine(content, start, st[i - 1], i)
  BY ONLY <1>1, n = Len(content) DEF AddRun
<1> DEFINE T == {i \in 0 .. n : \E a : PieceAt(content, start, st[i], i, a)}
<1>3. 0 \in T
  <2>1. PieceAt(content, start, st[0], 0, 0)
    BY <1>2, PieceStart
  <2> QED
    BY <1>0, <2>1
<1>4. ASSUME NEW i \in 0 .. n - 1, i \in T PROVE i + 1 \in T
  <2>1. i + 1 \in 1 .. n /\ i + 1 \in 0 .. n /\ (i + 1) - 1 = i /\ i \in 0 .. n /\ i \in 0 .. Len(content) - 1
    BY ONLY <1>0, i \in 0 .. n - 1, n = Len(content)
  <2>2. st[i + 1] = AddLine(content, start, st[i], i + 1) /\ st[i] \in PieceState(L)
    BY ONLY <1>2, <2>1
  <2>3. PICK a : PieceAt(content, start, st[i], i, a)
    BY <1>4
  <2>4. \E c : PieceAt(content, start, AddLine(content, start, st[i], i + 1), i + 1, c)
    BY ONLY <2>1, <2>2, <2>3, PieceStep, Weighed(L), content \in Seq(L), start \in Int
  <2> QED
    BY <2>1, <2>2, <2>4
<1>5. n \in T
  <2> HIDE DEF T
  <2>1. \A i \in 0 .. n : i \in T
    BY ONLY <1>0, <1>3, <1>4, UpTo
  <2> QED
    BY ONLY <1>0, <2>1
<1> PICK end : end = st[n]
  OBVIOUS
<1>6. PICK a : PieceAt(content, start, end, n, a)
  BY <1>5
<1>7. end \in PieceState(L) /\ r = PiecesOf(end)
  <2>1. n \in 0 .. n
    BY ONLY <1>0
  <2> QED
    BY ONLY <1>1, <1>2, <2>1, end = st[n]
<1>8. end.pieces \in Seq(ChunkOf(L)) /\ end.lines \in Seq(L) /\ end.bytes \in Int
  BY ONLY <1>7 DEF PieceState
<1>9. /\ a \in 0 .. n /\ (n > 0 => a < n)
      /\ end.lines = SubSeq(content, a + 1, n)
      /\ end.bytes = f[n] - f[a] + (n - a) - (IF 0 < n /\ n = n THEN 1 ELSE 0)
      /\ \A j \in 1 .. Len(end.pieces) : PieceOf(end.pieces[j], content, start)
      /\ TextOfChunks(end.pieces) = TextOf(SubSeq(content, 0 + 1, a))
  BY ONLY <1>6, n = Len(content), f = SizeTo(content) DEF PieceAt
<1>10. SubSeq(content, 0 + 1, n) = content
  <2>1. SubSeq(content, 1, n) = content
    BY ONLY content \in Seq(L), n = Len(content)
  <2> QED
    BY ONLY <2>1
<1>11. CASE end.bytes > 0 /\ Trim(end.lines) # <<>>
  <2>1. n \in 1 .. n /\ n \in 1 .. Len(content)
    <3>1. n # 0
      <4> SUFFICES ASSUME n = 0 PROVE FALSE
        OBVIOUS
      <4>1. a = 0
        BY ONLY <1>9, n = 0
      <4>2. f[0] = 0
        BY SizeIs
      <4>3. end.bytes = 0
        BY ONLY <1>9, <4>1, <4>2, n = 0
      <4> QED
        BY ONLY <1>11, <4>3
    <3> QED
      BY ONLY <1>0, <3>1, n = Len(content)
  <2>2. r = Append(end.pieces, Piece(end))
    BY ONLY <1>7, <1>11 DEF PiecesOf
  <2>3. /\ Append(end.pieces, Piece(end)) \in Seq(ChunkOf(L))
        /\ \A j \in 1 .. Len(Append(end.pieces, Piece(end))) : PieceOf(Append(end.pieces, Piece(end))[j], content, start)
        /\ TextOfChunks(Append(end.pieces, Piece(end))) = TextOf(SubSeq(content, 0 + 1, n))
    BY ONLY <1>6, <1>7, <2>1, ClosedPiece, Weighed(L), content \in Seq(L), start \in Int
  <2> QED
    BY ONLY <1>10, <2>2, <2>3, r = SplitLargeChunk(content, start)
<1>12. CASE ~ (end.bytes > 0 /\ Trim(end.lines) # <<>>)
  <2>1. r = end.pieces
    BY ONLY <1>7, <1>12 DEF PiecesOf
  <2> PICK z, t : z = 0 /\ t = SubSeq(content, a + 1, n)
    OBVIOUS
  <2>2. z \in Nat /\ a \in Nat /\ z <= a /\ a <= n /\ n <= Len(content)
    BY ONLY <1>0, <1>9, z = 0, n = Len(content)
  <2>3. TextOf(SubSeq(content, z + 1, n)) = TextOf(SubSeq(content, z + 1, a)) \o TextOf(SubSeq(content, a + 1, n))
    BY ONLY <1>0, <2>2, TextCut, content \in Seq(L)
  <2>4. t \in Seq(L) /\ Len(t) = n - a /\ \A k \in 1 .. n - a : t[k] = content[a + k]
    BY ONLY <1>0, <2>2, PieceIs, content \in Seq(L), t = SubSeq(content, a + 1, n)
  <2>5. TextOf(t) = <<>>
    <3>1. CASE Trim(end.lines) = <<>>
      <4>1. <<>> \in Seq(L) /\ \A k \in 1 .. Len(<<>>) : <<>>[k] \in Blank
        OBVIOUS
      <4>2. TextOf(<<>>) = <<>>
        BY ONLY <4>1, TextOfBlanks
      <4>3. TextOf(Trim(t)) = TextOf(t)
        BY ONLY <2>4, TextTrim
      <4> QED
        BY ONLY <1>9, <3>1, <4>2, <4>3, t = SubSeq(content, a + 1, n)
    <3>2. CASE ~ (end.bytes > 0)
      <4>1. /\ \A k \in 1 .. n : f[k] = f[k - 1] + Size[content[k]]
            /\ \A k \in 0 .. n : f[k] \in Nat
            /\ \A x, y \in 0 .. n : x <= y => f[x] <= f[y]
        BY ONLY SizeIs, Weighed(L), content \in Seq(L), n = Len(content), f = SizeTo(content)
      <4> PICK x, y : x = f[n] /\ y = f[a]
        OBVIOUS
      <4>2. x \in Nat /\ y \in Nat /\ y <= x
        <5>1. n \in 0 .. n
          BY ONLY <1>0
        <5> QED
          BY ONLY <1>9, <2>2, <4>1, <5>1, x = f[n], y = f[a]
      <4>3. end.bytes = x - y + (n - a) - (IF 0 < n /\ n = n THEN 1 ELSE 0)
        BY ONLY <1>9, x = f[n], y = f[a]
      <4>4. n > 0 => n = a + 1 /\ x = y
        BY ONLY <1>0, <1>9, <2>2, <3>2, <4>2, <4>3
      <4>5. ASSUME NEW k \in 1 .. Len(t) PROVE t[k] \in Blank
        <5>1. n > 0
          BY ONLY <1>0, <2>2, <2>4, k \in 1 .. Len(t)
        <5>2. k = 1 /\ k \in 1 .. n - a /\ a + k = n /\ n \in 1 .. n /\ n - 1 = a
          BY ONLY <1>0, <2>2, <2>4, <4>4, <5>1, k \in 1 .. Len(t)
        <5>3. t[k] = content[n]
          BY ONLY <2>4, <5>2
        <5>4. x = y + Size[content[n]]
          BY ONLY <4>1, <5>2, x = f[n], y = f[a]
        <5>5. content[n] \in L
          BY ONLY <5>2, content \in Seq(L), n = Len(content)
        <5>6. Size[content[n]] \in Nat /\ (Size[content[n]] = 0 => content[n] \in Blank)
          BY ONLY <5>5, Weighed(L) DEF Weighed
        <5>7. Size[content[n]] = 0
          BY ONLY <4>2, <4>4, <5>1, <5>4, <5>6
        <5> QED
          BY ONLY <5>3, <5>6, <5>7
      <4> QED
        BY ONLY <2>4, <4>5, TextOfBlanks
    <3> QED
      BY ONLY <1>12, <3>1, <3>2
  <2> PICK m : m = TextOf(SubSeq(content, z + 1, a))
    OBVIOUS
  <2>6. m \in Seq(L)
    <3>1. a <= Len(content)
      BY ONLY <2>2, n = Len(content), content \in Seq(L)
    <3>2. SubSeq(content, z + 1, a) \in Seq(L)
      BY ONLY <2>2, <3>1, PieceIs, content \in Seq(L)
    <3> QED
      BY ONLY <3>2, TextIn, m = TextOf(SubSeq(content, z + 1, a))
  <2>7. TextOf(content) = m
    <3>1. m \o <<>> = m
      BY ONLY <2>6
    <3>2. TextOf(SubSeq(content, z + 1, n)) = m
      BY ONLY <2>3, <2>5, <3>1, m = TextOf(SubSeq(content, z + 1, a)), t = SubSeq(content, a + 1, n), Zenon
    <3> QED
      BY ONLY <1>10, <3>2, z = 0
  <2>8. TextOfChunks(r) = m
    BY ONLY <1>9, <2>1, m = TextOf(SubSeq(content, z + 1, a)), z = 0
  <2> QED
    BY ONLY <1>8, <1>9, <2>1, <2>7, <2>8, r = SplitLargeChunk(content, start)
<1> QED
  BY <1>11, <1>12

-----------------------------------------------------------------------------
(***************************************************************************)
(* SplitFile: what is true of the chunks of a parser stays true when the   *)
(* large ones are cut.                                                     *)
(***************************************************************************)
Fits(c) == Bytes(c.content) <= MaxChunkSize \/ Len(c.content) = 1

\* A chunk of a parser: a piece of the file from its first line on, and its range has no other text.
RawHolds(file, c) ==
    /\ 1 <= c.start /\ c.start + Len(c.content) - 1 <= c.end /\ c.end <= Len(file)
    /\ c.content = SubSeq(file, c.start, c.start + Len(c.content) - 1)
    /\ Trim(c.content) = Trim(SubSeq(file, c.start, c.end))

LEMMA BytesNone == Bytes(<<>>) = -1
<1> PICK E : E = {}
  OBVIOUS
<1>1. <<>> \in Seq(E) /\ Len(<<>>) = 0
  OBVIOUS
<1>2. Weighed(E)
  BY E = {} DEF Weighed
<1>3. SizeTo(<<>>)[0] = 0
  BY ONLY <1>1, <1>2, SizeIs
<1>4. Bytes(<<>>) = 0 + 0 - 1
  BY ONLY <1>1, <1>3 DEF Bytes
<1> QED
  BY ONLY <1>4

LEMMA PieceFits ==
  ASSUME NEW L, Weighed(L), NEW content \in Seq(L), NEW start \in Int, NEW p, PieceOf(p, content, start)
  PROVE  Fits(p)
<1> PICK n : n = Len(content)
  OBVIOUS
<1>0. n \in Nat /\ MaxChunkSize \in Nat
  BY SplitterAssumption, n = Len(content)
<1>1. PICK b, c \in 0 .. n : /\ b < c /\ p = Chunk(Trim(SubSeq(content, b + 1, c)), start + b, start + c - 1)
                             /\ b + 1 = c \/ Bytes(SubSeq(content, b + 1, c)) <= MaxChunkSize
  BY ONLY PieceOf(p, content, start), n = Len(content) DEF PieceOf
<1> PICK q, t : q = SubSeq(content, b + 1, c) /\ t = Trim(SubSeq(content, b + 1, c))
  OBVIOUS
<1>2. b \in Nat /\ c \in Nat /\ b <= c /\ c <= n
  BY ONLY <1>0, <1>1
<1>3. q \in Seq(L) /\ Len(q) = c - b
  <2>1. c <= Len(content)
    BY ONLY <1>2, n = Len(content)
  <2> QED
    BY ONLY <1>2, <2>1, PieceIs, content \in Seq(L), q = SubSeq(content, b + 1, c)
<1>4. p.content = t
  BY ONLY <1>1, t = Trim(SubSeq(content, b + 1, c)) DEF Chunk
<1>5. t \in Seq(L) /\ Len(t) <= Len(q)
  BY ONLY <1>3, TrimIn, q = SubSeq(content, b + 1, c), t = Trim(SubSeq(content, b + 1, c))
<1>6. CASE b + 1 = c
  <2>1. Len(t) \in Nat /\ Len(t) <= 1
    BY ONLY <1>2, <1>3, <1>5, <1>6
  <2>2. CASE Len(t) = 0
    <3>1. t = <<>>
      BY ONLY <1>5, <2>2
    <3>2. Bytes(t) <= MaxChunkSize
      BY ONLY <1>0, <3>1, BytesNone
    <3> QED
      BY ONLY <1>4, <3>2 DEF Fits
  <2>3. CASE Len(t) # 0
    <3>1. Len(t) = 1
      <4> PICK l : l = Len(t)
        OBVIOUS
      <4> QED
        BY ONLY <2>1, <2>3, l = Len(t)
    <3> QED
      BY ONLY <1>4, <3>1 DEF Fits
  <2> QED
    BY ONLY <2>2, <2>3
<1>7. CASE Bytes(q) <= MaxChunkSize
  <2>1. Bytes(q) \in Int /\ Bytes(t) \in Int /\ (Bytes(t) <= Bytes(q) \/ Bytes(t) = -1)
    BY ONLY <1>3, BytesTrim, Weighed(L), q = SubSeq(content, b + 1, c), t = Trim(SubSeq(content, b + 1, c))
  <2>2. Bytes(t) <= MaxChunkSize
    BY ONLY <1>0, <1>7, <2>1
  <2> QED
    BY ONLY <1>4, <2>2 DEF Fits
<1> QED
  BY ONLY <1>1, <1>6, <1>7, q = SubSeq(content, b + 1, c)

\* A piece of a piece is a piece.
LEMMA PieceOfPiece ==
  ASSUME NEW L, NEW s \in Seq(L), NEW a \in Nat, NEW m \in Nat, a + m <= Len(s),
         NEW b \in Nat, NEW c \in Nat, b <= c, c <= m
  PROVE  SubSeq(SubSeq(s, a + 1, a + m), b + 1, c) = SubSeq(s, (a + b) + 1, a + c)
<1> PICK n, p, q, u, x, y, z : /\ n = Len(s) /\ p = SubSeq(s, a + 1, a + m) /\ q = SubSeq(SubSeq(s, a + 1, a + m), b + 1, c)
                               /\ u = SubSeq(s, (a + b) + 1, a + c) /\ x = a + b /\ y = a + c /\ z = a + m
  OBVIOUS
<1>1. /\ n \in Nat /\ x \in Nat /\ y \in Nat /\ z \in Nat /\ a <= z /\ z <= n /\ x <= y /\ y <= n
      /\ z - a = m /\ y - x = c - b
  <2>1. n \in Nat
    BY n = Len(s)
  <2> QED
    BY <2>1, n = Len(s), x = a + b, y = a + c, z = a + m
<1>2. p \in Seq(L) /\ Len(p) = m /\ \A i \in 1 .. m : p[i] = s[a + i]
  <2>1. p \in Seq(L) /\ Len(p) = z - a /\ \A i \in 1 .. z - a : p[i] = s[a + i]
    BY ONLY <1>1, PieceIs, s \in Seq(L), a \in Nat, n = Len(s), p = SubSeq(s, a + 1, a + m), z = a + m
  <2> QED
    BY ONLY <1>1, <2>1
<1>3. q \in Seq(L) /\ Len(q) = c - b /\ \A i \in 1 .. c - b : q[i] = p[b + i]
  <2>1. c <= Len(p) /\ p \in Seq(L)
    BY ONLY <1>2, c <= m
  <2> QED
    <3>1. q = SubSeq(p, b + 1, c)
      BY ONLY p = SubSeq(s, a + 1, a + m), q = SubSeq(SubSeq(s, a + 1, a + m), b + 1, c)
    <3> QED
      BY ONLY <2>1, <3>1, PieceIs, b \in Nat, c \in Nat, b <= c
<1>4. u \in Seq(L) /\ Len(u) = y - x /\ \A i \in 1 .. y - x : u[i] = s[x + i]
  BY ONLY <1>1, PieceIs, s \in Seq(L), n = Len(s), u = SubSeq(s, (a + b) + 1, a + c), x = a + b, y = a + c
<1>5. ASSUME NEW i \in 1 .. Len(q) PROVE q[i] = u[i]
  <2>1. i \in 1 .. c - b /\ i \in 1 .. y - x
    BY ONLY <1>1, <1>3, i \in 1 .. Len(q)
  <2>2. b + i \in 1 .. m /\ a + (b + i) = x + i
    BY ONLY <2>1, a \in Nat, b \in Nat, c \in Nat, m \in Nat, c <= m, x = a + b
  <2>3. q[i] = p[b + i] /\ p[b + i] = s[a + (b + i)] /\ u[i] = s[x + i]
    BY ONLY <1>2, <1>3, <1>4, <2>1, <2>2
  <2> QED
    BY ONLY <2>2, <2>3
<1>6. Len(q) = Len(u)
  BY ONLY <1>1, <1>3, <1>4
<1>7. q = u
  BY ONLY <1>3, <1>4, <1>5, <1>6, SeqEqual
<1> QED
  BY ONLY <1>7, q = SubSeq(SubSeq(s, a + 1, a + m), b + 1, c), u = SubSeq(s, (a + b) + 1, a + c)

LEMMA PieceHolds ==
  ASSUME NEW L, NEW file \in Seq(L), NEW c \in ChunkOf(L), RawHolds(file, c), NEW p, PieceOf(p, c.content, c.start)
  PROVE  RangeHolds(file, p)
<1> PICK content, s, n, m, a : /\ content = c.content /\ s = c.start /\ n = Len(file) /\ m = Len(c.content)
                               /\ a = c.start - 1
  OBVIOUS
<1>1. content \in Seq(L) /\ s \in Int /\ c.end \in Int
  BY content = c.content, s = c.start DEF ChunkOf
<1>2. n \in Nat /\ m \in Nat
  BY ONLY <1>1, file \in Seq(L), n = Len(file), m = Len(c.content), content = c.content
<1>3. 1 <= s /\ s + m - 1 <= c.end /\ c.end <= n /\ content = SubSeq(file, s, s + m - 1)
  <2>1. /\ 1 <= c.start /\ c.start + Len(c.content) - 1 <= c.end /\ c.end <= Len(file)
        /\ c.content = SubSeq(file, c.start, c.start + Len(c.content) - 1)
    BY ONLY RawHolds(file, c), Zenon DEF RawHolds
  <2> QED
    BY ONLY <2>1, content = c.content, s = c.start, n = Len(file), m = Len(c.content)
<1>4. a \in Nat /\ s = a + 1 /\ s + m - 1 = a + m /\ a + m <= n
  <2>1. a = s - 1 /\ c.end \in Int /\ s \in Int
    BY ONLY <1>1, s = c.start, a = c.start - 1
  <2>2. 1 <= s /\ s + m - 1 <= c.end /\ c.end <= n
    BY ONLY <1>3, Zenon
  <2> PICK e : e = c.end
    OBVIOUS
  <2> QED
    BY ONLY <1>2, <2>1, <2>2, e = c.end
<1>5. PICK b, d \in 0 .. m : b < d /\ p = Chunk(Trim(SubSeq(content, b + 1, d)), s + b, s + d - 1)
  BY ONLY PieceOf(p, c.content, c.start), content = c.content, s = c.start, m = Len(c.content) DEF PieceOf
<1>6. b \in Nat /\ d \in Nat /\ b <= d /\ d <= m
  BY ONLY <1>2, <1>5
<1>7. s + b = (a + b) + 1 /\ s + d - 1 = a + d /\ 1 <= s + b /\ s + d - 1 <= n
  BY ONLY <1>2, <1>4, <1>6
<1> PICK q : q = SubSeq(content, b + 1, d)
  OBVIOUS
<1>8. q = SubSeq(file, s + b, s + d - 1)
  <2>1. SubSeq(SubSeq(file, a + 1, a + m), b + 1, d) = SubSeq(file, (a + b) + 1, a + d)
    BY ONLY <1>2, <1>4, <1>6, PieceOfPiece, file \in Seq(L), n = Len(file)
  <2>2. content = SubSeq(file, a + 1, a + m)
    BY ONLY <1>3, <1>4
  <2> QED
    BY ONLY <1>7, <2>1, <2>2, q = SubSeq(content, b + 1, d)
<1>9. q \in Seq(L)
  <2>1. d <= Len(content)
    BY ONLY <1>6, m = Len(c.content), content = c.content
  <2> QED
    BY ONLY <1>1, <1>6, <2>1, PieceIs, q = SubSeq(content, b + 1, d)
<1>10. Trim(Trim(q)) = Trim(q)
  BY ONLY <1>9, TrimTwice
<1>11. p.content = Trim(q) /\ p.start = s + b /\ p.end = s + d - 1
  BY ONLY <1>5, q = SubSeq(content, b + 1, d) DEF Chunk
<1>12. 1 <= p.start /\ p.end <= Len(file)
  BY ONLY <1>7, <1>11, n = Len(file)
<1>13. Trim(p.content) = Trim(SubSeq(file, p.start, p.end))
  BY ONLY <1>8, <1>10, <1>11
<1> QED
  BY ONLY <1>12, <1>13 DEF RangeHolds

LEMMA CutLargeIs ==
  ASSUME NEW L, Weighed(L), NEW c \in ChunkOf(L)
  PROVE  /\ CutLarge(c) \in Seq(ChunkOf(L)) /\ \A j \in 1 .. Len(CutLarge(c)) : Fits(CutLarge(c)[j])
         /\ TextOfChunks(CutLarge(c)) = TextOf(c.content)
<1>1. c.content \in Seq(L) /\ c.start \in Int
  BY DEF ChunkOf
<1>2. CASE Bytes(c.content) <= MaxChunkSize
  <2> PICK s, C : s = CutLarge(c) /\ C = ChunkOf(L)
    OBVIOUS
  <2>1. s = <<c>>
    BY ONLY <1>2, s = CutLarge(c) DEF CutLarge
  <2>2. s \in Seq(C) /\ Len(s) = 1 /\ \A j \in 1 .. 1 : s[j] = c
    BY ONLY <2>1, c \in ChunkOf(L), C = ChunkOf(L)
  <2>3. Fits(c)
    BY ONLY <1>2 DEF Fits
  <2>4. \A j \in 1 .. Len(s) : Fits(s[j])
    BY ONLY <2>2, <2>3
  <2>5. TextOfChunks(<<c>>) = TextOf(c.content)
    BY ChunksTextOne
  <2> QED
    BY ONLY <2>1, <2>2, <2>4, <2>5, s = CutLarge(c), C = ChunkOf(L)
<1>3. CASE ~ (Bytes(c.content) <= MaxChunkSize)
  <2>1. CutLarge(c) = SplitLargeChunk(c.content, c.start)
    BY ONLY <1>3 DEF CutLarge
  <2> PICK content, start, s : content = c.content /\ start = c.start /\ s = CutLarge(c)
    OBVIOUS
  <2>2. s = SplitLargeChunk(content, start) /\ content \in Seq(L) /\ start \in Int
    BY ONLY <1>1, <2>1, content = c.content, start = c.start, s = CutLarge(c)
  <2>3. /\ s \in Seq(ChunkOf(L)) /\ \A j \in 1 .. Len(s) : PieceOf(s[j], content, start)
        /\ TextOfChunks(s) = TextOf(content)
    BY ONLY <2>2, LargeChunkCut, Weighed(L)
  <2>4. ASSUME NEW j \in 1 .. Len(s) PROVE Fits(s[j])
    <3>1. PieceOf(s[j], content, start)
      BY ONLY <2>3, j \in 1 .. Len(s)
    <3> QED
      BY ONLY <2>2, <3>1, PieceFits, Weighed(L)
  <2> QED
    BY ONLY <2>3, <2>4, content = c.content, s = CutLarge(c)
<1> QED
  BY <1>2, <1>3

LEMMA CutLargeHolds ==
  ASSUME NEW L, Weighed(L), NEW file \in Seq(L), NEW c \in ChunkOf(L), RawHolds(file, c)
  PROVE  \A j \in 1 .. Len(CutLarge(c)) : RangeHolds(file, CutLarge(c)[j])
<1> PICK s : s = CutLarge(c)
  OBVIOUS
<1> SUFFICES ASSUME NEW j \in 1 .. Len(s) PROVE RangeHolds(file, s[j])
  BY s = CutLarge(c)
<1>1. CASE Bytes(c.content) <= MaxChunkSize
  <2>1. s = <<c>>
    BY ONLY <1>1, s = CutLarge(c) DEF CutLarge
  <2>2. s[j] = c
    BY ONLY <2>1, j \in 1 .. Len(s)
  <2>3. c.start \in Int
    BY DEF ChunkOf
  <2>4. RangeHolds(file, c)
    BY ONLY RawHolds(file, c) DEF RawHolds, RangeHolds
  <2> QED
    BY ONLY <2>2, <2>4
<1>2. CASE ~ (Bytes(c.content) <= MaxChunkSize)
  <2>1. s = SplitLargeChunk(c.content, c.start)
    BY ONLY <1>2, s = CutLarge(c) DEF CutLarge
  <2> PICK content, start : content = c.content /\ start = c.start
    OBVIOUS
  <2>2. content \in Seq(L) /\ start \in Int /\ s = SplitLargeChunk(content, start)
    BY <2>1 DEF ChunkOf
  <2>3. \A k \in 1 .. Len(s) : PieceOf(s[k], content, start)
    BY ONLY <2>2, LargeChunkCut, Weighed(L)
  <2>4. PieceOf(s[j], c.content, c.start)
    BY ONLY <2>3, j \in 1 .. Len(s), content = c.content, start = c.start
  <2> QED
    BY ONLY <2>4, PieceHolds, file \in Seq(L), c \in ChunkOf(L), RawHolds(file, c)
<1> QED
  BY <1>1, <1>2

CutAll(raw) == [i \in DOMAIN raw |-> CutLarge(raw[i])]

LEMMA CutAllIn ==
  ASSUME NEW L, Weighed(L), NEW raw \in Seq(ChunkOf(L))
  PROVE  /\ CutAll(raw) \in Seq(Seq(ChunkOf(L))) /\ Len(CutAll(raw)) = Len(raw)
         /\ \A i \in 1 .. Len(raw) : CutAll(raw)[i] = CutLarge(raw[i])
<1> PICK n, Q, C : n = Len(raw) /\ Q = Seq(ChunkOf(L)) /\ C = ChunkOf(L)
  OBVIOUS
<1>1. n \in Nat /\ DOMAIN raw = 1 .. n /\ \A i \in 1 .. n : raw[i] \in C
  BY C = ChunkOf(L)
<1>2. \A i \in 1 .. n : CutLarge(raw[i]) \in Q
  BY ONLY <1>1, CutLargeIs, Weighed(L), Q = Seq(ChunkOf(L)), C = ChunkOf(L)
<1>3. CutAll(raw) = [i \in 1 .. n |-> CutLarge(raw[i])]
  BY ONLY <1>1 DEF CutAll
<1>4. CutAll(raw) \in [1 .. n -> Q]
  BY ONLY <1>2, <1>3
<1>5. CutAll(raw) \in Seq(Q) /\ Len(CutAll(raw)) = n
  BY ONLY <1>1, <1>4
<1> QED
  BY ONLY <1>3, <1>5, n = Len(raw), Q = Seq(ChunkOf(L))

LEMMA CutAllFits ==
  ASSUME NEW L, Weighed(L), NEW raw \in Seq(ChunkOf(L))
  PROVE  \A j \in 1 .. Len(Flat(CutAll(raw))) : Fits(Flat(CutAll(raw))[j])
<1> PICK P, C, lists : P = {c \in ChunkOf(L) : Fits(c)} /\ C = ChunkOf(L) /\ lists = CutAll(raw)
  OBVIOUS
<1>1. lists \in Seq(Seq(C)) /\ Len(lists) = Len(raw) /\ \A i \in 1 .. Len(raw) : lists[i] = CutLarge(raw[i])
  BY CutAllIn
<1>2. ASSUME NEW i \in 1 .. Len(lists), NEW j \in 1 .. Len(lists[i]) PROVE lists[i][j] \in P
  <2>1. raw[i] \in ChunkOf(L) /\ lists[i] = CutLarge(raw[i])
    BY <1>1
  <2> PICK s : s = CutLarge(raw[i])
    OBVIOUS
  <2>2. s \in Seq(C) /\ \A k \in 1 .. Len(s) : Fits(s[k])
    BY ONLY <2>1, CutLargeIs, Weighed(L), C = ChunkOf(L), s = CutLarge(raw[i])
  <2>3. j \in 1 .. Len(s) /\ lists[i] = s
    BY ONLY <2>1, j \in 1 .. Len(lists[i]), s = CutLarge(raw[i])
  <2>4. s[j] \in C /\ Fits(s[j])
    BY ONLY <2>2, <2>3
  <2> QED
    BY ONLY <2>3, <2>4, C = ChunkOf(L), P = {c \in ChunkOf(L) : Fits(c)}
<1>3. \A j \in 1 .. Len(Flat(lists)) : Flat(lists)[j] \in P
  BY ONLY <1>1, <1>2, FlatMember
<1> QED
  BY ONLY <1>3, P = {c \in ChunkOf(L) : Fits(c)}, lists = CutAll(raw)

LEMMA CutAllHolds ==
  ASSUME NEW L, Weighed(L), NEW file \in Seq(L), NEW raw \in Seq(ChunkOf(L)),
         \A i \in 1 .. Len(raw) : RawHolds(file, raw[i])
  PROVE  \A j \in 1 .. Len(Flat(CutAll(raw))) : RangeHolds(file, Flat(CutAll(raw))[j])
<1> PICK P, C, lists : P = {c \in ChunkOf(L) : RangeHolds(file, c)} /\ C = ChunkOf(L) /\ lists = CutAll(raw)
  OBVIOUS
<1>1. lists \in Seq(Seq(C)) /\ Len(lists) = Len(raw) /\ \A i \in 1 .. Len(raw) : lists[i] = CutLarge(raw[i])
  BY CutAllIn
<1>2. ASSUME NEW i \in 1 .. Len(lists), NEW j \in 1 .. Len(lists[i]) PROVE lists[i][j] \in P
  <2>1. raw[i] \in ChunkOf(L) /\ lists[i] = CutLarge(raw[i]) /\ RawHolds(file, raw[i])
    BY <1>1
  <2> PICK s : s = CutLarge(raw[i])
    OBVIOUS
  <2>2. s \in Seq(C)
    BY ONLY <2>1, CutLargeIs, Weighed(L), C = ChunkOf(L), s = CutLarge(raw[i])
  <2>3. \A k \in 1 .. Len(s) : RangeHolds(file, s[k])
    BY ONLY <2>1, CutLargeHolds, Weighed(L), file \in Seq(L), s = CutLarge(raw[i])
  <2>4. j \in 1 .. Len(s) /\ lists[i] = s
    BY ONLY <2>1, j \in 1 .. Len(lists[i]), s = CutLarge(raw[i])
  <2>5. s[j] \in C /\ RangeHolds(file, s[j])
    BY ONLY <2>2, <2>3, <2>4
  <2> QED
    BY ONLY <2>4, <2>5, C = ChunkOf(L), P = {c \in ChunkOf(L) : RangeHolds(file, c)}
<1>3. \A j \in 1 .. Len(Flat(lists)) : Flat(lists)[j] \in P
  BY ONLY <1>1, <1>2, FlatMember
<1> QED
  BY ONLY <1>3, P = {c \in ChunkOf(L) : RangeHolds(file, c)}, lists = CutAll(raw)

LEMMA CutAllText ==
  ASSUME NEW L, Weighed(L), NEW raw \in Seq(ChunkOf(L))
  PROVE  TextOfChunks(Flat(CutAll(raw))) = TextOfChunks(raw)
<1> PICK n, C : n = Len(raw) /\ C = ChunkOf(L)
  OBVIOUS
<1>1. n \in Nat /\ raw \in Seq(C)
  BY C = ChunkOf(L)
<1> DEFINE Upto(k) == SubSeq(raw, 1, k)
           T == {k \in 0 .. n : TextOfChunks(Flat(CutAll(Upto(k)))) = TextOfChunks(Upto(k))}
<1>2. 0 \in T
  <2>1. Upto(0) = <<>>
    BY SubSeqEmpty
  <2>2. CutAll(<<>>) = <<>>
    <3> PICK Q : Q = Seq(C)
      OBVIOUS
    <3>1. <<>> \in Seq(C) /\ Len(<<>>) = 0
      OBVIOUS
    <3>2. CutAll(<<>>) \in Seq(Q) /\ Len(CutAll(<<>>)) = 0
      BY ONLY <3>1, CutAllIn, Weighed(L), C = ChunkOf(L), Q = Seq(C)
    <3> QED
      BY ONLY <3>2
  <2>3. TextOfChunks(Flat(CutAll(Upto(0)))) = TextOfChunks(Upto(0))
    BY ONLY <2>1, <2>2, FlatNone, Zenon
  <2> QED
    BY <1>1, <2>3
<1>3. \A k \in 0 .. n - 1 : k \in T => k + 1 \in T
  <2> TAKE k \in 0 .. n - 1
  <2> HAVE k \in T
  <2> PICK a, b, x : a = Upto(k) /\ b = Upto(k + 1) /\ x = raw[k + 1]
    OBVIOUS
  <2>1. k + 1 \in 0 .. n /\ k + 1 \in 1 .. n /\ k \in 0 .. n
    BY ONLY <1>1, k \in 0 .. n - 1
  <2>2. a \in Seq(C) /\ x \in C /\ Len(a) = k
    BY ONLY <1>1, <2>1, a = SubSeq(raw, 1, k), x = raw[k + 1], n = Len(raw)
  <2>3. b = Append(a, x) /\ b \in Seq(C) /\ Len(b) = k + 1
    BY ONLY <1>1, <2>1, a = SubSeq(raw, 1, k), b = SubSeq(raw, 1, k + 1), x = raw[k + 1], n = Len(raw)
  <2>4. b[k + 1] = x /\ \A i \in 1 .. k : b[i] = a[i]
    BY ONLY <2>1, <2>2, <2>3
  <2> PICK y, s, t, Q : y = CutLarge(x) /\ s = CutAll(a) /\ t = CutAll(b) /\ Q = Seq(C)
    OBVIOUS
  <2>5. y \in Q /\ TextOfChunks(y) = TextOf(x.content)
    BY ONLY <2>2, CutLargeIs, Weighed(L), C = ChunkOf(L), y = CutLarge(x), Q = Seq(C)
  <2>6. s \in Seq(Q) /\ Len(s) = k /\ \A i \in 1 .. k : s[i] = CutLarge(a[i])
    BY ONLY <2>2, CutAllIn, Weighed(L), C = ChunkOf(L), s = CutAll(a), Q = Seq(C)
  <2>7. t \in Seq(Q) /\ Len(t) = k + 1 /\ \A i \in 1 .. k + 1 : t[i] = CutLarge(b[i])
    BY ONLY <2>3, CutAllIn, Weighed(L), C = ChunkOf(L), t = CutAll(b), Q = Seq(C)
  <2>8. t = Append(s, y)
    <3> PICK u : u = Append(s, y)
      OBVIOUS
    <3>1. k \in Nat
      BY ONLY k \in 0 .. n - 1
    <3>2. u \in Seq(Q) /\ Len(u) = k + 1 /\ u[k + 1] = y /\ \A i \in 1 .. k : u[i] = s[i]
      BY ONLY <2>5, <2>6, <3>1, u = Append(s, y)
    <3>3. ASSUME NEW i \in 1 .. Len(t) PROVE t[i] = u[i]
      <4>1. i \in 1 .. k + 1
        BY ONLY <2>7, i \in 1 .. Len(t)
      <4>2. CASE i = k + 1
        BY ONLY <2>4, <2>7, <3>2, <4>1, <4>2, y = CutLarge(x)
      <4>3. CASE i # k + 1
        <5>1. i \in 1 .. k
          BY ONLY <3>1, <4>1, <4>3
        <5> QED
          BY ONLY <2>4, <2>6, <2>7, <3>2, <4>1, <5>1
      <4> QED
        BY ONLY <4>2, <4>3
    <3>4. Len(t) = Len(u)
      BY ONLY <2>7, <3>2
    <3>5. t = u
      BY ONLY <2>7, <3>2, <3>3, <3>4, SeqEqual
    <3> QED
      BY ONLY <3>5, u = Append(s, y)
  <2>9. Flat(t) = Flat(s) \o y /\ Flat(s) \in Seq(C)
    <3>1. Flat(Append(s, y)) = Flat(s) \o y
      BY ONLY <2>5, <2>6, FlatAppend, Q = Seq(C)
    <3>2. Flat(s) \in Seq(C)
      BY ONLY <2>6, FlatIn, Q = Seq(C)
    <3> QED
      BY ONLY <2>8, <3>1, <3>2
  <2>10. TextOfChunks(Flat(s) \o y) = TextOfChunks(Flat(s)) \o TextOfChunks(y)
    BY ONLY <2>5, <2>9, ChunksTextConcat, C = ChunkOf(L), Q = Seq(C)
  <2>11. TextOfChunks(Append(a, x)) = TextOfChunks(a) \o TextOf(x.content)
    BY ONLY <2>2, ChunksTextAppend, C = ChunkOf(L)
  <2>12. TextOfChunks(Flat(s)) = TextOfChunks(a)
    BY a = Upto(k), s = CutAll(a)
  <2>13. TextOfChunks(Flat(CutAll(b))) = TextOfChunks(b)
    BY ONLY <2>3, <2>5, <2>9, <2>10, <2>11, <2>12, t = CutAll(b)
  <2> QED
    BY <2>1, <2>13, b = Upto(k + 1)
<1>4. n \in T
  <2> HIDE DEF T
  <2>1. \A k \in 0 .. n : k \in T
    BY ONLY <1>1, <1>2, <1>3, UpTo
  <2> QED
    BY ONLY <1>1, <2>1
<1>5. Upto(n) = raw
  BY ONLY <1>1, n = Len(raw)
<1> QED
  BY <1>4, <1>5

-----------------------------------------------------------------------------
(***************************************************************************)
(* The parsers of Terraform and Go: a chunk is the lines of its range.     *)
(***************************************************************************)
AllHold(file, chunks) == \A j \in 1 .. Len(chunks) : RawHolds(file, chunks[j])

LEMMA RangeRaw ==
  ASSUME NEW L, NEW file \in Seq(L), NEW a \in Nat, NEW b \in Nat, 1 <= a, a <= b + 1, b <= Len(file)
  PROVE  Chunk(SubSeq(file, a, b), a, b) \in ChunkOf(L) /\ RawHolds(file, Chunk(SubSeq(file, a, b), a, b))
<1> PICK x, p, c : x = a - 1 /\ p = SubSeq(file, a, b) /\ c = Chunk(SubSeq(file, a, b), a, b)
  OBVIOUS
<1>1. x \in Nat /\ a = x + 1 /\ x <= b
  BY ONLY a \in Nat, b \in Nat, 1 <= a, a <= b + 1, x = a - 1
<1>2. p \in Seq(L) /\ Len(p) = b - x
  BY ONLY <1>1, PieceIs, file \in Seq(L), b \in Nat, b <= Len(file), p = SubSeq(file, a, b)
<1>3. a + Len(p) - 1 = b
  BY ONLY <1>1, <1>2, a \in Nat, b \in Nat
<1>4. a \in Int /\ b \in Int /\ b <= b
  BY ONLY a \in Nat, b \in Nat
<1>5. c \in ChunkOf(L) /\ c.content = p /\ c.start = a /\ c.end = b
  <2>1. /\ Chunk(p, a, b) \in ChunkOf(L) /\ Chunk(p, a, b).content = p
        /\ Chunk(p, a, b).start = a /\ Chunk(p, a, b).end = b
    BY ONLY <1>2, <1>4, ChunkIs
  <2>2. c = Chunk(p, a, b)
    BY ONLY p = SubSeq(file, a, b), c = Chunk(SubSeq(file, a, b), a, b)
  <2> QED
    BY ONLY <2>1, <2>2
<1>6. RawHolds(file, c)
  BY ONLY <1>3, <1>4, <1>5, 1 <= a, b <= Len(file), p = SubSeq(file, a, b) DEF RawHolds
<1> QED
  BY ONLY <1>5, <1>6, c = Chunk(SubSeq(file, a, b), a, b)

LEMMA HoldsAppend ==
  ASSUME NEW L, NEW file, NEW chunks \in Seq(ChunkOf(L)), NEW c \in ChunkOf(L)
  PROVE  /\ Append(chunks, c) \in Seq(ChunkOf(L))
         /\ AllHold(file, chunks) /\ RawHolds(file, c) => AllHold(file, Append(chunks, c))
<1> PICK n, s, C : n = Len(chunks) /\ s = Append(chunks, c) /\ C = ChunkOf(L)
  OBVIOUS
<1>1. n \in Nat /\ s \in Seq(C) /\ Len(s) = n + 1 /\ s[n + 1] = c /\ \A j \in 1 .. n : s[j] = chunks[j]
  BY ONLY chunks \in Seq(ChunkOf(L)), c \in ChunkOf(L), n = Len(chunks), s = Append(chunks, c), C = ChunkOf(L)
<1>2. ASSUME AllHold(file, chunks), RawHolds(file, c), NEW j \in 1 .. Len(s) PROVE RawHolds(file, s[j])
  <2>1. CASE j = n + 1
    BY ONLY <1>1, <1>2, <2>1
  <2>2. CASE j # n + 1
    <3>1. j \in 1 .. n
      BY ONLY <1>1, <2>2, j \in 1 .. Len(s)
    <3>2. RawHolds(file, chunks[j])
      BY ONLY <1>2, <3>1, n = Len(chunks) DEF AllHold
    <3> QED
      BY ONLY <1>1, <3>1, <3>2
  <2> QED
    BY ONLY <2>1, <2>2
<1>3. AllHold(file, chunks) /\ RawHolds(file, c) => AllHold(file, s)
  BY ONLY <1>2 DEF AllHold
<1> QED
  BY ONLY <1>1, <1>3, s = Append(chunks, c), C = ChunkOf(L)

LEMMA WholeRaw ==
  ASSUME NEW L, NEW file \in Seq(L)
  PROVE  WholeFile(file) \in ChunkOf(L) /\ RawHolds(file, WholeFile(file))
<1> PICK n : n = Len(file)
  OBVIOUS
<1>1. n \in Nat /\ SubSeq(file, 1, n) = file
  BY n = Len(file)
<1> PICK z : z = 1
  OBVIOUS
<1>2. z \in Nat /\ 1 <= z /\ z <= n + 1 /\ n <= Len(file)
  BY ONLY <1>1, n = Len(file), z = 1
<1>3. Chunk(SubSeq(file, z, n), z, n) \in ChunkOf(L) /\ RawHolds(file, Chunk(SubSeq(file, z, n), z, n))
  BY ONLY <1>1, <1>2, RangeRaw, file \in Seq(L)
<1>4. WholeFile(file) = Chunk(SubSeq(file, z, n), z, n)
  BY ONLY <1>1, z = 1, n = Len(file) DEF WholeFile
<1> QED
  BY ONLY <1>3, <1>4

LEMMA OneRaw ==
  ASSUME NEW L, NEW file, NEW c \in ChunkOf(L)
  PROVE  <<c>> \in Seq(ChunkOf(L)) /\ (RawHolds(file, c) => AllHold(file, <<c>>))
<1> PICK s, C : s = <<c>> /\ C = ChunkOf(L)
  OBVIOUS
<1>1. s \in Seq(C) /\ Len(s) = 1 /\ \A j \in 1 .. 1 : s[j] = c
  BY ONLY c \in ChunkOf(L), s = <<c>>, C = ChunkOf(L)
<1>2. RawHolds(file, c) => AllHold(file, s)
  BY ONLY <1>1 DEF AllHold
<1> QED
  BY ONLY <1>1, <1>2, s = <<c>>, C = ChunkOf(L)

LEMMA OrWholeIs ==
  ASSUME NEW L, NEW file \in Seq(L), NEW chunks \in Seq(ChunkOf(L))
  PROVE  /\ OrWholeFile(chunks, file) \in Seq(ChunkOf(L))
         /\ AllHold(file, chunks) => AllHold(file, OrWholeFile(chunks, file))
<1>1. <<WholeFile(file)>> \in Seq(ChunkOf(L)) /\ AllHold(file, <<WholeFile(file)>>)
  BY WholeRaw, OneRaw
<1>2. OrWholeFile(chunks, file) = IF chunks = <<>> THEN <<WholeFile(file)>> ELSE chunks
  BY DEF OrWholeFile
<1>3. CASE chunks = <<>>
  BY ONLY <1>1, <1>2, <1>3
<1>4. CASE chunks # <<>>
  BY ONLY <1>2, <1>4, chunks \in Seq(ChunkOf(L))
<1> QED
  BY <1>3, <1>4

BraceCounts(L) == \A l \in L : Opens[l] \in Nat /\ Closes[l] \in Nat

TfStates(L, n) ==
    {st \in [inBlock : BOOLEAN, from : Int, depth : Int, chunks : Seq(ChunkOf(L))] : st.inBlock => st.from \in 1 .. n}

TfHolds(file, st, k) == (st.inBlock => st.from <= k) /\ AllHold(file, st.chunks)

Opening(file, st, k) == ~ st.inBlock /\ file[k] \in Header /\ Opens[file[k]] > 0

TfFrom(file, st, k) == IF Opening(file, st, k) THEN k ELSE st.from

TfDepth(file, st, k) == (IF Opening(file, st, k) THEN 0 ELSE st.depth) + Opens[file[k]] - Closes[file[k]]

TfBlock(file, st, k) == Chunk(SubSeq(file, TfFrom(file, st, k), k), TfFrom(file, st, k), k)

LEMMA TfLineCases ==
  ASSUME NEW file, NEW st, NEW k
  PROVE  /\ ~ st.inBlock /\ ~ Opening(file, st, k) => TfLine(file, st, k) = st
         /\ st.inBlock \/ Opening(file, st, k) =>
              TfLine(file, st, k) =
                IF TfDepth(file, st, k) > 0
                THEN [inBlock |-> TRUE, from |-> TfFrom(file, st, k), depth |-> TfDepth(file, st, k), chunks |-> st.chunks]
                ELSE [inBlock |-> FALSE, from |-> TfFrom(file, st, k), depth |-> TfDepth(file, st, k),
                      chunks |-> Append(st.chunks, TfBlock(file, st, k))]
<1>1. ASSUME ~ st.inBlock, ~ Opening(file, st, k) PROVE TfLine(file, st, k) = st
  BY ONLY <1>1 DEF TfLine, Opening
<1>2. ASSUME st.inBlock \/ Opening(file, st, k)
      PROVE  TfLine(file, st, k) =
                [inBlock |-> TfDepth(file, st, k) > 0, from |-> TfFrom(file, st, k), depth |-> TfDepth(file, st, k),
                 chunks |-> IF TfDepth(file, st, k) > 0 THEN st.chunks ELSE Append(st.chunks, TfBlock(file, st, k))]
  BY ONLY <1>2, Zenon DEF TfLine, Opening, TfFrom, TfDepth, TfBlock
<1> PICK d, f, c : d = TfDepth(file, st, k) /\ f = TfFrom(file, st, k) /\ c = Append(st.chunks, TfBlock(file, st, k))
  OBVIOUS
<1>3. CASE d > 0
  <2>1. (d > 0) = TRUE
    BY ONLY <1>3
  <2>2. [inBlock |-> d > 0, from |-> f, depth |-> d, chunks |-> IF d > 0 THEN st.chunks ELSE c]
          = [inBlock |-> TRUE, from |-> f, depth |-> d, chunks |-> st.chunks]
    BY ONLY <1>3, <2>1
  <2> QED
    BY ONLY <1>1, <1>2, <1>3, <2>2, d = TfDepth(file, st, k), f = TfFrom(file, st, k), c = Append(st.chunks, TfBlock(file, st, k))
<1>4. CASE ~ (d > 0)
  <2>1. (d > 0) = FALSE
    BY ONLY <1>4
  <2>2. [inBlock |-> d > 0, from |-> f, depth |-> d, chunks |-> IF d > 0 THEN st.chunks ELSE c]
          = [inBlock |-> FALSE, from |-> f, depth |-> d, chunks |-> c]
    BY ONLY <1>4, <2>1
  <2> QED
    BY ONLY <1>1, <1>2, <1>4, <2>2, d = TfDepth(file, st, k), f = TfFrom(file, st, k), c = Append(st.chunks, TfBlock(file, st, k))
<1> QED
  BY ONLY <1>3, <1>4

LEMMA TfLineHolds ==
  ASSUME NEW L, BraceCounts(L), NEW file \in Seq(L), NEW st \in TfStates(L, Len(file)), NEW k \in 1 .. Len(file)
  PROVE  /\ TfLine(file, st, k) \in TfStates(L, Len(file))
         /\ TfHolds(file, st, k - 1) => TfHolds(file, TfLine(file, st, k), k)
<1> PICK n, Q, S, t : /\ n = Len(file) /\ Q = Seq(ChunkOf(L)) /\ t = TfLine(file, st, k)
                      /\ S = [inBlock : BOOLEAN, from : Int, depth : Int, chunks : Seq(ChunkOf(L))]
  OBVIOUS
<1>1. n \in Nat /\ k \in Nat /\ 1 <= k /\ k <= n
  BY n = Len(file)
<1>2. st \in [inBlock : BOOLEAN, from : Int, depth : Int, chunks : Q] /\ (st.inBlock => st.from \in 1 .. n)
  BY ONLY st \in TfStates(L, Len(file)), n = Len(file), Q = Seq(ChunkOf(L)) DEF TfStates
<1>3. st.inBlock \in BOOLEAN /\ st.from \in Int /\ st.depth \in Int /\ st.chunks \in Q
  BY ONLY <1>2
<1>4. CASE ~ st.inBlock /\ ~ Opening(file, st, k)
  <2>1. t = st
    BY ONLY <1>4, TfLineCases, t = TfLine(file, st, k)
  <2>2. TfHolds(file, st, k - 1) => TfHolds(file, st, k)
    BY ONLY <1>4 DEF TfHolds
  <2> QED
    BY ONLY <2>1, <2>2, st \in TfStates(L, Len(file)), t = TfLine(file, st, k)
<1>5. CASE st.inBlock \/ Opening(file, st, k)
  <2> PICK f, d, c : f = TfFrom(file, st, k) /\ d = TfDepth(file, st, k) /\ c = TfBlock(file, st, k)
    OBVIOUS
  <2>1. f \in 1 .. n
    <3>1. Opening(file, st, k) => f = k
      BY ONLY f = TfFrom(file, st, k) DEF TfFrom
    <3>2. ~ Opening(file, st, k) => f = st.from
      BY ONLY f = TfFrom(file, st, k) DEF TfFrom
    <3> QED
      BY ONLY <1>1, <1>2, <1>5, <3>1, <3>2
  <2>2. TfHolds(file, st, k - 1) => f <= k
    <3>1. Opening(file, st, k) => f = k
      BY ONLY f = TfFrom(file, st, k) DEF TfFrom
    <3>2. ~ Opening(file, st, k) => f = st.from
      BY ONLY f = TfFrom(file, st, k) DEF TfFrom
    <3>3. TfHolds(file, st, k - 1) /\ st.inBlock => st.from <= k - 1
      BY DEF TfHolds
    <3> QED
      BY ONLY <1>1, <1>3, <1>5, <3>1, <3>2, <3>3
  <2>3. d \in Int
    <3>1. file[k] \in L
      BY ONLY <1>1, file \in Seq(L), n = Len(file)
    <3>2. Opens[file[k]] \in Nat /\ Closes[file[k]] \in Nat
      BY ONLY <3>1, BraceCounts(L) DEF BraceCounts
    <3> QED
      BY ONLY <1>3, <3>2, d = TfDepth(file, st, k) DEF TfDepth
  <2>4. c \in ChunkOf(L) /\ (f <= k => RawHolds(file, c))
    <3>1. c = Chunk(SubSeq(file, f, k), f, k)
      BY ONLY f = TfFrom(file, st, k), c = TfBlock(file, st, k) DEF TfBlock
    <3>2. CASE f <= k
      <4>1. f \in Nat /\ 1 <= f /\ f <= k + 1 /\ k <= Len(file)
        BY ONLY <1>1, <2>1, <3>2, n = Len(file)
      <4> QED
        BY ONLY <1>1, <3>1, <4>1, RangeRaw, file \in Seq(L)
    <3>3. CASE ~ (f <= k)
      <4>1. SubSeq(file, f, k) \in Seq(L) /\ f \in Int /\ k \in Int
        BY ONLY <1>1, <2>1, <3>3, file \in Seq(L), n = Len(file)
      <4> QED
        BY ONLY <3>1, <3>3, <4>1, ChunkIs
    <3> QED
      BY ONLY <3>2, <3>3
  <2> PICK more : more = Append(st.chunks, c)
    OBVIOUS
  <2>5. more \in Q /\ (AllHold(file, st.chunks) /\ f <= k => AllHold(file, more))
    BY ONLY <1>3, <2>4, HoldsAppend, Q = Seq(ChunkOf(L)), more = Append(st.chunks, c)
  <2>6. t = IF d > 0 THEN [inBlock |-> TRUE, from |-> f, depth |-> d, chunks |-> st.chunks]
            ELSE [inBlock |-> FALSE, from |-> f, depth |-> d, chunks |-> more]
    BY ONLY <1>5, TfLineCases, t = TfLine(file, st, k), f = TfFrom(file, st, k), d = TfDepth(file, st, k),
            c = TfBlock(file, st, k), more = Append(st.chunks, c)
  <2>7. t \in [inBlock : BOOLEAN, from : Int, depth : Int, chunks : Q] /\ t.from = f
    BY ONLY <1>3, <2>1, <2>3, <2>5, <2>6
  <2>8. t.chunks = st.chunks \/ t.chunks = more
    BY ONLY <2>6
  <2>9. t \in TfStates(L, Len(file))
    BY ONLY <2>1, <2>7, n = Len(file), Q = Seq(ChunkOf(L)) DEF TfStates
  <2>10. TfHolds(file, st, k - 1) => TfHolds(file, t, k)
    <3>1. TfHolds(file, st, k - 1) => AllHold(file, st.chunks)
      BY DEF TfHolds
    <3>2. TfHolds(file, st, k - 1) => AllHold(file, t.chunks) /\ t.from <= k
      BY ONLY <2>2, <2>5, <2>7, <2>8, <3>1
    <3> QED
      BY ONLY <3>2 DEF TfHolds
  <2> QED
    BY ONLY <2>9, <2>10, t = TfLine(file, st, k)
<1> QED
  BY <1>4, <1>5

TfLoop(st, file) ==
    st = [k \in 0 .. Len(file) |->
            IF k = 0 THEN [inBlock |-> FALSE, from |-> 0, depth |-> 0, chunks |-> <<>>]
            ELSE TfLine(file, st[k - 1], k)]

NoBlock == [inBlock |-> FALSE, from |-> 0, depth |-> 0, chunks |-> <<>>]

LEMMA NoBlockIn == ASSUME NEW L, NEW file, NEW n PROVE NoBlock \in TfStates(L, n) /\ TfHolds(file, NoBlock, 0)
<1> PICK Q : Q = Seq(ChunkOf(L))
  OBVIOUS
<1>1. <<>> \in Q
  BY Q = Seq(ChunkOf(L))
<1>2. NoBlock \in [inBlock : BOOLEAN, from : Int, depth : Int, chunks : Q] /\ NoBlock.inBlock = FALSE /\ NoBlock.chunks = <<>>
  BY ONLY <1>1 DEF NoBlock
<1>3. AllHold(file, <<>>)
  BY DEF AllHold
<1> QED
  BY ONLY <1>2, <1>3, Q = Seq(ChunkOf(L)) DEF TfStates, TfHolds

LEMMA TfLoopExists ==
  ASSUME NEW L, BraceCounts(L), NEW file \in Seq(L)
  PROVE  \E st : TfLoop(st, file)
<1> PICK n, Q : n = Len(file) /\ Q = TfStates(L, Len(file))
  OBVIOUS
<1> PICK g : g = [k \in 1 .. n |-> [st \in Q |-> TfLine(file, st, k)]]
  OBVIOUS
<1>1. n \in Nat /\ NoBlock \in Q
  BY NoBlockIn
<1>2. \A k \in 1 .. n, st \in Q : TfLine(file, st, k) \in Q
  BY TfLineHolds
<1>3. Rounds(g, n, Q)
  BY ONLY <1>2, g = [k \in 1 .. n |-> [st \in Q |-> TfLine(file, st, k)]] DEF Rounds
<1>4. PICK f : IsLoop(f, n, Q, NoBlock, g)
  BY ONLY <1>1, <1>3, LoopExists
<1>5. ASSUME NEW k \in 0 .. n PROVE f[k] = IF k = 0 THEN NoBlock ELSE TfLine(file, f[k - 1], k)
  <2>1. k # 0 => k \in 1 .. n /\ k - 1 \in 0 .. n
    BY ONLY <1>1, k \in 0 .. n
  <2>2. k # 0 => f[k - 1] \in Q
    BY ONLY <1>4, <2>1 DEF IsLoop
  <2>3. k # 0 => g[k][f[k - 1]] = TfLine(file, f[k - 1], k)
    BY ONLY <2>1, <2>2, g = [x \in 1 .. n |-> [st \in Q |-> TfLine(file, st, x)]]
  <2>4. f[k] = IF k = 0 THEN NoBlock ELSE g[k][f[k - 1]]
    BY ONLY <1>4, k \in 0 .. n DEF IsLoop
  <2> QED
    BY ONLY <2>3, <2>4
<1>6. f = [k \in 0 .. n |-> f[k]]
  BY ONLY <1>4 DEF IsLoop
<1>7. f = [k \in 0 .. n |-> IF k = 0 THEN NoBlock ELSE TfLine(file, f[k - 1], k)]
  BY ONLY <1>5, <1>6
<1>8. TfLoop(f, file)
  BY ONLY <1>7, n = Len(file) DEF TfLoop, NoBlock
<1> QED
  BY ONLY <1>8

LEMMA TerraformRaw ==
  ASSUME NEW L, BraceCounts(L), NEW file \in Seq(L)
  PROVE  ParseTerraform(file) \in Seq(ChunkOf(L)) /\ AllHold(file, ParseTerraform(file))
<1> DEFINE st == CHOOSE st : st = [k \in 0 .. Len(file) |->
            IF k = 0 THEN [inBlock |-> FALSE, from |-> 0, depth |-> 0, chunks |-> <<>>]
            ELSE TfLine(file, st[k - 1], k)]
<1>1. \E f : TfLoop(f, file)
  BY TfLoopExists
<1>2. TfLoop(st, file)
  BY <1>1 DEF TfLoop
<1>3. ParseTerraform(file) = OrWholeFile(st[Len(file)].chunks, file)
  BY DEF ParseTerraform
<1> HIDE DEF st
<1> PICK n : n = Len(file)
  OBVIOUS
<1>4. n \in Nat
  BY n = Len(file)
<1>5. \A k \in 0 .. n : st[k] = IF k = 0 THEN NoBlock ELSE TfLine(file, st[k - 1], k)
  BY ONLY <1>2, n = Len(file) DEF TfLoop, NoBlock
<1>6. st[0] = NoBlock /\ \A k \in 1 .. n : st[k] = TfLine(file, st[k - 1], k)
  BY ONLY <1>4, <1>5
<1> DEFINE T == {k \in 0 .. n : st[k] \in TfStates(L, n) /\ TfHolds(file, st[k], k)}
<1>7. 0 \in T
  BY <1>4, <1>6, NoBlockIn
<1>8. ASSUME NEW k \in 0 .. n - 1, k \in T PROVE k + 1 \in T
  <2>1. k + 1 \in 1 .. n /\ k + 1 \in 0 .. n /\ (k + 1) - 1 = k
    BY ONLY <1>4, k \in 0 .. n - 1
  <2>2. st[k + 1] = TfLine(file, st[k], k + 1)
    BY ONLY <1>6, <2>1
  <2>3. st[k] \in TfStates(L, n) /\ TfHolds(file, st[k], k)
    BY <1>8
  <2> PICK s, j : s = st[k] /\ j = k + 1
    OBVIOUS
  <2>4. s \in TfStates(L, Len(file)) /\ j \in 1 .. Len(file) /\ j - 1 = k /\ TfHolds(file, s, k)
    BY ONLY <2>1, <2>3, n = Len(file), s = st[k], j = k + 1
  <2>5. TfLine(file, s, j) \in TfStates(L, Len(file)) /\ (TfHolds(file, s, j - 1) => TfHolds(file, TfLine(file, s, j), j))
    BY ONLY <2>4, TfLineHolds, BraceCounts(L), file \in Seq(L)
  <2>6. TfLine(file, s, j) \in TfStates(L, n) /\ TfHolds(file, TfLine(file, s, j), j)
    BY ONLY <2>4, <2>5, n = Len(file)
  <2> QED
    BY <2>1, <2>2, <2>6, s = st[k], j = k + 1
<1>9. n \in T
  <2> HIDE DEF T
  <2>1. \A k \in 0 .. n : k \in T
    BY ONLY <1>4, <1>7, <1>8, UpTo
  <2> QED
    BY ONLY <1>4, <2>1
<1>10. st[n] \in TfStates(L, n) /\ TfHolds(file, st[n], n)
  BY <1>9
<1> PICK chunks : chunks = st[n].chunks
  OBVIOUS
<1>11. chunks \in Seq(ChunkOf(L)) /\ AllHold(file, chunks)
  <2>1. st[n].chunks \in Seq(ChunkOf(L))
    BY ONLY <1>10 DEF TfStates
  <2> QED
    BY ONLY <1>10, <2>1, chunks = st[n].chunks DEF TfHolds
<1>12. ParseTerraform(file) = OrWholeFile(chunks, file)
  BY ONLY <1>3, n = Len(file), chunks = st[n].chunks
<1> QED
  BY ONLY <1>11, <1>12, OrWholeIs, file \in Seq(L)

\* What go/parser finds: declarations with their lines in the file.
GoDecl(file) ==
    {d \in [kind : {"func", "type", "value"}, doc : Nat, from : Nat, to : Nat] :
        1 <= d.doc /\ d.doc <= d.from /\ d.from <= d.to /\ d.to <= Len(file)}

LEMMA DeclarationIs ==
  ASSUME NEW L, NEW file \in Seq(L), NEW d \in GoDecl(file)
  PROVE  /\ Declaration(file, d) \in ChunkOf(L)
         /\ (d.kind = "type" => d.doc = d.from) => RawHolds(file, Declaration(file, d))
<1> PICK n, a, b, c : n = Len(file) /\ a = d.doc /\ b = d.from /\ c = d.to
  OBVIOUS
<1>1. /\ n \in Nat /\ a \in Nat /\ b \in Nat /\ c \in Nat /\ 1 <= a /\ a <= b /\ b <= c /\ c <= n
      /\ d.kind \in {"func", "type", "value"}
  BY n = Len(file), a = d.doc, b = d.from, c = d.to DEF GoDecl
<1>2. 1 <= b /\ a <= c + 1 /\ b <= c + 1 /\ c <= Len(file) /\ b \in Int /\ c \in Int
  BY ONLY <1>1, n = Len(file)
<1>3. Chunk(SubSeq(file, a, c), a, c) \in ChunkOf(L) /\ RawHolds(file, Chunk(SubSeq(file, a, c), a, c))
  BY ONLY <1>1, <1>2, RangeRaw, file \in Seq(L)
<1>4. Chunk(SubSeq(file, b, c), b, c) \in ChunkOf(L) /\ RawHolds(file, Chunk(SubSeq(file, b, c), b, c))
  BY ONLY <1>1, <1>2, RangeRaw, file \in Seq(L)
<1>5. Chunk(SubSeq(file, a, c), b, c) \in ChunkOf(L)
  <2>1. SubSeq(file, a, c) \in Seq(L)
    BY ONLY <1>1, file \in Seq(L), n = Len(file)
  <2> QED
    BY ONLY <1>2, <2>1, ChunkIs
<1>6. CASE d.kind = "func"
  <2>1. Declaration(file, d) = Chunk(SubSeq(file, a, c), a, c)
    BY ONLY <1>6, a = d.doc, c = d.to DEF Declaration
  <2> QED
    BY ONLY <1>3, <2>1
<1>7. CASE d.kind = "type"
  <2>1. Declaration(file, d) = Chunk(SubSeq(file, a, c), b, c)
    BY ONLY <1>7, a = d.doc, b = d.from, c = d.to DEF Declaration
  <2>2. d.doc = d.from => Declaration(file, d) = Chunk(SubSeq(file, b, c), b, c)
    BY ONLY <2>1, a = d.doc, b = d.from
  <2> QED
    BY ONLY <1>4, <1>5, <1>7, <2>1, <2>2
<1>8. CASE d.kind = "value"
  <2>1. Declaration(file, d) = Chunk(SubSeq(file, b, c), b, c)
    BY ONLY <1>8, b = d.from, c = d.to DEF Declaration
  <2> QED
    BY ONLY <1>4, <2>1
<1> QED
  BY ONLY <1>1, <1>6, <1>7, <1>8

LEMMA GoRaw ==
  ASSUME NEW L, NEW file \in Seq(L), NEW decls \in Seq(GoDecl(file))
  PROVE  /\ ParseGo(file, decls) \in Seq(ChunkOf(L))
         /\ (\A i \in DOMAIN decls : decls[i].kind = "type" => decls[i].doc = decls[i].from)
              => AllHold(file, ParseGo(file, decls))
<1> PICK n, C, G, s : /\ n = Len(decls) /\ C = ChunkOf(L) /\ G = GoDecl(file)
                      /\ s = [i \in DOMAIN decls |-> Declaration(file, decls[i])]
  OBVIOUS
<1>1. n \in Nat /\ DOMAIN decls = 1 .. n /\ \A i \in 1 .. n : decls[i] \in G
  BY n = Len(decls), G = GoDecl(file)
<1>2. \A i \in 1 .. n : Declaration(file, decls[i]) \in C
  BY ONLY <1>1, DeclarationIs, file \in Seq(L), C = ChunkOf(L), G = GoDecl(file)
<1>3. s \in Seq(C) /\ Len(s) = n /\ \A i \in 1 .. n : s[i] = Declaration(file, decls[i])
  BY ONLY <1>1, <1>2, s = [i \in DOMAIN decls |-> Declaration(file, decls[i])]
<1>4. ParseGo(file, decls) = OrWholeFile(s, file)
  BY ONLY s = [i \in DOMAIN decls |-> Declaration(file, decls[i])] DEF ParseGo
<1>5. ASSUME \A i \in DOMAIN decls : decls[i].kind = "type" => decls[i].doc = decls[i].from PROVE AllHold(file, s)
  <2> SUFFICES ASSUME NEW i \in 1 .. Len(s) PROVE RawHolds(file, s[i])
    BY DEF AllHold
  <2>1. i \in 1 .. n
    BY ONLY <1>3, i \in 1 .. Len(s)
  <2>2. decls[i] \in GoDecl(file) /\ (decls[i].kind = "type" => decls[i].doc = decls[i].from)
    BY ONLY <1>1, <1>5, <2>1, G = GoDecl(file)
  <2>3. RawHolds(file, Declaration(file, decls[i]))
    BY ONLY <2>2, DeclarationIs, file \in Seq(L)
  <2> QED
    BY ONLY <1>3, <2>1, <2>3
<1>6. OrWholeFile(s, file) \in Seq(ChunkOf(L)) /\ (AllHold(file, s) => AllHold(file, OrWholeFile(s, file)))
  BY ONLY <1>3, OrWholeIs, file \in Seq(L), C = ChunkOf(L)
<1> QED
  BY ONLY <1>4, <1>5, <1>6

-----------------------------------------------------------------------------
(***************************************************************************)
(* py.go: in a file without blank or repeated lines between statements,    *)
(* the statements follow each other, and a group of them is the lines      *)
(* between two definitions.                                                *)
(***************************************************************************)
LEMMA HoldsConcat ==
  ASSUME NEW L, NEW file, NEW s \in Seq(ChunkOf(L)), NEW t \in Seq(ChunkOf(L))
  PROVE  s \o t \in Seq(ChunkOf(L)) /\ (AllHold(file, s) /\ AllHold(file, t) => AllHold(file, s \o t))
<1> PICK C, u, m, n : C = ChunkOf(L) /\ u = s \o t /\ m = Len(s) /\ n = Len(t)
  OBVIOUS
<1>1. s \in Seq(C) /\ t \in Seq(C) /\ m \in Nat /\ n \in Nat
  BY C = ChunkOf(L), m = Len(s), n = Len(t)
<1>2. u \in Seq(C) /\ Len(u) = m + n /\ (\A k \in 1 .. m : u[k] = s[k]) /\ \A k \in 1 .. n : u[m + k] = t[k]
  <2>1. /\ u \in Seq(C) /\ Len(u) = Len(s) + Len(t)
        /\ \A k \in 1 .. Len(s) : u[k] = s[k]
        /\ \A k \in 1 .. Len(t) : u[Len(s) + k] = t[k]
    BY ONLY <1>1, ConcatIs, u = s \o t
  <2> QED
    BY ONLY <2>1, m = Len(s), n = Len(t)
<1>3. ASSUME AllHold(file, s), AllHold(file, t), NEW j \in 1 .. Len(u) PROVE RawHolds(file, u[j])
  <2>0. j \in 1 .. m + n
    BY ONLY <1>2, j \in 1 .. Len(u)
  <2>1. CASE j <= m
    <3>1. j \in 1 .. m
      BY ONLY <1>1, <2>0, <2>1
    <3>2. RawHolds(file, s[j])
      BY ONLY <1>3, <3>1, m = Len(s) DEF AllHold
    <3> QED
      BY ONLY <1>2, <3>1, <3>2
  <2>2. CASE ~ (j <= m)
    <3> PICK k : k = j - m
      OBVIOUS
    <3>1. k \in 1 .. n /\ j = m + k
      BY ONLY <1>1, <2>0, <2>2, k = j - m
    <3>2. RawHolds(file, t[k])
      BY ONLY <1>3, <3>1, n = Len(t) DEF AllHold
    <3>3. u[m + k] = t[k]
      BY ONLY <1>2, <3>1
    <3> QED
      BY ONLY <3>1, <3>2, <3>3
  <2> QED
    BY ONLY <2>1, <2>2
<1>4. AllHold(file, s) /\ AllHold(file, t) => AllHold(file, u)
  BY ONLY <1>3 DEF AllHold
<1> QED
  BY ONLY <1>2, <1>4, C = ChunkOf(L), u = s \o t

GatherStep(before, x) == IF before # <<>> /\ before[Len(before)] = x THEN before ELSE Append(before, x)

GatherLoop(h, group, lines) ==
    h = [k \in 0 .. Len(lines) |->
            IF k = 0 THEN group
            ELSE LET before == h[k - 1]
                 IN  IF before # <<>> /\ before[Len(before)] = lines[k] THEN before
                     ELSE Append(before, lines[k])]

LEMMA GatherLoopExists ==
  ASSUME NEW L, NEW group \in Seq(L), NEW lines \in Seq(L)
  PROVE  \E h : GatherLoop(h, group, lines)
<1> PICK n, Q : n = Len(lines) /\ Q = Seq(L)
  OBVIOUS
<1> PICK g : g = [k \in 1 .. n |-> [s \in Q |-> GatherStep(s, lines[k])]]
  OBVIOUS
<1>1. n \in Nat /\ group \in Q /\ \A k \in 1 .. n : lines[k] \in L
  BY n = Len(lines), Q = Seq(L)
<1>2. \A k \in 1 .. n, s \in Q : GatherStep(s, lines[k]) \in Q
  <2> TAKE k \in 1 .. n, s \in Q
  <2>1. s \in Seq(L) /\ lines[k] \in L
    BY ONLY <1>1, Q = Seq(L), s \in Q, k \in 1 .. n
  <2>2. Append(s, lines[k]) \in Seq(L)
    BY ONLY <2>1
  <2> QED
    BY ONLY <2>1, <2>2, Q = Seq(L) DEF GatherStep
<1>3. Rounds(g, n, Q)
  BY ONLY <1>2, g = [k \in 1 .. n |-> [s \in Q |-> GatherStep(s, lines[k])]] DEF Rounds
<1>4. PICK f : IsLoop(f, n, Q, group, g)
  BY ONLY <1>1, <1>3, LoopExists
<1>5. ASSUME NEW k \in 0 .. n PROVE f[k] = IF k = 0 THEN group ELSE GatherStep(f[k - 1], lines[k])
  <2>1. k # 0 => k \in 1 .. n /\ k - 1 \in 0 .. n
    BY ONLY <1>1, k \in 0 .. n
  <2>2. k # 0 => f[k - 1] \in Q
    BY ONLY <1>4, <2>1 DEF IsLoop
  <2>3. k # 0 => g[k][f[k - 1]] = GatherStep(f[k - 1], lines[k])
    BY ONLY <2>1, <2>2, g = [x \in 1 .. n |-> [s \in Q |-> GatherStep(s, lines[x])]]
  <2>4. f[k] = IF k = 0 THEN group ELSE g[k][f[k - 1]]
    BY ONLY <1>4, k \in 0 .. n DEF IsLoop
  <2> QED
    BY ONLY <2>3, <2>4
<1>6. f = [k \in 0 .. n |-> f[k]]
  BY ONLY <1>4 DEF IsLoop
<1>7. f = [k \in 0 .. n |-> IF k = 0 THEN group ELSE GatherStep(f[k - 1], lines[k])]
  BY ONLY <1>5, <1>6
<1>8. GatherLoop(f, group, lines)
  BY ONLY <1>7, n = Len(lines), Zenon DEF GatherLoop, GatherStep
<1> QED
  BY ONLY <1>8

GatherRun(h, group, lines, L) ==
    /\ \A k \in 0 .. Len(lines) : h[k] \in Seq(L)
    /\ h[0] = group
    /\ \A k \in 1 .. Len(lines) : h[k] = GatherStep(h[k - 1], lines[k])

LEMMA GatherIs ==
  ASSUME NEW L, NEW group \in Seq(L), NEW lines \in Seq(L)
  PROVE  \E h : GatherRun(h, group, lines, L) /\ Gather(group, lines) = h[Len(lines)]
<1> DEFINE h == CHOOSE h : h = [k \in 0 .. Len(lines) |->
            IF k = 0 THEN group
            ELSE LET before == h[k - 1]
                 IN  IF before # <<>> /\ before[Len(before)] = lines[k] THEN before
                     ELSE Append(before, lines[k])]
<1>1. \E f : GatherLoop(f, group, lines)
  BY GatherLoopExists
<1>2. GatherLoop(h, group, lines)
  BY <1>1 DEF GatherLoop
<1>3. Gather(group, lines) = h[Len(lines)]
  BY DEF Gather
<1> HIDE DEF h
<1> PICK n, Q : n = Len(lines) /\ Q = Seq(L)
  OBVIOUS
<1>4. n \in Nat /\ \A k \in 1 .. n : lines[k] \in L
  BY n = Len(lines)
<1>5. \A k \in 0 .. n : h[k] = IF k = 0 THEN group ELSE GatherStep(h[k - 1], lines[k])
  BY ONLY <1>2, n = Len(lines) DEF GatherLoop, GatherStep
<1>6. h[0] = group /\ \A k \in 1 .. n : h[k] = GatherStep(h[k - 1], lines[k])
  BY ONLY <1>4, <1>5
<1> DEFINE T == {k \in 0 .. n : h[k] \in Q}
<1>7. 0 \in T
  BY <1>4, <1>6, Q = Seq(L)
<1>8. ASSUME NEW k \in 0 .. n - 1, k \in T PROVE k + 1 \in T
  <2>1. k + 1 \in 1 .. n /\ k + 1 \in 0 .. n /\ (k + 1) - 1 = k
    BY ONLY <1>4, k \in 0 .. n - 1
  <2> PICK s, x : s = h[k] /\ x = lines[k + 1]
    OBVIOUS
  <2>2. h[k + 1] = GatherStep(s, x) /\ x \in L
    BY ONLY <1>4, <1>6, <2>1, s = h[k], x = lines[k + 1]
  <2>3. s \in Seq(L)
    BY <1>8, s = h[k], Q = Seq(L)
  <2>4. Append(s, x) \in Seq(L)
    BY ONLY <2>2, <2>3
  <2>5. GatherStep(s, x) \in Q
    BY ONLY <2>3, <2>4, Q = Seq(L) DEF GatherStep
  <2> QED
    BY <2>1, <2>2, <2>5
<1>9. \A k \in 0 .. n : k \in T
  <2> HIDE DEF T
  <2> QED
    BY ONLY <1>4, <1>7, <1>8, UpTo
<1>10. \A k \in 0 .. n : h[k] \in Q
  BY <1>9
<1> QED
  BY ONLY <1>3, <1>6, <1>10, n = Len(lines), Q = Seq(L) DEF GatherRun

LEMMA GatherIn == ASSUME NEW L, NEW group \in Seq(L), NEW lines \in Seq(L) PROVE Gather(group, lines) \in Seq(L)
<1>1. PICK h : GatherRun(h, group, lines, L) /\ Gather(group, lines) = h[Len(lines)]
  BY GatherIs
<1>2. Len(lines) \in 0 .. Len(lines)
  OBVIOUS
<1> QED
  BY ONLY <1>1, <1>2 DEF GatherRun

NoneRepeated(file) == \A k \in 1 .. Len(file) - 1 : file[k] # file[k + 1]

LEMMA GatherAll ==
  ASSUME NEW L, NEW file \in Seq(L), NoneRepeated(file), NEW a \in Nat, NEW m \in Nat, NEW t \in Nat,
         a <= m, m <= t, t <= Len(file)
  PROVE  Gather(SubSeq(file, a + 1, m), SubSeq(file, m + 1, t)) = SubSeq(file, a + 1, t)
<1> PICK n, d, group, lines, A : /\ n = Len(file) /\ d = t - m /\ group = SubSeq(file, a + 1, m)
                                 /\ lines = SubSeq(file, m + 1, t) /\ A = a + 1
  OBVIOUS
<1>1. n \in Nat /\ d \in Nat /\ m + d = t /\ t <= n /\ m <= n
  BY n = Len(file), d = t - m
<1>2. group \in Seq(L)
  <2>1. m <= Len(file)
    BY ONLY <1>1, n = Len(file)
  <2> QED
    BY ONLY <2>1, PieceIs, file \in Seq(L), a \in Nat, m \in Nat, a <= m, group = SubSeq(file, a + 1, m)
<1>3. lines \in Seq(L) /\ Len(lines) = d /\ \A k \in 1 .. d : lines[k] = file[m + k]
  BY ONLY PieceIs, file \in Seq(L), m \in Nat, t \in Nat, m <= t, t <= Len(file), lines = SubSeq(file, m + 1, t), d = t - m
<1>4. PICK h : GatherRun(h, group, lines, L) /\ Gather(group, lines) = h[d]
  BY ONLY <1>2, <1>3, GatherIs
<1>5. h[0] = group /\ \A k \in 1 .. d : h[k] = GatherStep(h[k - 1], lines[k])
  BY ONLY <1>3, <1>4 DEF GatherRun
<1> DEFINE T == {k \in 0 .. d : h[k] = SubSeq(file, A, m + k)}
<1>6. 0 \in T
  <2>1. m + 0 = m
    BY ONLY m \in Nat
  <2>2. h[0] = SubSeq(file, A, m + 0)
    BY ONLY <1>5, <2>1, A = a + 1, group = SubSeq(file, a + 1, m)
  <2> QED
    BY <1>1, <2>2
<1>7. ASSUME NEW k \in 0 .. d - 1, k \in T PROVE k + 1 \in T
  <2> PICK i, j, s, x : i = m + k /\ j = k + 1 /\ s = SubSeq(file, A, m + k) /\ x = file[m + k + 1]
    OBVIOUS
  <2>1. /\ j \in 1 .. d /\ j \in 0 .. d /\ j - 1 = k /\ m + j = i + 1 /\ i \in Nat /\ i + 1 <= n /\ A \in 1 .. i + 1
        /\ m + k + 1 = i + 1 /\ a <= i
    BY ONLY <1>1, k \in 0 .. d - 1, m \in Nat, a \in Nat, a <= m, i = m + k, j = k + 1, A = a + 1
  <2>2. h[k] = s
    BY <1>7, s = SubSeq(file, A, m + k)
  <2>3. h[j] = GatherStep(s, x)
    BY ONLY <1>3, <1>5, <2>1, <2>2, x = file[m + k + 1]
  <2>4. Append(s, x) = SubSeq(file, A, i + 1)
    <3>1. Append(SubSeq(file, A, i), file[i + 1]) = SubSeq(file, A, i + 1)
      BY ONLY <1>1, <2>1, file \in Seq(L), n = Len(file)
    <3> QED
      BY ONLY <2>1, <3>1, i = m + k, s = SubSeq(file, A, m + k), x = file[m + k + 1]
  <2>5. ~ (s # <<>> /\ s[Len(s)] = x)
    <3> SUFFICES ASSUME s # <<>> PROVE s[Len(s)] # x
      OBVIOUS
    <3>1. s \in Seq(L) /\ Len(s) = i - a /\ \A y \in 1 .. i - a : s[y] = file[a + y]
      <4>1. i <= Len(file) /\ s = SubSeq(file, a + 1, i)
        BY ONLY <1>1, <2>1, n = Len(file), i = m + k, A = a + 1, s = SubSeq(file, A, m + k)
      <4>2. a <= i /\ i \in Nat
        BY ONLY <2>1
      <4> QED
        BY ONLY <4>1, <4>2, PieceIs, file \in Seq(L), a \in Nat
    <3> PICK len : len = i - a
      OBVIOUS
    <3>2. len \in 1 .. i - a /\ a + len = i /\ i \in 1 .. n - 1
      <4>1. Len(s) # 0
        BY ONLY <3>1, s # <<>>
      <4>2. Len(s) = len /\ len \in Nat /\ len # 0
        BY ONLY <2>1, <3>1, <4>1, len = i - a, a \in Nat
      <4>3. i \in Nat /\ i + 1 <= n /\ n \in Nat
        BY ONLY <1>1, <2>1
      <4> QED
        BY ONLY <4>2, <4>3, len = i - a, a \in Nat
    <3>3. s[len] = file[i]
      BY ONLY <3>1, <3>2
    <3>4. file[i] # file[i + 1]
      BY ONLY <3>2, NoneRepeated(file), n = Len(file) DEF NoneRepeated
    <3> QED
      BY ONLY <2>1, <3>1, <3>3, <3>4, len = i - a, x = file[m + k + 1]
  <2>6. GatherStep(s, x) = Append(s, x)
    BY ONLY <2>5 DEF GatherStep
  <2>7. h[j] = SubSeq(file, A, m + j)
    BY ONLY <2>1, <2>3, <2>4, <2>6
  <2> QED
    BY <2>1, <2>7, j = k + 1
<1>8. d \in T
  <2> HIDE DEF T
  <2>1. \A k \in 0 .. d : k \in T
    BY ONLY <1>1, <1>6, <1>7, UpTo
  <2> QED
    BY ONLY <1>1, <2>1
<1>9. h[d] = SubSeq(file, A, m + d)
  BY <1>8
<1> QED
  BY ONLY <1>1, <1>4, <1>9, group = SubSeq(file, a + 1, m), lines = SubSeq(file, m + 1, t), A = a + 1

\* What tree-sitter finds at the top level: statements with their lines in the file.
PyStatement(file) ==
    {d \in [kind : {"def", "other"}, doc : Nat, from : Nat, to : Nat] :
        1 <= d.from /\ d.from <= d.to /\ d.to <= Len(file)}

InOrder(nodes) == \A i, j \in 1 .. Len(nodes) : i < j => nodes[i].to < nodes[j].from

PyStates(L) == [chunks : Seq(ChunkOf(L)), group : Seq(L), from : Int]

PyGroup(st, node) == IF st.group = <<>> THEN <<>> ELSE <<Chunk(st.group, st.from, node.from - 1)>>

PyDef(file, node) == Chunk(SubSeq(file, node.from, node.to), node.from, node.to)

\* The chunks hold, and the group is the lines up to m that are in no chunk.
PyHolds(file, st, m) ==
    /\ AllHold(file, st.chunks) /\ st.from \in 1 .. m + 1
    /\ st.group = SubSeq(file, st.from, m)

LEMMA PyNodeIs ==
  ASSUME NEW L, NEW file \in Seq(L), NEW st \in PyStates(L), NEW node \in PyStatement(file)
  PROVE  /\ PyNode(file, st, node) \in PyStates(L)
         /\ \A m \in 0 .. Len(file) :
               (PyHolds(file, st, m) /\ node.from = m + 1 /\ NoneRepeated(file))
                  => PyHolds(file, PyNode(file, st, node), node.to)
<1> PICK n, C, Q, a, b, t : /\ n = Len(file) /\ C = Seq(ChunkOf(L)) /\ Q = Seq(L) /\ a = node.from /\ b = node.to
                            /\ t = PyNode(file, st, node)
  OBVIOUS
<1>1. n \in Nat /\ a \in Nat /\ b \in Nat /\ 1 <= a /\ a <= b /\ b <= n /\ node.kind \in {"def", "other"}
  BY n = Len(file), a = node.from, b = node.to DEF PyStatement
<1>2. st \in [chunks : C, group : Q, from : Int]
  BY ONLY st \in PyStates(L), C = Seq(ChunkOf(L)), Q = Seq(L) DEF PyStates
<1>3. st.chunks \in C /\ st.group \in Q /\ st.from \in Int
  BY ONLY <1>2
<1>4. CASE node.kind = "def"
  <2> PICK group, def : group = PyGroup(st, node) /\ def = <<PyDef(file, node)>>
    OBVIOUS
  <2>1. t = [chunks |-> st.chunks \o group \o def, group |-> <<>>, from |-> b + 1]
    BY ONLY <1>4, t = PyNode(file, st, node), b = node.to, group = PyGroup(st, node), def = <<PyDef(file, node)>>
       DEF PyNode, PyGroup, PyDef
  <2>2. def \in C /\ AllHold(file, def)
    <3>1. a <= b + 1 /\ b <= Len(file)
      BY ONLY <1>1, n = Len(file)
    <3>2. PyDef(file, node) = Chunk(SubSeq(file, a, b), a, b)
      BY ONLY a = node.from, b = node.to DEF PyDef
    <3>3. PyDef(file, node) \in ChunkOf(L) /\ RawHolds(file, PyDef(file, node))
      BY ONLY <1>1, <3>1, <3>2, RangeRaw, file \in Seq(L)
    <3> QED
      BY ONLY <3>3, OneRaw, C = Seq(ChunkOf(L)), def = <<PyDef(file, node)>>
  <2>3. group \in C
    <3>1. CASE st.group = <<>>
      <4>1. group = <<>>
        BY ONLY <3>1, group = PyGroup(st, node) DEF PyGroup
      <4> QED
        BY ONLY <4>1, C = Seq(ChunkOf(L))
    <3>2. CASE st.group # <<>>
      <4> PICK to : to = a - 1
        OBVIOUS
      <4>1. to \in Int
        BY ONLY <1>1, to = a - 1
      <4>2. Chunk(st.group, st.from, to) \in ChunkOf(L)
        BY ONLY <1>3, <4>1, ChunkIs, Q = Seq(L)
      <4>3. group = <<Chunk(st.group, st.from, to)>>
        BY ONLY <3>2, group = PyGroup(st, node), to = a - 1, a = node.from DEF PyGroup
      <4> QED
        BY ONLY <4>2, <4>3, OneRaw, C = Seq(ChunkOf(L))
    <3> QED
      BY ONLY <3>1, <3>2
  <2> PICK all : all = st.chunks \o group \o def
    OBVIOUS
  <2>4. /\ all \in C
        /\ AllHold(file, st.chunks) /\ AllHold(file, group) => AllHold(file, all)
    <3> PICK s : s = st.chunks \o group
      OBVIOUS
    <3>1. s \in C /\ (AllHold(file, st.chunks) /\ AllHold(file, group) => AllHold(file, s))
      BY ONLY <1>3, <2>3, HoldsConcat, C = Seq(ChunkOf(L)), s = st.chunks \o group
    <3>2. s \o def \in C /\ (AllHold(file, s) /\ AllHold(file, def) => AllHold(file, s \o def))
      BY ONLY <2>2, <3>1, HoldsConcat, C = Seq(ChunkOf(L))
    <3> QED
      BY ONLY <2>2, <3>1, <3>2, s = st.chunks \o group, all = st.chunks \o group \o def
  <2>5. t \in PyStates(L)
    <3>1. <<>> \in Q /\ b + 1 \in Int
      BY ONLY <1>1, Q = Seq(L)
    <3>2. t \in [chunks : C, group : Q, from : Int]
      BY ONLY <2>1, <2>4, <3>1, all = st.chunks \o group \o def
    <3> QED
      BY ONLY <3>2, C = Seq(ChunkOf(L)), Q = Seq(L) DEF PyStates
  <2>6. ASSUME NEW m \in 0 .. n, PyHolds(file, st, m), a = m + 1 PROVE PyHolds(file, t, b)
    <3>1. AllHold(file, st.chunks) /\ st.from \in 1 .. m + 1 /\ st.group = SubSeq(file, st.from, m)
      BY ONLY <2>6 DEF PyHolds
    <3>2. AllHold(file, group)
      <4>1. CASE st.group = <<>>
        <5>1. group = <<>>
          BY ONLY <4>1, group = PyGroup(st, node) DEF PyGroup
        <5> QED
          BY ONLY <5>1 DEF AllHold
      <4>2. CASE st.group # <<>>
        <5> PICK f : f = st.from
          OBVIOUS
        <5>1. f \in Nat /\ m \in Nat /\ 1 <= f /\ f <= m + 1 /\ m <= Len(file) /\ a - 1 = m
          BY ONLY <1>1, <2>6, <3>1, m \in 0 .. n, n = Len(file), f = st.from
        <5>2. Chunk(SubSeq(file, f, m), f, m) \in ChunkOf(L) /\ RawHolds(file, Chunk(SubSeq(file, f, m), f, m))
          BY ONLY <5>1, RangeRaw, file \in Seq(L)
        <5>3. group = <<Chunk(SubSeq(file, f, m), f, m)>>
          BY ONLY <3>1, <4>2, <5>1, group = PyGroup(st, node), a = node.from, f = st.from DEF PyGroup
        <5> QED
          BY ONLY <5>2, <5>3, OneRaw
      <4> QED
        BY ONLY <4>1, <4>2
    <3>3. t.chunks = all /\ t.group = <<>> /\ t.from = b + 1
      BY ONLY <2>1, all = st.chunks \o group \o def
    <3>4. <<>> = SubSeq(file, b + 1, b)
      BY ONLY <1>1, SubSeqEmpty
    <3>5. b + 1 \in 1 .. b + 1
      BY ONLY <1>1
    <3> QED
      BY ONLY <2>4, <3>1, <3>2, <3>3, <3>4, <3>5 DEF PyHolds
  <2> QED
    BY ONLY <2>5, <2>6, t = PyNode(file, st, node), n = Len(file), a = node.from, b = node.to
<1>5. CASE node.kind = "other"
  <2> PICK lines, group : lines = SubSeq(file, a, b) /\ group = Gather(st.group, SubSeq(file, a, b))
    OBVIOUS
  <2>1. lines \in Seq(L)
    BY ONLY <1>1, file \in Seq(L), n = Len(file), lines = SubSeq(file, a, b)
  <2>2. group \in Seq(L)
    BY ONLY <1>3, <2>1, GatherIn, Q = Seq(L), lines = SubSeq(file, a, b), group = Gather(st.group, SubSeq(file, a, b))
  <2>3. t = [st EXCEPT !.group = group]
    BY ONLY <1>5, t = PyNode(file, st, node), a = node.from, b = node.to, group = Gather(st.group, SubSeq(file, a, b)) DEF PyNode
  <2>4. t \in [chunks : C, group : Q, from : Int] /\ t.chunks = st.chunks /\ t.group = group /\ t.from = st.from
    BY ONLY <1>2, <2>2, <2>3, Q = Seq(L)
  <2>5. t \in PyStates(L)
    BY ONLY <2>4, C = Seq(ChunkOf(L)), Q = Seq(L) DEF PyStates
  <2>6. ASSUME NEW m \in 0 .. n, PyHolds(file, st, m), a = m + 1, NoneRepeated(file) PROVE PyHolds(file, t, b)
    <3>1. AllHold(file, st.chunks) /\ st.from \in 1 .. m + 1 /\ st.group = SubSeq(file, st.from, m)
      BY ONLY <2>6 DEF PyHolds
    <3> PICK x : x = st.from - 1
      OBVIOUS
    <3>2. x \in Nat /\ st.from = x + 1 /\ x <= m /\ m \in Nat /\ m <= b /\ b <= Len(file) /\ st.from \in 1 .. b + 1
      BY ONLY <1>1, <2>6, <3>1, m \in 0 .. n, n = Len(file), x = st.from - 1
    <3>3. Gather(SubSeq(file, x + 1, m), SubSeq(file, m + 1, b)) = SubSeq(file, x + 1, b)
      BY ONLY <1>1, <2>6, <3>2, GatherAll, file \in Seq(L)
    <3>4. group = SubSeq(file, st.from, b)
      BY ONLY <2>6, <3>1, <3>2, <3>3, group = Gather(st.group, SubSeq(file, a, b))
    <3> QED
      BY ONLY <2>4, <3>1, <3>2, <3>4 DEF PyHolds
  <2> QED
    BY ONLY <2>5, <2>6, t = PyNode(file, st, node), n = Len(file), a = node.from, b = node.to
<1> QED
  BY ONLY <1>1, <1>4, <1>5

NoStatements == [chunks |-> <<>>, group |-> <<>>, from |-> 1]

PyLoop(st, file, nodes) ==
    st = [i \in 0 .. Len(nodes) |->
            IF i = 0 THEN [chunks |-> <<>>, group |-> <<>>, from |-> 1]
            ELSE PyNode(file, st[i - 1], nodes[i])]

LEMMA NoStatementsIn == ASSUME NEW L, NEW file \in Seq(L) PROVE NoStatements \in PyStates(L) /\ PyHolds(file, NoStatements, 0)
<1> PICK C, Q : C = Seq(ChunkOf(L)) /\ Q = Seq(L)
  OBVIOUS
<1>1. <<>> \in C /\ <<>> \in Q
  BY ONLY C = Seq(ChunkOf(L)), Q = Seq(L)
<1>2. /\ NoStatements \in [chunks : C, group : Q, from : Int]
      /\ NoStatements.chunks = <<>> /\ NoStatements.group = <<>> /\ NoStatements.from = 1
  BY ONLY <1>1 DEF NoStatements
<1>3. AllHold(file, <<>>)
  BY DEF AllHold
<1>4. <<>> = SubSeq(file, 1, 0) /\ 1 \in 1 .. 0 + 1
  BY SubSeqEmpty
<1>5. NoStatements \in PyStates(L)
  BY ONLY <1>2, C = Seq(ChunkOf(L)), Q = Seq(L) DEF PyStates
<1> QED
  BY ONLY <1>2, <1>3, <1>4, <1>5 DEF PyHolds

LEMMA PyLoopExists ==
  ASSUME NEW L, NEW file \in Seq(L), NEW nodes \in Seq(PyStatement(file))
  PROVE  \E st : PyLoop(st, file, nodes)
<1> PICK n, Q, D : n = Len(nodes) /\ Q = PyStates(L) /\ D = PyStatement(file)
  OBVIOUS
<1> PICK g : g = [i \in 1 .. n |-> [st \in Q |-> PyNode(file, st, nodes[i])]]
  OBVIOUS
<1>1. n \in Nat /\ NoStatements \in Q /\ \A i \in 1 .. n : nodes[i] \in D
  BY NoStatementsIn, n = Len(nodes), D = PyStatement(file)
<1>2. \A i \in 1 .. n, st \in Q : PyNode(file, st, nodes[i]) \in Q
  BY ONLY <1>1, PyNodeIs, file \in Seq(L), Q = PyStates(L), D = PyStatement(file)
<1>3. Rounds(g, n, Q)
  BY ONLY <1>2, g = [i \in 1 .. n |-> [st \in Q |-> PyNode(file, st, nodes[i])]] DEF Rounds
<1>4. PICK f : IsLoop(f, n, Q, NoStatements, g)
  BY ONLY <1>1, <1>3, LoopExists
<1>5. ASSUME NEW i \in 0 .. n PROVE f[i] = IF i = 0 THEN NoStatements ELSE PyNode(file, f[i - 1], nodes[i])
  <2>1. i # 0 => i \in 1 .. n /\ i - 1 \in 0 .. n
    BY ONLY <1>1, i \in 0 .. n
  <2>2. i # 0 => f[i - 1] \in Q
    BY ONLY <1>4, <2>1 DEF IsLoop
  <2>3. i # 0 => g[i][f[i - 1]] = PyNode(file, f[i - 1], nodes[i])
    BY ONLY <2>1, <2>2, g = [x \in 1 .. n |-> [st \in Q |-> PyNode(file, st, nodes[x])]]
  <2>4. f[i] = IF i = 0 THEN NoStatements ELSE g[i][f[i - 1]]
    BY ONLY <1>4, i \in 0 .. n DEF IsLoop
  <2> QED
    BY ONLY <2>3, <2>4
<1>6. f = [i \in 0 .. n |-> f[i]]
  BY ONLY <1>4 DEF IsLoop
<1>7. f = [i \in 0 .. n |-> IF i = 0 THEN NoStatements ELSE PyNode(file, f[i - 1], nodes[i])]
  BY ONLY <1>5, <1>6
<1>8. PyLoop(f, file, nodes)
  BY ONLY <1>7, n = Len(nodes) DEF PyLoop, NoStatements
<1> QED
  BY ONLY <1>8

\* The line before the first statement after i of them, if no line between is left out.
PyEnd(nodes, i) == IF i = 0 THEN 0 ELSE nodes[i].to

\* Every line that is not blank is in a statement, and only the last may be blank.
PyCovered(file, nodes) ==
    /\ \A k \in 1 .. Len(file) - 1 : file[k] \notin Blank
    /\ \A k \in 1 .. Len(file) : file[k] \in Blank \/ \E i \in 1 .. Len(nodes) : k \in nodes[i].from .. nodes[i].to

LEMMA PyFollows ==
  ASSUME NEW file, Len(file) \in Nat, NEW nodes \in Seq(PyStatement(file)), InOrder(nodes), PyCovered(file, nodes),
         NEW i \in 0 .. Len(nodes)
  PROVE  /\ PyEnd(nodes, i) \in 0 .. Len(file)
         /\ i < Len(nodes) => nodes[i + 1].from = PyEnd(nodes, i) + 1
         /\ i = Len(nodes) => \/ PyEnd(nodes, i) = Len(file)
                              \/ PyEnd(nodes, i) = Len(file) - 1 /\ file[Len(file)] \in Blank
<1> PICK n, N, m, D : n = Len(file) /\ N = Len(nodes) /\ m = PyEnd(nodes, i) /\ D = PyStatement(file)
  OBVIOUS
<1>1. N \in Nat /\ n \in Nat /\ \A j \in 1 .. N : nodes[j] \in D
  BY N = Len(nodes), n = Len(file), D = PyStatement(file)
<1>2. \A d \in D : d.from \in Nat /\ d.to \in Nat /\ 1 <= d.from /\ d.from <= d.to /\ d.to <= n
  BY D = PyStatement(file), n = Len(file) DEF PyStatement
<1>3. \A j \in 1 .. N : /\ nodes[j].from \in Nat /\ nodes[j].to \in Nat /\ 1 <= nodes[j].from
                        /\ nodes[j].from <= nodes[j].to /\ nodes[j].to <= n
  BY ONLY <1>1, <1>2
<1>4. i = 0 \/ i \in 1 .. N
  BY ONLY <1>1, i \in 0 .. Len(nodes), N = Len(nodes)
<1>5. (i = 0 => m = 0) /\ (i # 0 => m = nodes[i].to)
  BY ONLY m = PyEnd(nodes, i) DEF PyEnd
<1>6. m \in 0 .. n
  BY ONLY <1>1, <1>3, <1>4, <1>5
<1>7. \A j \in 1 .. N : j <= i => nodes[j].to <= m
  <2> SUFFICES ASSUME NEW j \in 1 .. N, j <= i PROVE nodes[j].to <= m
    OBVIOUS
  <2>1. i \in 1 .. N
    BY ONLY <1>1, <1>4, j \in 1 .. N, j <= i
  <2>2. i # 0
    BY ONLY <1>1, <2>1
  <2>3. CASE j = i
    BY ONLY <1>3, <1>5, <2>1, <2>2, <2>3
  <2>4. CASE j # i
    <3>1. j < i
      BY ONLY <2>1, <2>4, j \in 1 .. N, j <= i
    <3>2. nodes[j].to < nodes[i].from
      BY ONLY <2>1, <3>1, j \in 1 .. N, InOrder(nodes), N = Len(nodes) DEF InOrder
    <3> QED
      BY ONLY <1>3, <1>5, <2>1, <2>2, <3>2, j \in 1 .. N
  <2> QED
    BY ONLY <2>3, <2>4
<1>8. \A k \in 1 .. n : file[k] \in Blank \/ \E j \in 1 .. N : k \in nodes[j].from .. nodes[j].to
  BY ONLY PyCovered(file, nodes), n = Len(file), N = Len(nodes) DEF PyCovered
<1>9. \A k \in 1 .. n - 1 : file[k] \notin Blank
  BY ONLY PyCovered(file, nodes), n = Len(file) DEF PyCovered
<1>10. ASSUME i < N PROVE nodes[i + 1].from = m + 1
  <2> PICK f, e : f = nodes[i + 1].from /\ e = i + 1
    OBVIOUS
  <2>1. e \in 1 .. N /\ i < e
    BY ONLY <1>1, <1>10, <1>4, e = i + 1
  <2>2. f \in Nat /\ 1 <= f /\ f <= n /\ f <= nodes[e].to /\ nodes[e].to \in Nat /\ f = nodes[e].from
    BY ONLY <1>1, <1>3, <2>1, f = nodes[i + 1].from, e = i + 1
  <2>3. m < f
    <3>1. CASE i = 0
      BY ONLY <1>5, <2>2, <3>1
    <3>2. CASE i # 0
      <4>1. i \in 1 .. N
        BY ONLY <1>4, <3>2
      <4>2. nodes[i].to < nodes[e].from
        BY ONLY <2>1, <4>1, InOrder(nodes), N = Len(nodes) DEF InOrder
      <4> QED
        BY ONLY <1>5, <2>2, <3>2, <4>2
    <3> QED
      BY ONLY <3>1, <3>2
  <2>4. CASE f # m + 1
    <3> PICK k : k = m + 1
      OBVIOUS
    <3>1. k \in 1 .. n - 1 /\ k \in 1 .. n /\ m < k /\ k < f
      BY ONLY <1>1, <1>6, <2>2, <2>3, <2>4, k = m + 1
    <3>2. PICK j \in 1 .. N : k \in nodes[j].from .. nodes[j].to
      BY ONLY <1>8, <1>9, <3>1
    <3>3. nodes[j].from <= k /\ k <= nodes[j].to /\ nodes[j].to \in Nat /\ nodes[j].from \in Nat
      BY ONLY <1>3, <3>2
    <3>4. ~ (j <= i)
      BY ONLY <1>6, <1>7, <3>1, <3>3
    <3>5. j # e
      BY ONLY <2>2, <3>1, <3>3
    <3>6. e < j
      BY ONLY <1>1, <1>4, <2>1, <3>2, <3>4, <3>5, e = i + 1
    <3>7. nodes[e].to < nodes[j].from
      BY ONLY <2>1, <3>6, j \in 1 .. N, InOrder(nodes), N = Len(nodes) DEF InOrder
    <3> QED
      BY ONLY <2>2, <3>1, <3>3, <3>7
  <2> QED
    BY ONLY <2>4, f = nodes[i + 1].from
<1>11. ASSUME i = N PROVE m = n \/ (m = n - 1 /\ file[n] \in Blank)
  <2> SUFFICES ASSUME m # n PROVE m = n - 1 /\ file[n] \in Blank
    OBVIOUS
  <2> PICK k : k = m + 1
    OBVIOUS
  <2>1. k \in 1 .. n /\ m < k
    BY ONLY <1>1, <1>6, m # n, k = m + 1
  <2>2. \A j \in 1 .. N : ~ (k \in nodes[j].from .. nodes[j].to)
    <3> TAKE j \in 1 .. N
    <3>1. j <= i
      BY ONLY <1>1, <1>11, j \in 1 .. N
    <3>2. nodes[j].to <= m /\ nodes[j].to \in Nat
      BY ONLY <1>3, <1>7, <3>1
    <3> QED
      BY ONLY <1>6, <2>1, <3>2
  <2>3. file[k] \in Blank
    BY ONLY <1>8, <2>1, <2>2
  <2>4. k \notin 1 .. n - 1
    BY ONLY <1>9, <2>3
  <2>5. k = n
    BY ONLY <1>1, <2>1, <2>4
  <2> QED
    BY ONLY <1>6, <2>3, <2>5, k = m + 1, <1>1
<1> QED
  BY ONLY <1>6, <1>10, <1>11, n = Len(file), N = Len(nodes), m = PyEnd(nodes, i)

LEMMA PythonRaw ==
  ASSUME NEW L, NEW file \in Seq(L), NEW nodes \in Seq(PyStatement(file))
  PROVE  /\ ParsePython(file, nodes) \in Seq(ChunkOf(L))
         /\ InOrder(nodes) /\ NoneRepeated(file) /\ PyCovered(file, nodes) => AllHold(file, ParsePython(file, nodes))
<1> DEFINE st == CHOOSE st : st = [i \in 0 .. Len(nodes) |->
            IF i = 0 THEN [chunks |-> <<>>, group |-> <<>>, from |-> 1]
            ELSE PyNode(file, st[i - 1], nodes[i])]
<1>1. \E f : PyLoop(f, file, nodes)
  BY PyLoopExists
<1>2. PyLoop(st, file, nodes)
  BY <1>1 DEF PyLoop
<1>3. ParsePython(file, nodes) =
        st[Len(nodes)].chunks \o (IF st[Len(nodes)].group = <<>> THEN <<>>
                                  ELSE <<Chunk(st[Len(nodes)].group, st[Len(nodes)].from, Len(file))>>)
  BY DEF ParsePython
<1> HIDE DEF st
<1> PICK n, N, D : n = Len(file) /\ N = Len(nodes) /\ D = PyStatement(file)
  OBVIOUS
<1>4. n \in Nat /\ N \in Nat /\ \A i \in 1 .. N : nodes[i] \in D
  BY n = Len(file), N = Len(nodes), D = PyStatement(file)
<1>5. \A i \in 0 .. N : st[i] = IF i = 0 THEN NoStatements ELSE PyNode(file, st[i - 1], nodes[i])
  BY ONLY <1>2, N = Len(nodes) DEF PyLoop, NoStatements
<1>6. st[0] = NoStatements /\ \A i \in 1 .. N : st[i] = PyNode(file, st[i - 1], nodes[i])
  BY ONLY <1>4, <1>5
<1> PICK plain : plain = IF InOrder(nodes) /\ NoneRepeated(file) /\ PyCovered(file, nodes) THEN 1 ELSE 0
  OBVIOUS
<1>7. plain = 1 <=> InOrder(nodes) /\ NoneRepeated(file) /\ PyCovered(file, nodes)
  BY ONLY plain = IF InOrder(nodes) /\ NoneRepeated(file) /\ PyCovered(file, nodes) THEN 1 ELSE 0
<1> DEFINE T == {i \in 0 .. N : st[i] \in PyStates(L) /\ (plain = 1 => PyHolds(file, st[i], PyEnd(nodes, i)))}
<1>8. 0 \in T
  <2>1. PyEnd(nodes, 0) = 0
    BY DEF PyEnd
  <2> QED
    BY <1>4, <1>6, <2>1, NoStatementsIn
<1>9. ASSUME NEW i \in 0 .. N - 1, i \in T PROVE i + 1 \in T
  <2> PICK j, s, d : j = i + 1 /\ s = st[i] /\ d = nodes[i + 1]
    OBVIOUS
  <2>1. j \in 1 .. N /\ j \in 0 .. N /\ j - 1 = i /\ i \in 0 .. N /\ i < N /\ j # 0
    BY ONLY <1>4, i \in 0 .. N - 1, j = i + 1
  <2>2. st[j] = PyNode(file, s, d) /\ d \in PyStatement(file)
    BY ONLY <1>4, <1>6, <2>1, D = PyStatement(file), j = i + 1, s = st[i], d = nodes[i + 1]
  <2>3. s \in PyStates(L) /\ (plain = 1 => PyHolds(file, s, PyEnd(nodes, i)))
    BY <1>9, s = st[i]
  <2>4. /\ PyNode(file, s, d) \in PyStates(L)
        /\ \A m \in 0 .. n :
               (PyHolds(file, s, m) /\ d.from = m + 1 /\ NoneRepeated(file)) => PyHolds(file, PyNode(file, s, d), d.to)
    BY ONLY <2>2, <2>3, PyNodeIs, file \in Seq(L), n = Len(file)
  <2>5. ASSUME plain = 1 PROVE PyHolds(file, st[j], PyEnd(nodes, j))
    <3> PICK m : m = PyEnd(nodes, i)
      OBVIOUS
    <3>1. m \in 0 .. n /\ d.from = m + 1
      <4>1. i \in 0 .. Len(nodes) /\ i < Len(nodes) /\ Len(file) \in Nat
        BY ONLY <1>4, <2>1, N = Len(nodes), n = Len(file)
      <4> QED
        BY ONLY <1>7, <2>5, <4>1, PyFollows, nodes \in Seq(PyStatement(file)), n = Len(file), m = PyEnd(nodes, i), d = nodes[i + 1]
    <3>2. PyEnd(nodes, j) = d.to
      BY ONLY <2>1, j = i + 1, d = nodes[i + 1] DEF PyEnd
    <3> QED
      BY ONLY <1>7, <2>2, <2>3, <2>4, <2>5, <3>1, <3>2, m = PyEnd(nodes, i)
  <2> QED
    BY <2>1, <2>2, <2>4, <2>5, j = i + 1
<1>10. N \in T
  <2> HIDE DEF T
  <2>1. \A i \in 0 .. N : i \in T
    BY ONLY <1>4, <1>8, <1>9, UpTo
  <2> QED
    BY ONLY <1>4, <2>1
<1> PICK s, m : s = st[N] /\ m = PyEnd(nodes, N)
  OBVIOUS
<1>11. s \in PyStates(L) /\ (plain = 1 => PyHolds(file, s, m))
  BY <1>10
<1>12. s.chunks \in Seq(ChunkOf(L)) /\ s.group \in Seq(L) /\ s.from \in Int
  BY ONLY <1>11 DEF PyStates
<1> PICK last : last = IF s.group = <<>> THEN <<>> ELSE <<Chunk(s.group, s.from, n)>>
  OBVIOUS
<1>13. ParsePython(file, nodes) = s.chunks \o last
  BY ONLY <1>3, n = Len(file), N = Len(nodes), s = st[N], last = IF s.group = <<>> THEN <<>> ELSE <<Chunk(s.group, s.from, n)>>
<1>14. CASE s.group = <<>>
  <2>1. last = <<>>
    BY ONLY <1>14, last = IF s.group = <<>> THEN <<>> ELSE <<Chunk(s.group, s.from, n)>>
  <2>2. s.chunks \o last = s.chunks
    BY ONLY <1>12, <2>1
  <2>3. plain = 1 => AllHold(file, s.chunks)
    BY ONLY <1>11 DEF PyHolds
  <2> QED
    BY ONLY <1>7, <1>12, <1>13, <2>2, <2>3
<1>15. CASE s.group # <<>>
  <2> PICK c : c = Chunk(s.group, s.from, n)
    OBVIOUS
  <2>1. last = <<c>>
    BY ONLY <1>15, c = Chunk(s.group, s.from, n), last = IF s.group = <<>> THEN <<>> ELSE <<Chunk(s.group, s.from, n)>>
  <2>2. c \in ChunkOf(L) /\ c.content = s.group /\ c.start = s.from /\ c.end = n
    <3>1. n \in Int
      BY ONLY <1>4
    <3> QED
      BY ONLY <1>12, <3>1, ChunkIs, c = Chunk(s.group, s.from, n)
  <2>3. ASSUME plain = 1 PROVE RawHolds(file, c)
    <3>1. m \in 0 .. n /\ (m = n \/ (m = n - 1 /\ file[n] \in Blank))
      <4>1. N \in 0 .. Len(nodes) /\ N = Len(nodes) /\ Len(file) \in Nat
        BY ONLY <1>4, N = Len(nodes), n = Len(file)
      <4> QED
        BY ONLY <1>7, <2>3, <4>1, PyFollows, nodes \in Seq(PyStatement(file)), n = Len(file), m = PyEnd(nodes, N)
    <3> PICK f, g : f = s.from /\ g = s.group
      OBVIOUS
    <3>2. f \in 1 .. m + 1 /\ g = SubSeq(file, f, m)
      BY ONLY <1>11, <2>3, f = s.from, g = s.group DEF PyHolds
    <3> PICK x : x = f - 1
      OBVIOUS
    <3>3. /\ x \in Nat /\ f = x + 1 /\ x <= m /\ m \in Nat /\ m <= Len(file) /\ f \in Nat /\ 1 <= f /\ f <= m + 1
          /\ f \in 1 .. m + 1
      BY ONLY <1>4, <3>1, <3>2, x = f - 1, n = Len(file)
    <3>4. g \in Seq(L) /\ Len(g) = m - x
      BY ONLY <3>2, <3>3, PieceIs, file \in Seq(L)
    <3>5. f + Len(g) - 1 = m
      BY ONLY <3>3, <3>4
    <3>6. Trim(g) = Trim(SubSeq(file, f, n))
      <4>1. CASE m = n
        BY ONLY <3>2, <4>1
      <4>2. CASE m = n - 1 /\ file[n] \in Blank
        <5>1. n \in 1 .. n /\ m + 1 = n
          BY ONLY <1>4, <3>1, <4>2
        <5>2. file[n] \in L
          BY ONLY <5>1, file \in Seq(L), n = Len(file)
        <5>3. Append(SubSeq(file, f, m), file[m + 1]) = SubSeq(file, f, m + 1)
          BY ONLY <1>4, <3>3, <5>1, file \in Seq(L), n = Len(file)
        <5>4. Trim(Append(g, file[n])) = Trim(g)
          BY ONLY <3>4, <4>2, <5>2, TrimBlankEnd
        <5> QED
          BY ONLY <3>2, <5>1, <5>3, <5>4
      <4> QED
        BY ONLY <3>1, <4>1, <4>2
    <3>7. 1 <= f /\ m <= n /\ n <= n
      BY ONLY <1>4, <3>1, <3>3
    <3> QED
      BY ONLY <2>2, <3>2, <3>5, <3>6, <3>7, n = Len(file), f = s.from, g = s.group DEF RawHolds
  <2>4. <<c>> \in Seq(ChunkOf(L)) /\ (RawHolds(file, c) => AllHold(file, <<c>>))
    BY ONLY <2>2, OneRaw
  <2>5. /\ s.chunks \o last \in Seq(ChunkOf(L))
        /\ AllHold(file, s.chunks) /\ AllHold(file, last) => AllHold(file, s.chunks \o last)
    BY ONLY <1>12, <2>1, <2>4, HoldsConcat
  <2>6. plain = 1 => AllHold(file, s.chunks) /\ AllHold(file, last)
    <3>1. plain = 1 => AllHold(file, s.chunks)
      BY ONLY <1>11 DEF PyHolds
    <3> QED
      BY ONLY <2>1, <2>3, <2>4, <3>1
  <2> QED
    BY ONLY <1>7, <1>13, <2>5, <2>6
<1> QED
  BY <1>14, <1>15

-----------------------------------------------------------------------------
(***************************************************************************)
(* The documents of a YAML file: they follow one another, a separator lies *)
(* between two, and the last one ends with the file.                       *)
(***************************************************************************)
DocRange == [from : Nat, to : Nat]

DocsEnded(docs, x) == [docs EXCEPT ![Len(docs)].to = x]

EndsDoc(file, docs, k) == file[k] = Separator /\ k > docs[Len(docs)].from /\ k < Len(file)

\* The documents of the first k lines.
DocsTo(docs, k) ==
    /\ docs \in Seq(DocRange) /\ Len(docs) > 0 /\ docs[1].from = 1
    /\ \A i \in 1 .. Len(docs) - 1 : /\ 1 <= docs[i].from /\ docs[i].from <= docs[i].to /\ docs[i].to <= k
                                     /\ docs[i + 1].from = docs[i].to + 2
    /\ docs[Len(docs)].from \in 1 .. k + 1
    /\ docs[Len(docs)].to = IF docs[Len(docs)].from = k + 1 THEN k + 1 ELSE k

LEMMA DocsEndedIs ==
  ASSUME NEW docs \in Seq(DocRange), Len(docs) > 0, NEW x \in Nat
  PROVE  /\ DocsEnded(docs, x) \in Seq(DocRange) /\ Len(DocsEnded(docs, x)) = Len(docs)
         /\ \A i \in 1 .. Len(docs) - 1 : DocsEnded(docs, x)[i] = docs[i]
         /\ DocsEnded(docs, x)[Len(docs)].from = docs[Len(docs)].from /\ DocsEnded(docs, x)[Len(docs)].to = x
<1> PICK m, D, r, e : m = Len(docs) /\ D = DocRange /\ r = [docs[Len(docs)] EXCEPT !.to = x] /\ e = DocsEnded(docs, x)
  OBVIOUS
<1>1. m \in Nat /\ m > 0 /\ m \in 1 .. m /\ docs[m] \in D
  BY m = Len(docs), D = DocRange
<1>2. r \in D /\ r.from = docs[m].from /\ r.to = x
  BY ONLY <1>1, x \in Nat, m = Len(docs), D = DocRange, r = [docs[Len(docs)] EXCEPT !.to = x] DEF DocRange
<1>3. e = [docs EXCEPT ![m] = r]
  BY ONLY m = Len(docs), r = [docs[Len(docs)] EXCEPT !.to = x], e = DocsEnded(docs, x) DEF DocsEnded
<1>4. docs \in Seq(D)
  BY D = DocRange
<1>5. e \in Seq(D) /\ Len(e) = m /\ e[m] = r /\ \A i \in 1 .. m - 1 : e[i] = docs[i]
  BY ONLY <1>1, <1>2, <1>3, <1>4, m = Len(docs)
<1> QED
  BY ONLY <1>2, <1>5, m = Len(docs), D = DocRange, e = DocsEnded(docs, x)

LEMMA DocLineIs ==
  ASSUME NEW file, NEW docs, NEW k
  PROVE  /\ EndsDoc(file, docs, k) =>
              DocLine(file, docs, k) = Append(DocsEnded(docs, k - 1), [from |-> k + 1, to |-> k + 1])
         /\ ~ EndsDoc(file, docs, k) => DocLine(file, docs, k) = DocsEnded(docs, k)
BY Zenon DEF DocLine, EndsDoc, DocsEnded

LEMMA DocLineIn ==
  ASSUME NEW file, NEW docs \in Seq(DocRange), Len(docs) > 0, NEW k \in Nat \ {0}
  PROVE  DocLine(file, docs, k) \in Seq(DocRange) /\ Len(DocLine(file, docs, k)) > 0
<1> PICK D, r, e, d : /\ D = DocRange /\ r = [from |-> k + 1, to |-> k + 1] /\ e = DocsEnded(docs, k - 1)
                      /\ d = DocsEnded(docs, k)
  OBVIOUS
<1>1. k \in Nat /\ k - 1 \in Nat /\ k + 1 \in Nat
  BY ONLY k \in Nat \ {0}
<1>2. r \in D
  BY ONLY <1>1, D = DocRange, r = [from |-> k + 1, to |-> k + 1] DEF DocRange
<1>3. e \in Seq(D) /\ Len(e) > 0
  BY ONLY <1>1, DocsEndedIs, docs \in Seq(DocRange), Len(docs) > 0, D = DocRange, e = DocsEnded(docs, k - 1)
<1>4. d \in Seq(D) /\ Len(d) > 0
  BY ONLY <1>1, DocsEndedIs, docs \in Seq(DocRange), Len(docs) > 0, D = DocRange, d = DocsEnded(docs, k)
<1>5. Append(e, r) \in Seq(D) /\ Len(Append(e, r)) > 0
  BY ONLY <1>2, <1>3
<1>6. DocLine(file, docs, k) = Append(e, r) \/ DocLine(file, docs, k) = d
  BY ONLY DocLineIs, e = DocsEnded(docs, k - 1), r = [from |-> k + 1, to |-> k + 1], d = DocsEnded(docs, k)
<1> QED
  BY ONLY <1>4, <1>5, <1>6, D = DocRange

LEMMA DocLineTo ==
  ASSUME NEW file, NEW docs, NEW k \in Nat \ {0}, DocsTo(docs, k - 1)
  PROVE  /\ DocsTo(DocLine(file, docs, k), k)
         /\ k = Len(file) => DocLine(file, docs, k)[Len(DocLine(file, docs, k))].from <= k
<1> PICK m, t : m = Len(docs) /\ t = DocLine(file, docs, k)
  OBVIOUS
<1>1. docs \in Seq(DocRange) /\ m > 0 /\ m \in Nat
  BY m = Len(docs) DEF DocsTo
<1>2. k \in Nat /\ k - 1 \in Nat /\ k + 1 \in Nat /\ (k - 1) + 1 = k /\ k > 0
  BY ONLY k \in Nat \ {0}
<1>3. /\ docs[1].from = 1
      /\ \A i \in 1 .. m - 1 : /\ 1 <= docs[i].from /\ docs[i].from <= docs[i].to /\ docs[i].to <= k - 1
                               /\ docs[i + 1].from = docs[i].to + 2
      /\ docs[m].from \in 1 .. k
  <2>1. docs[m].from \in 1 .. (k - 1) + 1
    BY m = Len(docs), Zenon DEF DocsTo
  <2>2. docs[m].from \in 1 .. k
    BY ONLY <1>2, <2>1
  <2> QED
    BY <2>2, m = Len(docs), Zenon DEF DocsTo
<1>4. \A i \in 1 .. m : docs[i].from \in Nat /\ docs[i].to \in Nat
  <2>1. \A i \in 1 .. m : docs[i] \in DocRange
    BY ONLY <1>1, m = Len(docs)
  <2> QED
    BY ONLY <2>1 DEF DocRange
<1> PICK u : u = docs[m].from
  OBVIOUS
<1>5. u \in Nat /\ 1 <= u /\ u <= k
  BY ONLY <1>2, <1>3, u = docs[m].from
<1>6. CASE EndsDoc(file, docs, k)
  <2> PICK e, r : e = DocsEnded(docs, k - 1) /\ r = [from |-> k + 1, to |-> k + 1]
    OBVIOUS
  <2>1. t = Append(e, r)
    BY ONLY <1>6, DocLineIs, t = DocLine(file, docs, k), e = DocsEnded(docs, k - 1), r = [from |-> k + 1, to |-> k + 1]
  <2>2. /\ e \in Seq(DocRange) /\ Len(e) = m /\ e[m].from = u /\ e[m].to = k - 1
        /\ \A i \in 1 .. m - 1 : e[i] = docs[i]
    BY ONLY <1>1, <1>2, DocsEndedIs, m = Len(docs), u = docs[m].from, e = DocsEnded(docs, k - 1)
  <2>3. r \in DocRange /\ r.from = k + 1 /\ r.to = k + 1
    BY ONLY <1>2, r = [from |-> k + 1, to |-> k + 1] DEF DocRange
  <2>4. /\ t \in Seq(DocRange) /\ Len(t) = m + 1 /\ t[m + 1] = r /\ \A i \in 1 .. m : t[i] = e[i]
    <3> PICK D : D = DocRange
      OBVIOUS
    <3>1. e \in Seq(D) /\ r \in D
      BY ONLY <2>2, <2>3, D = DocRange
    <3>2. t \in Seq(D) /\ Len(t) = m + 1 /\ t[m + 1] = r /\ \A i \in 1 .. m : t[i] = e[i]
      BY ONLY <1>1, <2>1, <2>2, <3>1
    <3> QED
      BY ONLY <3>2, D = DocRange
  <2>5. u < k /\ k < Len(file)
    BY ONLY <1>6, m = Len(docs), u = docs[m].from DEF EndsDoc
  <2>6. t[1].from = 1
    <3>1. CASE m = 1
      <4>1. t[1] = e[1] /\ e[1].from = u /\ u = 1
        BY ONLY <1>3, <2>2, <2>4, <3>1, u = docs[m].from
      <4> QED
        BY ONLY <4>1
    <3>2. CASE m # 1
      <4>1. 1 \in 1 .. m /\ 1 \in 1 .. m - 1
        BY ONLY <1>1, <3>2
      <4>2. t[1] = docs[1]
        BY ONLY <2>2, <2>4, <4>1
      <4> QED
        BY ONLY <1>3, <4>2
    <3> QED
      BY ONLY <3>1, <3>2
  <2>7. ASSUME NEW i \in 1 .. m
        PROVE  /\ 1 <= t[i].from /\ t[i].from <= t[i].to /\ t[i].to <= k /\ t[i + 1].from = t[i].to + 2
    <3>1. CASE i = m
      <4>1. i \in 1 .. m
        OBVIOUS
      <4>2. t[i] = e[m] /\ t[i + 1] = r
        BY ONLY <2>4, <3>1, <4>1
      <4>3. t[i].from = u /\ t[i].to = k - 1 /\ t[i + 1].from = k + 1
        BY ONLY <2>2, <2>3, <4>2
      <4> QED
        BY ONLY <1>2, <1>5, <2>5, <4>3
    <3>2. CASE i # m
      <4>1. i \in 1 .. m - 1 /\ i \in 1 .. m /\ i + 1 \in 1 .. m
        BY ONLY <1>1, <3>2, i \in 1 .. m
      <4>2. t[i] = docs[i] /\ t[i + 1] = e[i + 1]
        BY ONLY <2>2, <2>4, <4>1
      <4>3. e[i + 1].from = docs[i + 1].from
        <5>1. i + 1 = m => e[i + 1].from = u /\ docs[i + 1].from = u
          BY ONLY <2>2, u = docs[m].from
        <5>2. i + 1 # m => i + 1 \in 1 .. m - 1
          BY ONLY <1>1, <4>1
        <5> QED
          BY ONLY <2>2, <5>1, <5>2
      <4>4. /\ 1 <= docs[i].from /\ docs[i].from <= docs[i].to /\ docs[i].to <= k - 1
            /\ docs[i + 1].from = docs[i].to + 2 /\ docs[i].to \in Nat
        BY ONLY <1>3, <1>4, <4>1
      <4>5. docs[i].to <= k
        <5> PICK y : y = docs[i].to
          OBVIOUS
        <5> QED
          BY ONLY <1>2, <4>4, y = docs[i].to
      <4> QED
        BY ONLY <4>2, <4>3, <4>4, <4>5
    <3> QED
      BY ONLY <3>1, <3>2
  <2>8. Len(t) > 0 /\ Len(t) - 1 = m /\ k + 1 \in 1 .. k + 1
    BY ONLY <1>1, <1>2, <2>4
  <2>9. /\ t[Len(t)].from \in 1 .. k + 1
        /\ t[Len(t)].to = IF t[Len(t)].from = k + 1 THEN k + 1 ELSE k
    BY ONLY <2>3, <2>4, <2>8
  <2>10. DocsTo(t, k)
    BY ONLY <2>4, <2>6, <2>7, <2>8, <2>9 DEF DocsTo
  <2>11. k # Len(file)
    <3>1. k = Len(file) => k < k
      BY ONLY <2>5
    <3> QED
      BY ONLY <1>2, <3>1
  <2> QED
    BY ONLY <2>10, <2>11, t = DocLine(file, docs, k)
<1>7. CASE ~ EndsDoc(file, docs, k)
  <2>1. t = DocsEnded(docs, k)
    BY ONLY <1>7, DocLineIs, t = DocLine(file, docs, k)
  <2>2. /\ t \in Seq(DocRange) /\ Len(t) = m /\ t[m].from = u /\ t[m].to = k
        /\ \A i \in 1 .. m - 1 : t[i] = docs[i]
    BY ONLY <1>1, <1>2, <2>1, DocsEndedIs, m = Len(docs), u = docs[m].from
  <2>3. t[1].from = 1
    <3>1. CASE m = 1
      BY ONLY <1>3, <2>2, <3>1, u = docs[m].from
    <3>2. CASE m # 1
      <4>1. 1 \in 1 .. m - 1
        BY ONLY <1>1, <3>2
      <4> QED
        BY ONLY <1>3, <2>2, <4>1
    <3> QED
      BY ONLY <3>1, <3>2
  <2>4. ASSUME NEW i \in 1 .. m - 1
        PROVE  /\ 1 <= t[i].from /\ t[i].from <= t[i].to /\ t[i].to <= k /\ t[i + 1].from = t[i].to + 2
    <3>1. i \in 1 .. m - 1 /\ i \in 1 .. m
      BY ONLY <1>1, i \in 1 .. m - 1
    <3>2. t[i] = docs[i]
      BY ONLY <2>2, <3>1
    <3>3. t[i + 1].from = docs[i + 1].from
      <4>1. i + 1 = m => t[i + 1].from = u /\ docs[i + 1].from = u
        BY ONLY <2>2, u = docs[m].from
      <4>2. i + 1 # m => i + 1 \in 1 .. m - 1
        BY ONLY <1>1, <3>1
      <4> QED
        BY ONLY <2>2, <4>1, <4>2
    <3>4. /\ 1 <= docs[i].from /\ docs[i].from <= docs[i].to /\ docs[i].to <= k - 1
          /\ docs[i + 1].from = docs[i].to + 2 /\ docs[i].to \in Nat
      BY ONLY <1>3, <1>4, <3>1
    <3>5. docs[i].to <= k
      <4> PICK y : y = docs[i].to
        OBVIOUS
      <4> QED
        BY ONLY <1>2, <3>4, y = docs[i].to
    <3> QED
      BY ONLY <3>2, <3>3, <3>4, <3>5
  <2>5. u \in 1 .. k + 1 /\ u # k + 1 /\ Len(t) > 0
    BY ONLY <1>1, <1>2, <1>5, <2>2
  <2>6. /\ t[Len(t)].from \in 1 .. k + 1
        /\ t[Len(t)].to = IF t[Len(t)].from = k + 1 THEN k + 1 ELSE k
    BY ONLY <2>2, <2>5
  <2>7. DocsTo(t, k)
    BY ONLY <2>2, <2>3, <2>4, <2>5, <2>6 DEF DocsTo
  <2>8. t[Len(t)].from <= k
    BY ONLY <1>5, <2>2
  <2> QED
    BY ONLY <2>7, <2>8, t = DocLine(file, docs, k)
<1> QED
  BY ONLY <1>6, <1>7

FirstDoc == <<[from |-> 1, to |-> 1]>>

DocLoop(docs, file) ==
    docs = [k \in 0 .. Len(file) |-> IF k = 0 THEN <<[from |-> 1, to |-> 1]>> ELSE DocLine(file, docs[k - 1], k)]

LEMMA FirstDocIs == FirstDoc \in Seq(DocRange) /\ Len(FirstDoc) > 0 /\ DocsTo(FirstDoc, 0)
<1> PICK r, D : r = [from |-> 1, to |-> 1] /\ D = DocRange
  OBVIOUS
<1>1. r \in D /\ r.from = 1 /\ r.to = 1
  BY ONLY r = [from |-> 1, to |-> 1], D = DocRange DEF DocRange
<1>2. FirstDoc = <<r>>
  BY ONLY r = [from |-> 1, to |-> 1] DEF FirstDoc
<1>3. <<r>> \in Seq(D) /\ Len(<<r>>) = 1 /\ <<r>>[1] = r
  BY ONLY <1>1
<1>4. FirstDoc \in Seq(DocRange) /\ Len(FirstDoc) = 1 /\ FirstDoc[1].from = 1 /\ FirstDoc[1].to = 1
  BY ONLY <1>1, <1>2, <1>3, D = DocRange
<1>5. 1 .. Len(FirstDoc) - 1 = {}
  BY ONLY <1>4
<1>6. FirstDoc[Len(FirstDoc)].from \in 1 .. 0 + 1 /\ FirstDoc[Len(FirstDoc)].to = 1
  BY ONLY <1>4
<1>7. FirstDoc[Len(FirstDoc)].to = IF FirstDoc[Len(FirstDoc)].from = 0 + 1 THEN 0 + 1 ELSE 0
  BY ONLY <1>4
<1> QED
  BY ONLY <1>4, <1>5, <1>6, <1>7 DEF DocsTo

LEMMA DocLoopExists ==
  ASSUME NEW L, NEW file \in Seq(L)
  PROVE  \E docs : DocLoop(docs, file)
<1> PICK n, Q : n = Len(file) /\ Q = {d \in Seq(DocRange) : Len(d) > 0}
  OBVIOUS
<1> PICK g : g = [k \in 1 .. n |-> [d \in Q |-> DocLine(file, d, k)]]
  OBVIOUS
<1>1. n \in Nat /\ FirstDoc \in Q
  BY FirstDocIs
<1>2. \A k \in 1 .. n, d \in Q : DocLine(file, d, k) \in Q
  <2> TAKE k \in 1 .. n, d \in Q
  <2>1. k \in Nat \ {0} /\ d \in Seq(DocRange) /\ Len(d) > 0
    BY <1>1
  <2>2. DocLine(file, d, k) \in Seq(DocRange) /\ Len(DocLine(file, d, k)) > 0
    BY ONLY <2>1, DocLineIn
  <2> QED
    BY ONLY <2>2, Q = {x \in Seq(DocRange) : Len(x) > 0}
<1>3. Rounds(g, n, Q)
  BY ONLY <1>2, g = [k \in 1 .. n |-> [d \in Q |-> DocLine(file, d, k)]] DEF Rounds
<1>4. PICK f : IsLoop(f, n, Q, FirstDoc, g)
  BY ONLY <1>1, <1>3, LoopExists
<1>5. ASSUME NEW k \in 0 .. n PROVE f[k] = IF k = 0 THEN FirstDoc ELSE DocLine(file, f[k - 1], k)
  <2>1. k # 0 => k \in 1 .. n /\ k - 1 \in 0 .. n
    BY ONLY <1>1, k \in 0 .. n
  <2>2. k # 0 => f[k - 1] \in Q
    BY ONLY <1>4, <2>1 DEF IsLoop
  <2>3. k # 0 => g[k][f[k - 1]] = DocLine(file, f[k - 1], k)
    BY ONLY <2>1, <2>2, g = [x \in 1 .. n |-> [d \in Q |-> DocLine(file, d, x)]]
  <2>4. f[k] = IF k = 0 THEN FirstDoc ELSE g[k][f[k - 1]]
    BY ONLY <1>4, k \in 0 .. n DEF IsLoop
  <2> QED
    BY ONLY <2>3, <2>4
<1>6. f = [k \in 0 .. n |-> f[k]]
  BY ONLY <1>4 DEF IsLoop
<1>7. f = [k \in 0 .. n |-> IF k = 0 THEN FirstDoc ELSE DocLine(file, f[k - 1], k)]
  BY ONLY <1>5, <1>6
<1>8. DocLoop(f, file)
  BY ONLY <1>7, n = Len(file) DEF DocLoop, FirstDoc
<1> QED
  BY ONLY <1>8

\* The documents of a file of n lines.
DocsTile(docs, n) ==
    /\ docs \in Seq(DocRange) /\ Len(docs) > 0 /\ docs[1].from = 1
    /\ \A i \in 1 .. Len(docs) : 1 <= docs[i].from /\ docs[i].from <= docs[i].to /\ docs[i].to <= n
    /\ \A i \in 1 .. Len(docs) - 1 : docs[i + 1].from = docs[i].to + 2

LEMMA YamlDocsTile ==
  ASSUME NEW L, NEW file \in Seq(L), file # <<>>
  PROVE  DocsTile(YamlDocs(file), Len(file))
<1> DEFINE docs == CHOOSE docs : docs = [k \in 0 .. Len(file) |-> IF k = 0 THEN <<[from |-> 1, to |-> 1]>> ELSE DocLine(file, docs[k - 1], k)]
<1>1. \E f : DocLoop(f, file)
  BY DocLoopExists
<1>2. DocLoop(docs, file)
  BY <1>1 DEF DocLoop
<1>3. YamlDocs(file) = docs[Len(file)]
  BY DEF YamlDocs
<1> HIDE DEF docs
<1> PICK n : n = Len(file)
  OBVIOUS
<1>4. n \in Nat /\ n # 0
  BY n = Len(file)
<1>5. \A k \in 0 .. n : docs[k] = IF k = 0 THEN FirstDoc ELSE DocLine(file, docs[k - 1], k)
  BY ONLY <1>2, n = Len(file) DEF DocLoop, FirstDoc
<1>6. docs[0] = FirstDoc /\ \A k \in 1 .. n : docs[k] = DocLine(file, docs[k - 1], k)
  BY ONLY <1>4, <1>5
<1> DEFINE T == {k \in 0 .. n : DocsTo(docs[k], k) /\ (k = n => docs[k][Len(docs[k])].from <= k)}
<1>7. 0 \in T
  BY <1>4, <1>6, FirstDocIs
<1>8. ASSUME NEW k \in 0 .. n - 1, k \in T PROVE k + 1 \in T
  <2>1. k + 1 \in 1 .. n /\ k + 1 \in 0 .. n /\ (k + 1) - 1 = k /\ k + 1 \in Nat \ {0}
    BY ONLY <1>4, k \in 0 .. n - 1
  <2>2. docs[k + 1] = DocLine(file, docs[k], k + 1)
    BY ONLY <1>6, <2>1
  <2>3. DocsTo(docs[k], k)
    BY <1>8
  <2> PICK s, j : s = docs[k] /\ j = k + 1
    OBVIOUS
  <2>4. j \in Nat \ {0} /\ DocsTo(s, j - 1)
    BY ONLY <2>1, <2>3, s = docs[k], j = k + 1
  <2>5. /\ DocsTo(DocLine(file, s, j), j)
        /\ j = Len(file) => DocLine(file, s, j)[Len(DocLine(file, s, j))].from <= j
    BY ONLY <2>4, DocLineTo
  <2>6. DocLine(file, s, j) = docs[j]
    BY ONLY <2>2, s = docs[k], j = k + 1
  <2>7. DocsTo(docs[j], j) /\ (j = n => docs[j][Len(docs[j])].from <= j)
    BY ONLY <2>5, <2>6, n = Len(file)
  <2> QED
    BY <2>1, <2>7, j = k + 1
<1>9. n \in T
  <2> HIDE DEF T
  <2>1. \A k \in 0 .. n : k \in T
    BY ONLY <1>4, <1>7, <1>8, UpTo
  <2> QED
    BY ONLY <1>4, <2>1
<1> PICK d, m : d = docs[n] /\ m = Len(docs[n])
  OBVIOUS
<1>10. DocsTo(d, n) /\ m = Len(d) /\ d[m].from <= n
  <2>1. DocsTo(docs[n], n) /\ docs[n][Len(docs[n])].from <= n
    BY <1>9
  <2> QED
    BY ONLY <2>1, d = docs[n], m = Len(docs[n])
<1>11. d \in Seq(DocRange) /\ m > 0 /\ m \in Nat /\ d[1].from = 1
  BY <1>10 DEF DocsTo
<1>12. /\ \A i \in 1 .. m - 1 : /\ 1 <= d[i].from /\ d[i].from <= d[i].to /\ d[i].to <= n
                                /\ d[i + 1].from = d[i].to + 2
       /\ d[m].from \in 1 .. n + 1
       /\ d[m].to = IF d[m].from = n + 1 THEN n + 1 ELSE n
  BY ONLY <1>10, Zenon DEF DocsTo
<1>13. 1 <= d[m].from /\ d[m].from <= d[m].to /\ d[m].to <= n
  <2> PICK u : u = d[m].from
    OBVIOUS
  <2>1. u \in Nat /\ 1 <= u /\ u <= n /\ u # n + 1
    BY ONLY <1>4, <1>10, <1>12, u = d[m].from
  <2>2. d[m].to = n
    BY ONLY <1>12, <2>1, u = d[m].from
  <2> QED
    BY ONLY <1>4, <2>1, <2>2, u = d[m].from
<1>14. \A i \in 1 .. m : 1 <= d[i].from /\ d[i].from <= d[i].to /\ d[i].to <= n
  <2> TAKE i \in 1 .. m
  <2>1. i = m \/ i \in 1 .. m - 1
    BY ONLY <1>11, i \in 1 .. m
  <2> QED
    BY ONLY <1>12, <1>13, <2>1
<1>15. DocsTile(d, n)
  BY ONLY <1>10, <1>11, <1>12, <1>14 DEF DocsTile
<1> QED
  BY ONLY <1>3, <1>15, n = Len(file), d = docs[n]

-----------------------------------------------------------------------------
(***************************************************************************)
(* The chunks of a YAML file: a document that is not blank is one of them, *)
(* under a range that is one line too low for every separator before it.   *)
(***************************************************************************)
YamlStates(L) == [line : Int, chunks : Seq(ChunkOf(L))]

DocText(file, docs, i) == SubSeq(file, docs[i].from, docs[i].to)

DocTexts(file, docs) == [i \in DOMAIN docs |-> TextOf(SubSeq(file, docs[i].from, docs[i].to))]

DocChunk(st, text) == Chunk(Trim(text), st.line, st.line + Len(text) - 1)

DriftedChunk(file, docs, i) ==
    Chunk(Trim(DocText(file, docs, i)), docs[i].from + i - 1, docs[i].to + i - 1)

LEMMA YamlDocumentIs ==
  ASSUME NEW L, NEW st \in YamlStates(L), NEW text \in Seq(L)
  PROVE  /\ YamlDocument(st, text) \in YamlStates(L)
         /\ YamlDocument(st, text).line = st.line + Len(text) + 2
         /\ Trim(text) = <<>> => YamlDocument(st, text).chunks = st.chunks
         /\ Trim(text) # <<>> => YamlDocument(st, text).chunks = Append(st.chunks, DocChunk(st, text))
         /\ DocChunk(st, text) \in ChunkOf(L) /\ DocChunk(st, text).content = Trim(text)
<1> PICK Q, C, c, y, n : /\ Q = Seq(ChunkOf(L)) /\ C = ChunkOf(L) /\ c = DocChunk(st, text)
                         /\ y = YamlDocument(st, text) /\ n = Len(text)
  OBVIOUS
<1>1. st.line \in Int /\ st.chunks \in Q /\ n \in Nat
  <2>1. st \in [line : Int, chunks : Q]
    BY ONLY st \in YamlStates(L), Q = Seq(ChunkOf(L)) DEF YamlStates
  <2>2. n \in Nat
    BY n = Len(text)
  <2> QED
    BY ONLY <2>1, <2>2
<1>2. c \in C /\ c.content = Trim(text)
  <2>1. Trim(text) \in Seq(L) /\ st.line \in Int /\ st.line + n - 1 \in Int
    BY <1>1, TrimIn
  <2>2. c = Chunk(Trim(text), st.line, st.line + n - 1)
    BY ONLY c = DocChunk(st, text), n = Len(text) DEF DocChunk
  <2> PICK x, to : x = Trim(text) /\ to = st.line + n - 1
    OBVIOUS
  <2>3. Chunk(x, st.line, to) \in ChunkOf(L) /\ Chunk(x, st.line, to).content = x
    BY ONLY <2>1, ChunkIs, x = Trim(text), to = st.line + n - 1
  <2> QED
    BY ONLY <2>2, <2>3, x = Trim(text), to = st.line + n - 1, C = ChunkOf(L)
<1> PICK more : more = Append(st.chunks, c)
  OBVIOUS
<1>3. more \in Q
  BY ONLY <1>1, <1>2, more = Append(st.chunks, c), Q = Seq(ChunkOf(L)), C = ChunkOf(L)
<1>4. y = [line |-> st.line + n + 2, chunks |-> IF Trim(text) = <<>> THEN st.chunks ELSE more]
  BY y = YamlDocument(st, text), n = Len(text), more = Append(st.chunks, c), c = DocChunk(st, text), Zenon DEF YamlDocument, DocChunk
<1> PICK chunks : chunks = IF Trim(text) = <<>> THEN st.chunks ELSE more
  OBVIOUS
<1>5. chunks \in Q
  BY ONLY <1>1, <1>3, chunks = IF Trim(text) = <<>> THEN st.chunks ELSE more
<1>6. y = [line |-> st.line + n + 2, chunks |-> chunks]
  BY ONLY <1>4, chunks = IF Trim(text) = <<>> THEN st.chunks ELSE more
<1>7. y \in [line : Int, chunks : Q] /\ y.line = st.line + n + 2 /\ y.chunks = chunks
  BY ONLY <1>1, <1>5, <1>6
<1>8. y \in YamlStates(L)
  BY ONLY <1>7, Q = Seq(ChunkOf(L)) DEF YamlStates
<1>9. (Trim(text) = <<>> => y.chunks = st.chunks) /\ (Trim(text) # <<>> => y.chunks = more)
  BY ONLY <1>7, chunks = IF Trim(text) = <<>> THEN st.chunks ELSE more
<1> QED
  BY ONLY <1>2, <1>7, <1>8, <1>9, y = YamlDocument(st, text), n = Len(text), more = Append(st.chunks, c),
          c = DocChunk(st, text), C = ChunkOf(L)

\* The lines of a document.
LEMMA DocTextIs ==
  ASSUME NEW L, NEW file \in Seq(L), NEW docs, DocsTile(docs, Len(file)), NEW i \in 1 .. Len(docs)
  PROVE  /\ DocText(file, docs, i) \in Seq(L) /\ docs[i].from \in Nat /\ docs[i].to \in Nat
         /\ Len(DocText(file, docs, i)) = docs[i].to - docs[i].from + 1
<1> PICK a, b, x, p, n : /\ a = docs[i].from /\ b = docs[i].to /\ x = docs[i].from - 1 /\ p = DocText(file, docs, i)
                         /\ n = Len(file)
  OBVIOUS
<1>1. 1 <= a /\ a <= b /\ b <= n
  BY a = docs[i].from, b = docs[i].to, n = Len(file) DEF DocsTile
<1>2. a \in Nat /\ b \in Nat
  <2>1. docs[i] \in DocRange
    BY DEF DocsTile
  <2> QED
    BY ONLY <2>1, a = docs[i].from, b = docs[i].to DEF DocRange
<1>3. n \in Nat
  BY n = Len(file)
<1>4. x \in Nat /\ a = x + 1 /\ x <= b
  BY ONLY <1>1, <1>2, a = docs[i].from, x = docs[i].from - 1
<1>5. p = SubSeq(file, x + 1, b)
  BY ONLY <1>4, p = DocText(file, docs, i), a = docs[i].from, b = docs[i].to DEF DocText
<1>6. p \in Seq(L) /\ Len(p) = b - x
  BY ONLY <1>1, <1>2, <1>4, <1>5, PieceIs, file \in Seq(L), n = Len(file)
<1>7. b - x = b - a + 1
  BY ONLY <1>2, <1>4
<1> QED
  BY ONLY <1>2, <1>6, <1>7, a = docs[i].from, b = docs[i].to, p = DocText(file, docs, i)

LEMMA DocTextsIn ==
  ASSUME NEW L, NEW file \in Seq(L), NEW docs, DocsTile(docs, Len(file))
  PROVE  /\ DocTexts(file, docs) \in Seq(Seq(L)) /\ Len(DocTexts(file, docs)) = Len(docs)
         /\ \A i \in 1 .. Len(docs) : DocTexts(file, docs)[i] = TextOf(DocText(file, docs, i))
<1> PICK m, Q, l : m = Len(docs) /\ Q = Seq(L) /\ l = DocTexts(file, docs)
  OBVIOUS
<1>1. m \in Nat /\ DOMAIN docs = 1 .. m
  BY m = Len(docs) DEF DocsTile
<1>2. \A i \in 1 .. m : TextOf(DocText(file, docs, i)) \in Q
  <2> TAKE i \in 1 .. m
  <2>1. DocText(file, docs, i) \in Seq(L)
    BY DocTextIs, m = Len(docs)
  <2> QED
    BY ONLY <2>1, TextIn, Q = Seq(L)
<1>3. l = [i \in 1 .. m |-> TextOf(DocText(file, docs, i))]
  BY ONLY <1>1, l = DocTexts(file, docs) DEF DocTexts, DocText
<1>4. l \in [1 .. m -> Q]
  BY ONLY <1>2, <1>3
<1>5. l \in Seq(Q) /\ Len(l) = m
  BY ONLY <1>1, <1>4
<1> QED
  BY ONLY <1>3, <1>5, m = Len(docs), Q = Seq(L), l = DocTexts(file, docs)

YamlLoop(st, file, docs) ==
    st = [i \in 0 .. Len(docs) |->
            IF i = 0 THEN [line |-> 1, chunks |-> <<>>]
            ELSE YamlDocument(st[i - 1], SubSeq(file, docs[i].from, docs[i].to))]

NoDocuments == [line |-> 1, chunks |-> <<>>]

LEMMA NoDocumentsIn == ASSUME NEW L PROVE NoDocuments \in YamlStates(L) /\ NoDocuments.line = 1 /\ NoDocuments.chunks = <<>>
<1> PICK Q : Q = Seq(ChunkOf(L))
  OBVIOUS
<1>1. <<>> \in Q
  BY Q = Seq(ChunkOf(L))
<1>2. NoDocuments \in [line : Int, chunks : Q] /\ NoDocuments.line = 1 /\ NoDocuments.chunks = <<>>
  BY ONLY <1>1 DEF NoDocuments
<1> QED
  BY ONLY <1>2, Q = Seq(ChunkOf(L)) DEF YamlStates

LEMMA YamlLoopExists ==
  ASSUME NEW L, NEW file \in Seq(L), NEW docs, DocsTile(docs, Len(file))
  PROVE  \E st : YamlLoop(st, file, docs)
<1> PICK n, Q : n = Len(docs) /\ Q = YamlStates(L)
  OBVIOUS
<1> PICK g : g = [i \in 1 .. n |-> [st \in Q |-> YamlDocument(st, DocText(file, docs, i))]]
  OBVIOUS
<1>1. n \in Nat /\ NoDocuments \in Q
  BY NoDocumentsIn DEF DocsTile
<1>2. \A i \in 1 .. n, st \in Q : YamlDocument(st, DocText(file, docs, i)) \in Q
  <2> TAKE i \in 1 .. n, st \in Q
  <2>1. DocText(file, docs, i) \in Seq(L)
    BY DocTextIs, n = Len(docs)
  <2> QED
    BY ONLY <2>1, YamlDocumentIs, st \in Q, Q = YamlStates(L)
<1>3. Rounds(g, n, Q)
  BY ONLY <1>2, g = [i \in 1 .. n |-> [st \in Q |-> YamlDocument(st, DocText(file, docs, i))]] DEF Rounds
<1>4. PICK f : IsLoop(f, n, Q, NoDocuments, g)
  BY ONLY <1>1, <1>3, LoopExists
<1>5. ASSUME NEW i \in 0 .. n PROVE f[i] = IF i = 0 THEN NoDocuments ELSE YamlDocument(f[i - 1], DocText(file, docs, i))
  <2>1. i # 0 => i \in 1 .. n /\ i - 1 \in 0 .. n
    BY ONLY <1>1, i \in 0 .. n
  <2>2. i # 0 => f[i - 1] \in Q
    BY ONLY <1>4, <2>1 DEF IsLoop
  <2>3. i # 0 => g[i][f[i - 1]] = YamlDocument(f[i - 1], DocText(file, docs, i))
    BY ONLY <2>1, <2>2, g = [x \in 1 .. n |-> [st \in Q |-> YamlDocument(st, DocText(file, docs, x))]]
  <2>4. f[i] = IF i = 0 THEN NoDocuments ELSE g[i][f[i - 1]]
    BY ONLY <1>4, i \in 0 .. n DEF IsLoop
  <2> QED
    BY ONLY <2>3, <2>4
<1>6. f = [i \in 0 .. n |-> f[i]]
  BY ONLY <1>4 DEF IsLoop
<1>7. f = [i \in 0 .. n |-> IF i = 0 THEN NoDocuments ELSE YamlDocument(f[i - 1], DocText(file, docs, i))]
  BY ONLY <1>5, <1>6
<1>8. YamlLoop(f, file, docs)
  BY ONLY <1>7, n = Len(docs) DEF YamlLoop, NoDocuments, DocText
<1> QED
  BY ONLY <1>8

\* After i documents, whose text is laid end to end in flat.
YamlHolds(file, docs, flat, st, i) ==
    /\ i < Len(docs) => st.line = docs[i + 1].from + i
    /\ TextOfChunks(st.chunks) = flat[i]
    /\ \A h \in 1 .. i : Trim(DocText(file, docs, h)) # <<>> =>
                            \E j \in 1 .. Len(st.chunks) : st.chunks[j] = DriftedChunk(file, docs, h)

LEMMA YamlDocumentHolds ==
  ASSUME NEW L, NEW file \in Seq(L), NEW docs, DocsTile(docs, Len(file)), NEW flat,
         FlatRun(flat, DocTexts(file, docs), L), NEW st \in YamlStates(L), NEW i \in 0 .. Len(docs) - 1,
         YamlHolds(file, docs, flat, st, i)
  PROVE  YamlHolds(file, docs, flat, YamlDocument(st, DocText(file, docs, i + 1)), i + 1)
<1> PICK m, j, text, y, c : /\ m = Len(docs) /\ j = i + 1 /\ text = DocText(file, docs, i + 1)
                            /\ y = YamlDocument(st, DocText(file, docs, i + 1)) /\ c = DocChunk(st, DocText(file, docs, i + 1))
  OBVIOUS
<1> PICK a, b : a = docs[j].from /\ b = docs[j].to
  OBVIOUS
<1>1. m \in Nat /\ i \in Nat /\ i < m /\ j \in 1 .. m /\ j \in Nat /\ j - 1 = i
  <2>1. m \in Nat
    BY m = Len(docs) DEF DocsTile
  <2> QED
    BY ONLY <2>1, i \in 0 .. Len(docs) - 1, m = Len(docs), j = i + 1
<1>2. text \in Seq(L) /\ a \in Nat /\ b \in Nat /\ Len(text) = b - a + 1
  <2>1. j \in 1 .. Len(docs) /\ text = DocText(file, docs, j)
    BY ONLY <1>1, m = Len(docs), j = i + 1, text = DocText(file, docs, i + 1)
  <2> QED
    BY ONLY <2>1, DocTextIs, file \in Seq(L), DocsTile(docs, Len(file)), a = docs[j].from, b = docs[j].to
<1>3. /\ y.line = st.line + Len(text) + 2 /\ c \in ChunkOf(L) /\ c.content = Trim(text)
      /\ Trim(text) = <<>> => y.chunks = st.chunks
      /\ Trim(text) # <<>> => y.chunks = Append(st.chunks, c)
  BY ONLY <1>2, YamlDocumentIs, st \in YamlStates(L), y = YamlDocument(st, DocText(file, docs, i + 1)),
          c = DocChunk(st, DocText(file, docs, i + 1)), text = DocText(file, docs, i + 1)
<1>4. st.chunks \in Seq(ChunkOf(L)) /\ st.line \in Int
  BY DEF YamlStates
<1>5. /\ st.line = a + i
      /\ TextOfChunks(st.chunks) = flat[i]
      /\ \A h \in 1 .. i : Trim(DocText(file, docs, h)) # <<>> =>
                              \E x \in 1 .. Len(st.chunks) : st.chunks[x] = DriftedChunk(file, docs, h)
  <2>1. /\ i < Len(docs) => st.line = docs[i + 1].from + i
        /\ TextOfChunks(st.chunks) = flat[i]
        /\ \A h \in 1 .. i : Trim(DocText(file, docs, h)) # <<>> =>
                                \E x \in 1 .. Len(st.chunks) : st.chunks[x] = DriftedChunk(file, docs, h)
    BY ONLY YamlHolds(file, docs, flat, st, i), Zenon DEF YamlHolds
  <2> QED
    BY ONLY <1>1, <2>1, m = Len(docs), j = i + 1, a = docs[j].from
<1>6. j < Len(docs) => y.line = docs[j + 1].from + j
  <2> SUFFICES ASSUME j < Len(docs) PROVE y.line = docs[j + 1].from + j
    OBVIOUS
  <2>1. j \in 1 .. Len(docs) - 1
    BY ONLY <1>1, j < Len(docs), m = Len(docs)
  <2>2. docs[j + 1].from = b + 2
    BY ONLY <2>1, DocsTile(docs, Len(file)), b = docs[j].to DEF DocsTile
  <2>3. y.line = (a + i) + (b - a + 1) + 2
    BY ONLY <1>2, <1>3, <1>5
  <2>4. i \in Nat /\ j = i + 1 /\ a \in Nat /\ b \in Nat
    BY ONLY <1>1, <1>2
  <2>5. (a + i) + (b - a + 1) + 2 = (b + 2) + j
    BY ONLY <2>4
  <2> QED
    BY ONLY <2>2, <2>3, <2>5
<1>7. flat[j] = flat[i] \o TextOf(text) /\ flat[i] \in Seq(L)
  <2>1. Len(DocTexts(file, docs)) = m /\ \A h \in 1 .. m : DocTexts(file, docs)[h] = TextOf(DocText(file, docs, h))
    BY ONLY DocTextsIn, file \in Seq(L), DocsTile(docs, Len(file)), m = Len(docs)
  <2>2. flat[j] = flat[j - 1] \o DocTexts(file, docs)[j]
    BY ONLY <1>1, <2>1, FlatRun(flat, DocTexts(file, docs), L) DEF FlatRun
  <2>3. flat[i] \in Seq(L)
    <3>1. i \in 0 .. Len(DocTexts(file, docs))
      BY ONLY <1>1, <2>1
    <3> QED
      BY ONLY <3>1, FlatRun(flat, DocTexts(file, docs), L) DEF FlatRun
  <2> QED
    BY ONLY <1>1, <2>1, <2>2, <2>3, j = i + 1, text = DocText(file, docs, i + 1)
<1>8. TextOf(Trim(text)) = TextOf(text)
  BY ONLY <1>2, TextTrim
<1>9. CASE Trim(text) = <<>>
  <2>1. y.chunks = st.chunks
    BY ONLY <1>3, <1>9
  <2>2. TextOf(text) = <<>>
    <3>1. <<>> \in Seq(L) /\ \A k \in 1 .. Len(<<>>) : <<>>[k] \in Blank
      OBVIOUS
    <3>2. TextOf(<<>>) = <<>>
      BY ONLY <3>1, TextOfBlanks
    <3> QED
      BY ONLY <1>8, <1>9, <3>2
  <2>3. flat[j] = flat[i]
    BY ONLY <1>7, <2>2
  <2>4. \A h \in 1 .. j : Trim(DocText(file, docs, h)) # <<>> =>
                              \E x \in 1 .. Len(y.chunks) : y.chunks[x] = DriftedChunk(file, docs, h)
    <3> TAKE h \in 1 .. j
    <3>1. h = j \/ h \in 1 .. i
      BY ONLY <1>1, h \in 1 .. j
    <3>2. h = j => Trim(DocText(file, docs, h)) = <<>>
      BY ONLY <1>9, j = i + 1, text = DocText(file, docs, i + 1)
    <3> QED
      BY ONLY <1>5, <2>1, <3>1, <3>2
  <2>5. TextOfChunks(y.chunks) = flat[j]
    BY ONLY <1>5, <2>1, <2>3
  <2> QED
    BY ONLY <1>6, <2>4, <2>5, j = i + 1, y = YamlDocument(st, DocText(file, docs, i + 1)) DEF YamlHolds
<1>10. CASE Trim(text) # <<>>
  <2>1. y.chunks = Append(st.chunks, c)
    BY ONLY <1>3, <1>10
  <2>2. TextOfChunks(y.chunks) = flat[j]
    <3>1. TextOfChunks(Append(st.chunks, c)) = TextOfChunks(st.chunks) \o TextOf(c.content)
      BY ONLY <1>3, <1>4, ChunksTextAppend
    <3> QED
      BY ONLY <1>3, <1>5, <1>7, <1>8, <2>1, <3>1
  <2> PICK n : n = Len(st.chunks)
    OBVIOUS
  <2>3. /\ n \in Nat /\ Len(y.chunks) = n + 1 /\ y.chunks[n + 1] = c
        /\ \A x \in 1 .. n : y.chunks[x] = st.chunks[x]
    <3> PICK C, s : C = ChunkOf(L) /\ s = st.chunks
      OBVIOUS
    <3>1. s \in Seq(C) /\ c \in C /\ y.chunks = Append(s, c) /\ n = Len(s)
      BY ONLY <1>3, <1>4, <2>1, n = Len(st.chunks), C = ChunkOf(L), s = st.chunks
    <3>2. /\ n \in Nat /\ Len(y.chunks) = n + 1 /\ y.chunks[n + 1] = c
          /\ \A x \in 1 .. n : y.chunks[x] = s[x]
      BY ONLY <3>1
    <3> QED
      BY ONLY <3>2, s = st.chunks
  <2>4. c = DriftedChunk(file, docs, j)
    <3>1. c = Chunk(Trim(text), st.line, st.line + Len(text) - 1)
      BY ONLY c = DocChunk(st, DocText(file, docs, i + 1)), text = DocText(file, docs, i + 1) DEF DocChunk
    <3>2. DriftedChunk(file, docs, j) = Chunk(Trim(text), a + j - 1, b + j - 1)
      BY ONLY j = i + 1, text = DocText(file, docs, i + 1), a = docs[j].from, b = docs[j].to DEF DriftedChunk
    <3>3. st.line = a + j - 1 /\ st.line + Len(text) - 1 = b + j - 1
      <4>1. i \in Nat /\ j = i + 1 /\ a \in Nat /\ b \in Nat
        BY ONLY <1>1, <1>2
      <4>2. st.line = a + i /\ Len(text) = b - a + 1
        BY ONLY <1>2, <1>5, Zenon
      <4>3. a + i = a + j - 1 /\ (a + i) + (b - a + 1) - 1 = b + j - 1
        BY ONLY <4>1
      <4> QED
        BY ONLY <4>2, <4>3
    <3> QED
      BY ONLY <3>1, <3>2, <3>3
  <2>5. \A h \in 1 .. j : Trim(DocText(file, docs, h)) # <<>> =>
                              \E x \in 1 .. Len(y.chunks) : y.chunks[x] = DriftedChunk(file, docs, h)
    <3> TAKE h \in 1 .. j
    <3> HAVE Trim(DocText(file, docs, h)) # <<>>
    <3>1. h = j \/ h \in 1 .. i
      BY ONLY <1>1, h \in 1 .. j
    <3>2. CASE h = j
      <4>1. n + 1 \in 1 .. Len(y.chunks) /\ y.chunks[n + 1] = DriftedChunk(file, docs, h)
        BY ONLY <2>3, <2>4, <3>2
      <4> QED
        BY ONLY <4>1
    <3>3. CASE h \in 1 .. i
      <4>1. PICK x \in 1 .. n : st.chunks[x] = DriftedChunk(file, docs, h)
        BY <1>5, <3>3, n = Len(st.chunks)
      <4>2. x \in 1 .. Len(y.chunks) /\ y.chunks[x] = DriftedChunk(file, docs, h)
        BY ONLY <2>3, <4>1
      <4> QED
        BY ONLY <4>2
    <3> QED
      BY ONLY <3>1, <3>2, <3>3
  <2> QED
    BY ONLY <1>6, <2>2, <2>5, j = i + 1, y = YamlDocument(st, DocText(file, docs, i + 1)) DEF YamlHolds
<1> QED
  BY ONLY <1>9, <1>10

\* The text of the chunks is that of the file's documents, or the whole file is its own chunk.
LEMMA YamlParsed ==
  ASSUME NEW L, NEW file \in Seq(L), file # <<>>
  PROVE  /\ ParseYaml(file) \in Seq(ChunkOf(L)) /\ DocsTile(YamlDocs(file), Len(file))
         /\ TextOfDocs(file) \in {<<>>, TextOfChunks(ParseYaml(file))}
         /\ \A h \in 1 .. Len(YamlDocs(file)) :
               Trim(DocText(file, YamlDocs(file), h)) # <<>> =>
                  \E j \in 1 .. Len(ParseYaml(file)) : ParseYaml(file)[j] = DriftedChunk(file, YamlDocs(file), h)
<1> PICK docs : docs = YamlDocs(file)
  OBVIOUS
<1> DEFINE st == CHOOSE st : st = [i \in 0 .. Len(docs) |->
            IF i = 0 THEN [line |-> 1, chunks |-> <<>>]
            ELSE YamlDocument(st[i - 1], SubSeq(file, docs[i].from, docs[i].to))]
<1>0. DocsTile(docs, Len(file))
  BY YamlDocsTile
<1>1. \E f : YamlLoop(f, file, docs)
  BY <1>0, YamlLoopExists
<1>2. YamlLoop(st, file, docs)
  BY <1>1 DEF YamlLoop
<1>3. ParseYaml(file) = OrWholeFile(st[Len(docs)].chunks, file)
  BY DEF ParseYaml
<1> HIDE DEF st
<1> PICK n : n = Len(docs)
  OBVIOUS
<1>4. n \in Nat /\ n > 0
  BY <1>0, n = Len(docs) DEF DocsTile
<1>5. \A i \in 0 .. n : st[i] = IF i = 0 THEN NoDocuments ELSE YamlDocument(st[i - 1], DocText(file, docs, i))
  BY ONLY <1>2, n = Len(docs) DEF YamlLoop, NoDocuments, DocText
<1>6. st[0] = NoDocuments /\ \A i \in 1 .. n : st[i] = YamlDocument(st[i - 1], DocText(file, docs, i))
  BY ONLY <1>4, <1>5
<1>7. /\ DocTexts(file, docs) \in Seq(Seq(L)) /\ Len(DocTexts(file, docs)) = n
      /\ TextOfDocs(file) = Flat(DocTexts(file, docs))
  <2>1. DocTexts(file, docs) \in Seq(Seq(L)) /\ Len(DocTexts(file, docs)) = n
    BY ONLY <1>0, DocTextsIn, file \in Seq(L), n = Len(docs)
  <2>2. TextOfDocs(file) = Flat(DocTexts(file, docs))
    BY docs = YamlDocs(file) DEF TextOfDocs, DocTexts
  <2> QED
    BY ONLY <2>1, <2>2
<1>8. PICK flat : FlatRun(flat, DocTexts(file, docs), L) /\ Flat(DocTexts(file, docs)) = flat[n]
  <2>1. \E f : FlatRun(f, DocTexts(file, docs), L) /\ Flat(DocTexts(file, docs)) = f[Len(DocTexts(file, docs))]
    BY ONLY <1>7, FlatIs
  <2> QED
    BY ONLY <1>7, <2>1
<1> DEFINE T == {i \in 0 .. n : st[i] \in YamlStates(L) /\ YamlHolds(file, docs, flat, st[i], i)}
<1>9. 0 \in T
  <2>1. NoDocuments \in YamlStates(L) /\ NoDocuments.line = 1 /\ NoDocuments.chunks = <<>>
    BY NoDocumentsIn
  <2>2. docs[1].from = 1
    BY <1>0 DEF DocsTile
  <2>3. flat[0] = <<>>
    BY <1>8 DEF FlatRun
  <2> PICK z : z = 0
    OBVIOUS
  <2>4. z < Len(docs) => NoDocuments.line = docs[z + 1].from + z
    BY ONLY <2>1, <2>2, z = 0
  <2>5. TextOfChunks(NoDocuments.chunks) = flat[z] /\ 1 .. z = {}
    BY ONLY <2>1, <2>3, ChunksTextNone, z = 0
  <2>6. YamlHolds(file, docs, flat, NoDocuments, z)
    BY ONLY <2>4, <2>5 DEF YamlHolds
  <2> QED
    BY <1>4, <1>6, <2>1, <2>6, z = 0
<1>10. ASSUME NEW k \in 0 .. n - 1, k \in T PROVE k + 1 \in T
  <2>1. k + 1 \in 1 .. n /\ k + 1 \in 0 .. n /\ (k + 1) - 1 = k /\ k \in 0 .. Len(docs) - 1
    BY ONLY <1>4, k \in 0 .. n - 1, n = Len(docs)
  <2>2. st[k + 1] = YamlDocument(st[k], DocText(file, docs, k + 1))
    BY ONLY <1>6, <2>1
  <2>3. st[k] \in YamlStates(L) /\ YamlHolds(file, docs, flat, st[k], k)
    BY <1>10
  <2> PICK s, text : s = st[k] /\ text = DocText(file, docs, k + 1)
    OBVIOUS
  <2>4. text \in Seq(L)
    <3>1. k + 1 \in 1 .. Len(docs)
      BY ONLY <2>1, n = Len(docs)
    <3> QED
      BY ONLY <1>0, <3>1, DocTextIs, file \in Seq(L), text = DocText(file, docs, k + 1)
  <2>5. YamlDocument(s, text) \in YamlStates(L)
    BY ONLY <2>3, <2>4, YamlDocumentIs, s = st[k]
  <2>6. YamlHolds(file, docs, flat, YamlDocument(s, DocText(file, docs, k + 1)), k + 1)
    <3>1. s \in YamlStates(L) /\ YamlHolds(file, docs, flat, s, k)
      BY ONLY <2>3, s = st[k]
    <3> QED
      BY ONLY <1>0, <1>8, <2>1, <3>1, YamlDocumentHolds, file \in Seq(L)
  <2>7. st[k + 1] \in YamlStates(L) /\ YamlHolds(file, docs, flat, st[k + 1], k + 1)
    BY ONLY <2>2, <2>5, <2>6, s = st[k], text = DocText(file, docs, k + 1)
  <2> QED
    BY <2>1, <2>7
<1>11. n \in T
  <2> HIDE DEF T
  <2>1. \A k \in 0 .. n : k \in T
    BY ONLY <1>4, <1>9, <1>10, UpTo
  <2> QED
    BY ONLY <1>4, <2>1
<1> PICK chunks : chunks = st[n].chunks
  OBVIOUS
<1>12. /\ chunks \in Seq(ChunkOf(L)) /\ TextOfChunks(chunks) = flat[n]
       /\ \A h \in 1 .. n : Trim(DocText(file, docs, h)) # <<>> =>
                               \E j \in 1 .. Len(chunks) : chunks[j] = DriftedChunk(file, docs, h)
  <2>1. st[n] \in YamlStates(L) /\ YamlHolds(file, docs, flat, st[n], n)
    BY <1>11
  <2>2. st[n].chunks \in Seq(ChunkOf(L))
    BY ONLY <2>1 DEF YamlStates
  <2>3. /\ TextOfChunks(st[n].chunks) = flat[n]
        /\ \A h \in 1 .. n : Trim(DocText(file, docs, h)) # <<>> =>
                               \E j \in 1 .. Len(st[n].chunks) : st[n].chunks[j] = DriftedChunk(file, docs, h)
    BY ONLY <2>1, Zenon DEF YamlHolds
  <2> QED
    BY ONLY <2>2, <2>3, chunks = st[n].chunks
<1>13. ParseYaml(file) = IF chunks = <<>> THEN <<WholeFile(file)>> ELSE chunks
  BY ONLY <1>3, n = Len(docs), chunks = st[n].chunks, Zenon DEF OrWholeFile
<1>14. ParseYaml(file) \in Seq(ChunkOf(L))
  <2>1. OrWholeFile(chunks, file) \in Seq(ChunkOf(L))
    BY ONLY <1>12, OrWholeIs, file \in Seq(L)
  <2> QED
    BY ONLY <1>3, <2>1, n = Len(docs), chunks = st[n].chunks
<1>15. TextOfDocs(file) = TextOfChunks(chunks)
  BY ONLY <1>7, <1>8, <1>12
<1>16. CASE chunks = <<>>
  <2>1. TextOfDocs(file) = <<>>
    BY ONLY <1>15, <1>16, ChunksTextNone
  <2>2. \A h \in 1 .. n : Trim(DocText(file, docs, h)) = <<>>
    BY ONLY <1>12, <1>16
  <2> QED
    BY ONLY <1>0, <1>14, <2>1, <2>2, docs = YamlDocs(file), n = Len(docs)
<1>17. CASE chunks # <<>>
  <2>1. ParseYaml(file) = chunks
    BY ONLY <1>13, <1>17
  <2> QED
    BY ONLY <1>0, <1>12, <1>14, <1>15, <2>1, docs = YamlDocs(file), n = Len(docs)
<1> QED
  BY ONLY <1>16, <1>17

-----------------------------------------------------------------------------
(***************************************************************************)
(* What SplitFile has cut, and the properties of the splitter.           *)
(***************************************************************************)
RawOf(ext, file, parse) ==
    CASE ext = ".go"   -> ParseGo(file, parse)
      [] ext = ".tf"   -> ParseTerraform(file)
      [] ext = ".yaml" -> ParseYaml(file)
      [] ext = ".py"   -> ParsePython(file, parse)
      [] OTHER         -> <<WholeFile(file)>>

\* What a parser of the standard library or tree-sitter may give for a file.
Parsed(ext, file, parse) ==
    /\ ext = ".go" => parse \in Seq(GoDecl(file))
    /\ ext = ".py" => parse \in Seq(PyStatement(file)) /\ InOrder(parse)

LEMMA RawCases ==
  ASSUME NEW ext, NEW file, NEW parse
  PROVE  /\ ext = ".go" => RawOf(ext, file, parse) = ParseGo(file, parse)
         /\ ext = ".tf" => RawOf(ext, file, parse) = ParseTerraform(file)
         /\ ext = ".yaml" => RawOf(ext, file, parse) = ParseYaml(file)
         /\ ext = ".py" => RawOf(ext, file, parse) = ParsePython(file, parse)
         /\ ext \notin {".go", ".tf", ".yaml", ".py"} => RawOf(ext, file, parse) = <<WholeFile(file)>>
<1>1. ext = ".go" => RawOf(ext, file, parse) = ParseGo(file, parse)
  BY DEF RawOf
<1>2. ext = ".tf" => RawOf(ext, file, parse) = ParseTerraform(file)
  BY DEF RawOf
<1>3. ext = ".yaml" => RawOf(ext, file, parse) = ParseYaml(file)
  BY DEF RawOf
<1>4. ext = ".py" => RawOf(ext, file, parse) = ParsePython(file, parse)
  BY DEF RawOf
<1>5. ext \notin {".go", ".tf", ".yaml", ".py"} => RawOf(ext, file, parse) = <<WholeFile(file)>>
  BY DEF RawOf
<1> QED
  BY ONLY <1>1, <1>2, <1>3, <1>4, <1>5

LEMMA SplitFileIs ==
  ASSUME NEW ext, NEW file, NEW parse
  PROVE  SplitFile(ext, file, parse) = Flat(CutAll(RawOf(ext, file, parse)))
BY Zenon DEF SplitFile, RawOf, CutAll

LEMMA RawChunks ==
  ASSUME NEW L, BraceCounts(L), NEW file \in Seq(L), file # <<>>, NEW ext, NEW parse, Parsed(ext, file, parse)
  PROVE  /\ RawOf(ext, file, parse) \in Seq(ChunkOf(L))
         /\ ext # ".yaml" /\ PlainParse(ext, file, parse) => AllHold(file, RawOf(ext, file, parse))
<1> PICK raw : raw = RawOf(ext, file, parse)
  OBVIOUS
<1>1. CASE ext = ".go"
  <2>1. parse \in Seq(GoDecl(file))
    BY <1>1 DEF Parsed
  <2>2. raw = ParseGo(file, parse)
    BY ONLY <1>1, RawCases, raw = RawOf(ext, file, parse)
  <2>3. PlainParse(ext, file, parse) =>
          \A i \in DOMAIN parse : parse[i].kind = "type" => parse[i].doc = parse[i].from
    BY ONLY <1>1 DEF PlainParse
  <2>4. /\ ParseGo(file, parse) \in Seq(ChunkOf(L))
        /\ PlainParse(ext, file, parse) => AllHold(file, ParseGo(file, parse))
    BY ONLY <2>1, <2>3, GoRaw, file \in Seq(L)
  <2> QED
    BY ONLY <2>2, <2>4, raw = RawOf(ext, file, parse)
<1>2. CASE ext = ".tf"
  <2>1. raw = ParseTerraform(file)
    BY ONLY <1>2, RawCases, raw = RawOf(ext, file, parse)
  <2>2. ParseTerraform(file) \in Seq(ChunkOf(L)) /\ AllHold(file, ParseTerraform(file))
    BY TerraformRaw
  <2> QED
    BY ONLY <2>1, <2>2, raw = RawOf(ext, file, parse)
<1>3. CASE ext = ".yaml"
  <2>1. raw = ParseYaml(file)
    BY ONLY <1>3, RawCases, raw = RawOf(ext, file, parse)
  <2>2. ParseYaml(file) \in Seq(ChunkOf(L))
    BY YamlParsed
  <2> QED
    BY ONLY <1>3, <2>1, <2>2, raw = RawOf(ext, file, parse)
<1>4. CASE ext = ".py"
  <2>1. parse \in Seq(PyStatement(file)) /\ InOrder(parse)
    BY <1>4 DEF Parsed
  <2>2. raw = ParsePython(file, parse)
    BY ONLY <1>4, RawCases, raw = RawOf(ext, file, parse)
  <2>3. DOMAIN file = 1 .. Len(file) /\ DOMAIN parse = 1 .. Len(parse)
    <3> PICK S : S = PyStatement(file)
      OBVIOUS
    <3>1. parse \in Seq(S)
      BY ONLY <2>1, S = PyStatement(file)
    <3> QED
      BY ONLY <3>1, file \in Seq(L)
  <2>4. PlainParse(ext, file, parse) =>
          /\ \A k \in 1 .. Len(file) - 1 : file[k] \notin Blank /\ file[k] # file[k + 1]
          /\ \A k \in DOMAIN file : file[k] \in Blank \/ \E i \in DOMAIN parse : k \in parse[i].from .. parse[i].to
    BY ONLY <1>4 DEF PlainParse
  <2>5. PlainParse(ext, file, parse) => NoneRepeated(file)
    BY ONLY <2>4 DEF NoneRepeated
  <2>6. PlainParse(ext, file, parse) => PyCovered(file, parse)
    <3> SUFFICES ASSUME PlainParse(ext, file, parse) PROVE PyCovered(file, parse)
      OBVIOUS
    <3>1. \A k \in 1 .. Len(file) - 1 : file[k] \notin Blank
      BY ONLY <2>4, PlainParse(ext, file, parse)
    <3>2. \A k \in 1 .. Len(file) : file[k] \in Blank \/ \E i \in 1 .. Len(parse) : k \in parse[i].from .. parse[i].to
      BY ONLY <2>3, <2>4, PlainParse(ext, file, parse)
    <3> QED
      BY ONLY <3>1, <3>2, Zenon DEF PyCovered
  <2>7. /\ ParsePython(file, parse) \in Seq(ChunkOf(L))
        /\ InOrder(parse) /\ NoneRepeated(file) /\ PyCovered(file, parse) => AllHold(file, ParsePython(file, parse))
    BY ONLY <2>1, PythonRaw, file \in Seq(L)
  <2> QED
    BY ONLY <2>1, <2>2, <2>5, <2>6, <2>7, raw = RawOf(ext, file, parse)
<1>5. CASE ext \notin {".go", ".tf", ".yaml", ".py"}
  <2>1. raw = <<WholeFile(file)>>
    BY ONLY <1>5, RawCases, raw = RawOf(ext, file, parse)
  <2> PICK c : c = WholeFile(file)
    OBVIOUS
  <2>2. c \in ChunkOf(L) /\ RawHolds(file, c)
    BY ONLY WholeRaw, file \in Seq(L), c = WholeFile(file)
  <2>3. <<c>> \in Seq(ChunkOf(L)) /\ AllHold(file, <<c>>)
    BY ONLY <2>2, OneRaw
  <2> QED
    BY ONLY <2>1, <2>3, c = WholeFile(file), raw = RawOf(ext, file, parse)
<1> QED
  BY <1>1, <1>2, <1>3, <1>4, <1>5

(***************************************************************************)
(* The splitter (src/internal/splitter), for files of any length and lines*)
(* of any size: the range stored with a chunk is where its text stands in*)
(* the file, under PlainParse, a YAML document is as many lines too low as*)
(* there are separators before it, no text is lost or repeated when a file*)
(* is cut into pieces, and a piece is larger than MaxChunkSize only if it*)
(* is a single line.  The sizes and braces of a line are counts, only a  *)
(* blank line is empty, and what go/parser and tree-sitter find are line *)
(* ranges of the file, for Python one after another.                     *)
(***************************************************************************)
THEOREM SplitterIsExact ==
  ASSUME call.op = "split" =>
            /\ \E L : Weighed(L) /\ BraceCounts(L) /\ call.file \in Seq(L)
            /\ call.file # <<>> /\ Parsed(call.ext, call.file, call.parse)
  PROVE  SplitterExact
<1> SUFFICES ASSUME call.op = "split" PROVE SplitterExact
  BY Zenon DEF SplitterExact, RangesHoldText, YamlRangesDrift, NoTextLost, ChunksFit
<1> PICK ext, file, parse : ext = call.ext /\ file = call.file /\ parse = call.parse
  OBVIOUS
<1>1. PICK L : Weighed(L) /\ BraceCounts(L) /\ file \in Seq(L)
  OBVIOUS
<1>2. file # <<>> /\ Parsed(ext, file, parse)
  OBVIOUS
<1> PICK raw, chunks : raw = RawOf(ext, file, parse) /\ chunks = SplitFile(ext, file, parse)
  OBVIOUS
<1>3. chunks = Flat(CutAll(raw))
  BY ONLY SplitFileIs, raw = RawOf(ext, file, parse), chunks = SplitFile(ext, file, parse)
<1>4. /\ raw \in Seq(ChunkOf(L))
      /\ ext # ".yaml" /\ PlainParse(ext, file, parse) => AllHold(file, raw)
  BY ONLY <1>1, <1>2, RawChunks, raw = RawOf(ext, file, parse)
<1>5. DOMAIN chunks = 1 .. Len(chunks)
  <2>1. CutAll(raw) \in Seq(Seq(ChunkOf(L)))
    BY ONLY <1>1, <1>4, CutAllIn
  <2>2. chunks \in Seq(ChunkOf(L))
    BY ONLY <1>3, <2>1, FlatIn
  <2> QED
    BY ONLY <2>2
<1>6. RangesHoldText
  <2>1. ASSUME ext # ".yaml", PlainParse(ext, file, parse)
        PROVE  \A i \in DOMAIN chunks : RangeHolds(file, chunks[i])
    <3>1. \A i \in 1 .. Len(raw) : RawHolds(file, raw[i])
      BY ONLY <1>4, <2>1 DEF AllHold
    <3>2. \A j \in 1 .. Len(Flat(CutAll(raw))) : RangeHolds(file, Flat(CutAll(raw))[j])
      BY ONLY <1>1, <1>4, <3>1, CutAllHolds
    <3> QED
      BY ONLY <1>3, <1>5, <3>2
  <2> QED
    BY ONLY <2>1, ext = call.ext, file = call.file, parse = call.parse, chunks = SplitFile(ext, file, parse), Zenon
       DEF RangesHoldText
<1>7. ChunksFit
  <2>1. \A j \in 1 .. Len(Flat(CutAll(raw))) : Fits(Flat(CutAll(raw))[j])
    BY ONLY <1>1, <1>4, CutAllFits
  <2>2. \A i \in DOMAIN chunks : Bytes(chunks[i].content) <= MaxChunkSize \/ Len(chunks[i].content) = 1
    BY ONLY <1>3, <1>5, <2>1 DEF Fits
  <2> QED
    BY ONLY <2>2, ext = call.ext, file = call.file, parse = call.parse, chunks = SplitFile(ext, file, parse), Zenon
       DEF ChunksFit
<1>8. TextOfChunks(chunks) = TextOfChunks(raw)
  BY ONLY <1>1, <1>3, <1>4, CutAllText
<1>9. NoTextLost
  <2>1. ASSUME ext = ".txt" PROVE TextOfChunks(chunks) = TextOf(file)
    <3>1. raw = <<WholeFile(file)>>
      <4>1. ext \notin {".go", ".tf", ".yaml", ".py"}
        BY ONLY <2>1
      <4> QED
        BY ONLY <4>1, RawCases, raw = RawOf(ext, file, parse)
    <3>2. WholeFile(file) \in ChunkOf(L) /\ WholeFile(file).content = file
      <4>1. WholeFile(file) \in ChunkOf(L)
        BY ONLY <1>1, WholeRaw
      <4> QED
        BY ONLY <4>1 DEF WholeFile, Chunk
    <3> PICK c : c = WholeFile(file)
      OBVIOUS
    <3>3. TextOfChunks(<<c>>) = TextOf(c.content)
      BY ONLY <3>2, ChunksTextOne, c = WholeFile(file)
    <3> QED
      BY ONLY <1>8, <3>1, <3>2, <3>3, c = WholeFile(file)
  <2>2. ASSUME ext = ".yaml" PROVE TextOfDocs(file) \in {<<>>, TextOfChunks(chunks)}
    <3>1. raw = ParseYaml(file)
      BY ONLY <2>2, RawCases, raw = RawOf(ext, file, parse)
    <3>2. TextOfDocs(file) \in {<<>>, TextOfChunks(ParseYaml(file))}
      BY ONLY <1>1, <1>2, YamlParsed
    <3> QED
      BY ONLY <1>8, <3>1, <3>2
  <2> QED
    BY ONLY <2>1, <2>2, ext = call.ext, file = call.file, parse = call.parse, chunks = SplitFile(ext, file, parse), Zenon
       DEF NoTextLost
<1>10. YamlRangesDrift
  <2>1. ASSUME ext = ".yaml"
        PROVE  \A i \in DOMAIN YamlDocs(file) :
                  Trim(SubSeq(file, YamlDocs(file)[i].from, YamlDocs(file)[i].to)) # <<>> =>
                      Chunk(Trim(SubSeq(file, YamlDocs(file)[i].from, YamlDocs(file)[i].to)),
                            YamlDocs(file)[i].from + i - 1, YamlDocs(file)[i].to + i - 1) \in ToSet(ParseYaml(file))
    <3> PICK docs, y : docs = YamlDocs(file) /\ y = ParseYaml(file)
      OBVIOUS
    <3>1. /\ y \in Seq(ChunkOf(L)) /\ DocsTile(docs, Len(file))
          /\ \A h \in 1 .. Len(docs) :
                Trim(DocText(file, docs, h)) # <<>> => \E j \in 1 .. Len(y) : y[j] = DriftedChunk(file, docs, h)
      BY ONLY <1>1, <1>2, YamlParsed, docs = YamlDocs(file), y = ParseYaml(file)
    <3>2. DOMAIN docs = 1 .. Len(docs)
      BY ONLY <3>1 DEF DocsTile
    <3>3. DOMAIN y = 1 .. Len(y)
      <4>1. y \in Seq(ChunkOf(L))
        BY ONLY <3>1
      <4> QED
        BY ONLY <4>1
    <3>4. \A h \in DOMAIN docs : Trim(DocText(file, docs, h)) # <<>> => DriftedChunk(file, docs, h) \in ToSet(y)
      BY ONLY <3>1, <3>2, <3>3 DEF ToSet
    <3> QED
      BY ONLY <3>4, docs = YamlDocs(file), y = ParseYaml(file), Zenon DEF DriftedChunk, DocText
  <2> QED
    BY ONLY <2>1, ext = call.ext, file = call.file, Zenon DEF YamlRangesDrift
<1> QED
  BY ONLY <1>6, <1>7, <1>9, <1>10, Zenon DEF SplitterExact
=============================================================================
