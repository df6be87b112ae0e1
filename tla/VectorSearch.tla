---------------------------- MODULE VectorSearch ----------------------------
(***************************************************************************)
(* Index.Search and the scoring it prunes with (src/internal/turboquant):  *)
(* the list of the best vectors so far, worst last, is its threshold.      *)
(*                                                                         *)
(* Numbers are integers.  A similarity is dot / sqrt(normSq), kept as the  *)
(* pair and compared exactly; the tests of the code are homogeneous in the *)
(* query and in the centroids, so both may be scaled to integers.  Suffix  *)
(* energies are square roots, so queries are taken whose energies at the   *)
(* positions of a pruning check are integers.  A loop is a function of the *)
(* number of its iterations that are over.                                 *)
(***************************************************************************)
EXTENDS Integers, Sequences, SequencesExt, FiniteSetsExt

CONSTANTS
    Centroids,      \* the codebook's centroids, ascending; index i is Centroids[i + 1]
    FirstCheck,     \* 64: no pruning check before this dimension
    CheckEvery      \* 16: and then one every so many dimensions

\* Ascending, as Build leaves them: each is the mean of a cell of its own, or has kept
\* its place in an empty one, and the cells follow one another.
ASSUME VectorAssumption ==
    /\ Centroids \in Seq(Int) /\ Centroids # <<>>
    /\ \A i, j \in DOMAIN Centroids : i < j => Centroids[i] < Centroids[j]
    /\ FirstCheck \in Nat \ {0} /\ CheckEvery \in Nat \ {0}

Abs(n) == IF n < 0 THEN -n ELSE n
Sqrt(n) == CHOOSE r \in 0..n : r * r = n

\* The sum of the products.
Dot(x, y) ==
    LET sum[i \in 0..Len(x)] == IF i = 0 THEN 0 ELSE sum[i - 1] + x[i] * y[i] IN sum[Len(x)]

(***************************************************************************)
(* Codebook.FindNearestIndex: sort.Search for the first boundary above the *)
(* value, lo and hi as in the library; boundaries lie halfway between two  *)
(* centroids, so twice a boundary is their sum.                            *)
(***************************************************************************)
TwiceBoundary(i) == Centroids[i + 1] + Centroids[i + 2]

Halve(range, value) ==
    LET mid == (range.lo + range.hi) \div 2
    IN  IF range.lo >= range.hi THEN range
        ELSE IF TwiceBoundary(mid) > 2 * value THEN [range EXCEPT !.hi = mid]
        ELSE [range EXCEPT !.lo = mid + 1]

FindNearestIndex(value) ==
    LET n == Len(Centroids) - 1
        range[k \in 0..n] == IF k = 0 THEN [lo |-> 0, hi |-> n] ELSE Halve(range[k - 1], value)
    IN  range[n].lo

-----------------------------------------------------------------------------
(* A similarity is [dot, normSq] with normSq > 0. *)
Signed(s) == IF s.dot < 0 THEN -(s.dot * s.dot) ELSE s.dot * s.dot

Greater(s, t) == Signed(s) * t.normSq > Signed(t) * s.normSq

Similarity(dot, normSq) ==
    IF normSq = 0 THEN [dot |-> 0, normSq |-> 1] ELSE [dot |-> dot, normSq |-> normSq]

(* ScorePrepared: the whole sum. *)
Score(query, indices) ==
    LET val == [i \in DOMAIN query |-> Centroids[indices[i] + 1]]
    IN  Similarity(Dot(query, val), Dot(val, val))

(* The suffix energies of Search, and GetCentroidBounds. *)
SuffixEnergySq(query, i) ==
    LET rest == SubSeq(query, i + 1, Len(query)) IN Dot(rest, rest)

MaxCentroid == Max({Abs(c) : c \in ToSet(Centroids)})
MinCentroidSq == Min({c * c : c \in ToSet(Centroids)})

(* The threshold of a list that is not full, -1.0 in the code: no similarity of the *)
(* unit query it scores is below that.                                              *)
NoThreshold == [dot |-> 0, normSq |-> 0]

(***************************************************************************)
(* ScorePreparedWithPruningBuf.  The first i dimensions are summed up when *)
(* the check is made; norm is the norm of the vector before quantisation.  *)
(***************************************************************************)
CheckedAt(i) == i >= FirstCheck /\ i % CheckEvery = 0

Prunes(query, norm, threshold, i, dot, normSq) ==
    LET approxNormSq == normSq + (Len(query) - i) * MinCentroidSq
        maxDot       == dot + norm * MaxCentroid * Sqrt(SuffixEnergySq(query, i))
    IN  /\ threshold # NoThreshold /\ CheckedAt(i) /\ approxNormSq > 0
        /\ \/ maxDot < 0
           \/ maxDot * maxDot * threshold.normSq < threshold.dot * threshold.dot * approxNormSq

\* One round of the loop: the check, and then the next product.
AddOrPrune(query, norm, threshold, i, c, st) ==
    IF st.pruned \/ Prunes(query, norm, threshold, i - 1, st.dot, st.normSq)
    THEN [dot |-> st.dot, normSq |-> st.normSq, pruned |-> TRUE]
    ELSE [dot |-> st.dot + query[i] * c, normSq |-> st.normSq + c * c, pruned |-> FALSE]

ScoreWithPruning(query, norm, indices, threshold) ==
    LET st[i \in 0..Len(query)] ==
            IF i = 0 THEN [dot |-> 0, normSq |-> 0, pruned |-> FALSE]
            ELSE AddOrPrune(query, norm, threshold, i, Centroids[indices[i] + 1], st[i - 1])
        end == st[Len(query)]
    IN  [similarity |-> Similarity(end.dot, end.normSq), pruned |-> end.pruned]

-----------------------------------------------------------------------------
(* Insertion before the first result that is worse; the last one falls off a full list. *)
Insert(results, res, limit) ==
    LET worse == {i \in DOMAIN results : Greater(res.similarity, results[i].similarity)}
        place == IF worse = {} THEN Len(results) + 1 ELSE Min(worse)
    IN  [i \in 1..Min({limit, Len(results) + 1}) |->
            IF i < place THEN results[i] ELSE IF i = place THEN res ELSE results[i - 1]]

\* Mutant: the threshold is the best result of a full list.
MutVisit(query, active, limit, results, v) ==
    LET threshold == IF Len(results) >= limit THEN Head(results).similarity ELSE NoThreshold
        score     == ScoreWithPruning(query, v.norm, v.indices, threshold)
    IN  IF v.id \notin active \/ (threshold # NoThreshold /\ ~Greater(score.similarity, threshold))
        THEN results
        ELSE Insert(results, [id |-> v.id, similarity |-> score.similarity], limit)

(* Index.Search with a limit of at least 1: the vectors in the order the map gives *)
(* them; a vector is [id, norm, indices].                                          *)
Visit(query, active, limit, results, v) ==
    LET threshold == IF Len(results) >= limit THEN Last(results).similarity ELSE NoThreshold
        score     == ScoreWithPruning(query, v.norm, v.indices, threshold)
    IN  IF v.id \notin active \/ score.pruned THEN results
        ELSE Insert(results, [id |-> v.id, similarity |-> score.similarity], limit)

Search(query, vectors, active, limit) ==
    LET results[k \in 0..Len(vectors)] ==
            IF k = 0 THEN <<>> ELSE Visit(query, active, limit, results[k - 1], vectors[k])
    IN  results[Len(vectors)]
=============================================================================
