---------------------------- MODULE HybridSearch ----------------------------
(***************************************************************************)
(* SearchMemories (src/internal/db/db.go): the dense search of the vector  *)
(* index and the lexical search of ggrep, fused by reciprocal ranks, cut   *)
(* to the limit, loaded from disk and scoped to one codebase.              *)
(*                                                                         *)
(* A path is a sequence of atoms, one of them the separator, so that the   *)
(* two prefix tests of the code are told apart.  SELECT returns rows in    *)
(* any order and sort.Slice leaves ties in any order: the operators give   *)
(* the set of results the code can produce.  A failing query makes the     *)
(* search return its error and is left out.  A loop is a function of the   *)
(* number of its rounds that are over.                                     *)
(***************************************************************************)
EXTENDS Integers, SequencesExt, FiniteSetsExt

CONSTANTS
    Slash,                \* the path separator
    RankConstant,         \* k of computeRRF, 60
    CandidateMultiplier,  \* dense candidates per result wanted, 3
    MaxCandidates,        \* and at most so many, 100
    MinSimilarity,        \* in percent: less is noise, 10
    GrepChunk,            \* matches in one SELECT, 100
    Space,                \* white space
    Operators,            \* the characters of "|()*+?[]^$"
    Compiles(_)           \* the queries regexp.Compile accepts

ASSUME HybridAssumption ==
    /\ {RankConstant, CandidateMultiplier, MaxCandidates, GrepChunk} \subseteq Nat \ {0}
    /\ MinSimilarity \in Nat

(***************************************************************************)
(* queryParentCodebaseCWD: the longest registered root that is cwd or      *)
(* above it, or cwd itself; codebases is {} when ListCodebases fails.      *)
(***************************************************************************)
\* Mutant: the prefix test has no separator.
MutParentCodebase(codebases, cwd) ==
    LET roots == {r \in codebases : IsPrefix(r, cwd)}
    IN  IF cwd = <<>> \/ roots = {} THEN cwd
        ELSE CHOOSE r \in roots : \A s \in roots : Len(s) <= Len(r)

ParentCodebase(codebases, cwd) ==
    LET roots == {r \in codebases : cwd = r \/ IsPrefix(Append(r, Slash), cwd)}
    IN  IF cwd = <<>> \/ roots = {} THEN cwd
        ELSE CHOOSE r \in roots : \A s \in roots : Len(s) <= Len(r)

-----------------------------------------------------------------------------
(***************************************************************************)
(* prepareGrepSearchOpt: a query with operators that compiles is a regular *)
(* expression, several words are the disjunction of the quoted words, one  *)
(* word is a literal; a blank query is no search.                          *)
(***************************************************************************)
NoSearch == [kind |-> "none"]

TrimSpace(text) ==
    LET inner == {i \in DOMAIN text : text[i] # Space}
    IN  IF inner = {} THEN <<>> ELSE SubSeq(text, Min(inner), Max(inner))

\* strings.Fields: the words and where they stand.
Fields(text) ==
    {w \in (DOMAIN text) \X (DOMAIN text) :
        /\ w[1] <= w[2] /\ \A k \in w[1]..w[2] : text[k] # Space
        /\ w[1] = 1 \/ text[w[1] - 1] = Space
        /\ w[2] = Len(text) \/ text[w[2] + 1] = Space}

WordsOf(text) == {SubSeq(text, w[1], w[2]) : w \in Fields(text)}

GrepOption(query) ==
    LET text == TrimSpace(query)
    IN  IF text = <<>> THEN NoSearch
        ELSE IF ToSet(text) \cap Operators # {} /\ Compiles(text)
             THEN [kind |-> "regex", pattern |-> text]
        ELSE IF Cardinality(Fields(text)) > 1 THEN [kind |-> "anyOf", words |-> WordsOf(text)]
        ELSE [kind |-> "literal", word |-> text]

Occurs(word, line) ==
    \E i \in 0..Len(line) - Len(word) : SubSeq(line, i + 1, i + Len(word)) = word

\* The lines a search for plain words reports.
OptionFinds(option, line) ==
    \/ option.kind = "literal" /\ Occurs(option.word, line)
    \/ option.kind = "anyOf" /\ \E w \in option.words : Occurs(w, line)

-----------------------------------------------------------------------------
(* searchLexicalSparse and queryExactGrepMatches: rows that hold a matched line. *)
HoldsMatch(row, match) == row.path = match.path /\ match.line \in row.from..row.to

SelectIds(rows, chunk) ==
    SetToSeqs({r.id : r \in {r \in rows : \E i \in DOMAIN chunk : HoldsMatch(r, chunk[i])}})

\* Mutant: the end of a chunk is taken to be inclusive.
MutMatchChunks(matches) ==
    [k \in 1..(Len(matches) + GrepChunk - 1) \div GrepChunk |->
        SubSeq(matches, (k - 1) * GrepChunk + 1, Min({k * GrepChunk, Len(matches)}) - 1)]

MatchChunks(matches) ==
    [k \in 1..(Len(matches) + GrepChunk - 1) \div GrepChunk |->
        SubSeq(matches, (k - 1) * GrepChunk + 1, Min({k * GrepChunk, Len(matches)}))]

AppendIds(found, ids) == UNION {{s \o t : t \in ids} : s \in found}

QueryExactGrepMatches(rows, matches) ==
    LET chunks == MatchChunks(matches)
        found[k \in 0..Len(chunks)] ==
            IF k = 0 THEN {<<>>} ELSE AppendIds(found[k - 1], SelectIds(rows, chunks[k]))
    IN  found[Len(chunks)]

FirstOnly(ids) ==
    LET first[i \in 0..Len(ids)] ==
            IF i = 0 THEN <<>>
            ELSE IF ids[i] \in ToSet(first[i - 1]) THEN first[i - 1]
            ELSE Append(first[i - 1], ids[i])
    IN  first[Len(ids)]

SearchLexicalSparse(rows, matches) == {FirstOnly(s) : s \in QueryExactGrepMatches(rows, matches)}

-----------------------------------------------------------------------------
(* computeRRF: an id scores 1 / (k + rank) in each list it is in. *)
Contribution(list, id) ==
    IF id \in ToSet(list)
    THEN [num |-> 1, den |-> RankConstant + (CHOOSE i \in DOMAIN list : list[i] = id)]
    ELSE [num |-> 0, den |-> 1]

\* Mutant: an id already in the fused list gains nothing from the lexical one.
MutRrfScore(sem, lex, id) ==
    IF id \in ToSet(sem) THEN Contribution(sem, id) ELSE Contribution(lex, id)

RrfScore(sem, lex, id) ==
    LET s == Contribution(sem, id)
        t == Contribution(lex, id)
    IN  [num |-> (s.num * t.den) + (t.num * s.den), den |-> s.den * t.den]

Higher(x, y) == x.num * y.den > y.num * x.den

ComputeRRF(sem, lex, limit) ==
    LET ids == ToSet(sem) \cup ToSet(lex)
        Ordered(s) == \A i, j \in DOMAIN s :
            i < j => ~Higher(RrfScore(sem, lex, s[j]), RrfScore(sem, lex, s[i]))
    IN  {SubSeq(s, 1, Min({limit, Len(s)})) : s \in {s \in SetToSeqs(ids) : Ordered(s)}}

-----------------------------------------------------------------------------
(***************************************************************************)
(* fetchMemoriesMetadata: the candidates that are still rows; only those   *)
(* below cwd are loaded, and readable holds the ids whose slice of its     *)
(* file is not empty.                                                      *)
(***************************************************************************)
Loads(row, cwd, readable) == (cwd = <<>> \/ IsPrefix(cwd, row.path)) /\ row.id \in readable

\* The entries of s that are in S, in their order.
Only(s, S) ==
    LET kept[i \in 0..Len(s)] ==
            IF i = 0 THEN <<>>
            ELSE IF s[i] \in S THEN Append(kept[i - 1], s[i]) ELSE kept[i - 1]
    IN  kept[Len(s)]

\* The end of SearchMemories: scoping.
ScopeResults(candidates, rows, cwd, readable) ==
    LET found  == Only(candidates, {r.id : r \in rows})
        loaded == {r.id : r \in {r \in rows : Loads(r, cwd, readable)}}
    IN  IF ToSet(found) \cap loaded # {} THEN Only(found, loaded) ELSE found

(***************************************************************************)
(* SearchMemories.  dense is what the index ranks, best first; matches is  *)
(* what ggrep reports below the root and seen the rows while it is turned  *)
(* into ids; rows is the table when the candidates are fetched: savers and *)
(* purges may run in between.                                              *)
(***************************************************************************)
SearchMemories(in) ==
    LET cwd   == ParentCodebase(in.codebases, in.cwd)
        limit == Min({MaxCandidates, in.limit * CandidateMultiplier})
        near  == SubSeq(in.dense, 1, Min({limit, Len(in.dense)}))
        kept  == Only(near, {d \in ToSet(near) : in.zero \/ d.similarity >= MinSimilarity})
        sem   == [i \in DOMAIN kept |-> kept[i].id]
        below == Only(in.matches, {m \in ToSet(in.matches) : IsPrefix(Append(cwd, Slash), m.path)})
        lexes == IF cwd = <<>> THEN {<<>>} ELSE SearchLexicalSparse(in.seen, below)
    IN  UNION {{ScopeResults(c, in.rows, cwd, in.readable) : c \in ComputeRRF(sem, lex, in.limit)}
                : lex \in lexes}
=============================================================================
