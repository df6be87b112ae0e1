--------------------------- MODULE MCAlgorithms ---------------------------
(***************************************************************************)
(* The pure algorithms of the program, each called once with every input   *)
(* of a small set: call holds the operation and its input.                 *)
(***************************************************************************)
EXTENDS LineSlicer, Splitter, CallGraphParse, LineScan, Codec, VectorSearch, HybridSearch

CONSTANTS MaxBytes, MaxLine, MaxFileLines, MaxTree, MaxDim

VARIABLE call

TextUpTo(bytes, n) == UNION {[1..k -> bytes] : k \in 0..n}
Ranges == {r \in [s : 1..MaxLine, e : 1..MaxLine] : r.s <= r.e}

CallSlice ==
    \E data \in TextUpTo({"x", NL, CR}, MaxBytes), a, b \in Ranges :
        \E group \in {<<a>>, <<a, b>>} :
            call' = [op |-> "slice", data |-> data, group |-> group]

-----------------------------------------------------------------------------
(* Module Splitter: lines, files and what the parsers of Go and Python may find. *)
Line == {"", "x", "yyy", "---", "block{", "block{}", "}"}
MCBlank == {""}
MCHeader == {"block{", "block{}"}
MCOpens == [l \in Line |-> IF l \in MCHeader THEN 1 ELSE 0]
MCCloses == [l \in Line |-> IF l \in {"block{}", "}"} THEN 1 ELSE 0]
MCSize == [l \in Line |-> CASE l = "" -> 0 [] l \in {"x", "}"} -> 1 [] OTHER -> 3]

FileOf(lines, n) == UNION {[1..k -> lines] : k \in 1..n}

Node(kinds, n) == {d \in [kind : kinds, doc : 1..n, from : 1..n, to : 1..n] :
                      d.doc <= d.from /\ d.from <= d.to}
NodeLists(kinds, n) ==
    {s \in UNION {[1..k -> Node(kinds, n)] : k \in 0..2} :
        \A i \in 2..Len(s) : s[i - 1].to < s[i].doc}
PyNodes(n) == {s \in NodeLists({"def", "other"}, n) : \A i \in DOMAIN s : s[i].doc = s[i].from}

SplitInputs ==
    [ext : {".txt"}, file : FileOf({"", "x", "yyy"}, MaxFileLines), parse : {<<>>}]
      \cup [ext : {".yaml"}, file : FileOf({"", "x", "yyy", "---"}, MaxFileLines), parse : {<<>>}]
      \cup [ext : {".tf"}, file : FileOf({"x", "yyy", "block{", "block{}", "}"}, MaxFileLines),
             parse : {<<>>}]
      \cup [ext : {".go"}, file : {<<"x", "yyy", "}", "x">>},
             parse : NodeLists({"func", "type", "value"}, 4)]
      \cup [ext : {".py"}, file : [1..4 -> {"", "x", "yyy"}], parse : PyNodes(4)]

CallSplit ==
    \E in \in SplitInputs :
        call' = [op |-> "split", ext |-> in.ext, file |-> in.file, parse |-> in.parse]

-----------------------------------------------------------------------------
(* Module CallGraphParse: lines of Terraform and YAML, trees of Python. *)
GraphLine(kind, name, refs, braces) == [kind |-> kind, name |-> name, refs |-> refs, braces |-> braces]

TfLines == {GraphLine("header", "a", {}, 1), GraphLine("header", "b", {}, 0),
            GraphLine("other", NoName, {}, 1), GraphLine("other", NoName, {}, -1),
            GraphLine("other", NoName, {"r"}, 0)}
YamlLines == {GraphLine("name", "a", {}, 0), GraphLine("name", "b", {}, 0),
              GraphLine("name", NoName, {}, 0), GraphLine("other", NoName, {"r"}, 0)}

PyTreeNode(n) ==
    [kind : {"class"}, name : {"C", "D"}, self : {FALSE}, parent : 0..n - 1]
      \cup [kind : {"func"}, name : {"m", "n"}, self : {FALSE}, parent : 0..n - 1]
      \cup [kind : {"call"}, name : {"m"}, self : BOOLEAN, parent : 0..n - 1]
PyTrees(n) == {t \in [1..n -> PyTreeNode(n)] : \A k \in 1..n : t[k].parent < k}

CallGraphOf ==
    \/ \E lines \in FileOf(TfLines, MaxFileLines) : call' = [op |-> "tf", lines |-> lines]
    \/ \E lines \in FileOf(YamlLines, MaxFileLines) : call' = [op |-> "yaml", lines |-> lines]
    \/ \E n \in 1..MaxTree : \E tree \in PyTrees(n) : call' = [op |-> "py", tree |-> tree]

-----------------------------------------------------------------------------
(* Module LineScan: literals, and patterns that do and do not match an empty line. *)
Literals == {<<"x">>, <<"x", "x">>, <<CR>>, <<"x", NL>>, <<NL, "x">>}
Patterns == {"x", "x$", "^x", "^$"}

MCMatchesLine(pattern, line) ==
    CASE pattern = "x"  -> "x" \in ToSet(line)
      [] pattern = "x$" -> line # <<>> /\ Last(line) = "x"
      [] pattern = "^x" -> line # <<>> /\ Head(line) = "x"
      [] pattern = "^$" -> line = <<>>

CallScan ==
    \E data \in TextUpTo({"x", NL, CR, NUL}, MaxBytes) :
        \/ \E lit \in Literals : call' = [op |-> "scan", kind |-> "literal", data |-> data, pattern |-> lit]
        \/ \E p \in Patterns : call' = [op |-> "scan", kind |-> "regex", data |-> data, pattern |-> p]

-----------------------------------------------------------------------------
(* Module Codec: every width, with indices of few and of many bits. *)
CallCodec ==
    \E width \in Widths, dim \in 0..MaxDim :
        \E at \in [0..dim - 1 -> {0, 1, Pow2(width) - 2, Pow2(width) - 1}] :
            call' = [op |-> "codec", width |-> width, qv |-> [norm |-> "n", dim |-> dim, at |-> at]]

(* Module VectorSearch: vectors without a check, and longer ones with one. *)
MCCentroids == <<-2, -1, 1, 2>>
ShortQueries == {<<1, 2>>, <<-1, 3>>}
LongQueries == {<<1, 1, 3, 4>>, <<2, -1, 0, 1>>}
LongIndices == {<<0, 1, 3, 3>>, <<3, 3, 3, 3>>, <<3, 2, 0, 1>>, <<0, 0, 0, 0>>}

VectorLists(indices) == [1..3 -> indices]

CallSearch ==
    \/ \E q \in ShortQueries, vs \in VectorLists([1..2 -> 0..3]), active \in {{1, 2, 3}, {1, 3}}, limit \in 1..2 :
          call' = [op |-> "search", query |-> q, indices |-> vs, active |-> active, limit |-> limit]
    \/ \E q \in LongQueries, vs \in VectorLists(LongIndices), limit \in 1..2 :
          call' = [op |-> "search", query |-> q, indices |-> vs, active |-> {1, 2, 3}, limit |-> limit]
    \/ \E v \in -6..6 : call' = [op |-> "nearest", value |-> v]

-----------------------------------------------------------------------------
(* Module HybridSearch: three roots of which one is a string prefix of another. *)
MCCompiles(query) == query # <<"(">>

RootA == <<"/", "a">>
RootAB == <<"/", "a", "b">>
RootADotB == <<"/", "a", "/", "b">>
MemoryRows == {[id |-> 1, path |-> RootA \o <<"/", "f">>, from |-> 1, to |-> 1],
               [id |-> 2, path |-> RootAB \o <<"/", "f">>, from |-> 1, to |-> 1],
               [id |-> 3, path |-> RootADotB \o <<"/", "f">>, from |-> 1, to |-> 1]}

Distinct(S, n) == {s \in UNION {[1..k -> S] : k \in 0..n} : IsInjective(s)}
Dense == {<<>>} \cup {[i \in 1..3 |-> [id |-> s[i], similarity |-> IF i <= k THEN 20 ELSE 5]] :
                        s \in SetToSeqs(1..3), k \in 0..3}
HitLists == Distinct({[path |-> r.path, line |-> 1] : r \in MemoryRows}, 2)
LexRows == [path : {"p", "q"}, from : 1..3, to : 1..3]
LexTables == {{[id |-> i, path |-> t[i].path, from |-> t[i].from, to |-> t[i].to] : i \in 1..2} :
                t \in {t \in [1..2 -> LexRows] : t[1].from <= t[1].to /\ t[2].from <= t[2].to}}

CallHybrid ==
    \/ \E query \in TextUpTo({" ", "x", "y", "("}, 5), line \in TextUpTo({" ", "x", "y"}, 2) :
          call' = [op |-> "option", query |-> query, line |-> line]
    \/ \E rows \in LexTables, matches \in TextUpTo([path : {"p", "q"}, line : 1..2], 3) :
          call' = [op |-> "lexical", rows |-> rows, matches |-> matches]
    \/ \E sem, lex \in Distinct(1..4, 3), limit \in 1..3 :
          call' = [op |-> "fuse", sem |-> sem, lex |-> lex, limit |-> limit]
    \/ \E cwd \in {<<>>, RootA, RootAB, RootADotB, RootADotB \o <<"/", "c">>},
          codebases \in {{}, {RootA}, {RootA, RootADotB}, {RootA, RootAB}},
          readable \in {{}, {2}, {1, 3}, {1, 2, 3}}, dense \in Dense, matches \in HitLists,
          rows \in {MemoryRows, {r \in MemoryRows : r.id # 3}} :
          call' = [op |-> "hybrid", cwd |-> cwd, codebases |-> codebases, readable |-> readable,
                   dense |-> dense, matches |-> matches, zero |-> FALSE, seen |-> MemoryRows,
                   rows |-> rows, limit |-> 2]

-----------------------------------------------------------------------------
CallInit == call = [op |-> "none"]
CallNext == call.op = "none" /\ (CallSlice \/ CallSplit \/ CallGraphOf \/ CallScan \/ CallCodec \/ CallSearch
                               \/ CallHybrid)
CallSpec == CallInit /\ [][CallNext]_call

(* A file that fits FileSliceLimit is cut by slicing the whole text (db.go 570-669): every row gets
   the lines of its range, whatever other ranges of the file are asked for in the same search. *)
SmallFileSlices ==
    (call.op = "slice" /\ Len(call.data) <= FileSliceLimit) =>
        LET group == Sorted(call.group)
        IN  \A i \in DOMAIN group :
                LoadAndSlice(call.data, group)[i] = SmallContent(call.data, group[i])

(* A larger file is read through a buffered scanner (db.go 671-747): a row whose lines fit the
   buffer gets its lines as the scanner gives them, a range that overlaps an earlier one included. *)
LargeFileSlices ==
    (call.op = "slice" /\ Len(call.data) > FileSliceLimit) =>
        LET group == Sorted(call.group)
        IN  \A i \in DOMAIN group :
                FitsBuffer(call.data, group[i]) =>
                    LoadAndSlice(call.data, group)[i] = LargeContent(call.data, group[i])

(* The line range stored with a chunk is where its text stands in the file: the search reads
   file[LineStart..LineEnd] later (db.go 552) and must find what was embedded (splitter.go 38-133). *)
RangesHoldText ==
    (call.op = "split" /\ call.ext # ".yaml" /\ PlainParse(call.ext, call.file, call.parse)) =>
        LET chunks == SplitFile(call.ext, call.file, call.parse)
        IN  \A i \in DOMAIN chunks : RangeHolds(call.file, chunks[i])

(* What the line counter of splitter/yaml.go 31-58 gives instead: the i-th document of a YAML file
   is labelled i - 1 lines too far down, since every separator is counted twice. The text is right. *)
YamlRangesDrift ==
    (call.op = "split" /\ call.ext = ".yaml") =>
        LET docs   == YamlDocs(call.file)
            chunks == ParseYaml(call.file)
        IN  \A i \in DOMAIN docs :
                LET text == SubSeq(call.file, docs[i].from, docs[i].to)
                IN  Trim(text) # <<>> =>
                        Chunk(Trim(text), docs[i].from + i - 1, docs[i].to + i - 1) \in ToSet(chunks)

(* Cutting a text or YAML file into chunks loses no text and repeats none: the chunks laid end to
   end are the file without its blank edges (splitter.go 94-133, yaml.go 10-64). *)
NoTextLost ==
    /\ (call.op = "split" /\ call.ext = ".txt") =>
          TextOfChunks(SplitFile(call.ext, call.file, call.parse)) = TextOf(call.file)
    /\ (call.op = "split" /\ call.ext = ".yaml") =>
          TextOfDocs(call.file) \in {<<>>, TextOfChunks(SplitFile(call.ext, call.file, call.parse))}

(* No chunk is larger than MaxChunkSize unless it is a single line (splitLargeChunk, splitter.go
   94-133): the embedding request of a larger one would be refused. *)
ChunksFit ==
    call.op = "split" =>
        LET chunks == SplitFile(call.ext, call.file, call.parse)
        IN  \A i \in DOMAIN chunks :
                Bytes(chunks[i].content) <= MaxChunkSize \/ Len(chunks[i].content) = 1

(* In a formatted Terraform file every block header opens a declaration that ends at its closing
   brace, and its edges are the references of its own lines and of no other block (callgraph/tf.go). *)
TfBlocksExact ==
    (call.op = "tf" /\ TfFormatted(call.lines)) =>
        LET lines == call.lines
            graph == TfGraph(lines)
            heads == Ascending(Headers(lines), Len(lines))
        IN  /\ Len(graph.decls) = Len(heads)
            /\ \A i \in DOMAIN heads :
                 LET d == graph.decls[i]
                 IN  /\ d.start = heads[i] /\ d.end \in BlockEnds(lines, d.start)
                     /\ {e.callee : e \in {g \in graph.edges : g.caller = i}}
                          = UNION {lines[k].refs : k \in d.start + 1..d.end}

(* A named YAML step ends where the next begins, and owns exactly the references of its lines: no
   reference is lost between two steps or given to both (callgraph/yaml.go). *)
YamlStepsTile ==
    call.op = "yaml" =>
        LET decls == YamlGraph(call.lines).decls
            edges == YamlGraph(call.lines).edges
        IN  /\ \A i \in DOMAIN decls :
                 decls[i].end = IF i < Len(decls) THEN decls[i + 1].start - 1 ELSE Len(call.lines)
            /\ \A i \in DOMAIN decls :
                 {e.callee : e \in {g \in edges : g.caller = i}}
                   = UNION {call.lines[k].refs : k \in decls[i].start..decls[i].end}

(* The callers of Python edges are declared nodes, and a self.m() inside a method of a class
   resolves to the method m of that class when it has one (callgraph/py.go). *)
PyCallsResolve ==
    call.op = "py" =>
        LET tree == call.tree
        IN  /\ \A e \in PyEdges(tree) : e.caller \in PyNames(tree)
            /\ \A f, k \in DOMAIN tree :
                 (/\ tree[f].kind = "func" /\ tree[k].kind = "call" /\ tree[k].self
                  /\ tree[k].name = tree[f].name /\ Context(tree, k, "func") # 0
                  /\ Context(tree, k, "class") = tree[f].parent /\ tree[f].parent # 0) =>
                     \E e \in PyEdges(tree) : e.callee = NodeName(tree, f)

(* The literal scan of a buffer (search.go 186-231) reports exactly the lines an occurrence starts
   on, each once, with its number and text, at both ends of the buffer and without a final newline. *)
LiteralHitsExact ==
    (call.op = "scan" /\ call.kind = "literal" /\ ~Binary(call.data)) =>
        LET lines == Lines(call.data)
            Starts(k) == {o \in 0..Len(call.data) - Len(call.pattern) :
                            /\ OccursAt(call.data, call.pattern, o)
                            /\ k = 1 + CountNewlines(call.data, 0, o)}
        IN  ScanBody(call.data, "literal", call.pattern).hits
              = HitsAmong(lines, Ascending({k \in DOMAIN lines : Starts(k) # {}}, Len(lines)))

(* The regular expression scan of a buffer (search.go 233-276) reports exactly the matching lines
   with their numbers, for patterns that match no empty line. *)
RegexHitsExact ==
    (call.op = "scan" /\ call.kind = "regex" /\ ~Binary(call.data)
       /\ ~MatchesLine(call.pattern, <<>>)) =>
        LET scan == ScanBody(call.data, "regex", call.pattern)
        IN  /\ scan.state = "done"
            /\ scan.hits = SelectLines(Lines(call.data), call.pattern)

(* A file without carriage returns gives the same hits whether it is scanned as a whole (scanRegex)
   or line by line as a stream (scanFileStream, search.go 416-459); the stream ends early, and never
   reports anything else, at a line its reader cannot hold. *)
StreamAgrees ==
    (call.op = "scan" /\ call.kind = "regex" /\ CR \notin ToSet(call.data)
       /\ ~MatchesLine(call.pattern, <<>>)) =>
        LET stream == ScanStream(call.data, call.pattern)
            body   == ScanBody(call.data, "regex", call.pattern).hits
        IN  /\ IsPrefix(stream, body)
            /\ (\A k \in DOMAIN RawLines(call.data) : ~Overlong(RawLines(call.data)[k])) => stream = body

(* Deserialize and DeserializeFrom give back what Serialize packed (codec.go), for 2, 3 and 4 bits
   and every dimension, the ones whose last index crosses or does not fill a byte included. *)
CodecRoundTrip ==
    call.op = "codec" =>
        LET data == Serialize(call.qv, call.width)
        IN  /\ Deserialize(data, call.width, call.qv.dim) = call.qv
            /\ DeserializeFrom(data, call.width, call.qv.dim) = call.qv

(* DeserializeBuf writes the dim indices of the vector into the buffer of the caller and nothing
   after them (codec.go 155-191), although a packed byte may hold more indices than remain. *)
BufLeavesTheRest ==
    call.op = "codec" =>
        LET dst == [i \in 0..call.qv.dim |-> 99]
            buf == DeserializeBuf(Serialize(call.qv, call.width), call.width, call.qv.dim, dst)
        IN  buf = [i \in 0..call.qv.dim |-> IF i < call.qv.dim THEN call.qv.at[i] ELSE 99]

Vectors == [i \in DOMAIN call.indices |-> [id |-> i, norm |-> 1, indices |-> call.indices[i]]]
Found == Search(call.query, Vectors, call.active, call.limit)

(* Index.Search returns as many active vectors as the limit allows, each once, in falling order,
   with the full score of its own codes (index.go 79-153), whichever vectors were pruned. *)
SearchWellFormed ==
    call.op = "search" =>
        /\ Len(Found) = Min({call.limit, Cardinality(call.active)})
        /\ \A i \in DOMAIN Found : Found[i].similarity = Score(call.query, call.indices[Found[i].id])
        /\ \A i, j \in DOMAIN Found :
             i < j => /\ Found[i].id # Found[j].id
                      /\ ~Greater(Found[j].similarity, Found[i].similarity)
        /\ \A i \in DOMAIN Found : Found[i].id \in call.active

NothingBetterLeftOut ==
    \A id \in call.active \ {Found[i].id : i \in DOMAIN Found} :
        ~Greater(Score(call.query, call.indices[id]), Last(Found).similarity)

(* With vectors too short for a check of the partial score, nothing better is left out of a
   result (index.go 79-153). *)
ShortSearchIsTopK ==
    (call.op = "search" /\ Len(call.query) <= FirstCheck) => NothingBetterLeftOut

(* What index_test.go 266 and the comment at turboquant.go 553 say of pruning: a vector is dropped
   only when it cannot beat the threshold. So none that is left out beats the last one returned. *)
PruningKeepsBest == call.op = "search" => NothingBetterLeftOut

(* The binary search over the codebook (codebook.go 16-27) ends at a nearest centroid, at the
   higher one when two are as near. *)
NearestCentroid ==
    call.op = "nearest" =>
        LET Distance(i) == Abs(call.value - Centroids[i])
            idx == FindNearestIndex(call.value)
        IN  /\ \A i \in DOMAIN Centroids : Distance(idx + 1) <= Distance(i)
            /\ \A i \in DOMAIN Centroids : i > idx + 1 => Distance(idx + 1) < Distance(i)

(* A query without regular expression operators becomes an alternation of its words (db.go
   385-434): a line is found exactly when it holds one of them. *)
WordsFind ==
    (call.op = "option" /\ ToSet(call.query) \cap Operators = {}) =>
        LET option == GrepOption(call.query)
        IN  OptionFinds(option, call.line)
              <=> \E w \in WordsOf(call.query) : Occurs(w, call.line)

(* The lexical part of a search (db.go 329-494) gives the ids of exactly the rows whose range holds
   a match, each once, also when chunks overlap or share a boundary line. *)
LexicalExact ==
    call.op = "lexical" =>
        \A ids \in SearchLexicalSparse(call.rows, call.matches) :
            /\ IsInjective(ids)
            /\ ToSet(ids) = {r.id : r \in {r \in call.rows :
                                \E i \in DOMAIN call.matches : HoldsMatch(r, call.matches[i])}}

RankIn(list, id) ==
    IF id \in ToSet(list) THEN CHOOSE i \in DOMAIN list : list[i] = id ELSE Len(list) + 1

(* Reciprocal rank fusion (computeRRF, db.go 496-534): a chunk no worse than another in both lists
   is not ranked behind it, and no limit cuts it off before the other. *)
FusionRespectsBoth ==
    call.op = "fuse" =>
        LET Sem(id) == RankIn(call.sem, id)
            Lex(id) == RankIn(call.lex, id)
            ids     == ToSet(call.sem) \cup ToSet(call.lex)
        IN  \A top \in ComputeRRF(call.sem, call.lex, call.limit) :
              /\ IsInjective(top) /\ Len(top) = Min({call.limit, Cardinality(ids)})
              /\ \A x \in ids, y \in ToSet(top) :
                   (Sem(x) <= Sem(y) /\ Lex(x) <= Lex(y) /\ x # y) =>
                      /\ x \in ToSet(top)
                      /\ RankIn(top, x) < RankIn(top, y)

\* A path is in the tree of a root when it goes on with a separator.
InTree(path, root) == IsPrefix(Append(root, Slash), path)

(* A search from a directory of an indexed codebase returns rows of that codebase and of no other
   as long as it finds a readable one of its own (db.go 875-978), when no root of a sibling has the
   name of the owner as a prefix (HasPrefix at db.go 802 has no separator). *)
SearchScoped ==
    call.op = "hybrid" =>
        LET above == {r \in call.codebases : r = call.cwd \/ InTree(call.cwd, r)}
            owner == IF above = {} THEN call.cwd
                     ELSE CHOOSE r \in above : \A s \in above : s = r \/ InTree(r, s)
            sibling == {r \in call.rows : IsPrefix(owner, r.path) /\ ~InTree(r.path, owner)}
            own == {r.id : r \in {r \in call.rows : InTree(r.path, owner)}}
        IN  (owner # <<>> /\ sibling = {}) =>
               \A found \in SearchMemories(call) :
                  /\ ToSet(found) \cap own \cap call.readable # {} => ToSet(found) \subseteq own
                  /\ ToSet(found) \subseteq {r.id : r \in call.rows}

-----------------------------------------------------------------------------
(* The properties of each algorithm together: what the row of a result shows of its file,
   whichever of the two slicers of LoadAndSliceMemoryBlock cuts it (db.go 552-747). *)
SlicerExact == SmallFileSlices /\ LargeFileSlices

(* The chunks of a file, their text and their ranges (src/internal/splitter). *)
SplitterExact == RangesHoldText /\ YamlRangesDrift /\ NoTextLost /\ ChunksFit

(* The nodes and edges of a file (src/internal/callgraph). *)
ParsersExact == TfBlocksExact /\ YamlStepsTile /\ PyCallsResolve

(* The lines of a file that ggrep reports (src/ggrep/search.go). *)
ScannersExact == LiteralHitsExact /\ RegexHitsExact /\ StreamAgrees

(* Packed vectors (src/internal/turboquant/codec.go). *)
CodecExact == CodecRoundTrip /\ BufLeavesTheRest

(* The best vectors for a query, and the nearest centroid (index.go 79-153, codebook.go 16-27). *)
VectorSearchExact == SearchWellFormed /\ ShortSearchIsTopK /\ NearestCentroid

(* From the words of a query to the rows that hold a match (db.go 329-494). *)
LexicalSearchExact == WordsFind /\ LexicalExact
=============================================================================
