----------------------------- MODULE Splitter -----------------------------
(***************************************************************************)
(* src/internal/splitter: a file is cut into chunks.  The text of a chunk  *)
(* is embedded, its line range is stored, and a search shows the lines of  *)
(* the range (module LineSlicer), so the two have to agree.                *)
(*                                                                         *)
(* A file is a sequence of lines, ended by "\n"; what a line is to the     *)
(* splitter is given by constants.  Carriage returns are left out: a file  *)
(* with CRLF ends is cut at "\r\n---\r\n" in the same way.  So is the      *)
(* whitespace inside a line: TrimSpace drops blank lines at both ends.     *)
(***************************************************************************)
EXTENDS Integers, Sequences, FiniteSetsExt

CONSTANTS
    Blank,              \* lines of white space
    Separator,          \* the line "---"
    Header,             \* lines that start with the name of a Terraform block
    Opens, Closes,      \* how many braces a line opens and closes
    Size,               \* bytes of a line, without its newline
    MaxChunkSize        \* MaxChunkSize, in bytes

ASSUME SplitterAssumption == MaxChunkSize \in Nat

Trim(lines) ==
    LET text == {k \in DOMAIN lines : lines[k] \notin Blank}
    IN  IF text = {} THEN <<>> ELSE SubSeq(lines, Min(text), Max(text))

(* What the lines up to each one weigh, and all of them with the newlines between. *)
SizeTo(lines) ==
    LET sum[k \in 0..Len(lines)] == IF k = 0 THEN 0 ELSE sum[k - 1] + Size[lines[k]]
    IN  sum

Bytes(lines) == SizeTo(lines)[Len(lines)] + Len(lines) - 1

(* Lists laid end to end, as append(list, ...) does. *)
Flat(lists) ==
    LET flat[k \in 0..Len(lists)] == IF k = 0 THEN <<>> ELSE flat[k - 1] \o lists[k]
    IN  flat[Len(lists)]

Chunk(content, start, end) == [content |-> content, start |-> start, end |-> end]

WholeFile(file) == Chunk(file, 1, Len(file))

OrWholeFile(chunks, file) == IF chunks = <<>> THEN <<WholeFile(file)>> ELSE chunks

-----------------------------------------------------------------------------
(***************************************************************************)
(* yaml.go: the documents of a file, as line ranges.  A separator takes    *)
(* the newline before it and the one after it, so it is neither the first  *)
(* nor the last line, and two in a row are not two separators.             *)
(***************************************************************************)
DocLine(file, docs, k) ==
    LET last == Len(docs)
    IN  IF file[k] = Separator /\ k > docs[last].from /\ k < Len(file)
        THEN Append([docs EXCEPT ![last].to = k - 1], [from |-> k + 1, to |-> k + 1])
        ELSE [docs EXCEPT ![last].to = k]

YamlDocs(file) ==
    LET docs[k \in 0..Len(file)] ==
            IF k = 0 THEN <<[from |-> 1, to |-> 1]>> ELSE DocLine(file, docs[k - 1], k)
    IN  docs[Len(file)]

(* A document counts its newlines and one more; the separator counts for two. *)
YamlDocument(st, text) ==
    [ line   |-> st.line + Len(text) + 2,
      chunks |-> IF Trim(text) = <<>> THEN st.chunks
                 ELSE Append(st.chunks, Chunk(Trim(text), st.line, st.line + Len(text) - 1)) ]

ParseYaml(file) ==
    LET docs == YamlDocs(file)
        st[i \in 0..Len(docs)] ==
            IF i = 0 THEN [line |-> 1, chunks |-> <<>>]
            ELSE YamlDocument(st[i - 1], SubSeq(file, docs[i].from, docs[i].to))
    IN  OrWholeFile(st[Len(docs)].chunks, file)

-----------------------------------------------------------------------------
(***************************************************************************)
(* tf.go: a block runs from a header line that opens a brace to the line   *)
(* on which the braces balance; an unbalanced last block is dropped.       *)
(***************************************************************************)
TfLine(file, st, k) ==
    LET opening == ~st.inBlock /\ file[k] \in Header /\ Opens[file[k]] > 0
        from    == IF opening THEN k ELSE st.from
        before  == IF opening THEN 0 ELSE st.depth
        depth   == before + Opens[file[k]] - Closes[file[k]]
        inBlock == st.inBlock \/ opening
    IN  IF ~inBlock THEN st
        ELSE [ inBlock |-> depth > 0, from |-> from, depth |-> depth,
               chunks  |-> IF depth > 0 THEN st.chunks
                           ELSE Append(st.chunks, Chunk(SubSeq(file, from, k), from, k)) ]

ParseTerraform(file) ==
    LET st[k \in 0..Len(file)] ==
            IF k = 0 THEN [inBlock |-> FALSE, from |-> 0, depth |-> 0, chunks |-> <<>>]
            ELSE TfLine(file, st[k - 1], k)
    IN  OrWholeFile(st[Len(file)].chunks, file)

-----------------------------------------------------------------------------
(***************************************************************************)
(* go.go, on the declarations go/parser finds: [kind, doc, from, to] with  *)
(* the line of the doc comment (from, if there is none).  The text of a    *)
(* function and of a type starts at its doc comment; so does the range of  *)
(* a function, but the one of a type does not.                             *)
(***************************************************************************)
Declaration(file, d) ==
    CASE d.kind = "func"  -> Chunk(SubSeq(file, d.doc, d.to), d.doc, d.to)
      [] d.kind = "type"  -> Chunk(SubSeq(file, d.doc, d.to), d.from, d.to)
      [] d.kind = "value" -> Chunk(SubSeq(file, d.from, d.to), d.from, d.to)

ParseGo(file, decls) == OrWholeFile([i \in DOMAIN decls |-> Declaration(file, decls[i])], file)

(***************************************************************************)
(* py.go, on the top level nodes tree-sitter finds: [kind, from, to].  A   *)
(* class or a function is a chunk; the lines of the other statements       *)
(* gather in a group, without the blank lines between them and without a   *)
(* line equal to the one before it, until the next definition ends it.     *)
(***************************************************************************)
Gather(group, lines) ==
    LET gathered[k \in 0..Len(lines)] ==
            IF k = 0 THEN group
            ELSE LET before == gathered[k - 1]
                 IN  IF before # <<>> /\ before[Len(before)] = lines[k] THEN before
                     ELSE Append(before, lines[k])
    IN  gathered[Len(lines)]

PyNode(file, st, node) ==
    IF node.kind = "def"
    THEN LET group == IF st.group = <<>> THEN <<>>
                      ELSE <<Chunk(st.group, st.from, node.from - 1)>>
         IN  [ chunks |-> st.chunks \o group
                            \o <<Chunk(SubSeq(file, node.from, node.to), node.from, node.to)>>,
               group |-> <<>>, from |-> node.to + 1 ]
    ELSE [st EXCEPT !.group = Gather(@, SubSeq(file, node.from, node.to))]

ParsePython(file, nodes) ==
    LET st[i \in 0..Len(nodes)] ==
            IF i = 0 THEN [chunks |-> <<>>, group |-> <<>>, from |-> 1]
            ELSE PyNode(file, st[i - 1], nodes[i])
        end == st[Len(nodes)]
    IN  end.chunks \o (IF end.group = <<>> THEN <<>>
                       ELSE <<Chunk(end.group, end.from, Len(file))>>)

-----------------------------------------------------------------------------
(***************************************************************************)
(* splitLargeChunk: lines are added to the current piece until the next    *)
(* one would pass MaxChunkSize.  A piece is trimmed, its range is not, and *)
(* a piece ended by a long line is kept even if only blanks are left.      *)
(***************************************************************************)
Piece(st) == Chunk(Trim(st.lines), st.from, st.from + Len(st.lines) - 1)

\* Mutant: a piece starts at the line after the one that did not fit.
MutAddLine(content, start, st, i) ==
    LET bytes == Size[content[i]] + (IF i < Len(content) THEN 1 ELSE 0)
        full  == st.bytes + bytes > MaxChunkSize /\ st.bytes > 0
    IN  IF full
        THEN [pieces |-> Append(st.pieces, Piece(st)), from |-> start + i,
              lines |-> <<content[i]>>, bytes |-> bytes]
        ELSE [pieces |-> st.pieces, from |-> st.from,
              lines |-> Append(st.lines, content[i]), bytes |-> st.bytes + bytes]

AddLine(content, start, st, i) ==
    LET bytes == Size[content[i]] + (IF i < Len(content) THEN 1 ELSE 0)
        full  == st.bytes + bytes > MaxChunkSize /\ st.bytes > 0
    IN  IF full
        THEN [pieces |-> Append(st.pieces, Piece(st)), from |-> start + i - 1,
              lines |-> <<content[i]>>, bytes |-> bytes]
        ELSE [pieces |-> st.pieces, from |-> st.from,
              lines |-> Append(st.lines, content[i]), bytes |-> st.bytes + bytes]

SplitLargeChunk(content, start) ==
    LET st[i \in 0..Len(content)] ==
            IF i = 0 THEN [pieces |-> <<>>, from |-> start, lines |-> <<>>, bytes |-> 0]
            ELSE AddLine(content, start, st[i - 1], i)
        end == st[Len(content)]
    IN  IF end.bytes > 0 /\ Trim(end.lines) # <<>> THEN Append(end.pieces, Piece(end)) ELSE end.pieces

CutLarge(c) == IF Bytes(c.content) <= MaxChunkSize THEN <<c>> ELSE SplitLargeChunk(c.content, c.start)

(* SplitFile: the chunks of the parser, the large ones cut again. *)
SplitFile(ext, file, parse) ==
    LET raw == CASE ext = ".go"   -> ParseGo(file, parse)
                 [] ext = ".tf"   -> ParseTerraform(file)
                 [] ext = ".yaml" -> ParseYaml(file)
                 [] ext = ".py"   -> ParsePython(file, parse)
                 [] OTHER         -> <<WholeFile(file)>>
    IN  Flat([i \in DOMAIN raw |-> CutLarge(raw[i])])

-----------------------------------------------------------------------------
(* What a search shows for a chunk is what was embedded, up to blanks at the ends. *)
RangeHolds(file, c) ==
    /\ 1 <= c.start /\ c.end <= Len(file)
    /\ Trim(c.content) = Trim(SubSeq(file, c.start, c.end))

(* Where parsers promise no such thing: a documented type, and a group of      *)
(* statements with blank or repeated lines.                                    *)
PlainParse(ext, file, parse) ==
    CASE ext = ".go" -> \A i \in DOMAIN parse : parse[i].kind = "type" => parse[i].doc = parse[i].from
      [] ext = ".py" -> /\ \A k \in 1..Len(file) - 1 : file[k] \notin Blank /\ file[k] # file[k + 1]
                        /\ \A k \in DOMAIN file : file[k] \in Blank
                              \/ \E i \in DOMAIN parse : k \in parse[i].from..parse[i].to
      [] OTHER -> TRUE

(* The lines of a file that are text, and those of its chunks. *)
TextOf(lines) == Flat([k \in DOMAIN lines |-> IF lines[k] \in Blank THEN <<>> ELSE <<lines[k]>>])

TextOfChunks(chunks) == Flat([i \in DOMAIN chunks |-> TextOf(chunks[i].content)])

TextOfDocs(file) ==
    LET docs == YamlDocs(file)
    IN  Flat([i \in DOMAIN docs |-> TextOf(SubSeq(file, docs[i].from, docs[i].to))])
=============================================================================
