-------------------------- MODULE CallGraphParse --------------------------
(***************************************************************************)
(* The line scanners of src/internal/callgraph, which turn a Terraform or  *)
(* a YAML file into nodes (a name and a line range) and edges, and the     *)
(* walk over a Python tree.  A line is a record of what its text is to the *)
(* scanner: its kind, the name it declares, the names it refers to, and    *)
(* how far it opens or closes braces.                                      *)
(*                                                                         *)
(* The node map of the code is keyed by name: the last declaration wins.   *)
(* Here every declaration is kept, in order; an edge names its caller's    *)
(* declaration, so that two of one name are told apart.                    *)
(***************************************************************************)
EXTENDS Integers, Sequences, SequencesExt, FiniteSetsExt

CONSTANT NoName     \* `name:` without a value

Decl(name, line) == [name |-> name, start |-> line, end |-> 0]

NothingParsed == [decls |-> <<>>, edges |-> {}, active |-> FALSE, depth |-> 0]

(* The active node is the last one declared. *)
EndActive(st, line) ==
    IF st.active THEN [st.decls EXCEPT ![Len(st.decls)].end = line] ELSE st.decls

EdgesFrom(st, line) == st.edges \cup {[caller |-> Len(st.decls), callee |-> r] : r \in line.refs}

(* The end of the file. *)
AtEnd(st, lines) == [decls |-> EndActive(st, Len(lines)), edges |-> st.edges]

-----------------------------------------------------------------------------
(***************************************************************************)
(* yaml.go: a step runs from its name to the line before the next name.  A *)
(* name without a value is skipped.                                        *)
(***************************************************************************)
YamlLine(st, k, line) ==
    IF line.kind = "name"
    THEN IF line.name = NoName THEN st
         ELSE [st EXCEPT !.decls = Append(EndActive(st, k - 1), Decl(line.name, k)), !.active = TRUE]
    ELSE IF st.active THEN [st EXCEPT !.edges = EdgesFrom(st, line)] ELSE st

(* `for i, line := range lines`. *)
YamlGraph(lines) ==
    LET st[k \in 0..Len(lines)] ==
            IF k = 0 THEN NothingParsed ELSE YamlLine(st[k - 1], k, lines[k])
    IN  AtEnd(st[Len(lines)], lines)

-----------------------------------------------------------------------------
(***************************************************************************)
(* tf.go: a header starts a block whatever was active, without a look at   *)
(* whether its braces balance; any other line ends the block when they do. *)
(* The line that ends a block is not searched for references.              *)
(***************************************************************************)
\* Mutant: the braces of the header line are not counted.
MutTfGraphLine(st, k, line) ==
    LET depth == st.depth + line.braces
    IN  IF line.kind = "header"
        THEN [st EXCEPT !.decls = Append(@, Decl(line.name, k)), !.active = TRUE, !.depth = 0]
        ELSE IF ~st.active THEN st
        ELSE IF depth <= 0
        THEN [st EXCEPT !.decls = EndActive(st, k), !.active = FALSE, !.depth = depth]
        ELSE [st EXCEPT !.edges = EdgesFrom(st, line), !.depth = depth]

TfGraphLine(st, k, line) ==
    LET depth == st.depth + line.braces
    IN  IF line.kind = "header"
        THEN [st EXCEPT !.decls = Append(@, Decl(line.name, k)), !.active = TRUE, !.depth = line.braces]
        ELSE IF ~st.active THEN st
        ELSE IF depth <= 0
        THEN [st EXCEPT !.decls = EndActive(st, k), !.active = FALSE, !.depth = depth]
        ELSE [st EXCEPT !.edges = EdgesFrom(st, line), !.depth = depth]

TfGraph(lines) ==
    LET st[k \in 0..Len(lines)] ==
            IF k = 0 THEN NothingParsed ELSE TfGraphLine(st[k - 1], k, lines[k])
    IN  AtEnd(st[Len(lines)], lines)

(* How far the lines up to each one open or close braces. *)
Braces(lines) ==
    LET sum[k \in 0..Len(lines)] == IF k = 0 THEN 0 ELSE sum[k - 1] + lines[k].braces
    IN  sum

(* The block a header at line k opens, if braces balance: its last line. *)
Balanced(lines, k, end) ==
    LET sum      == Braces(lines)
        Depth(m) == sum[m] - sum[k - 1]
    IN  Depth(end) = 0 /\ \A m \in k..end - 1 : Depth(m) > 0

BlockEnds(lines, k) == {end \in k..Len(lines) : Balanced(lines, k, end)}

Headers(lines) == {k \in DOMAIN lines : lines[k].kind = "header"}

(* What terraform fmt leaves: a header opens its block, a block is closed   *)
(* before the next header, and there is no reference on the closing line.   *)
TfFormatted(lines) ==
    \A k \in Headers(lines) :
        \E end \in BlockEnds(lines, k) :
            end > k /\ lines[end].refs = {} /\ Headers(lines) \cap (k + 1..end) = {}

-----------------------------------------------------------------------------
(***************************************************************************)
(* py.go: traverse hands a class down to its subtree, and a function to    *)
(* its own.  A tree is a sequence of nodes [kind, name, parent], a parent  *)
(* before its children, 0 above the root; a call has the name it calls and *)
(* says whether it is self.name().                                         *)
(***************************************************************************)
Ancestors(tree, k) ==
    LET up[j \in 0..Len(tree)] == IF j = 0 THEN {} ELSE {j} \cup up[tree[j].parent]
    IN  up[tree[k].parent]

(* The nearest ancestor of a kind, 0 without one. *)
Context(tree, k, kind) == Max({0} \cup {j \in Ancestors(tree, k) : tree[j].kind = kind})

(* "class.function" is the pair of the class's name and the function's. *)
Qualified(tree, class, name) == IF class = 0 THEN <<name>> ELSE <<tree[class].name, name>>

NodeName(tree, k) ==
    IF tree[k].kind = "class" THEN <<tree[k].name>>
    ELSE Qualified(tree, Context(tree, k, "class"), tree[k].name)

PyNames(tree) == {NodeName(tree, k) : k \in {j \in DOMAIN tree : tree[j].kind \in {"class", "func"}}}

Callee(tree, k) ==
    Qualified(tree, IF tree[k].self THEN Context(tree, k, "class") ELSE 0, tree[k].name)

PyEdges(tree) ==
    {[caller |-> NodeName(tree, Context(tree, k, "func")), callee |-> Callee(tree, k)] :
        k \in {j \in DOMAIN tree : tree[j].kind = "call" /\ Context(tree, j, "func") # 0}}
=============================================================================
