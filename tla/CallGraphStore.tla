--------------------------- MODULE CallGraphStore ---------------------------
(***************************************************************************)
(* The call graph tables, and the tree reports the server reads from them. *)
(*                                                                         *)
(* UpdateIndex deletes the call graph of deleted and modified files and,   *)
(* when it has any chunk to embed, parses the files it processes again and *)
(* saves their nodes and edges.  Every file is a transaction of its own,   *)
(* taken without dbLock; errors are ignored.  The search_call_graph tool   *)
(* runs at the same time: it looks a symbol up and walks its callers or    *)
(* callees, one query after the other, each on the tables as they are.     *)
(*                                                                         *)
(* A node carries the absolute path the parser was given; SaveCallGraph    *)
(* and DeleteCallGraph select by the relative one.  Reading, hashing and   *)
(* embedding files are module IndexPipeline's: here a call scans the       *)
(* workspace in one step and parses each file in a later one.              *)
(***************************************************************************)
EXTENDS Integers, Sequences, FiniteSets, SequencesExt

CONSTANTS
  Root,       \* the root directory of the codebase
  File,       \* its indexable files, by relative path
  Version,    \* the contents a file may have
  Hash,       \* the Merkle hashes of file contents
  HashOf,     \* the hash of a content
  Absent,     \* no file, or no entry in the tree
  Name,       \* symbol names, as declared or as called
  Decl,       \* names a content declares
  Calls,      \* its calls: pairs of a declared name and a called one
  Parses,     \* contents the parser accepts
  HasChunks,  \* contents the splitter finds chunks in
  Like,       \* pairs <<c, n>>: n LIKE '%' || c
  DotLike,    \* pairs <<c, n>>: n LIKE '%.' || c
  MaxDepth,   \* depth of a tree report
  MaxRuns,    \* bound: calls of UpdateIndex
  MaxEdits,   \* bound: edits of the workspace
  MaxFaults,  \* bound: failing calls
  MaxReports  \* bound: tree reports

ASSUME CallGraphAssumption ==
  /\ HashOf \in [Version -> Hash]
  /\ Absent \notin Version \cup Hash
  /\ Decl \in [Version -> SUBSET Name] /\ \A v \in Version : IsFiniteSet(Decl[v])
  /\ Calls \in [Version -> SUBSET (Name \X Name)]
  /\ \A v \in Version : \A e \in Calls[v] : e[1] \in Decl[v]
  /\ Parses \subseteq Version /\ HasChunks \subseteq Version
  /\ Like \subseteq Name \X Name /\ DotLike \subseteq Like
  /\ \A n \in Name : <<n, n>> \in Like
  /\ MaxDepth \in Nat \ {0}
  /\ {MaxRuns, MaxEdits, MaxFaults, MaxReports} \subseteq Nat

VARIABLES
  files,    \* the workspace on disk
  trees,    \* file hashes of the stored Merkle tree
  nodes,    \* call_nodes
  edges,    \* call_edges
  pc,       \* where UpdateIndex is
  tree,     \* the tree it has built
  left,     \* the files its current loop has still to visit
  runs, edits, faults, reports,  \* how much of each bound is used
  unsynced, \* history: entries of trees that have not reached the tables
  rpc,      \* where the tree report is
  dir,      \* its direction
  target,   \* its target node
  open,     \* the recursion: walks whose last node is still to be looked up
  walks,    \* the nodes of the report, each as the walk that leads to it
  stable    \* history: no table has changed and no query failed since it began

graphVars == <<nodes, edges>>
updateVars == <<trees, pc, tree, left, unsynced>>
reportVars == <<rpc, dir, target, open, walks>>
vars == <<files, graphVars, updateVars, runs, edits, faults, reports, reportVars, stable>>

(***************************************************************************)
(* A row of call_nodes.  Its line numbers are those of the content it was  *)
(* parsed from.  Rows that are equal are told apart by no query: every one *)
(* is a SELECT DISTINCT or takes one row.                                  *)
(***************************************************************************)
FullPath(f) == <<Root, f>>
RelPath(f) == <<f>>
Node == [name : Name, path : {FullPath(f) : f \in File}, ver : Version]
NoNode == [name |-> Absent, path |-> <<>>, ver |-> Absent]

NodesOf(f, v) == {[name |-> n, path |-> FullPath(f), ver |-> v] : n \in Decl[v]}
NoFiles == [f \in File |-> Absent]

Fail == faults < MaxFaults /\ faults' = faults + 1
Succeed == UNCHANGED faults

Init ==
  /\ files \in [File -> Version \cup {Absent}]
  /\ trees = NoFiles /\ nodes = {} /\ edges = {}
  /\ pc = "idle" /\ tree = NoFiles /\ left = {}
  /\ runs = 0 /\ edits = 0 /\ faults = 0 /\ reports = 0 /\ unsynced = {}
  /\ rpc = "idle" /\ dir = "callee" /\ target = NoNode
  /\ open = <<>> /\ walks = {} /\ stable = TRUE

Edit(f, v) ==
  /\ edits < MaxEdits /\ files[f] # v
  /\ files' = [files EXCEPT ![f] = v] /\ edits' = edits + 1
  /\ UNCHANGED <<graphVars, updateVars, runs, faults, reports, reportVars, stable>>

(***************************************************************************)
(* UpdateIndex.                                                            *)
(***************************************************************************)
Changed == {f \in File : tree[f] # trees[f]}
ToProcess == {f \in Changed : tree[f] # Absent}
Entry(f) == <<f, tree[f]>>

\* BuildMerkleTree and DiffTrees.  With no indexable file left, the call stores
\* an empty tree, if it can, and does not touch the call graph.
Scan ==
  /\ pc = "idle" /\ runs < MaxRuns
  /\ runs' = runs + 1
  /\ tree' = [f \in File |-> IF files[f] = Absent THEN Absent ELSE HashOf[files[f]]]
  /\ IF tree' = NoFiles
     THEN /\ \/ Succeed /\ trees' = NoFiles
             \/ Fail /\ UNCHANGED trees
          /\ UNCHANGED <<pc, left>>
     ELSE /\ Succeed /\ UNCHANGED trees
          /\ pc' = "purge"
          /\ left' = {f \in File : trees[f] \notin {tree'[f], Absent}}
  /\ UNCHANGED <<files, graphVars, unsynced, edits, reports, reportVars, stable>>

\* Rows of a file, edges of the functions they declare.
RowsAt(path) == {n \in nodes : n.path = path}
EdgesOf(rs) == {e \in edges : \E n \in rs : e[1] = n.name}

Note == stable' = (stable /\ UNCHANGED graphVars)

\* Mutant: the path is repaired, and the edges still belong to a name, not a file.
DeleteCallGraph_FullPath(f) ==
  /\ pc = "purge" /\ f \in left /\ left' = left \ {f}
  /\ \/ /\ Succeed
        /\ nodes' = nodes \ RowsAt(FullPath(f))
        /\ edges' = edges \ EdgesOf(RowsAt(FullPath(f)))
     \/ Fail /\ UNCHANGED graphVars
  /\ Note
  /\ UNCHANGED <<files, trees, pc, tree, unsynced, runs, edits, reports, reportVars>>

DeleteCallGraph(f) ==
  /\ pc = "purge" /\ f \in left /\ left' = left \ {f}
  /\ \/ /\ Succeed
        /\ nodes' = nodes \ RowsAt(RelPath(f))
        /\ edges' = edges \ EdgesOf(RowsAt(RelPath(f)))
     \/ Fail /\ UNCHANGED graphVars
  /\ Note
  /\ UNCHANGED <<files, trees, pc, tree, unsynced, runs, edits, reports, reportVars>>

\* prepareIndexerJobs reads the files again; one that fails gives no jobs.  The
\* call graph is synchronised only when there is a job at all.
Prepare ==
  /\ pc = "purge" /\ left = {}
  /\ \E read \in SUBSET ToProcess :
       /\ \/ Succeed /\ read = ToProcess
          \/ Fail /\ Cardinality(ToProcess \ read) = 1
       /\ IF \E f \in read : files[f] \in HasChunks
          THEN pc' = "sync" /\ left' = ToProcess /\ UNCHANGED unsynced
          ELSE /\ pc' = "savetree" /\ UNCHANGED left
               /\ unsynced' = unsynced \cup {Entry(f) : f \in ToProcess}
  /\ UNCHANGED <<files, graphVars, trees, tree, runs, edits, reports, reportVars, stable>>

\* Mutant: no transaction, and the insert of the edges fails or not on its own.
SaveCallGraph_NoTx(f) ==
  /\ pc = "sync" /\ f \in left /\ left' = left \ {f}
  /\ LET v == files[f] IN
       \/ /\ Succeed /\ v \in Parses
          /\ nodes' = nodes \cup NodesOf(f, v) /\ edges' = edges \cup Calls[v]
          /\ unsynced' = IF HashOf[v] = tree[f] THEN unsynced \ {Entry(f)} ELSE unsynced \cup {Entry(f)}
       \/ /\ Fail /\ v \in Parses /\ UNCHANGED nodes /\ edges' = edges \cup Calls[v]
          /\ unsynced' = unsynced \cup {Entry(f)}
       \/ /\ Succeed /\ v \notin Parses
          /\ UNCHANGED graphVars /\ unsynced' = unsynced \cup {Entry(f)}
  /\ Note
  /\ UNCHANGED <<files, trees, pc, tree, runs, edits, reports, reportVars>>

\* syncASTCallGraphs for one file: ParseFile, then SaveCallGraph, whose
\* transaction is rolled back when any statement of it fails.
SaveCallGraph(f) ==
  /\ pc = "sync" /\ f \in left /\ left' = left \ {f}
  /\ LET v == files[f] IN
       \/ /\ Succeed /\ v \in Parses
          /\ nodes' = (nodes \ RowsAt(RelPath(f))) \cup NodesOf(f, v)
          /\ edges' = (edges \ EdgesOf(RowsAt(RelPath(f)))) \cup Calls[v]
          /\ unsynced' = IF HashOf[v] = tree[f] THEN unsynced \ {Entry(f)} ELSE unsynced \cup {Entry(f)}
       \/ /\ (Succeed /\ v \notin Parses) \/ Fail
          /\ UNCHANGED graphVars /\ unsynced' = unsynced \cup {Entry(f)}
  /\ Note
  /\ UNCHANGED <<files, trees, pc, tree, runs, edits, reports, reportVars>>

SyncEnds ==
  /\ pc = "sync" /\ left = {} /\ pc' = "savetree"
  /\ UNCHANGED <<files, graphVars, trees, tree, left, unsynced, runs, edits, faults, reports,
                 reportVars, stable>>

SaveTree ==
  /\ pc = "savetree" /\ pc' = "idle"
  /\ \/ Succeed /\ trees' = tree
     \/ Fail /\ UNCHANGED trees
  /\ UNCHANGED <<files, graphVars, tree, left, unsynced, runs, edits, reports, reportVars, stable>>

(***************************************************************************)
(* The queries.                                                            *)
(***************************************************************************)
\* The called name of an edge is matched as a suffix of the declared one.
GetCallees(caller) == {n \in nodes : \E e \in edges : e[1] = caller /\ <<e[2], n.name>> \in Like}

GetCallers(callee) == {n \in nodes : \E e \in edges : e[1] = n.name /\ <<e[2], callee>> \in Like}

Neighbours(d, name) == IF d = "callee" THEN GetCallees(name) ELSE GetCallers(name)

(***************************************************************************)
(* search_call_graph.  The recursion goes into a node before its siblings; *)
(* the rows of a query come in no order that anything depends on.          *)
(***************************************************************************)
\* GetCallNode: one of the rows with the name, or with the name after a dot.
StartReport(name, d) ==
  /\ rpc = "idle" /\ reports < MaxReports
  /\ \E n \in nodes :
       /\ n.name = name \/ <<name, n.name>> \in DotLike
       /\ target' = n /\ open' = <<<<n>>>>
  /\ rpc' = "walk" /\ dir' = d /\ walks' = {} /\ stable' = TRUE
  /\ reports' = reports + 1
  /\ UNCHANGED <<files, graphVars, updateVars, runs, edits, faults>>

\* A node is looked up unless the walk has reached the depth or holds its name
\* already: visited is set on the way down and cleared on the way up.
Repeats(w) == \E k \in 1 .. Len(w) - 1 : w[k].name = Last(w).name

\* Mutant: visited is never cleared, so that a name is looked up once per report.
Expands_Once(w) ==
  /\ Len(w) <= MaxDepth
  /\ \A u \in walks \ {w} : \A k \in 1 .. Len(u) - 1 : u[k].name # Last(w).name

Expands(w) == Len(w) <= MaxDepth /\ ~ Repeats(w)

Extended(w, ns) == {Append(w, n) : n \in ns}

LookUp ==
  /\ rpc = "walk" /\ open # <<>>
  /\ LET w == Head(open) IN
       \/ /\ Succeed /\ UNCHANGED stable
          /\ LET found == IF Expands(w) THEN Extended(w, Neighbours(dir, Last(w).name)) ELSE {} IN
               /\ open' = SetToSeq(found) \o Tail(open)
               /\ walks' = walks \cup found
       \/ /\ Fail /\ Expands(w) /\ stable' = FALSE
          /\ open' = Tail(open) /\ UNCHANGED walks
  /\ UNCHANGED <<files, graphVars, updateVars, runs, edits, reports, rpc, dir, target>>

EndReport ==
  /\ rpc = "walk" /\ open = <<>> /\ rpc' = "done"
  /\ UNCHANGED <<files, graphVars, updateVars, runs, edits, faults, reports, dir, target, open,
                 walks, stable>>

Answer ==
  /\ rpc = "done" /\ rpc' = "idle"
  /\ target' = NoNode /\ walks' = {} /\ stable' = TRUE
  /\ UNCHANGED <<files, graphVars, updateVars, runs, edits, faults, reports, dir, open>>

Update ==
  \/ Scan \/ Prepare \/ SyncEnds \/ SaveTree
  \/ \E f \in File : DeleteCallGraph(f) \/ SaveCallGraph(f)

Report ==
  \/ LookUp \/ EndReport \/ Answer
  \/ \E name \in Name, d \in {"caller", "callee"} : StartReport(name, d)

Next == Update \/ Report \/ \E f \in File, v \in Version \cup {Absent} : Edit(f, v)

Spec == Init /\ [][Next]_vars

(***************************************************************************)
(* Properties.                                                             *)
(***************************************************************************)
\* Types; a walk of a report has at most MaxDepth steps, and what is left to
\* look up is part of it.
GraphTypeOK ==
  /\ files \in [File -> Version \cup {Absent}]
  /\ trees \in [File -> Hash \cup {Absent}]
  /\ tree \in [File -> Hash \cup {Absent}]
  /\ nodes \subseteq Node /\ edges \subseteq Name \X Name
  /\ pc \in {"idle", "purge", "sync", "savetree"}
  /\ left \subseteq File /\ unsynced \subseteq File \X Hash
  /\ runs \in 0 .. MaxRuns /\ edits \in 0 .. MaxEdits
  /\ faults \in 0 .. MaxFaults /\ reports \in 0 .. MaxReports
  /\ rpc \in {"idle", "walk", "done"} /\ dir \in {"caller", "callee"}
  /\ target \in Node \cup {NoNode}
  /\ walks \subseteq Seq(Node) /\ \A w \in walks : Len(w) <= MaxDepth + 1
  /\ ToSet(open) \subseteq walks \cup {<<target>>}
  /\ stable \in BOOLEAN

\* What the stored tree calls indexed is in the call graph: the nodes and the edges
\* of some content with the recorded hash, unless a parse or a save of the file has
\* failed, the file changed under the call, or the call had no chunk to embed.  No
\* other file's update removes them, though edges are keyed by a name that several
\* files may declare.
TreeInGraph ==
  \A f \in File :
    trees[f] # Absent /\ <<f, trees[f]>> \notin unsynced =>
      \E v \in Version :
        HashOf[v] = trees[f] /\ NodesOf(f, v) \subseteq nodes /\ Calls[v] \subseteq edges

\* The two directions of the reports tell the same story in every state a reader can
\* see: a symbol is among the callers of those, and only those, it has among its
\* callees.  So no edge is visible without the node of its caller, and the two
\* queries, which match suffixes the other way round, agree.
CallersMirrorCallees ==
  \A name \in Name, m \in {n.name : n \in nodes} :
    (\E n \in GetCallees(name) : n.name = m) <=> (\E n \in GetCallers(m) : n.name = name)

\* The nodes a report should list: all walks from the target that follow an edge at
\* each step, at most MaxDepth of them, and meet no name twice before their last node.
WalksFrom(n, d) ==
  {w \in UNION {[1 .. k -> nodes] : k \in 2 .. MaxDepth + 1} :
     /\ w[1] = n
     /\ \A k \in 1 .. Len(w) - 1 :
          w[k + 1] \in Neighbours(d, w[k].name) /\ ~ Repeats(SubSeq(w, 1, k))}

\* A report that no write to the tables interrupts lists exactly those walks, through
\* recursive and mutually recursive functions and names reached along several paths.
ReportIsExact == rpc = "done" /\ stable => walks = WalksFrom(target, dir)
============================================================================
