----------------------- MODULE CallGraphStore_proofs -----------------------
(***************************************************************************)
(* Invariance proofs for CallGraphStore, for any files, names, contents    *)
(* and bounds.  The rows DeleteCallGraph and SaveCallGraph select by the   *)
(* relative path are none: so the tables only grow, and what one call has  *)
(* written is still there when a later one relies on it.  A report is a    *)
(* search of its own, followed look-up by look-up.                         *)
(***************************************************************************)
EXTENDS CallGraphStore, FiniteSetTheorems, SequenceTheorems, TLAPS

-----------------------------------------------------------------------------
(***************************************************************************)
(* The invariant.                                                          *)
(***************************************************************************)
RowsAreNodes == nodes \subseteq Node

\* The nodes and edges of some content with hash h of file f are stored.
InGraph(f, h) ==
  \E v \in Version : HashOf[v] = h /\ NodesOf(f, v) \subseteq nodes /\ Calls[v] \subseteq edges

\* The tree under construction, once the files left to visit are accounted for.
BuiltTreeInGraph ==
  pc \in {"sync", "savetree"} =>
    \A f \in File :
      tree[f] # Absent /\ Entry(f) \notin unsynced /\ (pc = "sync" => f \notin left)
        => InGraph(f, tree[f])

EdgesHaveCallers == \A e \in edges : \E n \in nodes : n.name = e[1]

GraphInv == RowsAreNodes /\ EdgesHaveCallers /\ TreeInGraph /\ BuiltTreeInGraph

-----------------------------------------------------------------------------
\* No row has the relative path of a file.
LEMMA NoRowAtRelPath ==
  ASSUME RowsAreNodes, NEW f \in File
  PROVE  RowsAt(RelPath(f)) = {} /\ EdgesOf(RowsAt(RelPath(f))) = {}
<1>1. ASSUME NEW n \in nodes PROVE n.path # RelPath(f)
  <2>1. PICK g \in File : n.path = FullPath(g)
    BY DEF RowsAreNodes, Node
  <2>2. Len(<<Root, g>>) = 2 /\ Len(<<f>>) = 1
    OBVIOUS
  <2> QED
    BY <2>1, <2>2 DEF FullPath, RelPath
<1>2. RowsAt(RelPath(f)) = {}
  BY <1>1 DEF RowsAt
<1> QED
  BY <1>2 DEF EdgesOf

\* What a step of the update or of a report may do to the tables.
Grows == nodes \subseteq nodes' /\ edges \subseteq edges'

LEMMA StaysInGraph ==
  ASSUME NEW f \in File, NEW h, InGraph(f, h), Grows
  PROVE  InGraph(f, h)'
  BY DEF InGraph, Grows

LEMMA DeletingDeletesNothing ==
  ASSUME RowsAreNodes, NEW f \in File, DeleteCallGraph(f)
  PROVE  UNCHANGED <<graphVars, trees, pc, tree, unsynced>>
  BY NoRowAtRelPath DEF DeleteCallGraph, graphVars

\* What SaveCallGraph does to the tables and to the history.
LEMMA SavingAdds ==
  ASSUME RowsAreNodes, NEW f \in File, SaveCallGraph(f)
  PROVE  /\ pc = "sync" /\ UNCHANGED <<trees, pc, tree>> /\ left' = left \ {f}
         /\ \/ /\ files[f] \in Version
               /\ nodes' = nodes \cup NodesOf(f, files[f])
               /\ edges' = edges \cup Calls[files[f]]
               /\ \/ HashOf[files[f]] = tree[f] /\ unsynced' = unsynced \ {Entry(f)}
                  \/ unsynced' = unsynced \cup {Entry(f)}
            \/ /\ UNCHANGED graphVars
               /\ unsynced' = unsynced \cup {Entry(f)}
<1>1. RowsAt(RelPath(f)) = {} /\ EdgesOf(RowsAt(RelPath(f))) = {}
  BY NoRowAtRelPath
<1>2. Parses \subseteq Version
  BY CallGraphAssumption
<1> DEFINE v == files[f]
<1>3. CASE /\ v \in Parses
           /\ nodes' = (nodes \ RowsAt(RelPath(f))) \cup NodesOf(f, v)
           /\ edges' = (edges \ EdgesOf(RowsAt(RelPath(f)))) \cup Calls[v]
           /\ unsynced' = IF HashOf[v] = tree[f]
                          THEN unsynced \ {Entry(f)} ELSE unsynced \cup {Entry(f)}
  <2>1. nodes' = nodes \cup NodesOf(f, v) /\ edges' = edges \cup Calls[v]
    BY <1>1, <1>3
  <2>2. v \in Version
    BY <1>2, <1>3
  <2>3. \/ HashOf[v] = tree[f] /\ unsynced' = unsynced \ {Entry(f)}
        \/ unsynced' = unsynced \cup {Entry(f)}
    BY <1>3
  <2> QED
    BY <2>1, <2>2, <2>3 DEF SaveCallGraph
<1>4. CASE UNCHANGED graphVars /\ unsynced' = unsynced \cup {Entry(f)}
  BY <1>4 DEF SaveCallGraph
<1> QED
  BY <1>3, <1>4 DEF SaveCallGraph

\* The other steps write neither table.
LEMMA TheRestLeavesTables ==
  ASSUME NEW f \in File, NEW v \in Version \cup {Absent}, NEW name \in Name,
         NEW d \in {"caller", "callee"},
         \/ Edit(f, v) \/ Scan \/ Prepare \/ SyncEnds \/ SaveTree
         \/ LookUp \/ EndReport \/ Answer \/ StartReport(name, d)
  PROVE  UNCHANGED graphVars
  BY DEF Edit, Scan, Prepare, SyncEnds, SaveTree, LookUp, EndReport, Answer, StartReport

\* A step that writes neither the tables nor the update's own variables.
LEMMA ReportsLeaveUpdate ==
  ASSUME GraphInv, UNCHANGED <<graphVars, trees, pc, tree, left, unsynced>>
  PROVE  GraphInv'
  BY DEF GraphInv, RowsAreNodes, EdgesHaveCallers, TreeInGraph, BuiltTreeInGraph, InGraph,
         graphVars, Entry

LEMMA InitGraph == Init => GraphInv
  BY DEF Init, NoFiles, GraphInv, RowsAreNodes, EdgesHaveCallers, TreeInGraph, BuiltTreeInGraph

LEMMA SaveKeepsGraph ==
  ASSUME GraphInv, NEW f \in File, SaveCallGraph(f)
  PROVE  GraphInv'
<1>1. RowsAreNodes
  BY DEF GraphInv
<1>2. /\ pc = "sync" /\ UNCHANGED <<trees, pc, tree>> /\ left' = left \ {f}
      /\ \/ /\ files[f] \in Version
            /\ nodes' = nodes \cup NodesOf(f, files[f])
            /\ edges' = edges \cup Calls[files[f]]
            /\ \/ HashOf[files[f]] = tree[f] /\ unsynced' = unsynced \ {Entry(f)}
               \/ unsynced' = unsynced \cup {Entry(f)}
         \/ /\ UNCHANGED graphVars
            /\ unsynced' = unsynced \cup {Entry(f)}
  BY <1>1, SavingAdds
<1>3. Grows
  BY <1>2 DEF Grows, graphVars
<1>4. RowsAreNodes'
  <2>1. ASSUME NEW v \in Version PROVE NodesOf(f, v) \subseteq Node
    BY CallGraphAssumption DEF NodesOf, Node
  <2> QED
    BY <1>1, <1>2, <2>1 DEF RowsAreNodes, graphVars
<1>5. EdgesHaveCallers'
  <2>1. EdgesHaveCallers
    BY DEF GraphInv
  <2>2. ASSUME NEW e \in edges PROVE \E n \in nodes' : n.name = e[1]
    BY <1>3, <2>1, <2>2 DEF EdgesHaveCallers, Grows
  <2>3. ASSUME NEW v \in Version, NEW e \in Calls[v] PROVE \E n \in NodesOf(f, v) : n.name = e[1]
    <3>1. e[1] \in Decl[v]
      BY CallGraphAssumption
    <3> DEFINE n == [name |-> e[1], path |-> FullPath(f), ver |-> v]
    <3>2. n \in NodesOf(f, v) /\ n.name = e[1]
      BY <3>1 DEF NodesOf
    <3> QED
      BY ONLY <3>2
  <2> QED
    BY <1>2, <2>2, <2>3 DEF EdgesHaveCallers, graphVars
\* The entry of f is taken out of the history only when the graph holds it.
<1>6. ASSUME NEW g \in File, NEW h, <<g, h>> \in unsynced, <<g, h>> \notin unsynced'
      PROVE  g = f /\ h = tree[f] /\ InGraph(f, h)'
  <2>1. <<g, h>> = Entry(f) /\ HashOf[files[f]] = tree[f]
    BY <1>2, <1>6
  <2>2. g = f /\ h = tree[f]
    BY <2>1 DEF Entry
  <2>3. /\ files[f] \in Version /\ NodesOf(f, files[f]) \subseteq nodes'
        /\ Calls[files[f]] \subseteq edges'
    BY <1>2, <1>6
  <2> QED
    BY <2>1, <2>2, <2>3 DEF InGraph, NodesOf
<1>7. TreeInGraph'
  <2>1. SUFFICES ASSUME NEW g \in File, trees[g] # Absent, <<g, trees[g]>> \notin unsynced'
                 PROVE  InGraph(g, trees[g])'
    BY <1>2 DEF TreeInGraph, InGraph
  <2>2. CASE <<g, trees[g]>> \in unsynced
    BY <1>2, <1>6, <2>1, <2>2
  <2>3. CASE <<g, trees[g]>> \notin unsynced
    <3>1. InGraph(g, trees[g])
      BY <2>1, <2>3 DEF GraphInv, TreeInGraph, InGraph
    <3> QED
      BY <1>2, <1>3, <3>1 DEF InGraph, Grows
  <2> QED
    BY <2>2, <2>3
<1>8. BuiltTreeInGraph'
  <2>1. SUFFICES ASSUME NEW g \in File, tree[g] # Absent, <<g, tree[g]>> \notin unsynced',
                        g \notin left'
                 PROVE  InGraph(g, tree[g])'
    BY <1>2 DEF BuiltTreeInGraph, InGraph, Entry
  <2>2. CASE <<g, tree[g]>> \in unsynced
    BY <1>2, <1>6, <2>1, <2>2
  <2>3. CASE <<g, tree[g]>> \notin unsynced /\ g # f
    <3>1. InGraph(g, tree[g])
      BY <1>2, <2>1, <2>3 DEF GraphInv, BuiltTreeInGraph, Entry
    <3> QED
      BY <1>2, <1>3, <3>1 DEF InGraph, Grows
  <2>4. CASE <<g, tree[g]>> \notin unsynced /\ g = f
    <3>1. unsynced' # unsynced \cup {Entry(f)}
      BY <2>1, <2>4 DEF Entry
    <3>2. /\ files[f] \in Version /\ HashOf[files[f]] = tree[f]
          /\ NodesOf(f, files[f]) \subseteq nodes' /\ Calls[files[f]] \subseteq edges'
      BY <1>2, <3>1
    <3> QED
      BY <1>2, <2>4, <3>2 DEF InGraph, NodesOf
  <2> QED
    BY <2>2, <2>3, <2>4
<1> QED
  BY <1>4, <1>5, <1>7, <1>8 DEF GraphInv

LEMMA NextGraph ==
  ASSUME GraphInv, [Next]_vars
  PROVE  GraphInv'
<1>1. ASSUME NEW f \in File, NEW v \in Version \cup {Absent}, Edit(f, v) PROVE GraphInv'
  BY <1>1, ReportsLeaveUpdate DEF Edit, updateVars
<1>2. CASE LookUp \/ EndReport \/ Answer
  BY <1>2, ReportsLeaveUpdate DEF LookUp, EndReport, Answer, updateVars
<1>3. ASSUME NEW name \in Name, NEW d \in {"caller", "callee"}, StartReport(name, d)
      PROVE  GraphInv'
  BY <1>3, ReportsLeaveUpdate DEF StartReport, updateVars
<1>4. CASE UNCHANGED vars
  BY <1>4, ReportsLeaveUpdate DEF vars, updateVars
<1>5. CASE Scan
  <2>1. UNCHANGED <<graphVars, unsynced>>
    BY <1>5 DEF Scan
  <2>2. pc' = "purge" \/ pc' = "idle"
    BY <1>5 DEF Scan
  <2>3. trees' = trees \/ trees' = NoFiles
    BY <1>5 DEF Scan
  <2> QED
    BY <2>1, <2>2, <2>3 DEF GraphInv, RowsAreNodes, EdgesHaveCallers, TreeInGraph,
       BuiltTreeInGraph, graphVars, NoFiles
<1>6. ASSUME NEW f \in File, DeleteCallGraph(f) PROVE GraphInv'
  <2>1. UNCHANGED <<graphVars, trees, pc, tree, unsynced>> /\ pc = "purge"
    BY <1>6, DeletingDeletesNothing DEF GraphInv, DeleteCallGraph
  <2> QED
    BY <2>1 DEF GraphInv, RowsAreNodes, EdgesHaveCallers, TreeInGraph, BuiltTreeInGraph,
       graphVars
<1>7. CASE Prepare
  <2>1. UNCHANGED <<graphVars, trees, tree>> /\ pc = "purge"
    BY <1>7 DEF Prepare
  <2>2. unsynced \subseteq unsynced'
    BY <1>7 DEF Prepare
  <2>3. ASSUME NEW f \in File, tree[f] # Absent, Entry(f) \notin unsynced',
               pc' = "sync" => f \notin left'
        PROVE  trees[f] = tree[f]
    <3>1. CASE pc' = "sync"
      <4>1. left' = ToProcess
        BY <1>7, <3>1 DEF Prepare
      <4> QED
        BY <2>3, <3>1, <4>1 DEF ToProcess, Changed
    <3>2. CASE pc' # "sync"
      <4>1. unsynced' = unsynced \cup {Entry(g) : g \in ToProcess}
        BY <1>7, <3>2 DEF Prepare
      <4> QED
        BY <2>3, <4>1 DEF ToProcess, Changed
    <3> QED
      BY <3>1, <3>2
  <2>4. ASSUME NEW f \in File, trees[f] # Absent, <<f, trees[f]>> \notin unsynced'
        PROVE  InGraph(f, trees[f])
    BY <2>2, <2>4 DEF GraphInv, TreeInGraph, InGraph
  <2>5. TreeInGraph'
    BY <2>1, <2>4 DEF TreeInGraph, InGraph, graphVars
  <2>6. BuiltTreeInGraph'
    <3>1. ASSUME NEW f \in File, tree[f] # Absent, Entry(f) \notin unsynced',
                 pc' = "sync" => f \notin left'
          PROVE  InGraph(f, tree[f])
      BY <2>3, <2>4, <3>1 DEF Entry
    <3> QED
      BY <2>1, <3>1 DEF BuiltTreeInGraph, InGraph, graphVars, Entry
  <2> QED
    BY <2>1, <2>5, <2>6 DEF GraphInv, RowsAreNodes, EdgesHaveCallers, graphVars
<1>8. ASSUME NEW f \in File, SaveCallGraph(f) PROVE GraphInv'
  BY <1>8, SaveKeepsGraph
<1>9. CASE SyncEnds
  <2>1. UNCHANGED <<graphVars, trees, tree, unsynced>> /\ pc = "sync" /\ left = {}
    BY <1>9 DEF SyncEnds
  <2>2. BuiltTreeInGraph'
    BY <2>1 DEF GraphInv, BuiltTreeInGraph, InGraph, graphVars, Entry
  <2> QED
    BY <2>1, <2>2 DEF GraphInv, RowsAreNodes, EdgesHaveCallers, TreeInGraph, graphVars
<1>10. CASE SaveTree
  <2>1. UNCHANGED <<graphVars, tree, unsynced>> /\ pc = "savetree" /\ pc' = "idle"
    BY <1>10 DEF SaveTree
  <2>2. trees' = tree \/ trees' = trees
    BY <1>10 DEF SaveTree
  <2>3. TreeInGraph'
    BY <2>1, <2>2 DEF GraphInv, TreeInGraph, BuiltTreeInGraph, InGraph, graphVars, Entry
  <2> QED
    BY <2>1, <2>3 DEF GraphInv, RowsAreNodes, EdgesHaveCallers, BuiltTreeInGraph, graphVars
<1> QED
  BY <1>1, <1>2, <1>3, <1>4, <1>5, <1>6, <1>7, <1>8, <1>9, <1>10 DEF Next, Update, Report

LEMMA GraphInvariant == Spec => []GraphInv
<1>1. GraphInv /\ [Next]_vars => GraphInv'
  BY NextGraph
<1> QED
  BY <1>1, InitGraph, PTL DEF Spec

\* Every file the stored tree calls indexed has the call graph of some content with the
\* recorded hash (SaveCallGraph, db.go 1114-1192), unless its parse or its save failed.
THEOREM IndexedFilesAreInGraph == Spec => []TreeInGraph
<1>1. GraphInv => TreeInGraph
  BY DEF GraphInv
<1> QED
  BY <1>1, GraphInvariant, PTL

\* GetCallers and GetCallees (db.go 1240-1321) are inverse to each other in every state a
\* report can read.
THEOREM CallersAndCalleesAgree == Spec => []CallersMirrorCallees
<1>1. GraphInv => CallersMirrorCallees
  <2>1. SUFFICES ASSUME GraphInv, NEW name \in Name, NEW m \in {n.name : n \in nodes}
                 PROVE  (\E n \in GetCallees(name) : n.name = m)
                          <=> (\E n \in GetCallers(m) : n.name = name)
    BY DEF CallersMirrorCallees
  <2>2. ASSUME NEW n \in GetCallees(name), n.name = m
        PROVE  \E k \in GetCallers(m) : k.name = name
    <3>1. PICK e \in edges : e[1] = name /\ <<e[2], n.name>> \in Like
      BY DEF GetCallees
    <3>2. PICK k \in nodes : k.name = e[1]
      BY <2>1 DEF GraphInv, EdgesHaveCallers
    <3> QED
      BY <2>2, <3>1, <3>2 DEF GetCallers
  <2>3. ASSUME NEW n \in GetCallers(m), n.name = name
        PROVE  \E k \in GetCallees(name) : k.name = m
    <3>1. PICK e \in edges : e[1] = n.name /\ <<e[2], m>> \in Like
      BY DEF GetCallers
    <3>2. PICK k \in nodes : k.name = m
      OBVIOUS
    <3> QED
      BY <2>3, <3>1, <3>2 DEF GetCallees
  <2> QED
    BY <2>2, <2>3
<1> QED
  BY <1>1, GraphInvariant, PTL

-----------------------------------------------------------------------------
(***************************************************************************)
(* Types.  What is left to look up are sequences of nodes, and found by a  *)
(* query on finite tables.                                                 *)
(***************************************************************************)
ReportTypes ==
  /\ open \in Seq(Seq(Node))
  /\ IsFiniteSet(nodes)
  /\ rpc = "walk" => target \in Node
  /\ rpc # "walk" => open = <<>>
  /\ pc = "sync" => \A f \in left : tree[f] # Absent

Types == GraphTypeOK /\ ReportTypes

LEMMA SetToSeqType ==
  ASSUME NEW S, IsFiniteSet(S), NEW T, S \subseteq T
  PROVE  SetToSeq(S) \in Seq(T) /\ ToSet(SetToSeq(S)) \subseteq S
<1> DEFINE n == Cardinality(S)
<1>1. n \in Nat /\ ExistsBijection(1 .. n, S)
  BY FS_CardinalityType
<1>2. \E f \in [1 .. n -> S] : IsInjective(f)
  BY <1>1 DEF ExistsBijection, Bijection, Injection
<1>3. SetToSeq(S) \in [1 .. n -> S]
  BY <1>2 DEF SetToSeq
<1>4. SetToSeq(S) \in Seq(S) /\ DOMAIN SetToSeq(S) = 1 .. n
  BY <1>1, <1>3
<1>5. ToSet(SetToSeq(S)) \subseteq S
  BY <1>3, <1>4 DEF ToSet
<1> QED
  BY <1>4, <1>5, SeqMonotonic

LEMMA NodesOfIsFinite ==
  ASSUME NEW f \in File, NEW v \in Version
  PROVE  NodesOf(f, v) \subseteq Node /\ IsFiniteSet(NodesOf(f, v))
<1> DEFINE row == [n \in Decl[v] |-> [name |-> n, path |-> FullPath(f), ver |-> v]]
<1>1. IsFiniteSet(Decl[v])
  BY CallGraphAssumption
<1>2. row \in Surjection(Decl[v], NodesOf(f, v))
  BY DEF Surjection, NodesOf
<1>3. IsFiniteSet(NodesOf(f, v))
  BY <1>1, <1>2, FS_Surjection DEF ExistsSurjection
<1>4. NodesOf(f, v) \subseteq Node
  BY CallGraphAssumption DEF NodesOf, Node
<1> QED
  BY <1>3, <1>4

LEMMA ExtendedIsFinite ==
  ASSUME NEW w \in Seq(Node), NEW ns, ns \subseteq Node, IsFiniteSet(ns)
  PROVE  /\ IsFiniteSet(Extended(w, ns)) /\ Extended(w, ns) \subseteq Seq(Node)
         /\ \A u \in Extended(w, ns) : Len(u) = Len(w) + 1
<1> DEFINE next == [n \in ns |-> Append(w, n)]
<1>1. next \in Surjection(ns, Extended(w, ns))
  BY DEF Surjection, Extended
<1>2. IsFiniteSet(Extended(w, ns))
  BY <1>1, FS_Surjection DEF ExistsSurjection
<1>3. ASSUME NEW n \in ns PROVE Append(w, n) \in Seq(Node) /\ Len(Append(w, n)) = Len(w) + 1
  OBVIOUS
<1> QED
  BY <1>2, <1>3 DEF Extended

LEMMA InitTypes == Init => Types
<1> SUFFICES ASSUME Init PROVE Types
  OBVIOUS
<1>1. IsFiniteSet({}) /\ ToSet(<<>>) = {}
  BY FS_EmptySet DEF ToSet
<1> QED
  BY <1>1, CallGraphAssumption DEF Init, NoFiles, Types, GraphTypeOK, ReportTypes

\* One look-up: the walks it finds are one step longer than the walk it extends.
LEMMA LookUpTypes ==
  ASSUME Types, LookUp
  PROVE  /\ open' \in Seq(Seq(Node)) /\ walks' \subseteq Seq(Node)
         /\ \A w \in walks' : Len(w) <= MaxDepth + 1
         /\ ToSet(open') \subseteq walks' \cup {<<target>>}
<1> DEFINE w == Head(open)
           ns == Neighbours(dir, Last(w).name)
           found == IF Expands(w) THEN Extended(w, ns) ELSE {}
<1>1. /\ open \in Seq(Seq(Node)) /\ open # <<>> /\ IsFiniteSet(nodes) /\ nodes \subseteq Node
      /\ target \in Node /\ walks \subseteq Seq(Node)
      /\ \A u \in walks : Len(u) <= MaxDepth + 1
      /\ ToSet(open) \subseteq walks \cup {<<target>>} /\ MaxDepth \in Nat
  BY CallGraphAssumption DEF Types, GraphTypeOK, ReportTypes, LookUp
<1>2. /\ w \in Seq(Node) /\ Tail(open) \in Seq(Seq(Node))
      /\ ToSet(Tail(open)) \subseteq ToSet(open)
  <2>1. /\ Head(open) \in Seq(Node) /\ Tail(open) \in Seq(Seq(Node))
        /\ Len(Tail(open)) = Len(open) - 1
        /\ \A i \in 1 .. Len(Tail(open)) : Tail(open)[i] = open[i + 1]
    BY <1>1, HeadTailProperties
  <2>2. DOMAIN Tail(open) = 1 .. Len(Tail(open)) /\ DOMAIN open = 1 .. Len(open)
        /\ Len(open) \in Nat
    BY <1>1, <2>1, LenProperties
  <2>3. \A i \in 1 .. Len(open) - 1 : i + 1 \in 1 .. Len(open)
    BY <2>2
  <2> QED
    BY <2>1, <2>2, <2>3 DEF ToSet
<1>3. /\ IsFiniteSet(found) /\ found \subseteq Seq(Node)
      /\ \A u \in found : Len(u) <= MaxDepth + 1
  <2>1. ns \subseteq nodes
    BY DEF Neighbours, GetCallees, GetCallers
  <2>2. ns \subseteq Node /\ IsFiniteSet(ns)
    BY <1>1, <2>1, FS_Subset
  <2>3. CASE Expands(w)
    <3>1. /\ IsFiniteSet(Extended(w, ns)) /\ Extended(w, ns) \subseteq Seq(Node)
          /\ \A u \in Extended(w, ns) : Len(u) = Len(w) + 1
      BY <1>2, <2>2, ExtendedIsFinite
    <3>2. Len(w) <= MaxDepth /\ Len(w) \in Nat
      BY <1>2, <2>3 DEF Expands
    <3> HIDE DEF w, ns
    <3> QED
      BY <1>1, <2>3, <3>1, <3>2
  <2>4. CASE ~ Expands(w)
    BY <2>4, FS_EmptySet
  <2> QED
    BY <2>3, <2>4
<1>4. \/ open' = SetToSeq(found) \o Tail(open) /\ walks' = walks \cup found
      \/ open' = Tail(open) /\ walks' = walks
  BY DEF LookUp
<1> HIDE DEF w, found
<1>5. CASE open' = SetToSeq(found) \o Tail(open) /\ walks' = walks \cup found
  <2>1. SetToSeq(found) \in Seq(Seq(Node)) /\ ToSet(SetToSeq(found)) \subseteq found
    BY <1>3, SetToSeqType
  <2>2. open' \in Seq(Seq(Node))
    BY <1>2, <1>5, <2>1, ConcatProperties
  <2>3. ToSet(open') \subseteq ToSet(SetToSeq(found)) \cup ToSet(Tail(open))
    <3> DEFINE s == SetToSeq(found)
               t == Tail(open)
    <3>1. /\ s \in Seq(Seq(Node)) /\ t \in Seq(Seq(Node))
          /\ s \o t \in Seq(Seq(Node)) /\ Len(s \o t) = Len(s) + Len(t)
          /\ \A i \in 1 .. Len(s) + Len(t) :
               (s \o t)[i] = IF i <= Len(s) THEN s[i] ELSE t[i - Len(s)]
      BY <1>2, <2>1, ConcatProperties
    <3> HIDE DEF s, t
    <3>2. /\ DOMAIN s = 1 .. Len(s) /\ DOMAIN t = 1 .. Len(t) /\ Len(s) \in Nat /\ Len(t) \in Nat
          /\ DOMAIN (s \o t) = 1 .. Len(s \o t)
      BY <3>1, LenProperties
    <3>3. ASSUME NEW i \in 1 .. Len(s) + Len(t) PROVE (s \o t)[i] \in ToSet(s) \cup ToSet(t)
      <4>1. CASE i <= Len(s)
        <5>1. (s \o t)[i] = s[i] /\ i \in 1 .. Len(s)
          BY <3>1, <3>2, <4>1
        <5>2. s[i] \in ToSet(s)
          BY ONLY <3>2, <5>1 DEF ToSet
        <5> QED
          BY <5>1, <5>2
      <4>2. CASE ~ i <= Len(s)
        <5>1. i - Len(s) \in 1 .. Len(t)
          BY <3>2, <4>2
        <5>2. (s \o t)[i] = t[i - Len(s)]
          BY <3>1, <4>2
        <5>3. t[i - Len(s)] \in ToSet(t)
          BY ONLY <3>2, <5>1 DEF ToSet
        <5> QED
          BY <5>2, <5>3
      <4> QED
        BY <4>1, <4>2
    <3> QED
      BY <1>5, <3>1, <3>2, <3>3 DEF ToSet, s, t
  <2> QED
    BY <1>1, <1>2, <1>3, <1>5, <2>1, <2>2, <2>3
<1>6. CASE open' = Tail(open) /\ walks' = walks
  BY <1>1, <1>2, <1>6
<1> QED
  BY <1>4, <1>5, <1>6

\* A step of a report, or an edit, leaves the update's part of the types alone.
UpdateTypes ==
  /\ files \in [File -> Version \cup {Absent}]
  /\ trees \in [File -> Hash \cup {Absent}]
  /\ tree \in [File -> Hash \cup {Absent}]
  /\ nodes \subseteq Node /\ IsFiniteSet(nodes) /\ edges \subseteq Name \X Name
  /\ pc \in {"idle", "purge", "sync", "savetree"}
  /\ left \subseteq File /\ unsynced \subseteq File \X Hash
  /\ runs \in 0 .. MaxRuns /\ edits \in 0 .. MaxEdits
  /\ faults \in 0 .. MaxFaults
  /\ pc = "sync" => \A f \in left : tree[f] # Absent

WalkTypes ==
  /\ reports \in 0 .. MaxReports
  /\ rpc \in {"idle", "walk", "done"} /\ dir \in {"caller", "callee"}
  /\ target \in Node \cup {NoNode}
  /\ walks \subseteq Seq(Node) /\ \A w \in walks : Len(w) <= MaxDepth + 1
  /\ ToSet(open) \subseteq walks \cup {<<target>>}
  /\ open \in Seq(Seq(Node))
  /\ rpc = "walk" => target \in Node
  /\ rpc # "walk" => open = <<>>
  /\ stable \in BOOLEAN

LEMMA TypesSplit == Types <=> UpdateTypes /\ WalkTypes
  BY DEF Types, GraphTypeOK, ReportTypes, UpdateTypes, WalkTypes

LEMMA StepCountsFaults ==
  ASSUME faults \in 0 .. MaxFaults, Succeed \/ Fail
  PROVE  faults' \in 0 .. MaxFaults
  BY CallGraphAssumption DEF Succeed, Fail

LEMMA NextUpdateTypes ==
  ASSUME Types, [Next]_vars
  PROVE  UpdateTypes'
<1>1. UpdateTypes /\ faults \in 0 .. MaxFaults /\ RowsAreNodes
  BY TypesSplit DEF UpdateTypes, RowsAreNodes
<1>2. /\ \A v \in Version : HashOf[v] \in Hash /\ Calls[v] \subseteq Name \X Name
      /\ Absent \notin Version /\ Absent \notin Hash /\ Parses \subseteq Version
      /\ MaxRuns \in Nat /\ MaxEdits \in Nat /\ MaxFaults \in Nat
  BY CallGraphAssumption
<1>3. CASE LookUp \/ EndReport \/ Answer \/ UNCHANGED vars
           \/ \E name \in Name, d \in {"caller", "callee"} : StartReport(name, d)
  <2>1. UNCHANGED <<files, graphVars, updateVars, runs, edits>> /\ (Succeed \/ Fail)
    BY <1>3 DEF LookUp, EndReport, Answer, StartReport, vars, Succeed
  <2> QED
    BY <1>1, <2>1, StepCountsFaults DEF UpdateTypes, graphVars, updateVars
<1>4. ASSUME NEW f \in File, NEW v \in Version \cup {Absent}, Edit(f, v) PROVE UpdateTypes'
  BY <1>1, <1>2, <1>4 DEF Edit, UpdateTypes, graphVars, updateVars
<1>5. CASE Scan
  <2>1. UNCHANGED <<graphVars, unsynced, edits, files>> /\ (Succeed \/ Fail)
        /\ runs' \in 0 .. MaxRuns
    BY <1>1, <1>2, <1>5 DEF Scan, UpdateTypes
  <2>2. tree' \in [File -> Hash \cup {Absent}]
    <3>1. ASSUME NEW f \in File
          PROVE  (IF files[f] = Absent THEN Absent ELSE HashOf[files[f]]) \in Hash \cup {Absent}
      BY <1>1, <1>2 DEF UpdateTypes
    <3> QED
      BY <1>5, <3>1 DEF Scan
  <2>3. trees' \in [File -> Hash \cup {Absent}]
    BY <1>1, <1>5 DEF Scan, UpdateTypes, NoFiles
  <2>4. pc' \in {"idle", "purge"} /\ left' \subseteq File
    BY <1>1, <1>5 DEF Scan, UpdateTypes
  <2> QED
    BY <1>1, <2>1, <2>2, <2>3, <2>4, StepCountsFaults DEF UpdateTypes, graphVars
<1>6. ASSUME NEW f \in File, DeleteCallGraph(f) PROVE UpdateTypes'
  <2>1. UNCHANGED <<nodes, edges, trees, pc, tree, unsynced>> /\ pc = "purge"
    BY <1>1, <1>6, DeletingDeletesNothing DEF DeleteCallGraph, graphVars
  <2>2. UNCHANGED <<files, runs, edits>> /\ left' = left \ {f} /\ (Succeed \/ Fail)
    BY <1>6 DEF DeleteCallGraph
  <2> QED
    BY <1>1, <2>1, <2>2, StepCountsFaults DEF UpdateTypes
<1>7. CASE Prepare
  <2>1. UNCHANGED <<files, graphVars, trees, tree, runs, edits>> /\ (Succeed \/ Fail)
    BY <1>7 DEF Prepare
  <2>2. \/ pc' = "sync" /\ left' = ToProcess /\ unsynced' = unsynced
        \/ /\ pc' = "savetree" /\ left' = left
           /\ unsynced' = unsynced \cup {Entry(f) : f \in ToProcess}
    BY <1>7 DEF Prepare
  <2>3. ToProcess \subseteq File /\ \A f \in ToProcess : tree[f] # Absent /\ tree[f] \in Hash
    BY <1>1 DEF ToProcess, Changed, UpdateTypes
  <2>4. {Entry(f) : f \in ToProcess} \subseteq File \X Hash
    BY <2>3 DEF Entry
  <2> QED
    BY <1>1, <2>1, <2>2, <2>3, <2>4, StepCountsFaults DEF UpdateTypes, graphVars
<1>8. ASSUME NEW f \in File, SaveCallGraph(f) PROVE UpdateTypes'
  <2>1. /\ UNCHANGED <<trees, pc, tree>> /\ left' = left \ {f} /\ pc = "sync"
        /\ \/ /\ files[f] \in Version
              /\ nodes' = nodes \cup NodesOf(f, files[f])
              /\ edges' = edges \cup Calls[files[f]]
              /\ \/ HashOf[files[f]] = tree[f] /\ unsynced' = unsynced \ {Entry(f)}
                 \/ unsynced' = unsynced \cup {Entry(f)}
           \/ /\ UNCHANGED graphVars
              /\ unsynced' = unsynced \cup {Entry(f)}
    BY <1>1, <1>8, SavingAdds
  <2>2. UNCHANGED <<files, runs, edits>> /\ (Succeed \/ Fail) /\ f \in left
    BY <1>8 DEF SaveCallGraph
  <2>3. nodes' \subseteq Node /\ IsFiniteSet(nodes') /\ edges' \subseteq Name \X Name
    <3>1. CASE UNCHANGED graphVars
      BY <1>1, <3>1 DEF UpdateTypes, graphVars
    <3>2. CASE /\ files[f] \in Version
               /\ nodes' = nodes \cup NodesOf(f, files[f])
               /\ edges' = edges \cup Calls[files[f]]
      BY <1>1, <1>2, <3>2, NodesOfIsFinite, FS_Union DEF UpdateTypes
    <3> QED
      BY <2>1, <3>1, <3>2
  <2>4. unsynced' \subseteq File \X Hash
    <3>1. tree[f] \in Hash
      BY <1>1, <2>1, <2>2 DEF UpdateTypes
    <3>2. unsynced' \subseteq unsynced \cup {Entry(f)}
      BY <2>1
    <3> QED
      BY <1>1, <3>1, <3>2 DEF UpdateTypes, Entry
  <2> QED
    BY <1>1, <2>1, <2>2, <2>3, <2>4, StepCountsFaults DEF UpdateTypes
<1>9. CASE SyncEnds
  BY <1>1, <1>9 DEF SyncEnds, UpdateTypes, graphVars
<1>10. CASE SaveTree
  <2>1. /\ UNCHANGED <<files, graphVars, tree, left, unsynced, runs, edits>>
        /\ (Succeed \/ Fail) /\ pc' = "idle" /\ (trees' = tree \/ trees' = trees)
    BY <1>10 DEF SaveTree
  <2> QED
    BY <1>1, <2>1, StepCountsFaults DEF UpdateTypes, graphVars
<1> QED
  BY <1>3, <1>4, <1>5, <1>6, <1>7, <1>8, <1>9, <1>10 DEF Next, Update, Report

LEMMA NextWalkTypes ==
  ASSUME Types, [Next]_vars
  PROVE  WalkTypes'
<1>1. WalkTypes
  BY TypesSplit
<1>2. CASE UNCHANGED <<reports, reportVars>> /\ stable' \in BOOLEAN
  BY <1>1, <1>2 DEF WalkTypes, reportVars
<1>3. CASE LookUp
  <2>1. UNCHANGED <<reports, rpc, dir, target>> /\ rpc = "walk" /\ stable' \in BOOLEAN
    BY <1>1, <1>3 DEF LookUp, WalkTypes
  <2> QED
    BY <1>1, <1>3, <2>1, LookUpTypes DEF WalkTypes
<1>4. CASE EndReport
  BY <1>1, <1>4 DEF EndReport, WalkTypes
<1>5. CASE Answer
  <2>1. open = <<>> /\ ToSet(<<>>) = {}
    BY <1>1, <1>5 DEF Answer, WalkTypes, ToSet
  <2> QED
    BY <1>1, <1>5, <2>1 DEF Answer, WalkTypes
<1>6. ASSUME NEW name \in Name, NEW d \in {"caller", "callee"}, StartReport(name, d)
      PROVE  WalkTypes'
  <2>1. PICK n \in nodes : target' = n /\ open' = <<<<n>>>>
    BY <1>6 DEF StartReport
  <2>2. n \in Node
    BY DEF Types, GraphTypeOK
  <2>3. <<n>> \in Seq(Node)
    BY <2>2
  <2>4. <<<<n>>>> \in Seq(Seq(Node)) /\ ToSet(<<<<n>>>>) = {<<n>>}
    BY <2>3 DEF ToSet
  <2>5. reports' \in 0 .. MaxReports
    BY <1>1, <1>6, CallGraphAssumption DEF StartReport, WalkTypes
  <2>6. rpc' = "walk" /\ dir' = d /\ walks' = {} /\ stable' = TRUE
    BY <1>6 DEF StartReport
  <2> QED
    BY <2>1, <2>2, <2>4, <2>5, <2>6 DEF WalkTypes
<1>7. ASSUME NEW f \in File, DeleteCallGraph(f) \/ SaveCallGraph(f) PROVE WalkTypes'
  <2>1. UNCHANGED <<reports, reportVars>> /\ Note
    BY <1>7 DEF DeleteCallGraph, SaveCallGraph
  <2> QED
    BY <1>2, <2>1 DEF Note
<1>8. CASE Scan \/ Prepare \/ SyncEnds \/ SaveTree \/ UNCHANGED vars
  <2>1. UNCHANGED <<reports, reportVars, stable>>
    BY <1>8 DEF Scan, Prepare, SyncEnds, SaveTree, vars
  <2> QED
    BY <1>1, <1>2, <2>1 DEF WalkTypes
<1>9. ASSUME NEW f \in File, NEW v \in Version \cup {Absent}, Edit(f, v) PROVE WalkTypes'
  BY <1>1, <1>2, <1>9 DEF Edit, WalkTypes
<1> QED
  BY <1>3, <1>4, <1>5, <1>6, <1>7, <1>8, <1>9 DEF Next, Update, Report

LEMMA TypesInvariant == Spec => []Types
<1>1. Types /\ [Next]_vars => Types'
  <2>1. SUFFICES ASSUME Types, [Next]_vars PROVE Types'
    OBVIOUS
  <2>2. UpdateTypes' /\ WalkTypes'
    BY <2>1, NextUpdateTypes, NextWalkTypes
  <2> QED
    BY <2>2 DEF Types, GraphTypeOK, ReportTypes, UpdateTypes, WalkTypes
<1> QED
  BY <1>1, InitTypes, PTL DEF Spec

\* The tables and the history of the updates have their types, and a tree report never holds
\* a walk longer than the depth limit allows (search_call_graph, callgraph.go 163-240).
THEOREM GraphTypesHold == Spec => []GraphTypeOK
<1>1. Types => GraphTypeOK
  BY DEF Types
<1> QED
  BY <1>1, TypesInvariant, PTL

-----------------------------------------------------------------------------
(***************************************************************************)
(* What a report lists.  As long as nobody writes to the tables, every     *)
(* walk listed is one to list, and every walk that has left open has had   *)
(* its continuations listed, so that none is missing when open is empty.   *)
(***************************************************************************)
\* Induction, as the least counterexample.
LEMMA NatInd ==
  ASSUME NEW S, 0 \in S, \A n \in Nat : n \in S => n + 1 \in S
  PROVE  Nat \subseteq S
<1> DEFINE T == Nat \ S
           R == OpToRel(<, Nat)
<1>1. SUFFICES ASSUME T # {} PROVE FALSE
  BY Zenon
<1>2. IsWellFoundedOn(R, Nat)
  BY Zenon, NatLessThanWellFounded
<1>3. T \subseteq Nat
  BY Zenon
<1>4. PICK x \in T : \A y \in T : ~ (<<y, x>> \in R)
  <2> HIDE DEF R, T
  <2> QED
    BY <1>1, <1>2, <1>3, WFMin
<1>5. \A y \in T : ~ (y < x)
  <2>1. \A a, b \in Nat : a < b => <<a, b>> \in R
    BY Zenon DEF OpToRel
  <2> QED
    BY Zenon, <1>3, <1>4, <2>1
<1> HIDE DEF R
<1> QED
  BY <1>5

LEMMA SetToSeqIsOnto ==
  ASSUME NEW S, IsFiniteSet(S)
  PROVE  SetToSeq(S) \in Seq(S) /\ ToSet(SetToSeq(S)) = S
<1> DEFINE n == Cardinality(S)
           s == SetToSeq(S)
<1>1. n \in Nat /\ ExistsBijection(1 .. n, S)
  BY FS_CardinalityType
<1>2. \E f \in [1 .. n -> S] : IsInjective(f)
  BY <1>1 DEF ExistsBijection, Bijection, Injection
<1>3. s \in [1 .. n -> S] /\ IsInjective(s)
  BY <1>2 DEF SetToSeq
<1>4. s \in Injection(1 .. n, S)
  BY <1>3 DEF Injection
<1>5. Cardinality(1 .. n) = n
  BY <1>1, FS_Interval
<1> HIDE DEF s, n
<1>6. s \in Surjection(1 .. n, S)
  BY <1>4, <1>5, FS_Injection DEF n
<1>7. \A x \in S : \E k \in 1 .. n : s[k] = x
  BY <1>6 DEF Surjection
<1> QED
  BY <1>1, <1>3, <1>7 DEF s, ToSet

LEMMA ToSetOf ==
  ASSUME NEW T
  PROVE  /\ \A s, t \in Seq(T) : ToSet(s \o t) = ToSet(s) \cup ToSet(t)
         /\ \A s \in Seq(T) : s # <<>> => ToSet(s) = {Head(s)} \cup ToSet(Tail(s))
<1>1. ASSUME NEW s \in Seq(T), NEW t \in Seq(T)
      PROVE  ToSet(s \o t) = ToSet(s) \cup ToSet(t)
  <2>1. /\ s \o t \in Seq(T) /\ Len(s \o t) = Len(s) + Len(t)
        /\ \A i \in 1 .. Len(s) + Len(t) : (s \o t)[i] = IF i <= Len(s) THEN s[i] ELSE t[i - Len(s)]
    BY ConcatProperties
  <2>2. /\ DOMAIN s = 1 .. Len(s) /\ DOMAIN t = 1 .. Len(t) /\ Len(s) \in Nat /\ Len(t) \in Nat
        /\ DOMAIN (s \o t) = 1 .. Len(s) + Len(t)
    BY <2>1, LenProperties
  <2>3. ASSUME NEW i \in DOMAIN (s \o t) PROVE (s \o t)[i] \in ToSet(s) \cup ToSet(t)
    <3>1. CASE i <= Len(s)
      <4>1. i \in DOMAIN s /\ (s \o t)[i] = s[i]
        BY <2>1, <2>2, <3>1
      <4> QED
        BY <4>1 DEF ToSet
    <3>2. CASE ~ i <= Len(s)
      <4>1. i - Len(s) \in DOMAIN t /\ (s \o t)[i] = t[i - Len(s)]
        BY <2>1, <2>2, <3>2
      <4> QED
        BY <4>1 DEF ToSet
    <3> QED
      BY <3>1, <3>2
  <2>4. ASSUME NEW i \in DOMAIN s PROVE s[i] \in ToSet(s \o t)
    <3>1. i \in DOMAIN (s \o t) /\ (s \o t)[i] = s[i]
      BY <2>1, <2>2
    <3> QED
      BY <3>1 DEF ToSet
  <2>5. ASSUME NEW i \in DOMAIN t PROVE t[i] \in ToSet(s \o t)
    <3>1. i + Len(s) \in DOMAIN (s \o t) /\ ~ (i + Len(s) <= Len(s)) /\ (i + Len(s)) - Len(s) = i
      BY <2>2
    <3>2. (s \o t)[i + Len(s)] = t[i]
      BY <2>1, <2>2, <3>1
    <3> QED
      BY <3>1, <3>2 DEF ToSet
  <2> QED
    BY <2>3, <2>4, <2>5 DEF ToSet
<1>2. ASSUME NEW s \in Seq(T), s # <<>> PROVE ToSet(s) = {Head(s)} \cup ToSet(Tail(s))
  <2>1. /\ Tail(s) \in Seq(T) /\ Len(Tail(s)) = Len(s) - 1 /\ Head(s) = s[1]
        /\ \A i \in 1 .. Len(s) - 1 : Tail(s)[i] = s[i + 1]
        /\ Len(s) \in Nat /\ Len(s) >= 1
    BY <1>2
  <2>2. DOMAIN s = 1 .. Len(s) /\ DOMAIN Tail(s) = 1 .. Len(s) - 1
    BY <2>1, LenProperties
  <2>3. ASSUME NEW i \in DOMAIN s PROVE s[i] \in {Head(s)} \cup ToSet(Tail(s))
    <3>1. CASE i = 1
      BY <2>1, <3>1
    <3>2. CASE i # 1
      <4>1. i - 1 \in DOMAIN Tail(s) /\ Tail(s)[i - 1] = s[i]
        BY <2>1, <2>2, <3>2
      <4> QED
        BY <4>1 DEF ToSet
    <3> QED
      BY <3>1, <3>2
  <2>4. ASSUME NEW i \in DOMAIN Tail(s) PROVE Tail(s)[i] \in ToSet(s)
    <3>1. i + 1 \in DOMAIN s /\ Tail(s)[i] = s[i + 1]
      BY <2>1, <2>2
    <3> QED
      BY <3>1 DEF ToSet
  <2>5. Head(s) \in ToSet(s)
    <3>1. 1 \in DOMAIN s /\ Head(s) = s[1]
      BY <2>1, <2>2
    <3> QED
      BY <3>1 DEF ToSet
  <2> QED
    BY <2>3, <2>4, <2>5 DEF ToSet
<1> QED
  BY <1>1, <1>2

\* A walk from the target that follows an edge at each step, meeting no name twice before
\* its last node.
Follows(w) ==
  /\ w \in Seq(nodes) /\ Len(w) >= 1 /\ Len(w) <= MaxDepth + 1 /\ w[1] = target
  /\ \A k \in 1 .. Len(w) - 1 :
       /\ w[k + 1] \in Neighbours(dir, w[k].name)
       /\ \A j \in 1 .. k - 1 : w[j].name # w[k].name

LookedUp(w) == Expands(w) => Extended(w, Neighbours(dir, Last(w).name)) \subseteq walks

ReportSoFar ==
  stable /\ rpc # "idle" =>
    /\ target \in nodes
    /\ \A w \in walks : Follows(w) /\ Len(w) >= 2
    /\ \A w \in walks \cup {<<target>>} : w \in ToSet(open) \/ LookedUp(w)

LEMMA InitReport == Init => ReportSoFar
  BY DEF Init, ReportSoFar

LEMMA ReportStays ==
  ASSUME ReportSoFar, UNCHANGED <<graphVars, dir, target, open, walks>>,
         stable' /\ rpc' # "idle" => stable /\ rpc # "idle"
  PROVE  ReportSoFar'
<1>1. SUFFICES ASSUME stable', rpc' # "idle" PROVE ReportSoFar'
  BY DEF ReportSoFar
<1>2. stable /\ rpc # "idle"
  BY <1>1
<1>3. ASSUME NEW d, NEW s PROVE Neighbours(d, s)' = Neighbours(d, s)
  BY DEF Neighbours, GetCallees, GetCallers, graphVars
<1>4. ASSUME NEW w, Follows(w) PROVE Follows(w)'
  BY <1>4 DEF Follows, Neighbours, GetCallees, GetCallers, graphVars
<1>5. ASSUME NEW w, LookedUp(w) PROVE LookedUp(w)'
  BY <1>5 DEF LookedUp, Neighbours, GetCallees, GetCallers, graphVars
<1> QED
  BY <1>2, <1>4, <1>5 DEF ReportSoFar, graphVars

LEMMA LastOf ==
  ASSUME NEW w \in Seq(Node), Len(w) >= 1
  PROVE  Last(w) = w[Len(w)] /\ (Repeats(w) <=> \E j \in 1 .. Len(w) - 1 : w[j].name = w[Len(w)].name)
  BY DEF Last, Repeats

LEMMA LookUpFollows ==
  ASSUME MaxDepth \in Nat, nodes \subseteq Node,
         NEW w, Follows(w), Expands(w), NEW n \in Neighbours(dir, Last(w).name)
  PROVE  Follows(Append(w, n)) /\ Len(Append(w, n)) >= 2
<1> DEFINE u == Append(w, n)
<1>1. n \in nodes
  BY DEF Neighbours, GetCallees, GetCallers
<1>2. w \in Seq(nodes) /\ Len(w) \in Nat /\ Len(w) >= 1 /\ Len(w) <= MaxDepth /\ ~ Repeats(w)
  BY DEF Follows, Expands
<1>3. w \in Seq(Node)
  BY <1>2
<1>4. /\ u \in Seq(nodes) /\ Len(u) = Len(w) + 1 /\ u[Len(w) + 1] = n
      /\ \A k \in 1 .. Len(w) : u[k] = w[k]
  BY <1>1, <1>2
<1>5. Last(w) = w[Len(w)] /\ \A j \in 1 .. Len(w) - 1 : w[j].name # w[Len(w)].name
  BY <1>2, <1>3, LastOf
<1> HIDE DEF u
<1>6. ASSUME NEW k \in 1 .. Len(u) - 1
      PROVE  /\ u[k + 1] \in Neighbours(dir, u[k].name)
             /\ \A j \in 1 .. k - 1 : u[j].name # u[k].name
  <2>1. CASE k = Len(w)
    <3>1. u[k + 1] = n /\ u[k] = w[Len(w)] /\ \A j \in 1 .. k - 1 : u[j] = w[j]
      BY <1>2, <1>4, <2>1
    <3> QED
      BY <1>5, <2>1, <3>1
  <2>2. CASE k # Len(w)
    <3>1. k \in 1 .. Len(w) - 1
      BY <1>2, <1>4, <2>2
    <3>2. u[k + 1] = w[k + 1] /\ u[k] = w[k] /\ \A j \in 1 .. k - 1 : u[j] = w[j]
      BY <1>2, <1>4, <3>1
    <3>3. /\ w[k + 1] \in Neighbours(dir, w[k].name)
          /\ \A j \in 1 .. k - 1 : w[j].name # w[k].name
      BY <3>1 DEF Follows
    <3> QED
      BY <3>2, <3>3
  <2> QED
    BY <2>1, <2>2
<1>7. u[1] = target
  BY <1>2, <1>4 DEF Follows
<1>8. Len(u) >= 2 /\ Len(u) >= 1 /\ Len(u) <= MaxDepth + 1
  BY <1>2, <1>4
<1>9. Follows(u)
  BY <1>4, <1>6, <1>7, <1>8 DEF Follows
<1> QED
  BY <1>8, <1>9 DEF u

LEMMA LookUpReport ==
  ASSUME Types, ReportSoFar, LookUp
  PROVE  ReportSoFar'
<1>1. SUFFICES ASSUME stable' PROVE ReportSoFar'
  BY DEF ReportSoFar
<1>2. PICK w : w = Head(open)
  OBVIOUS
<1>3. PICK ns : ns = Neighbours(dir, Last(w).name)
  OBVIOUS
<1>4. PICK found : found = IF Expands(w) THEN Extended(w, ns) ELSE {}
  OBVIOUS
<1>5. /\ stable /\ rpc = "walk" /\ rpc' = rpc /\ open # <<>>
      /\ open' = SetToSeq(found) \o Tail(open) /\ walks' = walks \cup found
      /\ UNCHANGED <<nodes, edges, dir, target>>
  BY <1>1, <1>2, <1>3, <1>4 DEF LookUp, graphVars
<1>6. /\ open \in Seq(Seq(Node)) /\ IsFiniteSet(nodes) /\ nodes \subseteq Node
      /\ ToSet(open) \subseteq walks \cup {<<target>>} /\ MaxDepth \in Nat \ {0}
  BY CallGraphAssumption DEF Types, GraphTypeOK, ReportTypes
<1>7. /\ target \in nodes
      /\ \A u \in walks : Follows(u) /\ Len(u) >= 2
      /\ \A u \in walks \cup {<<target>>} : u \in ToSet(open) \/ LookedUp(u)
  BY <1>5 DEF ReportSoFar
<1>8. w \in Seq(Node) /\ Tail(open) \in Seq(Seq(Node)) /\ ToSet(open) = {w} \cup ToSet(Tail(open))
  BY <1>5, <1>6, <1>2, ToSetOf, HeadTailProperties
<1>9. Follows(w)
  <2>1. CASE w \in walks
    BY <1>7, <2>1
  <2>2. CASE w = <<target>>
    <3>1. <<target>> \in Seq(nodes) /\ Len(<<target>>) = 1 /\ <<target>>[1] = target
      BY <1>7
    <3>2. 1 .. Len(<<target>>) - 1 = {} /\ 1 <= MaxDepth + 1
      BY <1>6, <3>1
    <3>3. Follows(<<target>>)
      BY <3>1, <3>2 DEF Follows
    <3> QED
      BY <2>2, <3>3
  <2> QED
    BY <1>6, <1>8, <2>1, <2>2
<1>10. ns \subseteq nodes
  BY <1>3 DEF Neighbours, GetCallees, GetCallers
<1>11. IsFiniteSet(found) /\ found \subseteq Seq(Node)
  <2>1. ns \subseteq Node /\ IsFiniteSet(ns)
    BY <1>6, <1>10, FS_Subset
  <2>2. IsFiniteSet(Extended(w, ns)) /\ Extended(w, ns) \subseteq Seq(Node)
    BY <1>8, <2>1, ExtendedIsFinite
  <2> QED
    BY <1>4, <2>2, FS_EmptySet
<1>12. \A u \in found : Follows(u) /\ Len(u) >= 2
  <2>1. SUFFICES ASSUME Expands(w), NEW n \in ns PROVE Follows(Append(w, n)) /\ Len(Append(w, n)) >= 2
    BY <1>4 DEF Extended
  <2> QED
    BY <1>6, <1>9, <1>3, <2>1, LookUpFollows
<1>13. ToSet(SetToSeq(found)) = found /\ SetToSeq(found) \in Seq(Seq(Node))
  BY <1>11, SetToSeqIsOnto, SetToSeqType
<1>14. ToSet(open') = found \cup ToSet(Tail(open))
  <2>1. ToSet(SetToSeq(found) \o Tail(open)) = ToSet(SetToSeq(found)) \cup ToSet(Tail(open))
    <3> DEFINE s == SetToSeq(found)
               t == Tail(open)
    <3>1. s \in Seq(Seq(Node)) /\ t \in Seq(Seq(Node))
      BY <1>8, <1>13
    <3> HIDE DEF s, t
    <3>2. ToSet(s \o t) = ToSet(s) \cup ToSet(t)
      BY ONLY <3>1, ToSetOf
    <3> QED
      BY <3>2 DEF s, t
  <2> QED
    BY <1>5, <1>13, <2>1
<1>15. ASSUME NEW u, Follows(u) PROVE Follows(u)'
  BY <1>5, <1>15 DEF Follows, Neighbours, GetCallees, GetCallers
<1>16. ASSUME NEW u, LookedUp(u) PROVE LookedUp(u)'
  BY <1>5, <1>16 DEF LookedUp, Neighbours, GetCallees, GetCallers
<1>17. LookedUp(w)'
  <2>1. Expands(w) => Extended(w, ns) \subseteq walks'
    BY <1>5, <1>4
  <2>2. Neighbours(dir, Last(w).name)' = ns
    BY <1>5, <1>3 DEF Neighbours, GetCallees, GetCallers
  <2> QED
    BY <2>1, <2>2 DEF LookedUp
<1>18. \A u \in walks' : Follows(u)' /\ Len(u) >= 2
  BY <1>5, <1>7, <1>12, <1>15
<1>19. \A u \in walks' \cup {<<target>>} : u \in ToSet(open') \/ LookedUp(u)'
  BY <1>5, <1>7, <1>8, <1>14, <1>16, <1>17
<1> QED
  BY <1>5, <1>7, <1>18, <1>19 DEF ReportSoFar

LEMMA NextReport ==
  ASSUME Types, ReportSoFar, [Next]_vars
  PROVE  ReportSoFar'
<1>1. CASE LookUp
  BY <1>1, LookUpReport
<1>2. CASE EndReport
  BY <1>2, ReportStays DEF EndReport, graphVars
<1>3. CASE Answer
  BY <1>3 DEF Answer, ReportSoFar
<1>4. ASSUME NEW name \in Name, NEW d \in {"caller", "callee"}, StartReport(name, d)
      PROVE  ReportSoFar'
  <2>1. PICK n \in nodes : target' = n /\ open' = <<<<n>>>>
    BY <1>4 DEF StartReport
  <2>2. walks' = {} /\ nodes' = nodes
    BY <1>4 DEF StartReport, graphVars
  <2>3. <<n>> \in ToSet(<<<<n>>>>)
    BY DEF ToSet
  <2> QED
    BY <2>1, <2>2, <2>3 DEF ReportSoFar
<1>5. ASSUME NEW f \in File, DeleteCallGraph(f) \/ SaveCallGraph(f) PROVE ReportSoFar'
  <2>1. UNCHANGED reportVars /\ Note
    BY <1>5 DEF DeleteCallGraph, SaveCallGraph
  <2>2. CASE UNCHANGED graphVars
    BY <2>1, <2>2, ReportStays DEF Note, reportVars
  <2>3. CASE ~ UNCHANGED graphVars
    BY <2>1, <2>3 DEF Note, ReportSoFar
  <2> QED
    BY <2>2, <2>3
<1>6. CASE Scan \/ Prepare \/ SyncEnds \/ SaveTree \/ UNCHANGED vars
  <2>1. UNCHANGED <<graphVars, reportVars, stable>>
    BY <1>6 DEF Scan, Prepare, SyncEnds, SaveTree, vars
  <2> QED
    BY <2>1, ReportStays DEF reportVars
<1>7. ASSUME NEW f \in File, NEW v \in Version \cup {Absent}, Edit(f, v) PROVE ReportSoFar'
  BY <1>7, ReportStays DEF Edit, reportVars
<1> QED
  BY <1>1, <1>2, <1>3, <1>4, <1>5, <1>6, <1>7 DEF Next, Update, Report

\* A finished report: nothing is left open, so the walks listed are closed under following
\* an edge, and by induction on its length every walk to list is among them.
LEMMA ClosedReportIsExact ==
  ASSUME Types, ReportSoFar, rpc = "done", stable
  PROVE  walks = WalksFrom(target, dir)
<1>1. /\ open = <<>> /\ ToSet(<<>>) = {} /\ nodes \subseteq Node /\ MaxDepth \in Nat \ {0}
  BY CallGraphAssumption DEF Types, GraphTypeOK, ReportTypes, ToSet
<1>2. /\ target \in nodes
      /\ \A u \in walks : Follows(u) /\ Len(u) >= 2
      /\ \A u \in walks \cup {<<target>>} : LookedUp(u)
  BY <1>1 DEF ReportSoFar
<1>3. ASSUME NEW w \in Seq(Node), NEW k \in 1 .. Len(w)
      PROVE  /\ SubSeq(w, 1, k) \in Seq(Node) /\ Len(SubSeq(w, 1, k)) = k
             /\ \A i \in 1 .. k : SubSeq(w, 1, k)[i] = w[i]
             /\ Last(SubSeq(w, 1, k)) = w[k]
             /\ Repeats(SubSeq(w, 1, k)) <=> \E j \in 1 .. k - 1 : w[j].name = w[k].name
  <2>1. /\ SubSeq(w, 1, k) \in Seq(Node) /\ Len(SubSeq(w, 1, k)) = k
        /\ \A i \in 1 .. k : SubSeq(w, 1, k)[i] = w[i]
    BY SubSeqProperties
  <2>2. k \in Nat /\ k >= 1
    OBVIOUS
  <2>3. k \in 1 .. k /\ \A j \in 1 .. k - 1 : j \in 1 .. k
    BY <2>2
  <2> DEFINE p == SubSeq(w, 1, k)
  <2> HIDE DEF p
  <2>4. p \in Seq(Node) /\ Len(p) = k /\ \A i \in 1 .. k : p[i] = w[i]
    BY <2>1 DEF p
  <2>5. Last(p) = p[k] /\ (Repeats(p) <=> \E j \in 1 .. k - 1 : p[j].name = p[k].name)
    BY <2>2, <2>4, LastOf
  <2>6. Last(p) = w[k] /\ (Repeats(p) <=> \E j \in 1 .. k - 1 : w[j].name = w[k].name)
    BY <2>3, <2>4, <2>5
  <2> QED
    BY <2>4, <2>6 DEF p
<1>4. ASSUME NEW w \in walks PROVE w \in WalksFrom(target, dir)
  <2>1. /\ w \in Seq(nodes) /\ Len(w) \in 2 .. MaxDepth + 1 /\ w[1] = target
        /\ \A k \in 1 .. Len(w) - 1 :
             /\ w[k + 1] \in Neighbours(dir, w[k].name)
             /\ \A j \in 1 .. k - 1 : w[j].name # w[k].name
    BY <1>1, <1>2 DEF Follows
  <2>2. w \in [1 .. Len(w) -> nodes] /\ w \in Seq(Node)
    BY <1>1, <2>1
  <2>3. ASSUME NEW k \in 1 .. Len(w) - 1 PROVE ~ Repeats(SubSeq(w, 1, k))
    <3>1. k \in 1 .. Len(w)
      BY <2>1
    <3>2. Repeats(SubSeq(w, 1, k)) <=> \E j \in 1 .. k - 1 : w[j].name = w[k].name
      BY <1>3, <2>2, <3>1
    <3> QED
      BY <2>1, <3>2
  <2> QED
    BY <2>1, <2>2, <2>3 DEF WalksFrom
<1>5. ASSUME NEW w \in WalksFrom(target, dir) PROVE w \in walks
  <2>1. PICK l \in 2 .. MaxDepth + 1 : w \in [1 .. l -> nodes]
    BY DEF WalksFrom
  <2>2. w \in Seq(Node) /\ Len(w) = l /\ l \in Nat
    BY <1>1, <2>1
  <2>3. /\ w[1] = target
        /\ \A k \in 1 .. l - 1 :
             w[k + 1] \in Neighbours(dir, w[k].name) /\ ~ Repeats(SubSeq(w, 1, k))
    BY <2>2 DEF WalksFrom
  <2> DEFINE S == {m \in Nat : m + 1 <= l => SubSeq(w, 1, m + 1) \in walks \cup {<<target>>}}
  <2>4. 0 \in S
    <3>1. 1 \in 1 .. Len(w)
      BY <2>1, <2>2
    <3> DEFINE p == SubSeq(w, 1, 1)
    <3>2. p \in Seq(Node) /\ Len(p) = 1 /\ p[1] = target
      BY <1>3, <2>2, <2>3, <3>1
    <3> HIDE DEF p
    <3>3. p = <<target>>
      BY ONLY <3>2
    <3> QED
      BY <3>3 DEF p
  <2>5. ASSUME NEW m \in Nat, m \in S PROVE m + 1 \in S
    <3>1. SUFFICES ASSUME m + 2 <= l PROVE SubSeq(w, 1, m + 2) \in walks
      OBVIOUS
    <3> DEFINE p == SubSeq(w, 1, m + 1)
               n == w[m + 2]
               q == SubSeq(w, 1, m + 2)
    <3>2. m + 1 \in 1 .. Len(w) /\ m + 2 \in 1 .. Len(w) /\ m + 1 \in 1 .. l - 1
          /\ m + 1 <= MaxDepth /\ (m + 1) + 1 = m + 2 /\ m + 1 <= l
      BY <1>1, <2>1, <2>2, <3>1
    <3>3. p \in walks \cup {<<target>>}
      BY <2>5, <3>2
    <3>4. /\ p \in Seq(Node) /\ Len(p) = m + 1 /\ Last(p) = w[m + 1]
          /\ \A i \in 1 .. m + 1 : p[i] = w[i]
      BY <1>3, <2>2, <3>2
    <3>5. /\ q \in Seq(Node) /\ Len(q) = m + 2
          /\ \A i \in 1 .. m + 2 : q[i] = w[i]
      BY <1>3, <2>2, <3>2
    <3>6. n \in Neighbours(dir, w[m + 1].name) /\ ~ Repeats(p)
      BY <2>3, <3>2
    <3>7. n \in Node
      BY <2>2, <3>2
    <3> HIDE DEF p, n, q
    <3>8. Expands(p)
      BY <3>2, <3>4, <3>6 DEF Expands
    <3>9. Append(p, n) \in walks
      BY <1>2, <3>3, <3>4, <3>6, <3>8 DEF LookedUp, Extended
    <3>10. q = Append(p, n)
      <4>1. /\ Append(p, n) \in Seq(Node) /\ Len(Append(p, n)) = m + 2
            /\ \A i \in 1 .. m + 1 : Append(p, n)[i] = p[i]
            /\ Append(p, n)[m + 2] = n
        BY <3>4, <3>7
      <4>2. \A i \in 1 .. m + 2 : q[i] = Append(p, n)[i]
        <5>1. ASSUME NEW i \in 1 .. m + 2 PROVE i = m + 2 \/ i \in 1 .. m + 1
          OBVIOUS
        <5> QED
          BY <3>4, <3>5, <4>1, <5>1 DEF n
      <4> QED
        BY <3>5, <4>1, <4>2
    <3> QED
      BY <3>9, <3>10 DEF q
  <2>6. l - 1 \in S
    <3> HIDE DEF S
    <3>1. \A m \in Nat : m \in S => m + 1 \in S
      BY <2>5
    <3>2. Nat \subseteq S
      BY <2>4, <3>1, NatInd
    <3> QED
      BY <2>1, <3>2
  <2>7. SubSeq(w, 1, l) \in walks \cup {<<target>>}
    BY <2>1, <2>6
  <2>8. SubSeq(w, 1, l) = w
    <3>1. Len(w) \in 1 .. Len(w)
      BY <2>1, <2>2
    <3>2. /\ SubSeq(w, 1, l) \in Seq(Node) /\ Len(SubSeq(w, 1, l)) = l
          /\ \A i \in 1 .. l : SubSeq(w, 1, l)[i] = w[i]
      BY <1>3, <2>2, <3>1
    <3> QED
      BY <2>2, <3>2
  <2>9. w # <<target>>
    <3>1. SUFFICES ASSUME w = <<target>> PROVE FALSE
      OBVIOUS
    <3>2. Len(w) = 1
      BY ONLY <3>1
    <3> QED
      BY ONLY <2>1, <2>2, <3>2, l \in 2 .. MaxDepth + 1
  <2> QED
    BY <2>7, <2>8, <2>9
<1> QED
  BY <1>4, <1>5 DEF WalksFrom

\* A tree report that no write to the tables and no failed query disturbs lists every walk
\* along the edges up to the depth limit, and nothing else (search_call_graph,
\* callgraph.go 163-240), through recursive and mutually recursive functions.
THEOREM ReportsAreExact == Spec => []ReportIsExact
<1>1. Types /\ ReportSoFar /\ [Next]_vars => ReportSoFar'
  BY NextReport
<1>2. Spec => []ReportSoFar
  BY <1>1, InitReport, TypesInvariant, PTL DEF Spec
<1>3. Types /\ ReportSoFar => ReportIsExact
  BY ClosedReportIsExact DEF ReportIsExact
<1> QED
  BY <1>2, <1>3, TypesInvariant, PTL
=============================================================================
