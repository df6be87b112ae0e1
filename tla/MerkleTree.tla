----------------------------- MODULE MerkleTree -----------------------------
(***************************************************************************)
(* The Merkle tree of a workspace and the difference of two of them.       *)
(*                                                                         *)
(* The user writes and removes files and directories; UpdateIndex builds   *)
(* the tree of what is on disk, diffs it with the tree of its last call    *)
(* and stores it.  IndexPipeline works on the flat map from files to       *)
(* hashes; this module checks that recursion over directories, pruning by  *)
(* hash and the special cases of nil trees come to the same.  What is done *)
(* with the difference, purging and indexing, is IndexPipeline's.          *)
(***************************************************************************)
EXTENDS Naturals, Sequences, SequencesExt, FiniteSets

CONSTANTS
  Name,       \* names of files and directories
  Path,       \* the paths in use, below the root: sequences of names
  Indexable,  \* names with an extension that is indexed
  Skipped,    \* names of directories that are not entered
  Content,    \* contents of files
  HashOf,     \* file hash of a content: the hash of its chunk hashes
  Dir,        \* what a path may be besides a content
  None

ASSUME MerkleAssumption ==
  /\ IsFiniteSet(Path) /\ Path \subseteq Seq(Name)
  /\ \A p \in Path : p # <<>> /\ (Len(p) > 1 => Front(p) \in Path)
  /\ Content \cap {Dir, None} = {} /\ Dir # None
  /\ DOMAIN HashOf = Content

VARIABLES
  disk,    \* the workspace
  stored,  \* the tree of merkle_trees, Nil for "{}" or no row
  recorded \* history: the files that tree was built from, each with its hash

vars == <<disk, stored, recorded>>

Root == <<>>
At(p) == IF p = Root THEN Dir ELSE disk[p]
IsChild(q, p) == q # Root /\ Front(q) = p

isIndexable(p) == Last(p) \in Indexable

(***************************************************************************)
(* A tree is the set of its nodes: those below a node are the ones whose   *)
(* paths extend its own.  Directories hash the names and hashes of their   *)
(* children; a hash that nothing else has is what is hashed.               *)
(***************************************************************************)
Nil == {}

FileNode(p) == [type |-> "file", path |-> p, hash |-> <<"file", HashOf[At(p)]>>]
DirNode(p, children) ==
  [type |-> "directory", path |-> p,
   hash |-> <<"directory", {<<Last(m.path), m.hash>> : m \in children}>>]

Children(tree, p) == {m \in tree : IsChild(m.path, p)}

\* os.ReadDir, the skipped directories left out.
Entries(p) ==
  {q \in Path : IsChild(q, p) /\ disk[q] # None /\ ~ (disk[q] = Dir /\ Last(q) \in Skipped)}

\* The call for one path, given what the calls for its entries return.
Subtree(p, tree) ==
  IF At(p) = Dir
  THEN LET nodes == UNION {tree[q] : q \in Entries(p)}
           children == Children(nodes, p)
       IN  IF children = {} THEN Nil ELSE {DirNode(p, children)} \cup nodes
  ELSE IF At(p) \in Content /\ isIndexable(p) THEN {FileNode(p)} ELSE Nil

BuildMerkleTree == LET tree[p \in Path \cup {Root}] == Subtree(p, tree) IN tree[Root]

collectFiles(tree, p) ==
  {m.path : m \in {m \in tree : m.type = "file" /\ IsPrefix(p, m.path)}}

Diff(added, modified, deleted) == [added |-> added, modified |-> modified, deleted |-> deleted]

HasNode(tree, p) == \E m \in tree : m.path = p
NodeAt(tree, p) == CHOOSE m \in tree : m.path = p

\* Mutant: entries that are gone are not looked for.
EitherHas_NextOnly(prev, next, p) == {m.path : m \in Children(next, p)}

\* The two loops over next.Children and prev.Children are one: an entry that only
\* prev has is diffed with nil, which collects its files as deleted.
EitherHas(prev, next, p) == {m.path : m \in Children(prev, p) \cup Children(next, p)}

\* The call for the nodes at one path, given what the calls for those below return.
DiffAt(prev, next, p, diff) ==
  IF ~ HasNode(prev, p) THEN Diff(collectFiles(next, p), {}, {})
  ELSE IF ~ HasNode(next, p) THEN Diff({}, {}, collectFiles(prev, p))
  ELSE LET old == NodeAt(prev, p)
           new == NodeAt(next, p)
           sub == {diff[q] : q \in EitherHas(prev, next, p)}
       IN  IF old.hash = new.hash THEN Diff({}, {}, {})
           ELSE IF old.type # new.type
           THEN Diff(collectFiles(next, p), {}, collectFiles(prev, p))
           ELSE IF new.type = "file" THEN Diff({}, {p}, {})
           ELSE Diff(UNION {d.added : d \in sub}, UNION {d.modified : d \in sub},
                     UNION {d.deleted : d \in sub})

DiffTrees(prev, next) ==
  LET diff[p \in Path \cup {Root}] == DiffAt(prev, next, p, diff) IN diff[Root]

(***************************************************************************)
(* The user.                                                               *)
(***************************************************************************)
HasParent(p) == At(Front(p)) = Dir

WriteFile(p, c) ==
  /\ HasParent(p) /\ disk[p] \notin {Dir, c}
  /\ disk' = [disk EXCEPT ![p] = c]
  /\ UNCHANGED <<stored, recorded>>

MakeDir(p) ==
  /\ HasParent(p) /\ disk[p] = None
  /\ disk' = [disk EXCEPT ![p] = Dir]
  /\ UNCHANGED <<stored, recorded>>

RemoveAll(p) ==
  /\ disk[p] # None
  /\ disk' = [q \in Path |-> IF IsPrefix(p, q) THEN None ELSE disk[q]]
  /\ UNCHANGED <<stored, recorded>>

(***************************************************************************)
(* The reference: no tree, only which files are to be indexed.             *)
(***************************************************************************)
InSkipped(p) == \E i \in 1 .. Len(p) - 1 : p[i] \in Skipped
FilesNow == {p \in Path : disk[p] \in Content /\ isIndexable(p) /\ ~ InSkipped(p)}
HashesNow == [p \in FilesNow |-> HashOf[disk[p]]]

\* The flat map, as a set of pairs.
HashPairs == {<<p, HashesNow[p]>> : p \in FilesNow}

(***************************************************************************)
(* UpdateIndex on a workspace nobody touches meanwhile.                    *)
(***************************************************************************)
\* purgePreviousTreeIfEmpty: nothing indexable is left.
UpdateEmpty ==
  /\ BuildMerkleTree = Nil /\ stored # Nil
  /\ stored' = Nil /\ recorded' = {}
  /\ UNCHANGED disk

\* The tree is saved once its difference with the stored one is indexed.
UpdateChanged ==
  /\ BuildMerkleTree # Nil
  /\ stored' = BuildMerkleTree /\ recorded' = HashPairs
  /\ UNCHANGED disk

UpdateIndex == UpdateEmpty \/ UpdateChanged

Init ==
  /\ disk = [p \in Path |-> None]
  /\ stored = Nil /\ recorded = {}

Next ==
  \/ \E p \in Path, c \in Content : WriteFile(p, c)
  \/ \E p \in Path : MakeDir(p) \/ RemoveAll(p)
  \/ UpdateIndex

Spec == Init /\ [][Next]_vars

FilesIn(map) == {e[1] : e \in map}

\* DiffTrees, with its recursion, its pruning of equal hashes and its cases for nil
\* trees and for paths that change between file and directory, is the difference
\* of the flat maps from files to hashes: nothing missed, nothing reported twice.
DiffIsFlat ==
  LET d == DiffTrees(stored, BuildMerkleTree)
      old == FilesIn(recorded)
  IN  /\ d.added = FilesNow \ old
      /\ d.deleted = old \ FilesNow
      /\ d.modified = {p \in FilesNow \cap old : <<p, HashesNow[p]>> \notin recorded}
============================================================================
