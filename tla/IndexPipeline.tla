--------------------------- MODULE IndexPipeline ---------------------------
(***************************************************************************)
(* merkle.UpdateIndex and the background savers it starts.                 *)
(*                                                                         *)
(* One goroutine, the main one, runs UpdateIndex again and again: it scans *)
(* the workspace into a Merkle tree, diffs it with the stored tree, purges *)
(* the memories of deleted and modified files, re-reads and embeds added   *)
(* and modified ones, hands the embedded chunks to a new goroutine and     *)
(* stores the tree without waiting for it.  Each saver goroutine writes    *)
(* its batch under dbLock, in transactions of TxSize rows, and adds every  *)
(* vector to the in-memory index before its transaction commits.  The user *)
(* edits the workspace at any moment.  Any call of the database, the file  *)
(* system or the embedding service may fail.                               *)
(*                                                                         *)
(* A Merkle tree is represented by what DiffTrees makes of it, the hash of *)
(* every file it holds; module MerkleTree checks that DiffTrees on trees   *)
(* is the flat difference used here.                                       *)
(*                                                                         *)
(* Paths are sequences of names, the empty one the root of the file system.*)
(* Symbolic links are constant; codebases may be nested, and two paths may *)
(* lead to the same file.  The next-state relation below calls             *)
(* UpdateIndex in a loop; IndexerRun and ServerRun embed the same steps in *)
(* the two programs that call it.                                          *)
(***************************************************************************)
EXTENDS Integers, Sequences, FiniteSets

CONSTANTS
  Codebase,  \* the root directories UpdateIndex is called on: absolute paths
  File,      \* the indexable files a codebase may hold: relative paths
  EvalSymlinks, \* where the absolute path of a file leads
  Version,   \* the contents a file may have on disk
  Hash,      \* the Merkle hashes of file contents
  HashOf,    \* the file hash of a content: the hash of its chunk contents,
             \* so contents that differ outside their chunks share it
  Chunk,     \* positions of chunks within a file
  ChunksOf,  \* the chunks SplitFile cuts a content into
  Absent,    \* no file on disk, or no entry in a tree
  TxSize,    \* rows per transaction of SaveMemoriesBatch (chunkSize, 500)
  MaxRuns,   \* bound: calls of UpdateIndex
  MaxEdits,  \* bound: edits of the workspace
  MaxFaults  \* bound: failing calls

(***************************************************************************)
(* Paths.  A node of the tree carries its absolute path, and that is what  *)
(* UpdateIndex passes on.                                                  *)
(***************************************************************************)
Join(p, q) == p \o q
Root(c) == c
NodePath(c, f) == Join(Root(c), f)
Resolved(c, f) == EvalSymlinks[NodePath(c, f)]

\* Where the files of the codebases are.
Place == {Resolved(c, f) : c \in Codebase, f \in File}

ASSUME PipelineAssumption ==
  /\ \A c \in Codebase, f \in File : NodePath(c, f) \in DOMAIN EvalSymlinks
  /\ HashOf \in [Version -> Hash]
  /\ ChunksOf \in [Version -> SUBSET Chunk]
  /\ \A v \in Version : IsFiniteSet(ChunksOf[v])
  /\ Absent \notin Version \cup Hash
  /\ TxSize \in Nat \ {0}
  /\ MaxRuns \in Nat /\ MaxEdits \in Nat /\ MaxFaults \in Nat

VARIABLES
  files,       \* the workspace on disk
  rows,        \* committed rows of gemini_memories
  unresolved,  \* rows inserted under a path that could not be resolved
  purged,      \* history: rows a purge has deleted
  trees,       \* merkle_trees: file hashes of the last stored tree
  registered,  \* codebases that have a row in merkle_trees
  vectors,     \* ids in the in-memory vector index (Index.vectors)
  pc,          \* where the main goroutine is in UpdateIndex
  cb,          \* its argument
  tree,        \* the tree it has built
  delta,       \* what DiffTrees returned
  left,        \* the files its current loop has still to visit
  jobs,        \* the contents prepareIndexerJobs has read
  dbLock,      \* 0 when free, else the batch whose saver holds it
  inflight,    \* batches whose saver has not returned (AsyncSaveWG)
  pending,     \* chunks of those batches that are not committed
  tx,          \* chunks of the transaction that is open
  staged,      \* those of them inserted so far
  runs, edits, faults,   \* how much of each bound is used
  unembedded,  \* history: chunks dropped because their embedding failed
  unadded,     \* history: rows whose index.Add failed
  unsaved,     \* history: chunks dropped because their saver failed
  skewed       \* history: files recorded with a hash that is not that of
               \* the content that was read to be embedded

mainVars  == <<pc, cb, tree, delta, left, jobs>>
saverVars == <<dbLock, inflight, pending, tx, staged>>
dbVars    == <<rows, unresolved, purged, trees, registered>>
histVars  == <<unembedded, unadded, unsaved, skewed>>
vars == <<files, dbVars, vectors, mainVars, saverVars, runs, edits, faults, histVars>>

(***************************************************************************)
(* A memory row.  The uuid of a chunk is represented by the chunk and the  *)
(* call of UpdateIndex that embedded it: fresh on every call.              *)
(***************************************************************************)
Batch == 1 .. MaxRuns
Item == [batch : Batch, cb : Codebase, file : File, ver : Version, chunk : Chunk]

FileHash == Hash \cup {Absent}
NoFiles == [f \in File |-> Absent]
Delta == [added : SUBSET File, modified : SUBSET File, deleted : SUBSET File]
NoDelta == [added |-> {}, modified |-> {}, deleted |-> {}]
Job == [file : File, ver : Version]

Returned == {"changed", "same", "failed"}
MainState == {"idle", "scan", "empty", "purge", "prepare", "embed", "savetree"} \cup Returned

TypeOK ==
  /\ files \in [Place -> Version \cup {Absent}]
  /\ rows \subseteq Item
  /\ unresolved \subseteq Item
  /\ purged \subseteq Item
  /\ trees \in [Codebase -> [File -> FileHash]]
  /\ registered \subseteq Codebase
  /\ vectors \subseteq Item
  /\ pc \in MainState
  /\ cb \in Codebase
  /\ tree \in [File -> FileHash]
  /\ delta \in Delta
  /\ left \subseteq File
  /\ jobs \subseteq Job
  /\ inflight \subseteq 1 .. runs
  /\ dbLock \in inflight \cup {0}
  /\ pending \subseteq Item
  /\ tx \subseteq pending
  /\ staged \subseteq tx
  /\ runs \in 0 .. MaxRuns
  /\ edits \in 0 .. MaxEdits
  /\ faults \in 0 .. MaxFaults
  /\ unembedded \subseteq Item
  /\ unadded \subseteq Item
  /\ unsaved \subseteq Item
  /\ skewed \subseteq Codebase \X File

Init ==
  /\ files \in [Place -> Version \cup {Absent}]
  /\ rows = {} /\ vectors = {} /\ unresolved = {} /\ purged = {}
  /\ trees = [c \in Codebase |-> NoFiles] /\ registered = {}
  /\ pc = "idle" /\ cb \in Codebase /\ tree = NoFiles
  /\ delta = NoDelta /\ left = {} /\ jobs = {}
  /\ dbLock = 0 /\ inflight = {} /\ pending = {} /\ tx = {} /\ staged = {}
  /\ runs = 0 /\ edits = 0 /\ faults = 0
  /\ unembedded = {} /\ unadded = {} /\ unsaved = {} /\ skewed = {}

\* The cwd of a row: SaveMemoriesBatch resolves the absolute path of the file, and
\* keeps it as it is when it does not exist (any more) or cannot be resolved.
RowPath(r) == IF r \in unresolved THEN NodePath(r.cb, r.file) ELSE Resolved(r.cb, r.file)

RowsAt(path) == {r \in rows : RowPath(r) = path}

\* A call that fails, and one that does not.
Fail == faults < MaxFaults /\ faults' = faults + 1
Succeed == UNCHANGED faults

\* dbLock is free: the short database functions take and release it in one step.
DbFree == dbLock = 0

(***************************************************************************)
(* The user edits the workspace.                                           *)
(***************************************************************************)
Edit(p, v) ==
  /\ edits < MaxEdits
  /\ files[p] # v
  /\ files' = [files EXCEPT ![p] = v]
  /\ edits' = edits + 1
  /\ UNCHANGED <<dbVars, vectors, mainVars, saverVars, runs, faults, histVars>>

(***************************************************************************)
(* UpdateIndex, step by step.                                              *)
(***************************************************************************)
\* InitDatabase, then BuildMerkleTree starts on the root directory.  A failing
\* os.Stat of the root, or of a directory below it, makes all it holds look deleted.
StartUpdate(c) ==
  /\ pc = "idle" /\ runs < MaxRuns /\ DbFree
  /\ cb' = c /\ tree' = NoFiles /\ delta' = NoDelta /\ jobs' = {}
  /\ runs' = runs + 1
  /\ \/ Succeed /\ pc' = "scan" /\ left' = File
     \/ Fail /\ pc' = "scan" /\ left' \in SUBSET File
     \/ Fail /\ pc' = "failed" /\ left' = {}
  /\ UNCHANGED <<files, dbVars, vectors, saverVars, edits, histVars>>

\* BuildMerkleTree reaches one file.  A failing os.Stat makes the file look
\* deleted; a failing read or split aborts the whole call.
ScanFile(f) ==
  /\ pc = "scan" /\ f \in left
  /\ LET v == files[Resolved(cb, f)] IN
     \/ /\ Succeed
        /\ tree' = [tree EXCEPT ![f] = IF v = Absent THEN Absent ELSE HashOf[v]]
        /\ left' = left \ {f} /\ pc' = pc
     \/ /\ Fail /\ v # Absent
        /\ left' = left \ {f}
        /\ UNCHANGED <<tree, pc>>
     \/ /\ Fail /\ v # Absent
        /\ pc' = "failed" /\ left' = {}
        /\ UNCHANGED tree
  /\ UNCHANGED <<files, dbVars, vectors, cb, delta, jobs, saverVars, runs, edits, histVars>>

\* DiffTrees(prev, next), on the file hashes of the two trees.
DiffOf(prev, next) ==
  [added    |-> {f \in File : prev[f] = Absent /\ next[f] # Absent},
   modified |-> {f \in File : prev[f] # Absent /\ next[f] # Absent /\ prev[f] # next[f]},
   deleted  |-> {f \in File : prev[f] # Absent /\ next[f] = Absent}]

\* newTree == nil: load the previous tree to purge all it holds.  When there is
\* none, or it cannot be loaded, the call returns at once.
StartEmptyPurge ==
  /\ pc = "scan" /\ left = {} /\ tree = NoFiles /\ DbFree
  /\ \/ /\ Succeed /\ trees[cb] # NoFiles
        /\ pc' = "empty" /\ left' = {f \in File : trees[cb][f] # Absent}
     \/ /\ Succeed /\ trees[cb] = NoFiles
        /\ pc' = "same" /\ UNCHANGED left
     \/ Fail /\ pc' = "same" /\ UNCHANGED left
  /\ UNCHANGED <<files, dbVars, vectors, cb, tree, delta, jobs, saverVars, runs, edits, histVars>>

\* loadPreviousTree and DiffTrees.
Diff ==
  /\ pc = "scan" /\ left = {} /\ tree # NoFiles /\ DbFree
  /\ \/ /\ Succeed
        /\ delta' = DiffOf(trees[cb], tree)
        /\ left' = delta'.deleted \cup delta'.modified
        /\ pc' = "purge"
     \/ Fail /\ pc' = "failed" /\ UNCHANGED <<delta, left>>
  /\ UNCHANGED <<files, dbVars, vectors, cb, tree, jobs, saverVars, runs, edits, histVars>>

\* Mutant: the vectors go before a DELETE that may fail.
PurgeFile_VectorsFirst(f) ==
  /\ pc \in {"purge", "empty"} /\ f \in left /\ DbFree
  /\ LET gone == RowsAt(Join(Root(cb), NodePath(cb, f))) IN
     /\ vectors' = vectors \ gone
     /\ \/ Succeed /\ rows' = rows \ gone /\ purged' = purged \cup gone
        \/ Fail /\ UNCHANGED <<rows, purged>>
  /\ left' = left \ {f}
  /\ UNCHANGED <<files, unresolved, trees, registered, pc, cb, tree, delta, jobs, saverVars, runs,
                 edits, histVars>>

\* DeleteFileMemories of one file, deleted files first: it joins the root to the
\* path of the tree node once more, and deletes the rows whose cwd that is, of
\* whatever codebase and file, and then the vectors of the ids it has selected.  A
\* result that breaks off is not noticed; any other error is only printed.
PurgeFile(f) ==
  /\ pc \in {"purge", "empty"} /\ f \in left /\ DbFree
  /\ f \in delta.deleted \/ left \cap delta.deleted = {}
  /\ LET gone == RowsAt(Join(Root(cb), NodePath(cb, f))) IN
     \/ Succeed /\ rows' = rows \ gone /\ vectors' = vectors \ gone /\ purged' = purged \cup gone
     \/ /\ Fail /\ gone # {}
        /\ \E ids \in SUBSET gone : vectors' = vectors \ ids
        /\ rows' = rows \ gone /\ purged' = purged \cup gone
     \/ Fail /\ UNCHANGED <<rows, vectors, purged>>
  /\ left' = left \ {f}
  /\ UNCHANGED <<files, unresolved, trees, registered, pc, cb, tree, delta, jobs, saverVars, runs,
                 edits, histVars>>

\* purgePreviousTreeIfEmpty stores the tree "{}"; an error is ignored and the
\* call reports no change.
SaveEmptyTree ==
  /\ pc = "empty" /\ left = {} /\ DbFree
  /\ pc' = "same"
  /\ \/ Succeed /\ trees' = [trees EXCEPT ![cb] = NoFiles]
     \/ Fail /\ UNCHANGED trees
  /\ UNCHANGED <<files, rows, unresolved, purged, registered, vectors, cb, tree, delta, left, jobs,
                 saverVars, runs, edits, histVars>>

\* Mutant: modified files are diffed but never indexed again.
ToProcess_AddedOnly == delta.added

ToProcess == delta.added \cup delta.modified

EndPurge ==
  /\ pc = "purge" /\ left = {}
  /\ left' = ToProcess
  /\ pc' = IF ToProcess = {} THEN "savetree" ELSE "prepare"
  /\ UNCHANGED <<files, dbVars, vectors, cb, tree, delta, jobs, saverVars, runs, edits, faults,
                 histVars>>

\* prepareIndexerJobs reads a file again; one it cannot read or split is skipped.
PrepareFile(f) ==
  /\ pc = "prepare" /\ f \in left
  /\ LET v == files[Resolved(cb, f)] IN
     \/ Succeed /\ v # Absent /\ jobs' = jobs \cup {[file |-> f, ver |-> v]}
     \/ Succeed /\ v = Absent /\ UNCHANGED jobs
     \/ Fail /\ v # Absent /\ UNCHANGED jobs
  /\ left' = left \ {f}
  /\ UNCHANGED <<files, dbVars, vectors, pc, cb, tree, delta, saverVars, runs, edits, histVars>>

\* The chunks of the files that were read, each with its new id.
JobItems == {i \in Item : /\ i.batch = runs /\ i.cb = cb
                          /\ [file |-> i.file, ver |-> i.ver] \in jobs
                          /\ i.chunk \in ChunksOf[i.ver]}

\* No chunk was cut: nothing is embedded or launched.
SkipEmbedding ==
  /\ pc = "prepare" /\ left = {} /\ JobItems = {}
  /\ pc' = "savetree"
  /\ UNCHANGED <<files, dbVars, vectors, cb, tree, delta, left, jobs, saverVars, runs, edits,
                 faults, histVars>>

StartEmbedding ==
  /\ pc = "prepare" /\ left = {} /\ JobItems # {}
  /\ pc' = "embed"
  /\ UNCHANGED <<files, dbVars, vectors, cb, tree, delta, left, jobs, saverVars, runs, edits,
                 faults, histVars>>

\* generateEmbeddings, then batchSaveMemoriesAsync: the chunks that were
\* embedded become a batch with a goroutine of its own; the others are dropped
\* with a warning, and when none is left no goroutine starts.
EmbedAndLaunch(bad) ==
  /\ pc = "embed"
  /\ IF bad = {} THEN Succeed ELSE Fail
  /\ LET good == JobItems \ bad IN
     /\ pending' = pending \cup good
     /\ inflight' = IF good = {} THEN inflight ELSE inflight \cup {runs}
  /\ unembedded' = unembedded \cup bad
  /\ pc' = "savetree"
  /\ UNCHANGED <<files, dbVars, vectors, cb, tree, delta, left, jobs, dbLock, tx, staged, runs,
                 edits, unadded, unsaved, skewed>>

\* Files of this call whose stored hash is not that of the content in jobs.
SkewedNow == {f \in ToProcess : ~ \E j \in jobs : j.file = f /\ HashOf[j.ver] = tree[f]}

\* SaveMerkleTree, while the batch just launched may still be waiting.
SaveTree ==
  /\ pc = "savetree" /\ DbFree
  /\ \/ /\ Succeed
        /\ trees' = [trees EXCEPT ![cb] = tree]
        /\ registered' = registered \cup {cb}
        /\ skewed' = (skewed \ ({cb} \X ToProcess)) \cup ({cb} \X SkewedNow)
        /\ pc' = IF delta = NoDelta THEN "same" ELSE "changed"
     \/ Fail /\ pc' = "failed" /\ UNCHANGED <<trees, registered, skewed>>
  /\ UNCHANGED <<files, rows, unresolved, purged, vectors, cb, tree, delta, left, jobs, saverVars,
                 runs, edits, unembedded, unadded, unsaved>>

UpdateStep ==
  \/ \E f \in File : ScanFile(f) \/ PurgeFile(f) \/ PrepareFile(f)
  \/ StartEmptyPurge \/ Diff \/ SaveEmptyTree \/ EndPurge
  \/ SkipEmbedding \/ StartEmbedding
  \/ \E bad \in SUBSET JobItems : EmbedAndLaunch(bad)
  \/ SaveTree

(***************************************************************************)
(* The saver goroutine of batch n: SaveMemoriesBatch.                      *)
(***************************************************************************)
PendingOf(n) == {i \in pending : i.batch = n}

\* Mutant: an early return forgets to unlock dbLock.
SaverReturns_LeakLock(n) ==
  /\ unsaved' = unsaved \cup PendingOf(n)
  /\ pending' = pending \ PendingOf(n)
  /\ tx' = {} /\ staged' = {}
  /\ dbLock' = IF PendingOf(n) = {} THEN 0 ELSE dbLock
  /\ inflight' = inflight \ {n}

\* The goroutine returns: the lock is released, whatever is not committed is gone.
SaverReturns(n) ==
  /\ unsaved' = unsaved \cup PendingOf(n)
  /\ pending' = pending \ PendingOf(n)
  /\ tx' = {} /\ staged' = {}
  /\ dbLock' = 0
  /\ inflight' = inflight \ {n}

\* dbLock.Lock and Open; when Open fails nothing is saved.
SaverLock(n) ==
  /\ DbFree
  /\ \/ Succeed /\ dbLock' = n /\ UNCHANGED <<inflight, pending, tx, staged, unsaved>>
     \/ Fail /\ SaverReturns(n)
  /\ UNCHANGED <<files, dbVars, vectors, mainVars, runs, edits, unembedded, unadded, skewed>>

\* The next transaction takes TxSize chunks, the last one what is left.
TxOf(n) == {T \in SUBSET PendingOf(n) :
              \/ Cardinality(T) = TxSize
              \/ T = PendingOf(n) /\ Cardinality(T) < TxSize}

SaverBegin(n) ==
  /\ dbLock = n /\ tx = {} /\ PendingOf(n) # {}
  /\ \/ Succeed /\ tx' \in TxOf(n) /\ UNCHANGED <<dbLock, inflight, pending, staged, unsaved>>
     \/ Fail /\ SaverReturns(n)
  /\ UNCHANGED <<files, dbVars, vectors, mainVars, runs, edits, unembedded, unadded, skewed>>

\* INSERT one row and add its vector to the shared index at once, before the
\* transaction commits.  An error of Add is ignored; one of the INSERT rolls
\* the transaction back and leaves the vectors added so far.  EvalSymlinks fails on
\* a file that is gone, and may fail on any other.
SaverInsert(n, i) ==
  /\ dbLock = n /\ i \in tx \ staged
  /\ LET gone == IF files[Resolved(i.cb, i.file)] = Absent THEN {i} ELSE {} IN
     \/ /\ Succeed /\ vectors' = vectors \cup {i}
        /\ staged' = staged \cup {i} /\ unresolved' = unresolved \cup gone
        /\ UNCHANGED <<dbLock, inflight, pending, tx, unadded, unsaved>>
     \/ /\ Fail /\ vectors' = vectors \cup {i}
        /\ staged' = staged \cup {i} /\ unresolved' = unresolved \cup {i}
        /\ UNCHANGED <<dbLock, inflight, pending, tx, unadded, unsaved>>
     \/ /\ Fail /\ unadded' = unadded \cup {i}
        /\ staged' = staged \cup {i} /\ unresolved' = unresolved \cup gone
        /\ UNCHANGED <<dbLock, inflight, pending, tx, vectors, unsaved>>
     \/ Fail /\ SaverReturns(n) /\ UNCHANGED <<vectors, unresolved, unadded>>
  /\ UNCHANGED <<files, rows, purged, trees, registered, mainVars, runs, edits, unembedded, skewed>>

\* Mutant: a failing INSERT ends the loop and what was inserted is committed.
SaverCommit_Partial(n) ==
  /\ dbLock = n /\ staged # {}
  /\ \/ /\ Succeed /\ rows' = rows \cup staged
        /\ pending' = pending \ tx
        /\ tx' = {} /\ staged' = {}
        /\ UNCHANGED <<dbLock, inflight, unsaved>>
     \/ Fail /\ SaverReturns(n) /\ UNCHANGED rows
  /\ UNCHANGED <<files, unresolved, purged, trees, registered, vectors, mainVars, runs, edits,
                 unembedded, unadded, skewed>>

SaverCommit(n) ==
  /\ dbLock = n /\ tx # {} /\ staged = tx
  /\ \/ /\ Succeed /\ rows' = rows \cup tx
        /\ pending' = pending \ tx
        /\ tx' = {} /\ staged' = {}
        /\ UNCHANGED <<dbLock, inflight, unsaved>>
     \/ Fail /\ SaverReturns(n) /\ UNCHANGED rows
  /\ UNCHANGED <<files, unresolved, purged, trees, registered, vectors, mainVars, runs, edits,
                 unembedded, unadded, skewed>>

\* All transactions are committed: unlock, AsyncSaveWG.Done.
SaverDone(n) ==
  /\ dbLock = n /\ tx = {} /\ PendingOf(n) = {}
  /\ SaverReturns(n)
  /\ UNCHANGED <<files, dbVars, vectors, mainVars, runs, edits, faults, unembedded, unadded, skewed>>

SaverStep(n) ==
  /\ n \in inflight
  /\ \/ SaverLock(n) \/ SaverBegin(n) \/ SaverCommit(n) \/ SaverDone(n)
     \/ \E i \in tx : SaverInsert(n, i)

(***************************************************************************)
(* UpdateIndex called in a loop.                                           *)
(***************************************************************************)
Return ==
  /\ pc \in Returned
  /\ pc' = "idle"
  /\ UNCHANGED <<files, dbVars, vectors, cb, tree, delta, left, jobs, saverVars, runs, edits,
                 faults, histVars>>

\* The process ends, whatever its goroutines are doing: the open transaction is
\* rolled back, batches not committed and the in-memory index are gone.
ProcessEnds ==
  /\ pc' = "idle" /\ tree' = NoFiles /\ delta' = NoDelta /\ left' = {} /\ jobs' = {}
  /\ dbLock' = 0 /\ inflight' = {} /\ pending' = {} /\ tx' = {} /\ staged' = {}
  /\ vectors' = {}
  /\ unsaved' = unsaved \cup pending
  /\ UNCHANGED <<files, dbVars, cb, runs, edits, unembedded, unadded, skewed>>

Environment == \E p \in Place, v \in Version \cup {Absent} : Edit(p, v)

Next ==
  \/ \E c \in Codebase : StartUpdate(c)
  \/ UpdateStep
  \/ Return
  \/ \E n \in Batch : SaverStep(n)
  \/ Environment

(***************************************************************************)
(* Every goroutine that can move is scheduled eventually.  Nothing is      *)
(* assumed of the caller of UpdateIndex or of the user.                    *)
(***************************************************************************)
Fairness ==
  /\ WF_vars(UpdateStep)
  /\ \A n \in Batch : WF_vars(SaverStep(n))

Spec == Init /\ [][Next]_vars
FairSpec == Spec /\ Fairness

(***************************************************************************)
(* Properties.                                                             *)
(***************************************************************************)
Written == rows \cup purged
RowsOf(n) == {r \in Written : r.batch = n}

\* The rows of a batch, those a purge has deleted since included, appear whole
\* transactions at a time: a number of rows that is not a multiple of TxSize
\* means that the batch is complete.  A failed INSERT or COMMIT, or a crash, leaves
\* no part of a transaction (SaveMemoriesBatch, Rollback on every error path).
RowsWholeTransactions ==
  \A n \in Batch :
    Cardinality(RowsOf(n)) % TxSize # 0 =>
      /\ PendingOf(n) = {}
      /\ \A i \in unsaved : i.batch # n

\* Semantic search can reach every row it may be asked for: a row that is
\* committed, or about to be, has its vector in the in-memory index, unless
\* index.Add failed.  The vector is added before the commit and nothing but
\* the purge of the row removes it.
RowsHaveVectors == rows \cup staged \subseteq vectors \cup unadded

\* The chunks of content v of file f as one call of UpdateIndex embedded them.
ChunksIn(n, c, f, v) == {i \in Item : /\ i.batch = n /\ i.cb = c /\ i.file = f
                                      /\ i.ver = v /\ i.chunk \in ChunksOf[v]}

\* The paths a purge may look for, and the rows it may have taken by mistake: their
\* path, resolved or not, is a root joined to the absolute path of some file.
PurgePaths == {Join(Root(c), NodePath(c, f)) : c \in Codebase, f \in File}
Struck == {r \in purged : {NodePath(r.cb, r.file), Resolved(r.cb, r.file)} \cap PurgePaths # {}}

Accounted == rows \cup pending \cup unembedded \cup unsaved \cup Struck

IndexedAs(c, f, v) == \E n \in Batch : n <= runs /\ ChunksIn(n, c, f, v) \subseteq Accounted

\* What the stored Merkle tree calls indexed has been indexed.  The tree is
\* stored before the background saver has written a single row, so a file of
\* the tree has, for a content with the recorded hash, all of its chunks from
\* one call in the database or on their way, except for those a failed embedding
\* or save dropped.  There are two other excuses: a file that was edited between
\* the scan and the read that embeds it (skewed), and a purge of another file whose
\* absolute path, joined to a root once more, is the path of this one's rows.
TreeBacked ==
  \A c \in Codebase, f \in File :
    trees[c][f] # Absent /\ <<c, f>> \notin skewed =>
      \E v \in Version : HashOf[v] = trees[c][f] /\ IndexedAs(c, f, v)

\* No call of UpdateIndex blocks for good on dbLock, whatever its savers do.
UpdateReturns == pc \notin Returned \cup {"idle"} ~> pc \in Returned

\* AsyncSaveWG.Wait returns: every saver gets the lock, works through its batch
\* or gives up, and releases the lock to the next.
SavesFinish == \A n \in Batch : n \in inflight ~> n \notin inflight

\* No path of either leaks dbLock.
LockIsReleased == UpdateReturns /\ SavesFinish

(***************************************************************************)
(* What the repository says of UpdateIndex and this code does not do.      *)
(***************************************************************************)
\* "DeleteFileMemories deletes the existing chunk memories of a specific codebase
\* file" (db.go): a purge of f that reports no error leaves no row at f's path.
PurgeDeletesRows ==
  [][\A f \in File : PurgeFile(f) /\ faults' = faults =>
       \A r \in rows' : RowPath(r) # NodePath(cb, f)]_vars
============================================================================
