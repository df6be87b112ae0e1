# Verification of agent-context (semantic-grep)

TLA+ models of this repository, the TLC runs that check them on small instances,
and TLAPS proofs of the properties that matter most. Paths below are relative to
the repository, line numbers to the commit the models were written from.
`PROJECT.json` maps every definition to its lines.

## 1. The system

The program keeps a semantic index of code. The *indexer* (`cmd/indexer`) or a
periodic sweep of the *server* (`cmd/server`) calls `merkle.UpdateIndex` on a
codebase; searches combine the vector index, ggrep and the database, and the
server also answers questions about callers and callees.

| Component | State | Operations | Hard behaviour | Modelled by |
|---|---|---|---|---|
| Merkle sync, `internal/merkle` | tree of the last call (in `merkle_trees`) | scan, diff, purge, prepare, embed, launch saver, store tree | tree stored before the rows; edits between two reads of a file; partial failure | `IndexPipeline`, `MerkleTree` |
| Memories, `internal/db` | `gemini_memories`, `merkle_trees`, `dbLock`, `AsyncSaveWG` | `SaveMemoriesBatch`, `DeleteFileMemories`, `SaveMerkleTree`, `LoadMerkleTree`, `ListCodebases` | background transactions, a lock with many early returns, vectors added before the commit | `IndexPipeline` |
| Vector index, `internal/turboquant` index and storage | `Index.vectors`, the `.tqv` file and its `.tmp` | `NewIndex`, `Add`, `Delete`, `Save`, `Compact` | a crash between system calls; two processes, one file | `TqvStorage`, `VectorFile` |
| Indexer program | its process | load, update, wait, save, report | fatal exits, kills, restarts | `IndexerRun` |
| Server program | sweep goroutine, signal handler | sweep, `Compact`, flush on signal | stale id list, WaitGroup released while more work starts | `ServerRun` |
| Call graph tables and reports | `call_nodes`, `call_edges` | `SaveCallGraph`, `DeleteCallGraph`, tree reports | writes without `dbLock`, keys of two kinds, a report that reads while files are saved, recursion | `CallGraphStore` |
| Embedding client and its pool | semaphore, WaitGroup, results | request, retry, release | retries and two time limits, a slot to give back on every path | `EmbedPool`, `EmbedBatch` |
| ggrep | four channels, two kinds of WaitGroups, a pool of buffers | walk, read, scan, report, collect | bounded channels between stages, shutdown, buffers that travel | `GrepPipeline`, `FileSearch` |
| ggrep line scanning | none | literal, pattern and streamed scan | ends of the buffer, empty lines | `LineScan` |
| Line slicer | none | cut ranges out of a file | boundaries, overlapping ranges, long lines | `LineSlicer` |
| Hybrid search | none | option, lexical lookup, fusion, scoping | prefixes of paths, groups of matches, ties | `HybridSearch` |
| Vector search, codec, codebook | read only | top results, pruning, 2/3/4-bit packing | bound of the pruning, byte boundaries | `VectorSearch`, `Codec` |
| Splitter, call graph parsers | none | cut files into chunks; nodes and edges of a file | long chunks, line counting, blocks and steps | `Splitter`, `CallGraphParse` |

How they interact: `UpdateIndex` runs on the calling goroutine and calls the
database functions, each of which takes and releases `dbLock`. Chunks that were
embedded go to a new goroutine that runs `SaveMemoriesBatch` under the same lock
and is counted by `AsyncSaveWG`; it writes rows and adds vectors to the shared
`Index`. Nobody waits for it but the indexer's `main` and the server's signal
handler. The call graph is written by `UpdateIndex` itself, without `dbLock`, and
read by the server's tools. The `.tqv` file is written by the indexer when it ends
and by the server in `Compact` and in the handler. All processes share the
database and the file.

What makes it correct: rows, vectors, the call graph, the stored tree and the
`.tqv` file are records of the same thing, written at different moments by
different goroutines. The properties relate them pairwise, and say when they may
differ and why.

## 2. The modules

### IndexPipeline
`merkle.UpdateIndex` and its savers. `pc` follows the main goroutine; every
call that takes `dbLock` is one action guarded by `DbFree`, and a saver's
lock, begin, insert, commit and return are separate actions of its batch.

| Action | Code |
|---|---|
| `StartUpdate`, `ScanFile` | `InitDatabase`; `BuildMerkleTree`, file by file; a failing `os.Stat` makes a file or directory look deleted, a failing read aborts |
| `StartEmptyPurge`, `SaveEmptyTree` | `purgePreviousTreeIfEmpty` |
| `Diff` | `loadPreviousTree`, `DiffTrees` on file hashes |
| `PurgeFile`, `EndPurge` | `purgeStaleMemories`, `DeleteFileMemories`; deleted files first |
| `PrepareFile`, `SkipEmbedding`, `StartEmbedding` | `prepareIndexerJobs` |
| `EmbedAndLaunch` | `generateEmbeddings`, `batchSaveMemoriesAsync`: any subset of the chunks may fail |
| `SaveTree` | `SaveMerkleTree` and the counts `UpdateIndex` returns |
| `SaverLock` .. `SaverDone` | `SaveMemoriesBatch`; `SaverReturns` is the common end of every path: rollback, unlock, `Done` |

A file's content is a member of `Version`; `HashOf` maps contents to Merkle hashes
and need not be injective, since the hash of a file is that of its chunk contents.
A uuid is represented by the chunk and the call that embedded it. Any database, file
or embedding call may fail while `faults < MaxFaults`.

Codebases are absolute and files relative paths, both sequences of names, because
joining them is where the purge goes wrong: `DeleteFileMemories` joins the root to the
absolute path of the tree node (`Join(Root(cb), NodePath(cb, f))`) and deletes whatever
rows are there. These are never the rows of the file itself, but they can be those of
another one. With root `/app` the purge of `/app/main.py` looks at `/app/app/main.py`,
which may be a file of the same codebase that nobody touched, or of a codebase inside it.
`EvalSymlinks` is the constant map from absolute paths to where they lead;
`SaveMemoriesBatch` resolves the path of a row, unless the call fails or the file is gone
(`unresolved`), and `DeleteFileMemories` does not. That links do not change while the
system runs is an assumption of the model. When the result of its `SELECT` breaks off,
`PurgeFile` deletes all the rows and only some of the vectors.

The history variables `unembedded`, `unadded`, `unsaved` and `skewed` record what
failures drop, and `purged` the rows that purges deleted; no action reads them. `Struck`
is the part of `purged` whose path some purge may look at although it purges another
file: `TreeBacked` and `OrphansExplained` have it as an excuse, without which the runs
violate both.

### MerkleTree
Trees with directories, and a user who writes, makes and removes files and
directories. A tree is the set of its nodes, each with its path from the root, and a
directory's hash is what the code hashes, the names and hashes of its children, so
that no two directories collide. `BuildMerkleTree`, `DiffTrees` and `collectFiles` are
functions that recur over the paths in use, of which there are finitely many. The
module justifies the flat `DiffOf` of `IndexPipeline`: `DiffIsFlat` says that the
recursive, hash-pruned difference is the flat one for every pair of workspaces;
`recorded` is the flat map of the workspace the stored tree was built from. What is done
with a difference, the purge included, is left to `IndexPipeline`.

### IndexerRun, ServerRun
Both EXTEND `IndexPipeline` and reuse its actions inside the two programs that call
it. `IndexerRun` has one process at a time: `Launch` loads the `.tqv` file, `Begin`
.. `Exit` are `main`, `Crash` may come at any step; the process is started again on
what is on disk. `ServerRun` has the sweep (`phase`), the signal handler
(`sig`) and the savers as three kinds of goroutines, and ends by `SignalExit` or by
`StdinClosed` (end of input, crash or kill). `exposed` records the batches for
which the code gives no guarantee, so that the properties can say that it gives
one for all others.

### TqvStorage and VectorFile
`TqvStorage` follows `Storage.Save` system call by system call, with inodes, so
that two saves that share `filePath + ".tmp"` are told apart. `VectorFile` is the
abstract promise: the file is a register, a save writes it in one step, until two
processes' saves overlap (`collided`), after which it promises nothing.
`ImplementsVectorFile` is the refinement, with the abstract state read off the
processes and the directory. It is why `SaveIndex` and `Compact` are single steps in
`IndexerRun` and `ServerRun`. Durability is that of the operating system: `Save`
calls no `fsync`, and a power failure is not modelled.

### CallGraphStore
`syncASTCallGraphs` and the deletion of call graphs inside `UpdateIndex`, and one
`search_call_graph` request that runs meanwhile. `SaveCallGraph` and
`DeleteCallGraph` are one transaction each; the reader looks its target up
(`StartReport`) and makes one query per visited node (`Answer`). A node carries
the absolute path the parser was given while both writers select by the relative
one; `LIKE` and suffix tests between names are the constants `Like` and `DotLike`.
`unsynced` is a history of the files whose parse or save failed, whose content
changed under the call, or whose call had no chunk to embed. `stable` says whether
no write has come between the queries of the report.

### EmbedPool and EmbedBatch
`generateEmbeddings`: the main goroutine takes a slot and starts a goroutine per
job; the goroutine's attempts (`Respond`, `Retry`) go on until an answer, a
permanent error, the retry limit or the time limit; it stores its result, releases
the slot and is done. Time counts in units that keep the order of the code's two
limits, an attempt's ten seconds and the five seconds in which retries begin.
`EmbedBatch` is the promise `EmbedAndLaunch` relies on: one step that gives every
job its own embedding or an error.

### GrepPipeline and FileSearch
`ggrep.Search` and the collector of `searchLexicalSparse`: the traverser (`RootFile`
.. `CloseJobs`), walkers and the goroutines they start to send subdirectories
(`WalkerMeetsDir`, `DirSent`), I/O workers, CPU workers, and the collector. Channels
have their capacity and an open flag, and a failing call loses what it would have led to
(`missed`, a history). Buffers have an identity. Their pool is a `sync.Pool`, which keeps
a part for each processor and is emptied by the garbage collector: `IoOpens` may make a
buffer although some are in the pool, and `PoolDrops` takes one out at any time. So
nothing bounds how many buffers are made in the course of a search; `MaxBuffers` bounds
those that exist at once. A read error in the middle of a streamed file, after which the
code keeps the lines it has reported, is not modelled. Directories form a tree, as
they do on disk (`TreeAssumption`); entries that `.gitignore` or the allowed extensions
exclude are dropped by `WalkerSkips`. `FileSearch` is the promise: every matching line
of every file, once per root, and only then is the search over.

### The pure algorithms
These modules define operators only; `MCAlgorithms` calls each with every input of
a small set and compares the result with a reference definition.

| Module | Code | Properties |
|---|---|---|
| `TextLines` | bytes and lines as Go's library counts them | used by the others |
| `LineSlicer` | `LoadAndSliceMemoryBlock`, small and large files | `SmallFileSlices`, `LargeFileSlices` |
| `Splitter` | `SplitFile`, `splitLargeChunk`, Terraform and YAML scanners, declarations of Go and Python | `RangesHoldText`, `YamlRangesDrift`, `NoTextLost`, `ChunksFit` |
| `CallGraphParse` | Terraform and YAML line scanners, the Python walks | `TfBlocksExact`, `YamlStepsTile`, `PyCallsResolve` |
| `LineScan` | `scanBody`, `scanRegex`, `scanFileStream` | `LiteralHitsExact`, `RegexHitsExact`, `StreamAgrees` |
| `Codec` | packing, three ways of unpacking | `CodecRoundTrip`, `BufLeavesTheRest` |
| `VectorSearch` | `Index.Search`, pruned scores, `FindNearestIndex` | `SearchWellFormed`, `ShortSearchIsTopK`, `NearestCentroid` |
| `HybridSearch` | `prepareGrepSearchOpt` .. `SearchMemories` | `WordsFind`, `LexicalExact`, `FusionRespectsBoth`, `SearchScoped` |

Two of them need a word. Scores in `VectorSearch` are integers, similarities are
compared as exact quotients, a loop is a function of the number of its rounds that
are over, and the queries are such that the square roots at the
pruning checks are integers: floating-point error plays no part in what the runs
show. `HybridSearch` gives the *set* of results the code can return, since `SELECT`
and `sort.Slice` leave the order of equals open.

## 3. The runs

| Run | Bounds | Shows |
|---|---|---|
| `pipeline` | `/app/main.py` and `/app/app/main.py`, 2 contents (one of two chunks, one of one), transactions of 2 rows, 2 calls, 1 edit, 1 fault | `RowsWholeTransactions`: no part of a transaction is ever visible. `RowsHaveVectors`: a row never lacks its vector in memory. `TreeBacked`: the stored tree never promises what is neither stored, under way, nor lost to a recorded failure or to the purge of another path. `LockIsReleased`: no path leaks `dbLock`, calls return (`UpdateReturns`) and savers finish (`SavesFinish`). |
| `indexer` | the same files, the second a symbolic link; 3 contents (two with one hash), 3 processes, 1 edit, 1 fault or crash | `DurableVectors`: rows reported as synced stay in the `.tqv` file. `OrphansExplained`: no vector of an unfinished transaction reaches the file, and none is left there without its row but by a failure or a purge of another path. `TreeBacked` across crashes. `IndexerEnds`. |
| `server` | codebases `/vendor` and `/vendor/vendor` of 1 file each, contents of 1 or 2 chunks, transactions of 1 row, 4 calls, 1 edit, 1 fault | `SettledRowsReachable`, `CompactLeavesNoOrphans` with savers of one codebase under way while the next is updated; `SweepEndsEventually`, `SignalTerminates`. |
| `storage` | 2 processes, 1 id, 5 inodes, 1 failing call | `FileLoads`, `RenamePublishesIndex`, `ImplementsVectorFile` until saves overlap; `SaveEnds` always. |
| `merkle` | 7 paths up to 3 deep, a skipped directory, 3 contents; no other bound | `DiffIsFlat`. |
| `callgraph` | 2 files that share a symbol, 3 contents, recursive calls, depth 2, 2 calls, 1 edit, 1 fault, 1 report | `TreeInGraph`: what the tree calls indexed is in the tables. `CallersMirrorCallees`: both directions agree in every state. `ReportIsExact`: a report nobody interrupts lists every walk. |
| `embed` | 3 jobs, 2 slots, 2 retries, time limits 1 and 2 | `PoolBounded`, `RequestsGiveUp`, `EmbeddingEnds`, `ImplementsEmbedBatch`. |
| `grep` | 2 walkers, 2 I/O and 1 CPU worker, channels of one place, 6 directories, 5 files, 4 roots, 4 buffers, 1 fault | `SendersFindChannelOpen`, `BuffersNotShared`, `ImplementsFileSearch`, `SearchEnds`. |
| `algorithms` | files of up to 5 bytes or lines, vectors of up to 6 indices, lists of up to 3 | the properties of the table above, those of a module together (`SlicerExact`, `SplitterExact`, `ParsersExact`, `ScannersExact`, `CodecExact`, `VectorSearchExact`, `LexicalSearchExact`), `FusionRespectsBoth` and `SearchScoped`. |

The bounds are enough for the cases that matter: a second call while the first
call's saver has not begun, is inside a transaction or between two; an edit
before, between and after the two reads of a file; a batch that fills one
transaction and part of the next; a failure at each call; more jobs than slots,
and slots given back before and after a failure; a tree with more subdirectories
than channel places and walkers, so that a walker that sent them itself would
block for good (the mutant `WalkerMeetsDir_Blocking`); files that reach the end of
a buffer, ranges that overlap, indices that cross a byte. No symmetry is used.

Deadlock is checked in `merkle`. In the others the behaviour really ends: the
bound on calls is used up with nothing left to do, a search or a batch is over, an
algorithm is called once; and in `storage` overlapping saves can leave a torn
file, on which no process starts. That nothing stops too early is what the
liveness properties say: `LockIsReleased`, `IndexerEnds`,
`SweepEndsEventually`, `SignalTerminates`, `SaveEnds`, `EmbeddingEnds`, `SearchEnds`.

Fairness. A goroutine that can move is scheduled eventually (`WF` of the main
goroutine's step and of each saver's step, of each goroutine of `EmbedPool`); the
Go scheduler is preemptive, and a mutex in starvation mode passes to the waiter.
The database returns, and so does an embedding request, since the client has a
timeout. For `GrepPipeline` it is enough that some goroutine moves while one can
(`WF` of `Next`): no behaviour of a search is infinite. Nothing is assumed of the
user, of crashes, of signals, or of who starts a process.

### Disagreements with what the repository says

| Run | Quoted | What happens |
|---|---|---|
| `purge_deletes_rows` | db.go:1021 "deletes the existing chunk memories of a specific codebase file" | `purgeStaleMemories` passes an absolute path and the root is joined again; the rows of the file stay, and those of another file that is at the joined path go. |
| `compact_keeps_active` | index.go:64 "only contain active IDs" | a row is committed between the SELECT and `Compact`, which drops its vector. |
| `pruning_keeps_best` | index_test.go:266 "exactly correct closest matches", turboquant.go:553 | the bound on the rest of a score lacks a factor, and its square is compared without regard to the sign: a vector that beats the threshold is dropped. The test's vectors have 64 dimensions, too few for a check to take place. |

Met while modelling, each without a run of its own:

- A saver of an earlier call may commit rows of a file after a later call's purge
  of it (merkle.go:432). It makes no difference while a purge does not find the rows of
  its own file.
- The indexer prints "All changes synced successfully" (cmd/indexer/main.go:97)
  after chunks were dropped by a failing embedding; the tree is stored, so nothing
  retries them. `TreeBacked` has them as `unembedded`.
- The signal handler waits and saves once (cmd/server/main.go:156); a batch the
  sweep starts after the wait misses the file. `exposed` has these.
- A failing SELECT before `Compact` (cmd/server/main.go:106) empties the index.
- `DeleteCallGraph` and the first half of `SaveCallGraph` select by the relative
  path, the rows carry the absolute one (db.go:1195, merkle.go:272): they delete
  nothing and the tables only grow. The proofs rest on it (`NoRowAtRelPath`).
- When a pattern matches an empty line, `scanRegex` looks for the end of the line one
  byte before the match (search.go:258) and slices with a start beyond the end, or
  from -1; `LineScan` has it as the outcome "panic", and `RegexHitsExact` is about the
  patterns that match no empty line.
- The i-th document of a YAML file is labelled i - 1 lines too far down
  (splitter/yaml.go:45); `YamlRangesDrift` states it exactly, and
  splitter_test.go:163 expects the shifted range.
- Rows are scoped by `HasPrefix` without a separator (db.go:802): from `/a`, rows of
  `/ab` are returned. `SearchScoped` excludes such siblings. The limit is applied
  before the scope, so results of other codebases can crowd out one's own.
- A Terraform header inside an active block (one in a heredoc, say), or a block that
  opens and closes on its line, confuses callgraph/tf.go; `TfBlocksExact` is about
  formatted files.

A consequence worth knowing: no purge deletes the rows of its own file, so `TreeBacked`
is not put to the test by a purge that works. `RowsHaveVectors` is, by the purges that
strike another file's rows: the mutant `PurgeFile_VectorsFirst` shows that the order of
the two deletes matters. That `TreeInGraph` rests on deletions that find nothing is shown by
`DeleteCallGraph_FullPath`.

## 4. The proofs

All theorems hold for every value of the constants that the named assumptions
allow. Most assumptions say that a constant has its type; those that say more are
that sets of goroutines, processes, codebases and of the chunks of one content are
finite, that capacities and sizes are positive, that `Absent` is no hash, and, in
`ServerRun`, that the bound on calls leaves each codebase one.

`IndexPipeline_proofs`:

- `TypeCorrect`: `Spec => []TypeOK`, which is inductive. Beyond types it says
  that `dbLock` is free or held by a saver in flight and that the open
  transaction is part of what is pending.
- `TreeIsBacked`: `Spec => []TreeBacked`. Not inductive: when the tree is stored,
  the argument for changed files is what the earlier steps of the call did, and for
  the others that the old tree was the one `delta` was computed from. `IInv` adds
  `DeltaCurrent` (the stored tree has not changed since `Diff`), `JobsFresh`,
  `JobsAccounted` (at `savetree`, the chunks of every file read are accounted for)
  and `Started`. `AccountedGrows` is the lemma that no step loses a chunk; for
  `PurgeFile` it rests on `PurgeStrikes`: whatever rows a purge takes are recorded, and
  their path is a root joined to the absolute path of a file. The theorem says
  nothing of files at such a path; where no codebase holds one, it excuses nothing.
- `RowsAreReachable`: `Spec => []RowsHaveVectors`, with `TxUnderLock`: a purge
  runs while no transaction is open, so what it takes is committed.
- `RowsComeInWholeTransactions`: `Spec => []RowsWholeTransactions`, on `WholeInv`. The
  property compares the rows of a batch, those since purged included (`Written`), with
  what is still pending; the invariant
  adds that counts are of finite sets, that only a batch in flight has an open
  transaction and it is its own, that what is committed came in multiples of
  `TxSize`, and that nothing is committed twice.

`IndexerRun_proofs` about the indexer program, its crashes and restarts:

- `IndexerTypesHold`: `IndexerSpec => []IndexerTypeOK`.
- `SyncedRowsAreDurable`: `IndexerSpec => []DurableVectors`. `LifeInv` adds what
  makes it inductive: `BatchesInv` (a process makes one call, so the only batch in
  flight is that of the last call, and none is in flight once `Wait` has returned) and
  `VectorsInv` (while a process runs, its index holds the vectors of everything
  reported before and of its own rows). `Launch` uses the durability of what was
  reported, `SaveIndex` the index's; in between, `UpdateKeeps` and `SaverKeeps` say
  what the steps of `IndexPipeline` do to rows and vectors.
- `FileOrphansAreFailures`: `IndexerSpec => []OrphansExplained`, from `OrphansInv`, the
  same statement about the index in memory, where open transactions still count.
- `TreeIsBackedAcrossCrashes`: `IndexerSpec => []TreeBacked`. The steps of
  `IndexPipeline` are covered by `IInvStep`; what remains is that the end of a process
  turns what is pending into `unsaved`.

`UpdateKeeps` says of a purge what `PurgeStrikes` does: the rows it takes are `Struck`, and
the `.tqv` file keeps their vectors until the next `SaveIndex`, or for good when the
vectors were not deleted.

`ServerRun_proofs`, on `ServerInv`:

- `ServerTypesHold`: `ServerSpec => []ServerTypeOK`, with `TxUnderLock` and `OwnTx`.
- `SettledRowsStayReachable`: `ServerSpec => []SettledRowsReachable`. A settled row, one
  of a batch that is not `exposed`, has its vector in memory while a server
  runs (`InMemory`), is in the list `Compact` works from once it has been selected
  (`Selected`), and in the file while none runs (`OnDisk`); each is what the next
  needs. `CompactInv` and `ExitInv` say what `exposed` covers at each phase.
- `CompactDropsOrphans`: the action property `CompactLeavesNoOrphans`, from `CompactInv`:
  the ids `Compact` works from are of committed rows, and no purge runs until it
  is done, so these rows stay.

`Files_proofs`, about the way of a file into the index. First `MerkleTree`, on `TreeInv`:
the workspace is a tree (`DiskOK`), and what is stored is a well-formed Merkle tree of
what is recorded (`GoodTree`).

- `DifferenceIsFlat`: `Spec => []DiffIsFlat`, for workspaces of any depth. `BuildIsGood`
  says that the tree that was just built has a file node for each indexable file
  outside skipped directories, no other, and hashes that follow from the children;
  `EqualHashes`, that directories of equal hash have equal subtrees; `DiffTreesIsFlat`,
  that the difference of two well-formed trees is the flat one, pruning and nil trees
  included. Each is an induction over the depth of a path, from the deepest up.

Then the splitter:

- `SplitterIsExact` (`SplitterExact`), for files of any length and lines of any size. The
  hypothesis says that sizes and braces of a line are counts, that only a blank line is
  empty, and that the declarations of go/parser and the statements of tree-sitter are
  ranges of lines of the file, those of Python one after another. `PieceAt` is the
  invariant of `splitLargeChunk`: the pieces so far are where their ranges say and hold
  the text of the lines before the current one, which counts the bytes of its lines, and
  more than `MaxChunkSize` only if it is one line. `TrimIs` says what a trimmed text is,
  `BytesTrim` that it is no larger, `TextTrim` that it is the same text. For YAML, the
  documents so far end where the next begins, and the line counter is ahead by the
  number of separators; for Terraform, a block that is open began at a line before; for
  Python, the group is the lines that are in no chunk yet (`GatherAll`, for files without
  blank or repeated lines, as `PlainParse` has it).

`VectorIndex_proofs`, on `SaveInv`: until saves overlap, one process at most is in
`Save` (`OneSaver`), only it has the temporary file open (`WritesTmp`, `WritesAlone`),
what the file holds so far is what its memory holds (`TmpIsMemory`), and the published
inode is complete (`Loadable`). `FileAlwaysLoads`, `RenamesPublishMemory` and
`StorageTypesHold` follow. `SaveIsARegister` is the refinement `Spec =>
ImplementsVectorFile`: a rename is the abstract save, the other system calls stutter.
`InodeLeft` is the lemma that a finite number of processes leaves an unused inode.

The same module proves five of the properties of `MCAlgorithms` for calls with arguments
of any size; the hypothesis of each theorem says what the arguments are.

- `CodecIsExact` (`CodecExact`): all three ways of unpacking give back what was packed,
  for each width, any dimension and any indices below 2^width. The index at position i
  shares bytes with its neighbours; the lemmas give, for each residue of i, the bytes
  it is in and the arithmetic of taking it out again.
- `SearchIsExact` (`VectorSearchExact`): `VisitKeepsList` is the invariant of the loop over
  the vectors, that the list is the best of those it has met, ranked, and as long as the
  limit allows. `PutRanked` says what an insertion makes of a ranked list: what falls off
  the end of a full one is no better than its new last entry, by the transitivity of the
  order of the quotients (`NoBetterThan`). A score that is not pruned is the whole sum
  (`UnprunedIsScore`), and nothing is pruned before the list is full. The hypothesis on
  the codebook is that it ascends; with equal neighbours the higher of two nearest
  centroids is not always the one found. In `NearestIsNearest`, `HalveEncloses` keeps the
  answer between lo and hi.
- `FusionIsFair` (`FusionRespectsBoth`), for two lists of distinct ids: by
  `BetterRankCounts` the better rank in one list is worth more, by `SumsCompare` so is
  the sum, and a list in the order of the sums keeps that order when it is cut.
- `LexicalIsExact` (`LexicalSearchExact`): the words of a query are those of its trimmed
  text (`SameFields`), and a text that starts and ends without white space and has one
  word is that word (`OneWord`), so each of the three forms of a search finds the same
  lines (`WordsAreFound`). `QueryIs` is the invariant of the loop over the chunks: what is
  found so far are the ids of the rows that hold one of the first k * `GrepChunk` matches.
- `ResultsAreScoped` (`SearchScoped`): two roots above a directory are one above the other,
  in the order of their lengths (`AboveIsChain`), so the longest is the owner (`OwnerIs`);
  whatever the two searches return, `ScopeResults` leaves rows below it only, or none of
  the rows found was loaded (`ScopeIs`).

`CallGraphStore_proofs`: `IndexedFilesAreInGraph` (`TreeInGraph`),
`CallersAndCalleesAgree` (`CallersMirrorCallees`) and `GraphTypesHold`. Nodes carry
absolute paths (`RowsAreNodes`), so that what the writers delete is nothing and the
tables grow; the rest is that at `savetree` each processed file has been saved or is
recorded in `unsynced`, and the others are as the stored tree says. `ReportsAreExact`
is `Spec => []ReportIsExact`, for every graph and depth. `ReportSoFar` is its
invariant: as long as no write has come in between, each walk listed follows the
edges, and each is either still open or has all its extensions listed. When nothing
is open, `ClosedReportIsExact` finds every walk in the list, by induction on its length.

`Texts_proofs`, about what becomes of the texts of files: first the pool that has
them embedded, then the algorithms of `MCAlgorithms` that go through the lines of a file.

- `EmbedTypesHold`; `SlotsAreBounded` (the semaphore counts the goroutines that run, by
  the cardinality of finite sets); `RetriesAreBounded`; and `PoolImplementsBatch`, the
  refinement of `EmbedBatch`: results are stored before the goroutine is done, so when
  the WaitGroup is zero every result is there, and no goroutine is left that could write
  another.
- `ParsersAreExact` (`ParsersExact`), for files of any length and trees of any size. In
  Terraform the headers so far are the declarations so far, and all but the last have
  found the line on which their braces balance; the edges of a declaration are the
  references of the lines between. In YAML each step but the last ends where the next
  begins. In Python, where a parent comes before its children, the nearest class above a
  call is found by going up.
- `ScannersAreExact` (`ScannersExact`), for any text. The lemmas on `Ascending` and
  `Lines` say where the lines of a text are cut and that an offset is in exactly one
  line. The invariant of both buffer scans is that at every turn the reported lines are
  the matching ones before the cursor, and that the number counted is that of the line;
  a turn moves the cursor on, so `Turns` of them are enough. The stream reads the same
  lines, up to the first that is too long.
- `SlicerIsExact` (`SlicerExact`), for a file of any length and any group of rows.
  `SortedIs`: sorting permutes the group and puts it in order. `SmallAt` is the invariant
  of the whole-file slicer (which rows have begun, which have ended, and at which
  offsets), `LargeAt` that of the buffered one (the lines a row has so far); each holds at
  the start and from one newline to the next (`SmallStep`, `LargeStep`). `ReadsAre` says
  what a reader of bounded size has returned by the last line of the longest range.

`GrepPipeline_proofs`:

- `GrepTypesHold`: the types of goroutines, channels and buffers (`Types`).
- `SendersNeverPanic`: `Spec => []SendersFindChannelOpen`. `WalkCounts` is the invariant:
  `walkWg` is at least the number of directories in `dirs`, with walkers and with sender goroutines,
  so it is positive while anybody may still send on the channel that `WalkEnds` closes. `JobsOpen` and
  `WorkersOpen` say the same along the rest of the pipeline.
- `BuffersHaveOneOwner`, on `BufInv`: a buffer is in the pool, with an I/O worker, in
  `scanCh` or with a CPU worker, in one of these places at most (`OneOwner`), and only
  where it can be (`Places`), whichever buffers are made and dropped.
- `GrepImplementsFileSearch`: the refinement `Spec => ImplementsFileSearch`, on
  `SearchInv`. `Accounts` is a balance for each file: its visits are still to come, lost
  or begun, and of each visit that has begun every line is found or on the way. Each
  action has a lemma that moves an amount from one place to the next (`WalkerMeetsDirBalance`
  .. `CollectBalance`). `Ended` says that whoever ends has found its channel closed and
  drained, so that nothing is on the way once the collector is done.

The type invariants of modules other than `IndexPipeline` are proved and not checked
by a run; `MerkleTree` has its types in `DiskOK`. The theorems state every invariant,
action property and refinement that the passing runs check. The hypothesis of a theorem
about an algorithm is what the arguments of a call are; those that `MCAlgorithms`
enumerates satisfy it.

Only model-checked: all liveness, since fairness and ENABLED are beyond the prover, and
the three violations. The library's induction theorems have an operator as a parameter,
which no installed prover can instantiate. Induction over a number, the length of a
walk, the depth of a path or the rounds of a loop, is done by a least counterexample
(`NatInd`, `UpTo`), and loops are written as recursive functions, so that they can be
reasoned about that way (`LoopExists`); the folds of the library cannot be opened.

## 5. What is left

In the order of use: `ReportIsExact` with writers in between, for which the code promises
nothing today and a statement would have to be found; the Go call graph visitor; the
state cache of ggrep's matcher.

## 6. Not modelled

Floating-point numerics of the quantiser, rotation and codebook; the syntax trees of
tree-sitter and go/ast, which are inputs where the code walks them, and the visitor
in callgraph/go.go; the regular expression matcher of ggrep, of which `LineScan` uses
one fact (it stops at the end of the first matching line); `.gitignore` patterns,
which are a constant of `GrepPipeline`; DuckDB itself (a transaction is atomic and
isolated, as the code relies on); the MCP protocol, schemas and formatting; the
migration of old schemas in `InitDatabase`; the command lines of `cmd/semgrep` and
`ggrep/cmd/ggrep`; benchmarks and scripts. `SaveMemory` and `containsFoldASCII` are
called by tests and the self check only, `CreateFTSIndex` by nobody.
