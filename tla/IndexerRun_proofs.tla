------------------------- MODULE IndexerRun_proofs --------------------------
(***************************************************************************)
(* Proofs about IndexerRun: what survives crashes and restarts of the      *)
(* indexer, for every value of the constants.                              *)
(***************************************************************************)
EXTENDS IndexerRun, IndexPipeline_proofs

USE DEF Batch, Item, FileHash, Delta, Job, Returned, MainState

\* Once UpdateIndex has begun, and as long as the process has not ended.
Called == phase \in {"update", "wait", "save", "success"}

(***************************************************************************)
(* One process makes one call, so the only batch in flight is that of the  *)
(* last call; no batch in flight has been reported as synced.              *)
(***************************************************************************)
BatchesInv ==
  /\ inflight \subseteq {runs}
  /\ inflight # {} => phase \in {"update", "wait"}
  /\ \A i \in pending : i.batch \in inflight
  /\ \A r \in rows : r.batch <= runs
  /\ finished \subseteq 1 .. runs
  /\ Called => runs # 0
  /\ phase \in {"update", "wait", "save"} => runs \notin finished

(***************************************************************************)
(* While a process runs, its index holds the vectors of what earlier       *)
(* processes have reported, of its own rows and of the open transaction.   *)
(***************************************************************************)
Owned(r) == r.batch \in finished \/ (Called /\ r.batch = runs)
VectorsInv ==
  /\ staged \subseteq vectors \cup unadded
  /\ phase # "off" => \A r \in rows : Owned(r) => r \in vectors \cup unadded

\* A vector in memory has its row, is about to get it, its saver failed, or a purge
\* whose list of ids broke off took the row only.
OrphansInv == vectors \subseteq rows \cup pending \cup unsaved \cup Struck



LifeInv == BatchesInv /\ VectorsInv /\ OrphansInv /\ TxUnderLock /\ DurableVectors /\ OrphansExplained

LEMMA IndexerTypeInit == IndexerInit => IndexerTypeOK
  BY TypeInit DEF IndexerInit, IndexerTypeOK, Init

\* The steps of UpdateIndex and of the savers are steps of IndexPipeline.
LEMMA PipelineSteps ==
  ASSUME \/ \E c \in Codebase : StartUpdate(c)
         \/ UpdateStep
         \/ \E n \in Batch : SaverStep(n)
         \/ Environment
         \/ UNCHANGED vars
  PROVE  [Next]_vars
  BY DEF Next

LEMMA ProcessEndsTypes ==
  ASSUME TypeOK, ProcessEnds, faults' \in 0 .. MaxFaults
  PROVE  TypeOK'
  BY DEF TypeOK, ProcessEnds, NoFiles, NoDelta, dbVars

LEMMA IndexerTypeStep ==
  ASSUME IndexerTypeOK, BatchesInv, [IndexerNext]_allVars
  PROVE  IndexerTypeOK'
<1> USE PipelineAssumption DEF IndexerTypeOK, dbVars, saverVars, mainVars, histVars, indexerVars
<1>1. CASE Launch
  BY <1>1 DEF Launch, TypeOK
<1>2. ASSUME NEW c \in Codebase, Begin(c) PROVE IndexerTypeOK'
  <2>1. TypeOK'
    BY <1>2, TypeStep, PipelineSteps DEF Begin
  <2>2. runs \in Nat /\ runs' = runs + 1
    BY <1>2 DEF Begin, StartUpdate, TypeOK
  <2> QED
    BY <1>2, <2>1, <2>2 DEF Begin
<1>3. CASE UpdateStep /\ UNCHANGED indexerVars
  <2>1. TypeOK'
    BY <1>3, TypeStep, PipelineSteps
  <2>2. pc # "idle" /\ runs' = runs
    BY <1>3
    DEF UpdateStep, ScanFile, PurgeFile, PrepareFile, StartEmptyPurge, Diff, SaveEmptyTree,
        EndPurge, SkipEmbedding, StartEmbedding, EmbedAndLaunch, SaveTree
  <2> QED
    BY <1>3, <2>1, <2>2
<1>4. CASE UpdateSucceeded
  BY <1>4 DEF UpdateSucceeded, TypeOK
<1>5. CASE UpdateFailed \/ Exit \/ Crash
  <2>1. ProcessEnds /\ phase' = "off" /\ UNCHANGED <<tqv, finished>>
    BY <1>5 DEF UpdateFailed, Exit, Crash
  <2>2. faults' \in 0 .. MaxFaults
    BY <1>5, FaultsType DEF UpdateFailed, Exit, Crash, TypeOK, Succeed
  <2> QED
    BY <2>1, <2>2, ProcessEndsTypes DEF ProcessEnds
<1>6. CASE WaitReturns
  BY <1>6 DEF WaitReturns, vars, TypeOK
<1>7. CASE SaveIndex
  <2>1. CASE Fail /\ ProcessEnds /\ phase' = "off" /\ UNCHANGED <<tqv, finished>>
    <3>1. faults' \in 0 .. MaxFaults
      BY <2>1, FaultsType DEF TypeOK
    <3> QED
      BY <2>1, <3>1, ProcessEndsTypes DEF ProcessEnds
  <2>2. CASE /\ Succeed /\ tqv' = vectors /\ finished' = finished \cup {runs} /\ phase' = "success"
             /\ UNCHANGED <<files, dbVars, vectors, mainVars, saverVars, runs, edits, histVars>>
    <3>1. TypeOK' /\ UNCHANGED <<pc, runs, inflight>>
      BY <2>2 DEF Succeed, TypeOK
    <3>2. pc = "idle" /\ runs \in 1 .. runs
      BY <1>7 DEF SaveIndex, BatchesInv, Called, TypeOK
    <3> QED
      BY <2>2, <3>1, <3>2 DEF TypeOK
  <2> QED
    BY <1>7, <2>1, <2>2 DEF SaveIndex
<1>8. ASSUME NEW n \in Batch, SaverStep(n), UNCHANGED indexerVars PROVE IndexerTypeOK'
  <2>1. TypeOK'
    BY <1>8, TypeStep, PipelineSteps
  <2>2. phase # "off" /\ UNCHANGED <<pc, runs>>
    BY <1>8 DEF SaverStep, SaverLock, SaverBegin, SaverInsert, SaverCommit, SaverDone
  <2> QED
    BY <1>8, <2>1, <2>2
<1>9. CASE Environment /\ UNCHANGED indexerVars
  <2>1. TypeOK'
    BY <1>9, TypeStep, PipelineSteps
  <2> QED
    BY <1>9, <2>1 DEF Environment, Edit
<1>10. CASE UNCHANGED allVars
  BY <1>10 DEF allVars, vars, TypeOK
<1> QED
  BY <1>1, <1>2, <1>3, <1>4, <1>5, <1>6, <1>7, <1>8, <1>9, <1>10 DEF IndexerNext, MainStep

HIDE DEF Batch, Item, FileHash, Delta, Job, Returned, MainState

(***************************************************************************)
(* What the steps of IndexPipeline do to rows, vectors and batches.        *)
(***************************************************************************)
Mine == {i \in Item : i.batch = runs}

\* UpdateIndex adds no row and no vector, and takes a vector only with its row, which is
\* struck then, and never while a transaction is open; it launches one batch.
LEMMA UpdateKeeps ==
  ASSUME TypeOK, TxUnderLock, UpdateStep
  PROVE  /\ UNCHANGED <<staged, unadded, unsaved, runs>> /\ TxUnderLock'
         /\ rows' \subseteq rows /\ vectors' \subseteq vectors
         /\ purged \subseteq purged' /\ rows \ rows' \subseteq Struck'
         /\ \A r \in rows' \cup staged : r \in vectors => r \in vectors'
         /\ \/ UNCHANGED <<inflight, pending>>
            \/ inflight' = inflight \cup {runs} /\ pending \subseteq pending'
               /\ pending' \subseteq pending \cup Mine
<1> USE DEF saverVars, dbVars, histVars
<1>1. ASSUME NEW f \in File, PurgeFile(f)
      PROVE  /\ UNCHANGED <<tx, dbLock, staged, unadded, unsaved, runs, inflight, pending>>
             /\ rows' \subseteq rows /\ vectors' \subseteq vectors
             /\ purged \subseteq purged' /\ rows \ rows' \subseteq Struck'
             /\ \A r \in rows' \cup staged : r \in vectors => r \in vectors'
  <2>1. staged = {}
    BY <1>1 DEF PurgeFile, DbFree, TxUnderLock, TypeOK
  <2>2. \A r \in rows' : r \in vectors => r \in vectors'
    BY <1>1 DEF PurgeFile
  <2>3. UNCHANGED <<tx, dbLock, staged, unadded, unsaved, runs, inflight, pending>>
    BY <1>1 DEF PurgeFile
  <2>4. vectors' \subseteq vectors
    BY <1>1 DEF PurgeFile
  <2> QED
    BY <1>1, <2>1, <2>2, <2>3, <2>4, PurgeStrikes
<1>2. ASSUME NEW bad \in SUBSET JobItems, EmbedAndLaunch(bad)
      PROVE  \/ UNCHANGED <<inflight, pending>>
             \/ inflight' = inflight \cup {runs} /\ pending \subseteq pending'
                /\ pending' \subseteq pending \cup Mine
  <2>1. JobItems \subseteq Mine
    BY DEF JobItems, Mine
  <2> QED
    BY <1>2, <2>1 DEF EmbedAndLaunch
<1>3. ASSUME NEW bad \in SUBSET JobItems, EmbedAndLaunch(bad)
      PROVE  UNCHANGED <<rows, purged, vectors, tx, dbLock, staged, unadded, unsaved, runs>>
  BY <1>3 DEF EmbedAndLaunch
<1>4. ASSUME \/ \E f \in File : ScanFile(f) \/ PrepareFile(f)
             \/ StartEmptyPurge \/ Diff \/ SaveEmptyTree \/ EndPurge
             \/ SkipEmbedding \/ StartEmbedding \/ SaveTree
      PROVE  UNCHANGED <<rows, purged, vectors, tx, dbLock, staged, unadded, unsaved, runs,
                         inflight, pending>>
  BY <1>4
  DEF ScanFile, PrepareFile, StartEmptyPurge, Diff, SaveEmptyTree, EndPurge,
      SkipEmbedding, StartEmbedding, SaveTree
<1>5. ASSUME UNCHANGED <<tx, dbLock>> PROVE TxUnderLock'
  BY <1>5 DEF TxUnderLock
<1>6. CASE \E f \in File : PurgeFile(f)
  BY <1>1, <1>5, <1>6
<1>7. CASE \E bad \in SUBSET JobItems : EmbedAndLaunch(bad)
  BY <1>2, <1>3, <1>5, <1>7
<1> QED
  BY <1>4, <1>5, <1>6, <1>7 DEF UpdateStep

\* A saver takes chunks out of pending: into the rows once their vectors are in the
\* index, or out of the program when it fails.
LEMMA SaverKeeps ==
  ASSUME TypeOK, TxUnderLock, NEW n \in Batch, SaverStep(n), staged \subseteq vectors \cup unadded
  PROVE  /\ n \in inflight
         /\ UNCHANGED <<runs, purged>> /\ TxUnderLock'
         /\ rows \subseteq rows' /\ rows' \subseteq rows \cup staged
         /\ vectors \subseteq vectors' /\ vectors' \subseteq vectors \cup pending'
         /\ unadded \subseteq unadded' /\ unsaved \subseteq unsaved'
         /\ staged' \subseteq vectors' \cup unadded'
         /\ pending' \subseteq pending
         /\ pending \subseteq rows' \cup pending' \cup unsaved'
         /\ \/ inflight' = inflight
            \/ inflight' = inflight \ {n} /\ pending' = pending \ PendingOf(n)
<1> DEFINE Goal == /\ UNCHANGED runs
                   /\ rows \subseteq rows' /\ rows' \subseteq rows \cup staged
                   /\ vectors \subseteq vectors' /\ vectors' \subseteq vectors \cup pending'
                   /\ unadded \subseteq unadded' /\ unsaved \subseteq unsaved'
                   /\ staged' \subseteq vectors' \cup unadded'
                   /\ pending' \subseteq pending
                   /\ pending \subseteq rows' \cup pending' \cup unsaved'
                   /\ \/ inflight' = inflight
                      \/ inflight' = inflight \ {n} /\ pending' = pending \ PendingOf(n)
<1> USE DEF TypeOK, dbVars, histVars
<1>1. ASSUME SaverReturns(n), UNCHANGED <<rows, vectors, unadded, runs>> PROVE Goal
  <2>1. pending \subseteq rows' \cup pending' \cup unsaved'
    BY <1>1 DEF SaverReturns
  <2>2. pending' \subseteq pending /\ unsaved \subseteq unsaved' /\ staged' = {}
    BY <1>1 DEF SaverReturns
  <2>3. inflight' = inflight \ {n} /\ pending' = pending \ PendingOf(n)
    BY <1>1 DEF SaverReturns
  <2> QED
    BY <1>1, <2>1, <2>2, <2>3
<1>2. ASSUME SaverLock(n) PROVE Goal
  BY <1>1, <1>2 DEF SaverLock
<1>3. ASSUME SaverBegin(n) PROVE Goal
  BY <1>1, <1>3 DEF SaverBegin
<1>4. ASSUME NEW i \in tx, SaverInsert(n, i) PROVE Goal
  BY <1>1, <1>4 DEF SaverInsert
<1>5. ASSUME SaverCommit(n) PROVE Goal
  BY <1>1, <1>5 DEF SaverCommit
<1>6. ASSUME SaverDone(n) PROVE Goal
  BY <1>1, <1>6 DEF SaverDone
<1>7. n \in inflight
  BY DEF SaverStep
<1>8. UNCHANGED purged
  BY DEF SaverStep, SaverLock, SaverBegin, SaverInsert, SaverCommit, SaverDone
<1>9. TxUnderLock'
  BY DEF SaverStep, SaverLock, SaverBegin, SaverInsert, SaverCommit, SaverDone, SaverReturns,
         TxUnderLock
<1> QED
  BY <1>2, <1>3, <1>4, <1>5, <1>6, <1>7, <1>8, <1>9 DEF SaverStep

(***************************************************************************)
(* LifeInv is kept, one group of steps after another.                      *)
(***************************************************************************)
LEMMA LifeInit == IndexerInit => LifeInv
  BY DEF IndexerInit, Init, LifeInv, BatchesInv, VectorsInv, OrphansInv, TxUnderLock,
         DurableVectors, OrphansExplained, Called

LEMMA LifeLaunch ==
  ASSUME IndexerTypeOK, LifeInv, Launch
  PROVE  LifeInv'
<1>1. UNCHANGED <<rows, purged>> /\ Struck' = Struck
  BY DEF Launch, dbVars, Struck
<1> QED
  BY <1>1
  DEF Launch, IndexerTypeOK, LifeInv, BatchesInv, VectorsInv, OrphansInv, TxUnderLock,
      DurableVectors, OrphansExplained, Called, Owned, dbVars, saverVars, histVars

LEMMA LifeBegin ==
  ASSUME IndexerTypeOK, LifeInv, NEW c \in Codebase, Begin(c)
  PROVE  LifeInv'
<1>1. /\ runs \in Nat /\ runs' = runs + 1 /\ phase = "start" /\ phase' = "update"
      /\ inflight = {}
      /\ UNCHANGED <<rows, purged, vectors, tx, dbLock, staged, unadded, unsaved, inflight,
                     pending, tqv, finished>>
  BY PipelineAssumption
  DEF Begin, StartUpdate, IndexerTypeOK, TypeOK, LifeInv, BatchesInv, dbVars, saverVars, histVars
<1>2. \A r \in rows : r.batch \in Nat /\ r.batch # runs'
  <2>1. \A r \in rows : r.batch \in Nat /\ r.batch <= runs
    BY PipelineAssumption DEF LifeInv, BatchesInv, IndexerTypeOK, TypeOK, Item, Batch
  <2> QED
    BY <1>1, <2>1
<1>3. BatchesInv'
  <2>1. finished' \subseteq 1 .. runs' /\ runs' \notin finished'
    BY <1>1 DEF IndexerTypeOK
  <2>2. \A r \in rows' : r.batch <= runs'
    BY <1>1, <1>2 DEF LifeInv, BatchesInv
  <2> QED
    BY <1>1, <2>1, <2>2 DEF LifeInv, BatchesInv
<1>4. VectorsInv'
  BY <1>1, <1>2 DEF LifeInv, VectorsInv, Owned, Called
<1>5. Struck' = Struck
  BY <1>1 DEF Struck
<1> QED
  BY <1>1, <1>3, <1>4, <1>5 DEF LifeInv, OrphansInv, TxUnderLock, DurableVectors, OrphansExplained

LEMMA LifeUpdate ==
  ASSUME IndexerTypeOK, LifeInv, UpdateStep, UNCHANGED indexerVars
  PROVE  LifeInv'
<1>1. pc # "idle" /\ phase = "update"
  BY DEF UpdateStep, ScanFile, PurgeFile, PrepareFile, StartEmptyPurge, Diff, SaveEmptyTree,
         EndPurge, SkipEmbedding, StartEmbedding, EmbedAndLaunch, SaveTree, IndexerTypeOK
<1>2. TypeOK /\ TxUnderLock
  BY DEF IndexerTypeOK, LifeInv
<1>3. /\ UNCHANGED <<staged, unadded, unsaved, runs, phase, tqv, finished>> /\ TxUnderLock'
      /\ rows' \subseteq rows /\ vectors' \subseteq vectors
      /\ \A r \in rows' \cup staged : r \in vectors => r \in vectors'
  BY <1>2, UpdateKeeps DEF indexerVars
<1>4. pending \subseteq pending' /\ rows \subseteq rows' \cup Struck' /\ Struck \subseteq Struck'
  BY <1>2, UpdateKeeps, StruckStays
<1>5. BatchesInv'
  <2>1. CASE UNCHANGED <<inflight, pending>>
    BY <1>3, <2>1 DEF LifeInv, BatchesInv, Called
  <2>2. CASE inflight' = inflight \cup {runs} /\ pending' \subseteq pending \cup Mine
    <3>1. \A i \in pending' : i.batch \in inflight'
      BY <2>2 DEF LifeInv, BatchesInv, Mine
    <3> QED
      BY <1>1, <1>3, <2>2, <3>1 DEF LifeInv, BatchesInv, Called
  <2> QED
    BY <1>2, <2>1, <2>2, UpdateKeeps
<1>6. OrphansInv' /\ OrphansExplained'
  BY <1>3, <1>4 DEF LifeInv, OrphansInv, OrphansExplained
<1>7. VectorsInv' /\ DurableVectors'
  BY <1>3 DEF LifeInv, VectorsInv, DurableVectors, Owned, Called
<1> QED
  BY <1>3, <1>5, <1>6, <1>7 DEF LifeInv

LEMMA LifeSaver ==
  ASSUME IndexerTypeOK, LifeInv, NEW n \in Batch, SaverStep(n), UNCHANGED indexerVars
  PROVE  LifeInv'
<1>1. TypeOK /\ TxUnderLock /\ staged \subseteq vectors \cup unadded
  BY DEF IndexerTypeOK, LifeInv, VectorsInv
<1>2. /\ n = runs /\ UNCHANGED <<runs, phase, tqv, finished>>
      /\ phase \in {"update", "wait"} /\ runs \notin finished
  BY <1>1, SaverKeeps DEF LifeInv, BatchesInv, indexerVars
<1>3. staged \subseteq pending /\ pending \subseteq Item
  BY <1>1 DEF TypeOK
<1>4. \A r \in rows' : r \in rows \/ (r \in staged /\ r.batch = runs)
  <2>1. rows' \subseteq rows \cup staged
    BY <1>1, SaverKeeps
  <2>2. \A i \in staged : i.batch = runs
    BY <1>3 DEF LifeInv, BatchesInv
  <2> QED
    BY <2>1, <2>2
<1>5. BatchesInv'
  <2>1. \A i \in pending' : i.batch \in inflight'
    BY <1>1, SaverKeeps DEF LifeInv, BatchesInv, PendingOf
  <2>2. \A r \in rows' : r.batch <= runs
    BY <1>1, <1>4 DEF LifeInv, BatchesInv, TypeOK
  <2>3. inflight' \subseteq inflight
    BY <1>1, SaverKeeps
  <2> QED
    BY <1>2, <2>1, <2>2, <2>3 DEF LifeInv, BatchesInv, Called
<1>6. VectorsInv'
  BY <1>1, <1>2, <1>4, SaverKeeps DEF LifeInv, VectorsInv, Owned, Called
<1>7. OrphansInv' /\ OrphansExplained' /\ TxUnderLock'
  <2>1. Struck' = Struck
    BY <1>1, SaverKeeps DEF Struck
  <2> QED
    BY <1>1, <1>2, <2>1, SaverKeeps DEF LifeInv, OrphansInv, OrphansExplained
<1>8. DurableVectors'
  BY <1>1, <1>2, <1>4, SaverKeeps DEF LifeInv, DurableVectors
<1> QED
  BY <1>5, <1>6, <1>7, <1>8 DEF LifeInv

\* Nothing that is in the file or in the rows depends on the process.
LEMMA LifeEnds ==
  ASSUME IndexerTypeOK, LifeInv, ProcessEnds, phase' = "off", UNCHANGED <<tqv, finished>>
  PROVE  LifeInv'
<1>1. UNCHANGED <<rows, purged>> /\ Struck' = Struck
  BY DEF ProcessEnds, dbVars, Struck
<1> QED
  BY <1>1
  DEF ProcessEnds, LifeInv, BatchesInv, VectorsInv, OrphansInv, TxUnderLock, DurableVectors,
      OrphansExplained, Called, Owned, dbVars

\* When the file is written no saver runs: the index holds nothing of an open transaction.
LEMMA LifeSave ==
  ASSUME IndexerTypeOK, LifeInv, SaveIndex
  PROVE  LifeInv'
<1>1. CASE ProcessEnds /\ phase' = "off" /\ UNCHANGED <<tqv, finished>>
  BY <1>1, LifeEnds
<1>2. CASE /\ tqv' = vectors /\ finished' = finished \cup {runs} /\ phase' = "success"
           /\ UNCHANGED <<dbVars, vectors, saverVars, runs, histVars>>
  <2>1. inflight = {} /\ pending = {} /\ phase = "save" /\ runs # 0
    BY DEF SaveIndex, LifeInv, BatchesInv, Called
  <2>2. runs \in 1 .. runs
    BY <2>1, PipelineAssumption DEF IndexerTypeOK, TypeOK
  <2>3. BatchesInv'
    BY <1>2, <2>1, <2>2 DEF LifeInv, BatchesInv, Called, dbVars, saverVars
  <2>4. UNCHANGED <<rows, unadded, unsaved, pending>>
    BY <1>2 DEF dbVars, saverVars, histVars
  <2>5. OrphansExplained' /\ OrphansInv' /\ TxUnderLock'
    <3>1. Struck' = Struck
      BY <1>2 DEF Struck, dbVars
    <3> QED
      BY <1>2, <2>1, <2>4, <3>1 DEF LifeInv, OrphansInv, OrphansExplained, TxUnderLock, saverVars
  <2>6. DurableVectors'
    <3>1. \A r \in rows : r.batch \in finished \cup {runs} => r \in vectors \cup unadded
      BY <2>1 DEF LifeInv, VectorsInv, Owned, Called
    <3> QED
      BY <1>2, <2>4, <3>1 DEF DurableVectors
  <2>7. VectorsInv'
    BY <1>2, <2>1 DEF LifeInv, VectorsInv, Owned, Called, dbVars, saverVars, histVars
  <2> QED
    BY <2>3, <2>5, <2>6, <2>7 DEF LifeInv
<1> QED
  BY <1>1, <1>2 DEF SaveIndex

LEMMA LifeStep ==
  ASSUME IndexerTypeOK, LifeInv, [IndexerNext]_allVars
  PROVE  LifeInv'
<1> DEFINE Kept == /\ UNCHANGED <<rows, purged, vectors, tx, dbLock, staged, unadded, unsaved,
                                  runs, inflight, pending, tqv, finished>>
                   /\ \/ phase' = phase
                      \/ phase = "update" /\ phase' = "wait"
                      \/ phase = "wait" /\ phase' = "save" /\ inflight = {}
<1>1. ASSUME Kept PROVE LifeInv'
  <2>1. Struck' = Struck
    BY <1>1 DEF Struck
  <2> QED
    BY <1>1, <2>1
    DEF LifeInv, BatchesInv, VectorsInv, OrphansInv, TxUnderLock, DurableVectors,
        OrphansExplained, Called, Owned
<1>2. CASE UpdateSucceeded \/ WaitReturns \/ UNCHANGED allVars
  <2>1. Kept
    BY <1>2
    DEF UpdateSucceeded, WaitReturns, allVars, vars, indexerVars, dbVars, saverVars, histVars
  <2> QED
    BY <1>1, <2>1
<1>3. CASE Environment /\ UNCHANGED indexerVars
  <2>1. Kept
    BY <1>3 DEF Environment, Edit, indexerVars, dbVars, saverVars, histVars
  <2> QED
    BY <1>1, <2>1
<1>4. CASE UpdateFailed \/ Exit \/ Crash
  BY <1>4, LifeEnds DEF UpdateFailed, Exit, Crash
<1> QED
  BY <1>2, <1>3, <1>4, LifeLaunch, LifeBegin, LifeUpdate, LifeSaver, LifeSave
  DEF IndexerNext, MainStep

LEMMA LifeInvariance == IndexerSpec => [](IndexerTypeOK /\ LifeInv)
<1>1. IndexerInit => IndexerTypeOK /\ LifeInv
  BY IndexerTypeInit, LifeInit
<1>2. IndexerTypeOK /\ LifeInv /\ [IndexerNext]_allVars => (IndexerTypeOK /\ LifeInv)'
  BY IndexerTypeStep, LifeStep DEF LifeInv
<1> QED
  BY <1>1, <1>2, PTL DEF IndexerSpec

\* Every variable keeps its type across crashes, failed runs and restarts; nothing of
\* the call or of its saver outlives the process (cmd/indexer).
THEOREM IndexerTypesHold == IndexerSpec => []IndexerTypeOK
  BY LifeInvariance, PTL

\* What a process has reported as synced stays searchable: every later process loads the
\* .tqv file before it replaces it, and replaces it only after AsyncSaveWG.Wait, so no
\* crash, failed save or failed UpdateIndex ever takes the vector of such a row away.
THEOREM SyncedRowsAreDurable == IndexerSpec => []DurableVectors
<1>1. LifeInv => DurableVectors
  BY DEF LifeInv
<1> QED
  BY <1>1, LifeInvariance, PTL

\* The .tqv file never holds a vector of a transaction that is still open: a vector
\* in it without a row belongs to a chunk whose saver failed (SaveMemoriesBatch adds
\* the vector before the commit and does not take it back on a rollback), or whose row
\* was at a path with the root joined twice when DeleteFileMemories deleted it: the
\* file keeps that vector at least until it is written again.
THEOREM FileOrphansAreFailures == IndexerSpec => []OrphansExplained
<1>1. LifeInv => OrphansExplained
  BY DEF LifeInv
<1> QED
  BY <1>1, LifeInvariance, PTL
(***************************************************************************)
(* TreeBacked.  The steps of main outside UpdateIndex either leave the     *)
(* variables of IndexPipeline alone or end the process; then what was      *)
(* pending is accounted for as unsaved, and the stored tree stays.         *)
(***************************************************************************)
LEMMA BackedEnds ==
  ASSUME IInv, ProcessEnds
  PROVE  CallInv' /\ JobsAccounted' /\ TreeBacked'
<1>1. CallInv' /\ JobsAccounted'
  BY DEF ProcessEnds, CallInv, Started, DeltaCurrent, JobsFresh, TxUnderLock, JobsAccounted
<1>2. Accounted \subseteq Accounted'
  <2>1. Struck' = Struck
    BY DEF ProcessEnds, dbVars, Struck
  <2> QED
    BY <2>1 DEF ProcessEnds, Accounted, dbVars
<1>3. UNCHANGED <<trees, skewed, runs>>
  BY DEF ProcessEnds, dbVars
<1>4. ASSUME NEW c, NEW f, NEW v, IndexedAs(c, f, v) PROVE IndexedAs(c, f, v)'
  BY <1>2, <1>3, <1>4 DEF IndexedAs, ChunksIn
<1>5. TreeBacked'
  <2> SUFFICES ASSUME NEW c \in Codebase, NEW f \in File,
                      trees[c][f] # Absent, <<c, f>> \notin skewed
               PROVE  \E v \in Version : HashOf[v] = trees[c][f] /\ IndexedAs(c, f, v)'
    BY <1>3 DEF TreeBacked
  <2>1. PICK v \in Version : HashOf[v] = trees[c][f] /\ IndexedAs(c, f, v)
    BY DEF IInv, TreeBacked
  <2> QED
    BY <1>4, <2>1
<1> QED
  BY <1>1, <1>5

LEMMA BackedStep ==
  ASSUME IndexerTypeOK, LifeInv, IInv, [IndexerNext]_allVars
  PROVE  IInv'
<1>1. CASE [Next]_vars
  BY <1>1, IInvStep
<1>2. CASE ProcessEnds
  <2>1. TypeOK'
    BY IndexerTypeStep DEF LifeInv, IndexerTypeOK
  <2> QED
    BY <1>2, <2>1, BackedEnds DEF IInv
<1>3. CASE Launch
  <2>1. TypeOK'
    BY IndexerTypeStep DEF LifeInv, IndexerTypeOK
  <2>2. Struck' = Struck
    BY <1>3 DEF Launch, dbVars, Struck
  <2> QED
    BY <1>3, <2>1, <2>2
    DEF Launch, IInv, CallInv, Started, DeltaCurrent, JobsFresh, TxUnderLock, JobsAccounted,
        TreeBacked, IndexedAs, ChunksIn, Accounted, JobItems, dbVars, mainVars, saverVars, histVars
<1>4. ASSUME NEW c \in Codebase, Begin(c) PROVE [Next]_vars
  BY <1>4 DEF Begin, Next
<1>5. CASE UpdateSucceeded
  BY <1>1, <1>5 DEF UpdateSucceeded, Return, Returned, Next
<1>6. CASE SaveIndex
  BY <1>1, <1>2, <1>6
  DEF SaveIndex, Succeed, vars, dbVars, mainVars, saverVars, histVars
<1> QED
  BY <1>1, <1>2, <1>3, <1>4, <1>5, <1>6
  DEF IndexerNext, MainStep, UpdateFailed, WaitReturns, Exit, Crash, allVars, Next

\* Crashes, failed runs and restarts included, the stored Merkle tree never promises
\* more than was indexed: a file of the tree has all chunks of a content with the
\* recorded hash in the database, on their way, lost to a recorded failure or to the end
\* of a process, or struck by the purge of another file (cmd/indexer, which stores the
\* tree before the savers are done).
THEOREM TreeIsBackedAcrossCrashes == IndexerSpec => []TreeBacked
<1>1. IndexerInit => IInv
  BY IInvInit DEF IndexerInit
<1>2. IndexerTypeOK /\ LifeInv /\ IInv /\ [IndexerNext]_allVars => IInv'
  BY BackedStep
<1>3. IInv => TreeBacked
  BY DEF IInv
<1> QED
  BY <1>1, <1>2, <1>3, LifeInvariance, PTL DEF IndexerSpec
============================================================================
