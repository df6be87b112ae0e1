------------------------ MODULE IndexPipeline_proofs ------------------------
(***************************************************************************)
(* Proofs about IndexPipeline, for every value of its constants: any       *)
(* number of codebases, files and contents, any transaction size and any   *)
(* bounds on runs, edits and faults.                                       *)
(***************************************************************************)
EXTENDS IndexPipeline, FiniteSetTheorems, TLAPS

USE DEF Batch, Item, FileHash, Delta, Job, Returned, MainState

LEMMA TypeInit == Init => TypeOK
  BY PipelineAssumption DEF Init, TypeOK, NoFiles, NoDelta

\* The conjuncts of TypeOK a saver that returns touches.
SaverTypes ==
  /\ inflight \subseteq 1 .. runs /\ dbLock \in inflight \cup {0}
  /\ pending \subseteq Item /\ tx \subseteq pending /\ staged \subseteq tx
  /\ unsaved \subseteq Item

LEMMA ReturnsTypes ==
  ASSUME SaverTypes, NEW n, SaverReturns(n), UNCHANGED runs
  PROVE  SaverTypes'
  BY DEF SaverTypes, SaverReturns, PendingOf

LEMMA JobItemsTyped ==
  /\ JobItems \subseteq Item
  /\ JobItems # {} => runs \in Batch /\ runs \in 1 .. runs
<1>1. JobItems \subseteq Item
  BY DEF JobItems
<1>2. ASSUME NEW i \in JobItems PROVE runs \in Batch
  <2>1. i \in Item /\ i.batch = runs
    BY DEF JobItems
  <2> QED
    BY <2>1
<1> QED
  BY <1>1, <1>2, PipelineAssumption DEF PipelineAssumption

LEMMA FaultsType ==
  ASSUME faults \in 0 .. MaxFaults, MaxFaults \in Nat, Succeed \/ Fail
  PROVE  faults' \in 0 .. MaxFaults
  BY DEF Succeed, Fail

LEMMA TypeStep == TypeOK /\ [Next]_vars => TypeOK'
<1> SUFFICES ASSUME TypeOK, [Next]_vars PROVE TypeOK'
  OBVIOUS
<1> USE PipelineAssumption DEF TypeOK, mainVars, saverVars, dbVars, histVars
<1>1. ASSUME NEW c \in Codebase, StartUpdate(c) PROVE TypeOK'
  BY <1>1 DEF StartUpdate, Succeed, Fail, NoFiles, NoDelta
<1>f. ASSUME NEW f \in File PROVE files[Resolved(cb, f)] \in Version \cup {Absent}
  BY DEF Place
<1>2. ASSUME NEW f \in File, ScanFile(f) PROVE TypeOK'
  BY <1>2, <1>f DEF ScanFile, Succeed, Fail
<1>3. ASSUME NEW f \in File, PurgeFile(f) PROVE TypeOK'
  <2>1. RowsAt(Join(Root(cb), NodePath(cb, f))) \subseteq Item
    BY DEF RowsAt
  <2>2. rows' \subseteq Item /\ purged' \subseteq Item /\ vectors' \subseteq Item
    BY <1>3, <2>1 DEF PurgeFile
  <2>3. faults' \in 0 .. MaxFaults
    BY <1>3, FaultsType DEF PurgeFile
  <2> QED
    BY <1>3, <2>2, <2>3 DEF PurgeFile
<1>4. ASSUME NEW f \in File, PrepareFile(f) PROVE TypeOK'
  BY <1>4, <1>f DEF PrepareFile, Succeed, Fail
<1>5. ASSUME StartEmptyPurge PROVE TypeOK'
  BY <1>5 DEF StartEmptyPurge, Succeed, Fail
<1>6. ASSUME Diff PROVE TypeOK'
  BY <1>6 DEF Diff, DiffOf, Succeed, Fail
<1>7. ASSUME SaveEmptyTree PROVE TypeOK'
  BY SMTT(20), <1>7 DEF SaveEmptyTree, NoFiles, Succeed, Fail
<1>8. ASSUME EndPurge PROVE TypeOK'
  BY <1>8 DEF EndPurge, ToProcess
<1>9. ASSUME SkipEmbedding PROVE TypeOK'
  BY <1>9 DEF SkipEmbedding
<1>10. ASSUME StartEmbedding PROVE TypeOK'
  BY <1>10 DEF StartEmbedding
<1>11. ASSUME NEW bad \in SUBSET JobItems, EmbedAndLaunch(bad) PROVE TypeOK'
  <2>1. JobItems \subseteq Item /\ (JobItems # {} => runs \in 1 .. runs)
    BY JobItemsTyped
  <2>2. (pending \cup JobItems) \subseteq Item /\ unembedded' \subseteq Item
    BY <1>11, <2>1 DEF EmbedAndLaunch
  <2>3. pending' \subseteq Item /\ tx' \subseteq pending' /\ staged' \subseteq tx'
    BY <1>11, <2>2 DEF EmbedAndLaunch
  <2>4. inflight' \subseteq 1 .. runs' /\ dbLock' \in inflight' \cup {0}
    BY <1>11, <2>1 DEF EmbedAndLaunch
  <2> QED
    BY <1>11, <2>2, <2>3, <2>4, FaultsType DEF EmbedAndLaunch
<1>12. ASSUME SaveTree PROVE TypeOK'
  BY <1>12 DEF SaveTree, SkewedNow, ToProcess, Succeed, Fail
<1>13. ASSUME Return PROVE TypeOK'
  BY <1>13 DEF Return
<1>14. ASSUME NEW n \in Batch, n \in inflight, SaverLock(n) PROVE TypeOK'
  <2>1. SaverTypes'
    <3>1. CASE SaverReturns(n)
      BY <1>14, <3>1, ReturnsTypes DEF SaverLock, SaverTypes
    <3>2. CASE dbLock' = n /\ UNCHANGED <<inflight, pending, tx, staged, unsaved>>
      BY <1>14, <3>2 DEF SaverLock, SaverTypes
    <3> QED
      BY <1>14, <3>1, <3>2 DEF SaverLock
  <2> QED
    BY <1>14, <2>1, FaultsType DEF SaverLock, SaverTypes
<1>15. ASSUME NEW n \in Batch, SaverBegin(n) PROVE TypeOK'
  <2>1. SaverTypes'
    <3>1. CASE SaverReturns(n)
      BY <1>15, <3>1, ReturnsTypes DEF SaverBegin, SaverTypes
    <3>2. CASE tx' \in TxOf(n) /\ UNCHANGED <<dbLock, inflight, pending, staged, unsaved>>
      BY <1>15, <3>2 DEF SaverBegin, SaverTypes, TxOf, PendingOf
    <3> QED
      BY <1>15, <3>1, <3>2 DEF SaverBegin
  <2> QED
    BY <1>15, <2>1, FaultsType DEF SaverBegin, SaverTypes
<1>16. ASSUME NEW n \in Batch, NEW i \in tx, SaverInsert(n, i) PROVE TypeOK'
  <2>1. SaverTypes'
    <3>1. CASE SaverReturns(n)
      BY <1>16, <3>1, ReturnsTypes DEF SaverInsert, SaverTypes
    <3>2. CASE staged' = staged \cup {i} /\ UNCHANGED <<dbLock, inflight, pending, tx, unsaved>>
      BY <1>16, <3>2 DEF SaverInsert, SaverTypes
    <3> QED
      BY <1>16, <3>1, <3>2 DEF SaverInsert
  <2>2. i \in Item
    OBVIOUS
  <2>3. vectors' \subseteq Item /\ unadded' \subseteq Item /\ unresolved' \subseteq Item
    BY <1>16, <2>2 DEF SaverInsert
  <2> QED
    BY <1>16, <2>1, <2>3, FaultsType DEF SaverInsert, SaverTypes
<1>17. ASSUME NEW n \in Batch, SaverCommit(n) PROVE TypeOK'
  <2>1. SaverTypes'
    <3>1. CASE SaverReturns(n)
      BY <1>17, <3>1, ReturnsTypes DEF SaverCommit, SaverTypes
    <3>2. CASE /\ pending' = pending \ tx /\ tx' = {} /\ staged' = {}
               /\ UNCHANGED <<dbLock, inflight, unsaved>>
      BY <1>17, <3>2 DEF SaverCommit, SaverTypes
    <3> QED
      BY <1>17, <3>1, <3>2 DEF SaverCommit
  <2>2. rows' \subseteq Item
    BY <1>17 DEF SaverCommit
  <2> QED
    BY <1>17, <2>1, <2>2, FaultsType DEF SaverCommit, SaverTypes
<1>18. ASSUME NEW n \in Batch, SaverDone(n) PROVE TypeOK'
  BY <1>18 DEF SaverDone, SaverReturns, PendingOf
<1>19. ASSUME NEW p \in Place, NEW v \in Version \cup {Absent}, Edit(p, v) PROVE TypeOK'
  BY <1>19 DEF Edit
<1>20. CASE UNCHANGED vars
  BY <1>20 DEF vars
<1> QED
  BY <1>1, <1>2, <1>3, <1>4, <1>5, <1>6, <1>7, <1>8, <1>9, <1>10, <1>11, <1>12, <1>13, <1>14,
     <1>15, <1>16, <1>17, <1>18, <1>19, <1>20
  DEF Next, UpdateStep, SaverStep, Environment

\* Whatever fails and however UpdateIndex and its savers interleave, every
\* variable keeps its type; in particular dbLock is free or held by a saver that is
\* in flight, and a transaction holds chunks of batches that are still pending.
THEOREM TypeCorrect == Spec => []TypeOK
<1>1. Init => TypeOK
  BY TypeInit
<1>2. TypeOK /\ [Next]_vars => TypeOK'
  BY TypeStep
<1> QED
  BY <1>1, <1>2, PTL DEF Spec

(***************************************************************************)
(* TreeBacked and RowsHaveVectors.                                         *)
(*                                                                         *)
(* TreeBacked is not inductive: when SaveTree stores a tree, that its added*)
(* and modified files are accounted for follows from what the earlier steps*)
(* of the same call did, and that its other files are follows from the old *)
(* stored tree, which delta was computed from.  So the invariant says how  *)
(* far the call has come: delta is still the difference of the two trees   *)
(* (one main goroutine, nobody else stores trees), jobs is empty until     *)
(* files are prepared, and once everything is embedded its chunks are      *)
(* accounted for.  Accounted itself only grows: a row a purge takes is at  *)
(* the path the purge looks for, which makes it Struck.                    *)
(***************************************************************************)
Started == pc # "idle" => runs # 0
DeltaCurrent == pc \in {"purge", "prepare", "embed", "savetree"} => delta = DiffOf(trees[cb], tree)
JobsFresh == pc \in {"scan", "purge"} => jobs = {}
JobsAccounted == pc = "savetree" => JobItems \subseteq Accounted
TxUnderLock == dbLock = 0 => tx = {}

CallInv == Started /\ DeltaCurrent /\ JobsFresh /\ TxUnderLock

\* What a purge takes out of the rows is recorded, and is at a path it may look for.
LEMMA PurgeStrikes ==
  ASSUME TypeOK, NEW f \in File, PurgeFile(f)
  PROVE  /\ rows' \subseteq rows /\ purged \subseteq purged'
         /\ rows' \cup purged' = rows \cup purged
         /\ rows \ rows' \subseteq Struck'
<1> DEFINE gone == RowsAt(Join(Root(cb), NodePath(cb, f)))
<1>1. \/ rows' = rows \ gone /\ purged' = purged \cup gone
      \/ UNCHANGED <<rows, purged>>
  BY DEF PurgeFile
<1>2. gone \subseteq rows
  BY DEF RowsAt
<1>3. ASSUME NEW r \in gone
      PROVE  {NodePath(r.cb, r.file), Resolved(r.cb, r.file)} \cap PurgePaths # {}
  <2>1. RowPath(r) \in PurgePaths
    BY DEF RowsAt, PurgePaths, TypeOK
  <2> QED
    BY <2>1 DEF RowPath
<1> HIDE DEF gone
<1>4. ASSUME NEW r \in rows \ rows' PROVE r \in gone /\ r \in purged'
  BY <1>1
<1> QED
  BY <1>1, <1>2, <1>3, <1>4 DEF Struck

LEMMA StruckStays ==
  ASSUME purged \subseteq purged'
  PROVE  Struck \subseteq Struck'
  BY DEF Struck

LEMMA AccountedGrows ==
  ASSUME TypeOK, [Next]_vars
  PROVE  Accounted \subseteq Accounted'
<1>0. purged \subseteq purged'
  BY PurgeStrikes
  DEF Next, UpdateStep, SaverStep, Environment, vars, dbVars, StartUpdate, ScanFile, PrepareFile,
      StartEmptyPurge, Diff, SaveEmptyTree, EndPurge, SkipEmbedding, StartEmbedding,
      EmbedAndLaunch, SaveTree, Return, SaverLock, SaverBegin, SaverInsert, SaverCommit,
      SaverDone, Edit
<1>s. Struck \subseteq Struck'
  BY <1>0, StruckStays
<1> USE <1>s DEF Accounted, mainVars, saverVars, dbVars, histVars
<1>1. ASSUME NEW c \in Codebase, StartUpdate(c) PROVE Accounted \subseteq Accounted'
  BY <1>1 DEF StartUpdate
<1>2. ASSUME NEW f \in File, ScanFile(f) PROVE Accounted \subseteq Accounted'
  BY <1>2 DEF ScanFile
<1>3. ASSUME NEW f \in File, PurgeFile(f) PROVE Accounted \subseteq Accounted'
  <2>1. rows \subseteq rows' \cup Struck'
    BY <1>3, PurgeStrikes
  <2> QED
    BY <1>3, <2>1 DEF PurgeFile
<1>4. ASSUME NEW f \in File, PrepareFile(f) PROVE Accounted \subseteq Accounted'
  BY <1>4 DEF PrepareFile
<1>5. ASSUME StartEmptyPurge PROVE Accounted \subseteq Accounted'
  BY <1>5 DEF StartEmptyPurge
<1>6. ASSUME Diff PROVE Accounted \subseteq Accounted'
  BY <1>6 DEF Diff
<1>7. ASSUME SaveEmptyTree PROVE Accounted \subseteq Accounted'
  BY <1>7 DEF SaveEmptyTree
<1>8. ASSUME EndPurge \/ SkipEmbedding \/ StartEmbedding \/ Return
      PROVE Accounted \subseteq Accounted'
  BY <1>8 DEF EndPurge, SkipEmbedding, StartEmbedding, Return
<1>9. ASSUME NEW bad \in SUBSET JobItems, EmbedAndLaunch(bad)
      PROVE Accounted \subseteq Accounted'
  BY <1>9 DEF EmbedAndLaunch
<1>10. ASSUME SaveTree PROVE Accounted \subseteq Accounted'
  BY <1>10 DEF SaveTree
<1>11. ASSUME NEW n \in Batch, SaverLock(n) PROVE Accounted \subseteq Accounted'
  BY <1>11 DEF SaverLock, SaverReturns
<1>12. ASSUME NEW n \in Batch, SaverBegin(n) PROVE Accounted \subseteq Accounted'
  BY <1>12 DEF SaverBegin, SaverReturns
<1>13. ASSUME NEW n \in Batch, NEW i \in tx, SaverInsert(n, i) PROVE Accounted \subseteq Accounted'
  BY <1>13 DEF SaverInsert, SaverReturns
<1>14. ASSUME NEW n \in Batch, SaverCommit(n) PROVE Accounted \subseteq Accounted'
  BY <1>14 DEF SaverCommit, SaverReturns
<1>15. ASSUME NEW n \in Batch, SaverDone(n) PROVE Accounted \subseteq Accounted'
  BY <1>15 DEF SaverDone, SaverReturns
<1>16. ASSUME NEW p \in Place, NEW v \in Version \cup {Absent}, Edit(p, v)
       PROVE Accounted \subseteq Accounted'
  BY <1>16 DEF Edit
<1>17. CASE UNCHANGED vars
  BY <1>17 DEF vars
<1> QED
  BY <1>1, <1>2, <1>3, <1>4, <1>5, <1>6, <1>7, <1>8, <1>9, <1>10, <1>11, <1>12, <1>13, <1>14,
     <1>15, <1>16, <1>17
  DEF Next, UpdateStep, SaverStep, Environment

LEMMA CallInvStep ==
  ASSUME TypeOK, CallInv, [Next]_vars
  PROVE  CallInv'
<1> USE DEF CallInv, Started, DeltaCurrent, JobsFresh, TxUnderLock, mainVars, saverVars, dbVars,
            histVars
<1>1. ASSUME NEW c \in Codebase, StartUpdate(c) PROVE CallInv'
  BY <1>1 DEF StartUpdate, TypeOK
<1>2. ASSUME NEW f \in File, ScanFile(f) PROVE CallInv'
  BY <1>2 DEF ScanFile
<1>3. ASSUME NEW f \in File, PurgeFile(f) PROVE CallInv'
  BY <1>3 DEF PurgeFile
<1>4. ASSUME NEW f \in File, PrepareFile(f) PROVE CallInv'
  BY <1>4 DEF PrepareFile
<1>5. ASSUME StartEmptyPurge PROVE CallInv'
  BY <1>5 DEF StartEmptyPurge
<1>6. ASSUME Diff PROVE CallInv'
  BY <1>6 DEF Diff
<1>7. ASSUME SaveEmptyTree PROVE CallInv'
  BY <1>7 DEF SaveEmptyTree
<1>8. ASSUME EndPurge \/ SkipEmbedding \/ StartEmbedding \/ Return PROVE CallInv'
  BY <1>8 DEF EndPurge, SkipEmbedding, StartEmbedding, Return
<1>9. ASSUME NEW bad \in SUBSET JobItems, EmbedAndLaunch(bad) PROVE CallInv'
  BY <1>9 DEF EmbedAndLaunch
<1>10. ASSUME SaveTree PROVE CallInv'
  BY <1>10 DEF SaveTree
<1>11. ASSUME NEW n \in Batch, SaverStep(n) PROVE CallInv'
  <2>1. UNCHANGED <<trees, mainVars, runs>>
    BY <1>11 DEF SaverStep, SaverLock, SaverBegin, SaverInsert, SaverCommit, SaverDone
  <2>2. TxUnderLock'
    BY <1>11
    DEF SaverStep, SaverLock, SaverBegin, SaverInsert, SaverCommit, SaverDone, SaverReturns
  <2> QED
    BY <2>1, <2>2
<1>12. ASSUME NEW p \in Place, NEW v \in Version \cup {Absent}, Edit(p, v) PROVE CallInv'
  BY <1>12 DEF Edit
<1>13. CASE UNCHANGED vars
  BY <1>13 DEF vars
<1> QED
  BY <1>1, <1>2, <1>3, <1>4, <1>5, <1>6, <1>7, <1>8, <1>9, <1>10, <1>11, <1>12, <1>13
  DEF Next, UpdateStep, Environment

\* Only the three steps that lead to "savetree" have to establish JobsAccounted.
LEMMA JobsAccountedStep ==
  ASSUME TypeOK, CallInv, JobsAccounted, [Next]_vars
  PROVE  JobsAccounted'
<1> SUFFICES ASSUME pc' = "savetree" PROVE JobItems' \subseteq Accounted'
  BY DEF JobsAccounted
<1> USE DEF mainVars, saverVars, dbVars, histVars
<1>1. CASE EndPurge
  BY <1>1 DEF EndPurge, CallInv, JobsFresh, JobItems
<1>2. CASE SkipEmbedding
  BY <1>2 DEF SkipEmbedding, JobItems
<1>3. ASSUME NEW bad \in SUBSET JobItems, EmbedAndLaunch(bad)
      PROVE JobItems' \subseteq Accounted'
  <2>1. JobItems' = JobItems
    BY <1>3 DEF EmbedAndLaunch, JobItems
  <2>2. pending' = pending \cup (JobItems \ bad) /\ unembedded' = unembedded \cup bad
    BY <1>3 DEF EmbedAndLaunch
  <2> QED
    BY <2>1, <2>2 DEF Accounted
<1>4. CASE pc = "savetree" /\ UNCHANGED <<runs, cb, jobs>>
  <2>1. JobItems' = JobItems
    BY <1>4 DEF JobItems
  <2> QED
    BY <1>4, <2>1, AccountedGrows DEF JobsAccounted
<1>5. ASSUME NEW n \in Batch, SaverStep(n) PROVE UNCHANGED <<pc, runs, cb, jobs>>
  BY <1>5 DEF SaverStep, SaverLock, SaverBegin, SaverInsert, SaverCommit, SaverDone
<1> QED
  BY <1>1, <1>2, <1>3, <1>4, <1>5
  DEF Next, UpdateStep, Environment, vars, StartUpdate, ScanFile, PurgeFile, PrepareFile,
      StartEmptyPurge, Diff, SaveEmptyTree, StartEmbedding, SaveTree, Return, Edit, TypeOK

LEMMA IndexedAsStays ==
  ASSUME TypeOK, [Next]_vars, NEW c, NEW f, NEW v, IndexedAs(c, f, v)
  PROVE  IndexedAs(c, f, v)'
<1>1. runs \in Nat /\ runs' \in Nat /\ runs <= runs'
  BY PipelineAssumption
  DEF TypeOK, Next, UpdateStep, SaverStep, Environment, vars, StartUpdate, ScanFile, PurgeFile,
      PrepareFile, StartEmptyPurge, Diff, SaveEmptyTree, EndPurge, SkipEmbedding, StartEmbedding,
      EmbedAndLaunch, SaveTree, Return, SaverLock, SaverBegin, SaverInsert, SaverCommit, SaverDone,
      Edit
<1>2. PICK n \in Batch : n <= runs /\ ChunksIn(n, c, f, v) \subseteq Accounted
  BY DEF IndexedAs
<1>3. n <= runs' /\ ChunksIn(n, c, f, v) \subseteq Accounted'
  BY <1>1, <1>2, AccountedGrows, PipelineAssumption
<1> QED
  BY <1>3 DEF IndexedAs, ChunksIn

LEMMA TreeBackedStep ==
  ASSUME TypeOK, CallInv, JobsAccounted, TreeBacked, [Next]_vars
  PROVE  TreeBacked'
<1> USE DEF mainVars, saverVars, dbVars, histVars
<1>1. CASE UNCHANGED <<trees, skewed>>
  <2> SUFFICES ASSUME NEW c \in Codebase, NEW f \in File,
                      trees[c][f] # Absent, <<c, f>> \notin skewed
               PROVE  \E v \in Version : HashOf[v] = trees[c][f] /\ IndexedAs(c, f, v)'
    BY <1>1 DEF TreeBacked
  <2>1. PICK v \in Version : HashOf[v] = trees[c][f] /\ IndexedAs(c, f, v)
    BY DEF TreeBacked
  <2> QED
    BY <2>1, IndexedAsStays
<1>2. CASE SaveEmptyTree
  <2> SUFFICES ASSUME NEW c \in Codebase, NEW f \in File,
                      trees'[c][f] # Absent, <<c, f>> \notin skewed
               PROVE  \E v \in Version : HashOf[v] = trees'[c][f] /\ IndexedAs(c, f, v)'
    BY <1>2 DEF TreeBacked, SaveEmptyTree
  <2>1. trees'[c][f] = trees[c][f]
    BY <1>2 DEF SaveEmptyTree, TypeOK, NoFiles
  <2>2. PICK v \in Version : HashOf[v] = trees[c][f] /\ IndexedAs(c, f, v)
    BY <2>1 DEF TreeBacked
  <2> QED
    BY <2>1, <2>2, IndexedAsStays
<1>3. CASE SaveTree /\ ~ UNCHANGED <<trees, skewed>>
  <2>1. /\ trees' = [trees EXCEPT ![cb] = tree]
        /\ skewed' = (skewed \ ({cb} \X ToProcess)) \cup ({cb} \X SkewedNow)
    BY <1>3 DEF SaveTree
  <2>2. cb \in Codebase /\ tree \in [File -> FileHash]
    BY DEF TypeOK
  <2> SUFFICES ASSUME NEW c \in Codebase, NEW f \in File,
                      trees'[c][f] # Absent, <<c, f>> \notin skewed'
               PROVE  \E v \in Version : HashOf[v] = trees'[c][f] /\ IndexedAs(c, f, v)'
    BY DEF TreeBacked
  <2>3. CASE c = cb /\ f \in ToProcess
    <3>1. trees'[c][f] = tree[f]
      BY <2>1, <2>2, <2>3 DEF TypeOK
    <3>2. PICK j \in jobs : j.file = f /\ HashOf[j.ver] = tree[f]
      BY <2>1, <2>2, <2>3 DEF SkewedNow
    <3>3. ChunksIn(runs, c, f, j.ver) \subseteq JobItems
      <4> SUFFICES ASSUME NEW i \in ChunksIn(runs, c, f, j.ver) PROVE i \in JobItems
        OBVIOUS
      <4>1. /\ i \in Item /\ i.batch = runs /\ i.cb = cb
            /\ i.file = j.file /\ i.ver = j.ver /\ i.chunk \in ChunksOf[j.ver]
        BY <2>3, <3>2 DEF ChunksIn
      <4>2. [file |-> j.file, ver |-> j.ver] = j
        BY DEF TypeOK
      <4> QED
        BY <4>1, <4>2 DEF JobItems
    <3>4. runs \in Batch
      BY <1>3, PipelineAssumption DEF SaveTree, CallInv, Started, TypeOK
    <3>5. JobItems \subseteq Accounted
      BY <1>3 DEF SaveTree, JobsAccounted
    <3>6. IndexedAs(c, f, j.ver)
      BY <3>3, <3>4, <3>5, PipelineAssumption DEF IndexedAs
    <3>7. j.ver \in Version
      BY DEF TypeOK
    <3> QED
      BY <3>1, <3>2, <3>6, <3>7, IndexedAsStays
  <2>4. CASE ~ (c = cb /\ f \in ToProcess)
    <3>1. trees[c][f] = trees'[c][f] /\ <<c, f>> \notin skewed
      <4>1. CASE c # cb
        BY <2>1, <4>1 DEF TypeOK
      <4>2. CASE c = cb /\ f \notin ToProcess
        <5>1. trees'[c][f] = tree[f]
          BY <2>1, <2>2, <4>2 DEF TypeOK
        <5>2. delta = DiffOf(trees[cb], tree)
          BY <1>3 DEF SaveTree, CallInv, DeltaCurrent
        <5>3. trees[cb][f] = tree[f]
          BY <4>2, <5>1, <5>2 DEF DiffOf, ToProcess
        <5> QED
          BY <2>1, <4>2, <5>1, <5>3
      <4> QED
        BY <2>4, <4>1, <4>2
    <3>2. PICK v \in Version : HashOf[v] = trees[c][f] /\ IndexedAs(c, f, v)
      BY <3>1 DEF TreeBacked
    <3> QED
      BY <3>1, <3>2, IndexedAsStays
  <2> QED
    BY <2>3, <2>4
<1>4. ASSUME NEW n \in Batch, SaverStep(n) PROVE UNCHANGED <<trees, skewed>>
  BY <1>4 DEF SaverStep, SaverLock, SaverBegin, SaverInsert, SaverCommit, SaverDone
<1> QED
  BY <1>1, <1>2, <1>3, <1>4
  DEF Next, UpdateStep, Environment, vars, StartUpdate, ScanFile, PurgeFile, PrepareFile,
      StartEmptyPurge, Diff, EndPurge, SkipEmbedding, StartEmbedding, EmbedAndLaunch, Return, Edit

IInv == TypeOK /\ CallInv /\ JobsAccounted /\ TreeBacked

LEMMA IInvInit == Init => IInv
<1> SUFFICES ASSUME Init PROVE IInv
  OBVIOUS
<1>1. CallInv /\ JobsAccounted
  BY DEF Init, CallInv, Started, DeltaCurrent, JobsFresh, TxUnderLock, JobsAccounted
<1>2. TreeBacked
  BY DEF Init, TreeBacked, NoFiles
<1> QED
  BY <1>1, <1>2, TypeInit DEF IInv

LEMMA IInvStep == IInv /\ [Next]_vars => IInv'
  BY TypeStep, CallInvStep, JobsAccountedStep, TreeBackedStep DEF IInv

LEMMA Invariance == Spec => []IInv
  BY IInvInit, IInvStep, PTL DEF Spec

\* What the stored Merkle tree calls indexed has been indexed: a file of the tree has,
\* for a content with the recorded hash, all its chunks in the database, on their way,
\* dropped by a failure or struck by a purge that joined the root twice, unless it was
\* edited between scan and read (UpdateIndex, which stores the tree before its saver
\* has run), whatever the roots, the files and the links between them.
THEOREM TreeIsBacked == Spec => []TreeBacked
<1>1. IInv => TreeBacked
  BY DEF IInv
<1> QED
  BY <1>1, Invariance, PTL

(***************************************************************************)
(* RowsHaveVectors is inductive once TxUnderLock is known: a purge that    *)
(* takes rows and vectors away runs while no transaction is open, so it    *)
(* never takes the vector of a row that is staged.                         *)
(***************************************************************************)
LEMMA RowsHaveVectorsStep ==
  ASSUME TypeOK, TxUnderLock, RowsHaveVectors, [Next]_vars
  PROVE  RowsHaveVectors'
<1> USE DEF RowsHaveVectors, mainVars, saverVars, dbVars, histVars
<1>1. CASE UNCHANGED <<rows, staged, vectors, unadded>>
  BY <1>1
<1>2. ASSUME NEW f \in File, PurgeFile(f) PROVE RowsHaveVectors'
  <2>1. staged = {}
    BY <1>2 DEF PurgeFile, DbFree, TxUnderLock, TypeOK
  <2> QED
    BY <1>2, <2>1 DEF PurgeFile
<1>3. ASSUME NEW n \in Batch, SaverReturns(n), UNCHANGED <<rows, vectors, unadded>>
      PROVE  RowsHaveVectors'
  BY <1>3 DEF SaverReturns
<1>4. ASSUME NEW n \in Batch, NEW i \in tx, SaverInsert(n, i) PROVE RowsHaveVectors'
  BY <1>3, <1>4 DEF SaverInsert
<1>5. ASSUME NEW n \in Batch, SaverCommit(n) PROVE RowsHaveVectors'
  BY <1>3, <1>5 DEF SaverCommit
<1>6. ASSUME NEW n \in Batch, SaverLock(n) \/ SaverBegin(n) \/ SaverDone(n) PROVE RowsHaveVectors'
  BY <1>3, <1>6 DEF SaverLock, SaverBegin, SaverDone
<1> QED
  BY <1>1, <1>2, <1>4, <1>5, <1>6
  DEF Next, UpdateStep, SaverStep, Environment, vars, StartUpdate, ScanFile, PrepareFile,
      StartEmptyPurge, Diff, SaveEmptyTree, EndPurge, SkipEmbedding, StartEmbedding,
      EmbedAndLaunch, SaveTree, Return, Edit

\* Semantic search reaches every row: a row that is committed, or inserted in the open
\* transaction, has its vector in the index unless index.Add failed
\* (SaveMemoriesBatch adds before it commits; DeleteFileMemories holds dbLock).
THEOREM RowsAreReachable == Spec => []RowsHaveVectors
<1>1. Init => RowsHaveVectors
  BY DEF Init, RowsHaveVectors
<1>2. IInv /\ RowsHaveVectors /\ [Next]_vars => RowsHaveVectors'
  BY RowsHaveVectorsStep DEF IInv, CallInv
<1> QED
  BY <1>1, <1>2, Invariance, PTL DEF Spec

(***************************************************************************)
(* RowsWholeTransactions counts rows, so the sets it counts have to be     *)
(* finite: a call reads finitely many files and cuts finitely many chunks  *)
(* from each.  Rows a purge has deleted are counted with the others, so a  *)
(* purge changes nothing that is counted.                                  *)
(***************************************************************************)
LEMMA FewJobItems ==
  ASSUME IsFiniteSet(jobs), jobs \subseteq Job
  PROVE  IsFiniteSet(JobItems)
<1> DEFINE Of(j) == {i \in JobItems : i.file = j.file /\ i.ver = j.ver}
           parts == {Of(j) : j \in jobs}
           partOf == [j \in jobs |-> Of(j)]
<1>1. IsFiniteSet(parts)
  <2>1. partOf \in Surjection(jobs, parts)
    BY DEF Surjection
  <2> QED
    BY ONLY <2>1, IsFiniteSet(jobs), FS_Surjection
<1>2. ASSUME NEW j \in jobs PROVE IsFiniteSet(Of(j))
  <2> DEFINE pos == [i \in Of(j) |-> i.chunk]
  <2>1. j.ver \in Version
    BY DEF Job
  <2>2. IsFiniteSet(ChunksOf[j.ver])
    BY <2>1, PipelineAssumption
  <2>3. \A i \in Of(j) : pos[i] \in ChunksOf[j.ver]
    BY DEF JobItems
  <2>4. \A i, k \in Of(j) : pos[i] = pos[k] => i = k
    BY DEF JobItems, Item
  <2>5. pos \in Injection(Of(j), ChunksOf[j.ver])
    BY <2>3, <2>4 DEF Injection, IsInjective
  <2> QED
    BY ONLY <2>2, <2>5, FS_Injection
<1>3. IsFiniteSet(UNION parts)
  <2>1. \A T \in parts : IsFiniteSet(T)
    BY <1>2
  <2> HIDE DEF parts
  <2> QED
    BY ONLY <1>1, <2>1, FS_UNION
<1>4. JobItems \subseteq UNION parts
  <2> SUFFICES ASSUME NEW i \in JobItems PROVE \E j \in jobs : i \in Of(j)
    OBVIOUS
  <2>1. [file |-> i.file, ver |-> i.ver] \in jobs
    BY DEF JobItems
  <2> QED
    BY <2>1
<1> QED
  BY ONLY <1>3, <1>4, FS_Subset

\* A whole transaction more leaves the remainder as it was.
LEMMA OneMore ==
  ASSUME NEW c \in Nat, c % TxSize = 0
  PROVE  (c + TxSize) % TxSize = 0
<1>1. TxSize \in Nat \ {0}
  BY PipelineAssumption
<1> DEFINE q == c \div TxSize
<1>2. q \in Nat /\ c = TxSize * q
  BY <1>1
<1> HIDE DEF q
<1>3. c + TxSize = TxSize * (q + 1)
  BY <1>1, <1>2
<1> QED
  BY <1>1, <1>2, <1>3

(***************************************************************************)
(* The rows of a batch are counted transaction by transaction.  For that,  *)
(* ids must be fresh (no row, and nothing lost, carries the batch of a call*)
(* that has not launched its saver), a chunk must not be pending once it is*)
(* a row, and a batch of which something was lost must not be in flight.   *)
(***************************************************************************)
Early == {"scan", "empty", "purge", "prepare", "embed"}

CountsFinite == IsFiniteSet(jobs) /\ IsFiniteSet(pending) /\ IsFiniteSet(Written)
OwnTx == \A i \in tx : i.batch = dbLock
WholeTx == tx # {} => Cardinality(tx) = TxSize \/ tx = PendingOf(dbLock)
Fresh == \A i \in Written \cup pending \cup unsaved :
           i.batch <= runs /\ (pc \in Early => i.batch # runs)
InFlightOnly == /\ \A i \in pending : i.batch \in inflight
                /\ \A i \in unsaved : i.batch \notin inflight
NotTwice == Written \cap pending = {}

WholeInv == /\ CountsFinite /\ TxUnderLock /\ OwnTx /\ WholeTx /\ Fresh /\ InFlightOnly /\ NotTwice
            /\ RowsWholeTransactions

LEMMA WholeInit == Init => WholeInv
<1> SUFFICES ASSUME Init PROVE WholeInv
  OBVIOUS
<1>1. IsFiniteSet({}) /\ Cardinality({}) = 0
  BY FS_EmptySet
<1>3. Written = {}
  BY DEF Init, Written
<1>2. RowsWholeTransactions
  <2>1. \A n \in Batch : RowsOf(n) = {}
    BY <1>3 DEF RowsOf
  <2>2. 0 % TxSize = 0
    BY PipelineAssumption
  <2> QED
    BY <1>1, <2>1, <2>2 DEF RowsWholeTransactions
<1> QED
  BY <1>1, <1>2, <1>3
  DEF Init, WholeInv, CountsFinite, TxUnderLock, OwnTx, WholeTx, Fresh, InFlightOnly, NotTwice

\* What no step but the launch and the savers' touches.
Counted == <<Written, pending, unsaved, inflight, tx, dbLock>>

LEMMA CountedStays ==
  ASSUME WholeInv, UNCHANGED Counted, UNCHANGED runs, IsFiniteSet(jobs'),
         pc' \in Early => pc \in Early
  PROVE  WholeInv'
<1>1. RowsWholeTransactions'
  BY DEF WholeInv, RowsWholeTransactions, RowsOf, PendingOf, Counted
<1> QED
  BY <1>1
  DEF WholeInv, CountsFinite, TxUnderLock, OwnTx, WholeTx, PendingOf, Fresh, InFlightOnly, NotTwice,
      Counted

LEMMA UpdateKeepsCounts ==
  ASSUME TypeOK, IsFiniteSet(jobs), UpdateStep
  PROVE  \/ \E bad \in SUBSET JobItems : EmbedAndLaunch(bad)
         \/ /\ UNCHANGED Counted /\ UNCHANGED runs /\ IsFiniteSet(jobs')
            /\ pc' \in Early => pc \in Early
<1> USE DEF Counted, Written, Early, saverVars, dbVars, mainVars, histVars
<1>1. ASSUME NEW f \in File, PurgeFile(f) PROVE UNCHANGED Counted /\ UNCHANGED <<runs, jobs, pc>>
  BY <1>1, PurgeStrikes DEF PurgeFile, Written
<1>2. ASSUME NEW f \in File, PrepareFile(f)
      PROVE  UNCHANGED Counted /\ UNCHANGED <<runs, pc>> /\ IsFiniteSet(jobs')
  <2>1. \A j : IsFiniteSet(jobs \cup {j})
    BY FS_AddElement
  <2> QED
    BY <1>2, <2>1 DEF PrepareFile
<1>3. ASSUME \/ \E f \in File : ScanFile(f)
             \/ StartEmptyPurge \/ Diff \/ SaveEmptyTree \/ EndPurge
             \/ SkipEmbedding \/ StartEmbedding \/ SaveTree
      PROVE  /\ UNCHANGED Counted /\ UNCHANGED <<runs, jobs>>
             /\ pc' \in Early => pc \in Early
  BY <1>3
  DEF ScanFile, StartEmptyPurge, Diff, SaveEmptyTree, EndPurge, SkipEmbedding, StartEmbedding,
      SaveTree
<1> QED
  BY <1>1, <1>2, <1>3 DEF UpdateStep

LEMMA LaunchCounts ==
  ASSUME TypeOK, WholeInv, NEW bad \in SUBSET JobItems, EmbedAndLaunch(bad)
  PROVE  WholeInv'
<1> DEFINE good == JobItems \ bad
<1> USE DEF WholeInv
<1>1. /\ pending' = pending \cup good /\ pc = "embed" /\ pc' = "savetree"
      /\ inflight' = IF good = {} THEN inflight ELSE inflight \cup {runs}
      /\ UNCHANGED <<Written, unsaved, tx, dbLock, jobs, runs>>
  BY DEF EmbedAndLaunch, dbVars, Written
<1>2. \A i \in good : i.batch = runs
  BY DEF JobItems
<1>3. \A i \in Written \cup pending \cup unsaved : i.batch # runs
  BY <1>1 DEF Fresh, Early
<1>4. CountsFinite'
  <2>1. IsFiniteSet(good)
    BY FewJobItems, FS_Subset DEF CountsFinite, TypeOK
  <2>2. IsFiniteSet(pending \cup good)
    BY <2>1, FS_Union DEF CountsFinite
  <2> QED
    BY <1>1, <2>2 DEF CountsFinite
<1> HIDE DEF good
<1>5. runs \in Nat /\ (dbLock # 0 => dbLock \in inflight)
  BY PipelineAssumption DEF TypeOK
<1>6. Fresh'
  BY <1>1, <1>2, <1>5 DEF Fresh, Early
<1>7. InFlightOnly'
  BY <1>1, <1>2, <1>3 DEF InFlightOnly
<1>8. NotTwice'
  BY <1>1, <1>2, <1>3 DEF NotTwice
<1>9. WholeTx'
  <2>1. tx # {} => PendingOf(dbLock)' = PendingOf(dbLock)
    BY <1>1, <1>2, <1>3 DEF PendingOf, OwnTx, TypeOK
  <2> QED
    BY <1>1, <2>1 DEF WholeTx
<1>10. RowsWholeTransactions'
  <2> SUFFICES ASSUME NEW n \in Batch, Cardinality(RowsOf(n)) % TxSize # 0
               PROVE  PendingOf(n)' = {} /\ \A i \in unsaved : i.batch # n
    BY <1>1 DEF RowsWholeTransactions, RowsOf
  <2>1. PendingOf(n) = {} /\ \A i \in unsaved : i.batch # n
    BY DEF RowsWholeTransactions
  <2>2. n # runs
    <3>1. RowsOf(runs) = {}
      BY <1>3 DEF RowsOf
    <3>2. Cardinality(RowsOf(runs)) % TxSize = 0
      BY <3>1, FS_EmptySet, PipelineAssumption
    <3> QED
      BY <3>2
  <2> QED
    BY <1>1, <1>2, <2>1, <2>2 DEF PendingOf
<1> QED
  BY <1>1, <1>4, <1>6, <1>7, <1>8, <1>9, <1>10 DEF TxUnderLock, OwnTx

\* A saver that returns gives up what is pending of its batch; its rows stay as they are.
LEMMA ReturnsCounts ==
  ASSUME TypeOK, WholeInv, NEW n \in inflight, SaverReturns(n), UNCHANGED <<Written, jobs, runs, pc>>
  PROVE  WholeInv'
<1> USE DEF WholeInv, SaverReturns
<1>1. CountsFinite'
  BY FS_Subset DEF CountsFinite
<1>2. Fresh'
  BY DEF Fresh, PendingOf
<1>3. InFlightOnly' /\ NotTwice'
  BY DEF InFlightOnly, NotTwice, PendingOf
<1>4. RowsWholeTransactions'
  BY DEF RowsWholeTransactions, RowsOf, PendingOf
<1> QED
  BY <1>1, <1>2, <1>3, <1>4 DEF TxUnderLock, OwnTx, WholeTx

LEMMA CommitCounts ==
  ASSUME TypeOK, WholeInv, NEW n \in Batch, dbLock = n, tx # {}, n \in inflight,
         Written' = Written \cup tx, pending' = pending \ tx, tx' = {},
         UNCHANGED <<dbLock, inflight, unsaved, jobs, runs, pc>>
  PROVE  WholeInv'
<1> USE DEF WholeInv
<1>1. \A i \in tx : i.batch = n /\ i \in pending /\ i \notin Written
  BY DEF OwnTx, NotTwice, TypeOK
<1>2. IsFiniteSet(tx) /\ IsFiniteSet(Written \cup tx) /\ IsFiniteSet(pending \ tx)
  BY FS_Subset, FS_Union DEF CountsFinite, TypeOK
<1>3. CountsFinite'
  BY <1>2 DEF CountsFinite
<1>4. Fresh' /\ InFlightOnly' /\ NotTwice'
  BY <1>1 DEF Fresh, InFlightOnly, NotTwice
<1>5. RowsWholeTransactions'
  <2> SUFFICES ASSUME NEW m \in Batch, Cardinality(RowsOf(m)') % TxSize # 0
               PROVE  PendingOf(m)' = {} /\ \A i \in unsaved : i.batch # m
    BY DEF RowsWholeTransactions
  <2>1. CASE m # n
    <3>1. RowsOf(m)' = RowsOf(m)
      BY <1>1, <2>1 DEF RowsOf
    <3> QED
      BY <3>1 DEF RowsWholeTransactions, PendingOf
  <2>2. CASE m = n
    <3>1. \A i \in unsaved : i.batch # n
      BY DEF InFlightOnly
    <3>2. Cardinality(RowsOf(n)) % TxSize = 0
      <4>1. PendingOf(n) # {}
        BY <1>1 DEF PendingOf
      <4> QED
        BY <4>1 DEF RowsWholeTransactions
    <3>3. CASE Cardinality(tx) = TxSize
      <4>1. RowsOf(n)' = RowsOf(n) \cup tx
        BY <1>1 DEF RowsOf
      <4>2. RowsOf(n) \cap tx = {}
        BY <1>1 DEF RowsOf
      <4>3. IsFiniteSet(RowsOf(n))
        BY FS_Subset DEF CountsFinite, RowsOf
      <4>4. Cardinality(RowsOf(n)) \in Nat /\ Cardinality(tx) \in Nat
        BY <1>2, <4>3, FS_CardinalityType
      <4>5. Cardinality(RowsOf(n) \cup tx) = Cardinality(RowsOf(n)) + Cardinality(tx)
        <5>1. Cardinality(RowsOf(n) \cup tx)
                = Cardinality(RowsOf(n)) + Cardinality(tx) - Cardinality(RowsOf(n) \cap tx)
          BY ONLY <1>2, <4>3, FS_Union
        <5>2. Cardinality(RowsOf(n) \cap tx) = 0
          BY <4>2, FS_EmptySet
        <5> QED
          BY <4>4, <5>1, <5>2
      <4>6. Cardinality(RowsOf(n)') % TxSize = 0
        BY <3>2, <3>3, <4>1, <4>4, <4>5, OneMore
      <4> QED
        BY <2>2, <4>6
    <3>4. CASE tx = PendingOf(n)
      BY <2>2, <3>1, <3>4 DEF PendingOf
    <3> QED
      BY <3>3, <3>4 DEF WholeTx
  <2> QED
    BY <2>1, <2>2
<1> QED
  BY <1>3, <1>4, <1>5 DEF TxUnderLock, OwnTx, WholeTx

LEMMA WholeStep ==
  ASSUME TypeOK, WholeInv, [Next]_vars
  PROVE  WholeInv'
<1>w. UNCHANGED <<rows, purged>> => UNCHANGED Written
  BY DEF Written
<1> USE <1>w DEF saverVars, dbVars, mainVars, histVars
<1>1. ASSUME NEW c \in Codebase, StartUpdate(c) PROVE WholeInv'
  <2>1. UNCHANGED Counted /\ runs' = runs + 1 /\ jobs' = {}
    BY <1>1 DEF StartUpdate, Counted
  <2>2. IsFiniteSet(jobs')
    BY <2>1, FS_EmptySet
  <2>3. Fresh'
    <3>1. \A i \in Written \cup pending \cup unsaved : i.batch \in Nat /\ i.batch <= runs
      BY PipelineAssumption DEF WholeInv, Fresh, TypeOK, Item, Batch, Written
    <3> QED
      BY <2>1, <3>1, PipelineAssumption DEF Fresh, TypeOK, Counted
  <2>4. RowsWholeTransactions'
    BY <2>1 DEF WholeInv, RowsWholeTransactions, RowsOf, PendingOf, Counted
  <2> QED
    BY <2>1, <2>2, <2>3, <2>4
    DEF WholeInv, CountsFinite, TxUnderLock, OwnTx, WholeTx, PendingOf, InFlightOnly, NotTwice,
        Counted
<1>2. CASE UpdateStep
  BY <1>2, UpdateKeepsCounts, CountedStays, LaunchCounts DEF WholeInv, CountsFinite
<1>3. ASSUME UNCHANGED <<Written, saverVars, unsaved, runs, jobs>>, pc' \in Early => pc \in Early
      PROVE  WholeInv'
  BY <1>3, CountedStays DEF Counted, WholeInv, CountsFinite
<1>4. CASE Return \/ Environment \/ UNCHANGED vars
  BY <1>3, <1>4 DEF Return, Environment, Edit, vars, Early
<1>5. ASSUME NEW n \in Batch, n \in inflight, SaverLock(n) PROVE WholeInv'
  <2>1. CASE SaverReturns(n)
    BY <1>5, <2>1, ReturnsCounts DEF SaverLock
  <2>2. CASE dbLock' = n /\ UNCHANGED <<inflight, pending, tx, staged, unsaved>>
    BY <1>5, <2>2
    DEF SaverLock, WholeInv, CountsFinite, TxUnderLock, OwnTx, WholeTx, PendingOf, Fresh,
        InFlightOnly, NotTwice, RowsWholeTransactions, RowsOf, DbFree
  <2> QED
    BY <1>5, <2>1, <2>2 DEF SaverLock
<1>6. ASSUME NEW n \in Batch, n \in inflight, SaverBegin(n) PROVE WholeInv'
  <2>1. CASE SaverReturns(n)
    BY <1>6, <2>1, ReturnsCounts DEF SaverBegin
  <2>2. CASE tx' \in TxOf(n) /\ UNCHANGED <<dbLock, inflight, pending, staged, unsaved>>
    <3>1. RowsWholeTransactions' /\ WholeTx' /\ OwnTx' /\ TxUnderLock'
      BY <1>6, <2>2, PipelineAssumption
      DEF SaverBegin, WholeInv, RowsWholeTransactions, RowsOf, PendingOf, WholeTx, OwnTx,
          TxUnderLock, TxOf, Batch
    <3> QED
      BY <1>6, <2>2, <3>1 DEF SaverBegin, WholeInv, CountsFinite, Fresh, InFlightOnly, NotTwice
  <2> QED
    BY <1>6, <2>1, <2>2 DEF SaverBegin
<1>7. ASSUME NEW n \in Batch, n \in inflight, NEW i \in tx, SaverInsert(n, i) PROVE WholeInv'
  <2>1. CASE SaverReturns(n)
    BY <1>7, <2>1, ReturnsCounts DEF SaverInsert
  <2>2. CASE UNCHANGED <<dbLock, inflight, pending, tx, unsaved>>
    BY <1>7, <2>2, CountedStays DEF SaverInsert, Counted, WholeInv, CountsFinite
  <2> QED
    BY <1>7, <2>1, <2>2 DEF SaverInsert
<1>8. ASSUME NEW n \in Batch, n \in inflight, SaverCommit(n) PROVE WholeInv'
  <2>1. CASE SaverReturns(n) /\ UNCHANGED Written
    BY <1>8, <2>1, ReturnsCounts DEF SaverCommit
  <2>2. CASE /\ Written' = Written \cup tx /\ pending' = pending \ tx /\ tx' = {}
             /\ UNCHANGED <<dbLock, inflight, unsaved>>
    BY <1>8, <2>2, CommitCounts DEF SaverCommit
  <2>3. rows' = rows \cup tx => Written' = Written \cup tx
    BY <1>8 DEF SaverCommit, Written
  <2> QED
    BY <1>8, <2>1, <2>2, <2>3 DEF SaverCommit
<1>9. ASSUME NEW n \in Batch, n \in inflight, SaverDone(n) PROVE WholeInv'
  BY <1>9, ReturnsCounts DEF SaverDone
<1> QED
  BY <1>1, <1>2, <1>4, <1>5, <1>6, <1>7, <1>8, <1>9 DEF Next, SaverStep

\* No part of a transaction is ever visible, whatever fails: a batch whose rows are not a
\* multiple of TxSize is complete, with nothing of it pending and nothing lost
\* (SaveMemoriesBatch, which rolls back on every error path).
THEOREM RowsComeInWholeTransactions == Spec => []RowsWholeTransactions
<1>1. Spec => [](TypeOK /\ WholeInv)
  BY TypeInit, TypeStep, WholeInit, WholeStep, PTL DEF Spec
<1>2. WholeInv => RowsWholeTransactions
  BY DEF WholeInv
<1> QED
  BY <1>1, <1>2, PTL
============================================================================
