-------------------------- MODULE ServerRun_proofs --------------------------
(***************************************************************************)
(* Proofs about ServerRun: what sweeps, compactions, signals and restarts  *)
(* leave of the vector index, for every value of the constants.            *)
(***************************************************************************)
EXTENDS ServerRun, IndexPipeline_proofs

\* The steps of UpdateIndex and of the savers are steps of IndexPipeline.
LEMMA ServerPipelineSteps ==
  ASSUME \/ \E c \in Codebase : StartUpdate(c)
         \/ UpdateStep
         \/ \E n \in Batch : SaverStep(n)
         \/ Environment
         \/ UNCHANGED vars
  PROVE  [Next]_vars
  BY DEF Next

LEMMA ServerTypeInit == ServerInit => ServerTypeOK
<1> SUFFICES ASSUME ServerInit PROVE ServerTypeOK
  OBVIOUS
<1> USE DEF ServerInit
<1>1. runs \in 0 .. MaxRuns
  BY ServerAssumption, PipelineAssumption, FS_CardinalityType
  DEF ServerAssumption, PipelineAssumption
<1>2. rows \subseteq Item
  OBVIOUS
<1>3. /\ files \in [Place -> Version \cup {Absent}]
      /\ trees \in [Codebase -> [File -> FileHash]]
  <2>1. files \in [Place -> Version \cup {Absent}]
    OBVIOUS
  <2>2. ASSUME NEW c \in Codebase, NEW f \in File
        PROVE  LET v == files[Resolved(c, f)]
               IN  (IF v = Absent THEN Absent ELSE HashOf[v]) \in FileHash
    <3>1. files[Resolved(c, f)] \in Version \cup {Absent}
      BY <2>1 DEF Place
    <3> QED
      BY <3>1, PipelineAssumption DEF PipelineAssumption, FileHash
  <2> QED
    BY <2>1, <2>2
<1>4. tree \in [File -> FileHash] /\ delta \in Delta
  BY DEF NoFiles, FileHash, NoDelta, Delta
<1>5. edits \in 0 .. MaxEdits /\ faults \in 0 .. MaxFaults
  BY PipelineAssumption DEF PipelineAssumption
<1>6. TypeOK
  BY <1>1, <1>2, <1>3, <1>4, <1>5 DEF TypeOK, MainState
<1> QED
  BY <1>2, <1>6 DEF ServerTypeOK

LEMMA DownTypes ==
  ASSUME TypeOK, Down
  PROVE  TypeOK'
  BY DEF TypeOK, Down, ProcessEnds, NoFiles, NoDelta, dbVars, MainState, FileHash, Delta

LEMMA SweepTypes ==
  ASSUME ServerTypeOK, Sweep
  PROVE  ServerTypeOK'
<1> USE PipelineAssumption
    DEF ServerTypeOK, dbVars, saverVars, mainVars, histVars, sweepVars, NoteExit
<1>1. CASE ListCodebases
  <2>1. faults' \in 0 .. MaxFaults
    BY <1>1, FaultsType DEF ListCodebases, TypeOK
  <2> QED
    BY <1>1, <2>1 DEF ListCodebases, TypeOK
<1>2. CASE SweepStep
  <2>1. TypeOK'
    BY <1>2, TypeStep, ServerPipelineSteps DEF SweepStep
  <2>2. exposed' \subseteq Batch
    <3>1. inflight' \subseteq Batch
      BY <2>1 DEF TypeOK, Batch
    <3> QED
      BY <1>2, <3>1 DEF SweepStep
  <2> QED
    BY <1>2, <2>1, <2>2 DEF SweepStep
<1>3. CASE SweepNext
  BY <1>3 DEF SweepNext, TypeOK, MainState
<1>4. CASE SweepEnds
  BY <1>4 DEF SweepEnds, vars, TypeOK
<1>5. CASE SelectActive
  <2>1. faults' \in 0 .. MaxFaults
    BY <1>5, FaultsType DEF SelectActive, TypeOK
  <2>2. exposed' \subseteq Batch
    BY <1>5 DEF SelectActive, TypeOK, Batch
  <2> QED
    BY <1>5, <2>1, <2>2 DEF SelectActive, TypeOK
<1>6. CASE Compact
  <2>1. faults' \in 0 .. MaxFaults
    BY <1>6, FaultsType DEF Compact, TypeOK
  <2> QED
    BY <1>6, <2>1 DEF Compact, TypeOK
<1>7. ASSUME NEW c \in Codebase, SweepOne(c) PROVE ServerTypeOK'
  <2>1. TypeOK'
    BY <1>7, TypeStep, ServerPipelineSteps DEF SweepOne
  <2> QED
    BY <1>7, <2>1 DEF SweepOne
<1> QED
  BY <1>1, <1>2, <1>3, <1>4, <1>5, <1>6, <1>7 DEF Sweep

LEMMA ServerTypeStep == ServerTypeOK /\ [ServerNext]_allVars => ServerTypeOK'
<1> SUFFICES ASSUME ServerTypeOK, [ServerNext]_allVars PROVE ServerTypeOK'
  OBVIOUS
<1> USE PipelineAssumption
    DEF ServerTypeOK, dbVars, saverVars, mainVars, histVars, sweepVars, NoteExit
<1>1. CASE Boot
  BY <1>1 DEF Boot, TypeOK
<1>2. CASE Sweep
  BY <1>2, SweepTypes
<1>3. CASE Tick
  BY <1>3 DEF Tick, vars, TypeOK
<1>4. CASE Signal
  BY <1>4 DEF Signal, vars, TypeOK
<1>5. CASE SignalSave
  <2>1. faults' \in 0 .. MaxFaults
    BY <1>5, FaultsType DEF SignalSave, TypeOK
  <2>2. exposed' \subseteq Batch
    BY <1>5 DEF SignalSave, TypeOK, Batch
  <2> QED
    BY <1>5, <2>1, <2>2 DEF SignalSave, TypeOK
<1>6. CASE SignalExit
  BY <1>6, DownTypes DEF SignalExit, Down, ProcessEnds
<1>7. CASE StdinClosed
  <2>1. {i.batch : i \in vectors \ tqv} \subseteq Batch
    BY DEF TypeOK, Item
  <2> QED
    BY <1>7, <2>1, DownTypes DEF StdinClosed, Down, ProcessEnds
<1>8. ASSUME NEW n \in Batch, Saver(n) PROVE ServerTypeOK'
  <2>1. TypeOK'
    BY <1>8, TypeStep, ServerPipelineSteps DEF Saver
  <2>2. phase # "off" /\ phase' = phase /\ pc' = pc
    BY <1>8 DEF Saver, SaverStep, SaverLock, SaverBegin, SaverInsert, SaverCommit, SaverDone
  <2>3. exposed' \subseteq Batch
    <3>1. inflight' \subseteq Batch
      BY <2>1 DEF TypeOK, Batch
    <3> QED
      BY <1>8, <3>1 DEF Saver
  <2> QED
    BY <1>8, <2>1, <2>2, <2>3 DEF Saver
<1>9. CASE Environment /\ UNCHANGED serverVars
  <2>1. TypeOK'
    BY <1>9, TypeStep, ServerPipelineSteps
  <2>2. UNCHANGED <<pc, inflight, vectors>>
    BY <1>9 DEF Environment, Edit
  <2> QED
    BY <1>9, <2>1, <2>2 DEF serverVars
<1>10. CASE UNCHANGED allVars
  BY <1>10 DEF allVars, vars, serverVars, TypeOK
<1> QED
  BY <1>1, <1>2, <1>3, <1>4, <1>5, <1>6, <1>7, <1>8, <1>9, <1>10 DEF ServerNext, Handler

\* Every variable keeps its type while sweeps, savers and the signal handler interleave
\* and the server is killed and restarted: UpdateIndex runs inside a sweep only, and
\* nothing of the goroutines or of the index outlives the process (cmd/server).
THEOREM ServerTypesHold == ServerSpec => []ServerTypeOK
  BY ServerTypeInit, ServerTypeStep, PTL DEF ServerSpec

(***************************************************************************)
(* SettledRowsReachable.  Vectors leave the index when a row is purged and *)
(* in Compact.  Compact drops what is not in activeIDs, a list that is     *)
(* old: the rows committed since the SELECT belong to savers that were in  *)
(* flight then, because the goroutine that launches savers is the one that *)
(* compacts.  A process that exits on a signal has saved all but what its  *)
(* savers in flight were to commit; one that just ends loses what it had   *)
(* not saved.  These are the exposed batches.                              *)
(***************************************************************************)
Settled(r) == r.batch \notin exposed

CompactInv == phase = "compact" => inflight \subseteq exposed /\ activeIDs \subseteq rows
ExitInv == sig = "exit" => inflight \subseteq exposed

InMemory == phase # "off" => \A r \in rows \cup staged : Settled(r) => r \in vectors
Selected == phase = "compact" => \A r \in rows : Settled(r) => r \in activeIDs
OnDisk == phase = "off" \/ sig = "exit" => \A r \in rows : Settled(r) => r \in tqv

Kept == faults = 0 => InMemory /\ Selected /\ OnDisk

ServerInv == TxUnderLock /\ OwnTx /\ CompactInv /\ ExitInv /\ Kept

LEMMA ServerInvInit == ServerInit => ServerInv
  BY DEF ServerInit, ServerInv, TxUnderLock, OwnTx, CompactInv, ExitInv, Kept, InMemory,
         Selected, OnDisk

\* UpdateIndex takes away rows and vectors together, and only while no transaction is
\* open.
LEMMA UpdateEffect ==
  ASSUME TypeOK, TxUnderLock, UpdateStep
  PROVE  /\ UNCHANGED <<tx, dbLock, staged>>
         /\ rows' \subseteq rows
         /\ \A r \in rows' \cup staged' : r \in vectors => r \in vectors'
         /\ faults' = 0 => faults = 0
<1> USE DEF saverVars, dbVars, mainVars, histVars, TypeOK
<1>0. Succeed \/ Fail => (faults' = 0 => faults = 0)
  BY PipelineAssumption DEF Succeed, Fail
<1>1. ASSUME NEW f \in File, PurgeFile(f)
      PROVE  /\ UNCHANGED <<tx, dbLock, staged>>
             /\ rows' \subseteq rows
             /\ \A r \in rows' \cup staged' : r \in vectors => r \in vectors'
             /\ faults' = 0 => faults = 0
  <2>1. staged = {}
    BY <1>1 DEF PurgeFile, DbFree, TxUnderLock
  <2> QED
    BY <1>0, <1>1, <2>1 DEF PurgeFile
<1>2. CASE UNCHANGED <<rows, vectors, tx, dbLock, staged>> /\ (faults' = 0 => faults = 0)
  BY <1>2
<1>3. ASSUME NEW f \in File, ScanFile(f) \/ PrepareFile(f)
      PROVE  UNCHANGED <<rows, vectors, tx, dbLock, staged>> /\ (faults' = 0 => faults = 0)
  BY <1>0, <1>3 DEF ScanFile, PrepareFile
<1>4. ASSUME \/ StartEmptyPurge \/ Diff \/ SaveEmptyTree \/ EndPurge \/ SkipEmbedding
             \/ StartEmbedding \/ SaveTree
      PROVE  UNCHANGED <<rows, vectors, tx, dbLock, staged>> /\ (faults' = 0 => faults = 0)
  BY <1>0, <1>4
  DEF StartEmptyPurge, Diff, SaveEmptyTree, EndPurge, SkipEmbedding, StartEmbedding, SaveTree
<1>5. ASSUME NEW bad \in SUBSET JobItems, EmbedAndLaunch(bad)
      PROVE  UNCHANGED <<rows, vectors, tx, dbLock, staged>> /\ (faults' = 0 => faults = 0)
  BY <1>0, <1>5 DEF EmbedAndLaunch
<1> QED
  BY <1>1, <1>2, <1>3, <1>4, <1>5 DEF UpdateStep

\* A saver commits what it has staged, adds the vector of what it stages, and launches
\* nothing.
LEMMA SaverEffect ==
  ASSUME TypeOK, TxUnderLock, OwnTx, NEW n \in Batch, SaverStep(n)
  PROVE  /\ TxUnderLock' /\ OwnTx'
         /\ inflight' \subseteq inflight /\ n \in inflight
         /\ rows \subseteq rows' /\ vectors \subseteq vectors'
         /\ \A r \in rows' \ rows : r \in staged /\ r.batch = n
         /\ faults' = 0 => faults = 0 /\ \A r \in staged' \ staged : r \in vectors'
<1> USE DEF saverVars, dbVars, mainVars, histVars, TypeOK, TxUnderLock, OwnTx
<1>0. Succeed \/ Fail => (faults' = 0 => faults = 0 /\ Succeed)
  BY PipelineAssumption DEF Succeed, Fail
<1>1. CASE SaverLock(n)
  BY <1>0, <1>1 DEF SaverStep, SaverLock, SaverReturns, DbFree
<1>2. CASE SaverBegin(n)
  BY <1>0, <1>2 DEF SaverStep, SaverBegin, SaverReturns, TxOf, PendingOf
<1>3. CASE SaverCommit(n)
  BY <1>0, <1>3 DEF SaverStep, SaverCommit, SaverReturns
<1>4. CASE SaverDone(n)
  BY <1>4 DEF SaverStep, SaverDone, SaverReturns
<1>5. ASSUME NEW i \in tx, SaverInsert(n, i)
      PROVE  /\ TxUnderLock' /\ OwnTx'
             /\ inflight' \subseteq inflight
             /\ rows' = rows /\ vectors \subseteq vectors'
             /\ faults' = 0 => faults = 0 /\ \A r \in staged' \ staged : r \in vectors'
  <2>1. faults' = 0 => faults = 0 /\ Succeed
    BY <1>0, <1>5 DEF SaverInsert
  <2>2. Succeed => ~ Fail
    BY PipelineAssumption DEF Succeed, Fail
  <2> QED
    BY <1>5, <2>1, <2>2 DEF SaverInsert, SaverReturns
<1> QED
  BY <1>1, <1>2, <1>3, <1>4, <1>5 DEF SaverStep

LEMMA DownKeeps ==
  ASSUME ServerTypeOK, ServerInv, Down, exposed \subseteq exposed',
         faults = 0 => \A r \in rows : r.batch \notin exposed' => r \in tqv
  PROVE  ServerInv'
  BY DEF Down, ProcessEnds, ServerInv, TxUnderLock, OwnTx, CompactInv, ExitInv, Kept, InMemory,
         Selected, OnDisk, Settled, dbVars

LEMMA ServerInvStep ==
  ASSUME ServerTypeOK, ServerInv, [ServerNext]_allVars
  PROVE  ServerInv'
<1> USE DEF ServerInv, CompactInv, ExitInv, Kept, InMemory, Selected, OnDisk, Settled,
            saverVars, dbVars, sweepVars
<1>0. TypeOK /\ (Succeed \/ Fail => (faults' = 0 => faults = 0 /\ ~ Fail))
  BY PipelineAssumption DEF ServerTypeOK, TypeOK, Succeed, Fail
<1>1. CASE Boot
  <2>1. staged = {} /\ tx = {} /\ inflight = {}
    BY <1>1 DEF Boot, ServerTypeOK, TypeOK, TxUnderLock
  <2> QED
    BY <1>1, <2>1 DEF Boot, TxUnderLock, OwnTx, ServerTypeOK
<1>2. CASE ListCodebases \/ SweepEnds \/ SweepNext \/ Tick \/ Signal
  <2>1. /\ UNCHANGED <<rows, vectors, saverVars, tqv, exposed>>
        /\ \/ phase \notin {"off", "compact"} /\ phase' \notin {"off", "compact"}
           \/ UNCHANGED <<phase, activeIDs>>
        /\ faults' = 0 => faults = 0
        /\ sig' = "exit" => sig = "exit"
    BY <1>0, <1>2 DEF ListCodebases, SweepEnds, SweepNext, Tick, Signal, vars
  <2> QED
    BY <2>1 DEF TxUnderLock, OwnTx
<1>3. CASE SweepStep
  <2>1. /\ UNCHANGED <<tx, dbLock, staged>>
        /\ rows' \subseteq rows
        /\ \A r \in rows' \cup staged' : r \in vectors => r \in vectors'
        /\ faults' = 0 => faults = 0
    BY <1>0, <1>3, UpdateEffect DEF SweepStep
  <2>2. /\ phase = "update" /\ phase' = "update" /\ UNCHANGED <<sig, tqv>>
        /\ exposed \subseteq exposed' /\ (sig = "exit" => inflight' \subseteq exposed')
    BY <1>3 DEF SweepStep, NoteExit
  <2> QED
    BY <2>1, <2>2 DEF TxUnderLock, OwnTx
<1>4. CASE SelectActive
  BY <1>0, <1>4 DEF SelectActive, TxUnderLock, OwnTx
<1>5. CASE Compact
  <2>1. \A i \in staged : i.batch \in exposed
    BY <1>5 DEF Compact, ServerTypeOK, TypeOK, TxUnderLock, OwnTx
  <2>2. phase = "compact" /\ phase' = "tick" /\ vectors' = vectors \cap activeIDs
    BY <1>5 DEF Compact
  <2>3. UNCHANGED <<rows, saverVars, sig, exposed>>
    BY <1>5 DEF Compact
  <2>4. faults' = 0 => faults = 0 /\ tqv' = vectors'
    BY <1>0, <1>5 DEF Compact
  <2>5. faults' = 0 => \A r \in rows \cup staged : Settled(r) => r \in vectors'
    BY <2>1, <2>2, <2>4
  <2> QED
    BY <2>2, <2>3, <2>4, <2>5 DEF TxUnderLock, OwnTx
<1>6. ASSUME NEW c \in Codebase, SweepOne(c) PROVE ServerInv'
  BY <1>0, <1>6 DEF SweepOne, StartUpdate, TxUnderLock, OwnTx
<1>7. CASE SignalSave
  <2>1. phase # "off"
    BY <1>7 DEF SignalSave, ServerTypeOK
  <2> QED
    BY <1>0, <1>7, <2>1 DEF SignalSave, TxUnderLock, OwnTx
<1>8. CASE SignalExit
  BY <1>8, DownKeeps DEF SignalExit
<1>9. CASE StdinClosed
  <2>1. \A r \in vectors : r.batch \notin exposed' => r \in tqv
    BY <1>9 DEF StdinClosed
  <2>2. exposed \subseteq exposed' /\ phase # "off" /\ Down
    BY <1>9 DEF StdinClosed
  <2> QED
    BY <2>1, <2>2, DownKeeps
<1>10. ASSUME NEW n \in Batch, Saver(n) PROVE ServerInv'
  <2>1. /\ TxUnderLock' /\ OwnTx'
        /\ inflight' \subseteq inflight /\ n \in inflight
        /\ rows \subseteq rows' /\ vectors \subseteq vectors'
        /\ \A r \in rows' \ rows : r \in staged /\ r.batch = n
        /\ faults' = 0 => faults = 0 /\ \A r \in staged' \ staged : r \in vectors'
    BY <1>0, <1>10, SaverEffect DEF Saver
  <2>2. /\ UNCHANGED <<phase, activeIDs, tqv>>
        /\ exposed \subseteq exposed' /\ (sig' = "exit" => sig = "exit")
    BY <1>10 DEF Saver, NoteExit
  <2>3. phase # "off"
    BY <2>1 DEF ServerTypeOK
  <2>4. CompactInv' /\ ExitInv'
    BY <2>1, <2>2
  <2>5. ASSUME faults' = 0 PROVE InMemory'
    BY <2>1, <2>2, <2>3, <2>5
  <2>6. ASSUME faults' = 0 PROVE Selected' /\ OnDisk'
    BY <2>1, <2>2, <2>3, <2>6
  <2> QED
    BY <2>1, <2>4, <2>5, <2>6
<1>11. CASE Environment /\ UNCHANGED serverVars
  BY <1>11 DEF Environment, Edit, serverVars, TxUnderLock, OwnTx
<1>12. CASE UNCHANGED allVars
  BY <1>12 DEF allVars, vars, serverVars, TxUnderLock, OwnTx
<1> QED
  BY <1>1, <1>2, <1>3, <1>4, <1>5, <1>6, <1>7, <1>8, <1>9, <1>10, <1>11, <1>12
  DEF ServerNext, Sweep, Handler

LEMMA ServerInvariance == ServerSpec => [](ServerTypeOK /\ ServerInv)
  BY ServerTypeInit, ServerTypeStep, ServerInvInit, ServerInvStep, PTL DEF ServerSpec

\* When no call fails, sweeps, compactions, restarts and the signal handler lose no
\* committed row but those of batches whose saver was in flight at the SELECT or at the
\* handler's save, or that no Save had written when the process just ended
\* (runIndexSweep, Index.Compact, the handler of cmd/server).
THEOREM SettledRowsStayReachable == ServerSpec => []SettledRowsReachable
<1>1. ServerInv => SettledRowsReachable
  BY DEF ServerInv, Kept, InMemory, OnDisk, Settled, SettledRowsReachable
<1> QED
  BY <1>1, ServerInvariance, PTL

\* Compact, although its list of ids grows old while savers commit, leaves no vector
\* without a committed row, failing calls included (Index.Compact).
THEOREM CompactDropsOrphans == ServerSpec => CompactLeavesNoOrphans
<1> DEFINE NoOrphans == phase = "compact" /\ phase' = "tick" => vectors' \subseteq rows'
<1>1. ServerTypeOK /\ ServerInv /\ [ServerNext]_allVars => [NoOrphans]_allVars
  <2> SUFFICES ASSUME ServerInv, [ServerNext]_allVars, phase = "compact", phase' = "tick"
               PROVE  vectors' \subseteq rows'
    OBVIOUS
  <2>1. Compact
    BY DEF ServerNext, Sweep, Handler, Boot, ListCodebases, SweepStep, SweepNext, SweepEnds,
           SelectActive, SweepOne, Tick, Signal, SignalSave, SignalExit, StdinClosed, Down, Saver,
           serverVars, sweepVars, allVars
  <2> QED
    BY <2>1 DEF Compact, ServerInv, CompactInv, dbVars
<1>2. ServerSpec => [][NoOrphans]_allVars
  BY <1>1, ServerInvariance, PTL DEF ServerSpec
<1> QED
  BY <1>2 DEF CompactLeavesNoOrphans
============================================================================
