----------------------------- MODULE IndexerRun -----------------------------
(***************************************************************************)
(* cmd/indexer: one process indexes one codebase and exits.                *)
(*                                                                         *)
(* The process loads the vectors of the .tqv file, calls UpdateIndex, waits*)
(* for the background savers, writes the .tqv file and reports success.  An*)
(* error of UpdateIndex or of Save ends it at once (log.Fatalf), and it may*)
(* be killed at any moment.  It is run again and again on the same database*)
(* and .tqv file while the workspace is edited.  Writing the file is one   *)
(* step: TqvStorage shows why.                                             *)
(***************************************************************************)
EXTENDS IndexPipeline

VARIABLES
  phase,     \* where main is
  tqv,       \* ids in the .tqv file
  finished   \* history: batches of the processes that reported success

indexerVars == <<phase, tqv, finished>>
allVars == <<vars, indexerVars>>

IndexerTypeOK ==
  /\ TypeOK
  /\ phase \in {"off", "start", "update", "wait", "save", "success"}
  /\ tqv \subseteq Item
  /\ finished \subseteq 1 .. runs
  /\ pc # "idle" => phase = "update"
  /\ phase = "off" => inflight = {} /\ vectors = {}

IndexerInit == Init /\ phase = "off" /\ tqv = {} /\ finished = {}

\* Mutant: the index starts empty instead of from the file.
Launch_Fresh ==
  /\ phase = "off" /\ runs < MaxRuns
  /\ phase' = "start" /\ vectors' = {}
  /\ UNCHANGED <<files, dbVars, mainVars, saverVars, runs, edits, faults, histVars, tqv, finished>>

\* NewIndex loads the .tqv file.
Launch ==
  /\ phase = "off" /\ runs < MaxRuns
  /\ phase' = "start" /\ vectors' = tqv
  /\ UNCHANGED <<files, dbVars, mainVars, saverVars, runs, edits, faults, histVars, tqv, finished>>

Begin(c) ==
  /\ phase = "start" /\ StartUpdate(c)
  /\ phase' = "update" /\ UNCHANGED <<tqv, finished>>

UpdateSucceeded ==
  /\ phase = "update" /\ pc \in {"changed", "same"}
  /\ phase' = "wait" /\ pc' = "idle"
  /\ UNCHANGED <<files, dbVars, vectors, cb, tree, delta, left, jobs, saverVars, runs, edits,
                 faults, histVars, tqv, finished>>

\* log.Fatalf exits the process; a saver that is running is not waited for.
UpdateFailed ==
  /\ phase = "update" /\ pc = "failed"
  /\ ProcessEnds /\ UNCHANGED faults
  /\ phase' = "off" /\ UNCHANGED <<tqv, finished>>

\* Mutant: AsyncSaveWG.Wait is not called.
WaitReturns_NoWait ==
  /\ phase = "wait"
  /\ phase' = "save" /\ UNCHANGED <<vars, tqv, finished>>

\* AsyncSaveWG.Wait.
WaitReturns ==
  /\ phase = "wait" /\ inflight = {}
  /\ phase' = "save" /\ UNCHANGED <<vars, tqv, finished>>

\* index.Save; a failure is fatal and leaves the old file.
SaveIndex ==
  /\ phase = "save"
  /\ \/ /\ Succeed
        /\ tqv' = vectors /\ finished' = finished \cup {runs}
        /\ phase' = "success"
        /\ UNCHANGED <<files, dbVars, vectors, mainVars, saverVars, runs, edits, histVars>>
     \/ Fail /\ ProcessEnds /\ phase' = "off" /\ UNCHANGED <<tqv, finished>>

\* main returns after it has printed that all changes are synced.
Exit ==
  /\ phase = "success"
  /\ ProcessEnds /\ UNCHANGED faults
  /\ phase' = "off" /\ UNCHANGED <<tqv, finished>>

Crash ==
  /\ phase # "off" /\ Fail
  /\ ProcessEnds
  /\ phase' = "off" /\ UNCHANGED <<tqv, finished>>

MainStep ==
  \/ \E c \in Codebase : Begin(c)
  \/ UpdateStep /\ UNCHANGED indexerVars
  \/ UpdateSucceeded \/ UpdateFailed \/ WaitReturns \/ SaveIndex \/ Exit

IndexerNext ==
  \/ Launch
  \/ MainStep
  \/ \E n \in Batch : SaverStep(n) /\ UNCHANGED indexerVars
  \/ Crash
  \/ Environment /\ UNCHANGED indexerVars

IndexerSpec == IndexerInit /\ [][IndexerNext]_allVars

\* A started process is scheduled, main and savers alike.
IndexerFairSpec ==
  /\ IndexerSpec
  /\ WF_allVars(MainStep)
  /\ \A n \in Batch : WF_allVars(SaverStep(n) /\ UNCHANGED indexerVars)

(***************************************************************************)
(* Properties.                                                             *)
(***************************************************************************)
\* A row that an indexer has reported as synced keeps its vector in the .tqv file
\* for good, whatever later runs do and wherever they crash: they load the file
\* before they replace it, and main waits for the savers before it saves.
DurableVectors == \A r \in rows : r.batch \in finished => r \in tqv \cup unadded

\* A vector in the .tqv file has its row, unless the save of its batch failed half
\* way, or the row was at a path a purge may look for and a purge took it: the file
\* keeps its vector at least until the next Save.  No vector of an unfinished
\* transaction ever reaches the file.
OrphansExplained == tqv \subseteq rows \cup unsaved \cup Struck

\* A process that starts always ends: UpdateIndex returns and Wait is released.
IndexerEnds == phase # "off" ~> phase = "off"
============================================================================
