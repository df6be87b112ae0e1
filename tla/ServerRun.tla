----------------------------- MODULE ServerRun ------------------------------
(***************************************************************************)
(* cmd/server: the MCP server keeps registered codebases indexed.          *)
(*                                                                         *)
(* One goroutine sweeps: it lists the registered codebases, calls          *)
(* UpdateIndex on each and, when one of them changed, selects the ids of   *)
(* the memory rows and compacts the vector index to them, which also writes*)
(* the .tqv file.  It neither waits for the background savers nor takes    *)
(* dbLock for the SELECT.  A second goroutine sleeps until a signal, waits *)
(* for the savers, saves the index and exits.  The process also ends, with *)
(* no Save at all, when its standard input is closed, when it crashes or   *)
(* when it is killed; it is then started again from the .tqv file.  The    *)
(* tools that search are readers of this state and no part of the module.  *)
(***************************************************************************)
EXTENDS IndexPipeline

\* The indexer has run once for each codebase before the server starts.
ASSUME ServerAssumption ==
  IsFiniteSet(Codebase) /\ Cardinality(Codebase) <= MaxRuns

VARIABLES
  phase,      \* where the sweeping goroutine is
  sweepLeft,  \* codebases this sweep has still to update
  updated,    \* whether one of them has changed
  activeIDs,  \* what the SELECT before Compact returned
  sig,        \* where the signal goroutine is
  tqv,        \* ids in the .tqv file
  exposed     \* history: batches whose saver was in flight at a SELECT or
              \* while the handler saved and exited, or that a process which
              \* ended without Save had not written to the .tqv file

sweepVars == <<phase, sweepLeft, updated, activeIDs>>
serverVars == <<sweepVars, sig, tqv, exposed>>
allVars == <<vars, serverVars>>

ServerTypeOK ==
  /\ TypeOK
  /\ phase \in {"off", "list", "sweep", "update", "select", "compact", "tick"}
  /\ sweepLeft \subseteq Codebase
  /\ updated \in BOOLEAN
  /\ activeIDs \subseteq Item
  /\ sig \in {"none", "wait", "save", "exit"}
  /\ tqv \subseteq Item
  /\ exposed \subseteq Batch
  /\ pc # "idle" => phase = "update"
  /\ phase = "off" => inflight = {} /\ vectors = {} /\ sig = "none"

(***************************************************************************)
(* The server starts on what a successful indexer run per codebase left.   *)
(***************************************************************************)
ServerInit ==
  /\ files \in [Place -> Version \cup {Absent}]
  /\ \A c \in Codebase : \E f \in File : files[Resolved(c, f)] # Absent
  /\ trees = [c \in Codebase |-> [f \in File |->
                LET v == files[Resolved(c, f)] IN IF v = Absent THEN Absent ELSE HashOf[v]]]
  /\ registered = Codebase
  /\ \E run \in [Codebase -> 1 .. Cardinality(Codebase)] :
       /\ \A c, d \in Codebase : run[c] = run[d] => c = d
       /\ rows = {i \in Item : /\ i.batch = run[i.cb] /\ i.ver = files[Resolved(i.cb, i.file)]
                               /\ i.chunk \in ChunksOf[i.ver]}
  /\ unresolved = {} /\ purged = {}
  /\ tqv = rows /\ vectors = {}
  /\ pc = "idle" /\ cb \in Codebase /\ tree = NoFiles
  /\ delta = NoDelta /\ left = {} /\ jobs = {}
  /\ dbLock = 0 /\ inflight = {} /\ pending = {} /\ tx = {} /\ staged = {}
  /\ runs = Cardinality(Codebase) /\ edits = 0 /\ faults = 0
  /\ unembedded = {} /\ unadded = {} /\ unsaved = {} /\ skewed = {}
  /\ phase = "off" /\ sweepLeft = {} /\ updated = FALSE /\ activeIDs = {}
  /\ sig = "none" /\ exposed = {}

\* While the handler is between Save and exit, every batch in flight is exposed.
NoteExit == exposed' = IF sig = "exit" THEN exposed \cup inflight' ELSE exposed

\* NewIndex loads the .tqv file; the goroutines start.
Boot ==
  /\ phase = "off"
  /\ phase' = "list" /\ vectors' = tqv
  /\ UNCHANGED <<files, dbVars, mainVars, saverVars, runs, edits, faults, histVars,
                 sweepLeft, updated, activeIDs, sig, tqv, exposed>>

\* ListCodebases; on an error, or with nothing registered, the sweep is over.
ListCodebases ==
  /\ phase = "list" /\ DbFree
  /\ runs + Cardinality(registered) <= MaxRuns
  /\ \/ Succeed /\ sweepLeft' = registered /\ phase' = "sweep"
     \/ Fail /\ sweepLeft' = {} /\ phase' = "tick"
  /\ updated' = FALSE
  /\ UNCHANGED <<files, dbVars, vectors, mainVars, saverVars, runs, edits, histVars,
                 activeIDs, sig, tqv, exposed>>

SweepOne(c) ==
  /\ phase = "sweep" /\ c \in sweepLeft
  /\ StartUpdate(c)
  /\ phase' = "update" /\ sweepLeft' = sweepLeft \ {c}
  /\ UNCHANGED <<updated, activeIDs, sig, tqv, exposed>>

SweepStep == phase = "update" /\ UpdateStep /\ NoteExit /\ UNCHANGED <<sweepVars, sig, tqv>>

\* UpdateIndex has returned; only a call that counted a change asks for Compact.
SweepNext ==
  /\ phase = "update" /\ pc \in Returned
  /\ pc' = "idle" /\ phase' = "sweep"
  /\ updated' = (updated \/ pc = "changed")
  /\ UNCHANGED <<files, dbVars, vectors, cb, tree, delta, left, jobs, saverVars, runs, edits,
                 faults, histVars, sweepLeft, activeIDs, sig, tqv, exposed>>

SweepEnds ==
  /\ phase = "sweep" /\ sweepLeft = {}
  /\ phase' = IF updated THEN "select" ELSE "tick"
  /\ UNCHANGED <<vars, sweepLeft, updated, activeIDs, sig, tqv, exposed>>

\* Mutant: every Scan fails, and is skipped.
SelectActive_NoRows ==
  /\ phase = "select"
  /\ activeIDs' = {} /\ Succeed
  /\ exposed' = exposed \cup inflight
  /\ phase' = "compact"
  /\ UNCHANGED <<files, dbVars, vectors, mainVars, saverVars, runs, edits, histVars,
                 sweepLeft, updated, sig, tqv>>

\* SELECT id FROM gemini_memories, without dbLock: the committed rows.  On an
\* error, the ids read before it, none when Open or Query failed.
SelectActive ==
  /\ phase = "select"
  /\ \/ Succeed /\ activeIDs' = rows
     \/ Fail /\ activeIDs' \in SUBSET rows
  /\ exposed' = exposed \cup inflight
  /\ phase' = "compact"
  /\ UNCHANGED <<files, dbVars, vectors, mainVars, saverVars, runs, edits, histVars,
                 sweepLeft, updated, sig, tqv>>

\* Mutant: the index is written as it is.
Compact_NoFilter ==
  /\ phase = "compact"
  /\ \/ Succeed /\ tqv' = vectors
     \/ Fail /\ UNCHANGED tqv
  /\ activeIDs' = {} /\ phase' = "tick"
  /\ UNCHANGED <<files, dbVars, vectors, mainVars, saverVars, runs, edits, histVars,
                 sweepLeft, updated, sig, exposed>>

\* Compact filters the index under its own lock, then saves it; the error of the
\* save is ignored.
Compact ==
  /\ phase = "compact"
  /\ vectors' = vectors \cap activeIDs
  /\ \/ Succeed /\ tqv' = vectors'
     \/ Fail /\ UNCHANGED tqv
  /\ activeIDs' = {} /\ phase' = "tick"
  /\ UNCHANGED <<files, dbVars, mainVars, saverVars, runs, edits, histVars,
                 sweepLeft, updated, sig, exposed>>

\* The ticker fires.
Tick ==
  /\ phase = "tick" /\ phase' = "list"
  /\ UNCHANGED <<vars, sweepLeft, updated, activeIDs, sig, tqv, exposed>>

\* The goroutine that waits in AsyncSaveWG.Wait is released when the count drops
\* to zero, at that moment and not later.
Saver(n) ==
  /\ SaverStep(n)
  /\ sig' = IF sig = "wait" /\ inflight' = {} THEN "save" ELSE sig
  /\ NoteExit
  /\ UNCHANGED <<sweepVars, tqv>>

\* Mutant: the handler waits for the next saver that ends, not for a count of zero.
Signal_WaitsForDone ==
  /\ phase # "off" /\ sig = "none"
  /\ sig' = "wait"
  /\ UNCHANGED <<vars, sweepVars, tqv, exposed>>

\* A signal arrives: AsyncSaveWG.Wait returns at once when the count is zero.
Signal ==
  /\ phase # "off" /\ sig = "none"
  /\ sig' = IF inflight = {} THEN "save" ELSE "wait"
  /\ UNCHANGED <<vars, sweepVars, tqv, exposed>>

\* index.Save, with its error logged.
SignalSave ==
  /\ sig = "save" /\ sig' = "exit"
  /\ \/ Succeed /\ tqv' = vectors
     \/ Fail /\ UNCHANGED tqv
  /\ exposed' = exposed \cup inflight
  /\ UNCHANGED <<files, dbVars, vectors, mainVars, saverVars, runs, edits, histVars, sweepVars>>

Down ==
  /\ ProcessEnds
  /\ phase' = "off" /\ sweepLeft' = {} /\ updated' = FALSE /\ activeIDs' = {}
  /\ sig' = "none"
  /\ UNCHANGED <<faults, tqv>>

\* os.Exit(0), whatever the sweep and the savers are doing.
SignalExit == sig = "exit" /\ Down /\ UNCHANGED exposed

\* server.Run returns at the end of standard input, and main with it; a crash or
\* a kill has the same effect.
StdinClosed ==
  /\ phase # "off" /\ Down
  /\ exposed' = exposed \cup {i.batch : i \in vectors \ tqv}

Sweep ==
  \/ ListCodebases \/ SweepStep \/ SweepNext \/ SweepEnds \/ SelectActive \/ Compact
  \/ \E c \in Codebase : SweepOne(c)

Handler == SignalSave \/ SignalExit

ServerNext ==
  \/ Boot \/ Sweep \/ Tick \/ Signal \/ Handler \/ StdinClosed
  \/ \E n \in Batch : Saver(n)
  \/ Environment /\ UNCHANGED serverVars

ServerSpec == ServerInit /\ [][ServerNext]_allVars

\* The goroutines of a running server are scheduled; nobody has to start it,
\* signal it, close its input or edit the workspace.
ServerFairSpec ==
  /\ ServerSpec
  /\ WF_allVars(Sweep) /\ WF_allVars(Handler)
  /\ \A n \in Batch : WF_allVars(Saver(n))

(***************************************************************************)
(* Properties.                                                             *)
(***************************************************************************)
\* When no call fails, a committed row keeps its vector, in memory while the
\* server runs and in the .tqv file while it does not, except for the rows of
\* exposed batches.  So Compact, the restarts and the signal handler lose nothing
\* that was settled when they started.
SettledRowsReachable ==
  faults = 0 =>
    \A r \in rows : r.batch \notin exposed => r \in IF phase = "off" THEN tqv ELSE vectors

\* Compact, which works from a list of ids that grows old while savers run, leaves
\* no vector without a committed row.
CompactLeavesNoOrphans ==
  [][phase = "compact" /\ phase' = "tick" => vectors' \subseteq rows']_allVars

\* A sweep ends, or its process does.
SweepEndsEventually == phase \in {"sweep", "update", "select", "compact"} ~> phase \in {"tick", "off"}

\* After a signal the process ends, however many savers it has to wait for.
SignalTerminates == sig # "none" ~> phase = "off"

(***************************************************************************)
(* What the repository says of the server and this code does not do.       *)
(***************************************************************************)
\* "Filter in-memory map to only contain active IDs" (index.go): when nothing has
\* failed, no vector Compact removes belongs to a committed row.
CompactKeepsActive ==
  [][phase = "compact" /\ phase' = "tick" /\ faults' = 0 =>
       (vectors \ vectors') \cap rows = {}]_allVars
============================================================================
