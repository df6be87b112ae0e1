----------------------------- MODULE TqvStorage -----------------------------
(***************************************************************************)
(* turboquant.Index and turboquant.Storage: the in-memory vectors and the  *)
(* .tqv file they are loaded from and saved to.                            *)
(*                                                                         *)
(* Save writes a temporary file next to the .tqv file and renames it.  The *)
(* module follows every system call, so that a process may end, or a call  *)
(* fail, between any two of them.  Index.mu keeps Add and Delete out while *)
(* a save runs (Save holds the read lock, Compact the write lock), so one  *)
(* process never runs two saves at once; two processes may, and share the  *)
(* name of the temporary file.                                             *)
(***************************************************************************)
EXTENDS Integers, FiniteSets

CONSTANTS
  Proc,      \* the processes that share the file
  Id,        \* row ids
  Inode,     \* files of the file system, named or not
  None,      \* no file
  MaxFaults  \* bound: failing system calls

ASSUME StorageAssumption ==
  /\ IsFiniteSet(Proc)
  /\ None \notin Inode
  /\ Cardinality(Inode) > Cardinality(Proc) + 2
  /\ MaxFaults \in Nat

VARIABLES
  pc,      \* where each process is
  mem,     \* Index.vectors of each process
  fd,      \* the temporary file a process has open
  name,    \* the directory: what the two file names refer to
  data,    \* the files' contents
  faults,  \* failed calls so far
  overlap  \* history: two saves have been under way at once

vars == <<pc, mem, fd, name, data, faults, overlap>>

(***************************************************************************)
(* A file is whole when Load can read the records its header announces,    *)
(* and torn when it cannot.  Save does not truncate the file it opens:     *)
(* what is left behind the records of a sole writer is never read, but the *)
(* records of two writers that have the file open at once are mixed.       *)
(***************************************************************************)
Content == [state : {"empty", "torn", "whole"}, ids : SUBSET Id, mixed : BOOLEAN]
NewFile == [state |-> "empty", ids |-> {}, mixed |-> FALSE]

Saving == {"remove", "open", "header", "body", "rename"}

TypeOK ==
  /\ pc \in [Proc -> {"down", "ready"} \cup Saving]
  /\ mem \in [Proc -> SUBSET Id]
  /\ fd \in [Proc -> Inode \cup {None}]
  /\ name \in [{"tqv", "tmp"} -> Inode \cup {None}]
  /\ data \in [Inode -> Content]
  /\ faults \in 0 .. MaxFaults
  /\ overlap \in BOOLEAN
  /\ \A p \in Proc : fd[p] # None <=> pc[p] \in {"header", "body"}
  /\ name["tqv"] # None => name["tqv"] # name["tmp"]

Init ==
  /\ pc = [p \in Proc |-> "down"]
  /\ mem = [p \in Proc |-> {}]
  /\ fd = [p \in Proc |-> None]
  /\ name = [n \in {"tqv", "tmp"} |-> None]
  /\ data = [f \in Inode |-> NewFile]
  /\ faults = 0
  /\ overlap = FALSE

Fail == faults < MaxFaults /\ faults' = faults + 1

\* Files that have no name and that nobody has open.
Unused == Inode \ ({name[n] : n \in DOMAIN name} \cup {fd[p] : p \in Proc})

\* The one the file system gives to the next file it makes.
NewInode == CHOOSE f \in Unused : TRUE

Loadable == name["tqv"] # None => data[name["tqv"]].state = "whole"
Loaded == IF name["tqv"] = None THEN {} ELSE data[name["tqv"]].ids

\* NewIndex: Load fails on a file that is not whole, and the program with it.
Start(p) ==
  /\ pc[p] = "down" /\ Loadable
  /\ pc' = [pc EXCEPT ![p] = "ready"]
  /\ mem' = [mem EXCEPT ![p] = Loaded]
  /\ UNCHANGED <<fd, name, data, faults, overlap>>

\* Mutant: Add does not take Index.mu.
Add_NoLock(p, i) ==
  /\ pc[p] # "down"
  /\ mem' = [mem EXCEPT ![p] = @ \cup {i}]
  /\ UNCHANGED <<pc, fd, name, data, faults, overlap>>

Add(p, i) ==
  /\ pc[p] = "ready"
  /\ mem' = [mem EXCEPT ![p] = @ \cup {i}]
  /\ UNCHANGED <<pc, fd, name, data, faults, overlap>>

Delete(p, i) ==
  /\ pc[p] = "ready"
  /\ mem' = [mem EXCEPT ![p] = @ \ {i}]
  /\ UNCHANGED <<pc, fd, name, data, faults, overlap>>

NoteOverlap(p) == overlap' = (overlap \/ \E q \in Proc \ {p} : pc[q] \in Saving)

Save(p) ==
  /\ pc[p] = "ready"
  /\ pc' = [pc EXCEPT ![p] = "remove"]
  /\ NoteOverlap(p)
  /\ UNCHANGED <<mem, fd, name, data, faults>>

\* Compact drops the ids that are not active, then saves under the same lock.
Compact(p, active) ==
  /\ pc[p] = "ready"
  /\ mem' = [mem EXCEPT ![p] = @ \cap active]
  /\ pc' = [pc EXCEPT ![p] = "remove"]
  /\ NoteOverlap(p)
  /\ UNCHANGED <<fd, name, data, faults>>

\* os.Remove(tmpFile), its error ignored.
RemoveTmp(p) ==
  /\ pc[p] = "remove"
  /\ \/ name' = [name EXCEPT !["tmp"] = None] /\ UNCHANGED faults
     \/ Fail /\ UNCHANGED name
  /\ pc' = [pc EXCEPT ![p] = "open"]
  /\ UNCHANGED <<mem, fd, data, overlap>>

\* Mutant: the .tqv file is opened and written in place.
OpenTmp_InPlace(p) ==
  /\ pc[p] = "open"
  /\ LET f == IF name["tqv"] = None THEN NewInode ELSE name["tqv"]
     IN  /\ fd' = [fd EXCEPT ![p] = f]
         /\ name' = [name EXCEPT !["tqv"] = f]
         /\ data' = [data EXCEPT ![f] = NewFile]
  /\ pc' = [pc EXCEPT ![p] = "header"]
  /\ UNCHANGED <<mem, faults, overlap>>

\* Mutant: O_EXCL, tried until the temporary file of another save has gone.
OpenTmp_Exclusive(p) ==
  /\ pc[p] = "open" /\ name["tmp"] = None
  /\ fd' = [fd EXCEPT ![p] = NewInode]
  /\ name' = [name EXCEPT !["tmp"] = NewInode]
  /\ data' = [data EXCEPT ![NewInode] = NewFile]
  /\ pc' = [pc EXCEPT ![p] = "header"]
  /\ UNCHANGED <<mem, faults, overlap>>

\* os.OpenFile(tmpFile, O_CREATE|O_WRONLY).
OpenTmp(p) ==
  /\ pc[p] = "open"
  /\ \/ /\ name["tmp"] = None
        /\ fd' = [fd EXCEPT ![p] = NewInode]
        /\ name' = [name EXCEPT !["tmp"] = NewInode]
        /\ data' = [data EXCEPT ![NewInode] = NewFile]
     \/ /\ name["tmp"] # None
        /\ fd' = [fd EXCEPT ![p] = name["tmp"]]
        /\ UNCHANGED <<name, data>>
  /\ pc' = [pc EXCEPT ![p] = "header"]
  /\ UNCHANGED <<mem, faults, overlap>>

WriteHeader(p) ==
  /\ pc[p] = "header"
  /\ data' = [data EXCEPT ![fd[p]] = [state |-> "torn", ids |-> {},
                                      mixed |-> \E q \in Proc \ {p} : fd[q] = fd[p]]]
  /\ pc' = [pc EXCEPT ![p] = "body"]
  /\ UNCHANGED <<mem, fd, name, faults, overlap>>

\* The records, the end of the zstd frame, and f.Close.
WriteBody(p) ==
  /\ pc[p] = "body"
  /\ data' = [data EXCEPT ![fd[p]] =
                IF @.mixed THEN @ ELSE [@ EXCEPT !.state = "whole", !.ids = mem[p]]]
  /\ fd' = [fd EXCEPT ![p] = None]
  /\ pc' = [pc EXCEPT ![p] = "rename"]
  /\ UNCHANGED <<mem, name, faults, overlap>>

\* os.Rename(tmpFile, filePath), an error when another process has taken the
\* temporary file away.
Rename(p) ==
  /\ pc[p] = "rename"
  /\ IF name["tmp"] = None
     THEN UNCHANGED name
     ELSE name' = [name EXCEPT !["tqv"] = name["tmp"], !["tmp"] = None]
  /\ pc' = [pc EXCEPT ![p] = "ready"]
  /\ UNCHANGED <<mem, fd, data, faults, overlap>>

\* Mutant: the temporary file is renamed when a write has failed.
SaveError_Renames(p) ==
  /\ pc[p] \in Saving \ {"remove"} /\ Fail
  /\ name' = IF name["tmp"] = None THEN name
             ELSE [name EXCEPT !["tqv"] = name["tmp"], !["tmp"] = None]
  /\ pc' = [pc EXCEPT ![p] = "ready"]
  /\ fd' = [fd EXCEPT ![p] = None]
  /\ UNCHANGED <<mem, data, overlap>>

\* Open, a write, zw.Close or the rename fails: Save returns the error, closes the
\* file and leaves it where it is.
SaveError(p) ==
  /\ pc[p] \in Saving \ {"remove"} /\ Fail
  /\ pc' = [pc EXCEPT ![p] = "ready"]
  /\ fd' = [fd EXCEPT ![p] = None]
  /\ UNCHANGED <<mem, name, data, overlap>>

\* The process exits or is killed, between any two system calls.
End(p) ==
  /\ pc[p] # "down"
  /\ pc' = [pc EXCEPT ![p] = "down"]
  /\ mem' = [mem EXCEPT ![p] = {}]
  /\ fd' = [fd EXCEPT ![p] = None]
  /\ UNCHANGED <<name, data, faults, overlap>>

SaveStep(p) == RemoveTmp(p) \/ OpenTmp(p) \/ WriteHeader(p) \/ WriteBody(p) \/ Rename(p)

Next ==
  \E p \in Proc :
    \/ Start(p) \/ Save(p) \/ SaveStep(p) \/ SaveError(p) \/ End(p)
    \/ \E i \in Id : Add(p, i) \/ Delete(p, i)
    \/ \E active \in SUBSET Id : Compact(p, active)

Spec == Init /\ [][Next]_vars

\* A save that has begun goes on, unless its process ends.
FairSpec == Spec /\ \A p \in Proc : WF_vars(SaveStep(p))

(***************************************************************************)
(* Properties.                                                             *)
(***************************************************************************)
\* The program can always be started again: whatever a save was doing when a
\* process ended or a call failed, the .tqv file is absent or whole, as long as no
\* two processes have saved at the same time.
FileLoads == ~ overlap => Loadable

\* The file only ever becomes what the process that renames it has in memory: the
\* lock holds mem still from the first record to the rename.
RenamePublishesIndex ==
  [][\A p \in Proc : pc[p] = "rename" /\ name' # name /\ ~ overlap => Loaded' = mem[p]]_vars

\* A save ends, and the index can be used again.
SaveEnds == \A p \in Proc : pc[p] \in Saving ~> pc[p] \in {"ready", "down"}

\* The protocol of Storage.Save is an atomic register until two saves overlap: Start
\* reads the file, the rename is the write, all else is invisible, to every process.
Register == INSTANCE VectorFile WITH
  up <- {p \in Proc : pc[p] # "down"},
  file <- Loaded,
  collided <- overlap
ImplementsVectorFile == Register!Spec
============================================================================
