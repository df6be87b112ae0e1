---------------------------- MODULE GrepPipeline ----------------------------
(***************************************************************************)
(* ggrep.Search and its caller searchLexicalSparse: goroutines that hand   *)
(* each other work over bounded channels.                                  *)
(*                                                                         *)
(*   traverser -> dirCh -> walkers -> jobCh -> I/O workers -> scanCh       *)
(*             -> CPU workers -> ch -> collector                           *)
(*                                                                         *)
(* The traverser takes one root after the other, with a directory channel  *)
(* and walkers of its own for each.  A walker that meets a subdirectory    *)
(* starts a goroutine to send it.  I/O workers read files into buffers of  *)
(* a pool, which travel with the job and are put back by the CPU worker    *)
(* that has scanned them.  Each channel is closed by the goroutine that    *)
(* knows that all of its senders are done, and Search returns when the CPU *)
(* workers have.  Which lines of a content match is module LineScan's.     *)
(***************************************************************************)
EXTENDS Integers, Sequences, FiniteSets, SequencesExt

CONSTANTS
  Walker, IoWorker, CpuWorker,         \* goroutines of each stage
  DirCap, JobCap, ScanCap, MatchCap,   \* capacities of the channels
  Dir, File,   \* the paths below the roots
  Entries,     \* the entries of a directory, in the order of os.ReadDir
  Ignored,     \* those its own .gitignore matches
  Allowed,     \* files with an allowed extension
  Size,        \* "empty", "small" (at most a buffer) or "large"
  Lines,       \* matching lines of a file
  Roots,       \* the paths Search is called with
  None,        \* no path
  MaxBuffers,  \* bound: buffers in the pool or in hand at once
  MaxFaults    \* bound: failing file system calls

ASSUME GrepAssumption ==
  /\ \A n \in {DirCap, JobCap, ScanCap, MatchCap} : n \in Nat \ {0}
  /\ IsFiniteSet(IoWorker) /\ IsFiniteSet(CpuWorker) /\ IsFiniteSet(Walker)
  /\ Walker # {} /\ IoWorker # {} /\ CpuWorker # {}
  /\ Dir \cap File = {} /\ None \notin Dir \cup File
  /\ Entries \in [Dir -> Seq(Dir \cup File)]
  /\ Ignored \in [Dir -> SUBSET (Dir \cup File)]
  /\ Allowed \subseteq File
  /\ Size \in [File -> {"empty", "small", "large"}]
  /\ Lines \in [File -> Nat]
  /\ \A f \in File : Size[f] = "empty" => Lines[f] = 0
  /\ Roots \in Seq(Dir \cup File)
  /\ MaxFaults \in Nat /\ MaxBuffers \in Nat
  /\ MaxBuffers >= Cardinality(IoWorker) + ScanCap + Cardinality(CpuWorker)

VARIABLES
  root,      \* the traverser: which root is next
  walking,   \* whether it is in walkWg.Wait
  walkWg,    \* the count of that WaitGroup
  dirs,      \* dirCh
  senders,   \* directories whose sender goroutine has not sent them
  walk,      \* each walker: its directory and the entries left
  jobs,      \* jobCh
  io,        \* each I/O worker: where it is, and its job
  pool,      \* bufPool: buffers that wait to be used again
  scan,      \* scanCh
  cpu,       \* each CPU worker: where it is, its job, the lines reported
  match,     \* ch, the collector's channel
  main,      \* searchLexicalSparse: in Search, in colWg.Wait, or past it
  collector, \* whether the collector runs
  found,     \* matchLines: lines collected of each file
  faults,    \* failed calls so far
  missed     \* history: visits of each file lost to a failed call

walkVars == <<root, walking, walkWg, dirs, senders, walk>>
ioVars   == <<io, pool>>
endVars  == <<match, main, collector, found>>
vars == <<walkVars, jobs, ioVars, scan, cpu, endVars, faults, missed>>

NoEntry == [dir |-> None, left |-> <<>>]
NoJob == [file |-> None, buf |-> 0, stream |-> FALSE]
Job == [file : File \cup {None}, buf : Nat, stream : BOOLEAN]
Channel(S) == [open : BOOLEAN, q : Seq(S)]
NewChannel == [open |-> TRUE, q |-> <<>>]

\* Closing, sending, receiving.  A receiver ends when the channel is closed and empty.
Closed(ch) == [ch EXCEPT !.open = FALSE]
HasRoom(ch, cap) == Len(ch.q) < cap
Sent(ch, x) == [ch EXCEPT !.q = Append(@, x)]
Received(ch) == [ch EXCEPT !.q = Tail(@)]
Drained(ch) == ~ ch.open /\ ch.q = <<>>

\* What a walker keeps of a directory: subdirectories and files its .gitignore
\* does not match, files only with an allowed extension.
Kept(d) == {e \in Range(Entries[d]) : e \notin Ignored[d] /\ e \in Dir \cup Allowed}

\* The directories a walk of d visits: the least set that holds d and is closed.
Below(d) == {e \in Dir : \A S \in SUBSET Dir :
               (d \in S /\ \A s \in S : Kept(s) \cap Dir \subseteq S) => e \in S}

\* Entries are the entries of a tree: os.ReadDir does not follow links.
ASSUME TreeAssumption ==
  /\ \A d, e \in Dir : \A k \in DOMAIN Entries[d], l \in DOMAIN Entries[e] :
       Entries[d][k] = Entries[e][l] => d = e /\ k = l
  /\ \A d \in Dir : \A e \in Dir \cap Kept(d) : d \notin Below(e)

\* The files a visit of a path leads to.
Reached(p) ==
  IF p \in File THEN {p} \cap Allowed
  ELSE File \cap UNION {Kept(d) : d \in Below(p)}

Visits == [f \in File |-> Cardinality({k \in DOMAIN Roots : f \in Reached(Roots[k])})]

Fail == faults < MaxFaults /\ faults' = faults + 1
Succeed == UNCHANGED <<faults, missed>>

\* A failed call loses the files it would have led to.
Lose(fs) == Fail /\ missed' = [f \in File |-> missed[f] + IF f \in fs THEN 1 ELSE 0]

Init ==
  /\ root = 1 /\ walking = FALSE /\ walkWg = 0
  /\ dirs = NewChannel /\ senders = {} /\ walk = [w \in Walker |-> NoEntry]
  /\ jobs = NewChannel /\ scan = NewChannel /\ match = NewChannel
  /\ io = [i \in IoWorker |-> [at |-> "idle", job |-> NoJob]] /\ pool = {}
  /\ cpu = [c \in CpuWorker |-> [at |-> "idle", job |-> NoJob, lines |-> 0]]
  /\ main = "search" /\ collector = TRUE /\ found = [f \in File |-> 0]
  /\ faults = 0 /\ missed = [f \in File |-> 0]

(***************************************************************************)
(* The traverser.                                                          *)
(***************************************************************************)
TraverserPending == root <= Len(Roots) /\ ~ walking

\* os.Stat of a root fails, or the root is a file: no walk.
RootFile ==
  /\ TraverserPending
  /\ \/ Lose(Reached(Roots[root])) /\ UNCHANGED jobs
     \/ Succeed /\ Roots[root] \in File \ Allowed /\ UNCHANGED jobs
     \/ /\ Succeed /\ Roots[root] \in Allowed
        /\ HasRoom(jobs, JobCap) /\ jobs' = Sent(jobs, Roots[root])
  /\ root' = root + 1
  /\ UNCHANGED <<walking, walkWg, dirs, senders, walk, ioVars, scan, cpu, endVars>>

RootDir ==
  /\ TraverserPending /\ Roots[root] \in Dir
  /\ walking' = TRUE /\ walkWg' = 1
  /\ dirs' = Sent(NewChannel, Roots[root])
  /\ UNCHANGED <<root, senders, walk, jobs, ioVars, scan, cpu, endVars, faults, missed>>

\* walkWg.Wait returns; the walkers end on the closed channel.
WalkEnds ==
  /\ walking /\ walkWg = 0
  /\ dirs' = Closed(dirs) /\ walking' = FALSE /\ root' = root + 1
  /\ UNCHANGED <<walkWg, senders, walk, jobs, ioVars, scan, cpu, endVars, faults, missed>>

CloseJobs ==
  /\ root > Len(Roots) /\ ~ walking /\ jobs.open
  /\ jobs' = Closed(jobs)
  /\ UNCHANGED <<walkVars, ioVars, scan, cpu, endVars, faults, missed>>

(***************************************************************************)
(* The walkers and the goroutines they start.                              *)
(***************************************************************************)
\* os.ReadDir, in its order, or its error.
WalkerTakes(w) ==
  /\ walk[w] = NoEntry /\ dirs.q # <<>>
  /\ LET d == Head(dirs.q) IN
       \/ /\ Succeed
          /\ walk' = [walk EXCEPT ![w] = [dir |-> d, left |-> Entries[d]]]
          /\ UNCHANGED walkWg
       \/ /\ Lose(Reached(d))
          /\ walkWg' = walkWg - 1 /\ UNCHANGED walk
  /\ dirs' = Received(dirs)
  /\ UNCHANGED <<root, walking, senders, jobs, ioVars, scan, cpu, endVars>>

\* Mutant: the goroutine that sends the subdirectory counts it, not the walker.
WalkerMeetsDir_NoAdd(w) ==
  /\ walk[w].left # <<>> /\ Head(walk[w].left) \in Kept(walk[w].dir) \cap Dir
  /\ senders' = senders \cup {Head(walk[w].left)}
  /\ walk' = [walk EXCEPT ![w].left = Tail(@)]
  /\ UNCHANGED <<root, walking, walkWg, dirs, jobs, ioVars, scan, cpu, endVars, faults, missed>>

\* Mutant: the walker sends the subdirectory itself.
WalkerMeetsDir_Blocking(w) ==
  /\ walk[w].left # <<>> /\ Head(walk[w].left) \in Kept(walk[w].dir) \cap Dir
  /\ HasRoom(dirs, DirCap) /\ dirs' = Sent(dirs, Head(walk[w].left))
  /\ walkWg' = walkWg + 1
  /\ walk' = [walk EXCEPT ![w].left = Tail(@)]
  /\ UNCHANGED <<root, walking, senders, jobs, ioVars, scan, cpu, endVars, faults, missed>>

WalkerMeetsDir(w) ==
  /\ walk[w].left # <<>> /\ Head(walk[w].left) \in Kept(walk[w].dir) \cap Dir
  /\ walkWg' = walkWg + 1
  /\ senders' = senders \cup {Head(walk[w].left)}
  /\ walk' = [walk EXCEPT ![w].left = Tail(@)]
  /\ UNCHANGED <<root, walking, dirs, jobs, ioVars, scan, cpu, endVars, faults, missed>>

\* An entry that is ignored, or a file with another extension.
WalkerSkips(w) ==
  /\ walk[w].left # <<>> /\ Head(walk[w].left) \notin Kept(walk[w].dir)
  /\ walk' = [walk EXCEPT ![w].left = Tail(@)]
  /\ UNCHANGED <<root, walking, walkWg, dirs, senders, jobs, ioVars, scan, cpu, endVars, faults, missed>>

WalkerMeetsFile(w) ==
  /\ walk[w].left # <<>> /\ Head(walk[w].left) \in Kept(walk[w].dir) \cap File
  /\ HasRoom(jobs, JobCap) /\ jobs' = Sent(jobs, Head(walk[w].left))
  /\ walk' = [walk EXCEPT ![w].left = Tail(@)]
  /\ UNCHANGED <<root, walking, walkWg, dirs, senders, ioVars, scan, cpu, endVars, faults, missed>>

WalkerDone(w) ==
  /\ walk[w] # NoEntry /\ walk[w].left = <<>>
  /\ walkWg' = walkWg - 1
  /\ walk' = [walk EXCEPT ![w] = NoEntry]
  /\ UNCHANGED <<root, walking, dirs, senders, jobs, ioVars, scan, cpu, endVars, faults, missed>>

DirSent(d) ==
  /\ d \in senders /\ HasRoom(dirs, DirCap)
  /\ dirs' = Sent(dirs, d) /\ senders' = senders \ {d}
  /\ UNCHANGED <<root, walking, walkWg, walk, jobs, ioVars, scan, cpu, endVars, faults, missed>>

(***************************************************************************)
(* The I/O workers.                                                        *)
(***************************************************************************)
IoSet(i, at, job) == io' = [io EXCEPT ![i] = [at |-> at, job |-> job]]

\* os.Stat: an error and an empty file are skipped, a large file is left to the
\* CPU worker to stream.
IoTakes(i) ==
  /\ io[i].at = "idle" /\ jobs.q # <<>>
  /\ jobs' = Received(jobs)
  /\ LET f == Head(jobs.q) IN
       \/ Lose({f}) /\ UNCHANGED io
       \/ Succeed /\ Size[f] = "empty" /\ UNCHANGED io
       \/ /\ Succeed /\ Size[f] = "small"
          /\ IoSet(i, "open", [NoJob EXCEPT !.file = f])
       \/ /\ Succeed /\ Size[f] = "large"
          /\ IoSet(i, "send", [NoJob EXCEPT !.file = f, !.stream = TRUE])
  /\ UNCHANGED <<walkVars, pool, scan, cpu, endVars>>

Held ==
  {io[i].job.buf : i \in IoWorker} \cup {cpu[c].job.buf : c \in CpuWorker}
  \cup {scan.q[k].buf : k \in DOMAIN scan.q}

\* What bufPool.New makes: a buffer that is nowhere else, by its least free number.
NewBuffer ==
  LET free == (1 .. MaxBuffers) \ (pool \cup Held)
  IN  {b \in free : \A x \in free : b <= x}

\* os.Open, and a buffer: sync.Pool keeps them for each processor, so Get may make
\* one although some are in the pool.
IoOpens(i) ==
  /\ io[i].at = "open"
  /\ \/ Lose({io[i].job.file}) /\ IoSet(i, "idle", NoJob) /\ UNCHANGED pool
     \/ /\ Succeed
        /\ \E b \in pool \cup NewBuffer :
             /\ IoSet(i, "read", [io[i].job EXCEPT !.buf = b])
             /\ pool' = pool \ {b}
  /\ UNCHANGED <<walkVars, jobs, scan, cpu, endVars>>

\* The garbage collector takes a buffer that is in the pool.
PoolDrops ==
  /\ \E b \in pool : pool' = pool \ {b}
  /\ UNCHANGED <<walkVars, jobs, io, scan, cpu, endVars, faults, missed>>

\* io.ReadFull; any error but an early end puts the buffer back.
IoReads(i) ==
  /\ io[i].at = "read"
  /\ \/ Succeed /\ IoSet(i, "send", io[i].job) /\ UNCHANGED pool
     \/ /\ Lose({io[i].job.file}) /\ IoSet(i, "idle", NoJob)
        /\ pool' = pool \cup {io[i].job.buf}
  /\ UNCHANGED <<walkVars, jobs, scan, cpu, endVars>>

IoSends(i) ==
  /\ io[i].at = "send" /\ HasRoom(scan, ScanCap)
  /\ scan' = Sent(scan, io[i].job)
  /\ IoSet(i, "idle", NoJob)
  /\ UNCHANGED <<walkVars, jobs, pool, cpu, endVars, faults, missed>>

IoEnds(i) ==
  /\ io[i].at = "idle" /\ Drained(jobs)
  /\ IoSet(i, "end", NoJob)
  /\ UNCHANGED <<walkVars, jobs, pool, scan, cpu, endVars, faults, missed>>

\* ioWg.Wait returns.
CloseScan ==
  /\ \A i \in IoWorker : io[i].at = "end"
  /\ scan.open /\ scan' = Closed(scan)
  /\ UNCHANGED <<walkVars, jobs, ioVars, cpu, endVars, faults, missed>>

(***************************************************************************)
(* The CPU workers.                                                        *)
(***************************************************************************)
CpuSet(c, at, job, lines) == cpu' = [cpu EXCEPT ![c] = [at |-> at, job |-> job, lines |-> lines]]

\* Only a streamed job opens its file here.
CpuTakes(c) ==
  /\ cpu[c].at = "idle" /\ scan.q # <<>>
  /\ scan' = Received(scan)
  /\ LET job == Head(scan.q) IN
       \/ Succeed /\ CpuSet(c, "scan", job, 0)
       \/ job.stream /\ Lose({job.file}) /\ UNCHANGED cpu
  /\ UNCHANGED <<walkVars, jobs, ioVars, endVars>>

\* Mutant: the buffer goes back to the pool with the first line that matches.
CpuReports_Puts(c) ==
  /\ cpu[c].at = "scan" /\ cpu[c].lines < Lines[cpu[c].job.file]
  /\ HasRoom(match, MatchCap) /\ match' = Sent(match, cpu[c].job.file)
  /\ cpu' = [cpu EXCEPT ![c].lines = @ + 1]
  /\ pool' = pool \cup ({cpu[c].job.buf} \ {0})
  /\ UNCHANGED <<walkVars, jobs, io, scan, main, collector, found, faults, missed>>

\* onMatch: a line is sent to the collector.
CpuReports(c) ==
  /\ cpu[c].at = "scan" /\ cpu[c].lines < Lines[cpu[c].job.file]
  /\ HasRoom(match, MatchCap) /\ match' = Sent(match, cpu[c].job.file)
  /\ cpu' = [cpu EXCEPT ![c].lines = @ + 1]
  /\ UNCHANGED <<walkVars, jobs, ioVars, scan, main, collector, found, faults, missed>>

\* The job is done, its buffer goes back.
CpuScanned(c) ==
  /\ cpu[c].at = "scan" /\ cpu[c].lines = Lines[cpu[c].job.file]
  /\ CpuSet(c, "idle", NoJob, 0)
  /\ pool' = pool \cup ({cpu[c].job.buf} \ {0})
  /\ UNCHANGED <<walkVars, jobs, io, scan, endVars, faults, missed>>

CpuEnds(c) ==
  /\ cpu[c].at = "idle" /\ Drained(scan)
  /\ CpuSet(c, "end", NoJob, 0)
  /\ UNCHANGED <<walkVars, jobs, ioVars, scan, endVars, faults, missed>>

(***************************************************************************)
(* The caller and its collector.                                           *)
(***************************************************************************)
\* cpuWg.Wait and Search return; the caller closes its channel.
SearchReturns ==
  /\ main = "search" /\ \A c \in CpuWorker : cpu[c].at = "end"
  /\ main' = "wait" /\ match' = Closed(match)
  /\ UNCHANGED <<walkVars, jobs, ioVars, scan, cpu, collector, found, faults, missed>>

Collect ==
  /\ collector /\ match.q # <<>>
  /\ found' = [found EXCEPT ![Head(match.q)] = @ + 1]
  /\ match' = Received(match)
  /\ UNCHANGED <<walkVars, jobs, ioVars, scan, cpu, main, collector, faults, missed>>

CollectorEnds ==
  /\ collector /\ Drained(match)
  /\ collector' = FALSE
  /\ UNCHANGED <<walkVars, jobs, ioVars, scan, cpu, match, main, found, faults, missed>>

\* Mutant: the caller does not wait for the collector.
CallerGoesOn_NoWait ==
  /\ main = "wait" /\ main' = "query"
  /\ UNCHANGED <<walkVars, jobs, ioVars, scan, cpu, match, collector, found, faults, missed>>

\* colWg.Wait returns; the lines are turned into ids.
CallerGoesOn ==
  /\ main = "wait" /\ ~ collector /\ main' = "query"
  /\ UNCHANGED <<walkVars, jobs, ioVars, scan, cpu, match, collector, found, faults, missed>>

WalkerStep(w) ==
  \/ WalkerTakes(w) \/ WalkerMeetsDir(w) \/ WalkerSkips(w)
  \/ WalkerMeetsFile(w) \/ WalkerDone(w)
IoStep(i) == IoTakes(i) \/ IoOpens(i) \/ IoReads(i) \/ IoSends(i) \/ IoEnds(i)
CpuStep(c) == CpuTakes(c) \/ CpuReports(c) \/ CpuScanned(c) \/ CpuEnds(c)

Next ==
  \/ RootFile \/ RootDir \/ WalkEnds \/ CloseJobs \/ CloseScan
  \/ \E w \in Walker : WalkerStep(w)
  \/ \E d \in Dir : DirSent(d)
  \/ \E i \in IoWorker : IoStep(i)
  \/ PoolDrops
  \/ \E c \in CpuWorker : CpuStep(c)
  \/ SearchReturns \/ Collect \/ CollectorEnds \/ CallerGoesOn

Spec == Init /\ [][Next]_vars

\* As long as some goroutine can move, one does: no behaviour is infinite.
FairSpec == Spec /\ WF_vars(Next)

(***************************************************************************)
(* Properties.                                                             *)
(***************************************************************************)
\* Where a buffer may be: one job holds it.
Holders ==
  [b \in 1 .. MaxBuffers |->
     {<<"io", i>> : i \in {i \in IoWorker : io[i].job.buf = b}}
     \cup {<<"cpu", c>> : c \in {c \in CpuWorker : cpu[c].job.buf = b}}
     \cup {<<"scan", k>> : k \in {k \in DOMAIN scan.q : scan.q[k].buf = b}}]

\* Nobody sends on a closed channel, which would panic: each channel is open as
\* long as one of its senders has not ended, the sender goroutines of directories
\* nobody has received yet included.
SendersFindChannelOpen ==
  /\ senders # {} => walking /\ dirs.open
  /\ (\E w \in Walker : walk[w] # NoEntry) => walking /\ jobs.open
  /\ (\E i \in IoWorker : io[i].at # "end") => scan.open
  /\ (\E c \in CpuWorker : cpu[c].at # "end") => match.open

\* A buffer is in the pool or belongs to one job, never both: no worker reads a
\* file into a buffer another worker is scanning.
BuffersNotShared ==
  \A b \in 1 .. MaxBuffers : Cardinality(Holders[b]) + (IF b \in pool THEN 1 ELSE 0) <= 1

\* The caller sees every line of every file the roots lead to exactly once per
\* root, and goes on with all of them; whatever a failed call loses is lost for
\* that visit only.
Search == INSTANCE FileSearch WITH over <- main = "query"
ImplementsFileSearch == Search!Spec

\* The caller gets its answer: walkers, senders and workers that block each other on
\* full channels never all wait.
SearchEnds == <>(main = "query")
============================================================================
