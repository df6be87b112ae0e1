------------------------- MODULE GrepPipeline_proofs -------------------------
(***************************************************************************)
(* Proofs about GrepPipeline, for any tree of directories, any number of   *)
(* walkers and workers, any capacity of the channels and any failures: no  *)
(* goroutine sends on a closed channel, the buffers that travel from I/O   *)
(* to CPU workers have one owner each, and the pipeline implements         *)
(* FileSearch.                                                             *)
(***************************************************************************)
EXTENDS GrepPipeline, FiniteSetTheorems, TLAPS

IoState == [at : {"idle", "open", "read", "send", "end"}, job : Job]
CpuState == [at : {"idle", "scan", "end"}, job : Job, lines : Nat]

WalkState == {NoEntry} \cup [dir : Dir, left : Seq(Dir \cup File)]

Types ==
  /\ root \in Nat \ {0} /\ walking \in BOOLEAN /\ walkWg \in Int
  /\ dirs \in Channel(Dir) /\ senders \subseteq Dir /\ walk \in [Walker -> WalkState]
  /\ jobs \in Channel(File) /\ scan \in Channel(Job) /\ match \in Channel(File \cup {None})
  /\ io \in [IoWorker -> IoState] /\ cpu \in [CpuWorker -> CpuState]
  /\ pool \subseteq Nat
  /\ main \in {"search", "wait", "query"} /\ collector \in BOOLEAN
  /\ found \in [File -> Nat] /\ missed \in [File -> Nat]

LEMMA ClosedIs ==
  ASSUME NEW S, NEW ch \in Channel(S)
  PROVE  Closed(ch) \in Channel(S) /\ ~ Closed(ch).open /\ Closed(ch).q = ch.q
  BY DEF Channel, Closed

LEMMA SentIs ==
  ASSUME NEW S, NEW ch \in Channel(S), NEW x \in S
  PROVE  /\ Sent(ch, x) \in Channel(S) /\ Sent(ch, x).open = ch.open
         /\ Sent(ch, x).q = Append(ch.q, x) /\ Len(Sent(ch, x).q) = Len(ch.q) + 1
<1>1. ch.q \in Seq(S) /\ Append(ch.q, x) \in Seq(S) /\ Len(Append(ch.q, x)) = Len(ch.q) + 1
  BY DEF Channel
<1> QED
  BY <1>1 DEF Channel, Sent

LEMMA ReceivedIs ==
  ASSUME NEW S, NEW ch \in Channel(S), ch.q # <<>>
  PROVE  /\ Head(ch.q) \in S /\ Received(ch) \in Channel(S)
         /\ Received(ch).open = ch.open /\ Received(ch).q = Tail(ch.q)
         /\ Len(Received(ch).q) = Len(ch.q) - 1
<1>1. ch.q \in Seq(S)
  BY DEF Channel
<1>2. Head(ch.q) \in S /\ Tail(ch.q) \in Seq(S) /\ Len(Tail(ch.q)) = Len(ch.q) - 1
  BY <1>1
<1> QED
  BY <1>2 DEF Channel, Received

LEMMA NewChannelType == \A S : NewChannel \in Channel(S) /\ NewChannel.open /\ NewChannel.q = <<>>
  BY DEF NewChannel, Channel

LEMMA TypesInit == Init => Types
<1> SUFFICES ASSUME Init PROVE Types
  OBVIOUS
<1>1. NoJob \in Job
  BY DEF NoJob, Job
<1>2. io \in [IoWorker -> IoState] /\ cpu \in [CpuWorker -> CpuState]
  BY <1>1 DEF Init, IoState, CpuState
<1>3. /\ dirs \in Channel(Dir) /\ jobs \in Channel(File) /\ scan \in Channel(Job)
      /\ match \in Channel(File \cup {None})
  BY NewChannelType DEF Init
<1>4. root \in Nat \ {0} /\ walkWg \in Int /\ pool \subseteq Nat /\ senders \subseteq Dir
  BY DEF Init
<1>5. /\ walk \in [Walker -> WalkState] /\ walking \in BOOLEAN
      /\ main \in {"search", "wait", "query"} /\ collector \in BOOLEAN
      /\ found \in [File -> Nat] /\ missed \in [File -> Nat]
  BY DEF Init, WalkState
<1> QED
  BY <1>2, <1>3, <1>4, <1>5 DEF Types

LEMMA MissedType ==
  ASSUME Types, \/ Succeed \/ UNCHANGED missed \/ \E fs : Lose(fs)
  PROVE  missed' \in [File -> Nat]
  BY DEF Types, Succeed, Lose

LEMMA IoTypes ==
  ASSUME Types, NEW i \in IoWorker, IoStep(i)
  PROVE  Types'
<1> USE DEF Types
<1>0. missed' \in [File -> Nat]
  BY MissedType DEF IoStep, IoTakes, IoOpens, IoReads, IoSends, IoEnds
<1>1. NoJob \in Job /\ io[i] \in IoState /\ io[i].job \in Job
  BY DEF NoJob, Job, IoState
<1>2. ASSUME NEW at \in {"idle", "open", "read", "send", "end"}, NEW job \in Job, IoSet(i, at, job)
      PROVE  io' \in [IoWorker -> IoState]
  BY <1>2 DEF IoSet, IoState
<1>3. CASE IoTakes(i)
  <2>1. Head(jobs.q) \in File /\ jobs' \in Channel(File)
    BY <1>3, ReceivedIs DEF IoTakes
  <2>2. /\ [NoJob EXCEPT !.file = Head(jobs.q)] \in Job
        /\ [NoJob EXCEPT !.file = Head(jobs.q), !.stream = TRUE] \in Job
    BY <2>1 DEF NoJob, Job
  <2>3. io' \in [IoWorker -> IoState]
    BY <1>2, <1>3, <2>2 DEF IoTakes
  <2> QED
    BY <1>0, <1>3, <2>1, <2>3 DEF IoTakes, walkVars, endVars
<1>4. CASE IoOpens(i)
  <2>1. CASE IoSet(i, "idle", NoJob) /\ UNCHANGED pool
    BY <1>0, <1>1, <1>2, <1>4, <2>1 DEF IoOpens, walkVars, endVars
  <2>2. ASSUME NEW b \in pool \cup NewBuffer,
               IoSet(i, "read", [io[i].job EXCEPT !.buf = b]), pool' = pool \ {b}
        PROVE  Types'
    <3>1. b \in Nat /\ pool' \subseteq Nat
      BY <2>2 DEF NewBuffer
    <3>2. [io[i].job EXCEPT !.buf = b] \in Job
      BY <1>1, <3>1 DEF Job
    <3>3. io' \in [IoWorker -> IoState]
      BY <1>2, <2>2, <3>2
    <3> QED
      BY <1>0, <1>4, <3>1, <3>3 DEF IoOpens, walkVars, endVars
  <2> QED
    BY <1>4, <2>1, <2>2 DEF IoOpens
<1>5. CASE IoReads(i)
  <2>1. io' \in [IoWorker -> IoState]
    BY <1>1, <1>2, <1>5 DEF IoReads
  <2>2. pool' \subseteq Nat
    BY <1>1, <1>5 DEF IoReads, Job
  <2> QED
    BY <1>0, <1>5, <2>1, <2>2 DEF IoReads, walkVars, endVars
<1>6. CASE IoSends(i)
  <2>1. scan' \in Channel(Job) /\ io' \in [IoWorker -> IoState]
    BY <1>1, <1>2, <1>6, SentIs DEF IoSends
  <2> QED
    BY <1>6, <2>1 DEF IoSends, walkVars, endVars
<1>7. CASE IoEnds(i)
  BY <1>1, <1>2, <1>7 DEF IoEnds, walkVars, endVars
<1> QED
  BY <1>3, <1>4, <1>5, <1>6, <1>7 DEF IoStep

LEMMA CpuTypes ==
  ASSUME Types, NEW c \in CpuWorker, CpuStep(c)
  PROVE  Types'
<1> USE DEF Types
<1>0. missed' \in [File -> Nat]
  BY MissedType DEF CpuStep, CpuTakes, CpuReports, CpuScanned, CpuEnds
<1>1. NoJob \in Job /\ cpu[c] \in CpuState /\ cpu[c].job \in Job /\ cpu[c].lines \in Nat
  BY DEF NoJob, Job, CpuState
<1>2. ASSUME NEW at \in {"idle", "scan", "end"}, NEW job \in Job, CpuSet(c, at, job, 0)
      PROVE  cpu' \in [CpuWorker -> CpuState]
  BY <1>2 DEF CpuSet, CpuState
<1>3. CASE CpuTakes(c)
  <2>1. Head(scan.q) \in Job /\ scan' \in Channel(Job)
    BY <1>3, ReceivedIs DEF CpuTakes
  <2>2. cpu' \in [CpuWorker -> CpuState]
    BY <1>2, <1>3, <2>1 DEF CpuTakes
  <2> QED
    BY <1>0, <1>3, <2>1, <2>2 DEF CpuTakes, walkVars, ioVars, endVars
<1>4. CASE CpuReports(c)
  <2>1. cpu[c].job.file \in File \cup {None}
    BY <1>1 DEF Job
  <2>2. match' \in Channel(File \cup {None})
    BY <1>4, <2>1, SentIs DEF CpuReports
  <2>3. cpu' \in [CpuWorker -> CpuState]
    BY <1>1, <1>4 DEF CpuReports, CpuState
  <2> QED
    BY <1>4, <2>2, <2>3 DEF CpuReports, walkVars, ioVars
<1>5. CASE CpuScanned(c)
  <2>1. pool' \subseteq Nat /\ cpu' \in [CpuWorker -> CpuState]
    BY <1>1, <1>2, <1>5 DEF CpuScanned, Job
  <2> QED
    BY <1>5, <2>1 DEF CpuScanned, walkVars, endVars
<1>6. CASE CpuEnds(c)
  BY <1>1, <1>2, <1>6 DEF CpuEnds, walkVars, ioVars, endVars
<1> QED
  BY <1>3, <1>4, <1>5, <1>6 DEF CpuStep

LEMMA WalkerTypes ==
  ASSUME Types, NEW w \in Walker, WalkerStep(w)
  PROVE  Types'
<1> USE DEF Types
<1>1. \/ walk[w] = NoEntry /\ walk[w].left = <<>>
      \/ walk[w].dir \in Dir /\ walk[w].left \in Seq(Dir \cup File)
  BY DEF WalkState, NoEntry
<1>2. ASSUME walk[w].left # <<>>, walk' = [walk EXCEPT ![w].left = Tail(@)]
      PROVE  walk' \in [Walker -> WalkState]
  <2>1. walk[w] \in [dir : Dir, left : Seq(Dir \cup File)]
    BY <1>2 DEF WalkState, NoEntry
  <2>2. Tail(walk[w].left) \in Seq(Dir \cup File)
    BY <1>2, <2>1
  <2>3. [walk[w] EXCEPT !.left = Tail(walk[w].left)] \in WalkState
    BY <2>1, <2>2 DEF WalkState
  <2>4. walk' = [walk EXCEPT ![w] = [walk[w] EXCEPT !.left = Tail(walk[w].left)]]
    BY <1>2
  <2> QED
    BY <2>3, <2>4
<1>3. CASE WalkerTakes(w)
  <2>1. Head(dirs.q) \in Dir /\ dirs' \in Channel(Dir)
    BY <1>3, ReceivedIs DEF WalkerTakes
  <2>2. Entries[Head(dirs.q)] \in Seq(Dir \cup File)
    BY <2>1, GrepAssumption
  <2>3. walk' \in [Walker -> WalkState] /\ walkWg' \in Int
    BY <1>3, <2>1, <2>2 DEF WalkerTakes, WalkState
  <2>4. missed' \in [File -> Nat]
    BY <1>3, MissedType DEF WalkerTakes
  <2> QED
    BY <1>3, <2>1, <2>3, <2>4 DEF WalkerTakes, ioVars, endVars
<1>4. CASE WalkerMeetsDir(w)
  BY <1>2, <1>4 DEF WalkerMeetsDir, ioVars, endVars
<1>5. CASE WalkerSkips(w)
  BY <1>2, <1>5 DEF WalkerSkips, ioVars, endVars
<1>6. CASE WalkerMeetsFile(w)
  <2>1. jobs' \in Channel(File)
    BY <1>6, SentIs DEF WalkerMeetsFile
  <2> QED
    BY <1>2, <1>6, <2>1 DEF WalkerMeetsFile, ioVars, endVars
<1>7. CASE WalkerDone(w)
  BY <1>7 DEF WalkerDone, WalkState, ioVars, endVars
<1> QED
  BY <1>3, <1>4, <1>5, <1>6, <1>7 DEF WalkerStep

LEMMA TypesStep == Types /\ [Next]_vars => Types'
<1> SUFFICES ASSUME Types, [Next]_vars PROVE Types'
  OBVIOUS
<1> USE DEF Types, walkVars, ioVars, endVars
<1>1. Roots \in Seq(Dir \cup File) /\ Allowed \subseteq File /\ Len(Roots) \in Nat
  BY GrepAssumption
<1>2. CASE RootFile
  <2>1. jobs' \in Channel(File)
    <3>1. Roots[root] \in Allowed => Sent(jobs, Roots[root]) \in Channel(File)
      BY <1>1, SentIs
    <3> QED
      BY <1>2, <3>1 DEF RootFile
  <2>2. missed' \in [File -> Nat]
    BY <1>2, MissedType DEF RootFile
  <2> QED
    BY <1>2, <2>1, <2>2 DEF RootFile
<1>3. CASE RootDir
  <2>1. dirs' \in Channel(Dir)
    <3>1. NewChannel \in Channel(Dir)
      BY NewChannelType
    <3> QED
      BY <1>3, <3>1, SentIs DEF RootDir
  <2> QED
    BY <1>3, <2>1 DEF RootDir
<1>4. CASE WalkEnds \/ CloseJobs \/ CloseScan
  <2>1. /\ Closed(dirs) \in Channel(Dir) /\ Closed(jobs) \in Channel(File)
        /\ Closed(scan) \in Channel(Job)
    BY ClosedIs
  <2>2. CASE WalkEnds
    <3>1. dirs' = Closed(dirs) /\ root' = root + 1 /\ walking' = FALSE
      BY <2>2 DEF WalkEnds
    <3>2. dirs' \in Channel(Dir)
      BY ONLY <2>1, <3>1
    <3>3. UNCHANGED <<walkWg, senders, walk, jobs, io, pool, scan, cpu, match, main,
                      collector, found, missed>>
      BY <2>2 DEF WalkEnds
    <3>4. root' \in Nat \ {0}
      BY <3>1
    <3>5. walking' \in BOOLEAN
      BY ONLY <3>1
    <3> QED
      BY <3>2, <3>3, <3>4, <3>5
  <2>3. CASE CloseJobs \/ CloseScan
    BY <2>1, <2>3 DEF CloseJobs, CloseScan
  <2> QED
    BY <1>4, <2>2, <2>3
<1>5. ASSUME NEW d \in Dir, DirSent(d) PROVE Types'
  BY <1>5, SentIs DEF DirSent
<1>6. CASE SearchReturns \/ Collect \/ CollectorEnds \/ CallerGoesOn \/ PoolDrops
  <2>1. /\ Closed(match) \in Channel(File \cup {None})
        /\ match.q # <<>> => Received(match) \in Channel(File \cup {None})
    BY ClosedIs, ReceivedIs
  <2>2. CASE Collect
    <3>1. found' \in [File -> Nat]
      <4>1. found' = [found EXCEPT ![Head(match.q)] = found[Head(match.q)] + 1]
        BY <2>2 DEF Collect
      <4>2. \A f \in File : found'[f] \in Nat
        BY <4>1
      <4> QED
        BY <4>1, <4>2
    <3> QED
      BY <2>1, <2>2, <3>1 DEF Collect
  <2> QED
    BY <1>6, <2>1, <2>2 DEF SearchReturns, CollectorEnds, CallerGoesOn, PoolDrops
<1>7. CASE UNCHANGED vars
  BY <1>7 DEF vars
<1> QED
  BY <1>2, <1>3, <1>4, <1>5, <1>6, <1>7, WalkerTypes, IoTypes, CpuTypes DEF Next

(***************************************************************************)
(* Closing channels.  Each count of walkWg stands for a directory that is  *)
(* waiting for its sender, is in the channel or is being read, so that at  *)
(* zero nobody is left to send on dirCh or jobCh.  Workers that have ended *)
(* stay ended.                                                             *)
(***************************************************************************)
Busy == {w \in Walker : walk[w] # NoEntry}

WalkCounts ==
  /\ IsFiniteSet(senders)
  /\ Cardinality(senders) + Len(dirs.q) + Cardinality(Busy) <= walkWg
  /\ IF walking THEN dirs.open ELSE senders = {} /\ Busy = {} /\ dirs.q = <<>>

JobsOpen == walking \/ root <= Len(Roots) => jobs.open
WorkersOpen ==
  /\ (\E i \in IoWorker : io[i].at # "end") => scan.open
  /\ (\E c \in CpuWorker : cpu[c].at # "end") => match.open

LEMMA BusyFinite == IsFiniteSet(Busy) /\ Cardinality(Busy) \in Nat
  BY GrepAssumption, FS_Subset, FS_CardinalityType DEF Busy

LEMMA ClosingInit == Init => WalkCounts /\ JobsOpen /\ WorkersOpen
<1> SUFFICES ASSUME Init PROVE WalkCounts /\ JobsOpen /\ WorkersOpen
  OBVIOUS
<1>1. Busy = {} /\ senders = {} /\ dirs.q = <<>> /\ jobs.open /\ scan.open /\ match.open
  BY DEF Init, Busy, NewChannel
<1>2. WalkCounts
  BY <1>1, FS_EmptySet DEF WalkCounts, Init
<1> QED
  BY <1>1, <1>2 DEF JobsOpen, WorkersOpen

\* A set that shrinks or gains one member.
LEMMA CountBounds ==
  ASSUME NEW S, IsFiniteSet(S), NEW T
  PROVE  /\ T \subseteq S => IsFiniteSet(T) /\ Cardinality(T) <= Cardinality(S)
         /\ \A x : /\ T \subseteq S \ {x} /\ x \in S =>
                        IsFiniteSet(T) /\ Cardinality(T) <= Cardinality(S) - 1
                   /\ T \subseteq S \cup {x} =>
                        IsFiniteSet(T) /\ Cardinality(T) <= Cardinality(S) + 1
         /\ Cardinality(S) \in Nat
         /\ IsFiniteSet(T) => Cardinality(T) \in Nat
<1>1. Cardinality(S) \in Nat
  BY FS_CardinalityType
<1>2. ASSUME NEW U, IsFiniteSet(U), T \subseteq U
      PROVE  IsFiniteSet(T) /\ Cardinality(T) <= Cardinality(U) /\ Cardinality(T) \in Nat
  BY <1>2, FS_Subset, FS_CardinalityType
<1>3. ASSUME NEW x, T \subseteq S \ {x}, x \in S
      PROVE  IsFiniteSet(T) /\ Cardinality(T) <= Cardinality(S) - 1
  <2>1. IsFiniteSet(S \ {x}) /\ Cardinality(S \ {x}) = Cardinality(S) - 1
    BY <1>3, FS_RemoveElement
  <2> QED
    BY <1>2, <1>3, <2>1
<1>4. ASSUME NEW x, T \subseteq S \cup {x}
      PROVE  IsFiniteSet(T) /\ Cardinality(T) <= Cardinality(S) + 1
  <2>1. /\ IsFiniteSet(S \cup {x})
        /\ Cardinality(S \cup {x}) = Cardinality(S) \/ Cardinality(S \cup {x}) = Cardinality(S) + 1
    BY FS_AddElement
  <2>2. IsFiniteSet(T) /\ Cardinality(T) <= Cardinality(S \cup {x}) /\ Cardinality(T) \in Nat
    BY <1>2, <1>4, <2>1
  <2> QED
    BY <1>1, <2>1, <2>2
<1>5. IsFiniteSet(T) => Cardinality(T) \in Nat
  BY FS_CardinalityType
<1> QED
  BY <1>1, <1>2, <1>3, <1>4, <1>5

LEMMA WalkCountsStep ==
  ASSUME Types, WalkCounts, [Next]_vars
  PROVE  WalkCounts'
<1> USE DEF walkVars, ioVars, endVars
<1>0. Len(dirs.q) \in Nat
  BY DEF Types, Channel
<1>1. ASSUME UNCHANGED walkVars PROVE WalkCounts'
  BY <1>1 DEF WalkCounts, Busy
<1>2. CASE RootDir
  <2>1. /\ dirs' = Sent(NewChannel, Roots[root]) /\ Roots[root] \in Dir
        /\ walking' = TRUE /\ walkWg' = 1 /\ UNCHANGED <<senders, walk>> /\ ~ walking
    BY <1>2 DEF RootDir, TraverserPending
  <2>2. dirs'.open /\ Len(dirs'.q) = 1
    <3>1. NewChannel \in Channel(Dir) /\ NewChannel.open /\ NewChannel.q = <<>>
      BY NewChannelType
    <3>2. dirs'.open /\ dirs'.q = Append(<<>>, Roots[root])
      BY <2>1, <3>1, SentIs
    <3> QED
      BY <3>2
  <2>3. senders' = {} /\ Busy' = {}
    BY <2>1 DEF WalkCounts, Busy
  <2> QED
    BY <2>1, <2>2, <2>3, FS_EmptySet DEF WalkCounts
<1>3. CASE WalkEnds
  <2>1. walkWg = 0 /\ dirs' = Closed(dirs) /\ walking' = FALSE /\ UNCHANGED <<walkWg, senders, walk>>
    BY <1>3 DEF WalkEnds
  <2>2. dirs'.q = dirs.q /\ Len(dirs.q) \in Nat
    BY <1>0, <2>1, ClosedIs DEF Types
  <2>3. Cardinality(senders) \in Nat
    BY FS_CardinalityType DEF WalkCounts
  <2>4. Cardinality(senders) = 0 /\ Len(dirs.q) = 0 /\ Cardinality(Busy) = 0
    BY <2>1, <2>2, <2>3, BusyFinite DEF WalkCounts
  <2>5. senders = {} /\ Busy = {} /\ dirs.q = <<>>
    BY <2>4, BusyFinite, FS_EmptySet DEF WalkCounts, Types, Channel
  <2> QED
    BY <2>1, <2>2, <2>5, FS_EmptySet DEF WalkCounts, Busy
<1> DEFINE sum == Cardinality(senders) + Len(dirs.q) + Cardinality(Busy)
\* A step inside a walk that keeps the sum within the count.
<1>4. ASSUME walking, UNCHANGED walking, dirs'.open, IsFiniteSet(senders'),
             Cardinality(senders') + Len(dirs'.q) + Cardinality(Busy') <= walkWg'
      PROVE  WalkCounts'
  BY <1>4 DEF WalkCounts
<1>5. /\ Cardinality(senders) \in Nat /\ Len(dirs.q) \in Nat /\ Cardinality(Busy) \in Nat
      /\ walkWg \in Int /\ sum <= walkWg /\ (walking => dirs.open)
  BY BusyFinite, FS_CardinalityType DEF WalkCounts, Types, Channel
<1>6. /\ Busy' \subseteq Busy => Cardinality(Busy') \in Nat /\ Cardinality(Busy') <= Cardinality(Busy)
      /\ \A x : /\ Busy' \subseteq Busy \ {x} /\ x \in Busy =>
                       Cardinality(Busy') \in Nat /\ Cardinality(Busy') <= Cardinality(Busy) - 1
                /\ Busy' \subseteq Busy \cup {x} =>
                       Cardinality(Busy') \in Nat /\ Cardinality(Busy') <= Cardinality(Busy) + 1
  BY BusyFinite, CountBounds
<1>7. ASSUME NEW w \in Walker, WalkerTakes(w) PROVE WalkCounts'
  <2>1. /\ dirs.q # <<>> /\ dirs' = Received(dirs) /\ UNCHANGED <<walking, senders>>
        /\ \/ Busy' \subseteq Busy \cup {w} /\ walkWg' = walkWg
           \/ Busy' = Busy /\ walkWg' = walkWg - 1
    BY <1>7 DEF WalkerTakes, Busy, Types
  <2>2. Len(dirs'.q) = Len(dirs.q) - 1 /\ dirs'.open = dirs.open
    BY <2>1, ReceivedIs DEF Types
  <2>3. walking
    BY <2>1 DEF WalkCounts
  <2> QED
    BY <1>4, <1>5, <1>6, <2>1, <2>2, <2>3 DEF WalkCounts
<1>8. ASSUME NEW w \in Walker, WalkerMeetsDir(w) PROVE WalkCounts'
  <2>1. /\ w \in Busy /\ Busy' \subseteq Busy /\ walkWg' = walkWg + 1
        /\ UNCHANGED <<walking, dirs>> /\ senders' = senders \cup {Head(walk[w].left)}
    BY <1>8 DEF WalkerMeetsDir, Busy, Types, NoEntry
  <2>2. IsFiniteSet(senders') /\ Cardinality(senders') <= Cardinality(senders) + 1
    BY <2>1, CountBounds, FS_AddElement DEF WalkCounts
  <2>3. Cardinality(senders') \in Nat
    BY <2>2, FS_CardinalityType
  <2>4. walking
    BY <2>1 DEF WalkCounts
  <2> QED
    BY <1>4, <1>5, <1>6, <2>1, <2>2, <2>3, <2>4
<1>9. ASSUME NEW w \in Walker, WalkerMeetsFile(w) PROVE WalkCounts'
  <2>1. /\ w \in Busy /\ Busy' \subseteq Busy /\ UNCHANGED <<walking, walkWg, dirs, senders>>
    BY <1>9 DEF WalkerMeetsFile, Busy, Types, NoEntry
  <2>2. walking
    BY <2>1 DEF WalkCounts
  <2> QED
    BY <1>4, <1>5, <1>6, <2>1, <2>2 DEF WalkCounts
<1>14. ASSUME NEW w \in Walker, WalkerSkips(w) PROVE WalkCounts'
  <2>1. /\ w \in Busy /\ Busy' \subseteq Busy /\ UNCHANGED <<walking, walkWg, dirs, senders>>
    BY <1>14 DEF WalkerSkips, Busy, Types, NoEntry
  <2>2. walking
    BY <2>1 DEF WalkCounts
  <2> QED
    BY <1>4, <1>5, <1>6, <2>1, <2>2 DEF WalkCounts
<1>10. ASSUME NEW w \in Walker, WalkerDone(w) PROVE WalkCounts'
  <2>1. /\ w \in Busy /\ Busy' \subseteq Busy \ {w} /\ walkWg' = walkWg - 1
        /\ UNCHANGED <<walking, dirs, senders>>
    BY <1>10 DEF WalkerDone, Busy, Types
  <2>2. walking
    BY <2>1 DEF WalkCounts
  <2> QED
    BY <1>4, <1>5, <1>6, <2>1, <2>2 DEF WalkCounts
<1>11. ASSUME NEW d \in Dir, DirSent(d) PROVE WalkCounts'
  <2>1. /\ d \in senders /\ senders' = senders \ {d} /\ dirs' = Sent(dirs, d)
        /\ UNCHANGED <<walking, walkWg, walk>>
    BY <1>11 DEF DirSent
  <2>2. dirs'.open = dirs.open
    BY <2>1, SentIs DEF Types
  <2>3. Len(dirs'.q) = Len(dirs.q) + 1
    BY <2>1, SentIs DEF Types
  <2>4. IsFiniteSet(senders') /\ Cardinality(senders') = Cardinality(senders) - 1
    BY <2>1, FS_RemoveElement DEF WalkCounts
  <2>5. walking /\ Busy' = Busy
    BY <2>1 DEF WalkCounts, Busy
  <2> QED
    BY <1>4, <1>5, <2>1, <2>2, <2>3, <2>4, <2>5
<1>12. ASSUME RootFile PROVE WalkCounts'
  BY <1>12 DEF RootFile, WalkCounts, Busy
<1>13. ASSUME \/ CloseJobs \/ CloseScan \/ SearchReturns \/ Collect \/ CollectorEnds \/ CallerGoesOn \/ PoolDrops
              \/ \E i \in IoWorker : IoStep(i)
              \/ \E c \in CpuWorker : CpuStep(c)
              \/ UNCHANGED vars
       PROVE  UNCHANGED walkVars
  BY <1>13
  DEF CloseJobs, CloseScan, SearchReturns, Collect, CollectorEnds, CallerGoesOn, PoolDrops, IoStep, IoTakes,
      IoOpens, IoReads, IoSends, IoEnds, CpuStep, CpuTakes, CpuReports, CpuScanned, CpuEnds, vars
<1> QED
  BY <1>1, <1>2, <1>3, <1>7, <1>8, <1>9, <1>10, <1>11, <1>12, <1>13, <1>14
  DEF Next, WalkerStep

LEMMA JobsOpenStep ==
  ASSUME Types, WalkCounts, JobsOpen, [Next]_vars
  PROVE  JobsOpen'
<1> USE DEF JobsOpen, walkVars, ioVars, endVars
<1>1. Len(Roots) \in Nat /\ Roots \in Seq(Dir \cup File) /\ Allowed \subseteq File
  BY GrepAssumption
<1>2. CASE RootFile
  <2>1. jobs'.open = jobs.open
    <3>1. Roots[root] \in Allowed => Sent(jobs, Roots[root]).open = jobs.open
      BY <1>1, SentIs DEF Types
    <3> QED
      BY <1>2, <3>1 DEF RootFile
  <2>2. /\ root <= Len(Roots) /\ root' = root + 1 /\ UNCHANGED walking
    BY <1>2 DEF RootFile, TraverserPending
  <2> QED
    BY <1>1, <2>1, <2>2 DEF Types
<1>3. CASE RootDir
  BY <1>3 DEF RootDir, TraverserPending
<1>4. CASE WalkEnds
  BY <1>1, <1>4 DEF WalkEnds, Types
<1>5. CASE CloseJobs
  BY <1>1, <1>5 DEF CloseJobs, Types
<1>6. ASSUME NEW w \in Walker, WalkerMeetsFile(w) PROVE JobsOpen'
  BY <1>6, SentIs DEF WalkerMeetsFile, Types
<1>7. ASSUME NEW i \in IoWorker, IoTakes(i) PROVE JobsOpen'
  BY <1>7, ReceivedIs DEF IoTakes, Types
<1>8. CASE UNCHANGED <<root, walking, jobs>>
  BY <1>8
<1> QED
  BY <1>2, <1>3, <1>4, <1>5, <1>6, <1>7, <1>8
  DEF Next, WalkerStep, WalkerTakes, WalkerMeetsDir, WalkerSkips, WalkerDone, DirSent, IoStep, IoOpens, IoReads,
      IoSends, IoEnds, CpuStep, CpuTakes, CpuReports, CpuScanned, CpuEnds, CloseScan, SearchReturns,
      Collect, CollectorEnds, CallerGoesOn, PoolDrops, vars

LEMMA WorkersOpenStep ==
  ASSUME Types, WorkersOpen, [Next]_vars
  PROVE  WorkersOpen'
<1> USE DEF WorkersOpen, walkVars, ioVars, endVars
<1>1. ASSUME NEW i \in IoWorker, IoStep(i)
      PROVE  /\ io[i].at # "end" /\ UNCHANGED <<cpu, match>>
             /\ \A j \in IoWorker : io'[j].at # "end" => io[j].at # "end"
             /\ scan'.open = scan.open
  <2>1. scan'.open = scan.open
    <3>1. Sent(scan, io[i].job).open = scan.open
      BY SentIs DEF Types, IoState
    <3> QED
      BY <1>1, <3>1 DEF IoStep, IoTakes, IoOpens, IoReads, IoSends, IoEnds
  <2>2. io[i].at # "end" /\ UNCHANGED <<cpu, match>>
    BY <1>1 DEF IoStep, IoTakes, IoOpens, IoReads, IoSends, IoEnds
  <2>3. UNCHANGED io \/ \E at, job : IoSet(i, at, job)
    BY <1>1 DEF IoStep, IoTakes, IoOpens, IoReads, IoSends, IoEnds
  <2>4. \A j \in IoWorker : j # i => io'[j] = io[j]
    BY <2>3 DEF IoSet, Types
  <2> QED
    BY <2>1, <2>2, <2>4
<1>2. ASSUME NEW c \in CpuWorker, CpuStep(c)
      PROVE  /\ cpu[c].at # "end" /\ UNCHANGED io
             /\ \A d \in CpuWorker : cpu'[d].at # "end" => cpu[d].at # "end"
             /\ scan'.open = scan.open /\ match'.open = match.open
  <2>1. scan'.open = scan.open
    BY <1>2, ReceivedIs DEF CpuStep, CpuTakes, CpuReports, CpuScanned, CpuEnds, Types
  <2>2. match'.open = match.open
    <3>1. cpu[c].job.file \in File \cup {None}
      BY DEF Types, CpuState, Job
    <3>2. Sent(match, cpu[c].job.file).open = match.open
      BY <3>1, SentIs DEF Types
    <3> QED
      BY <1>2, <3>2 DEF CpuStep, CpuTakes, CpuReports, CpuScanned, CpuEnds
  <2>3. cpu[c].at # "end" /\ UNCHANGED io
    BY <1>2 DEF CpuStep, CpuTakes, CpuReports, CpuScanned, CpuEnds
  <2>4. \/ UNCHANGED cpu \/ \E at, job, lines : CpuSet(c, at, job, lines)
        \/ cpu' = [cpu EXCEPT ![c].lines = @ + 1]
    BY <1>2 DEF CpuStep, CpuTakes, CpuReports, CpuScanned, CpuEnds
  <2>5. \A d \in CpuWorker : d # c => cpu'[d] = cpu[d]
    BY <2>4 DEF CpuSet, Types
  <2> QED
    BY <2>1, <2>2, <2>3, <2>5
<1>3. CASE CloseScan
  BY <1>3 DEF CloseScan
<1>4. CASE SearchReturns
  BY <1>4 DEF SearchReturns
<1>5. CASE Collect
  BY <1>5, ReceivedIs DEF Collect, Types
<1>6. CASE UNCHANGED <<io, cpu, scan, match>>
  BY <1>6
<1>7. ASSUME NEW w \in Walker, WalkerStep(w) PROVE UNCHANGED <<io, cpu, scan, match>>
  BY <1>7 DEF WalkerStep, WalkerTakes, WalkerMeetsDir, WalkerSkips, WalkerMeetsFile, WalkerDone
<1> QED
  BY <1>1, <1>2, <1>3, <1>4, <1>5, <1>6, <1>7
  DEF Next, RootFile, RootDir, WalkEnds, CloseJobs, DirSent, CollectorEnds, CallerGoesOn, PoolDrops, vars

LEMMA ClosingInvariance == Spec => [](Types /\ WalkCounts /\ JobsOpen /\ WorkersOpen)
  BY TypesInit, ClosingInit, TypesStep, WalkCountsStep, JobsOpenStep, WorkersOpenStep, PTL DEF Spec

\* Every goroutine of a search is where the code can be, with a job of the right kind, and
\* every channel carries what its receivers expect (ggrep.Search).
THEOREM GrepTypesHold == Spec => []Types
  BY ClosingInvariance, PTL

\* Nobody sends on a closed channel, which would panic: while a directory is waiting to be
\* sent or a walker reads one, dirCh and jobCh are open, and scanCh and the collector's
\* channel are while one of their workers has not ended (ggrep.Search).
THEOREM SendersNeverPanic == Spec => []SendersFindChannelOpen
<1>1. WalkCounts /\ JobsOpen /\ WorkersOpen => SendersFindChannelOpen
  BY DEF WalkCounts, JobsOpen, WorkersOpen, SendersFindChannelOpen, Busy
<1> QED
  BY <1>1, ClosingInvariance, PTL

(***************************************************************************)
(* Buffers.  A buffer is in the pool, with an I/O worker that has read     *)
(* into it, in scanCh, or with the CPU worker that scans it, in one of     *)
(* these places at most; each step moves at most one.  0 is no buffer.     *)
(***************************************************************************)
IoBuf(i) == io[i].job.buf
CpuBuf(c) == cpu[c].job.buf
ScanBuf(k) == scan.q[k].buf
Queue == 1 .. Len(scan.q)

\* Who holds what, and where nothing is held.
Places ==
  /\ pool \subseteq 1 .. MaxBuffers
  /\ \A i \in IoWorker : /\ IoBuf(i) \in 0 .. MaxBuffers
                         /\ io[i].at \in {"idle", "open", "end"} => IoBuf(i) = 0
                         /\ io[i].at = "read" => IoBuf(i) # 0
                         /\ io[i].at \in {"open", "read"} => ~ io[i].job.stream
                         /\ io[i].job.stream => IoBuf(i) = 0
  /\ \A c \in CpuWorker : /\ CpuBuf(c) \in 0 .. MaxBuffers
                          /\ cpu[c].at \in {"idle", "end"} => CpuBuf(c) = 0
  /\ \A k \in Queue : ScanBuf(k) \in 0 .. MaxBuffers /\ (scan.q[k].stream => ScanBuf(k) = 0)

\* At most one place holds a buffer.
OneOwner ==
  /\ \A i, j \in IoWorker : IoBuf(i) # 0 /\ IoBuf(i) = IoBuf(j) => i = j
  /\ \A c, d \in CpuWorker : CpuBuf(c) # 0 /\ CpuBuf(c) = CpuBuf(d) => c = d
  /\ \A k, l \in Queue : ScanBuf(k) # 0 /\ ScanBuf(k) = ScanBuf(l) => k = l
  /\ \A i \in IoWorker, c \in CpuWorker : IoBuf(i) # 0 => IoBuf(i) # CpuBuf(c)
  /\ \A i \in IoWorker, k \in Queue : IoBuf(i) # 0 => IoBuf(i) # ScanBuf(k)
  /\ \A c \in CpuWorker, k \in Queue : CpuBuf(c) # 0 => CpuBuf(c) # ScanBuf(k)
  /\ \A i \in IoWorker : IoBuf(i) \notin pool
  /\ \A c \in CpuWorker : CpuBuf(c) \notin pool
  /\ \A k \in Queue : ScanBuf(k) \notin pool

BufInv == Places /\ OneOwner

LEMMA BufInit == Init => BufInv
<1> SUFFICES ASSUME Init PROVE BufInv
  OBVIOUS
<1>1. scan.q = <<>> /\ Len(scan.q) = 0 /\ pool = {}
  BY DEF Init, NewChannel
<1>2. (\A i \in IoWorker : IoBuf(i) = 0 /\ io[i].at = "idle" /\ ~ io[i].job.stream)
      /\ (\A c \in CpuWorker : CpuBuf(c) = 0)
  BY DEF Init, IoBuf, CpuBuf, NoJob
<1> QED
  BY <1>1, <1>2, GrepAssumption DEF BufInv, Places, OneOwner, Queue

LEMMA QueueIs == Types => DOMAIN scan.q = Queue
<1> SUFFICES ASSUME Types PROVE DOMAIN scan.q = Queue
  OBVIOUS
<1>1. scan.q \in Seq(Job)
  BY DEF Types, Channel
<1> QED
  BY <1>1 DEF Queue

LEMMA BoundIsNat == MaxBuffers \in Nat
  BY GrepAssumption

\* A step that leaves the buffers where they are.
LEMMA BufStays ==
  ASSUME BufInv, UNCHANGED <<pool, io, scan>>,
         \A c \in CpuWorker : CpuBuf(c)' = CpuBuf(c) /\ cpu'[c].at = cpu[c].at
  PROVE  BufInv'
  BY DEF BufInv, Places, OneOwner, IoBuf, ScanBuf, Queue

LEMMA IoBuffers ==
  ASSUME Types, BufInv, NEW i \in IoWorker, IoStep(i)
  PROVE  BufInv'
<1> USE BoundIsNat
<1> USE DEF walkVars, endVars
<1>1. \A j \in IoWorker : j # i => io'[j] = io[j]
  <2>1. UNCHANGED io \/ \E at, job : IoSet(i, at, job)
    BY DEF IoStep, IoTakes, IoOpens, IoReads, IoSends, IoEnds
  <2> QED
    BY <2>1 DEF IoSet, Types
<1>2. ASSUME NEW at, NEW job, IoSet(i, at, job) PROVE io'[i].at = at /\ io'[i].job = job
  BY <1>2 DEF IoSet, Types
<1>3. NoJob.buf = 0 /\ ~ NoJob.stream
  BY DEF NoJob
<1>4. UNCHANGED cpu
  BY DEF IoStep, IoTakes, IoOpens, IoReads, IoSends, IoEnds
\* The buffer of worker i stays as it is, as everybody else's.
<1>5. ASSUME UNCHANGED <<pool, scan>>, IoBuf(i)' = IoBuf(i),
             io'[i].at \in {"idle", "open", "end"} => IoBuf(i) = 0,
             io'[i].at = "read" => IoBuf(i) # 0, io'[i].job.stream => IoBuf(i) = 0,
             io'[i].at \in {"open", "read"} => ~ io'[i].job.stream
      PROVE  BufInv'
  <2>1. \A j \in IoWorker : IoBuf(j)' = IoBuf(j)
    BY <1>1, <1>5 DEF IoBuf
  <2>2. Places'
    BY <1>1, <1>4, <1>5, <2>1 DEF BufInv, Places, CpuBuf, ScanBuf, Queue
  <2> QED
    BY <1>4, <1>5, <2>1, <2>2 DEF BufInv, OneOwner, CpuBuf, ScanBuf, Queue
<1>6. CASE IoTakes(i)
  <2>1. Head(jobs.q) \in File
    BY <1>6, ReceivedIs DEF IoTakes, Types
  <2>2. /\ [NoJob EXCEPT !.file = Head(jobs.q)].buf = 0
        /\ ~ [NoJob EXCEPT !.file = Head(jobs.q)].stream
        /\ [NoJob EXCEPT !.file = Head(jobs.q), !.stream = TRUE].buf = 0
    BY DEF NoJob
  <2>3. io[i].at = "idle" /\ IoBuf(i) = 0
    BY <1>6 DEF IoTakes, BufInv, Places
  <2>4. \/ UNCHANGED io
        \/ io'[i].at = "open" /\ io'[i].job = [NoJob EXCEPT !.file = Head(jobs.q)]
        \/ io'[i].at = "send" /\ io'[i].job = [NoJob EXCEPT !.file = Head(jobs.q), !.stream = TRUE]
    BY <1>2, <1>6 DEF IoTakes
  <2>5. IoBuf(i)' = 0
    BY <2>2, <2>3, <2>4 DEF IoBuf
  <2>6. io'[i].at # "read" /\ (io'[i].at = "open" => ~ io'[i].job.stream)
    BY <2>2, <2>3, <2>4
  <2> QED
    BY <1>5, <1>6, <2>3, <2>5, <2>6 DEF IoTakes
<1>7. CASE IoOpens(i)
  <2>1. io[i].at = "open" /\ IoBuf(i) = 0 /\ io[i].job \in Job
    BY <1>7 DEF IoOpens, BufInv, Places, Types, IoState
  <2>2. CASE IoSet(i, "idle", NoJob) /\ UNCHANGED pool
    BY <1>2, <1>3, <1>5, <1>7, <2>1, <2>2 DEF IoOpens, IoBuf
  <2>3. ASSUME NEW b \in pool \cup NewBuffer,
               IoSet(i, "read", [io[i].job EXCEPT !.buf = b]), pool' = pool \ {b}
        PROVE  BufInv'
    <3>1. IoBuf(i)' = b /\ io'[i].at = "read" /\ io'[i].job.stream = io[i].job.stream
      BY <1>2, <2>1, <2>3 DEF IoBuf, Job
    <3>2. UNCHANGED scan
      BY <1>7 DEF IoOpens
    <3>3. b \in 1 .. MaxBuffers /\ pool' \subseteq 1 .. MaxBuffers /\ b \notin pool'
      BY <2>3 DEF BufInv, Places, NewBuffer
    <3>4. /\ \A j \in IoWorker : IoBuf(j) # b
          /\ \A c \in CpuWorker : CpuBuf(c) # b
          /\ \A k \in Queue : ScanBuf(k) # b
      <4>1. CASE b \in pool
        BY <4>1 DEF BufInv, OneOwner
      <4>2. CASE b \in NewBuffer
        BY <4>2, QueueIs DEF NewBuffer, Held, IoBuf, CpuBuf, ScanBuf
      <4> QED
        BY <2>3, <4>1, <4>2
    <3>5. /\ \A j \in IoWorker : j # i => IoBuf(j)' = IoBuf(j)
          /\ \A c \in CpuWorker : CpuBuf(c)' = CpuBuf(c)
          /\ \A k \in Queue : ScanBuf(k)' = ScanBuf(k)
          /\ Queue' = Queue
      BY <1>1, <1>4, <3>2 DEF IoBuf, CpuBuf, ScanBuf, Queue
    <3>6. ~ io'[i].job.stream
      BY <2>1, <3>1 DEF BufInv, Places
    <3>7. Places'
      <4>1. \A j \in IoWorker : j # i => UNCHANGED <<io[j], IoBuf(j)>> /\ IoBuf(j) \in 0 .. MaxBuffers
        BY <1>1, <3>3, <3>5 DEF BufInv, Places, Types
      <4>2. \A c \in CpuWorker : CpuBuf(c)' \in 0 .. MaxBuffers
        BY <3>3, <3>5 DEF BufInv, Places, Types
      <4>3. \A k \in Queue : ScanBuf(k)' \in 0 .. MaxBuffers
        BY <3>3, <3>5 DEF BufInv, Places, Types
      <4>4. b \in 0 .. MaxBuffers /\ b # 0
        BY <3>3
      <4>5. UNCHANGED <<cpu, scan>> /\ Queue' = Queue
        BY <1>4, <3>2, <3>5
      <4> QED
        BY <3>1, <3>3, <3>5, <3>6, <4>1, <4>2, <4>3, <4>4, <4>5 DEF BufInv, Places
    <3>8. OneOwner'
      BY <2>3, <3>1, <3>3, <3>4, <3>5 DEF BufInv, OneOwner
    <3> QED
      BY <3>7, <3>8 DEF BufInv
  <2> QED
    BY <1>7, <2>2, <2>3 DEF IoOpens
<1>8. CASE IoReads(i)
  <2>1. io[i].at = "read" /\ IoBuf(i) # 0 /\ UNCHANGED scan
    BY <1>8 DEF IoReads, BufInv, Places
  <2>2. CASE IoSet(i, "send", io[i].job) /\ UNCHANGED pool
    BY <1>2, <1>5, <2>1, <2>2 DEF IoBuf, BufInv, Places
  <2>3. CASE IoSet(i, "idle", NoJob) /\ pool' = pool \cup {IoBuf(i)}
    <3>1. IoBuf(i)' = 0 /\ io'[i].at = "idle"
      BY <1>2, <1>3, <2>3 DEF IoBuf
    <3>2. /\ \A j \in IoWorker : j # i => UNCHANGED <<io[j], IoBuf(j)>>
          /\ UNCHANGED <<cpu, scan>> /\ Queue' = Queue
          /\ \A c \in CpuWorker : CpuBuf(c)' = CpuBuf(c)
          /\ \A k \in Queue : ScanBuf(k)' = ScanBuf(k)
      BY <1>1, <1>4, <2>1 DEF IoBuf, CpuBuf, ScanBuf, Queue
    <3>3. io'[i].job.stream = FALSE /\ IoBuf(i) \in 1 .. MaxBuffers /\ 0 \in 0 .. MaxBuffers
      BY <1>2, <1>3, <2>1, <2>3 DEF BufInv, Places, Types, NoJob
    <3>4. Places'
      BY <2>1, <2>3, <3>1, <3>2, <3>3 DEF BufInv, Places
    <3>5. /\ \A j \in IoWorker : j # i => IoBuf(j) # IoBuf(i)
          /\ \A c \in CpuWorker : CpuBuf(c) # IoBuf(i)
          /\ \A k \in Queue : ScanBuf(k) # IoBuf(i)
      BY <2>1 DEF BufInv, OneOwner
    <3>6. OneOwner'
      <4>1. /\ \A j \in IoWorker : IoBuf(j)' \notin pool'
            /\ \A c \in CpuWorker : CpuBuf(c)' \notin pool'
            /\ \A k \in Queue : ScanBuf(k)' \notin pool'
        <5>1. 0 \notin pool'
          BY <2>1, <2>3 DEF BufInv, Places, Types
        <5> QED
          BY <2>3, <3>1, <3>2, <3>5, <5>1 DEF BufInv, OneOwner
      <4> QED
        BY <3>1, <3>2, <4>1 DEF BufInv, OneOwner
    <3> QED
      BY <3>4, <3>6 DEF BufInv
  <2> QED
    BY <1>8, <2>2, <2>3 DEF IoReads, IoBuf
<1>9. CASE IoSends(i)
  <2>0. PICK n \in Nat : n = Len(scan.q) + 1
    <3>1. scan.q \in Seq(Job)
      BY DEF Types, Channel
    <3> QED
      BY <3>1
  <2>1. /\ io[i].at = "send" /\ io[i].job \in Job /\ UNCHANGED pool
        /\ io'[i].at = "idle" /\ ~ io'[i].job.stream /\ IoBuf(i)' = 0
    BY <1>2, <1>3, <1>9 DEF IoSends, Types, IoState, IoBuf
  <2>2. /\ scan.q \in Seq(Job) /\ scan'.q = Append(scan.q, io[i].job)
        /\ Len(scan'.q) = n /\ n <= ScanCap
    <3>1. scan.q \in Seq(Job)
      BY DEF Types, Channel
    <3>2. Len(scan.q) \in Nat /\ ScanCap \in Nat /\ Len(scan.q) < ScanCap
      BY <1>9, <3>1, GrepAssumption DEF IoSends, HasRoom
    <3>3. /\ Sent(scan, io[i].job).q = Append(scan.q, io[i].job)
          /\ Len(Sent(scan, io[i].job).q) = Len(scan.q) + 1
      BY <2>1, SentIs DEF Types
    <3> QED
      BY <1>9, <2>0, <3>1, <3>2, <3>3 DEF IoSends
  <2>3. /\ n \in Nat /\ Queue' = Queue \cup {n} /\ n \notin Queue /\ n \in Queue'
        /\ \A k \in Queue : scan'.q[k] = scan.q[k]
        /\ scan'.q[n] = io[i].job
    <3>1. Len(scan.q) \in Nat
      BY <2>2
    <3> QED
      BY <2>0, <2>2, <3>1 DEF Queue
  <2>4. /\ \A j \in IoWorker : j # i => UNCHANGED <<io[j], IoBuf(j)>>
        /\ \A c \in CpuWorker : UNCHANGED <<cpu[c], CpuBuf(c)>>
        /\ \A k \in Queue : ScanBuf(k)' = ScanBuf(k)
        /\ ScanBuf(n)' = IoBuf(i)
    BY <1>1, <1>4, <2>3 DEF IoBuf, CpuBuf, ScanBuf
  <2>5. Places'
    <3>1. 0 \in 0 .. MaxBuffers /\ IoBuf(i) \in 0 .. MaxBuffers /\ (io[i].job.stream => IoBuf(i) = 0)
      BY <2>1 DEF BufInv, Places, Types
    <3>2. \A k \in Queue' : ScanBuf(k)' \in 0 .. MaxBuffers /\ (scan'.q[k].stream => ScanBuf(k)' = 0)
      BY <2>1, <2>3, <2>4, <3>1 DEF BufInv, Places
    <3>3. \A c \in CpuWorker : /\ CpuBuf(c)' \in 0 .. MaxBuffers
                               /\ cpu'[c].at \in {"idle", "end"} => CpuBuf(c)' = 0
      BY <2>1, <2>4 DEF BufInv, Places
    <3> QED
      BY <2>1, <2>4, <3>1, <3>2, <3>3 DEF BufInv, Places
  <2>6. OneOwner'
    <3>1. /\ \A k, l \in Queue' : ScanBuf(k)' # 0 /\ ScanBuf(k)' = ScanBuf(l)' => k = l
          /\ \A j \in IoWorker, k \in Queue' : IoBuf(j)' # 0 => IoBuf(j)' # ScanBuf(k)'
          /\ \A c \in CpuWorker, k \in Queue' : CpuBuf(c)' # 0 => CpuBuf(c)' # ScanBuf(k)'
      BY <2>1, <2>3, <2>4 DEF BufInv, OneOwner
    <3>2. /\ \A j, k \in IoWorker : IoBuf(j)' # 0 /\ IoBuf(j)' = IoBuf(k)' => j = k
          /\ \A c, d \in CpuWorker : CpuBuf(c)' # 0 /\ CpuBuf(c)' = CpuBuf(d)' => c = d
          /\ \A j \in IoWorker, c \in CpuWorker : IoBuf(j)' # 0 => IoBuf(j)' # CpuBuf(c)'
      BY <2>1, <2>4 DEF BufInv, OneOwner
    <3>3. 0 \notin pool
      BY DEF BufInv, Places, Types
    <3>4. /\ \A j \in IoWorker : IoBuf(j)' \notin pool'
          /\ \A c \in CpuWorker : CpuBuf(c)' \notin pool'
          /\ \A k \in Queue' : ScanBuf(k)' \notin pool'
      BY <2>1, <2>3, <2>4, <3>3 DEF BufInv, OneOwner
    <3> QED
      BY <3>1, <3>2, <3>4 DEF OneOwner
  <2> QED
    BY <2>5, <2>6 DEF BufInv
<1>10. CASE IoEnds(i)
  BY <1>2, <1>3, <1>5, <1>10 DEF IoEnds, IoBuf, BufInv, Places
<1> QED
  BY <1>6, <1>7, <1>8, <1>9, <1>10 DEF IoStep

LEMMA CpuBuffers ==
  ASSUME Types, BufInv, NEW c \in CpuWorker, CpuStep(c)
  PROVE  BufInv'
<1> USE BoundIsNat
<1> USE DEF walkVars, ioVars, endVars
<1>1. UNCHANGED io /\ \A d \in CpuWorker : d # c => cpu'[d] = cpu[d]
  BY DEF CpuStep, CpuTakes, CpuReports, CpuScanned, CpuEnds, CpuSet, Types
<1>2. ASSUME NEW at, NEW job, CpuSet(c, at, job, 0) PROVE cpu'[c].at = at /\ cpu'[c].job = job
  BY <1>2 DEF CpuSet, Types
<1>3. /\ NoJob.buf = 0
      /\ \A i \in IoWorker : UNCHANGED <<io[i], IoBuf(i)>>
      /\ \A d \in CpuWorker : d # c => UNCHANGED <<cpu[d], CpuBuf(d)>>
  BY <1>1 DEF NoJob, IoBuf, CpuBuf
<1>4. scan.q \in Seq(Job) /\ Len(scan.q) \in Nat
  BY DEF Types, Channel
<1>5. CASE CpuTakes(c)
  <2>1. cpu[c].at = "idle" /\ CpuBuf(c) = 0 /\ scan.q # <<>> /\ UNCHANGED pool
    BY <1>5 DEF CpuTakes, BufInv, Places
  <2>2. /\ scan'.q = Tail(scan.q) /\ Len(scan'.q) = Len(scan.q) - 1 /\ Head(scan.q) = scan.q[1]
        /\ 1 \in Queue
    BY <1>4, <1>5, <2>1, ReceivedIs DEF CpuTakes, Types, Queue
  <2>3. \A k \in Queue' : k + 1 \in Queue /\ k + 1 # 1 /\ scan'.q[k] = scan.q[k + 1]
    BY <1>4, <2>1, <2>2 DEF Queue
  <2>4. \A k \in Queue : k = 1 \/ (k - 1 \in Queue' /\ (k - 1) + 1 = k)
    BY <1>4, <2>2 DEF Queue
  <2>5. \A k \in Queue' : ScanBuf(k)' = ScanBuf(k + 1) /\ (scan'.q[k].stream = scan.q[k + 1].stream)
    BY <2>3 DEF ScanBuf
  <2>6. CpuBuf(c)' = ScanBuf(1)
        /\ (cpu'[c].at \in {"idle", "end"} => CpuBuf(c)' = 0)
    <3>1. CASE CpuSet(c, "scan", Head(scan.q), 0)
      BY <1>2, <2>2, <3>1 DEF CpuBuf, ScanBuf
    <3>2. CASE Head(scan.q).stream /\ UNCHANGED cpu
      BY <2>1, <2>2, <3>2 DEF CpuBuf, ScanBuf, BufInv, Places
    <3> QED
      BY <1>5, <3>1, <3>2 DEF CpuTakes
  <2>7. Places'
    <3>1. \A k \in Queue' : ScanBuf(k)' \in 0 .. MaxBuffers /\ (scan'.q[k].stream => ScanBuf(k)' = 0)
      BY <1>1, <2>3, <2>5 DEF BufInv, Places
    <3>2. \A d \in CpuWorker : /\ CpuBuf(d)' \in 0 .. MaxBuffers
                               /\ cpu'[d].at \in {"idle", "end"} => CpuBuf(d)' = 0
      BY <1>1, <1>3, <2>2, <2>6 DEF BufInv, Places
    <3> QED
      BY <1>1, <1>3, <2>1, <3>1, <3>2 DEF BufInv, Places
  <2>8. OneOwner'
    <3>1. \A k, l \in Queue' : k + 1 = l + 1 => k = l
      BY <1>4, <2>2 DEF Queue
    <3>2. /\ \A k, l \in Queue' : ScanBuf(k)' # 0 /\ ScanBuf(k)' = ScanBuf(l)' => k = l
          /\ \A j \in IoWorker, k \in Queue' : IoBuf(j)' # 0 => IoBuf(j)' # ScanBuf(k)'
          /\ \A k \in Queue' : ScanBuf(k)' \notin pool'
      BY <1>3, <2>1, <2>3, <2>5, <3>1 DEF BufInv, OneOwner
    <3>3. \A d \in CpuWorker, k \in Queue' : CpuBuf(d)' # 0 => CpuBuf(d)' # ScanBuf(k)'
      BY <1>3, <2>2, <2>3, <2>5, <2>6 DEF BufInv, OneOwner
    <3>4. /\ \A i, j \in IoWorker : IoBuf(i)' # 0 /\ IoBuf(i)' = IoBuf(j)' => i = j
          /\ \A d, e \in CpuWorker : CpuBuf(d)' # 0 /\ CpuBuf(d)' = CpuBuf(e)' => d = e
          /\ \A i \in IoWorker, d \in CpuWorker : IoBuf(i)' # 0 => IoBuf(i)' # CpuBuf(d)'
      BY <1>3, <2>2, <2>6 DEF BufInv, OneOwner
    <3>5. /\ \A i \in IoWorker : IoBuf(i)' \notin pool'
          /\ \A d \in CpuWorker : CpuBuf(d)' \notin pool'
      BY <1>3, <2>1, <2>2, <2>6 DEF BufInv, OneOwner
    <3> QED
      BY <3>2, <3>3, <3>4, <3>5 DEF OneOwner
  <2> QED
    BY <2>7, <2>8 DEF BufInv
<1>6. CASE CpuReports(c)
  <2>1. cpu'[c].at = cpu[c].at /\ cpu'[c].job = cpu[c].job
    BY <1>6 DEF CpuReports, Types, CpuState
  <2> QED
    BY <1>1, <1>6, <2>1, BufStays DEF CpuReports, CpuBuf
<1>7. CASE CpuScanned(c)
  <2>1. /\ cpu'[c].at = "idle" /\ CpuBuf(c)' = 0 /\ UNCHANGED scan
        /\ pool' = pool \cup ({CpuBuf(c)} \ {0})
    BY <1>2, <1>3, <1>7 DEF CpuScanned, CpuBuf
  <2>2. \A k \in Queue : ScanBuf(k)' = ScanBuf(k)
    BY <2>1 DEF ScanBuf
  <2>3. Queue' = Queue
    BY <2>1 DEF Queue
  <2>4. 0 \notin pool' /\ pool' \subseteq 1 .. MaxBuffers /\ 0 \in 0 .. MaxBuffers
    <3>1. CpuBuf(c) \in 0 .. MaxBuffers /\ pool \subseteq 1 .. MaxBuffers
      BY DEF BufInv, Places, Types
    <3>3. 0 \notin pool /\ 0 \in 0 .. MaxBuffers
      BY <3>1
    <3>4. {CpuBuf(c)} \ {0} \subseteq 1 .. MaxBuffers
      BY <3>1
    <3>5. pool' \subseteq 1 .. MaxBuffers /\ 0 \notin pool'
      BY <2>1, <3>1, <3>3, <3>4
    <3> QED
      BY <3>3, <3>5
  <2>5. Places'
    BY <1>1, <1>3, <2>1, <2>2, <2>3, <2>4 DEF BufInv, Places
  <2>6. OneOwner'
    <3>1. CpuBuf(c) # 0 => /\ \A i \in IoWorker : IoBuf(i) # CpuBuf(c)
                           /\ \A d \in CpuWorker : d # c => CpuBuf(d) # CpuBuf(c)
                           /\ \A k \in Queue : ScanBuf(k) # CpuBuf(c)
      BY DEF BufInv, OneOwner
    <3>2. /\ \A i \in IoWorker : IoBuf(i)' \notin pool'
          /\ \A d \in CpuWorker : CpuBuf(d)' \notin pool'
          /\ \A k \in Queue : ScanBuf(k)' \notin pool'
      BY <1>3, <2>1, <2>2, <2>4, <3>1 DEF BufInv, OneOwner
    <3> QED
      BY <1>3, <2>1, <2>2, <2>3, <3>2 DEF BufInv, OneOwner
  <2> QED
    BY <2>5, <2>6 DEF BufInv
<1>8. CASE CpuEnds(c)
  <2>1. cpu[c].at = "idle" /\ CpuBuf(c) = 0 /\ cpu'[c].at = "end" /\ CpuBuf(c)' = 0
        /\ UNCHANGED <<pool, scan>>
    BY <1>2, <1>3, <1>8 DEF CpuEnds, CpuBuf, BufInv, Places
  <2>2. Queue' = Queue /\ \A k \in Queue : UNCHANGED <<scan.q[k], ScanBuf(k)>>
    BY <2>1 DEF Queue, ScanBuf
  <2> QED
    BY <1>1, <1>3, <2>1, <2>2 DEF BufInv, Places, OneOwner
<1> QED
  BY <1>5, <1>6, <1>7, <1>8 DEF CpuStep

LEMMA BufStep == Types /\ BufInv /\ [Next]_vars => BufInv'
<1> SUFFICES ASSUME Types, BufInv, [Next]_vars PROVE BufInv'
  OBVIOUS
<1> USE DEF walkVars, ioVars, endVars
<1>1. ASSUME UNCHANGED <<pool, io, cpu, scan>> PROVE BufInv'
  BY <1>1, BufStays DEF CpuBuf
<1>2. CASE CloseScan
  <2>1. UNCHANGED <<pool, io, cpu, scan.q>>
    BY <1>2, ClosedIs DEF CloseScan, Types
  <2> QED
    BY <2>1 DEF BufInv, Places, OneOwner, IoBuf, CpuBuf, ScanBuf, Queue
<1>3. CASE RootFile \/ RootDir \/ WalkEnds \/ CloseJobs
  BY <1>1, <1>3 DEF RootFile, RootDir, WalkEnds, CloseJobs
<1>4. ASSUME NEW w \in Walker, WalkerStep(w) PROVE BufInv'
  BY <1>1, <1>4 DEF WalkerStep, WalkerTakes, WalkerMeetsDir, WalkerSkips, WalkerMeetsFile, WalkerDone
<1>5. ASSUME NEW d \in Dir, DirSent(d) PROVE BufInv'
  BY <1>1, <1>5 DEF DirSent
<1>6. CASE SearchReturns \/ Collect \/ CollectorEnds \/ CallerGoesOn
  BY <1>1, <1>6 DEF SearchReturns, Collect, CollectorEnds, CallerGoesOn
<1>7. CASE UNCHANGED vars
  BY <1>1, <1>7 DEF vars
\* The pool only shrinks.
<1>8. CASE PoolDrops
  <2>1. pool' \subseteq pool /\ UNCHANGED <<io, cpu, scan>>
    BY <1>8 DEF PoolDrops
  <2> QED
    BY <2>1 DEF BufInv, Places, OneOwner, IoBuf, CpuBuf, ScanBuf, Queue
<1> QED
  BY <1>2, <1>3, <1>4, <1>5, <1>6, <1>7, <1>8, IoBuffers, CpuBuffers DEF Next

\* A function takes at most as many values as it has arguments.
LEMMA FewValues ==
  ASSUME NEW S, IsFiniteSet(S), NEW f, DOMAIN f = S
  PROVE  IsFiniteSet({f[x] : x \in S}) /\ Cardinality({f[x] : x \in S}) <= Cardinality(S)
<1> DEFINE T == {f[x] : x \in S}
           g == [x \in S |-> f[x]]
<1>1. g \in [S -> T] /\ \A t \in T : \E x \in S : g[x] = t
  OBVIOUS
<1>2. g \in Surjection(S, T)
  BY <1>1 DEF Surjection
<1> QED
  BY <1>2, FS_Surjection

LEMMA BufInvariance == Spec => [](Types /\ BufInv)
  BY TypesInit, BufInit, TypesStep, BufStep, PTL DEF Spec

\* One job at a time holds a buffer, and none while it is in bufPool: no I/O worker reads a
\* file over the content another worker still scans (ggrep.Search).
THEOREM BuffersHaveOneOwner == Spec => []BuffersNotShared
<1>1. ASSUME Types, BufInv PROVE BuffersNotShared
  <2> SUFFICES ASSUME NEW b \in 1 .. MaxBuffers
               PROVE  Cardinality(Holders[b]) + (IF b \in pool THEN 1 ELSE 0) <= 1
    BY DEF BuffersNotShared
  <2>1. DOMAIN scan.q = Queue
    BY <1>1, QueueIs
  <2>2. Holders[b] = {<<"io", i>> : i \in {i \in IoWorker : IoBuf(i) = b}}
                     \cup {<<"cpu", c>> : c \in {c \in CpuWorker : CpuBuf(c) = b}}
                     \cup {<<"scan", k>> : k \in {k \in Queue : ScanBuf(k) = b}}
    BY <2>1 DEF Holders, IoBuf, CpuBuf, ScanBuf
  <2>3. b # 0
    BY BoundIsNat
  <2>4. CASE b \in pool
    <3>1. Holders[b] = {}
      BY <1>1, <2>2, <2>4 DEF BufInv, OneOwner
    <3> QED
      BY <2>4, <3>1, FS_EmptySet
  <2>5. CASE b \notin pool
    <3>1. \A x, y \in Holders[b] : x = y
      BY <1>1, <2>2, <2>3 DEF BufInv, OneOwner
    <3>2. Holders[b] = {} \/ \E x : Holders[b] = {x}
      BY <3>1
    <3>3. Cardinality(Holders[b]) \in {0, 1}
      BY <3>2, FS_EmptySet, FS_Singleton
    <3> QED
      BY <2>5, <3>3
  <2> QED
    BY <2>4, <2>5
<1> QED
  BY <1>1, BufInvariance, PTL

(***************************************************************************)
(* Every visit of a file is accounted for.                                 *)
(***************************************************************************)
\* The paths that lead to x, and those of them a walk of d meets among its entries.
Leads(p) == IF p \in Dir THEN Below(p) \cup Reached(p) ELSE Reached(p)
Above(x) == {p \in Dir \cup File : x \in Leads(p)}
Heading(d, x) == Kept(d) \cap Above(x)

\* The places of a sequence that hold a member of T.
At(q, T) == {k \in DOMAIN q : q[k] \in T}

\* Pairs of a goroutine and one of the numbers F gives it.
Pairs(F) == UNION {{g} \X F[g] : g \in DOMAIN F}

(***************************************************************************)
(* Visits of x on their way: roots not begun, directories waiting for a    *)
(* sender, in dirCh or among the entries a walker has left, files in       *)
(* jobCh, with an I/O worker and in scanCh.                                *)
(***************************************************************************)
From(n, T) == {k \in DOMAIN Roots : k >= n /\ Roots[k] \in T}
AtRoots(x) == From(IF walking THEN root + 1 ELSE root, Above(x))
AtWalkers(x) == Pairs([w \in Walker |-> At(walk[w].left, Heading(walk[w].dir, x))])
AtIo(x) == {i \in IoWorker : io[i].job.file = x}
JobsOf(x) == {job \in Job : job.file = x}

InWalk(x) ==
  Cardinality(senders \cap Above(x)) + Cardinality(At(dirs.q, Above(x))) + Cardinality(AtWalkers(x))
InHand(x) ==
  Cardinality(At(jobs.q, {x})) + Cardinality(AtIo(x)) + Cardinality(At(scan.q, JobsOf(x)))
Coming(x) == Cardinality(AtRoots(x)) + InWalk(x) + InHand(x)

\* Lines of x that a CPU worker has still to report, or that wait for the collector.
LinesLeft(x) ==
  [c \in CpuWorker |-> IF cpu[c].at = "scan" /\ cpu[c].job.file = x
                       THEN (cpu[c].lines + 1) .. Lines[x] ELSE {}]
OnTheWay(x) == Cardinality(Pairs(LinesLeft(x))) + Cardinality(At(match.q, {x}))

\* A directory is on its way at most once.  Of a file, every visit is on its way, lost or
\* begun, and each visit begun has its lines found or on the way.
Accounts ==
  /\ \A d \in Dir : InWalk(d) <= 1
  /\ \A f \in File : \E begun \in Nat :
       /\ Coming(f) + missed[f] + begun = Visits[f]
       /\ OnTheWay(f) + found[f] = Lines[f] * begun

\* A worker ends when it has drained its channel, the collector likewise, and the caller
\* goes on after it.
Ended ==
  /\ \A i \in IoWorker : io[i].at = "end" => Drained(jobs)
  /\ \A c \in CpuWorker : cpu[c].at = "end" => Drained(scan)
  /\ ~ collector => Drained(match)
  /\ main = "query" => ~ collector

\* Where a file is being handled, and where none is.
Handled ==
  /\ \A i \in IoWorker : IF io[i].at \in {"idle", "end"} THEN io[i].job = NoJob ELSE io[i].job.file \in File
  /\ \A k \in DOMAIN scan.q : scan.q[k].file \in File
  /\ \A c \in CpuWorker : cpu[c].at = "scan" => cpu[c].job.file \in File /\ cpu[c].lines <= Lines[cpu[c].job.file]
  /\ match.q \in Seq(File)

LEMMA AtIs ==
  ASSUME NEW S, NEW q \in Seq(S), NEW T
  PROVE  IsFiniteSet(At(q, T)) /\ Cardinality(At(q, T)) \in Nat /\ At(q, T) \subseteq Nat
<1>1. DOMAIN q = 1 .. Len(q) /\ Len(q) \in Nat
  OBVIOUS
<1>2. IsFiniteSet(1 .. Len(q))
  BY <1>1, FS_Interval
<1>3. At(q, T) \subseteq 1 .. Len(q)
  BY <1>1 DEF At
<1> QED
  BY <1>2, <1>3, FS_Subset, FS_CardinalityType

LEMMA AtAppend ==
  ASSUME NEW S, NEW q \in Seq(S), NEW x \in S, NEW T
  PROVE  Cardinality(At(Append(q, x), T)) = Cardinality(At(q, T)) + IF x \in T THEN 1 ELSE 0
<1> DEFINE n == Len(q) + 1
<1>1. /\ n \in Nat /\ DOMAIN q = 1 .. Len(q) /\ Append(q, x) \in Seq(S)
      /\ Len(Append(q, x)) = n /\ Append(q, x)[n] = x
      /\ \A k \in 1 .. Len(q) : Append(q, x)[k] = q[k]
  OBVIOUS
<1>2. DOMAIN Append(q, x) = DOMAIN q \cup {n} /\ n \notin DOMAIN q
  BY <1>1
<1>3. n \notin At(q, T) /\ At(Append(q, x), T) = At(q, T) \cup (IF x \in T THEN {n} ELSE {})
  BY <1>1, <1>2 DEF At
<1>4. IsFiniteSet(At(q, T)) /\ Cardinality(At(q, T)) \in Nat
  BY AtIs
<1>5. CASE x \in T
  <2>1. Cardinality(At(q, T) \cup {n}) = Cardinality(At(q, T)) + 1
    BY <1>3, <1>4, FS_AddElement
  <2> QED
    BY <1>3, <1>5, <2>1
<1>6. CASE x \notin T
  BY <1>3, <1>4, <1>6
<1> QED
  BY <1>5, <1>6

LEMMA AtTail ==
  ASSUME NEW S, NEW q \in Seq(S), q # <<>>, NEW T
  PROVE  Cardinality(At(q, T)) = Cardinality(At(Tail(q), T)) + IF Head(q) \in T THEN 1 ELSE 0
<1> DEFINE Rest == {k \in DOMAIN q : k # 1 /\ q[k] \in T}
           f == [k \in At(Tail(q), T) |-> k + 1]
<1>1. /\ Len(q) \in Nat /\ Len(q) >= 1 /\ DOMAIN q = 1 .. Len(q) /\ Head(q) = q[1]
      /\ Tail(q) \in Seq(S) /\ Len(Tail(q)) = Len(q) - 1
      /\ \A k \in 1 .. Len(q) - 1 : Tail(q)[k] = q[k + 1]
  OBVIOUS
<1>2. At(Tail(q), T) = {k \in 1 .. Len(q) - 1 : q[k + 1] \in T}
  BY <1>1 DEF At
<1>3. f \in Bijection(At(Tail(q), T), Rest)
  <2>1. f \in [At(Tail(q), T) -> Rest]
    BY <1>1, <1>2
  <2>2. \A a, b \in At(Tail(q), T) : f[a] = f[b] => a = b
    BY <1>2
  <2>3. \A r \in Rest : r - 1 \in At(Tail(q), T) /\ f[r - 1] = r
    BY <1>1, <1>2
  <2> QED
    BY <2>1, <2>2, <2>3 DEF Bijection, Injection, Surjection, IsInjective
<1>4. IsFiniteSet(At(Tail(q), T)) /\ Cardinality(At(Tail(q), T)) \in Nat
  BY <1>1, AtIs
<1>5. IsFiniteSet(Rest) /\ Cardinality(Rest) = Cardinality(At(Tail(q), T))
  <2> HIDE DEF f, Rest
  <2> QED
    BY <1>3, <1>4, FS_Bijection DEF ExistsBijection
<1>6. At(q, T) = Rest \cup (IF Head(q) \in T THEN {1} ELSE {}) /\ 1 \notin Rest
  BY <1>1 DEF At
<1>7. Head(q) \in T => Cardinality(Rest \cup {1}) = Cardinality(Rest) + 1
  <2> HIDE DEF Rest
  <2> QED
    BY <1>5, <1>6, FS_AddElement
<1> HIDE DEF Rest
<1>8. CASE Head(q) \in T
  BY <1>4, <1>5, <1>6, <1>7, <1>8
<1>9. CASE Head(q) \notin T
  <2>1. At(q, T) = Rest
    BY <1>6, <1>9
  <2> QED
    BY <1>4, <1>5, <1>9, <2>1
<1> QED
  BY <1>8, <1>9

LEMMA PairsFinite ==
  ASSUME NEW G, IsFiniteSet(G), NEW F, DOMAIN F = G, \A g \in G : IsFiniteSet(F[g])
  PROVE  IsFiniteSet(Pairs(F)) /\ Cardinality(Pairs(F)) \in Nat
<1> DEFINE Sets == {{g} \X F[g] : g \in G}
           h == [g \in G |-> {g} \X F[g]]
<1>1. IsFiniteSet(Sets)
  <2>1. DOMAIN h = G /\ {h[g] : g \in G} = Sets
    OBVIOUS
  <2> HIDE DEF h, Sets
  <2> QED
    BY <2>1, FewValues
<1>2. \A s \in Sets : IsFiniteSet(s)
  <2> SUFFICES ASSUME NEW g \in G PROVE IsFiniteSet({g} \X F[g])
    OBVIOUS
  <2> QED
    BY FS_Singleton, FS_Product
<1>3. IsFiniteSet(UNION Sets)
  <2> HIDE DEF Sets
  <2> QED
    BY <1>1, <1>2, FS_UNION
<1> QED
  BY <1>3, FS_CardinalityType DEF Pairs

\* When the numbers of one goroutine change, the pairs change as they do.
LEMMA PairsChange ==
  ASSUME NEW G, IsFiniteSet(G), NEW F, DOMAIN F = G, \A g \in G : IsFiniteSet(F[g]),
         NEW H, DOMAIN H = G, NEW w \in G, IsFiniteSet(H[w]), \A g \in G \ {w} : H[g] = F[g]
  PROVE  Cardinality(Pairs(H)) + Cardinality(F[w]) = Cardinality(Pairs(F)) + Cardinality(H[w])
<1> DEFINE R == [g \in G |-> IF g = w THEN {} ELSE F[g]]
<1>1. IsFiniteSet(Pairs(R)) /\ Cardinality(Pairs(R)) \in Nat
  <2>1. \A g \in G : IsFiniteSet(R[g])
    BY FS_EmptySet
  <2> HIDE DEF R
  <2> QED
    BY <2>1, PairsFinite DEF R
<1>2. ASSUME NEW E, DOMAIN E = G, IsFiniteSet(E[w]), \A g \in G \ {w} : E[g] = F[g]
      PROVE  Cardinality(Pairs(E)) = Cardinality(Pairs(R)) + Cardinality(E[w]) /\ Cardinality(E[w]) \in Nat
  <2> DEFINE P == {w} \X E[w]
             f == [k \in E[w] |-> <<w, k>>]
  <2>1. Pairs(E) = Pairs(R) \cup P /\ Pairs(R) \cap P = {}
    <3>1. \A g \in G : E[g] = IF g = w THEN E[w] ELSE R[g]
      BY <1>2
    <3> QED
      BY <1>2, <3>1 DEF Pairs
  <2>2. IsFiniteSet(P) /\ Cardinality(P) = Cardinality(E[w]) /\ Cardinality(E[w]) \in Nat
    <3>1. f \in Bijection(E[w], P)
      <4>1. f \in [E[w] -> P] /\ \A a, b \in E[w] : f[a] = f[b] => a = b
        OBVIOUS
      <4>2. \A t \in P : \E k \in E[w] : f[k] = t
        OBVIOUS
      <4> QED
        BY <4>1, <4>2 DEF Bijection, Injection, Surjection, IsInjective
    <3> HIDE DEF f, P
    <3> QED
      BY <1>2, <3>1, FS_Bijection, FS_CardinalityType DEF ExistsBijection
  <2>3. Cardinality(Pairs(R) \cup P) = Cardinality(Pairs(R)) + Cardinality(P) - Cardinality(Pairs(R) \cap P)
    <3> HIDE DEF R, P
    <3> QED
      BY <1>1, <2>2, FS_Union
  <2>4. Cardinality(Pairs(R) \cap P) = 0
    BY <2>1, FS_EmptySet
  <2> HIDE DEF R, P
  <2> QED
    BY <1>1, <2>1, <2>2, <2>3, <2>4
<1> HIDE DEF R
<1>3. /\ Cardinality(Pairs(F)) = Cardinality(Pairs(R)) + Cardinality(F[w]) /\ Cardinality(F[w]) \in Nat
      /\ Cardinality(Pairs(H)) = Cardinality(Pairs(R)) + Cardinality(H[w]) /\ Cardinality(H[w]) \in Nat
  BY <1>2
<1> QED
  BY <1>1, <1>3

(***************************************************************************)
(* The tree: a walk of d meets a path through exactly one of its entries.  *)
(***************************************************************************)
LEMMA KeptIs ==
  ASSUME NEW d \in Dir
  PROVE  /\ Kept(d) \subseteq Dir \cup File /\ Kept(d) \cap File \subseteq Allowed
         /\ \A e \in Kept(d) : \E k \in DOMAIN Entries[d] : Entries[d][k] = e
<1>1. Entries[d] \in Seq(Dir \cup File)
  BY GrepAssumption
<1>2. Range(Entries[d]) = {Entries[d][k] : k \in DOMAIN Entries[d]}
  BY DEF Range
<1>3. Allowed \subseteq File /\ Dir \cap File = {}
  BY GrepAssumption
<1> QED
  BY <1>1, <1>2, <1>3 DEF Kept

LEMMA BelowIs ==
  ASSUME NEW d \in Dir
  PROVE  /\ d \in Below(d) /\ Below(d) \subseteq Dir
         /\ \A s \in Below(d) : Kept(s) \cap Dir \subseteq Below(d)
         /\ \A S \in SUBSET Dir :
              d \in S /\ (\A s \in S : Kept(s) \cap Dir \subseteq S) => Below(d) \subseteq S
  BY DEF Below

\* A directory is kept by one directory only.
LEMMA OneParent ==
  ASSUME NEW d \in Dir, NEW e \in Dir, NEW x \in Kept(d) \cap Kept(e)
  PROVE  d = e
  BY KeptIs, TreeAssumption

LEMMA BelowKept ==
  ASSUME NEW d \in Dir, NEW e \in Kept(d) \cap Dir
  PROVE  Below(e) \subseteq Below(d) \ {d}
<1>1. Below(e) \subseteq Below(d)
  BY BelowIs
<1>2. d \notin Below(e)
  BY TreeAssumption
<1> QED
  BY <1>1, <1>2

\* What is below a directory is below one of its entries, and is kept by what is below it.
LEMMA BelowSplit ==
  ASSUME NEW d \in Dir, NEW x \in Below(d), x # d
  PROVE  /\ \E e \in Kept(d) \cap Dir : x \in Below(e)
         /\ \E s \in Below(d) : x \in Kept(s)
<1> DEFINE S == {d} \cup {y \in Below(d) : \E e \in Kept(d) \cap Dir : y \in Below(e)}
           T == {d} \cup {y \in Below(d) : \E s \in Below(d) : y \in Kept(s)}
<1>1. Below(d) \subseteq S
  <2>1. S \in SUBSET Dir /\ d \in S
    BY BelowIs
  <2>2. ASSUME NEW s \in S, NEW y \in Kept(s) \cap Dir PROVE y \in S
    <3>1. y \in Below(d)
      BY <2>2, BelowIs
    <3>2. CASE s = d
      BY <3>1, <3>2, BelowIs
    <3>3. CASE s # d
      BY <3>1, <3>3, BelowIs
    <3> QED
      BY <3>2, <3>3
  <2> HIDE DEF S
  <2> QED
    BY <2>1, <2>2, BelowIs
<1>2. Below(d) \subseteq T
  <2>1. T \in SUBSET Dir /\ d \in T
    BY BelowIs
  <2>2. ASSUME NEW s \in T, NEW y \in Kept(s) \cap Dir PROVE y \in T
    BY BelowIs
  <2> HIDE DEF T
  <2> QED
    BY <2>1, <2>2, BelowIs
<1> QED
  BY <1>1, <1>2

LEMMA BelowApart ==
  ASSUME NEW d \in Dir, NEW e \in Kept(d) \cap Dir, NEW c \in Kept(d) \cap Dir, e # c
  PROVE  Below(e) \cap Below(c) = {}
<1> DEFINE S == Below(e) \ Below(c)
<1>1. d \notin Below(e) /\ d \notin Below(c)
  BY TreeAssumption
<1>2. e \notin Below(c)
  <2> SUFFICES ASSUME e \in Below(c) PROVE FALSE
    OBVIOUS
  <2>1. PICK s \in Below(c) : e \in Kept(s)
    BY BelowSplit
  <2>2. s \in Dir
    BY BelowIs
  <2> QED
    BY <1>1, <2>1, <2>2, OneParent
<1>3. S \in SUBSET Dir /\ e \in S
  BY <1>2, BelowIs
<1>4. ASSUME NEW s \in S, NEW y \in Kept(s) \cap Dir PROVE y \in S
  <2>1. y \in Below(e) /\ s \in Dir
    BY BelowIs
  <2>2. ASSUME y = c PROVE FALSE
    BY <1>1, <2>1, <2>2, OneParent
  <2>3. ASSUME y \in Below(c), y # c PROVE FALSE
    <3>1. PICK t \in Below(c) : y \in Kept(t)
      BY <2>3, BelowSplit
    <3>2. t \in Dir
      BY BelowIs
    <3> QED
      BY <2>1, <3>1, <3>2, OneParent
  <2> QED
    BY <2>1, <2>2, <2>3
<1>5. Below(e) \subseteq S
  <2> HIDE DEF S
  <2> QED
    BY <1>3, <1>4, BelowIs
<1> QED
  BY <1>5

LEMMA LeadsIs ==
  /\ \A f \in File : Leads(f) = {f} \cap Allowed /\ Reached(f) = Leads(f)
  /\ \A d \in Dir : /\ Leads(d) = Below(d) \cup Reached(d) /\ Reached(d) = File \cap Leads(d)
                    /\ \A f : f \in Reached(d) <=> f \in File /\ \E s \in Below(d) : f \in Kept(s)
<1>1. Dir \cap File = {}
  BY GrepAssumption
<1>2. ASSUME NEW f \in File PROVE Leads(f) = {f} \cap Allowed /\ Reached(f) = Leads(f)
  BY <1>1 DEF Leads, Reached
<1>3. ASSUME NEW d \in Dir
      PROVE  /\ Leads(d) = Below(d) \cup Reached(d) /\ Reached(d) = File \cap Leads(d)
             /\ \A f : f \in Reached(d) <=> f \in File /\ \E s \in Below(d) : f \in Kept(s)
  <2>1. Reached(d) = File \cap UNION {Kept(s) : s \in Below(d)} /\ Leads(d) = Below(d) \cup Reached(d)
    BY <1>1 DEF Leads, Reached
  <2> QED
    BY <1>1, <2>1, BelowIs
<1> QED
  BY <1>2, <1>3

\* A directory leads to itself, and to whatever its entries lead to.
LEMMA HeadingIs ==
  ASSUME NEW d \in Dir, NEW x \in Dir \cup File
  PROVE  /\ x \in Leads(d) /\ x # d => \E e \in Kept(d) : x \in Leads(e)
         /\ \A e \in Kept(d) : x \in Leads(e) => x \in Leads(d) /\ x # d
         /\ \A e, c \in Kept(d) : x \in Leads(e) /\ x \in Leads(c) => e = c
<1>1. Dir \cap File = {} /\ Kept(d) \subseteq Dir \cup File /\ Kept(d) \cap File \subseteq Allowed
  BY GrepAssumption, KeptIs
<1>2. CASE x \in Dir
  <2>1. \A e \in Kept(d) : x \in Leads(e) => e \in Dir /\ x \in Below(e)
    BY <1>1, <1>2, LeadsIs
  <2>2. \A e \in Dir : x \in Leads(e) <=> x \in Below(e)
    BY <1>1, <1>2, LeadsIs
  <2> QED
    BY <1>1, <2>1, <2>2, BelowKept, BelowSplit, BelowApart
<1>3. CASE x \in File
  <2>1. \A e \in Dir : x \in Leads(e) <=> \E s \in Below(e) : x \in Kept(s)
    BY <1>1, <1>3, LeadsIs, BelowIs
  <2>2. \A e \in Kept(d) \cap File : x \in Leads(e) <=> x = e
    BY <1>1, <1>3, LeadsIs
  <2>3. ASSUME x \in Leads(d) PROVE \E e \in Kept(d) : x \in Leads(e)
    <3>1. PICK s \in Below(d) : x \in Kept(s)
      BY <2>1, <2>3
    <3>2. CASE s = d
      BY <1>3, <2>2, <3>1, <3>2
    <3>3. CASE s # d
      BY <2>1, <3>1, <3>3, BelowSplit
    <3> QED
      BY <3>2, <3>3
  <2>4. ASSUME NEW e \in Kept(d), x \in Leads(e) PROVE x \in Leads(d) /\ x # d
    <3>1. CASE e \in File
      BY <1>1, <1>3, <2>1, <2>2, <2>4, <3>1, BelowIs
    <3>2. CASE e \in Dir
      BY <1>1, <1>3, <2>1, <2>4, <3>2, BelowKept
    <3> QED
      BY <1>1, <3>1, <3>2
  <2>5. ASSUME NEW e \in Kept(d), NEW c \in Kept(d), x \in Leads(e), x \in Leads(c), e \in Dir
        PROVE  e = c
    <3>1. PICK s \in Below(e) : x \in Kept(s)
      BY <2>1, <2>5
    <3>2. s \in Dir /\ d \notin Below(e)
      BY <2>5, BelowIs, TreeAssumption
    <3>3. CASE c \in File
      BY <2>2, <2>5, <3>1, <3>2, <3>3, OneParent
    <3>4. CASE c \in Dir
      <4>1. PICK t \in Below(c) : x \in Kept(t)
        BY <2>1, <2>5, <3>4
      <4>2. s = t
        BY <3>1, <3>2, <3>4, <4>1, BelowIs, OneParent
      <4> QED
        BY <2>5, <3>4, <4>2, BelowApart
    <3> QED
      BY <1>1, <3>3, <3>4
  <2> QED
    BY <1>1, <2>2, <2>3, <2>4, <2>5
<1> QED
  BY <1>2, <1>3

\* The entries of d that head for x are one if d leads to x, and none if it does not.
LEMMA EntriesCount ==
  ASSUME NEW d \in Dir, NEW x \in Dir \cup File
  PROVE  Cardinality(At(Entries[d], Heading(d, x))) = IF x \in Leads(d) /\ x # d THEN 1 ELSE 0
<1> DEFINE P == At(Entries[d], Heading(d, x))
<1>1. \A e : e \in Heading(d, x) <=> e \in Kept(d) /\ x \in Leads(e)
  BY KeptIs DEF Heading, Above
<1>2. \A k \in P : k \in DOMAIN Entries[d] /\ Entries[d][k] \in Kept(d) /\ x \in Leads(Entries[d][k])
  BY <1>1 DEF At
<1>3. CASE x \in Leads(d) /\ x # d
  <2>1. PICK e \in Kept(d) : x \in Leads(e)
    BY <1>3, HeadingIs
  <2>2. PICK k \in DOMAIN Entries[d] : Entries[d][k] = e
    BY KeptIs
  <2>3. k \in P
    BY <1>1, <2>1, <2>2 DEF At
  <2>4. \A l \in P : l = k
    BY <1>2, <2>1, <2>2, HeadingIs, TreeAssumption
  <2>5. P = {k}
    BY <2>3, <2>4
  <2> QED
    BY <1>3, <2>5, FS_Singleton
<1>4. CASE ~ (x \in Leads(d) /\ x # d)
  <2>1. P = {}
    BY <1>2, <1>4, HeadingIs
  <2> QED
    BY <1>4, <2>1, FS_EmptySet
<1> QED
  BY <1>3, <1>4

LEMMA AboveIs ==
  ASSUME NEW x, NEW p \in Dir \cup File
  PROVE  /\ p \in Above(x) <=> x \in Leads(p)
         /\ x \in File => (p \in Above(x) <=> x \in Reached(p))
<1>1. x \in File => (x \in Leads(p) <=> x \in Reached(p))
  BY LeadsIs
<1> QED
  BY <1>1 DEF Above

LEMMA FromIs ==
  ASSUME NEW n, NEW T
  PROVE  /\ IsFiniteSet(From(n, T)) /\ Cardinality(From(n, T)) \in Nat
         /\ n \in DOMAIN Roots => Cardinality(From(n, T)) =
              Cardinality(From(n + 1, T)) + IF Roots[n] \in T THEN 1 ELSE 0
<1>1. DOMAIN Roots = 1 .. Len(Roots) /\ Len(Roots) \in Nat
  BY GrepAssumption
<1>2. ASSUME NEW m PROVE IsFiniteSet(From(m, T)) /\ Cardinality(From(m, T)) \in Nat
  <2>1. From(m, T) \subseteq 1 .. Len(Roots) /\ IsFiniteSet(1 .. Len(Roots))
    BY <1>1, FS_Interval DEF From
  <2> QED
    BY <2>1, FS_Subset, FS_CardinalityType
<1>3. ASSUME n \in DOMAIN Roots
      PROVE  Cardinality(From(n, T)) = Cardinality(From(n + 1, T)) + IF Roots[n] \in T THEN 1 ELSE 0
  <2>1. From(n, T) = From(n + 1, T) \cup (IF Roots[n] \in T THEN {n} ELSE {}) /\ n \notin From(n + 1, T)
    BY <1>1, <1>3 DEF From
  <2>2. CASE Roots[n] \in T
    <3>1. From(n, T) = From(n + 1, T) \cup {n}
      BY <2>1, <2>2
    <3> QED
      BY <1>2, <2>1, <2>2, <3>1, FS_AddElement
  <2>3. CASE Roots[n] \notin T
    <3>1. From(n, T) = From(n + 1, T)
      BY <2>1, <2>3
    <3> QED
      BY <1>2, <2>3, <3>1
  <2> QED
    BY <2>2, <2>3
<1> QED
  BY <1>2, <1>3

\* All of these are finite.
Countable ==
  \A x \in Dir \cup File :
    /\ Cardinality(AtRoots(x)) \in Nat
    /\ Cardinality(senders \cap Above(x)) \in Nat /\ Cardinality(At(dirs.q, Above(x))) \in Nat
    /\ Cardinality(AtWalkers(x)) \in Nat
    /\ Cardinality(At(jobs.q, {x})) \in Nat /\ Cardinality(AtIo(x)) \in Nat
    /\ Cardinality(At(scan.q, JobsOf(x))) \in Nat
    /\ Cardinality(At(match.q, {x})) \in Nat
    /\ x \in File => Cardinality(Pairs(LinesLeft(x))) \in Nat
    /\ IsFiniteSet(AtIo(x))
    /\ \A w \in Walker : IsFiniteSet(At(walk[w].left, Heading(walk[w].dir, x)))
    /\ x \in File => \A c \in CpuWorker : IsFiniteSet(LinesLeft(x)[c])

LEMMA CountsAre == Types /\ IsFiniteSet(senders) => Countable
<1> SUFFICES ASSUME Types, IsFiniteSet(senders), NEW x \in Dir \cup File
             PROVE  /\ Cardinality(AtRoots(x)) \in Nat
                    /\ Cardinality(senders \cap Above(x)) \in Nat
                    /\ Cardinality(At(dirs.q, Above(x))) \in Nat
                    /\ Cardinality(AtWalkers(x)) \in Nat
                    /\ Cardinality(At(jobs.q, {x})) \in Nat /\ Cardinality(AtIo(x)) \in Nat
                    /\ Cardinality(At(scan.q, JobsOf(x))) \in Nat
                    /\ Cardinality(At(match.q, {x})) \in Nat
                    /\ x \in File => Cardinality(Pairs(LinesLeft(x))) \in Nat
                    /\ IsFiniteSet(AtIo(x))
                    /\ \A w \in Walker : IsFiniteSet(At(walk[w].left, Heading(walk[w].dir, x)))
                    /\ x \in File => \A c \in CpuWorker : IsFiniteSet(LinesLeft(x)[c])
  BY DEF Countable
<1>1. /\ dirs.q \in Seq(Dir) /\ jobs.q \in Seq(File) /\ scan.q \in Seq(Job) /\ match.q \in Seq(File \cup {None})
  BY DEF Types, Channel
<1>2. IsFiniteSet(AtIo(x)) /\ Cardinality(AtIo(x)) \in Nat
  <2>1. AtIo(x) \subseteq IoWorker
    BY DEF AtIo
  <2> QED
    BY <2>1, GrepAssumption, FS_Subset, FS_CardinalityType
<1>3. \A w \in Walker : IsFiniteSet(At(walk[w].left, Heading(walk[w].dir, x)))
  <2> TAKE w \in Walker
  <2>1. walk[w] \in WalkState
    BY DEF Types
  <2>2. walk[w].left = <<>> \/ walk[w].left \in Seq(Dir \cup File)
    BY <2>1 DEF WalkState, NoEntry
  <2>3. \A S : <<>> \in Seq(S)
    OBVIOUS
  <2>4. walk[w].left \in Seq(Dir \cup File)
    BY <2>2, <2>3
  <2> QED
    BY <2>4, AtIs
<1>4. Cardinality(AtWalkers(x)) \in Nat
  <2> DEFINE F == [w \in Walker |-> At(walk[w].left, Heading(walk[w].dir, x))]
  <2>1. DOMAIN F = Walker /\ \A w \in Walker : IsFiniteSet(F[w])
    BY <1>3
  <2>2. AtWalkers(x) = Pairs(F)
    BY DEF AtWalkers
  <2> HIDE DEF F
  <2> QED
    BY <2>1, <2>2, PairsFinite, GrepAssumption
<1>5. ASSUME x \in File
      PROVE  /\ \A c \in CpuWorker : IsFiniteSet(LinesLeft(x)[c])
             /\ Cardinality(Pairs(LinesLeft(x))) \in Nat
  <2>1. ASSUME NEW c \in CpuWorker PROVE IsFiniteSet(LinesLeft(x)[c])
    <3>1. LinesLeft(x)[c] \subseteq 0 .. Lines[x] /\ IsFiniteSet(0 .. Lines[x])
      <4>1. cpu[c].lines \in Nat /\ Lines[x] \in Nat
        BY <1>5, GrepAssumption DEF Types, CpuState
      <4>2. LinesLeft(x)[c] = {} \/ LinesLeft(x)[c] = (cpu[c].lines + 1) .. Lines[x]
        BY DEF LinesLeft
      <4>3. IsFiniteSet(0 .. Lines[x])
        <5>1. 0 \in Int /\ Lines[x] \in Int
          BY <4>1
        <5> QED
          BY ONLY <5>1, FS_Interval
      <4> QED
        BY <4>1, <4>2, <4>3
    <3> QED
      BY <3>1, FS_Subset
  <2>2. DOMAIN LinesLeft(x) = CpuWorker
    BY DEF LinesLeft
  <2> QED
    BY <2>1, <2>2, PairsFinite, GrepAssumption
<1>6. Cardinality(senders \cap Above(x)) \in Nat
  BY FS_Intersection, FS_CardinalityType
<1> QED
  BY <1>1, <1>2, <1>3, <1>4, <1>5, <1>6, AtIs, FromIs DEF AtRoots

LEMMA CountsAreNext == Types' /\ IsFiniteSet(senders)' => Countable'
<1>1. (Types /\ IsFiniteSet(senders) => Countable)'
  BY CountsAre, PTL
<1> QED
  BY <1>1

Summed ==
  \A x \in Dir \cup File :
    /\ InWalk(x) \in Nat /\ InHand(x) \in Nat /\ Coming(x) \in Nat
    /\ x \in File => OnTheWay(x) \in Nat

LEMMA SumsAre == Countable => Summed
<1> SUFFICES ASSUME Countable, NEW x \in Dir \cup File
             PROVE  /\ InWalk(x) \in Nat /\ InHand(x) \in Nat /\ Coming(x) \in Nat
                    /\ x \in File => OnTheWay(x) \in Nat
  BY DEF Summed
<1>1. /\ Cardinality(AtRoots(x)) \in Nat
      /\ Cardinality(senders \cap Above(x)) \in Nat /\ Cardinality(At(dirs.q, Above(x))) \in Nat
      /\ Cardinality(AtWalkers(x)) \in Nat
      /\ Cardinality(At(jobs.q, {x})) \in Nat /\ Cardinality(AtIo(x)) \in Nat
      /\ Cardinality(At(scan.q, JobsOf(x))) \in Nat
      /\ Cardinality(At(match.q, {x})) \in Nat
      /\ x \in File => Cardinality(Pairs(LinesLeft(x))) \in Nat
  BY DEF Countable
<1>2. InWalk(x) \in Nat /\ InHand(x) \in Nat
  BY ONLY <1>1 DEF InWalk, InHand
<1>3. Coming(x) \in Nat /\ (x \in File => OnTheWay(x) \in Nat)
  BY ONLY <1>1, <1>2 DEF Coming, OnTheWay
<1> QED
  BY <1>2, <1>3

LEMMA SumsNext == Countable' => Summed'
<1>1. (Countable => Summed)'
  BY SumsAre, PTL
<1> QED
  BY <1>1

\* What a step leaves alone.
LEMMA CountsStay ==
  ASSUME NEW x
  PROVE  /\ UNCHANGED <<root, walking>> => AtRoots(x)' = AtRoots(x)
         /\ UNCHANGED walk => AtWalkers(x)' = AtWalkers(x)
         /\ UNCHANGED <<senders, dirs, walk>> => InWalk(x)' = InWalk(x)
         /\ UNCHANGED io => AtIo(x)' = AtIo(x)
         /\ UNCHANGED <<jobs, io, scan>> => InHand(x)' = InHand(x)
         /\ UNCHANGED cpu => LinesLeft(x)' = LinesLeft(x)
         /\ UNCHANGED <<cpu, match>> => OnTheWay(x)' = OnTheWay(x)
<1>1. UNCHANGED <<root, walking>> => AtRoots(x)' = AtRoots(x)
  BY DEF AtRoots
<1>2. UNCHANGED walk => AtWalkers(x)' = AtWalkers(x)
  BY DEF AtWalkers
<1>3. UNCHANGED <<senders, dirs, walk>> => InWalk(x)' = InWalk(x)
  BY <1>2 DEF InWalk
<1>4. UNCHANGED io => AtIo(x)' = AtIo(x)
  BY DEF AtIo
<1>5. UNCHANGED <<jobs, io, scan>> => InHand(x)' = InHand(x)
  BY <1>4 DEF InHand
<1>6. UNCHANGED cpu => LinesLeft(x)' = LinesLeft(x)
  BY DEF LinesLeft
<1>7. UNCHANGED <<cpu, match>> => OnTheWay(x)' = OnTheWay(x)
  BY <1>6 DEF OnTheWay
<1> QED
  BY <1>1, <1>2, <1>3, <1>4, <1>5, <1>6, <1>7

\* A walker that changes what it has left.
LEMMA WalkersChange ==
  ASSUME Countable, Countable', NEW w \in Walker,
         \A v \in Walker \ {w} : walk'[v] = walk[v], NEW x \in Dir \cup File
  PROVE  Cardinality(AtWalkers(x)') + Cardinality(At(walk[w].left, Heading(walk[w].dir, x)))
         = Cardinality(AtWalkers(x)) + Cardinality(At(walk'[w].left, Heading(walk'[w].dir, x)))
<1> DEFINE F == [v \in Walker |-> At(walk[v].left, Heading(walk[v].dir, x))]
           H == [v \in Walker |-> At(walk'[v].left, Heading(walk'[v].dir, x))]
<1>1. /\ DOMAIN F = Walker /\ \A v \in Walker : IsFiniteSet(F[v])
      /\ DOMAIN H = Walker /\ \A v \in Walker : IsFiniteSet(H[v])
      /\ \A v \in Walker \ {w} : H[v] = F[v]
  BY DEF Countable
<1>2. /\ AtWalkers(x) = Pairs(F) /\ F[w] = At(walk[w].left, Heading(walk[w].dir, x))
      /\ AtWalkers(x)' = Pairs(H) /\ H[w] = At(walk'[w].left, Heading(walk'[w].dir, x))
  BY DEF AtWalkers
<1> HIDE DEF F, H
<1>3. IsFiniteSet(Walker)
  BY GrepAssumption
<1>4. Cardinality(Pairs(H)) + Cardinality(F[w]) = Cardinality(Pairs(F)) + Cardinality(H[w])
  BY <1>1, <1>3, PairsChange
<1> QED
  BY <1>2, <1>4

\* A walker that takes its next entry.
LEMMA WalkerNext ==
  ASSUME Types, Countable, Countable', NEW w \in Walker, walk[w].left # <<>>,
         walk' = [walk EXCEPT ![w].left = Tail(@)], NEW x \in Dir \cup File
  PROVE  /\ walk[w].dir \in Dir /\ Head(walk[w].left) \in Dir \cup File
         /\ Cardinality(AtWalkers(x)) = Cardinality(AtWalkers(x)')
              + IF Head(walk[w].left) \in Heading(walk[w].dir, x) THEN 1 ELSE 0
<1>1. walk[w].dir \in Dir /\ walk[w].left \in Seq(Dir \cup File) /\ Head(walk[w].left) \in Dir \cup File
  <2>1. walk[w].dir \in Dir /\ walk[w].left \in Seq(Dir \cup File)
    BY DEF Types, WalkState, NoEntry
  <2> QED
    BY <2>1
<1>2. /\ walk'[w].dir = walk[w].dir /\ walk'[w].left = Tail(walk[w].left)
      /\ \A v \in Walker \ {w} : walk'[v] = walk[v]
  BY DEF Types, WalkState, NoEntry
<1> DEFINE T == Heading(walk[w].dir, x)
<1>3. Cardinality(At(walk[w].left, T)) = Cardinality(At(Tail(walk[w].left), T))
        + IF Head(walk[w].left) \in T THEN 1 ELSE 0
  BY <1>1, AtTail
<1>4. Cardinality(AtWalkers(x)') + Cardinality(At(walk[w].left, T))
      = Cardinality(AtWalkers(x)) + Cardinality(At(Tail(walk[w].left), T))
  BY <1>2, WalkersChange
<1>5. /\ Cardinality(At(Tail(walk[w].left), T)) \in Nat /\ Cardinality(AtWalkers(x)) \in Nat
      /\ Cardinality(AtWalkers(x)') \in Nat
  <2>1. Tail(walk[w].left) \in Seq(Dir \cup File)
    BY <1>1
  <2> QED
    BY <2>1, AtIs DEF Countable
<1>6. Cardinality(AtWalkers(x)) = Cardinality(AtWalkers(x)') + IF Head(walk[w].left) \in T THEN 1 ELSE 0
  <2> HIDE DEF T
  <2>1. CASE Head(walk[w].left) \in T
    BY <1>3, <1>4, <1>5, <2>1
  <2>2. CASE Head(walk[w].left) \notin T
    BY <1>3, <1>4, <1>5, <2>2
  <2> QED
    BY <2>1, <2>2
<1> QED
  BY <1>1, <1>6

\* A step that moves visits and lines on, or begins the lines of a visit.
Moves(f) ==
  /\ Coming(f)' + missed'[f] = Coming(f) + missed[f]
  /\ OnTheWay(f)' + found'[f] = OnTheWay(f) + found[f]
Begins(f) ==
  /\ Coming(f)' + missed'[f] + 1 = Coming(f) + missed[f]
  /\ OnTheWay(f)' + found'[f] = OnTheWay(f) + found[f] + Lines[f]

LEMMA CountsOf ==
  ASSUME Types, Types', Countable, Countable', NEW f \in File
  PROVE  /\ Coming(f) \in Nat /\ missed[f] \in Nat /\ OnTheWay(f) \in Nat /\ found[f] \in Nat
         /\ Coming(f)' \in Nat /\ missed'[f] \in Nat /\ OnTheWay(f)' \in Nat /\ found'[f] \in Nat
         /\ Cardinality(AtRoots(f)) \in Nat /\ InWalk(f) \in Nat /\ InHand(f) \in Nat
         /\ Cardinality(AtRoots(f)') \in Nat /\ InWalk(f)' \in Nat /\ InHand(f)' \in Nat
         /\ Cardinality(At(jobs.q, {f})) \in Nat /\ Cardinality(At(jobs'.q, {f})) \in Nat
         /\ Lines[f] \in Nat
<1>0. f \in Dir \cup File /\ Summed /\ Summed'
  BY SumsAre, SumsNext
<1>1. Coming(f) \in Nat /\ InWalk(f) \in Nat /\ InHand(f) \in Nat /\ OnTheWay(f) \in Nat
  BY ONLY <1>0, f \in File DEF Summed
<1>2. Coming(f)' \in Nat /\ InWalk(f)' \in Nat /\ InHand(f)' \in Nat /\ OnTheWay(f)' \in Nat
  BY ONLY <1>0, f \in File DEF Summed
<1>3. /\ missed[f] \in Nat /\ missed'[f] \in Nat /\ found[f] \in Nat /\ found'[f] \in Nat
      /\ Lines[f] \in Nat
  BY GrepAssumption DEF Types
<1>4. Cardinality(AtRoots(f)) \in Nat /\ Cardinality(At(jobs.q, {f})) \in Nat
  BY DEF Countable
<1>5. Cardinality(AtRoots(f)') \in Nat /\ Cardinality(At(jobs'.q, {f})) \in Nat
  BY DEF Countable
<1> QED
  BY <1>1, <1>2, <1>3, <1>4, <1>5

LEMMA Balanced ==
  ASSUME Types, Types', Countable, Countable', Accounts,
         \A d \in Dir : InWalk(d)' <= 1 \/ InWalk(d)' = InWalk(d),
         \A f \in File : Moves(f) \/ Begins(f)
  PROVE  Accounts'
<1>1. \A d \in Dir : InWalk(d)' <= 1
  BY DEF Accounts
<1>2. ASSUME NEW f \in File
      PROVE  \E begun \in Nat : /\ Coming(f)' + missed'[f] + begun = Visits[f]
                                /\ OnTheWay(f)' + found'[f] = Lines[f] * begun
  <2>1. PICK begun \in Nat : /\ Coming(f) + missed[f] + begun = Visits[f]
                             /\ OnTheWay(f) + found[f] = Lines[f] * begun
    BY DEF Accounts
  <2>2. /\ Coming(f) \in Nat /\ Coming(f)' \in Nat /\ missed[f] \in Nat /\ missed'[f] \in Nat
        /\ OnTheWay(f) \in Nat /\ OnTheWay(f)' \in Nat /\ found[f] \in Nat /\ found'[f] \in Nat
        /\ Lines[f] \in Nat
    BY CountsOf
  <2>3. CASE Moves(f)
    BY <2>1, <2>2, <2>3 DEF Moves
  <2>4. CASE Begins(f)
    <3>1. Lines[f] * (begun + 1) = Lines[f] * begun + Lines[f]
      BY <2>2
    <3>2. Coming(f)' + missed'[f] + (begun + 1) = Visits[f]
      BY <2>1, <2>2, <2>4 DEF Begins
    <3>3. OnTheWay(f)' + found'[f] = Lines[f] * (begun + 1)
      BY <2>1, <2>2, <2>4, <3>1 DEF Begins
    <3> QED
      BY <3>2, <3>3
  <2> QED
    BY <1>2, <2>3, <2>4
<1> QED
  BY <1>1, <1>2 DEF Accounts

\* A step of the traverser, a walker or a sender: lines stay, and visits in the workers' hands
\* only gain those that jobCh does.
LEMMA WalkMoves ==
  ASSUME Types, Types', Countable, Countable', NEW f \in File, UNCHANGED <<io, scan, cpu, match, found>>,
         Cardinality(AtRoots(f)') + InWalk(f)' + Cardinality(At(jobs'.q, {f})) + missed'[f]
         = Cardinality(AtRoots(f)) + InWalk(f) + Cardinality(At(jobs.q, {f})) + missed[f]
  PROVE  Moves(f)
<1>1. OnTheWay(f)' = OnTheWay(f)
  BY CountsStay
<1>2. AtIo(f)' = AtIo(f)
  BY CountsStay
<1> DEFINE rest == Cardinality(AtIo(f)) + Cardinality(At(scan.q, JobsOf(f)))
<1>3. /\ InHand(f) = Cardinality(At(jobs.q, {f})) + rest
      /\ InHand(f)' = Cardinality(At(jobs'.q, {f})) + rest
      /\ rest \in Nat
  <2>1. Cardinality(AtIo(f)) \in Nat /\ Cardinality(At(scan.q, JobsOf(f))) \in Nat
        /\ Cardinality(At(jobs.q, {f})) \in Nat /\ Cardinality(At(jobs'.q, {f})) \in Nat
    BY DEF Countable
  <2> QED
    BY <1>2, <2>1 DEF InHand
<1>4. /\ Cardinality(AtRoots(f)) \in Nat /\ Cardinality(AtRoots(f)') \in Nat
      /\ InWalk(f) \in Nat /\ InWalk(f)' \in Nat
      /\ Cardinality(At(jobs.q, {f})) \in Nat /\ Cardinality(At(jobs'.q, {f})) \in Nat
      /\ missed[f] \in Nat /\ missed'[f] \in Nat
  BY CountsOf
<1>5. /\ Coming(f) = Cardinality(AtRoots(f)) + InWalk(f) + InHand(f)
      /\ Coming(f)' = Cardinality(AtRoots(f)') + InWalk(f)' + InHand(f)'
  BY DEF Coming
<1> HIDE DEF rest
<1>6. Coming(f)' + missed'[f] = Coming(f) + missed[f]
  BY <1>3, <1>4, <1>5
<1> QED
  BY <1>1, <1>6 DEF Moves

LEMMA MissedIs ==
  ASSUME Types, NEW fs, Lose(fs), NEW f \in File
  PROVE  missed'[f] = missed[f] + IF f \in fs THEN 1 ELSE 0
  BY DEF Types, Lose

LEMMA RootFileBalance ==
  ASSUME Types, Types', Countable, Countable', Accounts, RootFile
  PROVE  Accounts'
<1> USE DEF walkVars, ioVars, endVars
<1>1. root \in DOMAIN Roots /\ Roots[root] \in Dir \cup File /\ ~ walking /\ root' = root + 1
      /\ UNCHANGED <<walking, dirs, senders, walk, io, scan, cpu, match, found>>
  <2>1. Roots \in Seq(Dir \cup File) /\ Allowed \subseteq File /\ root \in Nat
    BY GrepAssumption DEF Types
  <2>2. root <= Len(Roots) /\ root # 0
    BY DEF RootFile, TraverserPending, Types
  <2> QED
    BY <2>1, <2>2 DEF RootFile, TraverserPending
<1>2. ASSUME NEW x PROVE InWalk(x)' = InWalk(x)
  BY <1>1, CountsStay
<1>3. ASSUME NEW f \in File PROVE Moves(f)
  <2> DEFINE n == IF f \in Reached(Roots[root]) THEN 1 ELSE 0
  <2>1. Cardinality(AtRoots(f)) = Cardinality(AtRoots(f)') + n
    <3>1. AtRoots(f) = From(root, Above(f)) /\ AtRoots(f)' = From(root + 1, Above(f))
      BY <1>1 DEF AtRoots
    <3> QED
      BY <1>1, <3>1, FromIs, AboveIs
  <2>2. Cardinality(At(jobs'.q, {f})) + missed'[f] = Cardinality(At(jobs.q, {f})) + missed[f] + n
    <3>1. Cardinality(At(jobs.q, {f})) \in Nat /\ missed[f] \in Nat
      BY DEF Countable, Types
    <3>2. CASE Lose(Reached(Roots[root])) /\ UNCHANGED jobs
      BY <3>1, <3>2, MissedIs
    <3>3. CASE Succeed /\ Roots[root] \in File \ Allowed /\ UNCHANGED jobs
      BY <3>1, <3>3, LeadsIs DEF Succeed
    <3>4. CASE Succeed /\ Roots[root] \in Allowed /\ jobs' = Sent(jobs, Roots[root])
      <4>1. Roots[root] \in File /\ Reached(Roots[root]) = {Roots[root]}
        BY <3>4, LeadsIs, GrepAssumption
      <4>2. jobs'.q = Append(jobs.q, Roots[root]) /\ jobs.q \in Seq(File)
        <5>1. jobs \in Channel(File) /\ jobs.q \in Seq(File)
          BY DEF Types, Channel
        <5> QED
          BY <3>4, <4>1, <5>1, SentIs
      <4>3. Cardinality(At(jobs'.q, {f})) = Cardinality(At(jobs.q, {f})) + IF Roots[root] \in {f} THEN 1 ELSE 0
        BY <4>1, <4>2, AtAppend
      <4> QED
        BY <3>1, <3>4, <4>1, <4>3 DEF Succeed
    <3> QED
      BY <3>2, <3>3, <3>4 DEF RootFile
  <2>3. n \in Nat
    OBVIOUS
  <2> HIDE DEF n
  <2>4. /\ Cardinality(AtRoots(f)) \in Nat /\ Cardinality(AtRoots(f)') \in Nat
        /\ InWalk(f) \in Nat /\ missed[f] \in Nat /\ missed'[f] \in Nat
        /\ Cardinality(At(jobs.q, {f})) \in Nat /\ Cardinality(At(jobs'.q, {f})) \in Nat
    BY CountsOf
  <2>5. Cardinality(AtRoots(f)') + InWalk(f)' + Cardinality(At(jobs'.q, {f})) + missed'[f]
        = Cardinality(AtRoots(f)) + InWalk(f) + Cardinality(At(jobs.q, {f})) + missed[f]
    BY <1>2, <2>1, <2>2, <2>3, <2>4
  <2> QED
    BY <1>1, <2>4, <2>5, WalkMoves
<1> QED
  BY <1>2, <1>3, Balanced

LEMMA WalkPartsOf ==
  ASSUME Types, Types', Countable, Countable', NEW x \in Dir \cup File
  PROVE  /\ Cardinality(senders \cap Above(x)) \in Nat /\ Cardinality(senders' \cap Above(x)) \in Nat
         /\ Cardinality(At(dirs.q, Above(x))) \in Nat /\ Cardinality(At(dirs'.q, Above(x))) \in Nat
         /\ Cardinality(AtWalkers(x)) \in Nat /\ Cardinality(AtWalkers(x)') \in Nat
         /\ InWalk(x) = Cardinality(senders \cap Above(x)) + Cardinality(At(dirs.q, Above(x)))
                        + Cardinality(AtWalkers(x))
         /\ InWalk(x)' = Cardinality(senders' \cap Above(x)) + Cardinality(At(dirs'.q, Above(x)))
                         + Cardinality(AtWalkers(x)')
<1>1. /\ Cardinality(senders \cap Above(x)) \in Nat /\ Cardinality(At(dirs.q, Above(x))) \in Nat
      /\ Cardinality(AtWalkers(x)) \in Nat
  BY DEF Countable
<1>2. /\ Cardinality(senders' \cap Above(x)) \in Nat /\ Cardinality(At(dirs'.q, Above(x))) \in Nat
      /\ Cardinality(AtWalkers(x)') \in Nat
  BY DEF Countable
<1>3. InWalk(x)' = Cardinality(senders' \cap Above(x)) + Cardinality(At(dirs'.q, Above(x)))
                   + Cardinality(AtWalkers(x)')
  BY DEF InWalk
<1> QED
  BY <1>1, <1>2, <1>3 DEF InWalk

\* What a directory channel gains and loses.
LEMMA DirsChange ==
  ASSUME NEW ch \in Channel(Dir), NEW x \in Dir \cup File
  PROVE  /\ \A d \in Dir : Cardinality(At(Sent(ch, d).q, Above(x)))
                           = Cardinality(At(ch.q, Above(x))) + IF x \in Leads(d) THEN 1 ELSE 0
         /\ ch.q # <<>> => /\ Head(ch.q) \in Dir
                           /\ Cardinality(At(ch.q, Above(x))) = Cardinality(At(Received(ch).q, Above(x)))
                                + IF x \in Leads(Head(ch.q)) THEN 1 ELSE 0
<1>1. ch.q \in Seq(Dir)
  BY DEF Channel
<1>2. ASSUME NEW d \in Dir
      PROVE  Cardinality(At(Sent(ch, d).q, Above(x)))
             = Cardinality(At(ch.q, Above(x))) + IF x \in Leads(d) THEN 1 ELSE 0
  <2>1. Sent(ch, d).q = Append(ch.q, d) /\ (d \in Above(x) <=> x \in Leads(d))
    BY SentIs, AboveIs
  <2> QED
    BY <1>1, <2>1, AtAppend
<1>3. ASSUME ch.q # <<>>
      PROVE  /\ Head(ch.q) \in Dir
             /\ Cardinality(At(ch.q, Above(x))) = Cardinality(At(Received(ch).q, Above(x)))
                  + IF x \in Leads(Head(ch.q)) THEN 1 ELSE 0
  <2>1. Head(ch.q) \in Dir /\ Received(ch).q = Tail(ch.q)
    BY <1>3, ReceivedIs
  <2>2. Head(ch.q) \in Above(x) <=> x \in Leads(Head(ch.q))
    BY <2>1, AboveIs
  <2> QED
    BY <1>1, <1>3, <2>1, <2>2, AtTail
<1> QED
  BY <1>2, <1>3

LEMMA RootDirBalance ==
  ASSUME Types, Types', Countable, Countable', WalkCounts, Accounts, RootDir
  PROVE  Accounts'
<1> USE DEF walkVars, ioVars, endVars
<1>1. /\ root \in DOMAIN Roots /\ Roots[root] \in Dir /\ ~ walking /\ walking' = TRUE
      /\ dirs' = Sent(NewChannel, Roots[root])
      /\ UNCHANGED <<root, senders, walk, jobs, io, scan, cpu, match, found, missed>>
  <2>1. Roots \in Seq(Dir \cup File) /\ root \in Nat \ {0}
    BY GrepAssumption DEF Types
  <2> QED
    BY <2>1 DEF RootDir, TraverserPending
<1>2. ASSUME NEW x \in Dir \cup File
      PROVE  InWalk(x) = 0 /\ InWalk(x)' = IF x \in Leads(Roots[root]) THEN 1 ELSE 0
  <2>1. senders = {} /\ dirs.q = <<>> /\ \A w \in Walker : walk[w] = NoEntry
    BY <1>1 DEF WalkCounts, Busy
  <2>2. AtWalkers(x) = {}
    <3>1. \A w \in Walker : At(walk[w].left, Heading(walk[w].dir, x)) = {}
      BY <2>1 DEF At, NoEntry
    <3> QED
      BY <3>1 DEF AtWalkers, Pairs
  <2>3. AtWalkers(x)' = AtWalkers(x)
    BY <1>1, CountsStay
  <2>4. Cardinality(At(<<>>, Above(x))) = 0 /\ senders' \cap Above(x) = {}
        /\ senders \cap Above(x) = {}
    <3>1. At(<<>>, Above(x)) = {}
      BY DEF At
    <3> QED
      BY <1>1, <2>1, <3>1, FS_EmptySet
  <2>5. Cardinality(At(dirs'.q, Above(x))) = IF x \in Leads(Roots[root]) THEN 1 ELSE 0
    <3>1. NewChannel \in Channel(Dir) /\ NewChannel.q = <<>>
      BY NewChannelType
    <3> QED
      BY <1>1, <2>4, <3>1, DirsChange
  <2>6. Cardinality(AtWalkers(x)) = 0 /\ Cardinality(AtWalkers(x)') = 0
    BY <2>2, <2>3, FS_EmptySet
  <2>7. /\ Cardinality(senders \cap Above(x)) = 0 /\ Cardinality(senders' \cap Above(x)) = 0
        /\ Cardinality(At(dirs.q, Above(x))) = 0
    BY <2>1, <2>4, FS_EmptySet
  <2> QED
    BY <2>5, <2>6, <2>7, WalkPartsOf
<1>3. ASSUME NEW f \in File PROVE Moves(f)
  <2> DEFINE n == IF f \in Leads(Roots[root]) THEN 1 ELSE 0
  <2>1. Cardinality(AtRoots(f)) = Cardinality(AtRoots(f)') + n
    <3>1. AtRoots(f) = From(root, Above(f)) /\ AtRoots(f)' = From(root + 1, Above(f))
      BY <1>1 DEF AtRoots
    <3> QED
      BY <1>1, <3>1, FromIs, AboveIs
  <2>2. InWalk(f) = 0 /\ InWalk(f)' = n
    BY <1>2
  <2> HIDE DEF n
  <2>3. Cardinality(At(jobs'.q, {f})) = Cardinality(At(jobs.q, {f})) /\ missed'[f] = missed[f]
    BY <1>1
  <2>4. /\ Cardinality(AtRoots(f)) \in Nat /\ Cardinality(AtRoots(f)') \in Nat
        /\ Cardinality(At(jobs.q, {f})) \in Nat /\ missed[f] \in Nat /\ InWalk(f)' \in Nat
    BY CountsOf
  <2>5. Cardinality(AtRoots(f)') + InWalk(f)' + Cardinality(At(jobs'.q, {f})) + missed'[f]
        = Cardinality(AtRoots(f)) + InWalk(f) + Cardinality(At(jobs.q, {f})) + missed[f]
    BY ONLY <2>1, <2>2, <2>3, <2>4
  <2> QED
    BY <1>1, <2>5, WalkMoves
<1>4. \A d \in Dir : InWalk(d)' <= 1
  BY <1>2
<1> QED
  BY <1>3, <1>4, Balanced

\* A step that moves what is in the walk on.
LEMMA WalkStays ==
  ASSUME Types, Types', Countable, Countable', Accounts,
         UNCHANGED <<root, walking, jobs, io, scan, cpu, match, found, missed>>,
         \A x \in Dir \cup File : InWalk(x)' = InWalk(x) \/ (x \in Dir /\ InWalk(x)' <= InWalk(x))
  PROVE  Accounts'
<1>1. \A d \in Dir : InWalk(d)' <= 1
  <2> TAKE d \in Dir
  <2>1. InWalk(d) \in Nat /\ InWalk(d)' \in Nat /\ InWalk(d) <= 1
    BY SumsAre, SumsNext DEF Summed, Accounts
  <2> QED
    BY <2>1
<1>2. ASSUME NEW f \in File PROVE Moves(f)
  <2>1. InWalk(f)' = InWalk(f)
    BY GrepAssumption
  <2>2. AtRoots(f)' = AtRoots(f)
    BY CountsStay
  <2> QED
    BY <2>1, <2>2, WalkMoves
<1> QED
  BY <1>1, <1>2, Balanced

LEMMA WalkEndsBalance ==
  ASSUME Types, Types', Countable, Countable', WalkCounts, Accounts, WalkEnds
  PROVE  Accounts'
<1> USE DEF walkVars, ioVars, endVars
<1>1. /\ dirs'.q = dirs.q /\ walking /\ walking' = FALSE /\ root' = root + 1
      /\ UNCHANGED <<senders, walk, jobs, io, scan, cpu, match, found, missed>>
  BY ClosedIs DEF WalkEnds, Types
<1>2. ASSUME NEW x PROVE InWalk(x)' = InWalk(x) /\ AtRoots(x)' = AtRoots(x)
  <2>1. AtWalkers(x)' = AtWalkers(x)
    BY <1>1, CountsStay
  <2> QED
    BY <1>1, <2>1 DEF InWalk, AtRoots
<1>3. ASSUME NEW f \in File PROVE Moves(f)
  BY <1>1, <1>2, WalkMoves
<1> QED
  BY <1>2, <1>3, Balanced

LEMMA DirSentBalance ==
  ASSUME Types, Types', Countable, Countable', WalkCounts, Accounts, NEW d \in Dir, DirSent(d)
  PROVE  Accounts'
<1> USE DEF walkVars, ioVars, endVars
<1>1. d \in senders /\ senders' = senders \ {d} /\ dirs' = Sent(dirs, d) /\ dirs \in Channel(Dir)
      /\ UNCHANGED <<root, walking, walk, jobs, io, scan, cpu, match, found, missed>>
  BY DEF DirSent, Types
<1>2. ASSUME NEW x \in Dir \cup File PROVE InWalk(x)' = InWalk(x)
  <2> DEFINE n == IF x \in Leads(d) THEN 1 ELSE 0
  <2>1. Cardinality(At(dirs'.q, Above(x))) = Cardinality(At(dirs.q, Above(x))) + n
    BY <1>1, DirsChange
  <2>2. Cardinality(senders \cap Above(x)) = Cardinality(senders' \cap Above(x)) + n
    <3>1. IsFiniteSet(senders \cap Above(x)) /\ Cardinality(senders \cap Above(x)) \in Nat
      BY FS_Intersection, FS_CardinalityType DEF WalkCounts
    <3>2. CASE x \in Leads(d)
      <4>1. d \in senders \cap Above(x) /\ senders' \cap Above(x) = (senders \cap Above(x)) \ {d}
        BY <1>1, <3>2, AboveIs
      <4>2. Cardinality((senders \cap Above(x)) \ {d}) = Cardinality(senders \cap Above(x)) - 1
        BY <3>1, <4>1, FS_RemoveElement
      <4> QED
        BY <3>1, <3>2, <4>1, <4>2
    <3>3. CASE x \notin Leads(d)
      <4>1. senders' \cap Above(x) = senders \cap Above(x)
        BY <1>1, <3>3, AboveIs
      <4> QED
        BY <3>1, <3>3, <4>1
    <3> QED
      BY <3>2, <3>3
  <2>3. AtWalkers(x)' = AtWalkers(x)
    BY <1>1, CountsStay
  <2>4. n \in Nat
    OBVIOUS
  <2> HIDE DEF n
  <2>5. Cardinality(AtWalkers(x)') = Cardinality(AtWalkers(x))
    BY <2>3
  <2>6. /\ Cardinality(senders \cap Above(x)) \in Nat /\ Cardinality(senders' \cap Above(x)) \in Nat
        /\ Cardinality(At(dirs.q, Above(x))) \in Nat /\ Cardinality(At(dirs'.q, Above(x))) \in Nat
        /\ Cardinality(AtWalkers(x)) \in Nat
        /\ InWalk(x) = Cardinality(senders \cap Above(x)) + Cardinality(At(dirs.q, Above(x)))
                        + Cardinality(AtWalkers(x))
        /\ InWalk(x)' = Cardinality(senders' \cap Above(x)) + Cardinality(At(dirs'.q, Above(x)))
                         + Cardinality(AtWalkers(x)')
    BY WalkPartsOf
  <2> QED
    BY ONLY <2>1, <2>2, <2>4, <2>5, <2>6
<1> QED
  BY <1>1, <1>2, WalkStays

LEMMA WalkerTakesBalance ==
  ASSUME Types, Types', Countable, Countable', Accounts, NEW w \in Walker, WalkerTakes(w)
  PROVE  Accounts'
<1> USE DEF walkVars, ioVars, endVars
<1> DEFINE d == Head(dirs.q)
<1>1. /\ walk[w] = NoEntry /\ dirs.q # <<>> /\ dirs \in Channel(Dir) /\ dirs' = Received(dirs)
      /\ UNCHANGED <<root, walking, senders, jobs, io, scan, cpu, match, found>>
  BY DEF WalkerTakes, Types
<1>2. d \in Dir
  BY <1>1, ReceivedIs
<1>3. ASSUME NEW x \in Dir \cup File
      PROVE  /\ Cardinality(At(dirs.q, Above(x))) = Cardinality(At(dirs'.q, Above(x)))
                  + IF x \in Leads(d) THEN 1 ELSE 0
             /\ senders' \cap Above(x) = senders \cap Above(x)
  BY <1>1, DirsChange
<1>4. CASE Succeed /\ walk' = [walk EXCEPT ![w] = [dir |-> d, left |-> Entries[d]]]
  <2>1. /\ walk'[w].dir = d /\ walk'[w].left = Entries[d] /\ walk[w].left = <<>>
        /\ \A v \in Walker \ {w} : walk'[v] = walk[v]
    BY <1>1, <1>4 DEF Types, NoEntry
  <2>2. ASSUME NEW x \in Dir \cup File
        PROVE  Cardinality(AtWalkers(x)') = Cardinality(AtWalkers(x)) + IF x \in Leads(d) /\ x # d THEN 1 ELSE 0
    <3>1. At(walk[w].left, Heading(walk[w].dir, x)) = {}
      BY <2>1 DEF At
    <3>2. Cardinality(At(walk[w].left, Heading(walk[w].dir, x))) = 0
      BY <3>1, FS_EmptySet
    <3>3. Cardinality(At(walk'[w].left, Heading(walk'[w].dir, x))) = IF x \in Leads(d) /\ x # d THEN 1 ELSE 0
      BY <1>2, <2>1, EntriesCount
    <3>4. Cardinality(AtWalkers(x)') + Cardinality(At(walk[w].left, Heading(walk[w].dir, x)))
          = Cardinality(AtWalkers(x)) + Cardinality(At(walk'[w].left, Heading(walk'[w].dir, x)))
      BY <2>1, WalkersChange
    <3>5. Cardinality(AtWalkers(x)) \in Nat /\ Cardinality(AtWalkers(x)') \in Nat
      BY WalkPartsOf
    <3> QED
      BY ONLY <3>2, <3>3, <3>4, <3>5
  <2>3. ASSUME NEW x \in Dir \cup File
        PROVE  InWalk(x)' = InWalk(x) \/ (x \in Dir /\ InWalk(x)' <= InWalk(x))
    <3> DEFINE n == IF x \in Leads(d) THEN 1 ELSE 0
               m == IF x \in Leads(d) /\ x # d THEN 1 ELSE 0
    <3>1. m \in Nat /\ n \in Nat /\ m <= n /\ (x \in File => m = n)
      BY <1>2, GrepAssumption
    <3>2. /\ Cardinality(At(dirs.q, Above(x))) = Cardinality(At(dirs'.q, Above(x))) + n
          /\ Cardinality(senders' \cap Above(x)) = Cardinality(senders \cap Above(x))
          /\ Cardinality(AtWalkers(x)') = Cardinality(AtWalkers(x)) + m
      BY <1>3, <2>2
    <3> HIDE DEF n, m
    <3>3. InWalk(x)' = InWalk(x) + m - n /\ InWalk(x) \in Nat
      <4>1. /\ Cardinality(senders \cap Above(x)) \in Nat
            /\ Cardinality(At(dirs.q, Above(x))) \in Nat /\ Cardinality(At(dirs'.q, Above(x))) \in Nat
            /\ Cardinality(AtWalkers(x)) \in Nat
            /\ InWalk(x) = Cardinality(senders \cap Above(x)) + Cardinality(At(dirs.q, Above(x)))
                           + Cardinality(AtWalkers(x))
            /\ InWalk(x)' = Cardinality(senders' \cap Above(x)) + Cardinality(At(dirs'.q, Above(x)))
                            + Cardinality(AtWalkers(x)')
        BY WalkPartsOf
      <4> QED
        BY ONLY <3>1, <3>2, <4>1
    <3> QED
      BY <3>1, <3>3
  <2> QED
    BY <1>1, <1>4, <2>3, WalkStays DEF Succeed
<1>5. CASE Lose(Reached(d)) /\ UNCHANGED walk
  <2>1. ASSUME NEW x \in Dir \cup File
        PROVE  /\ InWalk(x) = InWalk(x)' + IF x \in Leads(d) THEN 1 ELSE 0
               /\ InWalk(x) \in Nat /\ InWalk(x)' \in Nat
    <3> DEFINE n == IF x \in Leads(d) THEN 1 ELSE 0
    <3>1. n \in Nat
      OBVIOUS
    <3>2. AtWalkers(x)' = AtWalkers(x)
      BY <1>5, CountsStay
    <3>3. /\ Cardinality(At(dirs.q, Above(x))) = Cardinality(At(dirs'.q, Above(x))) + n
          /\ Cardinality(senders' \cap Above(x)) = Cardinality(senders \cap Above(x))
          /\ Cardinality(AtWalkers(x)') = Cardinality(AtWalkers(x))
      BY <1>3, <3>2
    <3> HIDE DEF n
    <3>4. InWalk(x) = InWalk(x)' + n /\ InWalk(x) \in Nat /\ InWalk(x)' \in Nat
      <4>1. /\ Cardinality(senders \cap Above(x)) \in Nat
            /\ Cardinality(At(dirs.q, Above(x))) \in Nat /\ Cardinality(At(dirs'.q, Above(x))) \in Nat
            /\ Cardinality(AtWalkers(x)) \in Nat
            /\ InWalk(x) = Cardinality(senders \cap Above(x)) + Cardinality(At(dirs.q, Above(x)))
                           + Cardinality(AtWalkers(x))
            /\ InWalk(x)' = Cardinality(senders' \cap Above(x)) + Cardinality(At(dirs'.q, Above(x)))
                            + Cardinality(AtWalkers(x)')
        BY WalkPartsOf
      <4> QED
        BY ONLY <3>1, <3>3, <4>1
    <3> QED
      BY <3>4 DEF n
  <2>2. ASSUME NEW f \in File PROVE Moves(f)
    <3> DEFINE n == IF f \in Leads(d) THEN 1 ELSE 0
    <3>1. InWalk(f) = InWalk(f)' + n
      BY <2>1
    <3>2. missed'[f] = missed[f] + n
      <4>1. f \in Reached(d) <=> f \in Leads(d)
        BY <1>2, LeadsIs
      <4> QED
        BY <1>5, <4>1, MissedIs
    <3>3. n \in Nat
      OBVIOUS
    <3> HIDE DEF n
    <3>4. Cardinality(AtRoots(f)') = Cardinality(AtRoots(f))
          /\ Cardinality(At(jobs'.q, {f})) = Cardinality(At(jobs.q, {f}))
      BY <1>1, CountsStay
    <3>5. /\ Cardinality(AtRoots(f)) \in Nat /\ Cardinality(At(jobs.q, {f})) \in Nat
          /\ missed[f] \in Nat /\ InWalk(f)' \in Nat
      BY CountsOf
    <3>6. Cardinality(AtRoots(f)') + InWalk(f)' + Cardinality(At(jobs'.q, {f})) + missed'[f]
          = Cardinality(AtRoots(f)) + InWalk(f) + Cardinality(At(jobs.q, {f})) + missed[f]
      BY ONLY <3>1, <3>2, <3>3, <3>4, <3>5
    <3> QED
      BY <1>1, <3>6, WalkMoves
  <2>3. \A x \in Dir : InWalk(x)' <= 1
    <3> TAKE x \in Dir
    <3>1. InWalk(x) \in Nat /\ InWalk(x)' \in Nat /\ InWalk(x)' <= InWalk(x) /\ InWalk(x) <= 1
      BY <2>1 DEF Accounts
    <3> QED
      BY <3>1
  <2> QED
    BY <2>2, <2>3, Balanced
<1> QED
  BY <1>4, <1>5 DEF WalkerTakes

LEMMA WalkerSkipsBalance ==
  ASSUME Types, Types', Countable, Countable', Accounts, NEW w \in Walker, WalkerSkips(w)
  PROVE  Accounts'
<1> USE DEF walkVars, ioVars, endVars
<1>1. /\ walk[w].left # <<>> /\ Head(walk[w].left) \notin Kept(walk[w].dir)
      /\ walk' = [walk EXCEPT ![w].left = Tail(@)]
      /\ UNCHANGED <<root, walking, dirs, senders, jobs, io, scan, cpu, match, found, missed>>
  BY DEF WalkerSkips
<1>2. ASSUME NEW x \in Dir \cup File PROVE InWalk(x)' = InWalk(x)
  <2>1. Head(walk[w].left) \notin Heading(walk[w].dir, x)
    BY <1>1 DEF Heading
  <2>2. Cardinality(AtWalkers(x)) = Cardinality(AtWalkers(x)')
    <3>1. Cardinality(AtWalkers(x)) \in Nat /\ Cardinality(AtWalkers(x)') \in Nat
      BY WalkPartsOf
    <3>2. Cardinality(AtWalkers(x)) = Cardinality(AtWalkers(x)')
            + IF Head(walk[w].left) \in Heading(walk[w].dir, x) THEN 1 ELSE 0
      BY <1>1, WalkerNext
    <3> QED
      BY ONLY <2>1, <3>1, <3>2
  <2> QED
    BY <1>1, <2>2, WalkPartsOf
<1> QED
  BY <1>1, <1>2, WalkStays

LEMMA WalkerDoneBalance ==
  ASSUME Types, Types', Countable, Countable', Accounts, NEW w \in Walker, WalkerDone(w)
  PROVE  Accounts'
<1> USE DEF walkVars, ioVars, endVars
<1>1. /\ walk[w].left = <<>> /\ walk' = [walk EXCEPT ![w] = NoEntry]
      /\ UNCHANGED <<root, walking, dirs, senders, jobs, io, scan, cpu, match, found, missed>>
  BY DEF WalkerDone
<1>2. ASSUME NEW x \in Dir \cup File PROVE InWalk(x)' = InWalk(x)
  <2>1. walk'[w].left = <<>> /\ \A v \in Walker \ {w} : walk'[v] = walk[v]
    BY <1>1 DEF Types, NoEntry
  <2>2. /\ At(walk[w].left, Heading(walk[w].dir, x)) = {}
        /\ At(walk'[w].left, Heading(walk'[w].dir, x)) = {}
    BY <1>1, <2>1 DEF At
  <2>3. Cardinality(AtWalkers(x)') + Cardinality(At(walk[w].left, Heading(walk[w].dir, x)))
        = Cardinality(AtWalkers(x)) + Cardinality(At(walk'[w].left, Heading(walk'[w].dir, x)))
    BY <2>1, WalkersChange
  <2>4. Cardinality(AtWalkers(x)) \in Nat /\ Cardinality(AtWalkers(x)') \in Nat
    BY WalkPartsOf
  <2>5. Cardinality({}) = 0
    BY FS_EmptySet
  <2>6. Cardinality(AtWalkers(x)) = Cardinality(AtWalkers(x)')
    BY <2>2, <2>3, <2>4, <2>5
  <2> QED
    BY <1>1, <2>6, WalkPartsOf
<1> QED
  BY <1>1, <1>2, WalkStays

LEMMA WalkerMeetsDirBalance ==
  ASSUME Types, Types', Countable, Countable', WalkCounts, Accounts, NEW w \in Walker, WalkerMeetsDir(w)
  PROVE  Accounts'
<1> USE DEF walkVars, ioVars, endVars
<1>0. PICK e \in Dir : e = Head(walk[w].left)
  BY DEF WalkerMeetsDir
<1>1. /\ walk[w].left # <<>> /\ e \in Kept(walk[w].dir)
      /\ walk' = [walk EXCEPT ![w].left = Tail(@)] /\ senders' = senders \cup {e}
      /\ UNCHANGED <<root, walking, dirs, jobs, io, scan, cpu, match, found, missed>>
  BY <1>0 DEF WalkerMeetsDir
<1>2. ASSUME NEW x \in Dir \cup File
      PROVE  Cardinality(AtWalkers(x)) = Cardinality(AtWalkers(x)') + IF x \in Leads(e) THEN 1 ELSE 0
  <2>1. e \in Heading(walk[w].dir, x) <=> x \in Leads(e)
    BY <1>1, AboveIs DEF Heading
  <2> QED
    BY <1>0, <1>1, <2>1, WalkerNext
<1>3. e \notin senders
  <2> SUFFICES ASSUME e \in senders PROVE FALSE
    OBVIOUS
  <2>1. e \in Leads(e) /\ e \in Dir \cup File
    BY <1>1, LeadsIs, BelowIs
  <2>2. e \in senders \cap Above(e)
    BY <2>1, AboveIs
  <2>3. Cardinality(senders \cap Above(e)) # 0
    <3>1. IsFiniteSet(senders \cap Above(e))
      BY FS_Intersection DEF WalkCounts
    <3> QED
      BY <2>2, <3>1, FS_EmptySet
  <2>4. Cardinality(AtWalkers(e)) = Cardinality(AtWalkers(e)') + 1
    BY <1>2, <2>1
  <2>5. InWalk(e) <= 1
    BY <1>1 DEF Accounts
  <2>6. /\ Cardinality(senders \cap Above(e)) \in Nat /\ Cardinality(At(dirs.q, Above(e))) \in Nat
        /\ Cardinality(AtWalkers(e)') \in Nat
        /\ InWalk(e) = Cardinality(senders \cap Above(e)) + Cardinality(At(dirs.q, Above(e)))
                       + Cardinality(AtWalkers(e))
    BY <2>1, WalkPartsOf
  <2> QED
    BY ONLY <2>3, <2>4, <2>5, <2>6
<1>4. ASSUME NEW x \in Dir \cup File PROVE InWalk(x)' = InWalk(x)
  <2> DEFINE n == IF x \in Leads(e) THEN 1 ELSE 0
  <2>1. Cardinality(senders' \cap Above(x)) = Cardinality(senders \cap Above(x)) + n
    <3>1. IsFiniteSet(senders \cap Above(x)) /\ Cardinality(senders \cap Above(x)) \in Nat
      BY FS_Intersection, FS_CardinalityType DEF WalkCounts
    <3>2. CASE x \in Leads(e)
      <4>1. /\ e \notin senders \cap Above(x)
            /\ senders' \cap Above(x) = (senders \cap Above(x)) \cup {e}
        BY <1>1, <1>3, <3>2, AboveIs
      <4>2. Cardinality((senders \cap Above(x)) \cup {e}) = Cardinality(senders \cap Above(x)) + 1
        BY <3>1, <4>1, FS_AddElement
      <4> QED
        BY <3>2, <4>1, <4>2
    <3>3. CASE x \notin Leads(e)
      <4>1. senders' \cap Above(x) = senders \cap Above(x)
        BY <1>1, <3>3, AboveIs
      <4>2. n = 0
        BY <3>3
      <4> HIDE DEF n
      <4> QED
        BY ONLY <3>1, <4>1, <4>2
    <3> QED
      BY <3>2, <3>3
  <2>2. Cardinality(AtWalkers(x)) = Cardinality(AtWalkers(x)') + n
    BY <1>2
  <2>3. n \in Nat /\ Cardinality(At(dirs'.q, Above(x))) = Cardinality(At(dirs.q, Above(x)))
    BY <1>1
  <2> HIDE DEF n
  <2>4. /\ Cardinality(senders \cap Above(x)) \in Nat /\ Cardinality(At(dirs.q, Above(x))) \in Nat
        /\ Cardinality(AtWalkers(x)') \in Nat
        /\ InWalk(x) = Cardinality(senders \cap Above(x)) + Cardinality(At(dirs.q, Above(x)))
                       + Cardinality(AtWalkers(x))
        /\ InWalk(x)' = Cardinality(senders' \cap Above(x)) + Cardinality(At(dirs'.q, Above(x)))
                        + Cardinality(AtWalkers(x)')
    BY WalkPartsOf
  <2> QED
    BY ONLY <2>1, <2>2, <2>3, <2>4
<1> QED
  BY <1>1, <1>4, WalkStays

LEMMA WalkerMeetsFileBalance ==
  ASSUME Types, Types', Countable, Countable', Accounts, NEW w \in Walker, WalkerMeetsFile(w)
  PROVE  Accounts'
<1> USE DEF walkVars, ioVars, endVars
<1> DEFINE e == Head(walk[w].left)
<1>1. /\ walk[w].left # <<>> /\ e \in Kept(walk[w].dir) /\ e \in File
      /\ walk' = [walk EXCEPT ![w].left = Tail(@)] /\ jobs' = Sent(jobs, e)
      /\ UNCHANGED <<root, walking, dirs, senders, io, scan, cpu, match, found, missed>>
  BY DEF WalkerMeetsFile
<1> HIDE DEF e
<1>2. \A x : x \in Leads(e) <=> x = e
  <2>1. walk[w].dir \in Dir
    <3>1. walk[w] \in WalkState
      BY DEF Types
    <3> QED
      BY <1>1, <3>1 DEF WalkState, NoEntry
  <2>2. e \in Allowed
    BY <1>1, <2>1, KeptIs
  <2> QED
    BY <1>1, <2>2, LeadsIs
<1>3. ASSUME NEW x \in Dir \cup File PROVE InWalk(x) = InWalk(x)' + IF x = e THEN 1 ELSE 0
  <2> DEFINE n == IF x = e THEN 1 ELSE 0
  <2>1. e \in Heading(walk[w].dir, x) <=> x = e
    BY <1>1, <1>2, AboveIs DEF Heading
  <2>2. Cardinality(AtWalkers(x)) = Cardinality(AtWalkers(x)') + n
    BY <1>1, <2>1, WalkerNext DEF e
  <2>3. n \in Nat /\ Cardinality(At(dirs'.q, Above(x))) = Cardinality(At(dirs.q, Above(x)))
        /\ Cardinality(senders' \cap Above(x)) = Cardinality(senders \cap Above(x))
    BY <1>1
  <2> HIDE DEF n
  <2>4. /\ Cardinality(senders \cap Above(x)) \in Nat /\ Cardinality(At(dirs.q, Above(x))) \in Nat
        /\ Cardinality(AtWalkers(x)') \in Nat
        /\ InWalk(x) = Cardinality(senders \cap Above(x)) + Cardinality(At(dirs.q, Above(x)))
                       + Cardinality(AtWalkers(x))
        /\ InWalk(x)' = Cardinality(senders' \cap Above(x)) + Cardinality(At(dirs'.q, Above(x)))
                        + Cardinality(AtWalkers(x)')
    BY WalkPartsOf
  <2>5. InWalk(x) = InWalk(x)' + n
    BY ONLY <2>2, <2>3, <2>4
  <2> QED
    BY <2>5 DEF n
<1>4. ASSUME NEW f \in File PROVE Moves(f)
  <2> DEFINE n == IF f = e THEN 1 ELSE 0
  <2>1. InWalk(f) = InWalk(f)' + n
    BY <1>3
  <2>2. Cardinality(At(jobs'.q, {f})) = Cardinality(At(jobs.q, {f})) + n
    <3>1. jobs \in Channel(File) /\ jobs.q \in Seq(File)
      BY DEF Types, Channel
    <3>2. jobs'.q = Append(jobs.q, e)
      BY <1>1, <3>1, SentIs
    <3>3. Cardinality(At(jobs'.q, {f})) = Cardinality(At(jobs.q, {f})) + IF e \in {f} THEN 1 ELSE 0
      BY <1>1, <3>1, <3>2, AtAppend
    <3>4. e \in {f} <=> f = e
      OBVIOUS
    <3> QED
      BY <3>3, <3>4
  <2>3. n \in Nat /\ Cardinality(AtRoots(f)') = Cardinality(AtRoots(f)) /\ missed'[f] = missed[f]
    BY <1>1, CountsStay
  <2> HIDE DEF n
  <2>4. /\ Cardinality(AtRoots(f)) \in Nat /\ Cardinality(At(jobs.q, {f})) \in Nat
        /\ missed[f] \in Nat /\ InWalk(f)' \in Nat
    BY CountsOf
  <2>5. Cardinality(AtRoots(f)') + InWalk(f)' + Cardinality(At(jobs'.q, {f})) + missed'[f]
        = Cardinality(AtRoots(f)) + InWalk(f) + Cardinality(At(jobs.q, {f})) + missed[f]
    BY ONLY <2>1, <2>2, <2>3, <2>4
  <2> QED
    BY <1>1, <2>5, WalkMoves
<1>5. \A d \in Dir : InWalk(d)' <= 1
  <2> TAKE d \in Dir
  <2>1. InWalk(d) = InWalk(d)' /\ InWalk(d) <= 1
    <3>1. d # e /\ InWalk(d)' \in Nat
      BY <1>1, GrepAssumption, SumsNext DEF Summed
    <3> QED
      BY <1>3, <3>1 DEF Accounts
  <2> QED
    BY <2>1
<1> QED
  BY <1>4, <1>5, Balanced

\* A step of a worker or of the collector.
LEMMA HandMoves ==
  ASSUME Types, Types', Countable, Countable', Accounts,
         UNCHANGED <<root, walking, dirs, senders, walk>>,
         \A f \in File :
           \/ /\ InHand(f)' + missed'[f] = InHand(f) + missed[f]
              /\ OnTheWay(f)' + found'[f] = OnTheWay(f) + found[f]
           \/ /\ InHand(f)' + missed'[f] + 1 = InHand(f) + missed[f]
              /\ OnTheWay(f)' + found'[f] = OnTheWay(f) + found[f] + Lines[f]
  PROVE  Accounts'
<1>1. ASSUME NEW f \in File PROVE Moves(f) \/ Begins(f)
  <2>1. InWalk(f)' = InWalk(f) /\ Cardinality(AtRoots(f)') = Cardinality(AtRoots(f))
    BY CountsStay
  <2>2. /\ Cardinality(AtRoots(f)) \in Nat /\ InWalk(f) \in Nat
        /\ InHand(f) \in Nat /\ InHand(f)' \in Nat /\ missed[f] \in Nat /\ missed'[f] \in Nat
    BY CountsOf
  <2>3. /\ Coming(f) = Cardinality(AtRoots(f)) + InWalk(f) + InHand(f)
        /\ Coming(f)' = Cardinality(AtRoots(f)') + InWalk(f)' + InHand(f)'
    BY DEF Coming
  <2>4. CASE /\ InHand(f)' + missed'[f] = InHand(f) + missed[f]
             /\ OnTheWay(f)' + found'[f] = OnTheWay(f) + found[f]
    <3>1. Coming(f)' + missed'[f] = Coming(f) + missed[f]
      BY ONLY <2>1, <2>2, <2>3, <2>4
    <3> QED
      BY <2>4, <3>1 DEF Moves
  <2>5. CASE /\ InHand(f)' + missed'[f] + 1 = InHand(f) + missed[f]
             /\ OnTheWay(f)' + found'[f] = OnTheWay(f) + found[f] + Lines[f]
    <3>1. Coming(f)' + missed'[f] + 1 = Coming(f) + missed[f]
      BY ONLY <2>1, <2>2, <2>3, <2>5
    <3> QED
      BY <2>5, <3>1 DEF Begins
  <2> QED
    BY <2>4, <2>5
<1>2. \A d \in Dir : InWalk(d)' = InWalk(d)
  BY CountsStay
<1> QED
  BY <1>1, <1>2, Balanced

LEMMA HandPartsOf ==
  ASSUME Countable, Countable', NEW f \in File
  PROVE  /\ Cardinality(At(jobs.q, {f})) \in Nat /\ Cardinality(At(jobs'.q, {f})) \in Nat
         /\ Cardinality(AtIo(f)) \in Nat /\ Cardinality(AtIo(f)') \in Nat
         /\ Cardinality(At(scan.q, JobsOf(f))) \in Nat /\ Cardinality(At(scan'.q, JobsOf(f))) \in Nat
         /\ InHand(f) = Cardinality(At(jobs.q, {f})) + Cardinality(AtIo(f))
                        + Cardinality(At(scan.q, JobsOf(f)))
         /\ InHand(f)' = Cardinality(At(jobs'.q, {f})) + Cardinality(AtIo(f)')
                         + Cardinality(At(scan'.q, JobsOf(f)))
<1>1. /\ Cardinality(At(jobs.q, {f})) \in Nat /\ Cardinality(AtIo(f)) \in Nat
      /\ Cardinality(At(scan.q, JobsOf(f))) \in Nat
  BY DEF Countable
<1>2. /\ Cardinality(At(jobs'.q, {f})) \in Nat /\ Cardinality(AtIo(f)') \in Nat
      /\ Cardinality(At(scan'.q, JobsOf(f))) \in Nat
  BY DEF Countable
<1>3. InHand(f)' = Cardinality(At(jobs'.q, {f})) + Cardinality(AtIo(f)')
                   + Cardinality(At(scan'.q, JobsOf(f)))
  BY DEF InHand
<1> QED
  BY <1>1, <1>2, <1>3 DEF InHand

\* An I/O worker that changes its job.
LEMMA IoChange ==
  ASSUME Countable, Countable', NEW i \in IoWorker, \A j \in IoWorker \ {i} : io'[j] = io[j], NEW f \in File
  PROVE  Cardinality(AtIo(f)') + (IF io[i].job.file = f THEN 1 ELSE 0)
         = Cardinality(AtIo(f)) + (IF io'[i].job.file = f THEN 1 ELSE 0)
<1> DEFINE Rest == {j \in IoWorker \ {i} : io[j].job.file = f}
<1>1. IsFiniteSet(Rest) /\ Cardinality(Rest) \in Nat /\ i \notin Rest
  <2>1. IsFiniteSet(IoWorker) /\ Rest \subseteq IoWorker
    BY GrepAssumption
  <2> HIDE DEF Rest
  <2>2. IsFiniteSet(Rest) /\ Cardinality(Rest) \in Nat
    BY <2>1, FS_Subset, FS_CardinalityType
  <2> QED
    BY <2>2 DEF Rest
<1>2. /\ AtIo(f) = IF io[i].job.file = f THEN Rest \cup {i} ELSE Rest
      /\ AtIo(f)' = IF io'[i].job.file = f THEN Rest \cup {i} ELSE Rest
  BY DEF AtIo
<1> HIDE DEF Rest
<1>3. Cardinality(Rest \cup {i}) = Cardinality(Rest) + 1
  BY <1>1, FS_AddElement
<1> QED
  BY <1>1, <1>2, <1>3

\* A CPU worker that changes its job or the lines it has reported.
LEMMA CpuChange ==
  ASSUME Countable, Countable', NEW c \in CpuWorker, \A b \in CpuWorker \ {c} : cpu'[b] = cpu[b], NEW f \in File
  PROVE  /\ Cardinality(Pairs(LinesLeft(f)')) + Cardinality(LinesLeft(f)[c])
            = Cardinality(Pairs(LinesLeft(f))) + Cardinality(LinesLeft(f)'[c])
         /\ Cardinality(Pairs(LinesLeft(f))) \in Nat /\ Cardinality(Pairs(LinesLeft(f)')) \in Nat
<1> DEFINE F == LinesLeft(f)
           H == LinesLeft(f)'
<1>1. /\ DOMAIN F = CpuWorker /\ DOMAIN H = CpuWorker
      /\ \A b \in CpuWorker \ {c} : H[b] = F[b]
  BY DEF LinesLeft
<1>2. (\A b \in CpuWorker : IsFiniteSet(F[b])) /\ Cardinality(Pairs(F)) \in Nat
  BY DEF Countable
<1>3. (\A b \in CpuWorker : IsFiniteSet(H[b])) /\ Cardinality(Pairs(H)) \in Nat
  BY DEF Countable
<1>4. IsFiniteSet(CpuWorker)
  BY GrepAssumption
<1>5. Cardinality(Pairs(H)) + Cardinality(F[c]) = Cardinality(Pairs(F)) + Cardinality(H[c])
  <2> HIDE DEF F, H
  <2> QED
    BY <1>1, <1>2, <1>3, <1>4, PairsChange
<1> QED
  BY <1>2, <1>3, <1>5

LEMMA IoTakesBalance ==
  ASSUME Types, Types', Countable, Countable', Handled, Accounts, NEW i \in IoWorker, IoTakes(i)
  PROVE  Accounts'
<1> USE DEF walkVars, ioVars, endVars
<1>0. PICK h \in File : h = Head(jobs.q)
  BY ReceivedIs DEF IoTakes, Types
<1>1. /\ jobs.q # <<>> /\ jobs' = Received(jobs) /\ jobs \in Channel(File) /\ io[i].job.file # h
      /\ UNCHANGED <<root, walking, dirs, senders, walk, scan, cpu, match, found>>
      /\ \A j \in IoWorker \ {i} : io'[j] = io[j]
  <2>1. io[i].job.file # h
    BY GrepAssumption DEF IoTakes, Handled, NoJob
  <2>2. \A j \in IoWorker \ {i} : io'[j] = io[j]
    BY DEF IoTakes, IoSet, Types
  <2> QED
    BY <2>1, <2>2 DEF IoTakes, Types
<1>2. ASSUME NEW f \in File
      PROVE  /\ Cardinality(At(jobs.q, {f})) = Cardinality(At(jobs'.q, {f})) + IF f = h THEN 1 ELSE 0
             /\ OnTheWay(f)' = OnTheWay(f) /\ scan'.q = scan.q
  <2>1. jobs.q \in Seq(File) /\ jobs'.q = Tail(jobs.q) /\ (h \in {f} <=> f = h)
    BY <1>1, ReceivedIs DEF Channel
  <2> QED
    BY <1>0, <1>1, <2>1, AtTail, CountsStay
<1>3. CASE (Lose({h}) /\ UNCHANGED io) \/ (Succeed /\ Size[h] = "empty" /\ UNCHANGED io)
  <2>1. ASSUME NEW f \in File
        PROVE  \/ /\ InHand(f)' + missed'[f] = InHand(f) + missed[f]
                  /\ OnTheWay(f)' + found'[f] = OnTheWay(f) + found[f]
               \/ /\ InHand(f)' + missed'[f] + 1 = InHand(f) + missed[f]
                  /\ OnTheWay(f)' + found'[f] = OnTheWay(f) + found[f] + Lines[f]
    <3> DEFINE n == IF f = h THEN 1 ELSE 0
    <3>1. Cardinality(AtIo(f)') = Cardinality(AtIo(f))
      BY <1>3, CountsStay
    <3>2. InHand(f) = InHand(f)' + n
      <4>1. n \in Nat
        OBVIOUS
      <4>2. Cardinality(At(jobs.q, {f})) = Cardinality(At(jobs'.q, {f})) + n /\ scan'.q = scan.q
        BY <1>2
      <4>3. /\ Cardinality(At(jobs'.q, {f})) \in Nat
            /\ Cardinality(AtIo(f)) \in Nat /\ Cardinality(At(scan.q, JobsOf(f))) \in Nat
            /\ InHand(f) = Cardinality(At(jobs.q, {f})) + Cardinality(AtIo(f))
                           + Cardinality(At(scan.q, JobsOf(f)))
            /\ InHand(f)' = Cardinality(At(jobs'.q, {f})) + Cardinality(AtIo(f)')
                            + Cardinality(At(scan'.q, JobsOf(f)))
        BY HandPartsOf
      <4> HIDE DEF n
      <4> QED
        BY ONLY <3>1, <4>1, <4>2, <4>3
    <3>3. /\ InHand(f)' \in Nat /\ missed[f] \in Nat /\ OnTheWay(f) \in Nat /\ found[f] \in Nat
          /\ Lines[f] \in Nat
      BY CountsOf
    <3>4. CASE Lose({h})
      <4>1. missed'[f] = missed[f] + n /\ n \in Nat
        BY <3>4, MissedIs
      <4>2. OnTheWay(f)' = OnTheWay(f) /\ found'[f] = found[f]
        BY <1>1, <1>2
      <4> HIDE DEF n
      <4>3. InHand(f)' + missed'[f] = InHand(f) + missed[f]
        BY ONLY <3>2, <3>3, <4>1
      <4> QED
        BY <4>2, <4>3
    <3>5. CASE Succeed /\ Size[h] = "empty"
      <4>1. f = h => Lines[f] = 0
        BY <3>5, GrepAssumption
      <4>2. missed'[f] = missed[f] /\ OnTheWay(f)' = OnTheWay(f) /\ found'[f] = found[f]
        BY <1>1, <1>2, <3>5 DEF Succeed
      <4>3. CASE f = h
        <5>1. n = 1 /\ Lines[f] = 0
          BY <4>1, <4>3
        <5> HIDE DEF n
        <5> QED
          BY <3>2, <3>3, <4>2, <5>1
      <4>4. CASE f # h
        <5>1. n = 0
          BY <4>4
        <5> HIDE DEF n
        <5> QED
          BY <3>2, <3>3, <4>2, <5>1
      <4> QED
        BY <4>3, <4>4
    <3> QED
      BY <1>3, <3>4, <3>5
  <2> QED
    BY <1>1, <2>1, HandMoves
<1>4. CASE Succeed /\ io'[i].job.file = h
  <2>1. ASSUME NEW f \in File
        PROVE  /\ InHand(f)' + missed'[f] = InHand(f) + missed[f]
               /\ OnTheWay(f)' + found'[f] = OnTheWay(f) + found[f]
    <3> DEFINE n == IF f = h THEN 1 ELSE 0
    <3>1. Cardinality(AtIo(f)') = Cardinality(AtIo(f)) + n
      <4>1. Cardinality(AtIo(f)') + (IF io[i].job.file = f THEN 1 ELSE 0)
            = Cardinality(AtIo(f)) + (IF io'[i].job.file = f THEN 1 ELSE 0)
        BY <1>1, IoChange
      <4>2. io[i].job.file # f
        BY GrepAssumption DEF IoTakes, Handled, NoJob
      <4>3. Cardinality(AtIo(f)) \in Nat /\ Cardinality(AtIo(f)') \in Nat
        BY HandPartsOf
      <4> QED
        BY <1>4, <4>1, <4>2, <4>3
    <3>2. InHand(f) = InHand(f)'
      <4>1. n \in Nat
        OBVIOUS
      <4>2. Cardinality(At(jobs.q, {f})) = Cardinality(At(jobs'.q, {f})) + n /\ scan'.q = scan.q
        BY <1>2
      <4>3. /\ Cardinality(At(jobs'.q, {f})) \in Nat
            /\ Cardinality(AtIo(f)) \in Nat /\ Cardinality(At(scan.q, JobsOf(f))) \in Nat
            /\ InHand(f) = Cardinality(At(jobs.q, {f})) + Cardinality(AtIo(f))
                           + Cardinality(At(scan.q, JobsOf(f)))
            /\ InHand(f)' = Cardinality(At(jobs'.q, {f})) + Cardinality(AtIo(f)')
                            + Cardinality(At(scan'.q, JobsOf(f)))
        BY HandPartsOf
      <4> HIDE DEF n
      <4> QED
        BY ONLY <3>1, <4>1, <4>2, <4>3
    <3> QED
      BY <1>1, <1>2, <1>4, <3>2 DEF Succeed
  <2> QED
    BY <1>1, <2>1, HandMoves
<1>5. \/ (Lose({h}) /\ UNCHANGED io) \/ (Succeed /\ Size[h] = "empty" /\ UNCHANGED io)
      \/ (Succeed /\ io'[i].job.file = h)
  <2>1. IoSet(i, "open", [NoJob EXCEPT !.file = h]) => io'[i].job.file = h
    BY DEF IoSet, Types, NoJob
  <2>2. IoSet(i, "send", [NoJob EXCEPT !.file = h, !.stream = TRUE]) => io'[i].job.file = h
    BY DEF IoSet, Types, NoJob
  <2> QED
    BY <1>0, <2>1, <2>2 DEF IoTakes
<1> QED
  BY <1>3, <1>4, <1>5

\* An I/O worker that keeps its file, or fails and drops it.
LEMMA IoWorksBalance ==
  ASSUME Types, Types', Countable, Countable', Handled, Accounts, NEW i \in IoWorker,
         IoOpens(i) \/ IoReads(i) \/ IoEnds(i)
  PROVE  Accounts'
<1> USE DEF walkVars, ioVars, endVars
<1>1. /\ UNCHANGED <<root, walking, dirs, senders, walk, jobs, scan, cpu, match, found>>
      /\ \A j \in IoWorker \ {i} : io'[j] = io[j]
  BY DEF IoOpens, IoReads, IoEnds, IoSet, Types
<1>2. PICK h : h = io[i].job.file
  OBVIOUS
<1>3. \/ /\ io'[i].job.file = h /\ UNCHANGED missed
      \/ h \in File /\ io'[i].job.file = None /\ Lose({h})
  <2>1. CASE IoOpens(i)
    <3>2. h \in File
      BY <1>2, <2>1 DEF IoOpens, Handled
    <3>3. CASE Lose({io[i].job.file}) /\ IoSet(i, "idle", NoJob)
      <4>1. Lose({h})
        BY <1>2, <3>3 DEF Lose
      <4>2. io'[i].job.file = None
        BY <3>3 DEF IoSet, Types, NoJob
      <4> QED
        BY <3>2, <4>1, <4>2
    <3>4. CASE Succeed /\ \E b \in pool \cup NewBuffer :
                              IoSet(i, "read", [io[i].job EXCEPT !.buf = b])
      <4>1. PICK b \in pool \cup NewBuffer :
              IoSet(i, "read", [io[i].job EXCEPT !.buf = b])
        BY <3>4
      <4>2. io'[i].job.file = h
        BY <1>2, <4>1 DEF IoSet, Types, IoState, Job
      <4> QED
        BY <3>4, <4>2 DEF Succeed
    <3>5. \/ Lose({io[i].job.file}) /\ IoSet(i, "idle", NoJob)
          \/ Succeed /\ \E b \in pool \cup NewBuffer :
                          IoSet(i, "read", [io[i].job EXCEPT !.buf = b])
      <4> HIDE DEF NoJob
      <4> QED
        BY ONLY <2>1 DEF IoOpens
    <3> QED
      BY <3>3, <3>4, <3>5
  <2>2. CASE IoReads(i)
    <3>1. CASE Lose({io[i].job.file}) /\ IoSet(i, "idle", NoJob)
      <4>1. Lose({h})
        BY <1>2, <3>1 DEF Lose
      <4>2. io'[i].job.file = None /\ h \in File
        BY <1>2, <2>2, <3>1 DEF IoReads, IoSet, Types, NoJob, Handled
      <4> QED
        BY <4>1, <4>2
    <3>2. CASE Succeed /\ IoSet(i, "send", io[i].job)
      BY <1>2, <3>2 DEF IoSet, Types, Succeed
    <3> QED
      BY <2>2, <3>1, <3>2 DEF IoReads
  <2>3. CASE IoEnds(i)
    BY <1>2, <2>3 DEF IoEnds, IoSet, Types, NoJob, Handled
  <2> QED
    BY <2>1, <2>2, <2>3
<1>4. ASSUME NEW f \in File
      PROVE  /\ InHand(f)' + missed'[f] = InHand(f) + missed[f]
             /\ OnTheWay(f)' + found'[f] = OnTheWay(f) + found[f]
  <2> DEFINE n == IF h = f /\ io'[i].job.file # f THEN 1 ELSE 0
  <2>1. Cardinality(AtIo(f)) = Cardinality(AtIo(f)') + n
    <3>1. Cardinality(AtIo(f)') + (IF io[i].job.file = f THEN 1 ELSE 0)
          = Cardinality(AtIo(f)) + (IF io'[i].job.file = f THEN 1 ELSE 0)
      BY <1>1, IoChange
    <3>2. Cardinality(AtIo(f)) \in Nat /\ Cardinality(AtIo(f)') \in Nat
      BY HandPartsOf
    <3>3. io'[i].job.file = f => h = f
      BY <1>3, GrepAssumption
    <3> QED
      BY <1>2, <3>1, <3>2, <3>3
  <2>2. missed'[f] = missed[f] + n
    <3>1. CASE io'[i].job.file = h /\ UNCHANGED missed
      BY <3>1 DEF Types
    <3>2. CASE h \in File /\ io'[i].job.file = None /\ Lose({h})
      <4>1. missed'[f] = missed[f] + IF f \in {h} THEN 1 ELSE 0
        BY <3>2, MissedIs
      <4>2. f \in {h} <=> h = f /\ io'[i].job.file # f
        BY <3>2, GrepAssumption
      <4> QED
        BY <4>1, <4>2
    <3> QED
      BY <1>3, <3>1, <3>2
  <2>3. n \in Nat
    OBVIOUS
  <2> HIDE DEF n
  <2>4. /\ Cardinality(At(jobs'.q, {f})) = Cardinality(At(jobs.q, {f}))
        /\ Cardinality(At(scan'.q, JobsOf(f))) = Cardinality(At(scan.q, JobsOf(f)))
    BY <1>1
  <2>5. /\ Cardinality(At(jobs.q, {f})) \in Nat
        /\ Cardinality(AtIo(f)') \in Nat /\ Cardinality(At(scan.q, JobsOf(f))) \in Nat
        /\ InHand(f) = Cardinality(At(jobs.q, {f})) + Cardinality(AtIo(f))
                       + Cardinality(At(scan.q, JobsOf(f)))
        /\ InHand(f)' = Cardinality(At(jobs'.q, {f})) + Cardinality(AtIo(f)')
                        + Cardinality(At(scan'.q, JobsOf(f)))
    BY HandPartsOf
  <2>6. missed[f] \in Nat
    BY CountsOf
  <2>7. InHand(f)' + missed'[f] = InHand(f) + missed[f]
    BY ONLY <2>1, <2>2, <2>3, <2>4, <2>5, <2>6
  <2>8. OnTheWay(f)' = OnTheWay(f) /\ found'[f] = found[f]
    BY <1>1, CountsStay
  <2> QED
    BY <2>7, <2>8
<1> QED
  BY <1>1, <1>4, HandMoves

LEMMA IoSendsBalance ==
  ASSUME Types, Types', Countable, Countable', Handled, Accounts, NEW i \in IoWorker, IoSends(i)
  PROVE  Accounts'
<1> USE DEF walkVars, ioVars, endVars
<1>1. /\ UNCHANGED <<root, walking, dirs, senders, walk, jobs, cpu, match, found, missed>>
      /\ io[i].at = "send" /\ scan' = Sent(scan, io[i].job)
      /\ \A j \in IoWorker \ {i} : io'[j] = io[j]
      /\ io'[i].job.file = None
  BY DEF IoSends, IoSet, Types, NoJob
<1>2. io[i].job \in Job /\ scan \in Channel(Job) /\ scan.q \in Seq(Job)
  BY DEF Types, IoState, Channel
<1>3. ASSUME NEW f \in File
      PROVE  /\ InHand(f)' + missed'[f] = InHand(f) + missed[f]
             /\ OnTheWay(f)' + found'[f] = OnTheWay(f) + found[f]
  <2> DEFINE n == IF io[i].job.file = f THEN 1 ELSE 0
  <2>1. Cardinality(AtIo(f)) = Cardinality(AtIo(f)') + n
    <3>1. Cardinality(AtIo(f)') + (IF io[i].job.file = f THEN 1 ELSE 0)
          = Cardinality(AtIo(f)) + (IF io'[i].job.file = f THEN 1 ELSE 0)
      BY <1>1, IoChange
    <3>2. Cardinality(AtIo(f)) \in Nat /\ Cardinality(AtIo(f)') \in Nat
      BY HandPartsOf
    <3>3. io'[i].job.file # f
      BY <1>1, GrepAssumption
    <3> QED
      BY <3>1, <3>2, <3>3
  <2>2. Cardinality(At(scan'.q, JobsOf(f))) = Cardinality(At(scan.q, JobsOf(f))) + n
    <3>1. scan'.q = Append(scan.q, io[i].job)
      BY <1>1, <1>2, SentIs
    <3>2. Cardinality(At(scan'.q, JobsOf(f)))
          = Cardinality(At(scan.q, JobsOf(f))) + IF io[i].job \in JobsOf(f) THEN 1 ELSE 0
      BY <1>2, <3>1, AtAppend
    <3>3. io[i].job \in JobsOf(f) <=> io[i].job.file = f
      BY <1>2 DEF JobsOf
    <3> QED
      BY <3>2, <3>3
  <2>3. n \in Nat
    OBVIOUS
  <2> HIDE DEF n
  <2>4. Cardinality(At(jobs'.q, {f})) = Cardinality(At(jobs.q, {f}))
    BY <1>1
  <2>5. /\ Cardinality(At(jobs.q, {f})) \in Nat
        /\ Cardinality(AtIo(f)') \in Nat /\ Cardinality(At(scan.q, JobsOf(f))) \in Nat
        /\ InHand(f) = Cardinality(At(jobs.q, {f})) + Cardinality(AtIo(f))
                       + Cardinality(At(scan.q, JobsOf(f)))
        /\ InHand(f)' = Cardinality(At(jobs'.q, {f})) + Cardinality(AtIo(f)')
                        + Cardinality(At(scan'.q, JobsOf(f)))
    BY HandPartsOf
  <2>6. InHand(f)' = InHand(f)
    BY ONLY <2>1, <2>2, <2>3, <2>4, <2>5
  <2>7. OnTheWay(f)' = OnTheWay(f) /\ found'[f] = found[f] /\ missed'[f] = missed[f]
    BY <1>1, CountsStay
  <2> QED
    BY <2>6, <2>7
<1> QED
  BY <1>1, <1>3, HandMoves

LEMMA CpuTakesBalance ==
  ASSUME Types, Types', Countable, Countable', Handled, Accounts, NEW c \in CpuWorker, CpuTakes(c)
  PROVE  Accounts'
<1> USE DEF walkVars, ioVars, endVars
<1>0. PICK h \in File : h = Head(scan.q).file
  <2>1. scan.q \in Seq(Job) /\ scan.q # <<>>
    BY DEF CpuTakes, Types, Channel
  <2>2. Head(scan.q) = scan.q[1] /\ 1 \in DOMAIN scan.q
    BY <2>1
  <2> QED
    BY <2>2 DEF Handled
<1>1. /\ UNCHANGED <<root, walking, dirs, senders, walk, jobs, io, match, found>>
      /\ \A b \in CpuWorker \ {c} : cpu'[b] = cpu[b]
      /\ cpu[c].at # "scan"
  BY DEF CpuTakes, CpuSet, Types
<1>2. ASSUME NEW f \in File
      PROVE  InHand(f) = InHand(f)' + IF f = h THEN 1 ELSE 0
  <2> DEFINE n == IF f = h THEN 1 ELSE 0
  <2>1. Cardinality(At(scan.q, JobsOf(f))) = Cardinality(At(scan'.q, JobsOf(f))) + n
    <3>1. scan.q \in Seq(Job) /\ scan.q # <<>> /\ scan'.q = Tail(scan.q) /\ Head(scan.q) \in Job
      BY ReceivedIs DEF CpuTakes, Types, Channel
    <3>2. Head(scan.q) \in JobsOf(f) <=> f = h
      BY <1>0, <3>1 DEF JobsOf
    <3> QED
      BY <3>1, <3>2, AtTail
  <2>2. Cardinality(AtIo(f)') = Cardinality(AtIo(f))
        /\ Cardinality(At(jobs'.q, {f})) = Cardinality(At(jobs.q, {f}))
    BY <1>1, CountsStay
  <2>3. n \in Nat
    OBVIOUS
  <2> HIDE DEF n
  <2>4. /\ Cardinality(At(jobs.q, {f})) \in Nat
        /\ Cardinality(AtIo(f)') \in Nat /\ Cardinality(At(scan'.q, JobsOf(f))) \in Nat
        /\ InHand(f) = Cardinality(At(jobs.q, {f})) + Cardinality(AtIo(f))
                       + Cardinality(At(scan.q, JobsOf(f)))
        /\ InHand(f)' = Cardinality(At(jobs'.q, {f})) + Cardinality(AtIo(f)')
                        + Cardinality(At(scan'.q, JobsOf(f)))
    BY HandPartsOf
  <2>5. InHand(f) = InHand(f)' + n
    BY ONLY <2>1, <2>2, <2>3, <2>4
  <2> QED
    BY <2>5 DEF n
<1>3. CASE Succeed /\ CpuSet(c, "scan", Head(scan.q), 0)
  <2>1. ASSUME NEW f \in File
        PROVE  \/ /\ InHand(f)' + missed'[f] = InHand(f) + missed[f]
                  /\ OnTheWay(f)' + found'[f] = OnTheWay(f) + found[f]
               \/ /\ InHand(f)' + missed'[f] + 1 = InHand(f) + missed[f]
                  /\ OnTheWay(f)' + found'[f] = OnTheWay(f) + found[f] + Lines[f]
    <3>1. LinesLeft(f)[c] = {}
      BY <1>1 DEF LinesLeft
    <3>2. LinesLeft(f)'[c] = IF f = h THEN 1 .. Lines[f] ELSE {}
      <4>1. cpu'[c].at = "scan" /\ cpu'[c].job.file = h /\ cpu'[c].lines = 0
        BY <1>0, <1>3 DEF CpuSet, Types
      <4> QED
        BY <4>1 DEF LinesLeft
    <3>3. Cardinality({}) = 0 /\ Cardinality(1 .. Lines[f]) = Lines[f] /\ Lines[f] \in Nat
      <4>1. Lines[f] \in Nat
        BY GrepAssumption
      <4> QED
        BY <4>1, FS_EmptySet, FS_Interval
    <3>4. Cardinality(Pairs(LinesLeft(f)')) = Cardinality(Pairs(LinesLeft(f))) + IF f = h THEN Lines[f] ELSE 0
      <4>1. /\ Cardinality(Pairs(LinesLeft(f)')) + Cardinality(LinesLeft(f)[c])
               = Cardinality(Pairs(LinesLeft(f))) + Cardinality(LinesLeft(f)'[c])
            /\ Cardinality(Pairs(LinesLeft(f))) \in Nat /\ Cardinality(Pairs(LinesLeft(f)')) \in Nat
        BY <1>1, CpuChange
      <4>2. Cardinality(LinesLeft(f)'[c]) = IF f = h THEN Lines[f] ELSE 0
        BY <3>2, <3>3
      <4> QED
        BY <3>1, <3>3, <4>1, <4>2
    <3>5. OnTheWay(f)' = OnTheWay(f) + IF f = h THEN Lines[f] ELSE 0
      <4>1. Cardinality(At(match'.q, {f})) = Cardinality(At(match.q, {f}))
        BY <1>1
      <4>2. Cardinality(At(match.q, {f})) \in Nat /\ Cardinality(Pairs(LinesLeft(f))) \in Nat
        BY DEF Countable
      <4>3. /\ OnTheWay(f) = Cardinality(Pairs(LinesLeft(f))) + Cardinality(At(match.q, {f}))
            /\ OnTheWay(f)' = Cardinality(Pairs(LinesLeft(f)')) + Cardinality(At(match'.q, {f}))
        BY DEF OnTheWay
      <4> QED
        BY ONLY <3>3, <3>4, <4>1, <4>2, <4>3
    <3>6. /\ InHand(f)' \in Nat /\ missed[f] \in Nat /\ OnTheWay(f) \in Nat /\ found[f] \in Nat
          /\ missed'[f] = missed[f] /\ found'[f] = found[f]
      BY <1>1, <1>3, CountsOf DEF Succeed
    <3>7. InHand(f) = InHand(f)' + IF f = h THEN 1 ELSE 0
      BY <1>2
    <3> QED
      BY ONLY <3>3, <3>5, <3>6, <3>7
  <2> QED
    BY <1>1, <2>1, HandMoves
<1>4. CASE Lose({Head(scan.q).file}) /\ UNCHANGED cpu
  <2>1. ASSUME NEW f \in File
        PROVE  /\ InHand(f)' + missed'[f] = InHand(f) + missed[f]
               /\ OnTheWay(f)' + found'[f] = OnTheWay(f) + found[f]
    <3>1. missed'[f] = missed[f] + IF f = h THEN 1 ELSE 0
      <4>1. Lose({h})
        BY <1>0, <1>4 DEF Lose
      <4> QED
        BY <4>1, MissedIs
    <3>2. InHand(f) = InHand(f)' + IF f = h THEN 1 ELSE 0
      BY <1>2
    <3>3. InHand(f)' \in Nat /\ missed[f] \in Nat
      BY CountsOf
    <3>4. OnTheWay(f)' = OnTheWay(f) /\ found'[f] = found[f]
      BY <1>1, <1>4, CountsStay
    <3>5. InHand(f)' + missed'[f] = InHand(f) + missed[f]
      BY ONLY <3>1, <3>2, <3>3
    <3> QED
      BY <3>4, <3>5
  <2> QED
    BY <1>1, <2>1, HandMoves
<1> QED
  BY <1>3, <1>4 DEF CpuTakes

LEMMA CpuReportsBalance ==
  ASSUME Types, Types', Countable, Countable', Handled, Accounts, NEW c \in CpuWorker, CpuReports(c)
  PROVE  Accounts'
<1> USE DEF walkVars, ioVars, endVars
<1>0. PICK h \in File : h = cpu[c].job.file
  BY DEF CpuReports, Handled
<1>1. /\ UNCHANGED <<root, walking, dirs, senders, walk, jobs, io, scan, found, missed>>
      /\ \A b \in CpuWorker \ {c} : cpu'[b] = cpu[b]
      /\ cpu[c].at = "scan" /\ cpu[c].lines < Lines[h] /\ cpu[c].lines \in Nat
      /\ cpu'[c].at = "scan" /\ cpu'[c].job = cpu[c].job /\ cpu'[c].lines = cpu[c].lines + 1
      /\ match' = Sent(match, h)
  BY <1>0 DEF CpuReports, Types, CpuState
<1>2. ASSUME NEW f \in File
      PROVE  /\ InHand(f)' + missed'[f] = InHand(f) + missed[f]
             /\ OnTheWay(f)' + found'[f] = OnTheWay(f) + found[f]
  <2> DEFINE n == IF f = h THEN 1 ELSE 0
  <2>1. Cardinality(At(match'.q, {f})) = Cardinality(At(match.q, {f})) + n
    <3>1. match \in Channel(File \cup {None}) /\ match.q \in Seq(File \cup {None})
      BY DEF Types, Channel
    <3>2. match'.q = Append(match.q, h)
      BY <1>1, <3>1, SentIs
    <3>3. h \in {f} <=> f = h
      OBVIOUS
    <3>4. Cardinality(At(match'.q, {f})) = Cardinality(At(match.q, {f})) + IF h \in {f} THEN 1 ELSE 0
      BY <3>1, <3>2, AtAppend
    <3> QED
      BY <3>3, <3>4
  <2>2. Cardinality(LinesLeft(f)[c]) = Cardinality(LinesLeft(f)'[c]) + n
        /\ Cardinality(LinesLeft(f)'[c]) \in Nat
    <3>1. CASE f = h
      <4>1. /\ LinesLeft(f)[c] = (cpu[c].lines + 1) .. Lines[f]
            /\ LinesLeft(f)'[c] = (cpu[c].lines + 1 + 1) .. Lines[f]
        BY <1>0, <1>1, <3>1 DEF LinesLeft
      <4>2. Lines[f] \in Nat
        BY GrepAssumption
      <4>3. /\ Cardinality((cpu[c].lines + 1) .. Lines[f]) = Lines[f] - cpu[c].lines
            /\ Cardinality((cpu[c].lines + 1 + 1) .. Lines[f]) = Lines[f] - cpu[c].lines - 1
        <5>1. PICK k : k = cpu[c].lines
          OBVIOUS
        <5>2. PICK l : l = Lines[f]
          OBVIOUS
        <5>3. k \in Nat /\ l \in Nat /\ k < l
          BY <1>1, <3>1, <4>2, <5>1, <5>2
        <5>4. k + 1 \in Int /\ k + 1 + 1 \in Int /\ k + 1 <= l /\ ~ (k + 1 > l)
          BY ONLY <5>3
        <5>5. Cardinality((k + 1) .. l) = l - (k + 1) + 1
          BY ONLY <5>3, <5>4, FS_Interval
        <5>6. Cardinality((k + 1 + 1) .. l) = IF k + 1 + 1 > l THEN 0 ELSE l - (k + 1 + 1) + 1
          BY ONLY <5>3, <5>4, FS_Interval
        <5>7. Cardinality((k + 1) .. l) = l - k /\ Cardinality((k + 1 + 1) .. l) = l - k - 1
          BY ONLY <5>3, <5>4, <5>5, <5>6
        <5> QED
          BY ONLY <5>1, <5>2, <5>7
      <4> QED
        BY <1>1, <3>1, <4>1, <4>2, <4>3
    <3>2. CASE f # h
      <4>1. LinesLeft(f)[c] = {} /\ LinesLeft(f)'[c] = {}
        BY <1>0, <1>1, <3>2 DEF LinesLeft
      <4> QED
        BY <3>2, <4>1, FS_EmptySet
    <3> QED
      BY <3>1, <3>2
  <2>3. /\ Cardinality(Pairs(LinesLeft(f)')) + Cardinality(LinesLeft(f)[c])
           = Cardinality(Pairs(LinesLeft(f))) + Cardinality(LinesLeft(f)'[c])
        /\ Cardinality(Pairs(LinesLeft(f))) \in Nat /\ Cardinality(Pairs(LinesLeft(f)')) \in Nat
    BY <1>1, CpuChange
  <2>4. n \in Nat /\ Cardinality(At(match.q, {f})) \in Nat
    BY DEF Countable
  <2>5. /\ OnTheWay(f) = Cardinality(Pairs(LinesLeft(f))) + Cardinality(At(match.q, {f}))
        /\ OnTheWay(f)' = Cardinality(Pairs(LinesLeft(f)')) + Cardinality(At(match'.q, {f}))
    BY DEF OnTheWay
  <2> HIDE DEF n
  <2>6. OnTheWay(f)' = OnTheWay(f)
    BY ONLY <2>1, <2>2, <2>3, <2>4, <2>5
  <2>7. InHand(f)' = InHand(f) /\ missed'[f] = missed[f] /\ found'[f] = found[f]
    BY <1>1, CountsStay
  <2> QED
    BY <2>6, <2>7
<1> QED
  BY <1>1, <1>2, HandMoves

\* A CPU worker that has reported the last line, or that ends.
LEMMA CpuDoneBalance ==
  ASSUME Types, Types', Countable, Countable', Handled, Accounts, NEW c \in CpuWorker,
         CpuScanned(c) \/ CpuEnds(c)
  PROVE  Accounts'
<1> USE DEF walkVars, ioVars, endVars
<1>1. /\ UNCHANGED <<root, walking, dirs, senders, walk, jobs, io, scan, match, found, missed>>
      /\ \A b \in CpuWorker \ {c} : cpu'[b] = cpu[b]
      /\ cpu'[c].at # "scan"
      /\ cpu[c].at = "scan" => cpu[c].lines = Lines[cpu[c].job.file]
  BY DEF CpuScanned, CpuEnds, CpuSet, Types
<1>2. ASSUME NEW f \in File
      PROVE  /\ InHand(f)' + missed'[f] = InHand(f) + missed[f]
             /\ OnTheWay(f)' + found'[f] = OnTheWay(f) + found[f]
  <2>1. LinesLeft(f)[c] = {} /\ LinesLeft(f)'[c] = {}
    <3>1. Lines[f] \in Nat
      BY GrepAssumption
    <3>2. (Lines[f] + 1) .. Lines[f] = {}
      BY <3>1
    <3> QED
      BY <1>1, <3>2 DEF LinesLeft
  <2>2. /\ Cardinality(Pairs(LinesLeft(f)')) + Cardinality(LinesLeft(f)[c])
           = Cardinality(Pairs(LinesLeft(f))) + Cardinality(LinesLeft(f)'[c])
        /\ Cardinality(Pairs(LinesLeft(f))) \in Nat /\ Cardinality(Pairs(LinesLeft(f)')) \in Nat
    BY <1>1, CpuChange
  <2>3. Cardinality({}) = 0
    BY FS_EmptySet
  <2>4. Cardinality(Pairs(LinesLeft(f)')) = Cardinality(Pairs(LinesLeft(f)))
    BY <2>1, <2>2, <2>3
  <2>5. /\ OnTheWay(f) = Cardinality(Pairs(LinesLeft(f))) + Cardinality(At(match.q, {f}))
        /\ OnTheWay(f)' = Cardinality(Pairs(LinesLeft(f)')) + Cardinality(At(match'.q, {f}))
    BY DEF OnTheWay
  <2>6. OnTheWay(f)' = OnTheWay(f) /\ InHand(f)' = InHand(f) /\ missed'[f] = missed[f]
        /\ found'[f] = found[f]
    BY <1>1, <2>4, <2>5, CountsStay
  <2> QED
    BY <2>6
<1> QED
  BY <1>1, <1>2, HandMoves

LEMMA CollectBalance ==
  ASSUME Types, Types', Countable, Countable', Handled, Accounts, Collect
  PROVE  Accounts'
<1> USE DEF walkVars, ioVars, endVars
<1>0. match.q \in Seq(File) /\ match.q # <<>> /\ match'.q = Tail(match.q)
  BY ReceivedIs DEF Collect, Types, Handled
<1>1. PICK h \in File : h = Head(match.q)
  BY <1>0
<1>2. ASSUME NEW f \in File
      PROVE  /\ InHand(f)' + missed'[f] = InHand(f) + missed[f]
             /\ OnTheWay(f)' + found'[f] = OnTheWay(f) + found[f]
  <2> DEFINE n == IF f = h THEN 1 ELSE 0
  <2>1. Cardinality(At(match.q, {f})) = Cardinality(At(match'.q, {f})) + n
    <3>1. h \in {f} <=> f = h
      OBVIOUS
    <3> QED
      BY <1>0, <1>1, <3>1, AtTail
  <2>2. LinesLeft(f)' = LinesLeft(f)
    BY CountsStay DEF Collect
  <2>3. found'[f] = found[f] + n /\ found[f] \in Nat
    BY <1>1 DEF Collect, Types
  <2>4. /\ Cardinality(At(match'.q, {f})) \in Nat /\ Cardinality(Pairs(LinesLeft(f))) \in Nat
    <3>1. Cardinality(Pairs(LinesLeft(f))) \in Nat
      BY DEF Countable
    <3>2. Cardinality(At(match'.q, {f})) \in Nat
      BY DEF Countable
    <3> QED
      BY <3>1, <3>2
  <2>5. /\ OnTheWay(f) = Cardinality(Pairs(LinesLeft(f))) + Cardinality(At(match.q, {f}))
        /\ OnTheWay(f)' = Cardinality(Pairs(LinesLeft(f)')) + Cardinality(At(match'.q, {f}))
    BY DEF OnTheWay
  <2>6. n \in Nat
    OBVIOUS
  <2> HIDE DEF n
  <2>7. OnTheWay(f)' + found'[f] = OnTheWay(f) + found[f]
    BY ONLY <2>1, <2>2, <2>3, <2>4, <2>5, <2>6
  <2>8. InHand(f)' = InHand(f) /\ missed'[f] = missed[f]
    BY CountsStay DEF Collect
  <2> QED
    BY <2>7, <2>8
<1>3. UNCHANGED <<root, walking, dirs, senders, walk>>
  BY DEF Collect
<1> QED
  BY <1>2, <1>3, HandMoves

\* Closing a channel, going on, and standing still.
LEMMA RestBalance ==
  ASSUME Types, Types', Countable, Countable', Accounts,
         \/ CloseJobs \/ CloseScan \/ SearchReturns \/ CollectorEnds \/ CallerGoesOn \/ PoolDrops
         \/ UNCHANGED vars
  PROVE  Accounts'
<1> USE DEF walkVars, ioVars, endVars
<1>1. /\ UNCHANGED <<root, walking, dirs, senders, walk, io, cpu, found, missed>>
      /\ jobs'.q = jobs.q /\ scan'.q = scan.q /\ match'.q = match.q
  BY ClosedIs DEF CloseJobs, CloseScan, SearchReturns, CollectorEnds, CallerGoesOn, PoolDrops, vars, Types
<1>2. ASSUME NEW f \in File
      PROVE  /\ InHand(f)' + missed'[f] = InHand(f) + missed[f]
             /\ OnTheWay(f)' + found'[f] = OnTheWay(f) + found[f]
  <2>1. AtIo(f)' = AtIo(f) /\ LinesLeft(f)' = LinesLeft(f)
    BY <1>1, CountsStay
  <2>2. InHand(f)' = InHand(f) /\ OnTheWay(f)' = OnTheWay(f)
    BY <1>1, <2>1 DEF InHand, OnTheWay
  <2> QED
    BY <1>1, <2>2
<1> QED
  BY <1>1, <1>2, HandMoves

(***************************************************************************)
(* The accounts are balanced at the start and stay so.                     *)
(***************************************************************************)
LEMMA AccountsInit == Init => Accounts
<1> SUFFICES ASSUME Init PROVE Accounts
  OBVIOUS
<1>1. /\ root = 1 /\ walking = FALSE /\ senders = {} /\ dirs.q = <<>> /\ jobs.q = <<>>
      /\ scan.q = <<>> /\ match.q = <<>>
      /\ \A w \in Walker : walk[w] = NoEntry
      /\ \A i \in IoWorker : io[i].job.file = None
      /\ \A c \in CpuWorker : cpu[c].at # "scan"
      /\ \A f \in File : found[f] = 0 /\ missed[f] = 0
  BY DEF Init, NewChannel, NoJob
<1>2. \A T : At(<<>>, T) = {}
  BY DEF At
<1>3. Cardinality({}) = 0
  BY FS_EmptySet
<1>4. ASSUME NEW x PROVE InWalk(x) = 0
  <2>1. AtWalkers(x) = {}
    BY <1>1, <1>2 DEF AtWalkers, Pairs, NoEntry
  <2>2. senders \cap Above(x) = {} /\ At(dirs.q, Above(x)) = {}
    BY <1>1, <1>2
  <2>3. InWalk(x) = Cardinality({}) + Cardinality({}) + Cardinality({})
    BY <2>1, <2>2 DEF InWalk
  <2> QED
    BY <1>3, <2>3
<1>5. ASSUME NEW f \in File PROVE InHand(f) = 0 /\ OnTheWay(f) = 0
  <2>1. AtIo(f) = {} /\ Pairs(LinesLeft(f)) = {}
    BY <1>1, GrepAssumption DEF AtIo, Pairs, LinesLeft
  <2>2. At(jobs.q, {f}) = {} /\ At(scan.q, JobsOf(f)) = {} /\ At(match.q, {f}) = {}
    BY <1>1, <1>2
  <2>3. /\ InHand(f) = Cardinality({}) + Cardinality({}) + Cardinality({})
        /\ OnTheWay(f) = Cardinality({}) + Cardinality({})
    BY <2>1, <2>2 DEF InHand, OnTheWay
  <2> QED
    BY <1>3, <2>3
<1>6. ASSUME NEW f \in File PROVE Cardinality(AtRoots(f)) = Visits[f] /\ Visits[f] \in Nat
  <2>1. AtRoots(f) = From(1, Above(f))
    BY <1>1 DEF AtRoots
  <2>2. From(1, Above(f)) = {k \in DOMAIN Roots : f \in Reached(Roots[k])}
    <3>1. DOMAIN Roots = 1 .. Len(Roots) /\ Len(Roots) \in Nat
          /\ \A k \in DOMAIN Roots : Roots[k] \in Dir \cup File
      BY GrepAssumption
    <3>2. \A k \in DOMAIN Roots : k >= 1 /\ (Roots[k] \in Above(f) <=> f \in Reached(Roots[k]))
      BY <3>1, AboveIs
    <3> QED
      BY <3>2 DEF From
  <2> QED
    BY <2>1, <2>2, FromIs DEF Visits
<1>7. ASSUME NEW f \in File
      PROVE  \E begun \in Nat : /\ Coming(f) + missed[f] + begun = Visits[f]
                                /\ OnTheWay(f) + found[f] = Lines[f] * begun
  <2>1. Coming(f) = Visits[f] /\ Lines[f] \in Nat
    BY <1>4, <1>5, <1>6, GrepAssumption DEF Coming
  <2>2. /\ Coming(f) + missed[f] + 0 = Visits[f]
        /\ OnTheWay(f) + found[f] = Lines[f] * 0
    BY <1>1, <1>5, <1>6, <2>1
  <2> QED
    BY <2>2
<1> QED
  BY <1>4, <1>7 DEF Accounts

LEMMA HandledInit == Init => Handled /\ Ended
<1> SUFFICES ASSUME Init PROVE Handled /\ Ended
  OBVIOUS
<1>1. Handled
  <2>1. /\ \A i \in IoWorker : io[i].at = "idle" /\ io[i].job = NoJob
        /\ \A c \in CpuWorker : cpu[c].at = "idle"
        /\ scan.q = <<>> /\ match.q = <<>>
    BY DEF Init, NewChannel
  <2>2. <<>> \in Seq(File) /\ DOMAIN <<>> = {}
    OBVIOUS
  <2> QED
    BY <2>1, <2>2 DEF Handled
<1> QED
  BY <1>1 DEF Init, Ended

LEMMA AccountsStep ==
  ASSUME Types, WalkCounts, Handled, Accounts, [Next]_vars
  PROVE  Accounts'
<1>1. Types' /\ WalkCounts'
  BY TypesStep, WalkCountsStep
<1>2. Countable /\ Countable'
  <2>1. IsFiniteSet(senders)
    BY DEF WalkCounts
  <2>2. IsFiniteSet(senders)'
    BY <1>1 DEF WalkCounts
  <2> QED
    BY <1>1, <2>1, <2>2, CountsAre, CountsAreNext
<1>3. CASE RootFile \/ RootDir \/ WalkEnds
  BY <1>1, <1>2, <1>3, RootFileBalance, RootDirBalance, WalkEndsBalance
<1>4. ASSUME NEW w \in Walker, WalkerStep(w) PROVE Accounts'
  <2>1. CASE WalkerTakes(w)
    BY <1>1, <1>2, <2>1, WalkerTakesBalance
  <2>2. CASE WalkerMeetsDir(w)
    BY <1>1, <1>2, <2>2, WalkerMeetsDirBalance
  <2>3. CASE WalkerSkips(w)
    BY <1>1, <1>2, <2>3, WalkerSkipsBalance
  <2>4. CASE WalkerMeetsFile(w)
    BY <1>1, <1>2, <2>4, WalkerMeetsFileBalance
  <2>5. CASE WalkerDone(w)
    BY <1>1, <1>2, <2>5, WalkerDoneBalance
  <2> QED
    BY <1>4, <2>1, <2>2, <2>3, <2>4, <2>5 DEF WalkerStep
<1>5. ASSUME NEW d \in Dir, DirSent(d) PROVE Accounts'
  BY <1>1, <1>2, <1>5, DirSentBalance
<1>6. ASSUME NEW i \in IoWorker, IoStep(i) PROVE Accounts'
  <2>1. CASE IoTakes(i)
    BY <1>1, <1>2, <2>1, IoTakesBalance
  <2>2. CASE IoOpens(i) \/ IoReads(i) \/ IoEnds(i)
    BY <1>1, <1>2, <2>2, IoWorksBalance
  <2>3. CASE IoSends(i)
    BY <1>1, <1>2, <2>3, IoSendsBalance
  <2> QED
    BY <1>6, <2>1, <2>2, <2>3 DEF IoStep
<1>7. ASSUME NEW c \in CpuWorker, CpuStep(c) PROVE Accounts'
  <2>1. CASE CpuTakes(c)
    BY <1>1, <1>2, <2>1, CpuTakesBalance
  <2>2. CASE CpuReports(c)
    BY <1>1, <1>2, <2>2, CpuReportsBalance
  <2>3. CASE CpuScanned(c) \/ CpuEnds(c)
    BY <1>1, <1>2, <2>3, CpuDoneBalance
  <2> QED
    BY <1>7, <2>1, <2>2, <2>3 DEF CpuStep
<1>8. CASE Collect
  BY <1>1, <1>2, <1>8, CollectBalance
<1>9. CASE CloseJobs \/ CloseScan \/ SearchReturns \/ CollectorEnds \/ CallerGoesOn \/ PoolDrops \/ UNCHANGED vars
  BY <1>1, <1>2, <1>9, RestBalance
<1> QED
  BY <1>3, <1>4, <1>5, <1>6, <1>7, <1>8, <1>9 DEF Next

LEMMA HandledStep == Types /\ Handled /\ [Next]_vars => Handled'
<1> SUFFICES ASSUME Types, Handled, [Next]_vars PROVE Handled'
  OBVIOUS
<1> USE DEF walkVars, ioVars, endVars
<1>0. /\ NoJob.file = None /\ None \notin File
      /\ \A f \in File : Lines[f] \in Nat
  BY GrepAssumption DEF NoJob
<1>1. ASSUME UNCHANGED <<io, cpu>>, scan'.q = scan.q, match'.q = match.q
      PROVE  Handled'
  BY <1>1 DEF Handled
<1>2. ASSUME NEW i \in IoWorker, IoStep(i) PROVE Handled'
  <2>1. UNCHANGED <<cpu, match>>
    BY <1>2 DEF IoStep, IoTakes, IoOpens, IoReads, IoSends, IoEnds
  <2>2. UNCHANGED io \/ \E at, job : /\ IoSet(i, at, job)
                                     /\ IF at \in {"idle", "end"} THEN job = NoJob ELSE job.file \in File
    <3>1. CASE IoTakes(i)
      <4>1. Head(jobs.q) \in File
        BY <3>1, ReceivedIs DEF IoTakes, Types
      <4>2. /\ [NoJob EXCEPT !.file = Head(jobs.q)].file \in File
            /\ [NoJob EXCEPT !.file = Head(jobs.q), !.stream = TRUE].file \in File
        BY <4>1 DEF NoJob
      <4> QED
        BY <3>1, <4>2 DEF IoTakes
    <3>2. CASE IoOpens(i)
      <4>1. io[i].job.file \in File /\ io[i].job \in Job
        BY <3>2 DEF IoOpens, Handled, Types, IoState
      <4>2. \A b : [io[i].job EXCEPT !.buf = b].file \in File
        BY <4>1 DEF Job
      <4> QED
        BY <3>2, <4>2 DEF IoOpens
    <3>3. CASE IoReads(i)
      <4>1. io[i].job.file \in File
        BY <3>3 DEF IoReads, Handled
      <4> QED
        BY <3>3, <4>1 DEF IoReads
    <3>4. CASE IoSends(i) \/ IoEnds(i)
      BY <3>4 DEF IoSends, IoEnds
    <3> QED
      BY <1>2, <3>1, <3>2, <3>3, <3>4 DEF IoStep
  <2>3. \A j \in IoWorker : IF io'[j].at \in {"idle", "end"} THEN io'[j].job = NoJob ELSE io'[j].job.file \in File
    <3> TAKE j \in IoWorker
    <3>1. CASE UNCHANGED io
      BY <3>1 DEF Handled
    <3>2. ASSUME NEW at, NEW job, IoSet(i, at, job), IF at \in {"idle", "end"} THEN job = NoJob ELSE job.file \in File
          PROVE  IF io'[j].at \in {"idle", "end"} THEN io'[j].job = NoJob ELSE io'[j].job.file \in File
      <4>1. io'[j] = IF j = i THEN [at |-> at, job |-> job] ELSE io[j]
        BY <3>2 DEF IoSet, Types
      <4>2. CASE j = i
        BY <3>2, <4>1, <4>2
      <4>3. CASE j # i
        BY <4>1, <4>3 DEF Handled
      <4> QED
        BY <4>2, <4>3
    <3> QED
      BY <2>2, <3>1, <3>2
  <2>4. scan' = scan \/ (IoSends(i) /\ scan' = Sent(scan, io[i].job))
    BY <1>2 DEF IoStep, IoTakes, IoOpens, IoReads, IoSends, IoEnds
  <2>5. \A k \in DOMAIN scan'.q : scan'.q[k].file \in File
    <3>1. CASE IoSends(i) /\ scan' = Sent(scan, io[i].job)
      <4>1. io[i].job \in Job /\ scan \in Channel(Job) /\ scan.q \in Seq(Job)
        BY DEF Types, IoState, Channel
      <4>2. scan'.q = Append(scan.q, io[i].job)
        BY <3>1, <4>1, SentIs
      <4>3. io[i].job.file \in File
        BY <3>1 DEF IoSends, Handled
      <4>4. \A k \in DOMAIN scan.q : scan.q[k].file \in File
        BY DEF Handled
      <4>5. \A k \in DOMAIN scan'.q : scan'.q[k] = IF k = Len(scan.q) + 1 THEN io[i].job ELSE scan.q[k]
        BY <4>1, <4>2
      <4>6. \A k \in DOMAIN scan'.q : k # Len(scan.q) + 1 => k \in DOMAIN scan.q
        BY <4>1, <4>2
      <4> QED
        BY <4>3, <4>4, <4>5, <4>6
    <3> QED
      BY <2>4, <3>1 DEF Handled
  <2> QED
    BY <2>1, <2>3, <2>5 DEF Handled
<1>3. ASSUME NEW c \in CpuWorker, CpuTakes(c) PROVE Handled'
  <2>1. scan.q # <<>> /\ scan \in Channel(Job) /\ scan.q \in Seq(Job) /\ scan' = Received(scan)
        /\ UNCHANGED <<io, match>>
    BY <1>3 DEF CpuTakes, Types, Channel
  <2>2. scan'.q = Tail(scan.q)
    BY <2>1, ReceivedIs
  <2>3. Head(scan.q) = scan.q[1] /\ 1 \in DOMAIN scan.q
        /\ \A k \in DOMAIN scan'.q : k + 1 \in DOMAIN scan.q /\ scan'.q[k] = scan.q[k + 1]
    BY <2>1, <2>2
  <2>4. \A k \in DOMAIN scan'.q : scan'.q[k].file \in File
    BY <2>3 DEF Handled
  <2>5. PICK h \in File : Head(scan.q).file = h
    BY <2>3 DEF Handled
  <2>6. \A b \in CpuWorker : \/ cpu'[b] = cpu[b]
                             \/ cpu'[b].job.file = h /\ cpu'[b].lines = 0
    BY <1>3, <2>5 DEF CpuTakes, CpuSet, Types
  <2>7. \A b \in CpuWorker : cpu'[b].at = "scan" =>
           cpu'[b].job.file \in File /\ cpu'[b].lines <= Lines[cpu'[b].job.file]
    BY <1>0, <2>6 DEF Handled
  <2> QED
    BY <2>1, <2>4, <2>7 DEF Handled
<1>4. ASSUME NEW c \in CpuWorker, CpuReports(c) PROVE Handled'
  <2>1. PICK h \in File : cpu[c].job.file = h
    BY <1>4 DEF CpuReports, Handled
  <2>2. /\ UNCHANGED <<io, scan>> /\ cpu[c].lines < Lines[h] /\ cpu[c].lines \in Nat
        /\ match' = Sent(match, h)
        /\ \A b \in CpuWorker \ {c} : cpu'[b] = cpu[b]
        /\ cpu'[c].job.file = h /\ cpu'[c].lines = cpu[c].lines + 1
    BY <1>4, <2>1 DEF CpuReports, Types, CpuState
  <2>3. cpu'[c].lines <= Lines[h]
    BY <1>0, <2>2
  <2>4. match \in Channel(File \cup {None}) /\ match.q \in Seq(File)
    BY DEF Types, Handled
  <2>5. match'.q = Append(match.q, h)
    BY <2>2, <2>4, SentIs
  <2>6. match'.q \in Seq(File)
    BY <2>4, <2>5
  <2> QED
    BY <2>2, <2>3, <2>6 DEF Handled
<1>5. ASSUME NEW c \in CpuWorker, CpuScanned(c) \/ CpuEnds(c) PROVE Handled'
  <2>1. /\ UNCHANGED <<io, scan, match>> /\ cpu'[c].at # "scan"
        /\ \A b \in CpuWorker \ {c} : cpu'[b] = cpu[b]
    BY <1>5 DEF CpuScanned, CpuEnds, CpuSet, Types
  <2> QED
    BY <2>1 DEF Handled
<1>6. CASE Collect
  <2>1. match.q \in Seq(File) /\ match.q # <<>> /\ match'.q = Tail(match.q)
    BY <1>6, ReceivedIs DEF Collect, Types, Handled
  <2>2. match'.q \in Seq(File)
    BY <2>1
  <2> QED
    BY <1>6, <2>2 DEF Collect, Handled
<1>7. CASE CloseScan \/ SearchReturns
  <2>1. scan'.q = scan.q /\ match'.q = match.q /\ UNCHANGED <<io, cpu>>
    BY <1>7, ClosedIs DEF CloseScan, SearchReturns, Types
  <2> QED
    BY <1>1, <2>1
<1>8. CASE RootFile \/ RootDir \/ WalkEnds \/ CloseJobs \/ CollectorEnds \/ CallerGoesOn \/ PoolDrops \/ UNCHANGED vars
  BY <1>1, <1>8 DEF RootFile, RootDir, WalkEnds, CloseJobs, CollectorEnds, CallerGoesOn, PoolDrops, vars
<1>9. ASSUME NEW w \in Walker, WalkerStep(w) PROVE Handled'
  BY <1>1, <1>9 DEF WalkerStep, WalkerTakes, WalkerMeetsDir, WalkerSkips, WalkerMeetsFile, WalkerDone
<1>10. ASSUME NEW d \in Dir, DirSent(d) PROVE Handled'
  BY <1>1, <1>10 DEF DirSent
<1> QED
  BY <1>2, <1>3, <1>4, <1>5, <1>6, <1>7, <1>8, <1>9, <1>10 DEF Next, CpuStep

LEMMA EndedStep ==
  ASSUME Types, WalkCounts, JobsOpen, WorkersOpen, Ended, [Next]_vars
  PROVE  Ended'
<1> USE DEF walkVars, ioVars, endVars
\* Sending to a channel that is open, and receiving from one that is not empty, do not
\* drain one that was not drained.
<1>1. ASSUME Drained(jobs), ~ Drained(jobs)' PROVE FALSE
  <2>1. ~ jobs.open /\ jobs.q = <<>> /\ jobs \in Channel(File)
    BY <1>1 DEF Drained, Types
  <2>2. jobs' # jobs
    BY <1>1 DEF Drained
  <2>3. CASE RootFile
    <3>1. root <= Len(Roots)
      BY <2>3 DEF RootFile, TraverserPending
    <3> QED
      BY <2>1, <3>1 DEF JobsOpen
  <2>4. ASSUME NEW w \in Walker, WalkerMeetsFile(w) PROVE FALSE
    <3>1. w \in Busy
      BY <2>4 DEF WalkerMeetsFile, Busy, NoEntry
    <3> QED
      BY <2>1, <3>1 DEF WalkCounts, JobsOpen
  <2>5. ASSUME NEW i \in IoWorker, IoTakes(i) PROVE FALSE
    BY <2>1, <2>5 DEF IoTakes
  <2>6. CASE CloseJobs
    BY <2>1, <2>6 DEF CloseJobs
  <2> QED
    BY <2>2, <2>3, <2>4, <2>5, <2>6
    DEF Next, RootDir, WalkEnds, WalkerStep, WalkerTakes, WalkerMeetsDir, WalkerSkips, WalkerDone, DirSent,
        IoStep, IoOpens, IoReads, IoSends, IoEnds, CpuStep, CpuTakes, CpuReports, CpuScanned, CpuEnds,
        CloseScan, SearchReturns, Collect, CollectorEnds, CallerGoesOn, PoolDrops, vars
<1>2. ASSUME Drained(scan), ~ Drained(scan)' PROVE FALSE
  <2>1. ~ scan.open /\ scan.q = <<>>
    BY <1>2 DEF Drained
  <2>2. scan' # scan
    BY <1>2 DEF Drained
  <2>3. ASSUME NEW i \in IoWorker, IoSends(i) PROVE FALSE
    BY <2>1, <2>3 DEF IoSends, WorkersOpen
  <2>4. ASSUME NEW c \in CpuWorker, CpuTakes(c) PROVE FALSE
    BY <2>1, <2>4 DEF CpuTakes
  <2>5. CASE CloseScan
    BY <2>1, <2>5 DEF CloseScan
  <2> QED
    BY <2>2, <2>3, <2>4, <2>5
    DEF Next, RootFile, RootDir, WalkEnds, CloseJobs, WalkerStep, WalkerTakes, WalkerMeetsDir, WalkerSkips,
        WalkerMeetsFile, WalkerDone, DirSent, IoStep, IoTakes, IoOpens, IoReads, IoEnds, CpuStep,
        CpuReports, CpuScanned, CpuEnds, SearchReturns, Collect, CollectorEnds, CallerGoesOn, PoolDrops, vars
<1>3. ASSUME Drained(match), ~ Drained(match)' PROVE FALSE
  <2>1. ~ match.open /\ match.q = <<>> /\ match \in Channel(File \cup {None})
    BY <1>3 DEF Drained, Types
  <2>2. match' # match
    BY <1>3 DEF Drained
  <2>3. ASSUME NEW c \in CpuWorker, CpuReports(c) PROVE FALSE
    BY <2>1, <2>3 DEF CpuReports, WorkersOpen
  <2>4. CASE Collect
    BY <2>1, <2>4 DEF Collect
  <2>5. CASE SearchReturns
    <3>1. match'.q = match.q /\ ~ match'.open
      BY <2>1, <2>5, ClosedIs DEF SearchReturns
    <3> QED
      BY <1>3, <2>1, <3>1 DEF Drained
  <2> QED
    BY <2>2, <2>3, <2>4, <2>5
    DEF Next, RootFile, RootDir, WalkEnds, CloseJobs, CloseScan, WalkerStep, WalkerTakes, WalkerMeetsDir,
        WalkerSkips, WalkerMeetsFile, WalkerDone, DirSent, IoStep, IoTakes, IoOpens, IoReads, IoSends, IoEnds,
        CpuStep, CpuTakes, CpuScanned, CpuEnds, CollectorEnds, CallerGoesOn, PoolDrops, vars
<1>4. \A i \in IoWorker : io'[i].at = "end" => io[i].at = "end" \/ Drained(jobs)
  <2>1. ASSUME NEW i \in IoWorker, IoStep(i)
        PROVE  \A j \in IoWorker : io'[j].at = "end" => io[j].at = "end" \/ Drained(jobs)
    <3>1. io'[i].at # "end" \/ Drained(jobs) \/ UNCHANGED io
      BY <2>1 DEF IoStep, IoTakes, IoOpens, IoReads, IoSends, IoEnds, IoSet, Types
    <3>2. \A j \in IoWorker \ {i} : io'[j] = io[j]
      BY <2>1 DEF IoStep, IoTakes, IoOpens, IoReads, IoSends, IoEnds, IoSet, Types
    <3> QED
      BY <3>1, <3>2
  <2>2. UNCHANGED io \/ \E i \in IoWorker : IoStep(i)
    BY DEF Next, RootFile, RootDir, WalkEnds, CloseJobs, CloseScan, WalkerStep, WalkerTakes, WalkerMeetsDir,
           WalkerSkips, WalkerMeetsFile, WalkerDone, DirSent, CpuStep, CpuTakes, CpuReports, CpuScanned,
           CpuEnds, SearchReturns, Collect, CollectorEnds, CallerGoesOn, PoolDrops, vars
  <2> QED
    BY <2>1, <2>2
<1>5. \A c \in CpuWorker : cpu'[c].at = "end" => cpu[c].at = "end" \/ Drained(scan)
  <2>1. ASSUME NEW c \in CpuWorker, CpuStep(c)
        PROVE  \A b \in CpuWorker : cpu'[b].at = "end" => cpu[b].at = "end" \/ Drained(scan)
    <3>1. cpu'[c].at # "end" \/ Drained(scan) \/ UNCHANGED cpu
      <4>1. CASE CpuReports(c)
        BY <4>1 DEF CpuReports, Types, CpuState
      <4> QED
        BY <2>1, <4>1 DEF CpuStep, CpuTakes, CpuScanned, CpuEnds, CpuSet, Types
    <3>2. \A b \in CpuWorker \ {c} : cpu'[b] = cpu[b]
      BY <2>1 DEF CpuStep, CpuTakes, CpuReports, CpuScanned, CpuEnds, CpuSet, Types
    <3> QED
      BY <3>1, <3>2
  <2>2. UNCHANGED cpu \/ \E c \in CpuWorker : CpuStep(c)
    BY DEF Next, RootFile, RootDir, WalkEnds, CloseJobs, CloseScan, WalkerStep, WalkerTakes, WalkerMeetsDir,
           WalkerSkips, WalkerMeetsFile, WalkerDone, DirSent, IoStep, IoTakes, IoOpens, IoReads, IoSends,
           IoEnds, SearchReturns, Collect, CollectorEnds, CallerGoesOn, PoolDrops, vars
  <2> QED
    BY <2>1, <2>2
<1>6. /\ collector' = collector \/ Drained(match)
      /\ main' = "query" => ~ collector
      /\ ~ collector => ~ collector'
  <2>1. UNCHANGED <<main, collector>> \/ SearchReturns \/ CollectorEnds \/ CallerGoesOn
    BY DEF Next, RootFile, RootDir, WalkEnds, CloseJobs, CloseScan, WalkerStep, WalkerTakes, WalkerMeetsDir,
           WalkerSkips, WalkerMeetsFile, WalkerDone, DirSent, IoStep, IoTakes, IoOpens, IoReads, IoSends, IoEnds,
           CpuStep, CpuTakes, CpuReports, CpuScanned, CpuEnds, Collect, PoolDrops, vars
  <2> QED
    BY <2>1 DEF SearchReturns, CollectorEnds, CallerGoesOn, Ended
<1> QED
  BY <1>1, <1>2, <1>3, <1>4, <1>5, <1>6 DEF Ended

(***************************************************************************)
(* The search implements FileSearch.                                       *)
(***************************************************************************)
SearchInv == Types /\ WalkCounts /\ JobsOpen /\ WorkersOpen /\ Ended /\ Handled /\ Accounts

LEMMA SearchInvariance == Spec => []SearchInv
<1>1. Init => SearchInv
  BY TypesInit, ClosingInit, HandledInit, AccountsInit DEF SearchInv
<1>2. SearchInv /\ [Next]_vars => SearchInv'
  <2> SUFFICES ASSUME SearchInv, [Next]_vars PROVE SearchInv'
    OBVIOUS
  <2>1. Types /\ WalkCounts /\ JobsOpen /\ WorkersOpen /\ Ended /\ Handled /\ Accounts
    BY DEF SearchInv
  <2>2. Types' /\ WalkCounts' /\ JobsOpen' /\ WorkersOpen'
    BY <2>1, TypesStep, WalkCountsStep, JobsOpenStep, WorkersOpenStep
  <2>3. Ended' /\ Handled' /\ Accounts'
    BY <2>1, EndedStep, HandledStep, AccountsStep
  <2> QED
    BY <2>2, <2>3 DEF SearchInv
<1> QED
  BY <1>1, <1>2, PTL DEF Spec

\* Nothing is left once the collector has ended.
AllDone ==
  /\ root > Len(Roots) /\ ~ walking /\ senders = {} /\ Busy = {}
  /\ dirs.q = <<>> /\ jobs.q = <<>> /\ scan.q = <<>> /\ match.q = <<>>
  /\ \A i \in IoWorker : io[i].at = "end"
  /\ \A c \in CpuWorker : cpu[c].at = "end"

LEMMA EndsAllDone == SearchInv /\ ~ collector => AllDone
<1> SUFFICES ASSUME SearchInv, ~ collector PROVE AllDone
  OBVIOUS
<1>1. match.q = <<>> /\ \A c \in CpuWorker : cpu[c].at = "end"
  BY DEF SearchInv, Ended, Drained, WorkersOpen
<1>2. scan.q = <<>> /\ \A i \in IoWorker : io[i].at = "end"
  BY <1>1, GrepAssumption DEF SearchInv, Ended, Drained, WorkersOpen
<1>3. jobs.q = <<>> /\ ~ jobs.open
  BY <1>2, GrepAssumption DEF SearchInv, Ended, Drained
<1>4. ~ walking /\ root > Len(Roots)
  <2>1. root \in Nat /\ Len(Roots) \in Nat
    BY GrepAssumption DEF SearchInv, Types
  <2> QED
    BY <1>3, <2>1 DEF SearchInv, JobsOpen
<1>5. senders = {} /\ Busy = {} /\ dirs.q = <<>>
  BY <1>4 DEF SearchInv, WalkCounts
<1> QED
  BY <1>1, <1>2, <1>3, <1>4, <1>5 DEF AllDone

LEMMA TimesGrows ==
  ASSUME NEW l \in Nat, NEW m \in Nat, NEW n \in Nat, m <= n
  PROVE  l * m <= l * n /\ l * n \in Nat
<1>1. PICK k \in Nat : n = m + k
  <2>1. n - m \in Nat /\ n = m + (n - m)
    OBVIOUS
  <2> QED
    BY <2>1
<1>2. l * (m + k) = l * m + l * k /\ l * m \in Nat /\ l * k \in Nat
  OBVIOUS
<1> QED
  BY <1>1, <1>2

\* What Accounts says of the lines that are still to come.
LinesToCome ==
  \A f \in File :
    /\ missed[f] <= Visits[f] /\ missed[f] \in Nat /\ Visits[f] \in Nat /\ found[f] \in Nat
    /\ OnTheWay(f) \in Nat
    /\ found[f] + OnTheWay(f) <= Lines[f] * (Visits[f] - missed[f])
    /\ Lines[f] * (Visits[f] - missed[f]) \in Nat
    /\ Coming(f) = 0 => found[f] + OnTheWay(f) = Lines[f] * (Visits[f] - missed[f])

LEMMA LinesToComeHold == SearchInv => LinesToCome
<1> SUFFICES ASSUME SearchInv, NEW f \in File
             PROVE  /\ missed[f] <= Visits[f] /\ missed[f] \in Nat /\ Visits[f] \in Nat
                    /\ found[f] \in Nat /\ OnTheWay(f) \in Nat
                    /\ found[f] + OnTheWay(f) <= Lines[f] * (Visits[f] - missed[f])
                    /\ Lines[f] * (Visits[f] - missed[f]) \in Nat
                    /\ Coming(f) = 0 => found[f] + OnTheWay(f) = Lines[f] * (Visits[f] - missed[f])
  BY DEF LinesToCome
<1>1. Coming(f) \in Nat /\ OnTheWay(f) \in Nat
  <2>1. Countable
    BY CountsAre DEF SearchInv, WalkCounts
  <2> QED
    BY <2>1, SumsAre DEF Summed
<1>2. PICK begun \in Nat : /\ Coming(f) + missed[f] + begun = Visits[f]
                           /\ OnTheWay(f) + found[f] = Lines[f] * begun
  BY DEF SearchInv, Accounts
<1>3. missed[f] \in Nat /\ found[f] \in Nat /\ Lines[f] \in Nat
  BY GrepAssumption DEF SearchInv, Types
<1>4. /\ Visits[f] \in Nat /\ missed[f] <= Visits[f] /\ Visits[f] - missed[f] \in Nat
      /\ begun <= Visits[f] - missed[f]
      /\ Coming(f) = 0 => begun = Visits[f] - missed[f]
  BY ONLY <1>1, <1>2, <1>3
<1>5. Lines[f] * begun <= Lines[f] * (Visits[f] - missed[f])
      /\ Lines[f] * begun \in Nat /\ Lines[f] * (Visits[f] - missed[f]) \in Nat
  BY <1>3, <1>4, TimesGrows
<1>6. OnTheWay(f) + found[f] = found[f] + OnTheWay(f)
  BY ONLY <1>1, <1>3
<1>7. found[f] + OnTheWay(f) <= Lines[f] * (Visits[f] - missed[f])
  BY <1>2, <1>5, <1>6
<1>8. Coming(f) = 0 => found[f] + OnTheWay(f) = Lines[f] * (Visits[f] - missed[f])
  BY <1>2, <1>4, <1>6
<1> QED
  BY <1>1, <1>3, <1>4, <1>5, <1>7, <1>8

LEMMA LinesToComeNext == SearchInv' => LinesToCome'
<1>1. (SearchInv => LinesToCome)'
  BY LinesToComeHold, PTL
<1> QED
  BY <1>1

LEMMA MissStep ==
  ASSUME SearchInv, SearchInv', ~ AllDone, UNCHANGED <<found, main>>, NEW fs, Lose(fs)
  PROVE  Search!Miss
<1>1. main # "query"
  BY EndsAllDone DEF SearchInv, Ended
<1>2. missed' \in [File -> Nat]
  BY DEF SearchInv, Types
<1>3. ASSUME NEW f \in File
      PROVE  missed[f] <= missed'[f] /\ missed'[f] <= Visits[f] /\ found[f] <= Search!Expected(missed')[f]
  <2>1. missed'[f] = missed[f] + IF f \in fs THEN 1 ELSE 0
    BY <1>3 DEF Lose
  <2>2. missed[f] \in Nat
    BY LinesToComeHold DEF LinesToCome
  <2>3. missed[f] <= missed'[f]
    BY <2>1, <2>2
  <2>4. /\ missed'[f] <= Visits[f] /\ OnTheWay(f)' \in Nat /\ found'[f] \in Nat
        /\ found'[f] + OnTheWay(f)' <= Lines[f] * (Visits[f] - missed'[f])
        /\ Lines[f] * (Visits[f] - missed'[f]) \in Nat
    BY LinesToComeNext DEF LinesToCome
  <2>5. found[f] <= Lines[f] * (Visits[f] - missed'[f])
    <3>1. found'[f] = found[f]
      OBVIOUS
    <3> HIDE DEF Visits
    <3> QED
      BY <2>4, <3>1
  <2>6. Search!Expected(missed')[f] = Lines[f] * (Visits[f] - missed'[f])
    BY DEF Search!Expected
  <2> QED
    BY <2>3, <2>4, <2>5, <2>6
<1> QED
  BY <1>1, <1>2, <1>3 DEF Search!Miss

LEMMA ReportStep ==
  ASSUME SearchInv, Collect
  PROVE  \E f \in File : Search!Report(f)
<1>1. match.q \in Seq(File) /\ match.q # <<>> /\ match'.q = Tail(match.q)
  BY ReceivedIs DEF Collect, SearchInv, Types, Handled
<1>2. PICK h \in File : h = Head(match.q)
  BY <1>1
<1>3. main # "query" /\ main' = main
  BY DEF SearchInv, Ended, Collect
<1>4. OnTheWay(h) \in Nat /\ OnTheWay(h) # 0
  <2>1. Countable
    BY CountsAre DEF SearchInv, WalkCounts
  <2>2. Cardinality(At(match.q, {h})) = Cardinality(At(Tail(match.q), {h})) + 1
    <3>1. Cardinality(At(match.q, {h}))
          = Cardinality(At(Tail(match.q), {h})) + IF Head(match.q) \in {h} THEN 1 ELSE 0
      BY <1>1, AtTail
    <3> QED
      BY <1>2, <3>1
  <2>3. Cardinality(At(Tail(match.q), {h})) \in Nat
    <3>1. Tail(match.q) \in Seq(File)
      BY <1>1
    <3> QED
      BY <3>1, AtIs
  <2>4. Cardinality(Pairs(LinesLeft(h))) \in Nat
    BY <2>1 DEF Countable
  <2> QED
    BY <2>2, <2>3, <2>4 DEF OnTheWay
<1>5. found[h] < Search!Expected(missed)[h]
  <2>1. /\ found[h] + OnTheWay(h) <= Lines[h] * (Visits[h] - missed[h])
        /\ Lines[h] * (Visits[h] - missed[h]) \in Nat /\ found[h] \in Nat
    BY LinesToComeHold DEF LinesToCome
  <2>2. Search!Expected(missed)[h] = Lines[h] * (Visits[h] - missed[h])
    BY DEF Search!Expected
  <2> QED
    BY <1>4, <2>1, <2>2
<1>6. found' = [found EXCEPT ![h] = @ + 1] /\ UNCHANGED missed
  BY <1>2 DEF Collect
<1> QED
  BY <1>3, <1>5, <1>6 DEF Search!Report

LEMMA FinishStep ==
  ASSUME SearchInv, CallerGoesOn
  PROVE  Search!Finish
<1>1. main = "wait" /\ main' = "query" /\ ~ collector /\ UNCHANGED <<found, missed>>
  BY DEF CallerGoesOn
<1>2. AllDone
  BY <1>1, EndsAllDone
<1>3. Cardinality({}) = 0 /\ \A T : At(<<>>, T) = {}
  BY FS_EmptySet DEF At
<1>4. ASSUME NEW f \in File PROVE Coming(f) = 0 /\ OnTheWay(f) = 0
  <2>1. AtRoots(f) = {}
    <3>1. DOMAIN Roots = 1 .. Len(Roots) /\ Len(Roots) \in Nat /\ root \in Nat
      BY GrepAssumption DEF SearchInv, Types
    <3> QED
      BY <1>2, <3>1 DEF AllDone, AtRoots, From
  <2>2. senders \cap Above(f) = {} /\ At(dirs.q, Above(f)) = {}
    BY <1>2, <1>3 DEF AllDone
  <2>3. AtWalkers(f) = {}
    <3>1. \A w \in Walker : walk[w].left = <<>>
      BY <1>2 DEF AllDone, Busy, NoEntry
    <3> QED
      BY <1>3, <3>1 DEF AtWalkers, Pairs
  <2>4. At(jobs.q, {f}) = {} /\ At(scan.q, JobsOf(f)) = {} /\ At(match.q, {f}) = {}
    BY <1>2, <1>3 DEF AllDone
  <2>5. AtIo(f) = {}
    <3>1. \A i \in IoWorker : io[i].job.file = None
      BY <1>2 DEF AllDone, SearchInv, Handled, NoJob
    <3> QED
      BY <3>1, GrepAssumption DEF AtIo
  <2>6. Pairs(LinesLeft(f)) = {}
    BY <1>2 DEF AllDone, LinesLeft, Pairs
  <2>7. /\ InWalk(f) = Cardinality({}) + Cardinality({}) + Cardinality({})
        /\ InHand(f) = Cardinality({}) + Cardinality({}) + Cardinality({})
        /\ OnTheWay(f) = Cardinality({}) + Cardinality({})
        /\ Coming(f) = Cardinality({}) + InWalk(f) + InHand(f)
    BY <2>1, <2>2, <2>3, <2>4, <2>5, <2>6 DEF InWalk, InHand, OnTheWay, Coming
  <2> QED
    BY <1>3, <2>7
<1>5. found = Search!Expected(missed)
  <2>1. \A f \in File : found[f] = Lines[f] * (Visits[f] - missed[f])
    <3> TAKE f \in File
    <3>1. /\ Coming(f) = 0 => found[f] + OnTheWay(f) = Lines[f] * (Visits[f] - missed[f])
          /\ found[f] \in Nat
      BY LinesToComeHold DEF LinesToCome
    <3> QED
      BY <1>4, <3>1
  <2>2. found \in [File -> Nat]
    BY DEF SearchInv, Types
  <2> QED
    BY <2>1, <2>2 DEF Search!Expected
<1> QED
  BY <1>1, <1>5 DEF Search!Finish

LEMMA SearchStep ==
  ASSUME SearchInv, SearchInv', [Next]_vars
  PROVE  [Search!Next]_(Search!vars)
<1> USE DEF walkVars, ioVars, endVars
<1>1. CASE Collect
  BY <1>1, ReportStep DEF Search!Next
<1>2. CASE CallerGoesOn
  BY <1>2, FinishStep DEF Search!Next
<1>3. ASSUME UNCHANGED <<found, missed>>, main' = "query" <=> main = "query"
      PROVE  UNCHANGED Search!vars
  BY <1>3 DEF Search!vars
<1>4. ASSUME UNCHANGED <<found, main>>, ~ AllDone, Succeed \/ UNCHANGED missed \/ \E fs : Lose(fs)
      PROVE  [Search!Next]_(Search!vars)
  <2>1. CASE \E fs : Lose(fs)
    BY <1>4, <2>1, MissStep DEF Search!Next
  <2>2. CASE UNCHANGED missed
    BY <1>3, <1>4, <2>2
  <2> QED
    BY <1>4, <2>1, <2>2 DEF Succeed
<1>5. CASE RootFile
  <2>1. ~ AllDone
    <3>1. root \in Nat /\ Len(Roots) \in Nat
      BY GrepAssumption DEF SearchInv, Types
    <3> QED
      BY <1>5, <3>1 DEF RootFile, TraverserPending, AllDone
  <2> QED
    BY <1>4, <1>5, <2>1 DEF RootFile
<1>6. ASSUME NEW w \in Walker, WalkerTakes(w) PROVE [Search!Next]_(Search!vars)
  <2>1. ~ AllDone
    BY <1>6 DEF WalkerTakes, AllDone
  <2> QED
    BY <1>4, <1>6, <2>1 DEF WalkerTakes
<1>7. ASSUME NEW i \in IoWorker, IoTakes(i) \/ IoOpens(i) \/ IoReads(i) PROVE [Search!Next]_(Search!vars)
  <2>1. ~ AllDone
    BY <1>7 DEF IoTakes, IoOpens, IoReads, AllDone
  <2> QED
    BY <1>4, <1>7, <2>1 DEF IoTakes, IoOpens, IoReads
<1>8. ASSUME NEW c \in CpuWorker, CpuTakes(c) PROVE [Search!Next]_(Search!vars)
  <2>1. ~ AllDone
    BY <1>8 DEF CpuTakes, AllDone
  <2> QED
    BY <1>4, <1>8, <2>1 DEF CpuTakes
<1>9. CASE \/ RootDir \/ WalkEnds \/ CloseJobs \/ CloseScan \/ SearchReturns \/ CollectorEnds \/ PoolDrops
          \/ UNCHANGED vars
  BY <1>3, <1>9
  DEF RootDir, WalkEnds, CloseJobs, CloseScan, SearchReturns, CollectorEnds, PoolDrops, vars
<1>10. ASSUME NEW w \in Walker,
              WalkerMeetsDir(w) \/ WalkerSkips(w) \/ WalkerMeetsFile(w) \/ WalkerDone(w)
       PROVE  UNCHANGED Search!vars
  BY <1>3, <1>10 DEF WalkerMeetsDir, WalkerSkips, WalkerMeetsFile, WalkerDone
<1>11. ASSUME NEW d \in Dir, DirSent(d) PROVE UNCHANGED Search!vars
  BY <1>3, <1>11 DEF DirSent
<1>12. ASSUME NEW i \in IoWorker, IoSends(i) \/ IoEnds(i) PROVE UNCHANGED Search!vars
  BY <1>3, <1>12 DEF IoSends, IoEnds
<1>13. ASSUME NEW c \in CpuWorker, CpuReports(c) \/ CpuScanned(c) \/ CpuEnds(c) PROVE UNCHANGED Search!vars
  BY <1>3, <1>13 DEF CpuReports, CpuScanned, CpuEnds
<1> QED
  BY <1>1, <1>2, <1>5, <1>6, <1>7, <1>8, <1>9, <1>10, <1>11, <1>12, <1>13
  DEF Next, WalkerStep, IoStep, CpuStep

\* For any tree, any roots, any number of walkers and workers and any failures: the caller sees
\* every matching line of every file its roots lead to exactly once per root, but for the
\* visits a failed call has lost, and goes on only with all of them (ggrep.Search and
\* searchLexicalSparse).
THEOREM GrepImplementsFileSearch == Spec => ImplementsFileSearch
<1>1. Init => Search!Init
  BY DEF Init, Search!Init
<1>2. SearchInv /\ SearchInv' /\ [Next]_vars => [Search!Next]_(Search!vars)
  BY SearchStep
<1>3. Spec => []SearchInv
  BY SearchInvariance
<1> QED
  BY <1>1, <1>2, <1>3, PTL DEF Spec, ImplementsFileSearch, Search!Spec

=============================================================================
