---------------------------- MODULE Texts_proofs ----------------------------
(***************************************************************************)
(* Proofs about what becomes of texts.  First the pool that has them       *)
(* embedded, EmbedPool, for any number of jobs and slots and any limits on *)
(* retries and time: the counters are the numbers of goroutines they stand *)
(* for, requests give up, and the pool is one step to its caller.  Then    *)
(* the algorithms that go through the lines of a file, for files of any    *)
(* length: the parsers of the call graph, CallGraphParse, the scanners of  *)
(* ggrep, LineScan, and the slicer of the database, LineSlicer, have the   *)
(* properties MCAlgorithms states of a call.                               *)
(***************************************************************************)
EXTENDS EmbedPool, MCAlgorithms, FiniteSetTheorems, SequenceTheorems, TLAPS

-----------------------------------------------------------------------------

(***************************************************************************)
(* The strengthening.                                                      *)
(***************************************************************************)
Count(f, S) == Cardinality({j \in Job : f[j] \in S})
Undone == Running \cup {"released"}
Finished == {"stored", "released", "done"}

\* Each counter is the number of goroutines that have raised it and not lowered it;
\* the WaitGroup is one ahead between Add and the start of the goroutine.
Counts ==
  /\ sem = Count(at, Running)
  /\ wg = Count(at, Undone) + (IF main = "acquire" THEN 1 ELSE 0)
  /\ completed = Count(at, Finished)

\* What the loop has come to is what has been started; it ends after the last job, and
\* Wait returns when everything is done.
Loop ==
  /\ main = "acquire" => next <= Jobs
  /\ main \in {"wait", "returned"} => next = Jobs + 1
  /\ \A j \in Job : at[j] = "new" <=> j >= next
  /\ main = "returned" => \A j \in Job : at[j] = "done"

\* A request that may go on has a try and time left.
Limits ==
  \A j \in Job :
    /\ tries[j] <= MaxRetries + 1 /\ elapsed[j] <= MaxElapsed + Timeout
    /\ at[j] = "request" => tries[j] <= MaxRetries /\ elapsed[j] <= MaxElapsed
    /\ at[j] = "new" => tries[j] = 0 /\ elapsed[j] = 0

Results == [job : Job, ok : BOOLEAN]

\* A goroutine that has stored a result has stored its own.
OwnResults ==
  \A j \in Job : at[j] \in Finished => results[j] = [job |-> j, ok |-> answer[j]]

\* The types that hold without an argument about the counters.
Types ==
  /\ main \in {"add", "acquire", "wait", "returned"}
  /\ next \in 1 .. Jobs + 1 /\ wg \in Int /\ sem \in Int /\ completed \in Int
  /\ sem <= PoolSize
  /\ at \in [Job -> {"new", "released", "done"} \cup Running]
  /\ tries \in [Job -> Nat] /\ elapsed \in [Job -> Nat] /\ answer \in [Job -> BOOLEAN]
  /\ results \in [Job -> Results \cup {Unknown}]

PoolInv == Types /\ Counts /\ Loop /\ Limits /\ OwnResults

-----------------------------------------------------------------------------
(***************************************************************************)
(* Counting goroutines.                                                    *)
(***************************************************************************)
LEMMA JobsFinite == IsFiniteSet(Job) /\ Cardinality(Job) = Jobs
  BY FS_Interval, PoolAssumption DEF PoolAssumption, Job

\* A goroutine that moves from one state to another changes a count by at most one.
Moves(f, g, j, to) == DOMAIN f = Job /\ g = [f EXCEPT ![j] = to]

LEMMA CountMoves ==
  ASSUME NEW f, NEW g, NEW j \in Job, NEW to, Moves(f, g, j, to), NEW S
  PROVE  /\ Count(f, S) \in Nat
         /\ Count(g, S) = Count(f, S) + (IF to \in S THEN 1 ELSE 0)
                            - (IF f[j] \in S THEN 1 ELSE 0)
<1> DEFINE before == {i \in Job : f[i] \in S}
           after  == {i \in Job : g[i] \in S}
<1>1. IsFiniteSet(before) /\ IsFiniteSet(after)
  BY JobsFinite, FS_Subset
<1>2. Cardinality(before) \in Nat /\ Cardinality(after) \in Nat
  BY <1>1, FS_CardinalityType
<1>3. CASE to \in S
  <2>1. after = before \cup {j} /\ (j \in before <=> f[j] \in S)
    BY <1>3 DEF Moves
  <2>2. Count(f, S) = Cardinality(before) /\ Count(g, S) = Cardinality(after)
    BY DEF Count
  <2>3. Cardinality(after) = IF j \in before THEN Cardinality(before) ELSE Cardinality(before) + 1
    <3> HIDE DEF before, after
    <3> QED
      BY ONLY <1>1, <2>1, FS_AddElement
  <2>4. (j \in before) <=> (f[j] \in S)
    BY <2>1
  <2> QED
    BY ONLY <1>2, <1>3, <2>2, <2>3, <2>4
<1>4. CASE to \notin S
  <2>1. after = before \ {j} /\ (j \in before <=> f[j] \in S)
    BY <1>4 DEF Moves
  <2> QED
    BY SMTT(20), <1>1, <1>2, <1>4, <2>1, FS_RemoveElement DEF Count
<1> QED
  BY <1>3, <1>4

LEMMA CountRange == \A f, S : Count(f, S) \in 0 .. Jobs
<1> SUFFICES ASSUME NEW f, NEW S PROVE Count(f, S) \in 0 .. Jobs
  OBVIOUS
<1>1. {j \in Job : f[j] \in S} \in SUBSET Job
  OBVIOUS
<1> QED
  BY <1>1, JobsFinite, FS_Subset, FS_CardinalityType, PoolAssumption DEF Count, PoolAssumption

\* The range of the counters follows from what they count.
LEMMA CountersInRange == Types /\ Counts /\ Loop => EmbedTypeOK /\ PoolBounded
<1> SUFFICES ASSUME Types, Counts, Loop PROVE EmbedTypeOK /\ PoolBounded
  OBVIOUS
<1> USE PoolAssumption DEF PoolAssumption
<1>1. ASSUME NEW S PROVE Count(at, S) \in 0 .. Jobs
  BY CountRange
<1>2. main = "acquire" => Count(at, Undone) <= Jobs - 1
  <2> SUFFICES ASSUME main = "acquire" PROVE Count(at, Undone) <= Jobs - 1
    OBVIOUS
  <2>1. next \in Job /\ at[next] = "new"
    BY DEF Types, Loop, Job
  <2>2. {j \in Job : at[j] \in Undone} \in SUBSET (Job \ {next})
    BY <2>1 DEF Undone, Running
  <2>3. IsFiniteSet(Job \ {next}) /\ Cardinality(Job \ {next}) = Jobs - 1
    BY <2>1, JobsFinite, FS_RemoveElement
  <2> QED
    BY <2>2, <2>3, FS_Subset DEF Count
<1>3. wg \in 0 .. Jobs /\ sem \in 0 .. PoolSize /\ completed \in 0 .. Jobs
  <2>1. sem \in 0 .. Jobs /\ completed \in 0 .. Jobs
    BY <1>1 DEF Counts
  <2>2. wg \in 0 .. Jobs
    BY <1>1, <1>2 DEF Counts
  <2> QED
    BY <2>1, <2>2 DEF Types
<1>4. EmbedTypeOK
  BY <1>3 DEF Types, EmbedTypeOK, Results
<1>5. sem = Cardinality({j \in Job : at[j] \in Running})
  BY DEF Counts, Count
<1> QED
  BY <1>3, <1>4, <1>5 DEF PoolBounded

-----------------------------------------------------------------------------
(***************************************************************************)
(* The invariant.                                                          *)
(***************************************************************************)
LEMMA PoolInit == Init => PoolInv
<1> SUFFICES ASSUME Init PROVE PoolInv
  OBVIOUS
<1> USE PoolAssumption DEF PoolAssumption, Init
<1>1. ASSUME NEW S, "new" \notin S PROVE Count(at, S) = 0
  <2>1. {j \in Job : at[j] \in S} = {}
    BY <1>1
  <2> QED
    BY <2>1, FS_EmptySet DEF Count
<1>2. Types /\ Counts
  BY <1>1 DEF Types, Counts, Running, Undone, Finished
<1>3. Loop /\ Limits /\ OwnResults
  BY DEF Loop, Limits, OwnResults, Finished, Job
<1> QED
  BY <1>2, <1>3 DEF PoolInv

\* A step either moves the main goroutine, or one job from one state to another.
LEMMA CountsStep ==
  ASSUME PoolInv, [Next]_vars
  PROVE  Counts'
<1> USE PoolAssumption DEF PoolAssumption, PoolInv, Types, Counts
<1>1. DOMAIN at = Job
  OBVIOUS
<1>2. ASSUME NEW j \in Job, NEW to, Moves(at, at', j, to)
      PROVE  /\ Count(at', Running) = Count(at, Running) + (IF to \in Running THEN 1 ELSE 0)
                                         - (IF at[j] \in Running THEN 1 ELSE 0)
             /\ Count(at', Undone) = Count(at, Undone) + (IF to \in Undone THEN 1 ELSE 0)
                                        - (IF at[j] \in Undone THEN 1 ELSE 0)
             /\ Count(at', Finished) = Count(at, Finished) + (IF to \in Finished THEN 1 ELSE 0)
                                          - (IF at[j] \in Finished THEN 1 ELSE 0)
  <2>1. ASSUME NEW S
        PROVE  Count(at', S) = Count(at, S) + (IF to \in S THEN 1 ELSE 0)
                                 - (IF at[j] \in S THEN 1 ELSE 0)
    BY ONLY <1>2, CountMoves
  <2> QED
    BY ONLY <2>1
<1> USE CountRange
<1>3. ASSUME Launch PROVE Counts'
  <2>1. next \in Job /\ at[next] = "new" /\ Moves(at, at', next, "request")
    BY <1>3, <1>1 DEF Launch, Loop, Job, Moves
  <2>2. /\ Count(at', Running) = Count(at, Running) + 1
        /\ Count(at', Undone) = Count(at, Undone) + 1
        /\ Count(at', Finished) = Count(at, Finished)
    BY <2>1, <1>2 DEF Running, Undone, Finished
  <2> QED
    BY <1>3, <2>2 DEF Launch
<1>4. ASSUME NEW j \in Job, JobStep(j) PROVE Counts'
  <2>1. ASSUME NEW d \in 0 .. Timeout, Respond(j, d) PROVE Counts'
    <3>1. PICK to \in {"answered", "backoff"} : Moves(at, at', j, to)
      BY <2>1, <1>1 DEF Respond, Moves
    <3>2. /\ Count(at', Running) = Count(at, Running)
          /\ Count(at', Undone) = Count(at, Undone)
          /\ Count(at', Finished) = Count(at, Finished)
      BY <2>1, <3>1, <1>2 DEF Running, Undone, Finished, Respond
    <3> QED
      BY <2>1, <3>2 DEF Respond
  <2>2. ASSUME NEW wait \in 0 .. MaxElapsed, Retry(j, wait) PROVE Counts'
    <3>1. PICK to \in {"answered", "request"} : Moves(at, at', j, to)
      BY <2>2, <1>1 DEF Retry, Moves
    <3>2. /\ Count(at', Running) = Count(at, Running)
          /\ Count(at', Undone) = Count(at, Undone)
          /\ Count(at', Finished) = Count(at, Finished)
      BY <2>2, <3>1, <1>2 DEF Running, Undone, Finished, Retry
    <3> QED
      BY <2>2, <3>2 DEF Retry
  <2>3. ASSUME Store(j) PROVE Counts'
    <3>1. Moves(at, at', j, "stored")
      BY <2>3, <1>1 DEF Store, Moves
    <3>2. /\ at[j] \in Running /\ at[j] \in Undone /\ at[j] \notin Finished
          /\ "stored" \in Running /\ "stored" \in Undone /\ "stored" \in Finished
      BY <2>3 DEF Running, Undone, Finished, Store
    <3>3. /\ Count(at', Running) = Count(at, Running)
          /\ Count(at', Undone) = Count(at, Undone)
          /\ Count(at', Finished) = Count(at, Finished) + 1
      BY <3>1, <3>2, <1>2
    <3> QED
      BY <2>3, <3>3 DEF Store
  <2>4. ASSUME Release(j) PROVE Counts'
    <3>1. Moves(at, at', j, "released")
      BY <2>4, <1>1 DEF Release, Moves
    <3>2. /\ at[j] \in Running /\ at[j] \in Undone /\ at[j] \in Finished
          /\ "released" \notin Running /\ "released" \in Undone /\ "released" \in Finished
      BY <2>4 DEF Running, Undone, Finished, Release
    <3>3. /\ Count(at', Running) = Count(at, Running) - 1
          /\ Count(at', Undone) = Count(at, Undone)
          /\ Count(at', Finished) = Count(at, Finished)
      BY <3>1, <3>2, <1>2
    <3> QED
      BY <2>4, <3>3 DEF Release
  <2>5. ASSUME Done(j) PROVE Counts'
    <3>1. Moves(at, at', j, "done")
      BY <2>5, <1>1 DEF Done, Moves
    <3>2. /\ at[j] \notin Running /\ at[j] \in Undone /\ at[j] \in Finished
          /\ "done" \notin Running /\ "done" \notin Undone /\ "done" \in Finished
      BY <2>5 DEF Running, Undone, Finished, Done
    <3>3. /\ Count(at', Running) = Count(at, Running)
          /\ Count(at', Undone) = Count(at, Undone) - 1
          /\ Count(at', Finished) = Count(at, Finished)
      BY <3>1, <3>2, <1>2
    <3> QED
      BY <2>5, <3>3 DEF Done
  <2> QED
    BY <1>4, <2>1, <2>2, <2>3, <2>4, <2>5 DEF JobStep
<1>5. ASSUME AddJob \/ LoopEnds \/ WaitReturns \/ UNCHANGED vars PROVE Counts'
  BY <1>2, <1>5 DEF AddJob, LoopEnds, WaitReturns, vars
<1> QED
  BY <1>3, <1>4, <1>5 DEF Next, MainStep

LEMMA TypesStep ==
  ASSUME PoolInv, [Next]_vars
  PROVE  Types'
<1> USE PoolAssumption DEF PoolAssumption, PoolInv, Types, Results, reqVars
<1>1. ASSUME MainStep PROVE Types'
  <2>1. CASE AddJob
    BY <2>1 DEF AddJob
  <2>2. CASE Launch
    <3>1. next + 1 \in 1 .. Jobs + 1
      BY <2>2 DEF Launch, Loop
    <3>2. at' \in [Job -> {"new", "released", "done"} \cup Running]
      BY <2>2 DEF Launch, Running
    <3> QED
      BY <2>2, <3>1, <3>2 DEF Launch
  <2>3. CASE LoopEnds
    BY <2>3 DEF LoopEnds
  <2>4. CASE WaitReturns
    BY <2>4 DEF WaitReturns
  <2> QED
    BY <1>1, <2>1, <2>2, <2>3, <2>4 DEF MainStep
<1>2. ASSUME NEW j \in Job, JobStep(j) PROVE Types'
  <2>1. ASSUME NEW d \in 0 .. Timeout, Respond(j, d) PROVE Types'
    <3>1. tries[j] + 1 \in Nat /\ elapsed[j] + d \in Nat
      OBVIOUS
    <3>2. at' \in [Job -> {"new", "released", "done"} \cup Running]
      BY <2>1 DEF Respond, Running
    <3>3. answer' \in [Job -> BOOLEAN]
      BY <2>1 DEF Respond
    <3> QED
      BY <2>1, <3>1, <3>2, <3>3 DEF Respond
  <2>2. ASSUME NEW wait \in 0 .. MaxElapsed, Retry(j, wait) PROVE Types'
    <3>1. elapsed[j] + wait \in Nat
      OBVIOUS
    <3>2. at' \in [Job -> {"new", "released", "done"} \cup Running]
      BY <2>2 DEF Retry, Running
    <3>3. elapsed' \in [Job -> Nat]
      BY <2>2, <3>1 DEF Retry
    <3> QED
      BY <2>2, <3>2, <3>3 DEF Retry
  <2>3. ASSUME Store(j) PROVE Types'
    <3>1. [job |-> j, ok |-> answer[j]] \in Results
      OBVIOUS
    <3>2. results' \in [Job -> Results \cup {Unknown}]
      BY <2>3, <3>1 DEF Store
    <3> QED
      BY <2>3, <3>2 DEF Store, Forget, Running
  <2>4. ASSUME Release(j) PROVE Types'
    BY <2>4 DEF Release
  <2>5. ASSUME Done(j) PROVE Types'
    BY <2>5 DEF Done
  <2> QED
    BY <1>2, <2>1, <2>2, <2>3, <2>4, <2>5 DEF JobStep
<1> QED
  BY <1>1, <1>2 DEF Next, vars

\* Wait returns only when the WaitGroup is at zero, and then no goroutine is left.
LEMMA NobodyLeft ==
  ASSUME PoolInv, WaitReturns
  PROVE  \A j \in Job : at[j] = "done"
<1>1. Count(at, Undone) = 0
  BY CountRange DEF PoolInv, Counts, WaitReturns
<1>2. {j \in Job : at[j] \in Undone} = {}
  <2>1. {j \in Job : at[j] \in Undone} \in SUBSET Job
    OBVIOUS
  <2> QED
    BY <1>1, <2>1, JobsFinite, FS_Subset, FS_EmptySet DEF Count
<1>3. ASSUME NEW j \in Job PROVE at[j] # "new"
  BY PoolAssumption DEF PoolInv, Loop, WaitReturns, Job, PoolAssumption
<1> QED
  BY <1>2, <1>3 DEF PoolInv, Types, Undone, Running

LEMMA LoopStep ==
  ASSUME PoolInv, [Next]_vars
  PROVE  Loop'
<1> USE PoolAssumption DEF PoolAssumption, PoolInv, Types, Loop, Job
<1>1. ASSUME MainStep PROVE Loop'
  <2>1. CASE AddJob
    BY <2>1 DEF AddJob
  <2>2. CASE Launch
    BY <2>2 DEF Launch
  <2>3. CASE LoopEnds
    BY <2>3 DEF LoopEnds
  <2>4. CASE WaitReturns
    BY <2>4, NobodyLeft DEF WaitReturns
  <2> QED
    BY <1>1, <2>1, <2>2, <2>3, <2>4 DEF MainStep
<1>2. ASSUME NEW j \in Job, JobStep(j) PROVE Loop'
  <2>1. at[j] \notin {"new", "done"} /\ UNCHANGED <<main, next>>
    BY <1>2 DEF JobStep, Respond, Retry, Store, Release, Done
  <2>2. PICK to : to # "new" /\ at' = [at EXCEPT ![j] = to]
    BY <1>2 DEF JobStep, Respond, Retry, Store, Release, Done
  <2> QED
    BY <2>1, <2>2
<1> QED
  BY <1>1, <1>2 DEF Next, vars

LEMMA LimitsStep ==
  ASSUME PoolInv, [Next]_vars
  PROVE  Limits'
<1> USE PoolAssumption DEF PoolAssumption, PoolInv, Types
<1>1. ASSUME MainStep PROVE Limits'
  <2>1. CASE Launch
    <3>1. next \in Job /\ at[next] = "new"
      BY <2>1 DEF Launch, Loop, Job
    <3> QED
      BY <2>1, <3>1 DEF Launch, Limits, reqVars
  <2>2. CASE AddJob \/ LoopEnds \/ WaitReturns
    BY <2>2 DEF AddJob, LoopEnds, WaitReturns, Limits, reqVars
  <2> QED
    BY <1>1, <2>1, <2>2 DEF MainStep
<1>2. ASSUME NEW j \in Job, JobStep(j) PROVE Limits'
  <2>1. ASSUME NEW d \in 0 .. Timeout, Respond(j, d) PROVE Limits'
    BY <2>1 DEF Respond, Limits
  <2>2. ASSUME NEW wait \in 0 .. MaxElapsed, Retry(j, wait) PROVE Limits'
    BY <2>2 DEF Retry, Limits
  <2>3. ASSUME Store(j) PROVE Limits'
    BY <2>3 DEF Store, Forget, Limits
  <2>4. ASSUME Release(j) PROVE Limits'
    BY <2>4 DEF Release, Limits, reqVars
  <2>5. ASSUME Done(j) PROVE Limits'
    BY <2>5 DEF Done, Limits, reqVars
  <2> QED
    BY <1>2, <2>1, <2>2, <2>3, <2>4, <2>5 DEF JobStep
<1> QED
  BY <1>1, <1>2 DEF Next, vars, Limits, reqVars

LEMMA OwnResultsStep ==
  ASSUME PoolInv, [Next]_vars
  PROVE  OwnResults'
<1> USE DEF PoolInv, Types, OwnResults, Finished
<1>1. ASSUME MainStep PROVE OwnResults'
  BY <1>1 DEF MainStep, AddJob, Launch, LoopEnds, WaitReturns, reqVars
<1>2. ASSUME NEW j \in Job, JobStep(j) PROVE OwnResults'
  <2>1. ASSUME NEW d \in 0 .. Timeout, Respond(j, d) PROVE OwnResults'
    BY <2>1 DEF Respond
  <2>2. ASSUME NEW wait \in 0 .. MaxElapsed, Retry(j, wait) PROVE OwnResults'
    BY <2>2 DEF Retry
  <2>3. ASSUME Store(j) PROVE OwnResults'
    BY <2>3 DEF Store
  <2>4. ASSUME Release(j) PROVE OwnResults'
    BY <2>4 DEF Release, reqVars
  <2>5. ASSUME Done(j) PROVE OwnResults'
    BY <2>5 DEF Done, reqVars
  <2> QED
    BY <1>2, <2>1, <2>2, <2>3, <2>4, <2>5 DEF JobStep
<1> QED
  BY <1>1, <1>2 DEF Next, vars, reqVars

LEMMA PoolStep == PoolInv /\ [Next]_vars => PoolInv'
  BY TypesStep, CountsStep, LoopStep, LimitsStep, OwnResultsStep DEF PoolInv

LEMMA PoolInvariant == Spec => []PoolInv
  BY PoolInit, PoolStep, PTL DEF Spec

-----------------------------------------------------------------------------
\* Types: the WaitGroup is never negative and counts no more than the jobs, the
\* semaphore stays within its capacity, the progress counter within the total.
THEOREM EmbedTypesHold == Spec => []EmbedTypeOK
<1>1. PoolInv => EmbedTypeOK
  BY CountersInRange DEF PoolInv
<1> QED
  BY <1>1, PoolInvariant, PTL

\* For any number of jobs and slots, the requests under way are as many as the slots
\* that are taken: generateEmbeddings gives each slot back once, on every path.
THEOREM SlotsAreBounded == Spec => []PoolBounded
<1>1. PoolInv => PoolBounded
  BY CountersInRange DEF PoolInv
<1> QED
  BY <1>1, PoolInvariant, PTL

\* Whatever the limits of the retry policy are, no request outlasts them.
THEOREM RetriesAreBounded == Spec => []RequestsGiveUp
<1>1. PoolInv => RequestsGiveUp
  BY DEF PoolInv, Limits, RequestsGiveUp
<1> QED
  BY <1>1, PoolInvariant, PTL

\* To its caller generateEmbeddings is one step in which every job gets its own
\* result: no result is missing, swapped or written after Wait has returned.
THEOREM PoolImplementsBatch == Spec => ImplementsEmbedBatch
<1> DEFINE shown == IF main = "returned" THEN results ELSE [j \in Job |-> Unknown]
<1>1. Init => Batch!Init
  BY DEF Init, Batch!Init
<1>2. PoolInv /\ [Next]_vars => [Batch!Embed]_shown
  <2> SUFFICES ASSUME PoolInv, [Next]_vars PROVE Batch!Embed \/ shown' = shown
    OBVIOUS
  <2>1. CASE WaitReturns
    <3>1. \A j \in Job : results[j] = [job |-> j, ok |-> answer[j]]
      BY <2>1, NobodyLeft DEF PoolInv, OwnResults, Finished
    <3>2. shown = [j \in Job |-> Unknown] /\ shown' = results
      BY <2>1 DEF WaitReturns
    <3>3. results \in [Job -> Results]
      BY <3>1 DEF PoolInv, Types, Results
    <3> QED
      BY <3>1, <3>2, <3>3 DEF Batch!Embed, Results
  <2>2. CASE UNCHANGED vars
    BY <2>2 DEF vars
  <2>3. CASE AddJob \/ Launch \/ LoopEnds
    BY <2>3 DEF AddJob, Launch, LoopEnds
  <2>4. ASSUME NEW j \in Job, JobStep(j) PROVE shown' = shown
    <3>1. at[j] # "done" /\ main' = main
      BY <2>4 DEF JobStep, Respond, Retry, Store, Release, Done
    <3> QED
      BY <3>1 DEF PoolInv, Loop
  <2> QED
    BY <2>1, <2>2, <2>3, <2>4 DEF Next, MainStep
<1> QED
  BY <1>1, <1>2, PoolInvariant, PTL DEF Spec, ImplementsEmbedBatch, Batch!Spec
LEMMA LeastIn ==
  ASSUME NEW S, S \subseteq Nat, S # {}
  PROVE  \E x \in S : \A y \in S : x <= y
<1> DEFINE R == OpToRel(<, Nat)
<1>1. IsWellFoundedOn(R, Nat)
  BY Zenon, NatLessThanWellFounded
<1>2. PICK x \in S : \A y \in S : ~ (<<y, x>> \in R)
  <2> HIDE DEF R
  <2> QED
    BY <1>1, WFMin
<1>3. \A a, b \in Nat : a < b => <<a, b>> \in R
  BY Zenon DEF OpToRel
<1>4. \A y \in S : ~ (y < x)
  BY Zenon, <1>2, <1>3
<1> HIDE DEF R
<1>5. \A y \in S : x <= y
  BY <1>4
<1> QED
  BY <1>5

LEMMA MinIsLeast ==
  ASSUME NEW S, S \subseteq Nat, S # {}
  PROVE  Min(S) \in S /\ \A y \in S : Min(S) <= y
<1>1. \E x \in S : \A y \in S : x <= y
  BY LeastIn
<1> QED
  BY <1>1 DEF Min

LEMMA UpTo ==
  ASSUME NEW n \in Nat, NEW S, 0 \in S, \A k \in 0 .. n - 1 : k \in S => k + 1 \in S
  PROVE  \A k \in 0 .. n : k \in S
<1>1. SUFFICES ASSUME NEW T, T = {k \in 0 .. n : k \notin S}, T # {} PROVE FALSE
  OBVIOUS
<1>2. T \subseteq Nat
  BY <1>1
<1>3. PICK x \in T : \A y \in T : x <= y
  BY <1>1, <1>2, LeastIn
<1>4. x \in 0 .. n /\ x \notin S /\ x # 0
  BY <1>1
<1>5. x - 1 \in 0 .. n - 1 /\ x - 1 \in 0 .. n /\ (x - 1) + 1 = x /\ ~ (x <= x - 1)
  BY <1>4
<1>6. x - 1 \notin T
  BY <1>3, <1>5
<1>7. x - 1 \in S
  BY <1>1, <1>5, <1>6
<1> QED
  BY <1>4, <1>5, <1>7

\* A loop of n rounds, each of which takes a state of S to a state of S.
Rounds(g, n, S) == g \in [1 .. n -> [S -> S]]

IsLoop(f, n, S, a, g) ==
    f \in [0 .. n -> S] /\ \A k \in 0 .. n : f[k] = IF k = 0 THEN a ELSE g[k][f[k - 1]]

LEMMA LoopExists ==
  ASSUME NEW n, NEW S, NEW a, NEW g, n \in Nat, a \in S, Rounds(g, n, S)
  PROVE  \E f : IsLoop(f, n, S, a, g)
<1>0. g \in [1 .. n -> [S -> S]]
  BY DEF Rounds
<1> DEFINE OK(m, f) == \A k \in 0 .. n : k <= m => f[k] = IF k = 0 THEN a ELSE g[k][f[k - 1]]
           T == {m \in 0 .. n : \E f \in [0 .. n -> S] : OK(m, f)}
<1>1. 0 \in T
  <2>1. PICK f : f = [k \in 0 .. n |-> a]
    OBVIOUS
  <2>2. f \in [0 .. n -> S] /\ OK(0, f)
    BY <2>1
  <2> QED
    BY <2>2
<1>2. ASSUME NEW m \in 0 .. n - 1, m \in T PROVE m + 1 \in T
  <2>1. PICK f \in [0 .. n -> S] : OK(m, f)
    BY <1>2
  <2>2. m + 1 \in 1 .. n /\ m \in 0 .. n /\ m + 1 \in 0 .. n
    OBVIOUS
  <2>3. PICK b : b = g[m + 1][f[m]]
    OBVIOUS
  <2>4. b \in S
    BY <1>0, <2>2, <2>3
  <2>5. PICK h : h = [f EXCEPT ![m + 1] = b]
    OBVIOUS
  <2>6. h \in [0 .. n -> S] /\ h[m + 1] = b /\ \A k \in 0 .. n : k # m + 1 => h[k] = f[k]
    BY <2>2, <2>4, <2>5
  <2>7. ASSUME NEW k \in 0 .. n, k <= m + 1
        PROVE  h[k] = IF k = 0 THEN a ELSE g[k][h[k - 1]]
    <3>1. CASE k = m + 1
      <4>1. k - 1 = m /\ k # 0 /\ h[m] = f[m]
        BY <2>2, <2>6, <3>1
      <4> QED
        BY <2>3, <2>6, <3>1, <4>1
    <3>2. CASE k # m + 1
      <4>1. k <= m /\ h[k] = f[k]
        BY <2>6, <2>7, <3>2
      <4>2. f[k] = IF k = 0 THEN a ELSE g[k][f[k - 1]]
        BY <2>1, <4>1
      <4>3. k # 0 => k - 1 \in 0 .. n /\ k - 1 # m + 1
        BY <4>1
      <4> QED
        BY <2>6, <4>1, <4>2, <4>3
    <3> QED
      BY <3>1, <3>2
  <2>8. OK(m + 1, h)
    BY <2>7
  <2> QED
    BY <2>2, <2>6, <2>8
<1>3. n \in T
  <2> HIDE DEF T
  <2>1. \A k \in 0 .. n - 1 : k \in T => k + 1 \in T
    BY <1>2
  <2>2. \A k \in 0 .. n : k \in T
    BY ONLY <1>1, <2>1, UpTo, n \in Nat
  <2> QED
    BY <2>2
<1>4. PICK f \in [0 .. n -> S] : OK(n, f)
  BY <1>3
<1> QED
  BY <1>4 DEF IsLoop

LEMMA GreatestIn ==
  ASSUME NEW n \in Nat, NEW S, S \subseteq 0 .. n, S # {}
  PROVE  Max(S) \in S /\ \A y \in S : y <= Max(S)
<1> PICK T : T = {b \in 0 .. n : \A y \in S : y <= b}
  OBVIOUS
<1>1. n \in T /\ T \subseteq Nat
  OBVIOUS
<1>2. PICK b \in T : \A c \in T : b <= c
  <2>1. T # {}
    BY <1>1
  <2> QED
    BY ONLY <1>1, <2>1, LeastIn
<1>3. b \in S
  <2> SUFFICES ASSUME b \notin S PROVE FALSE
    OBVIOUS
  <2>1. b \in 0 .. n /\ \A y \in S : y <= b /\ y # b /\ y \in 0 .. n
    BY <1>2
  <2>2. b # 0
    <3>1. PICK y : y \in S
      OBVIOUS
    <3> QED
      BY ONLY <2>1, <3>1
  <2>3. b - 1 \in 0 .. n /\ \A y \in S : y <= b - 1
    BY ONLY <2>1, <2>2
  <2>4. b <= b - 1
    BY <1>2, <2>3
  <2> QED
    BY ONLY <2>1, <2>4
<1>4. \A y \in S : y <= b
  BY <1>2
<1>5. \E x \in S : \A y \in S : x >= y
  <2>1. \A y \in S : b >= y
    BY ONLY <1>3, <1>4, S \subseteq 0 .. n
  <2> QED
    BY <1>3, <2>1
<1>6. Max(S) \in S /\ \A y \in S : Max(S) >= y
  BY ONLY <1>5 DEF Max
<1> QED
  BY ONLY <1>6, S \subseteq 0 .. n

-----------------------------------------------------------------------------
(***************************************************************************)
(* Ascending: the members of a set in their order.                         *)
(***************************************************************************)
AscendingLoop(list, S, n) ==
    list = [i \in 0 .. n |->
              IF i = 0 THEN <<>> ELSE IF i \in S THEN Append(list[i - 1], i) ELSE list[i - 1]]

LEMMA AscendingLoopExists == ASSUME NEW S, NEW n \in Nat PROVE \E list : AscendingLoop(list, S, n)
<1> PICK Q : Q = Seq(Nat)
  OBVIOUS
<1> PICK g : g = [i \in 1 .. n |-> [s \in Q |-> IF i \in S THEN Append(s, i) ELSE s]]
  OBVIOUS
<1>1. <<>> \in Q /\ \A i \in 1 .. n, s \in Q : Append(s, i) \in Q
  OBVIOUS
<1>2. Rounds(g, n, Q)
  BY ONLY <1>1, g = [i \in 1 .. n |-> [s \in Q |-> IF i \in S THEN Append(s, i) ELSE s]] DEF Rounds
<1>3. PICK f : IsLoop(f, n, Q, <<>>, g)
  BY ONLY <1>1, <1>2, LoopExists, n \in Nat
<1>4. ASSUME NEW i \in 0 .. n
      PROVE  f[i] = IF i = 0 THEN <<>> ELSE IF i \in S THEN Append(f[i - 1], i) ELSE f[i - 1]
  <2>1. i # 0 => i \in 1 .. n /\ i - 1 \in 0 .. n
    OBVIOUS
  <2>2. i # 0 => f[i - 1] \in Q
    BY ONLY <1>3, <2>1 DEF IsLoop
  <2>3. i # 0 => g[i][f[i - 1]] = IF i \in S THEN Append(f[i - 1], i) ELSE f[i - 1]
    BY ONLY <2>1, <2>2, g = [x \in 1 .. n |-> [s \in Q |-> IF x \in S THEN Append(s, x) ELSE s]]
  <2>4. f[i] = IF i = 0 THEN <<>> ELSE g[i][f[i - 1]]
    BY ONLY <1>3, i \in 0 .. n DEF IsLoop
  <2> QED
    BY ONLY <2>3, <2>4
<1>5. f = [i \in 0 .. n |-> f[i]]
  BY ONLY <1>3 DEF IsLoop
<1>6. f = [i \in 0 .. n |-> IF i = 0 THEN <<>> ELSE IF i \in S THEN Append(f[i - 1], i) ELSE f[i - 1]]
  BY ONLY <1>4, <1>5
<1> QED
  BY ONLY <1>6 DEF AscendingLoop

LEMMA AscendingIsLoop ==
  ASSUME NEW S, NEW n \in Nat
  PROVE  \E list : AscendingLoop(list, S, n) /\ Ascending(S, n) = list[n]
<1> DEFINE list == CHOOSE list : list = [i \in 0 .. n |->
               IF i = 0 THEN <<>> ELSE IF i \in S THEN Append(list[i - 1], i) ELSE list[i - 1]]
<1>1. \E f : AscendingLoop(f, S, n)
  BY AscendingLoopExists
<1>2. AscendingLoop(list, S, n)
  BY <1>1 DEF AscendingLoop
<1>3. Ascending(S, n) = list[n]
  BY DEF Ascending
<1> HIDE DEF list
<1> QED
  BY ONLY <1>2, <1>3

\* The loop for n numbers goes through the results for fewer.
LEMMA AscendingStep ==
  ASSUME NEW S, NEW n \in Nat
  PROVE  Ascending(S, n) = IF n = 0 THEN <<>>
                           ELSE IF n \in S THEN Append(Ascending(S, n - 1), n) ELSE Ascending(S, n - 1)
<1> PICK f : AscendingLoop(f, S, n) /\ Ascending(S, n) = f[n]
  BY AscendingIsLoop
<1>0. \A i \in 0 .. n : f[i] = IF i = 0 THEN <<>> ELSE IF i \in S THEN Append(f[i - 1], i) ELSE f[i - 1]
  BY DEF AscendingLoop
<1>1. CASE n = 0
  BY <1>0, <1>1
<1>2. CASE n # 0
  <2> PICK m : m = n - 1
    OBVIOUS
  <2>1. m \in Nat /\ m + 1 = n /\ n \in 0 .. n /\ \A i \in 0 .. m : i \in 0 .. n
    BY <1>2
  <2> PICK h : AscendingLoop(h, S, m) /\ Ascending(S, m) = h[m]
    BY <2>1, AscendingIsLoop
  <2>2. \A i \in 0 .. m : h[i] = IF i = 0 THEN <<>> ELSE IF i \in S THEN Append(h[i - 1], i) ELSE h[i - 1]
    BY DEF AscendingLoop
  <2> PICK K : K = {k \in 0 .. m : h[k] = f[k]}
    OBVIOUS
  <2>3. 0 \in K
    BY <1>0, <2>1, <2>2
  <2>4. ASSUME NEW k \in 0 .. m - 1, k \in K PROVE k + 1 \in K
    <3> PICK j : j = k + 1
      OBVIOUS
    <3>1. j \in 0 .. m /\ j # 0 /\ j - 1 = k
      BY <2>1
    <3>2. h[j] = IF j \in S THEN Append(h[k], j) ELSE h[k]
      BY ONLY <2>2, <3>1
    <3>3. f[j] = IF j \in S THEN Append(f[k], j) ELSE f[k]
      BY ONLY <1>0, <2>1, <3>1
    <3>4. h[k] = f[k]
      BY <2>4
    <3>5. h[j] = f[j]
      BY ONLY <3>2, <3>3, <3>4
    <3> QED
      BY <3>1, <3>5
  <2>5. \A k \in 0 .. m : k \in K
    BY ONLY <2>1, <2>3, <2>4, UpTo
  <2>6. h[m] = f[m]
    BY <2>1, <2>5
  <2>7. f[n] = IF n \in S THEN Append(f[m], n) ELSE f[m]
    BY <1>0, <1>2, <2>1
  <2> QED
    BY <1>2, <2>6, <2>7
<1> QED
  BY <1>1, <1>2

\* A strictly ascending sequence of the members of S up to n.
LEMMA AscendingIs ==
  ASSUME NEW S, NEW n \in Nat
  PROVE  /\ Ascending(S, n) \in Seq(1 .. n)
         /\ \A i, j \in 1 .. Len(Ascending(S, n)) : i < j => Ascending(S, n)[i] < Ascending(S, n)[j]
         /\ \A i \in 1 .. Len(Ascending(S, n)) : Ascending(S, n)[i] \in S
         /\ \A k \in S \cap 1 .. n : \E i \in 1 .. Len(Ascending(S, n)) : Ascending(S, n)[i] = k
<1> DEFINE P(m) == /\ Ascending(S, m) \in Seq(1 .. m)
                   /\ \A i, j \in 1 .. Len(Ascending(S, m)) : i < j => Ascending(S, m)[i] < Ascending(S, m)[j]
                   /\ \A i \in 1 .. Len(Ascending(S, m)) : Ascending(S, m)[i] \in S
                   /\ \A k \in S \cap 1 .. m : \E i \in 1 .. Len(Ascending(S, m)) : Ascending(S, m)[i] = k
<1> PICK K : K = {m \in 0 .. n : P(m)}
  OBVIOUS
<1>1. 0 \in K
  <2>1. Ascending(S, 0) = <<>>
    BY AscendingStep
  <2>2. Len(<<>>) = 0 /\ <<>> \in Seq(1 .. 0) /\ 1 .. 0 = {}
    OBVIOUS
  <2>3. P(0)
    BY ONLY <2>1, <2>2
  <2> QED
    BY <2>3
<1>2. ASSUME NEW k \in 0 .. n - 1, k \in K PROVE k + 1 \in K
  <2> PICK m : m = k + 1
    OBVIOUS
  <2>1. m \in Nat /\ m # 0 /\ m - 1 = k /\ m \in 0 .. n /\ k \in Nat
    OBVIOUS
  <2> PICK s, t : s = Ascending(S, k) /\ t = Ascending(S, m)
    OBVIOUS
  <2> PICK l : l = Len(s)
    OBVIOUS
  <2>2. t = IF m \in S THEN Append(s, m) ELSE s
    <3>1. Ascending(S, m) = IF m = 0 THEN <<>>
                            ELSE IF m \in S THEN Append(Ascending(S, m - 1), m) ELSE Ascending(S, m - 1)
      BY ONLY <2>1, AscendingStep
    <3> QED
      BY ONLY <2>1, <3>1, s = Ascending(S, k), t = Ascending(S, m)
  <2>3. P(k)
    BY <1>2
  <2>4. /\ s \in Seq(1 .. k) /\ l \in Nat /\ s \in [1 .. l -> 1 .. k]
        /\ \A i, j \in 1 .. l : i < j => s[i] < s[j]
        /\ \A i \in 1 .. l : s[i] \in S
        /\ \A x \in S \cap 1 .. k : \E i \in 1 .. l : s[i] = x
    BY <2>3
  <2>5. \A x : x \in 1 .. m <=> x \in 1 .. k \/ x = m
    BY <2>1
  <2>6. CASE m \notin S
    <3>1. t = s
      BY <2>2, <2>6
    <3>2. s \in Seq(1 .. m)
      <4>1. 1 .. k \subseteq 1 .. m
        BY ONLY <2>5
      <4>2. PICK T : T = 1 .. m
        OBVIOUS
      <4>3. l \in Nat /\ s \in [1 .. l -> T]
        BY ONLY <2>4, <4>1, <4>2
      <4>4. s \in Seq(T)
        BY ONLY <4>3
      <4> QED
        BY ONLY <4>2, <4>4
    <3>3. \A x \in S \cap 1 .. m : x \in S \cap 1 .. k
      BY ONLY <2>5, <2>6
    <3>4. P(m)
      BY ONLY <2>4, <3>1, <3>2, <3>3, t = Ascending(S, m), l = Len(s)
    <3> QED
      BY <2>1, <3>4
  <2>7. CASE m \in S
    <3>1. t = Append(s, m)
      BY <2>2, <2>7
    <3>2. Len(t) = l + 1 /\ t[l + 1] = m /\ \A i \in 1 .. l : t[i] = s[i]
      BY ONLY <2>4, <3>1, l = Len(s)
    <3>3. t \in Seq(1 .. m)
      <4>1. s \in Seq(1 .. m) /\ m \in 1 .. m
        BY ONLY <2>1, <2>4, <2>5
      <4> QED
        BY ONLY <3>1, <4>1
    <3>4. \A i : i \in 1 .. l + 1 <=> i \in 1 .. l \/ i = l + 1
      BY ONLY <2>4
    <3>5. \A i, j \in 1 .. l + 1 : i < j => t[i] < t[j]
      <4> TAKE i, j \in 1 .. l + 1
      <4> HAVE i < j
      <4>1. i \in 1 .. l /\ s[i] < m
        BY ONLY <2>1, <2>4, i \in 1 .. l + 1, j \in 1 .. l + 1, i < j
      <4>2. CASE j = l + 1
        BY ONLY <3>2, <4>1, <4>2
      <4>3. CASE j \in 1 .. l
        BY ONLY <2>4, <3>2, <4>1, <4>3, i < j
      <4> QED
        BY <3>4, <4>2, <4>3
    <3>6. \A i \in 1 .. l + 1 : t[i] \in S
      BY ONLY <2>4, <2>7, <3>2, <3>4
    <3>7. \A x \in S \cap 1 .. m : \E i \in 1 .. l + 1 : t[i] = x
      BY ONLY <2>4, <2>5, <3>2, <3>4
    <3>8. P(m)
      BY ONLY <3>2, <3>3, <3>5, <3>6, <3>7, t = Ascending(S, m)
    <3> QED
      BY <2>1, <3>8
  <2> QED
    BY <2>6, <2>7
<1>3. n \in K
  <2>1. \A m \in 0 .. n : m \in K
    BY ONLY <1>1, <1>2, UpTo, n \in Nat
  <2> QED
    BY <2>1
<1> QED
  BY <1>3

-----------------------------------------------------------------------------
(***************************************************************************)
(* The parsers of call graphs (CallGraphParse).                            *)
(***************************************************************************)
DeclOf(N) == [name : N, start : Int, end : Int]
EdgeOf(R) == [caller : Int, callee : R]
ParseState(N, R) ==
    [decls : Seq(DeclOf(N)), edges : SUBSET EdgeOf(R), active : BOOLEAN, depth : Int]

IsLine(line, N, R) == line.name \in N /\ line.refs \subseteq R /\ line.braces \in Int

LEMMA EndActiveIs ==
  ASSUME NEW N, NEW R, NEW st \in ParseState(N, R), NEW k \in Int
  PROVE  /\ EndActive(st, k) \in Seq(DeclOf(N)) /\ Len(EndActive(st, k)) = Len(st.decls)
         /\ \A i \in 1 .. Len(st.decls) :
               EndActive(st, k)[i] = IF st.active /\ i = Len(st.decls)
                                     THEN [st.decls[i] EXCEPT !.end = k] ELSE st.decls[i]
<1> PICK d : d = st.decls
  OBVIOUS
<1> PICK D : D = DeclOf(N)
  OBVIOUS
<1> PICK m : m = Len(d)
  OBVIOUS
<1>1. d \in Seq(D) /\ m \in Nat /\ d \in [1 .. m -> D]
  BY DEF ParseState
<1> PICK e : e = EndActive(st, k)
  OBVIOUS
<1>2. \A x \in D : [x EXCEPT !.end = k] \in D
  BY DEF DeclOf
<1>3. e \in [1 .. m -> D] /\ \A i \in 1 .. m :
         e[i] = IF st.active /\ i = m THEN [d[i] EXCEPT !.end = k] ELSE d[i]
  <2>1. CASE st.active
    <3>1. e = [d EXCEPT ![m].end = k]
      BY <2>1 DEF EndActive
    <3> QED
      BY ONLY <1>1, <1>2, <2>1, <3>1
  <2>2. CASE ~ st.active
    <3>1. e = d
      BY <2>2 DEF EndActive
    <3> QED
      BY ONLY <1>1, <2>2, <3>1
  <2> QED
    BY <2>1, <2>2
<1>4. e \in Seq(D) /\ Len(e) = m
  BY ONLY <1>1, <1>3
<1> QED
  BY <1>3, <1>4

LEMMA EdgesFromIs ==
  ASSUME NEW N, NEW R, NEW st \in ParseState(N, R), NEW line, IsLine(line, N, R)
  PROVE  EdgesFrom(st, line) \in SUBSET EdgeOf(R)
<1>1. st.edges \subseteq EdgeOf(R) /\ Len(st.decls) \in Int
  BY DEF ParseState
<1>2. \A r \in line.refs : [caller |-> Len(st.decls), callee |-> r] \in EdgeOf(R)
  BY <1>1 DEF IsLine, EdgeOf
<1> QED
  BY <1>1, <1>2 DEF EdgesFrom

LEMMA YamlLineIs ==
  ASSUME NEW N, NEW R, NEW st \in ParseState(N, R), NEW line, IsLine(line, N, R), NEW k \in Nat
  PROVE  YamlLine(st, k, line) \in ParseState(N, R)
<1>1. CASE line.kind = "name" /\ line.name # NoName
  <2>1. EndActive(st, k - 1) \in Seq(DeclOf(N))
    BY EndActiveIs
  <2>2. Decl(line.name, k) \in DeclOf(N)
    BY DEF Decl, DeclOf, IsLine
  <2> PICK d : d = Append(EndActive(st, k - 1), Decl(line.name, k))
    OBVIOUS
  <2>3. d \in Seq(DeclOf(N))
    BY <2>1, <2>2
  <2>4. YamlLine(st, k, line) = [st EXCEPT !.decls = d, !.active = TRUE]
    BY <1>1 DEF YamlLine
  <2> QED
    BY <2>3, <2>4 DEF ParseState
<1>2. CASE line.kind # "name" /\ st.active
  <2>1. EdgesFrom(st, line) \in SUBSET EdgeOf(R)
    BY EdgesFromIs
  <2>2. YamlLine(st, k, line) = [st EXCEPT !.edges = EdgesFrom(st, line)]
    BY <1>2 DEF YamlLine
  <2> QED
    BY <2>1, <2>2 DEF ParseState
<1>3. CASE YamlLine(st, k, line) = st
  BY <1>3
<1> QED
  BY <1>1, <1>2, <1>3 DEF YamlLine

LEMMA TfLineIs ==
  ASSUME NEW N, NEW R, NEW st \in ParseState(N, R), NEW line, IsLine(line, N, R), NEW k \in Nat
  PROVE  TfGraphLine(st, k, line) \in ParseState(N, R)
<1>0. st.depth + line.braces \in Int /\ line.braces \in Int
  BY DEF ParseState, IsLine
<1>1. CASE line.kind = "header"
  <2>1. Decl(line.name, k) \in DeclOf(N)
    BY DEF Decl, DeclOf, IsLine
  <2> PICK d : d = Append(st.decls, Decl(line.name, k))
    OBVIOUS
  <2>2. d \in Seq(DeclOf(N))
    BY <2>1 DEF ParseState
  <2>3. TfGraphLine(st, k, line) = [st EXCEPT !.decls = d, !.active = TRUE, !.depth = line.braces]
    BY <1>1 DEF TfGraphLine
  <2> QED
    BY <1>0, <2>2, <2>3 DEF ParseState
<1>2. CASE line.kind # "header" /\ st.active /\ st.depth + line.braces <= 0
  <2>1. EndActive(st, k) \in Seq(DeclOf(N))
    BY EndActiveIs
  <2>2. TfGraphLine(st, k, line)
          = [st EXCEPT !.decls = EndActive(st, k), !.active = FALSE, !.depth = st.depth + line.braces]
    BY <1>2 DEF TfGraphLine
  <2> QED
    BY <1>0, <2>1, <2>2 DEF ParseState
<1>3. CASE line.kind # "header" /\ st.active /\ ~ (st.depth + line.braces <= 0)
  <2>1. EdgesFrom(st, line) \in SUBSET EdgeOf(R)
    BY EdgesFromIs
  <2>2. TfGraphLine(st, k, line)
          = [st EXCEPT !.edges = EdgesFrom(st, line), !.depth = st.depth + line.braces]
    BY <1>3 DEF TfGraphLine
  <2> QED
    BY <1>0, <2>1, <2>2 DEF ParseState
<1>4. CASE TfGraphLine(st, k, line) = st
  BY <1>4
<1> QED
  BY <1>1, <1>2, <1>3, <1>4 DEF TfGraphLine

(* The states of a scanner after each line. *)
IsFile(lines, N, R) == \A k \in 1 .. Len(lines) : IsLine(lines[k], N, R)

YamlScan(st, lines) ==
    st = [k \in 0 .. Len(lines) |->
             IF k = 0 THEN NothingParsed ELSE YamlLine(st[k - 1], k, lines[k])]

TfScan(st, lines) ==
    st = [k \in 0 .. Len(lines) |->
             IF k = 0 THEN NothingParsed ELSE TfGraphLine(st[k - 1], k, lines[k])]

LEMMA YamlScanExists ==
  ASSUME NEW N, NEW R, NEW E, NEW lines \in Seq(E), IsFile(lines, N, R)
  PROVE  \E st : YamlScan(st, lines) /\ \A k \in 0 .. Len(lines) : st[k] \in ParseState(N, R)
<1> PICK n : n = Len(lines)
  OBVIOUS
<1> PICK S : S = ParseState(N, R)
  OBVIOUS
<1> PICK g : g = [k \in 1 .. n |-> [s \in S |-> YamlLine(s, k, lines[k])]]
  OBVIOUS
<1>1. n \in Nat /\ NothingParsed \in S
  BY DEF NothingParsed, ParseState
<1>2. \A k \in 1 .. n, s \in S : YamlLine(s, k, lines[k]) \in S
  BY YamlLineIs DEF IsFile
<1>3. Rounds(g, n, S)
  BY ONLY <1>2, g = [k \in 1 .. n |-> [s \in S |-> YamlLine(s, k, lines[k])]] DEF Rounds
<1>4. PICK f : IsLoop(f, n, S, NothingParsed, g)
  BY ONLY <1>1, <1>3, LoopExists
<1>5. ASSUME NEW k \in 0 .. n
      PROVE  f[k] = IF k = 0 THEN NothingParsed ELSE YamlLine(f[k - 1], k, lines[k])
  <2>1. k # 0 => k \in 1 .. n /\ k - 1 \in 0 .. n
    BY <1>1
  <2>2. k # 0 => f[k - 1] \in S
    BY ONLY <1>4, <2>1 DEF IsLoop
  <2>3. k # 0 => g[k][f[k - 1]] = YamlLine(f[k - 1], k, lines[k])
    BY ONLY <2>1, <2>2, g = [i \in 1 .. n |-> [s \in S |-> YamlLine(s, i, lines[i])]]
  <2>4. f[k] = IF k = 0 THEN NothingParsed ELSE g[k][f[k - 1]]
    BY ONLY <1>4, k \in 0 .. n DEF IsLoop
  <2> QED
    BY ONLY <2>3, <2>4
<1>6. f = [k \in 0 .. n |-> f[k]]
  BY ONLY <1>4 DEF IsLoop
<1>7. f = [k \in 0 .. n |-> IF k = 0 THEN NothingParsed ELSE YamlLine(f[k - 1], k, lines[k])]
  BY ONLY <1>5, <1>6
<1>8. YamlScan(f, lines)
  BY ONLY <1>7, n = Len(lines) DEF YamlScan
<1>9. \A k \in 0 .. n : f[k] \in S
  BY ONLY <1>4 DEF IsLoop
<1> QED
  BY <1>8, <1>9

LEMMA TfScanExists ==
  ASSUME NEW N, NEW R, NEW E, NEW lines \in Seq(E), IsFile(lines, N, R)
  PROVE  \E st : TfScan(st, lines) /\ \A k \in 0 .. Len(lines) : st[k] \in ParseState(N, R)
<1> PICK n : n = Len(lines)
  OBVIOUS
<1> PICK S : S = ParseState(N, R)
  OBVIOUS
<1> PICK g : g = [k \in 1 .. n |-> [s \in S |-> TfGraphLine(s, k, lines[k])]]
  OBVIOUS
<1>1. n \in Nat /\ NothingParsed \in S
  BY DEF NothingParsed, ParseState
<1>2. \A k \in 1 .. n, s \in S : TfGraphLine(s, k, lines[k]) \in S
  BY TfLineIs DEF IsFile
<1>3. Rounds(g, n, S)
  BY ONLY <1>2, g = [k \in 1 .. n |-> [s \in S |-> TfGraphLine(s, k, lines[k])]] DEF Rounds
<1>4. PICK f : IsLoop(f, n, S, NothingParsed, g)
  BY ONLY <1>1, <1>3, LoopExists
<1>5. ASSUME NEW k \in 0 .. n
      PROVE  f[k] = IF k = 0 THEN NothingParsed ELSE TfGraphLine(f[k - 1], k, lines[k])
  <2>1. k # 0 => k \in 1 .. n /\ k - 1 \in 0 .. n
    BY <1>1
  <2>2. k # 0 => f[k - 1] \in S
    BY ONLY <1>4, <2>1 DEF IsLoop
  <2>3. k # 0 => g[k][f[k - 1]] = TfGraphLine(f[k - 1], k, lines[k])
    BY ONLY <2>1, <2>2, g = [i \in 1 .. n |-> [s \in S |-> TfGraphLine(s, i, lines[i])]]
  <2>4. f[k] = IF k = 0 THEN NothingParsed ELSE g[k][f[k - 1]]
    BY ONLY <1>4, k \in 0 .. n DEF IsLoop
  <2> QED
    BY ONLY <2>3, <2>4
<1>6. f = [k \in 0 .. n |-> f[k]]
  BY ONLY <1>4 DEF IsLoop
<1>7. f = [k \in 0 .. n |-> IF k = 0 THEN NothingParsed ELSE TfGraphLine(f[k - 1], k, lines[k])]
  BY ONLY <1>5, <1>6
<1>8. TfScan(f, lines)
  BY ONLY <1>7, n = Len(lines) DEF TfScan
<1>9. \A k \in 0 .. n : f[k] \in S
  BY ONLY <1>4 DEF IsLoop
<1> QED
  BY <1>8, <1>9

\* Each loop of the code is one of them.
LEMMA YamlGraphIs ==
  ASSUME NEW N, NEW R, NEW E, NEW lines \in Seq(E), IsFile(lines, N, R)
  PROVE  \E st : /\ \A k \in 0 .. Len(lines) : st[k] \in ParseState(N, R)
                 /\ st[0] = NothingParsed
                 /\ \A k \in 1 .. Len(lines) : st[k] = YamlLine(st[k - 1], k, lines[k])
                 /\ YamlGraph(lines) = AtEnd(st[Len(lines)], lines)
<1> DEFINE st == CHOOSE st : st = [k \in 0 .. Len(lines) |->
                    IF k = 0 THEN NothingParsed ELSE YamlLine(st[k - 1], k, lines[k])]
<1>1. PICK g : YamlScan(g, lines) /\ \A k \in 0 .. Len(lines) : g[k] \in ParseState(N, R)
  BY YamlScanExists
<1>2. \E f : YamlScan(f, lines)
  BY <1>1
<1>3. YamlScan(st, lines)
  BY <1>2 DEF YamlScan
<1>4. YamlGraph(lines) = AtEnd(st[Len(lines)], lines)
  BY DEF YamlGraph
<1> HIDE DEF st
<1> PICK n : n = Len(lines)
  OBVIOUS
<1>5. n \in Nat
  OBVIOUS
<1>6. \A k \in 0 .. n : st[k] = IF k = 0 THEN NothingParsed ELSE YamlLine(st[k - 1], k, lines[k])
  BY ONLY <1>3, n = Len(lines) DEF YamlScan
<1>7. st[0] = NothingParsed
  BY ONLY <1>5, <1>6
<1>8. \A k \in 1 .. n : st[k] = YamlLine(st[k - 1], k, lines[k])
  BY ONLY <1>5, <1>6
<1>9. \A k \in 0 .. n : st[k] \in ParseState(N, R)
  <2> PICK K : K = {k \in 0 .. n : st[k] \in ParseState(N, R)}
    OBVIOUS
  <2>0. NothingParsed \in ParseState(N, R)
    BY DEF NothingParsed, ParseState
  <2>1. 0 \in K
    BY <1>5, <1>7, <2>0
  <2>2. ASSUME NEW k \in 0 .. n - 1, k \in K PROVE k + 1 \in K
    <3> PICK j : j = k + 1
      OBVIOUS
    <3>1. j \in 1 .. n /\ j \in 0 .. n /\ j - 1 = k /\ j \in Nat
      BY <1>5
    <3>2. IsLine(lines[j], N, R)
      BY <3>1 DEF IsFile
    <3>3. st[j] = YamlLine(st[k], j, lines[j])
      BY <1>8, <3>1
    <3>4. st[k] \in ParseState(N, R)
      BY <2>2
    <3>5. st[j] \in ParseState(N, R)
      BY ONLY <3>1, <3>2, <3>3, <3>4, YamlLineIs
    <3> QED
      BY <3>1, <3>5
  <2>3. \A k \in 0 .. n : k \in K
    BY ONLY <1>5, <2>1, <2>2, UpTo
  <2> QED
    BY <2>3
<1> QED
  BY <1>4, <1>7, <1>8, <1>9

LEMMA TfGraphIs ==
  ASSUME NEW N, NEW R, NEW E, NEW lines \in Seq(E), IsFile(lines, N, R)
  PROVE  \E st : /\ \A k \in 0 .. Len(lines) : st[k] \in ParseState(N, R)
                 /\ st[0] = NothingParsed
                 /\ \A k \in 1 .. Len(lines) : st[k] = TfGraphLine(st[k - 1], k, lines[k])
                 /\ TfGraph(lines) = AtEnd(st[Len(lines)], lines)
<1> DEFINE st == CHOOSE st : st = [k \in 0 .. Len(lines) |->
                    IF k = 0 THEN NothingParsed ELSE TfGraphLine(st[k - 1], k, lines[k])]
<1>1. PICK g : TfScan(g, lines) /\ \A k \in 0 .. Len(lines) : g[k] \in ParseState(N, R)
  BY TfScanExists
<1>2. \E f : TfScan(f, lines)
  BY <1>1
<1>3. TfScan(st, lines)
  BY <1>2 DEF TfScan
<1>4. TfGraph(lines) = AtEnd(st[Len(lines)], lines)
  BY DEF TfGraph
<1> HIDE DEF st
<1> PICK n : n = Len(lines)
  OBVIOUS
<1>5. n \in Nat
  OBVIOUS
<1>6. \A k \in 0 .. n : st[k] = IF k = 0 THEN NothingParsed ELSE TfGraphLine(st[k - 1], k, lines[k])
  BY ONLY <1>3, n = Len(lines) DEF TfScan
<1>7. st[0] = NothingParsed
  BY ONLY <1>5, <1>6
<1>8. \A k \in 1 .. n : st[k] = TfGraphLine(st[k - 1], k, lines[k])
  BY ONLY <1>5, <1>6
<1>9. \A k \in 0 .. n : st[k] \in ParseState(N, R)
  <2> PICK K : K = {k \in 0 .. n : st[k] \in ParseState(N, R)}
    OBVIOUS
  <2>0. NothingParsed \in ParseState(N, R)
    BY DEF NothingParsed, ParseState
  <2>1. 0 \in K
    BY <1>5, <1>7, <2>0
  <2>2. ASSUME NEW k \in 0 .. n - 1, k \in K PROVE k + 1 \in K
    <3> PICK j : j = k + 1
      OBVIOUS
    <3>1. j \in 1 .. n /\ j \in 0 .. n /\ j - 1 = k /\ j \in Nat
      BY <1>5
    <3>2. IsLine(lines[j], N, R)
      BY <3>1 DEF IsFile
    <3>3. st[j] = TfGraphLine(st[k], j, lines[j])
      BY <1>8, <3>1
    <3>4. st[k] \in ParseState(N, R)
      BY <2>2
    <3>5. st[j] \in ParseState(N, R)
      BY ONLY <3>1, <3>2, <3>3, <3>4, TfLineIs
    <3> QED
      BY <3>1, <3>5
  <2>3. \A k \in 0 .. n : k \in K
    BY ONLY <1>5, <2>1, <2>2, UpTo
  <2> QED
    BY <2>3
<1> QED
  BY <1>4, <1>7, <1>8, <1>9

LEMMA BracesAre ==
  ASSUME NEW N, NEW R, NEW E, NEW lines \in Seq(E), IsFile(lines, N, R)
  PROVE  /\ Braces(lines) \in [0 .. Len(lines) -> Int] /\ Braces(lines)[0] = 0
         /\ \A k \in 1 .. Len(lines) : Braces(lines)[k] = Braces(lines)[k - 1] + lines[k].braces
<1> PICK n : n = Len(lines)
  OBVIOUS
<1> PICK b : b = [k \in 1 .. n |-> lines[k].braces]
  OBVIOUS
<1> PICK g : g = [k \in 1 .. n |-> [s \in Int |-> s + b[k]]]
  OBVIOUS
<1>1. n \in Nat /\ 0 \in Int /\ b \in [1 .. n -> Int]
  BY DEF IsFile, IsLine
<1>2. Rounds(g, n, Int)
  BY ONLY <1>1, g = [k \in 1 .. n |-> [s \in Int |-> s + b[k]]] DEF Rounds
<1>3. PICK f : IsLoop(f, n, Int, 0, g)
  BY ONLY <1>1, <1>2, LoopExists
<1>4. ASSUME NEW k \in 0 .. n
      PROVE  f[k] = IF k = 0 THEN 0 ELSE f[k - 1] + lines[k].braces
  <2>1. k # 0 => k \in 1 .. n /\ k - 1 \in 0 .. n
    BY <1>1
  <2>2. k # 0 => f[k - 1] \in Int
    BY ONLY <1>3, <2>1 DEF IsLoop
  <2>3. k # 0 => g[k][f[k - 1]] = f[k - 1] + b[k]
    BY ONLY <2>1, <2>2, g = [i \in 1 .. n |-> [s \in Int |-> s + b[i]]]
  <2>4. f[k] = IF k = 0 THEN 0 ELSE g[k][f[k - 1]]
    BY ONLY <1>3, k \in 0 .. n DEF IsLoop
  <2>5. k # 0 => b[k] = lines[k].braces
    BY <2>1
  <2> QED
    BY ONLY <2>3, <2>4, <2>5
<1>5. f = [k \in 0 .. n |-> IF k = 0 THEN 0 ELSE f[k - 1] + lines[k].braces]
  <2>1. f = [k \in 0 .. n |-> f[k]]
    BY ONLY <1>3 DEF IsLoop
  <2> QED
    BY ONLY <1>4, <2>1
<1> DEFINE sum == CHOOSE sum : sum = [k \in 0 .. Len(lines) |->
                                  IF k = 0 THEN 0 ELSE sum[k - 1] + lines[k].braces]
<1>6. sum = [k \in 0 .. n |-> IF k = 0 THEN 0 ELSE sum[k - 1] + lines[k].braces]
  BY <1>5
<1>7. Braces(lines) = sum
  BY DEF Braces
<1> HIDE DEF sum
<1>8. /\ sum[0] = 0 /\ \A k \in 1 .. n : sum[k] = sum[k - 1] + lines[k].braces
      /\ sum = [k \in 0 .. n |-> sum[k]]
  <2>1. \A k \in 0 .. n : sum[k] = IF k = 0 THEN 0 ELSE sum[k - 1] + lines[k].braces
    BY ONLY <1>6
  <2>2. n \in Nat
    BY ONLY <1>1
  <2>3. sum = [k \in 0 .. n |-> sum[k]]
    BY ONLY <1>6, <2>1
  <2>4. 0 \in 0 .. n /\ \A k \in 1 .. n : k \in 0 .. n /\ k # 0
    BY ONLY <2>2
  <2> QED
    BY ONLY <2>1, <2>3, <2>4
<1>9. \A k \in 0 .. n : sum[k] \in Int
  <2> PICK K : K = {k \in 0 .. n : sum[k] \in Int}
    OBVIOUS
  <2>1. 0 \in K
    BY <1>1, <1>8
  <2>2. ASSUME NEW k \in 0 .. n - 1, k \in K PROVE k + 1 \in K
    <3> PICK j : j = k + 1
      OBVIOUS
    <3>1. j \in 1 .. n /\ j \in 0 .. n /\ j - 1 = k
      BY <1>1
    <3>2. lines[j].braces \in Int
      BY <3>1 DEF IsFile, IsLine
    <3>3. sum[j] = sum[k] + lines[j].braces
      BY ONLY <1>8, <3>1
    <3>4. sum[k] \in Int
      BY <2>2
    <3>5. sum[j] \in Int
      BY ONLY <3>2, <3>3, <3>4
    <3> QED
      BY <3>1, <3>5
  <2>3. \A k \in 0 .. n : k \in K
    BY ONLY <1>1, <2>1, <2>2, UpTo
  <2> QED
    BY <2>3
<1> QED
  BY <1>7, <1>8, <1>9

(***************************************************************************)
(* Names of lines, and edges by their caller.                              *)
(***************************************************************************)
CalleesOf(edges, i) == {e.callee : e \in {g \in edges : g.caller = i}}

RefsOf(lines, a, b) == UNION {lines[k].refs : k \in a .. b}

CalledBy(edges, m) == \A e \in edges : e.caller \in 1 .. m

LEMMA RefsGrow ==
  ASSUME NEW lines, NEW a \in Nat, NEW b \in Nat, a <= b
  PROVE  RefsOf(lines, a, b) = RefsOf(lines, a, b - 1) \cup lines[b].refs
<1>1. \A k : k \in a .. b <=> k \in a .. b - 1 \/ k = b
  OBVIOUS
<1> QED
  BY ONLY <1>1 DEF RefsOf

LEMMA RefsOfNone ==
  ASSUME NEW lines, NEW a \in Nat, NEW b \in Int, b < a
  PROVE  RefsOf(lines, a, b) = {}
<1>1. a .. b = {}
  OBVIOUS
<1> QED
  BY ONLY <1>1 DEF RefsOf

LEMMA CalleesGrow ==
  ASSUME NEW st, NEW line
  PROVE  LET m == Len(st.decls)
         IN  /\ CalleesOf(EdgesFrom(st, line), m) = CalleesOf(st.edges, m) \cup line.refs
             /\ \A i : i # m => CalleesOf(EdgesFrom(st, line), i) = CalleesOf(st.edges, i)
             /\ m \in Nat \ {0} /\ CalledBy(st.edges, m) => CalledBy(EdgesFrom(st, line), m)
<1> PICK m : m = Len(st.decls)
  OBVIOUS
<1> PICK new : new = {[caller |-> m, callee |-> r] : r \in line.refs}
  OBVIOUS
<1>1. EdgesFrom(st, line) = st.edges \cup new
  BY DEF EdgesFrom
<1>2. \A e \in new : e.caller = m /\ e.callee \in line.refs
  OBVIOUS
<1>3. \A r \in line.refs : \E e \in new : e.caller = m /\ e.callee = r
  <2> TAKE r \in line.refs
  <2>1. [caller |-> m, callee |-> r] \in new
    OBVIOUS
  <2> QED
    BY <2>1
<1>4. CalleesOf(EdgesFrom(st, line), m) = CalleesOf(st.edges, m) \cup line.refs
  BY ONLY <1>1, <1>2, <1>3 DEF CalleesOf
<1>5. \A i : i # m => CalleesOf(EdgesFrom(st, line), i) = CalleesOf(st.edges, i)
  BY ONLY <1>1, <1>2 DEF CalleesOf
<1>6. m \in Nat \ {0} /\ CalledBy(st.edges, m) => CalledBy(EdgesFrom(st, line), m)
  BY ONLY <1>1, <1>2 DEF CalledBy
<1> QED
  BY <1>4, <1>5, <1>6

LEMMA NoCallees ==
  ASSUME NEW edges, NEW m \in Nat, CalledBy(edges, m)
  PROVE  CalleesOf(edges, m + 1) = {} /\ CalledBy(edges, m + 1)
BY DEF CalleesOf, CalledBy

(***************************************************************************)
(* YAML: every state of the scanner has the steps so far, each of which    *)
(* ends where the next one starts, and their references.                   *)
(***************************************************************************)
YamlEnd(d, i, k) == IF i < Len(d) THEN d[i + 1].start - 1 ELSE k

YamlInv(s, k, lines) ==
  /\ s.active <=> Len(s.decls) > 0
  /\ \A i \in 1 .. Len(s.decls) : s.decls[i].start \in 1 .. k
  /\ \A i \in 1 .. Len(s.decls) : i < Len(s.decls) =>
        /\ s.decls[i].end = s.decls[i + 1].start - 1
        /\ s.decls[i].start < s.decls[i + 1].start
  /\ CalledBy(s.edges, Len(s.decls))
  /\ \A i \in 1 .. Len(s.decls) :
        CalleesOf(s.edges, i) = RefsOf(lines, s.decls[i].start, YamlEnd(s.decls, i, k))

LEMMA YamlStep ==
  ASSUME NEW N, NEW R, NEW lines, NEW j \in Nat \ {0}, NEW s \in ParseState(N, R), IsLine(lines[j], N, R),
         YamlInv(s, j - 1, lines), lines[j].kind = "name" => lines[j].refs = {}
  PROVE  YamlInv(YamlLine(s, j, lines[j]), j, lines)
<1> PICK line : line = lines[j]
  OBVIOUS
<1> PICK d : d = s.decls
  OBVIOUS
<1> PICK m : m = Len(d)
  OBVIOUS
<1> PICK t : t = YamlLine(s, j, line)
  OBVIOUS
<1>0. d \in Seq(DeclOf(N)) /\ m \in Nat /\ j \in Int /\ j - 1 \in Int
  BY DEF ParseState
<1>a. \A i \in 1 .. m : d[i].start \in 1 .. j - 1 /\ d[i].start \in Nat
  BY DEF YamlInv
<1>b. \A i \in 1 .. m : i < m => d[i].end = d[i + 1].start - 1 /\ d[i].start < d[i + 1].start
  BY DEF YamlInv
<1>c. CalledBy(s.edges, m) /\ (s.active <=> m > 0)
  BY DEF YamlInv
<1>d. \A i \in 1 .. m : CalleesOf(s.edges, i) = RefsOf(lines, d[i].start, YamlEnd(d, i, j - 1))
  BY DEF YamlInv
<1>e. m > 0 => m \in 1 .. m
  BY <1>0
<1>1. CASE line.kind = "name" /\ line.name # NoName
  <2> PICK e : e = EndActive(s, j - 1)
    OBVIOUS
  <2> PICK d2 : d2 = Append(e, Decl(line.name, j))
    OBVIOUS
  <2>1. /\ e \in Seq(DeclOf(N)) /\ Len(e) = m
        /\ \A i \in 1 .. m : e[i] = IF s.active /\ i = m THEN [d[i] EXCEPT !.end = j - 1] ELSE d[i]
    BY ONLY <1>0, EndActiveIs, s \in ParseState(N, R), d = s.decls, m = Len(d), e = EndActive(s, j - 1)
  <2>2. t.decls = d2 /\ t.active = TRUE /\ t.edges = s.edges
    BY <1>1 DEF YamlLine, ParseState
  <2>3. Decl(line.name, j) \in DeclOf(N) /\ Decl(line.name, j).start = j
    BY DEF Decl, DeclOf, IsLine
  <2>4. Len(d2) = m + 1 /\ d2[m + 1] = Decl(line.name, j) /\ \A i \in 1 .. m : d2[i] = e[i]
    BY ONLY <1>0, <2>1, <2>3, d2 = Append(e, Decl(line.name, j))
  <2>5. \A i \in 1 .. m : e[i].start = d[i].start /\ (i # m => e[i].end = d[i].end) /\ (i = m => e[i].end = j - 1)
    <3> TAKE i \in 1 .. m
    <3>1. d[i] \in DeclOf(N) /\ m > 0
      BY <1>0
    <3> QED
      BY ONLY <1>c, <2>1, <3>1, i \in 1 .. m DEF DeclOf
  <2>6. \A i \in 1 .. m : d2[i].start = d[i].start /\ d2[i].start \in 1 .. j - 1
    BY <1>a, <2>4, <2>5
  <2>7. \A i \in 1 .. m + 1 : d2[i].start \in 1 .. j
    <3> TAKE i \in 1 .. m + 1
    <3>1. CASE i \in 1 .. m
      <4>1. d2[i].start \in 1 .. j - 1
        BY ONLY <2>6, <3>1
      <4> QED
        BY ONLY <1>0, <4>1
    <3>2. CASE i = m + 1
      BY <2>3, <2>4, <3>2
    <3>3. i \in 1 .. m \/ i = m + 1
      BY ONLY <1>0, i \in 1 .. m + 1
    <3> QED
      BY <3>1, <3>2, <3>3
  <2>8. \A i \in 1 .. m : YamlEnd(d2, i, j) = YamlEnd(d, i, j - 1)
    <3> TAKE i \in 1 .. m
    <3>1. i < m + 1 /\ (i < m => i + 1 \in 1 .. m) /\ (~ (i < m) => i + 1 = m + 1 /\ i = m)
      BY <1>0
    <3>2. YamlEnd(d2, i, j) = d2[i + 1].start - 1
      BY <2>4, <3>1 DEF YamlEnd
    <3>3. YamlEnd(d, i, j - 1) = IF i < m THEN d[i + 1].start - 1 ELSE j - 1
      BY DEF YamlEnd
    <3> QED
      BY ONLY <2>3, <2>4, <2>6, <3>1, <3>2, <3>3
  <2>9. \A i \in 1 .. m + 1 : i < m + 1 =>
           d2[i].end = d2[i + 1].start - 1 /\ d2[i].start < d2[i + 1].start
    <3> TAKE i \in 1 .. m + 1
    <3> HAVE i < m + 1
    <3>1. i \in 1 .. m
      BY <1>0
    <3>2. d2[i].end = IF i = m THEN j - 1 ELSE d[i].end
      BY <2>4, <2>5, <3>1
    <3>3. CASE i = m
      BY <1>0, <2>3, <2>4, <2>6, <3>1, <3>2, <3>3
    <3>4. CASE i # m
      <4>1. i < m /\ i + 1 \in 1 .. m
        BY <1>0, <3>1, <3>4
      <4>2. d[i].end = d[i + 1].start - 1 /\ d[i].start < d[i + 1].start
        BY <1>b, <3>1, <4>1
      <4> QED
        BY <2>6, <3>1, <3>2, <3>4, <4>1, <4>2
    <3> QED
      BY <3>3, <3>4
  <2>10. CalledBy(s.edges, m + 1) /\ CalleesOf(s.edges, m + 1) = {}
    BY <1>0, <1>c, NoCallees
  <2>11. RefsOf(lines, j, j) = {}
    <3>1. RefsOf(lines, j, j) = RefsOf(lines, j, j - 1) \cup lines[j].refs
      BY RefsGrow
    <3>2. RefsOf(lines, j, j - 1) = {}
      BY <1>0, RefsOfNone
    <3> QED
      BY <1>1, <3>1, <3>2
  <2>12. \A i \in 1 .. m + 1 : CalleesOf(s.edges, i) = RefsOf(lines, d2[i].start, YamlEnd(d2, i, j))
    <3> TAKE i \in 1 .. m + 1
    <3>1. CASE i \in 1 .. m
      BY <1>d, <2>6, <2>8, <3>1
    <3>2. CASE i = m + 1
      <4>1. ~ (m + 1 < m + 1)
        BY <1>0
      <4>2. YamlEnd(d2, i, j) = j
        BY <2>4, <3>2, <4>1 DEF YamlEnd
      <4> QED
        BY <2>3, <2>4, <2>10, <2>11, <3>2, <4>2
    <3>3. i \in 1 .. m \/ i = m + 1
      BY ONLY <1>0, i \in 1 .. m + 1
    <3> QED
      BY <3>1, <3>2, <3>3
  <2>13. m + 1 > 0
    BY <1>0
  <2> QED
    BY ONLY <2>2, <2>4, <2>7, <2>9, <2>10, <2>12, <2>13, t = YamlLine(s, j, line), line = lines[j] DEF YamlInv
<1>2. CASE line.kind # "name" /\ s.active
  <2>1. m > 0 /\ m \in Nat \ {0}
    BY <1>0, <1>2, <1>c
  <2>2. t.decls = d /\ t.active = s.active /\ t.edges = EdgesFrom(s, line)
    BY <1>2 DEF YamlLine, ParseState
  <2>3. /\ CalledBy(t.edges, m)
        /\ CalleesOf(t.edges, m) = CalleesOf(s.edges, m) \cup line.refs
        /\ \A i : i # m => CalleesOf(t.edges, i) = CalleesOf(s.edges, i)
    <3>1. m = Len(s.decls) /\ CalledBy(s.edges, m)
      BY <1>c
    <3>2. /\ CalleesOf(EdgesFrom(s, line), Len(s.decls)) = CalleesOf(s.edges, Len(s.decls)) \cup line.refs
          /\ \A i : i # Len(s.decls) => CalleesOf(EdgesFrom(s, line), i) = CalleesOf(s.edges, i)
          /\ Len(s.decls) \in Nat \ {0} /\ CalledBy(s.edges, Len(s.decls)) =>
              CalledBy(EdgesFrom(s, line), Len(s.decls))
      BY CalleesGrow
    <3>3. /\ CalleesOf(EdgesFrom(s, line), m) = CalleesOf(s.edges, m) \cup line.refs
          /\ \A i : i # m => CalleesOf(EdgesFrom(s, line), i) = CalleesOf(s.edges, i)
          /\ m \in Nat \ {0} /\ CalledBy(s.edges, m) => CalledBy(EdgesFrom(s, line), m)
      BY ONLY <3>1, <3>2
    <3> QED
      BY ONLY <2>1, <2>2, <3>1, <3>3
  <2>4. \A i \in 1 .. m : CalleesOf(t.edges, i) = RefsOf(lines, d[i].start, YamlEnd(d, i, j))
    <3> TAKE i \in 1 .. m
    <3>1. CASE i = m
      <4>1. ~ (i < m)
        BY <1>0, <3>1
      <4>2. YamlEnd(d, i, j) = j /\ YamlEnd(d, i, j - 1) = j - 1
        BY <4>1 DEF YamlEnd
      <4>3. d[i].start \in Nat /\ d[i].start <= j
        BY <1>0, <1>a
      <4>4. RefsOf(lines, d[i].start, j) = RefsOf(lines, d[i].start, j - 1) \cup lines[j].refs
        BY <4>3, RefsGrow
      <4> QED
        BY <1>d, <2>3, <3>1, <4>2, <4>4
    <3>2. CASE i # m
      <4>1. i < m
        BY <1>0, <3>2
      <4>2. YamlEnd(d, i, j) = YamlEnd(d, i, j - 1)
        BY <4>1 DEF YamlEnd
      <4> QED
        BY <1>d, <2>3, <3>2, <4>2
    <3> QED
      BY <3>1, <3>2
  <2>5. \A i \in 1 .. m : d[i].start \in 1 .. j
    BY <1>0, <1>a
  <2> QED
    BY ONLY <1>b, <1>c, <2>2, <2>3, <2>4, <2>5, t = YamlLine(s, j, line), line = lines[j], m = Len(d) DEF YamlInv
<1>3. CASE t = s /\ (line.refs = {} \/ m = 0)
  <2>1. \A i \in 1 .. m : d[i].start \in 1 .. j
    BY <1>0, <1>a
  <2>2. \A i \in 1 .. m : CalleesOf(s.edges, i) = RefsOf(lines, d[i].start, YamlEnd(d, i, j))
    <3> TAKE i \in 1 .. m
    <3>1. CASE i = m
      <4>1. ~ (i < m) /\ m # 0
        BY <1>0, <3>1
      <4>2. YamlEnd(d, i, j) = j /\ YamlEnd(d, i, j - 1) = j - 1
        BY <4>1 DEF YamlEnd
      <4>3. d[i].start \in Nat /\ d[i].start <= j
        BY <1>0, <1>a
      <4>4. RefsOf(lines, d[i].start, j) = RefsOf(lines, d[i].start, j - 1) \cup lines[j].refs
        BY <4>3, RefsGrow
      <4> QED
        BY <1>3, <1>d, <3>1, <4>1, <4>2, <4>4
    <3>2. CASE i # m
      <4>1. i < m
        BY <1>0, <3>2
      <4>2. YamlEnd(d, i, j) = YamlEnd(d, i, j - 1)
        BY <4>1 DEF YamlEnd
      <4> QED
        BY <1>d, <4>2
    <3> QED
      BY <3>1, <3>2
  <2> QED
    BY ONLY <1>3, <1>b, <1>c, <2>1, <2>2, t = YamlLine(s, j, line), line = lines[j], m = Len(d), d = s.decls DEF YamlInv
<1>4. \/ line.kind = "name" /\ line.name # NoName
      \/ line.kind # "name" /\ s.active
      \/ t = s /\ (line.refs = {} \/ m = 0)
  BY <1>0, <1>c DEF YamlLine
<1> QED
  BY <1>1, <1>2, <1>3, <1>4

\* A line is a record; what declares a step is not searched for references.
IsYaml(lines, N, R) ==
    IsFile(lines, N, R) /\ \A k \in 1 .. Len(lines) : lines[k].kind = "name" => lines[k].refs = {}

StepsTile(lines) ==
    LET decls == YamlGraph(lines).decls
        edges == YamlGraph(lines).edges
    IN  /\ \A i \in DOMAIN decls :
             decls[i].end = IF i < Len(decls) THEN decls[i + 1].start - 1 ELSE Len(lines)
        /\ \A i \in DOMAIN decls :
             {e.callee : e \in {g \in edges : g.caller = i}}
               = UNION {lines[k].refs : k \in decls[i].start .. decls[i].end}

LEMMA YamlTiles ==
  ASSUME NEW N, NEW R, NEW E, NEW lines \in Seq(E), IsYaml(lines, N, R)
  PROVE  StepsTile(lines)
<1> PICK n : n = Len(lines)
  OBVIOUS
<1>0. n \in Nat /\ n \in 0 .. n /\ IsFile(lines, N, R)
  BY DEF IsYaml
<1> PICK st : /\ \A k \in 0 .. n : st[k] \in ParseState(N, R)
              /\ st[0] = NothingParsed
              /\ \A k \in 1 .. n : st[k] = YamlLine(st[k - 1], k, lines[k])
              /\ YamlGraph(lines) = AtEnd(st[n], lines)
  BY ONLY <1>0, YamlGraphIs, n = Len(lines), lines \in Seq(E)
<1> PICK K : K = {k \in 0 .. n : YamlInv(st[k], k, lines)}
  OBVIOUS
<1>1. 0 \in K
  <2>1. st[0].decls = <<>> /\ st[0].active = FALSE /\ st[0].edges = {}
    BY DEF NothingParsed
  <2>2. YamlInv(st[0], 0, lines)
    BY <2>1 DEF YamlInv, CalledBy
  <2> QED
    BY <1>0, <2>2
<1>2. ASSUME NEW k \in 0 .. n - 1, k \in K PROVE k + 1 \in K
  <2> PICK j : j = k + 1
    OBVIOUS
  <2>1. j \in 1 .. n /\ j \in 0 .. n /\ j - 1 = k /\ j \in Nat \ {0} /\ k \in 0 .. n
    BY <1>0
  <2>2. IsLine(lines[j], N, R) /\ (lines[j].kind = "name" => lines[j].refs = {})
    BY <2>1 DEF IsYaml, IsFile
  <2>3. st[j] = YamlLine(st[k], j, lines[j]) /\ st[k] \in ParseState(N, R)
    BY <2>1
  <2>4. YamlInv(st[k], j - 1, lines)
    BY <1>2, <2>1
  <2>5. YamlInv(st[j], j, lines)
    BY ONLY <2>1, <2>2, <2>3, <2>4, YamlStep
  <2> QED
    BY <2>1, <2>5
<1>3. \A k \in 0 .. n : k \in K
  BY ONLY <1>0, <1>1, <1>2, UpTo
<1> PICK s : s = st[n]
  OBVIOUS
<1>4. YamlInv(s, n, lines) /\ s \in ParseState(N, R)
  BY <1>0, <1>3
<1> PICK d : d = s.decls
  OBVIOUS
<1> PICK e : e = EndActive(s, n)
  OBVIOUS
<1> PICK m : m = Len(d)
  OBVIOUS
<1>5. /\ e \in Seq(DeclOf(N)) /\ Len(e) = m
      /\ \A i \in 1 .. m : e[i] = IF s.active /\ i = m THEN [d[i] EXCEPT !.end = n] ELSE d[i]
  <2>1. n \in Int
    BY <1>0
  <2>2. /\ EndActive(s, n) \in Seq(DeclOf(N)) /\ Len(EndActive(s, n)) = Len(s.decls)
        /\ \A i \in 1 .. Len(s.decls) :
              EndActive(s, n)[i] = IF s.active /\ i = Len(s.decls)
                                   THEN [s.decls[i] EXCEPT !.end = n] ELSE s.decls[i]
    BY ONLY <1>4, <2>1, EndActiveIs
  <2> QED
    BY ONLY <2>2, d = s.decls, e = EndActive(s, n), m = Len(d)
<1>6. m \in Nat /\ \A i \in 1 .. m : d[i] \in DeclOf(N)
  BY <1>4 DEF ParseState
<1>7. YamlGraph(lines).decls = e /\ YamlGraph(lines).edges = s.edges
  BY DEF AtEnd
<1>8. DOMAIN e = 1 .. m
  BY <1>5
<1>9. \A i \in 1 .. m : e[i].start = d[i].start
  BY ONLY <1>5, <1>6 DEF DeclOf
<1>10. \A i \in 1 .. m : e[i].end = IF i < m THEN d[i + 1].start - 1 ELSE n
  <2> TAKE i \in 1 .. m
  <2>1. s.active
    BY <1>4, <1>6 DEF YamlInv
  <2>2. CASE i = m
    <3>1. e[i] = [d[i] EXCEPT !.end = n] /\ ~ (i < m)
      BY ONLY <1>5, <1>6, <2>1, <2>2, i \in 1 .. m
    <3>2. d[i] \in DeclOf(N)
      BY <1>6
    <3> QED
      BY ONLY <3>1, <3>2 DEF DeclOf
  <2>3. CASE i # m
    <3>1. i < m
      BY <1>6, <2>3
    <3>2. d[i].end = d[i + 1].start - 1
      BY <1>4, <3>1 DEF YamlInv
    <3> QED
      BY <1>5, <2>3, <3>1, <3>2
  <2> QED
    BY <2>2, <2>3
<1>11. \A i \in 1 .. m : e[i].end = IF i < m THEN e[i + 1].start - 1 ELSE n
  <2> TAKE i \in 1 .. m
  <2>1. i < m => i + 1 \in 1 .. m
    BY <1>6
  <2> QED
    BY ONLY <1>9, <1>10, <2>1, i \in 1 .. m
<1>12. \A i \in 1 .. m : e[i].end = YamlEnd(d, i, n)
  BY ONLY <1>10, m = Len(d) DEF YamlEnd
<1>13. \A i \in 1 .. m : CalleesOf(s.edges, i) = RefsOf(lines, e[i].start, e[i].end)
  BY ONLY <1>4, <1>9, <1>12, d = s.decls, m = Len(d) DEF YamlInv
<1>14. \A i \in 1 .. m : {x.callee : x \in {g \in s.edges : g.caller = i}}
                           = UNION {lines[k].refs : k \in e[i].start .. e[i].end}
  BY ONLY <1>13 DEF CalleesOf, RefsOf
<1> QED
  BY ONLY <1>5, <1>7, <1>8, <1>11, <1>14, n = Len(lines) DEF StepsTile

(***************************************************************************)
(* Terraform: every state of the scanner has the headers so far; all but   *)
(* an active block end where their braces balance.                         *)
(***************************************************************************)
\* The block of a header that has ended, and one whose braces are still open.
Ended(d, callees, lines) ==
    d.end \in BlockEnds(lines, d.start) /\ callees = RefsOf(lines, d.start + 1, d.end)

Open(d, callees, depth, lines, k) ==
    /\ d.start \in Headers(lines)
    /\ depth = Braces(lines)[k] - Braces(lines)[d.start - 1]
    /\ \A j \in d.start .. k : Braces(lines)[j] - Braces(lines)[d.start - 1] > 0
    /\ callees = RefsOf(lines, d.start + 1, k)

HeadersTo(lines, k) == Ascending(Headers(lines), k)

TfInv(s, k, lines) ==
  /\ Len(s.decls) = Len(HeadersTo(lines, k))
  /\ \A i \in 1 .. Len(s.decls) : s.decls[i].start = HeadersTo(lines, k)[i] /\ s.decls[i].start \in 1 .. k
  /\ CalledBy(s.edges, Len(s.decls))
  /\ s.active => /\ Len(s.decls) > 0
                 /\ Open(s.decls[Len(s.decls)], CalleesOf(s.edges, Len(s.decls)), s.depth, lines, k)
  /\ \A i \in 1 .. Len(s.decls) : (s.active => i < Len(s.decls)) =>
        Ended(s.decls[i], CalleesOf(s.edges, i), lines)

\* What fits the braces of a file of n lines.
LEMMA OpenBlockEnds ==
  ASSUME NEW N, NEW R, NEW E, NEW lines \in Seq(E), IsFile(lines, N, R), TfFormatted(lines),
         NEW k \in 0 .. Len(lines), NEW d, NEW callees, NEW depth, Open(d, callees, depth, lines, k),
         d.start \in 1 .. k
  PROVE  \E end \in k + 1 .. Len(lines) :
            /\ end \in BlockEnds(lines, d.start)
            /\ lines[end].refs = {} /\ \A j \in k + 1 .. end : j \notin Headers(lines)
            /\ Braces(lines)[end] - Braces(lines)[d.start - 1] = 0
            /\ \A j \in k + 1 .. end - 1 : Braces(lines)[j] - Braces(lines)[d.start - 1] > 0
<1> PICK n : n = Len(lines)
  OBVIOUS
<1> PICK a : a = d.start
  OBVIOUS
<1> PICK b : b = Braces(lines)
  OBVIOUS
<1>1. n \in Nat /\ b \in [0 .. n -> Int]
  BY BracesAre
<1>2. PICK end \in BlockEnds(lines, a) :
         end > a /\ lines[end].refs = {} /\ Headers(lines) \cap (a + 1 .. end) = {}
  BY DEF Open, TfFormatted
<1>3. /\ end \in a .. n /\ b[end] - b[a - 1] = 0
      /\ \A m \in a .. end - 1 : b[m] - b[a - 1] > 0
  BY DEF BlockEnds, Balanced
<1>4. a \in 1 .. k /\ k \in 0 .. n /\ \A j \in a .. k : b[j] - b[a - 1] > 0
  BY DEF Open
<1>5. end \in k + 1 .. n
  <2>1. end \notin a .. k
    BY ONLY <1>3, <1>4
  <2> QED
    BY ONLY <1>1, <1>3, <1>4, <2>1
<1>6. \A j \in k + 1 .. end : j \in a + 1 .. end
  BY ONLY <1>1, <1>4
<1>7. \A j \in k + 1 .. end : j \notin Headers(lines)
  BY ONLY <1>2, <1>6
<1>8. \A j \in k + 1 .. end - 1 : j \in a .. end - 1
  BY ONLY <1>1, <1>4
<1> QED
  BY <1>2, <1>3, <1>5, <1>7, <1>8

LEMMA TfStep ==
  ASSUME NEW N, NEW R, NEW E, NEW lines \in Seq(E), IsFile(lines, N, R), TfFormatted(lines),
         NEW j \in 1 .. Len(lines), NEW s \in ParseState(N, R), TfInv(s, j - 1, lines)
  PROVE  TfInv(TfGraphLine(s, j, lines[j]), j, lines)
<1> PICK line : line = lines[j]
  OBVIOUS
<1> PICK d : d = s.decls
  OBVIOUS
<1> PICK m : m = Len(d)
  OBVIOUS
<1> PICK t : t = TfGraphLine(s, j, line)
  OBVIOUS
<1> PICK k : k = j - 1
  OBVIOUS
<1> PICK b : b = Braces(lines)
  OBVIOUS
<1>0. d \in Seq(DeclOf(N)) /\ m \in Nat /\ \A i \in 1 .. m : d[i] \in DeclOf(N)
  BY DEF ParseState
<1>j. j \in Nat /\ j # 0 /\ k \in Nat /\ j - 1 = k /\ k + 1 = j /\ k \in 0 .. Len(lines) /\ j \in DOMAIN lines
  OBVIOUS
<1>b. /\ b \in [0 .. Len(lines) -> Int] /\ b[j] = b[k] + line.braces /\ line.braces \in Int
      /\ b[j] \in Int /\ b[k] \in Int
  <2>1. line.braces \in Int
    BY DEF IsFile, IsLine
  <2>2. /\ b \in [0 .. Len(lines) -> Int]
        /\ \A i \in 1 .. Len(lines) : b[i] = b[i - 1] + lines[i].braces
    BY BracesAre
  <2>3. j \in 0 .. Len(lines)
    OBVIOUS
  <2> QED
    BY <1>j, <2>1, <2>2, <2>3
<1> PICK h, h2 : h = HeadersTo(lines, k) /\ h2 = HeadersTo(lines, j)
  OBVIOUS
<1>h. h2 = (IF line.kind = "header" THEN Append(h, j) ELSE h) /\ h \in Seq(1 .. k)
  <2>1. j \in Headers(lines) <=> line.kind = "header"
    BY <1>j DEF Headers
  <2>2. Ascending(Headers(lines), j) = IF j = 0 THEN <<>>
           ELSE IF j \in Headers(lines) THEN Append(Ascending(Headers(lines), j - 1), j)
           ELSE Ascending(Headers(lines), j - 1)
    BY ONLY <1>j, AscendingStep
  <2>3. Ascending(Headers(lines), k) \in Seq(1 .. k)
    BY ONLY <1>j, AscendingIs
  <2> QED
    BY ONLY <1>j, <2>1, <2>2, <2>3, h = HeadersTo(lines, k), h2 = HeadersTo(lines, j) DEF HeadersTo
<1>i. TfInv(s, k, lines)
  BY <1>j
<1>a. m = Len(h) /\ \A i \in 1 .. m : d[i].start = h[i] /\ d[i].start \in 1 .. k
  BY ONLY <1>i, d = s.decls, m = Len(d), h = HeadersTo(lines, k) DEF TfInv
<1>c. CalledBy(s.edges, m)
  BY <1>i DEF TfInv
<1>d. s.active => m > 0 /\ m \in 1 .. m /\ Open(d[m], CalleesOf(s.edges, m), s.depth, lines, k)
  BY <1>0, <1>i DEF TfInv
<1>e. \A i \in 1 .. m : (s.active => i < m) => Ended(d[i], CalleesOf(s.edges, i), lines)
  BY ONLY <1>i, d = s.decls, m = Len(d) DEF TfInv
<1>f. s.active => \E end \in j .. Len(lines) :
            /\ end \in BlockEnds(lines, d[m].start)
            /\ lines[end].refs = {} /\ \A i \in j .. end : i \notin Headers(lines)
            /\ b[end] - b[d[m].start - 1] = 0
            /\ \A i \in j .. end - 1 : b[i] - b[d[m].start - 1] > 0
  <2> HAVE s.active
  <2>1. Open(d[m], CalleesOf(s.edges, m), s.depth, lines, k) /\ d[m].start \in 1 .. k
    BY <1>a, <1>d
  <2>2. \E end \in k + 1 .. Len(lines) :
            /\ end \in BlockEnds(lines, d[m].start)
            /\ lines[end].refs = {} /\ \A i \in k + 1 .. end : i \notin Headers(lines)
            /\ Braces(lines)[end] - Braces(lines)[d[m].start - 1] = 0
            /\ \A i \in k + 1 .. end - 1 : Braces(lines)[i] - Braces(lines)[d[m].start - 1] > 0
    BY ONLY <1>j, <2>1, lines \in Seq(E), IsFile(lines, N, R), TfFormatted(lines), OpenBlockEnds
  <2> QED
    BY ONLY <1>j, <2>2, b = Braces(lines)
<1>g. s.active => d[m].start - 1 \in 0 .. Len(lines) /\ b[d[m].start - 1] \in Int
  <2> HAVE s.active
  <2>1. d[m].start \in 1 .. k
    BY <1>a, <1>d
  <2>2. d[m].start - 1 \in 0 .. Len(lines)
    BY ONLY <1>j, <2>1
  <2> QED
    BY <1>b, <2>2
<1>1. CASE line.kind = "header"
  <2>0. j \in Headers(lines)
    BY <1>1, <1>j DEF Headers
  <2>1. ~ s.active
    BY <1>f, <1>j, <2>0
  <2> PICK d2 : d2 = Append(d, Decl(line.name, j))
    OBVIOUS
  <2>2. t.decls = d2 /\ t.active = TRUE /\ t.edges = s.edges /\ t.depth = line.braces
    BY <1>1 DEF TfGraphLine, ParseState
  <2>3. Decl(line.name, j).start = j /\ Decl(line.name, j) \in DeclOf(N)
    BY <1>j DEF Decl, DeclOf, IsFile, IsLine
  <2>4. Len(d2) = m + 1 /\ d2[m + 1] = Decl(line.name, j) /\ \A i \in 1 .. m : d2[i] = d[i]
    BY ONLY <1>0, <2>3, d2 = Append(d, Decl(line.name, j)), m = Len(d)
  <2>5. Len(h2) = m + 1 /\ h2[m + 1] = j /\ \A i \in 1 .. m : h2[i] = h[i]
    BY ONLY <1>1, <1>a, <1>h, <1>j
  <2>6. \A i : i \in 1 .. m + 1 <=> i \in 1 .. m \/ i = m + 1
    BY ONLY <1>0
  <2>7. \A i \in 1 .. m + 1 : d2[i].start = h2[i] /\ d2[i].start \in 1 .. j
    <3> TAKE i \in 1 .. m + 1
    <3>1. CASE i \in 1 .. m
      BY ONLY <1>a, <1>j, <2>4, <2>5, <3>1
    <3>2. CASE i = m + 1
      BY ONLY <1>j, <2>3, <2>4, <2>5, <3>2
    <3> QED
      BY <2>6, <3>1, <3>2
  <2>8. CalledBy(s.edges, m + 1) /\ CalleesOf(s.edges, m + 1) = {}
    BY <1>0, <1>c, NoCallees
  <2>9. Open(d2[m + 1], CalleesOf(s.edges, m + 1), line.braces, lines, j)
    <3>1. RefsOf(lines, j + 1, j) = {}
      BY <1>j, RefsOfNone
    <3>2. PICK end \in BlockEnds(lines, j) : end > j
      BY <2>0 DEF TfFormatted
    <3>3. b[j] - b[j - 1] > 0
      BY <1>j, <3>2 DEF BlockEnds, Balanced
    <3>4. \A i \in j .. j : b[i] - b[j - 1] > 0
      BY ONLY <1>j, <3>3
    <3>5. line.braces = b[j] - b[j - 1]
      BY ONLY <1>b, <1>j
    <3> QED
      BY ONLY <2>0, <2>3, <2>4, <2>8, <3>1, <3>4, <3>5, b = Braces(lines) DEF Open
  <2>10. \A i \in 1 .. m + 1 : i < m + 1 => Ended(d2[i], CalleesOf(s.edges, i), lines)
    <3> TAKE i \in 1 .. m + 1
    <3> HAVE i < m + 1
    <3>1. i \in 1 .. m
      BY ONLY <1>0, i \in 1 .. m + 1, i < m + 1
    <3> QED
      BY ONLY <1>e, <2>1, <2>4, <3>1
  <2>11. m + 1 > 0
    BY <1>0
  <2> QED
    BY ONLY <2>2, <2>4, <2>5, <2>7, <2>8, <2>9, <2>10, <2>11, h2 = HeadersTo(lines, j),
            t = TfGraphLine(s, j, line), line = lines[j] DEF TfInv
<1>2. CASE line.kind # "header" /\ ~ s.active
  <2>1. t = s
    BY <1>2 DEF TfGraphLine
  <2>2. h2 = h
    BY <1>2, <1>h
  <2>3. \A i \in 1 .. m : d[i].start \in 1 .. j
    BY ONLY <1>a, <1>j
  <2> QED
    BY ONLY <1>2, <1>a, <1>c, <1>e, <2>1, <2>2, <2>3, d = s.decls, m = Len(d), h2 = HeadersTo(lines, j),
            t = TfGraphLine(s, j, line), line = lines[j] DEF TfInv
<1>3. CASE line.kind # "header" /\ s.active
  <2> PICK a : a = d[m].start
    OBVIOUS
  <2>0. a \in 1 .. k /\ a \in Nat /\ a + 1 \in Nat /\ a + 1 <= j /\ m \in 1 .. m /\ m \in Nat \ {0}
    <3>1. m \in 1 .. m /\ m \in Nat \ {0}
      BY ONLY <1>0, <1>3, <1>d
    <3>2. a \in 1 .. k
      BY ONLY <1>a, <3>1, a = d[m].start
    <3> QED
      BY ONLY <1>j, <3>1, <3>2
  <2>1. Open(d[m], CalleesOf(s.edges, m), s.depth, lines, k)
    BY <1>3, <1>d
  <2>2. /\ s.depth = b[k] - b[a - 1] /\ CalleesOf(s.edges, m) = RefsOf(lines, a + 1, k)
        /\ \A i \in a .. k : b[i] - b[a - 1] > 0
        /\ a \in Headers(lines)
    BY ONLY <2>1, a = d[m].start, b = Braces(lines) DEF Open
  <2>3. s.depth + line.braces = b[j] - b[a - 1]
    BY ONLY <1>3, <1>b, <1>g, <2>2, a = d[m].start
  <2>4. RefsOf(lines, a + 1, j) = RefsOf(lines, a + 1, k) \cup line.refs
    <3>1. RefsOf(lines, a + 1, j) = RefsOf(lines, a + 1, j - 1) \cup lines[j].refs
      BY ONLY <1>j, <2>0, RefsGrow
    <3> QED
      BY ONLY <1>j, <3>1, line = lines[j]
  <2>5. PICK end \in j .. Len(lines) :
            /\ end \in BlockEnds(lines, a)
            /\ lines[end].refs = {} /\ b[end] - b[a - 1] = 0
            /\ \A i \in j .. end - 1 : b[i] - b[a - 1] > 0
    BY ONLY <1>3, <1>f, a = d[m].start
  <2>6. h2 = h /\ \A i \in 1 .. m : d[i].start \in 1 .. j
    BY <1>3, <1>a, <1>h, <1>j
  <2>7. CASE s.depth + line.braces <= 0
    <3>1. end = j
      <4>1. j \notin j .. end - 1
        BY ONLY <1>b, <1>g, <1>3, <2>3, <2>5, <2>7, a = d[m].start
      <4> QED
        BY ONLY <1>j, <4>1, end \in j .. Len(lines)
    <3> PICK e : e = EndActive(s, j)
      OBVIOUS
    <3>2. /\ e \in Seq(DeclOf(N)) /\ Len(e) = m
          /\ \A i \in 1 .. m : e[i] = IF s.active /\ i = m THEN [d[i] EXCEPT !.end = j] ELSE d[i]
      <4>1. j \in Int
        BY <1>j
      <4>2. /\ EndActive(s, j) \in Seq(DeclOf(N)) /\ Len(EndActive(s, j)) = Len(s.decls)
            /\ \A i \in 1 .. Len(s.decls) :
                  EndActive(s, j)[i] = IF s.active /\ i = Len(s.decls)
                                       THEN [s.decls[i] EXCEPT !.end = j] ELSE s.decls[i]
        BY ONLY <4>1, s \in ParseState(N, R), EndActiveIs
      <4> QED
        BY ONLY <4>2, d = s.decls, e = EndActive(s, j), m = Len(d)
    <3>3. t.decls = e /\ t.active = FALSE /\ t.edges = s.edges
      BY <1>3, <2>7 DEF TfGraphLine, ParseState
    <3>4. \A i \in 1 .. m : e[i].start = d[i].start /\ (i # m => e[i] = d[i]) /\ (i = m => e[i].end = j)
      <4> TAKE i \in 1 .. m
      <4>1. d[i] \in DeclOf(N)
        BY <1>0
      <4> QED
        BY ONLY <1>3, <3>2, <4>1, i \in 1 .. m DEF DeclOf
    <3>5. Ended(e[m], CalleesOf(s.edges, m), lines)
      <4>1. e[m].end = j /\ e[m].start = a
        BY <2>0, <3>4
      <4>2. CalleesOf(s.edges, m) = RefsOf(lines, a + 1, j)
        BY <2>2, <2>4, <2>5, <3>1
      <4> QED
        BY ONLY <2>5, <3>1, <4>1, <4>2 DEF Ended
    <3>6. \A i \in 1 .. m : Ended(e[i], CalleesOf(s.edges, i), lines)
      <4> TAKE i \in 1 .. m
      <4>1. CASE i = m
        BY <3>5, <4>1
      <4>2. CASE i # m
        <5>1. i < m
          BY ONLY <1>0, <4>2, i \in 1 .. m
        <5> QED
          BY ONLY <1>e, <3>4, <4>2, <5>1, i \in 1 .. m
      <4> QED
        BY <4>1, <4>2
    <3> QED
      BY ONLY <1>a, <1>c, <2>6, <3>2, <3>3, <3>4, <3>6, h2 = HeadersTo(lines, j),
              t = TfGraphLine(s, j, line), line = lines[j] DEF TfInv
  <2>8. CASE ~ (s.depth + line.braces <= 0)
    <3>1. t.decls = d /\ t.active = TRUE /\ t.edges = EdgesFrom(s, line) /\ t.depth = s.depth + line.braces
      BY <1>3, <2>8 DEF TfGraphLine, ParseState
    <3>2. /\ CalledBy(t.edges, m)
          /\ CalleesOf(t.edges, m) = CalleesOf(s.edges, m) \cup line.refs
          /\ \A i : i # m => CalleesOf(t.edges, i) = CalleesOf(s.edges, i)
      <4>1. m = Len(s.decls)
        OBVIOUS
      <4>2. /\ CalleesOf(EdgesFrom(s, line), Len(s.decls)) = CalleesOf(s.edges, Len(s.decls)) \cup line.refs
            /\ \A i : i # Len(s.decls) => CalleesOf(EdgesFrom(s, line), i) = CalleesOf(s.edges, i)
            /\ Len(s.decls) \in Nat \ {0} /\ CalledBy(s.edges, Len(s.decls)) =>
                CalledBy(EdgesFrom(s, line), Len(s.decls))
        BY CalleesGrow
      <4>3. /\ CalleesOf(EdgesFrom(s, line), m) = CalleesOf(s.edges, m) \cup line.refs
            /\ \A i : i # m => CalleesOf(EdgesFrom(s, line), i) = CalleesOf(s.edges, i)
            /\ m \in Nat \ {0} /\ CalledBy(s.edges, m) => CalledBy(EdgesFrom(s, line), m)
        BY ONLY <4>1, <4>2
      <4> QED
        BY ONLY <1>c, <2>0, <3>1, <4>3
    <3>3. Open(d[m], CalleesOf(t.edges, m), t.depth, lines, j)
      <4>1. \A i \in a .. j : b[i] - b[a - 1] > 0
        <5> TAKE i \in a .. j
        <5>1. CASE i = j
          BY ONLY <1>b, <1>g, <1>3, <2>3, <2>8, <5>1, a = d[m].start
        <5>2. CASE i # j
          <6>1. i \in a .. k
            BY ONLY <1>j, <2>0, <5>2, i \in a .. j
          <6> QED
            BY ONLY <2>2, <6>1
        <5> QED
          BY <5>1, <5>2
      <4>2. CalleesOf(t.edges, m) = RefsOf(lines, a + 1, j)
        BY <2>2, <2>4, <3>2
      <4> QED
        BY ONLY <2>2, <2>3, <3>1, <4>1, <4>2, a = d[m].start, b = Braces(lines) DEF Open
    <3>4. \A i \in 1 .. m : i < m => Ended(d[i], CalleesOf(t.edges, i), lines)
      <4> TAKE i \in 1 .. m
      <4> HAVE i < m
      <4>1. i # m
        BY ONLY <1>0, i \in 1 .. m, i < m
      <4> QED
        BY ONLY <1>e, <3>2, <4>1, i \in 1 .. m, i < m
    <3>5. m > 0
      BY <2>0
    <3> QED
      BY ONLY <1>a, <2>6, <3>1, <3>2, <3>3, <3>4, <3>5, h2 = HeadersTo(lines, j), m = Len(d),
              t = TfGraphLine(s, j, line), line = lines[j] DEF TfInv
  <2> QED
    BY <2>7, <2>8
<1> QED
  BY <1>1, <1>2, <1>3

BlocksExact(lines) ==
    LET graph == TfGraph(lines)
        heads == Ascending(Headers(lines), Len(lines))
    IN  /\ Len(graph.decls) = Len(heads)
        /\ \A i \in DOMAIN heads :
             LET d == graph.decls[i]
             IN  /\ d.start = heads[i] /\ d.end \in BlockEnds(lines, d.start)
                 /\ {e.callee : e \in {g \in graph.edges : g.caller = i}}
                      = UNION {lines[k].refs : k \in d.start + 1 .. d.end}

LEMMA TfBlocks ==
  ASSUME NEW N, NEW R, NEW E, NEW lines \in Seq(E), IsFile(lines, N, R), TfFormatted(lines)
  PROVE  BlocksExact(lines)
<1> PICK n : n = Len(lines)
  OBVIOUS
<1>0. n \in Nat /\ n \in 0 .. n
  OBVIOUS
<1> PICK st : /\ \A k \in 0 .. n : st[k] \in ParseState(N, R)
              /\ st[0] = NothingParsed
              /\ \A k \in 1 .. n : st[k] = TfGraphLine(st[k - 1], k, lines[k])
              /\ TfGraph(lines) = AtEnd(st[n], lines)
  BY TfGraphIs
<1> PICK K : K = {k \in 0 .. n : TfInv(st[k], k, lines)}
  OBVIOUS
<1>1. 0 \in K
  <2>1. st[0].decls = <<>> /\ st[0].active = FALSE /\ st[0].edges = {}
    BY DEF NothingParsed
  <2>2. HeadersTo(lines, 0) = <<>>
    BY AscendingStep DEF HeadersTo
  <2>3. TfInv(st[0], 0, lines)
    BY <2>1, <2>2 DEF TfInv, CalledBy
  <2> QED
    BY <1>0, <2>3
<1>2. ASSUME NEW k \in 0 .. n - 1, k \in K PROVE k + 1 \in K
  <2> PICK j : j = k + 1
    OBVIOUS
  <2>1. j \in 1 .. n /\ j \in 0 .. n /\ j - 1 = k /\ k \in 0 .. n
    BY <1>0
  <2>2. st[j] = TfGraphLine(st[k], j, lines[j]) /\ st[k] \in ParseState(N, R)
    BY <2>1
  <2>3. TfInv(st[k], j - 1, lines)
    BY <1>2, <2>1
  <2>4. TfInv(st[j], j, lines)
    BY ONLY <2>1, <2>2, <2>3, n = Len(lines), lines \in Seq(E), IsFile(lines, N, R), TfFormatted(lines), TfStep
  <2> QED
    BY <2>1, <2>4
<1>3. \A k \in 0 .. n : k \in K
  BY ONLY <1>0, <1>1, <1>2, UpTo
<1> PICK s : s = st[n]
  OBVIOUS
<1>4. TfInv(s, n, lines) /\ s \in ParseState(N, R)
  BY <1>0, <1>3
<1> PICK d : d = s.decls
  OBVIOUS
<1> PICK m : m = Len(d)
  OBVIOUS
<1>5. ~ s.active
  <2> SUFFICES ASSUME s.active PROVE FALSE
    OBVIOUS
  <2>1. Open(d[m], CalleesOf(s.edges, m), s.depth, lines, n) /\ d[m].start \in 1 .. n
    <3>1. m > 0 /\ m \in Nat
      BY <1>4 DEF TfInv, ParseState
    <3>2. m \in 1 .. m
      BY <3>1
    <3> QED
      BY ONLY <1>4, <3>2, s.active, d = s.decls, m = Len(d) DEF TfInv
  <2>2. n + 1 .. n = {}
    BY <1>0
  <2>3. \E end \in n + 1 .. n : TRUE
    BY ONLY <1>0, <2>1, n = Len(lines), lines \in Seq(E), IsFile(lines, N, R), TfFormatted(lines), OpenBlockEnds
  <2> QED
    BY <2>2, <2>3
<1> PICK heads : heads = Ascending(Headers(lines), n)
  OBVIOUS
<1>6. Len(heads) = m /\ heads \in Seq(1 .. n)
  <2>1. heads \in Seq(1 .. n)
    BY ONLY <1>0, heads = Ascending(Headers(lines), n), AscendingIs
  <2> QED
    BY <1>4, <2>1 DEF TfInv, HeadersTo
<1>7. TfGraph(lines).decls = d /\ TfGraph(lines).edges = s.edges
  BY <1>5 DEF AtEnd, EndActive
<1>8. DOMAIN heads = 1 .. m
  BY <1>6
<1>9. \A i \in 1 .. m : d[i].start = heads[i] /\ Ended(d[i], CalleesOf(s.edges, i), lines)
  BY ONLY <1>4, <1>5, d = s.decls, m = Len(d), heads = Ascending(Headers(lines), n) DEF TfInv, HeadersTo
<1>10. \A i \in 1 .. m : /\ d[i].end \in BlockEnds(lines, d[i].start)
                         /\ {e.callee : e \in {g \in s.edges : g.caller = i}}
                              = UNION {lines[k].refs : k \in d[i].start + 1 .. d[i].end}
  BY ONLY <1>9 DEF Ended, CalleesOf, RefsOf
<1> QED
  BY ONLY <1>6, <1>7, <1>8, <1>9, <1>10, n = Len(lines), m = Len(d), heads = Ascending(Headers(lines), n)
     DEF BlocksExact

(***************************************************************************)
(* Python: the ancestors of a node come before it, so the context of a     *)
(* method in a class is that class.                                        *)
(***************************************************************************)
IsTree(tree) == \A k \in 1 .. Len(tree) : tree[k].parent \in 0 .. k - 1

Climbs(up, tree) ==
    up = [j \in 0 .. Len(tree) |-> IF j = 0 THEN {} ELSE {j} \cup up[tree[j].parent]]

LEMMA ClimbExists ==
  ASSUME NEW E, NEW tree \in Seq(E), IsTree(tree)
  PROVE  \E up : Climbs(up, tree)
<1> PICK n : n = Len(tree)
  OBVIOUS
<1> PICK p : p = [j \in 1 .. n |-> tree[j].parent]
  OBVIOUS
<1>1. n \in Nat /\ \A j \in 1 .. n : p[j] = tree[j].parent /\ p[j] \in 0 .. j - 1
  BY DEF IsTree
<1> DEFINE OK(m, f) == \A j \in 0 .. n : j <= m => f[j] = IF j = 0 THEN {} ELSE {j} \cup f[p[j]]
<1> PICK K : K = {m \in 0 .. n : \E f : OK(m, f) /\ f = [j \in 0 .. n |-> f[j]]}
  OBVIOUS
<1>2. 0 \in K
  <2> PICK f : f = [j \in 0 .. n |-> {}]
    OBVIOUS
  <2>1. f = [j \in 0 .. n |-> f[j]]
    OBVIOUS
  <2>2. OK(0, f)
    BY <1>1
  <2>3. 0 \in 0 .. n
    BY <1>1
  <2> QED
    BY <2>1, <2>2, <2>3
<1>3. ASSUME NEW k \in 0 .. n - 1, k \in K PROVE k + 1 \in K
  <2> PICK m : m = k + 1
    OBVIOUS
  <2>1. m \in 1 .. n /\ m \in 0 .. n /\ m # 0 /\ k < m
    BY <1>1
  <2>2. PICK f : OK(k, f) /\ f = [j \in 0 .. n |-> f[j]]
    BY <1>3
  <2> PICK h : h = [j \in 0 .. n |-> IF j = m THEN {m} \cup f[p[m]] ELSE f[j]]
    OBVIOUS
  <2>3. h[m] = {m} \cup f[p[m]] /\ \A j \in 0 .. n : j # m => h[j] = f[j]
    BY ONLY <2>1, h = [j \in 0 .. n |-> IF j = m THEN {m} \cup f[p[m]] ELSE f[j]]
  <2>4. h = [j \in 0 .. n |-> h[j]]
    BY ONLY h = [j \in 0 .. n |-> IF j = m THEN {m} \cup f[p[m]] ELSE f[j]]
  <2>5. \A j \in 0 .. n : j <= m /\ j # 0 => p[j] \in 0 .. n /\ p[j] # m
    BY ONLY <1>1, <2>1
  <2>6. ASSUME NEW j \in 0 .. n, j <= m PROVE h[j] = IF j = 0 THEN {} ELSE {j} \cup h[p[j]]
    <3>1. CASE j = m
      BY ONLY <2>1, <2>3, <2>5, <3>1, j \in 0 .. n
    <3>2. CASE j # m
      <4>1. j <= k
        BY ONLY <2>1, <2>6, <3>2, k \in 0 .. n - 1, <1>1, m = k + 1
      <4>2. f[j] = IF j = 0 THEN {} ELSE {j} \cup f[p[j]]
        BY <2>2, <4>1
      <4> QED
        BY ONLY <2>3, <2>5, <2>6, <3>2, <4>2
    <3> QED
      BY <3>1, <3>2
  <2>7. OK(m, h)
    BY <2>6
  <2>8. m \in 0 .. n
    BY <2>1
  <2>9. \E x : OK(m, x) /\ x = [j \in 0 .. n |-> x[j]]
    <3> HIDE DEF OK
    <3> QED
      BY ONLY <2>4, <2>7
  <2>10. m \in K
    <3> HIDE DEF OK
    <3> QED
      BY ONLY <2>8, <2>9, K = {x \in 0 .. n : \E y : OK(x, y) /\ y = [j \in 0 .. n |-> y[j]]}
  <2> QED
    BY ONLY <2>10, m = k + 1
<1>4. \A k \in 0 .. n : k \in K
  <2> HIDE DEF OK
  <2> QED
    BY ONLY <1>1, <1>2, <1>3, UpTo
<1>5. PICK f : OK(n, f) /\ f = [j \in 0 .. n |-> f[j]]
  <2> HIDE DEF OK
  <2>1. n \in K
    BY ONLY <1>1, <1>4
  <2> QED
    BY <2>1
<1>6. \A j \in 0 .. n : f[j] = IF j = 0 THEN {} ELSE {j} \cup f[tree[j].parent]
  <2> TAKE j \in 0 .. n
  <2>1. j <= n /\ (j # 0 => j \in 1 .. n)
    BY <1>1
  <2>2. f[j] = IF j = 0 THEN {} ELSE {j} \cup f[p[j]]
    BY <1>5, <2>1
  <2>3. j # 0 => p[j] = tree[j].parent
    BY <1>1, <2>1
  <2> QED
    BY ONLY <2>2, <2>3
<1>7. f = [j \in 0 .. n |-> IF j = 0 THEN {} ELSE {j} \cup f[tree[j].parent]]
  BY ONLY <1>5, <1>6
<1> QED
  BY ONLY <1>7, n = Len(tree) DEF Climbs

LEMMA AncestorsAre ==
  ASSUME NEW E, NEW tree \in Seq(E), IsTree(tree)
  PROVE  \A k \in 1 .. Len(tree) :
            /\ Ancestors(tree, k) \subseteq 1 .. tree[k].parent
            /\ tree[k].parent # 0 => tree[k].parent \in Ancestors(tree, k)
<1> DEFINE up == CHOOSE up : up = [j \in 0 .. Len(tree) |-> IF j = 0 THEN {} ELSE {j} \cup up[tree[j].parent]]
<1>1. \E f : Climbs(f, tree)
  BY ClimbExists
<1>2. Climbs(up, tree)
  BY <1>1 DEF Climbs
<1>3. \A k : Ancestors(tree, k) = up[tree[k].parent]
  BY DEF Ancestors
<1> HIDE DEF up
<1> PICK n : n = Len(tree)
  OBVIOUS
<1>4. n \in Nat /\ \A j \in 1 .. n : tree[j].parent \in 0 .. j - 1
  BY DEF IsTree
<1>5. \A j \in 0 .. n : up[j] = IF j = 0 THEN {} ELSE {j} \cup up[tree[j].parent]
  BY ONLY <1>2, n = Len(tree) DEF Climbs
<1> PICK K : K = {k \in 0 .. n : \A j \in 0 .. k : up[j] \subseteq 1 .. j}
  OBVIOUS
<1>6. 0 \in K
  <2>0. 0 \in 0 .. n
    BY <1>4
  <2>1. up[0] = {} /\ 0 \in 0 .. n
    BY ONLY <1>5, <2>0
  <2>2. \A j \in 0 .. 0 : up[j] \subseteq 1 .. j
    BY ONLY <2>1
  <2> QED
    BY <2>1, <2>2
<1>7. ASSUME NEW k \in 0 .. n - 1, k \in K PROVE k + 1 \in K
  <2> PICK m : m = k + 1
    OBVIOUS
  <2>1. m \in 1 .. n /\ m \in 0 .. n /\ tree[m].parent \in 0 .. k /\ m # 0 /\ k \in Nat
    BY <1>4
  <2>2. \A j \in 0 .. k : up[j] \subseteq 1 .. j
    BY <1>7
  <2>3. up[m] = {m} \cup up[tree[m].parent]
    BY ONLY <1>5, <2>1
  <2>4. up[tree[m].parent] \subseteq 1 .. tree[m].parent
    BY ONLY <2>1, <2>2
  <2>5. up[m] \subseteq 1 .. m
    <3>1. \A x \in 1 .. tree[m].parent : x \in 1 .. m
      BY ONLY <2>1, m = k + 1
    <3>2. m \in 1 .. m
      BY ONLY <2>1
    <3> QED
      BY ONLY <2>3, <2>4, <3>1, <3>2
  <2>6. \A j \in 0 .. m : j \in 0 .. k \/ j = m
    BY ONLY <2>1, m = k + 1
  <2>7. \A j \in 0 .. m : up[j] \subseteq 1 .. j
    BY ONLY <2>2, <2>5, <2>6
  <2> QED
    BY <2>1, <2>7
<1>8. \A k \in 0 .. n : k \in K
  BY ONLY <1>4, <1>6, <1>7, UpTo
<1>9. \A j \in 0 .. n : up[j] \subseteq 1 .. j
  <2>1. n \in K
    BY <1>4, <1>8
  <2> QED
    BY <2>1
<1> TAKE k \in 1 .. Len(tree)
<1> PICK p : p = tree[k].parent
  OBVIOUS
<1>10. p \in 0 .. n /\ Ancestors(tree, k) = up[p]
  BY <1>3, <1>4
<1>11. p # 0 => p \in up[p]
  BY ONLY <1>5, <1>10
<1> QED
  BY <1>9, <1>10, <1>11

LEMMA ContextIs ==
  ASSUME NEW E, NEW tree \in Seq(E), IsTree(tree), NEW k \in 1 .. Len(tree), NEW kind
  PROVE  /\ Context(tree, k, kind) \in 0 .. tree[k].parent
         /\ Context(tree, k, kind) # 0 => tree[Context(tree, k, kind)].kind = kind
         /\ (tree[k].parent # 0 /\ tree[tree[k].parent].kind = kind) => Context(tree, k, kind) = tree[k].parent
<1> PICK p : p = tree[k].parent
  OBVIOUS
<1> PICK S : S = {0} \cup {j \in Ancestors(tree, k) : tree[j].kind = kind}
  OBVIOUS
<1>1. p \in Nat
  BY DEF IsTree
<1>2. Ancestors(tree, k) \subseteq 1 .. p /\ (p # 0 => p \in Ancestors(tree, k))
  BY AncestorsAre
<1>3. S \subseteq 0 .. p /\ S # {}
  BY <1>1, <1>2
<1>4. Max(S) \in S /\ \A y \in S : y <= Max(S)
  BY ONLY <1>1, <1>3, GreatestIn
<1>5. Context(tree, k, kind) = Max(S)
  BY DEF Context
<1>6. p # 0 /\ tree[p].kind = kind => p \in S
  BY <1>2
<1>7. Max(S) \in 0 .. p /\ (Max(S) # 0 => tree[Max(S)].kind = kind)
  BY <1>3, <1>4
<1>8. p # 0 /\ tree[p].kind = kind => Max(S) = p
  BY ONLY <1>1, <1>4, <1>6, <1>7
<1> QED
  BY ONLY <1>5, <1>7, <1>8, p = tree[k].parent

LEMMA PyResolves ==
  ASSUME NEW E, NEW tree \in Seq(E), IsTree(tree)
  PROVE  /\ \A e \in PyEdges(tree) : e.caller \in PyNames(tree)
         /\ \A f, k \in DOMAIN tree :
              (/\ tree[f].kind = "func" /\ tree[k].kind = "call" /\ tree[k].self
               /\ tree[k].name = tree[f].name /\ Context(tree, k, "func") # 0
               /\ Context(tree, k, "class") = tree[f].parent /\ tree[f].parent # 0) =>
                  \E e \in PyEdges(tree) : e.callee = NodeName(tree, f)
<1> PICK n : n = Len(tree)
  OBVIOUS
<1>1. n \in Nat /\ DOMAIN tree = 1 .. n /\ \A k \in 1 .. n : tree[k].parent \in 0 .. k - 1
  BY DEF IsTree
<1>2. ASSUME NEW e \in PyEdges(tree) PROVE e.caller \in PyNames(tree)
  <2>1. PICK k \in 1 .. n : tree[k].kind = "call" /\ Context(tree, k, "func") # 0
                            /\ e.caller = NodeName(tree, Context(tree, k, "func"))
    BY <1>1 DEF PyEdges
  <2> PICK f : f = Context(tree, k, "func")
    OBVIOUS
  <2>2. f \in 0 .. tree[k].parent /\ f # 0 /\ tree[f].kind = "func"
    BY <2>1, ContextIs
  <2>3. f \in 1 .. n
    BY ONLY <1>1, <2>1, <2>2
  <2> QED
    BY <1>1, <2>1, <2>2, <2>3 DEF PyNames
<1>3. ASSUME NEW f \in DOMAIN tree, NEW k \in DOMAIN tree,
             tree[f].kind = "func", tree[k].kind = "call", tree[k].self,
             tree[k].name = tree[f].name, Context(tree, k, "func") # 0,
             Context(tree, k, "class") = tree[f].parent, tree[f].parent # 0
      PROVE  \E e \in PyEdges(tree) : e.callee = NodeName(tree, f)
  <2>1. f \in 1 .. n /\ k \in 1 .. n
    BY <1>1
  <2>2. tree[tree[f].parent].kind = "class"
    BY <1>3, <2>1, ContextIs
  <2>3. Context(tree, f, "class") = tree[f].parent
    BY <1>3, <2>1, <2>2, ContextIs
  <2>4. NodeName(tree, f) = Qualified(tree, tree[f].parent, tree[f].name)
    BY <1>3, <2>3 DEF NodeName
  <2>5. Callee(tree, k) = Qualified(tree, tree[f].parent, tree[f].name)
    BY <1>3 DEF Callee
  <2> PICK e : e = [caller |-> NodeName(tree, Context(tree, k, "func")), callee |-> Callee(tree, k)]
    OBVIOUS
  <2>6. e \in PyEdges(tree)
    BY <1>3 DEF PyEdges
  <2>7. e.callee = Callee(tree, k)
    OBVIOUS
  <2> QED
    BY <2>4, <2>5, <2>6, <2>7
<1> QED
  BY <1>2, <1>3

(***************************************************************************)
(* The graph of a file (src/internal/callgraph), for any file: every block *)
(* of a formatted Terraform file is a declaration with its own references, *)
(* the steps of a YAML file tile it, and the methods of a Python class are *)
(* found from a call of self.  A line that declares a YAML step has no     *)
(* references, and a parent is before its children.                        *)
(***************************************************************************)
THEOREM ParsersAreExact ==
  ASSUME call.op = "tf" => \E N, R, E : call.lines \in Seq(E) /\ IsFile(call.lines, N, R),
         call.op = "yaml" => \E N, R, E : call.lines \in Seq(E) /\ IsYaml(call.lines, N, R),
         call.op = "py" => \E E : call.tree \in Seq(E) /\ IsTree(call.tree)
  PROVE  ParsersExact
<1>1. TfBlocksExact
  <2> SUFFICES ASSUME call.op = "tf", TfFormatted(call.lines) PROVE TfBlocksExact
    BY DEF TfBlocksExact
  <2>1. PICK N, R, E : call.lines \in Seq(E) /\ IsFile(call.lines, N, R)
    OBVIOUS
  <2>2. BlocksExact(call.lines)
    BY <2>1, TfBlocks
  <2> QED
    BY ONLY <2>2 DEF TfBlocksExact, BlocksExact
<1>2. YamlStepsTile
  <2> SUFFICES ASSUME call.op = "yaml" PROVE YamlStepsTile
    BY DEF YamlStepsTile
  <2>1. PICK N, R, E : call.lines \in Seq(E) /\ IsYaml(call.lines, N, R)
    OBVIOUS
  <2>2. StepsTile(call.lines)
    BY <2>1, YamlTiles
  <2> QED
    BY ONLY <2>2 DEF YamlStepsTile, StepsTile
<1>3. PyCallsResolve
  BY PyResolves DEF PyCallsResolve
<1> QED
  BY <1>1, <1>2, <1>3 DEF ParsersExact
\* The members up to k come first among those up to n.
LEMMA AscendingPrefix ==
  ASSUME NEW S, NEW k \in Nat, NEW n \in Nat, k <= n
  PROVE  /\ Len(Ascending(S, k)) <= Len(Ascending(S, n))
         /\ \A i \in 1 .. Len(Ascending(S, k)) : Ascending(S, n)[i] = Ascending(S, k)[i]
<1> DEFINE P(m) == /\ Len(Ascending(S, k)) <= Len(Ascending(S, m))
                   /\ \A i \in 1 .. Len(Ascending(S, k)) : Ascending(S, m)[i] = Ascending(S, k)[i]
<1> PICK l : l = Len(Ascending(S, k))
  OBVIOUS
<1>0. l \in Nat /\ \A m \in Nat : Ascending(S, m) \in Seq(Nat) /\ Len(Ascending(S, m)) \in Nat
  <2>1. \A m \in Nat : Ascending(S, m) \in Seq(1 .. m)
    BY AscendingIs
  <2>2. \A m \in Nat : Ascending(S, m) \in Seq(Nat)
    <3> TAKE m \in Nat
    <3>1. Ascending(S, m) \in Seq(1 .. m) /\ 1 .. m \subseteq Nat
      BY <2>1
    <3> QED
      BY ONLY <3>1
  <2> QED
    BY <2>2
<1> PICK K : K = {d \in 0 .. n - k : P(k + d)}
  OBVIOUS
<1>1. 0 \in K
  <2>1. k + 0 = k /\ 0 \in 0 .. n - k
    OBVIOUS
  <2>2. P(k)
    BY <1>0
  <2> QED
    BY <2>1, <2>2
<1>2. ASSUME NEW d \in 0 .. (n - k) - 1, d \in K PROVE d + 1 \in K
  <2> PICK m, p : m = k + d /\ p = k + (d + 1)
    OBVIOUS
  <2>1. p \in Nat /\ p # 0 /\ p - 1 = m /\ m \in Nat /\ d + 1 \in 0 .. n - k
    OBVIOUS
  <2> PICK s, t : s = Ascending(S, m) /\ t = Ascending(S, p)
    OBVIOUS
  <2>2. t = IF p \in S THEN Append(s, p) ELSE s
    <3>1. Ascending(S, p) = IF p = 0 THEN <<>>
                            ELSE IF p \in S THEN Append(Ascending(S, p - 1), p) ELSE Ascending(S, p - 1)
      BY ONLY <2>1, AscendingStep
    <3> QED
      BY ONLY <2>1, <3>1, s = Ascending(S, m), t = Ascending(S, p)
  <2>3. s \in Seq(Nat) /\ t \in Seq(Nat)
    BY <1>0, <2>1
  <2>4. P(m)
    BY <1>2
  <2>5. l <= Len(s) /\ \A i \in 1 .. l : s[i] = Ascending(S, k)[i]
    BY <2>4
  <2>6. Len(t) >= Len(s) /\ \A i \in 1 .. Len(s) : t[i] = s[i]
    BY ONLY <2>1, <2>2, <2>3
  <2>7. \A i \in 1 .. l : i \in 1 .. Len(s)
    BY ONLY <1>0, <2>3, <2>5
  <2>8. l <= Len(t) /\ \A i \in 1 .. l : t[i] = Ascending(S, k)[i]
    <3>1. Len(s) \in Nat /\ Len(t) \in Nat
      BY ONLY <2>3
    <3>2. l <= Len(t)
      BY ONLY <1>0, <2>5, <2>6, <3>1
    <3>3. \A i \in 1 .. l : t[i] = Ascending(S, k)[i]
      BY ONLY <2>5, <2>6, <2>7
    <3> QED
      BY <3>2, <3>3
  <2>9. P(p)
    BY ONLY <2>8, l = Len(Ascending(S, k)), t = Ascending(S, p)
  <2> QED
    BY <2>1, <2>9
<1>3. n - k \in Nat /\ k + (n - k) = n /\ n - k \in 0 .. n - k
  OBVIOUS
<1>4. \A d \in 0 .. n - k : d \in K
  <2> HIDE DEF P
  <2> QED
    BY ONLY <1>1, <1>2, <1>3, UpTo
<1>5. P(n)
  BY <1>3, <1>4
<1> QED
  BY <1>5

\* Sets with the same members among the first n numbers.
LEMMA AscendingSame ==
  ASSUME NEW S, NEW T, NEW n \in Nat, \A i \in 1 .. n : i \in S <=> i \in T
  PROVE  Ascending(S, n) = Ascending(T, n)
<1> PICK K : K = {m \in 0 .. n : Ascending(S, m) = Ascending(T, m)}
  OBVIOUS
<1>1. 0 \in K
  <2>1. Ascending(S, 0) = <<>> /\ Ascending(T, 0) = <<>>
    BY AscendingStep
  <2> QED
    BY <2>1
<1>2. ASSUME NEW k \in 0 .. n - 1, k \in K PROVE k + 1 \in K
  <2> PICK m : m = k + 1
    OBVIOUS
  <2>1. m \in Nat /\ m # 0 /\ m - 1 = k /\ m \in 0 .. n /\ m \in 1 .. n
    OBVIOUS
  <2>2. Ascending(S, k) = Ascending(T, k) /\ (m \in S <=> m \in T)
    BY <1>2, <2>1
  <2>3. Ascending(S, m) = Ascending(T, m)
    <3>1. Ascending(S, m) = IF m \in S THEN Append(Ascending(S, m - 1), m) ELSE Ascending(S, m - 1)
      BY ONLY <2>1, AscendingStep
    <3>2. Ascending(T, m) = IF m \in T THEN Append(Ascending(T, m - 1), m) ELSE Ascending(T, m - 1)
      BY ONLY <2>1, AscendingStep
    <3> QED
      BY ONLY <2>1, <2>2, <3>1, <3>2
  <2> QED
    BY <2>1, <2>3
<1>3. \A k \in 0 .. n : k \in K
  BY ONLY <1>1, <1>2, UpTo, n \in Nat
<1> QED
  BY <1>3

\* No member of S between k and n.
LEMMA AscendingGap ==
  ASSUME NEW S, NEW k \in Nat, NEW n \in Nat, k <= n, \A i \in k + 1 .. n : i \notin S
  PROVE  Ascending(S, n) = Ascending(S, k)
<1> PICK K : K = {d \in 0 .. n - k : Ascending(S, k + d) = Ascending(S, k)}
  OBVIOUS
<1>1. 0 \in K
  <2>1. k + 0 = k /\ 0 \in 0 .. n - k
    OBVIOUS
  <2> QED
    BY <2>1
<1>2. ASSUME NEW d \in 0 .. (n - k) - 1, d \in K PROVE d + 1 \in K
  <2> PICK m, p : m = k + d /\ p = k + (d + 1)
    OBVIOUS
  <2>1. p \in Nat /\ p # 0 /\ p - 1 = m /\ m \in Nat /\ d + 1 \in 0 .. n - k /\ p \in k + 1 .. n
    OBVIOUS
  <2>2. Ascending(S, m) = Ascending(S, k)
    BY <1>2
  <2>3. p \notin S
    BY <2>1
  <2>4. Ascending(S, p) = Ascending(S, m)
    BY ONLY <2>1, <2>3, AscendingStep
  <2> QED
    BY <2>1, <2>2, <2>4
<1>3. n - k \in Nat /\ k + (n - k) = n /\ n - k \in 0 .. n - k
  OBVIOUS
<1>4. \A d \in 0 .. n - k : d \in K
  BY ONLY <1>1, <1>2, <1>3, UpTo
<1>5. n - k \in K
  BY <1>3, <1>4
<1> QED
  BY <1>3, <1>5

\* As many as there are.
LEMMA AscendingCounts ==
  ASSUME NEW S, NEW n \in Nat
  PROVE  IsFiniteSet(S \cap 1 .. n) /\ Cardinality(S \cap 1 .. n) = Len(Ascending(S, n))
<1> DEFINE P(m) == IsFiniteSet(S \cap 1 .. m) /\ Cardinality(S \cap 1 .. m) = Len(Ascending(S, m))
<1> PICK K : K = {m \in 0 .. n : P(m)}
  OBVIOUS
<1>1. 0 \in K
  <2>1. S \cap 1 .. 0 = {}
    OBVIOUS
  <2>2. Ascending(S, 0) = <<>>
    BY AscendingStep
  <2>3. P(0)
    BY <2>1, <2>2, FS_EmptySet
  <2> QED
    BY <2>3
<1>2. ASSUME NEW k \in 0 .. n - 1, k \in K PROVE k + 1 \in K
  <2> PICK m : m = k + 1
    OBVIOUS
  <2>1. m \in Nat /\ m # 0 /\ m - 1 = k /\ m \in 0 .. n /\ k \in Nat
    OBVIOUS
  <2> PICK A, B : A = S \cap 1 .. k /\ B = S \cap 1 .. m
    OBVIOUS
  <2> PICK s, t : s = Ascending(S, k) /\ t = Ascending(S, m)
    OBVIOUS
  <2>2. IsFiniteSet(A) /\ Cardinality(A) = Len(s)
    BY <1>2
  <2>3. \A x : x \in 1 .. m <=> x \in 1 .. k \/ x = m
    BY <2>1
  <2>4. m \notin A
    BY <2>1
  <2>5. t = IF m \in S THEN Append(s, m) ELSE s
    <3>1. Ascending(S, m) = IF m = 0 THEN <<>>
                            ELSE IF m \in S THEN Append(Ascending(S, m - 1), m) ELSE Ascending(S, m - 1)
      BY ONLY <2>1, AscendingStep
    <3> QED
      BY ONLY <2>1, <3>1, s = Ascending(S, k), t = Ascending(S, m)
  <2>6. CASE m \in S
    <3>1. B = A \cup {m}
      BY <2>3, <2>6
    <3>2. IsFiniteSet(B) /\ Cardinality(B) = Cardinality(A) + 1
      BY ONLY <2>2, <2>4, <3>1, FS_AddElement
    <3>3. s \in Seq(1 .. k)
      BY ONLY <2>1, s = Ascending(S, k), AscendingIs
    <3>4. t = Append(s, m)
      BY ONLY <2>5, <2>6
    <3>5. Len(t) = Len(s) + 1
      BY ONLY <3>3, <3>4
    <3>6. P(m)
      BY <2>2, <3>2, <3>5
    <3> QED
      BY <2>1, <3>6
  <2>7. CASE m \notin S
    <3>1. B = A
      BY <2>3, <2>7
    <3>2. P(m)
      BY <2>2, <2>5, <2>7, <3>1
    <3> QED
      BY <2>1, <3>2
  <2> QED
    BY <2>6, <2>7
<1>3. \A k \in 0 .. n : k \in K
  <2> HIDE DEF P
  <2> QED
    BY ONLY <1>1, <1>2, UpTo, n \in Nat
<1>4. P(n)
  BY <1>3
<1> QED
  BY <1>4

-----------------------------------------------------------------------------
(***************************************************************************)
(* The lines of a text.  Cut(data, k) is where line k ends and the next    *)
(* one starts: offset Cut(data, k - 1) is the first of line k, offset      *)
(* Cut(data, k) - 1 the one of its newline or of the end of the text.      *)
(***************************************************************************)
NewlinesOf(data) == {i \in DOMAIN data : data[i] = NL}

Cut(data, k) ==
    IF k = 0 THEN 0 ELSE IF k > Len(Newlines(data)) THEN Len(data) + 1 ELSE Newlines(data)[k]

Rows(data) == Len(Newlines(data)) + 1

InLine(data, k, pos) == k \in 1 .. Rows(data) /\ Cut(data, k - 1) <= pos /\ pos < Cut(data, k)

LineText(data, k) == SubSeq(data, Cut(data, k - 1) + 1, Cut(data, k) - 1)

LEMMA NewlinesAre ==
  ASSUME NEW E, NEW data \in Seq(E)
  PROVE  /\ Len(data) \in Nat /\ DOMAIN data = 1 .. Len(data)
         /\ Newlines(data) = Ascending(NewlinesOf(data), Len(data))
         /\ Newlines(data) \in Seq(1 .. Len(data)) /\ Len(Newlines(data)) \in Nat
         /\ \A i, j \in 1 .. Len(Newlines(data)) : i < j => Newlines(data)[i] < Newlines(data)[j]
         /\ \A i \in 1 .. Len(Newlines(data)) :
               Newlines(data)[i] \in 1 .. Len(data) /\ data[Newlines(data)[i]] = NL
         /\ \A k \in 1 .. Len(data) : data[k] = NL => \E i \in 1 .. Len(Newlines(data)) : Newlines(data)[i] = k
<1> PICK n : n = Len(data)
  OBVIOUS
<1> PICK S : S = NewlinesOf(data)
  OBVIOUS
<1> PICK s : s = Ascending(S, n)
  OBVIOUS
<1>1. n \in Nat /\ DOMAIN data = 1 .. n
  OBVIOUS
<1>2. Newlines(data) = s
  BY DEF Newlines, NewlinesOf
<1>3. /\ s \in Seq(1 .. n)
      /\ \A i, j \in 1 .. Len(s) : i < j => s[i] < s[j]
      /\ \A i \in 1 .. Len(s) : s[i] \in S
      /\ \A k \in S \cap 1 .. n : \E i \in 1 .. Len(s) : s[i] = k
  BY ONLY <1>1, s = Ascending(S, n), AscendingIs
<1>4. \A k : k \in S <=> k \in 1 .. n /\ data[k] = NL
  BY ONLY <1>1, S = NewlinesOf(data) DEF NewlinesOf
<1>5. Len(s) \in Nat
  BY ONLY <1>3
<1>6. \A i \in 1 .. Len(s) : s[i] \in 1 .. n /\ data[s[i]] = NL
  BY ONLY <1>3, <1>4
<1>7. \A k \in 1 .. n : data[k] = NL => \E i \in 1 .. Len(s) : s[i] = k
  BY ONLY <1>3, <1>4
<1> QED
  BY <1>1, <1>2, <1>3, <1>5, <1>6, <1>7

LEMMA CutsAre ==
  ASSUME NEW E, NEW data \in Seq(E)
  PROVE  /\ Rows(data) \in Nat \ {0} /\ Cut(data, 0) = 0 /\ Cut(data, Rows(data)) = Len(data) + 1
         /\ \A k \in 0 .. Rows(data) : Cut(data, k) \in 0 .. Len(data) + 1
         /\ \A i, j \in 0 .. Rows(data) : i < j => Cut(data, i) < Cut(data, j)
         /\ \A k \in 1 .. Rows(data) - 1 : Cut(data, k) \in 1 .. Len(data) /\ data[Cut(data, k)] = NL
         /\ \A i \in 1 .. Len(data) : data[i] = NL => \E k \in 1 .. Rows(data) - 1 : i = Cut(data, k)
<1> PICK n, s, m : n = Len(data) /\ s = Newlines(data) /\ m = Len(s)
  OBVIOUS
<1>1. /\ n \in Nat /\ m \in Nat
      /\ \A i, j \in 1 .. m : i < j => s[i] < s[j]
      /\ \A i \in 1 .. m : s[i] \in 1 .. n /\ data[s[i]] = NL
      /\ \A k \in 1 .. n : data[k] = NL => \E i \in 1 .. m : s[i] = k
  BY NewlinesAre
<1>2. Rows(data) = m + 1
  BY DEF Rows
<1>3. /\ Cut(data, 0) = 0 /\ Cut(data, m + 1) = n + 1
      /\ \A k \in 1 .. m : Cut(data, k) = s[k]
  BY ONLY <1>1, n = Len(data), s = Newlines(data), m = Len(s) DEF Cut
<1>4. \A k : k \in 0 .. m + 1 <=> k = 0 \/ k \in 1 .. m \/ k = m + 1
  BY ONLY <1>1
<1>5. \A k \in 0 .. m + 1 : Cut(data, k) \in 0 .. n + 1
  BY ONLY <1>1, <1>3, <1>4
<1>6. \A i, j \in 0 .. m + 1 : i < j => Cut(data, i) < Cut(data, j)
  <2> TAKE i, j \in 0 .. m + 1
  <2> HAVE i < j
  <2>1. CASE i = 0 /\ j = m + 1
    BY ONLY <1>1, <1>3, <2>1
  <2>2. CASE i = 0 /\ j \in 1 .. m
    BY ONLY <1>1, <1>3, <2>2
  <2>3. CASE i \in 1 .. m /\ j = m + 1
    BY ONLY <1>1, <1>3, <2>3
  <2>4. CASE i \in 1 .. m /\ j \in 1 .. m
    BY ONLY <1>1, <1>3, <2>4, i < j
  <2> QED
    BY ONLY <1>1, <2>1, <2>2, <2>3, <2>4, i < j, i \in 0 .. m + 1, j \in 0 .. m + 1
<1>7. (m + 1) - 1 = m /\ m + 1 \in Nat \ {0}
  BY ONLY <1>1
<1>8. \A k \in 1 .. m : Cut(data, k) \in 1 .. n /\ data[Cut(data, k)] = NL
  BY ONLY <1>1, <1>3
<1>9. \A i \in 1 .. n : data[i] = NL => \E k \in 1 .. m : i = Cut(data, k)
  <2> TAKE i \in 1 .. n
  <2> HAVE data[i] = NL
  <2>1. PICK k \in 1 .. m : s[k] = i
    BY ONLY <1>1, data[i] = NL, i \in 1 .. n
  <2> QED
    BY ONLY <1>3, <2>1
<1> QED
  BY ONLY <1>2, <1>3, <1>5, <1>6, <1>7, <1>8, <1>9, n = Len(data)

LEMMA LinesAre ==
  ASSUME NEW E, NEW data \in Seq(E)
  PROVE  /\ Lines(data) \in Seq(Seq(E)) /\ Len(Lines(data)) = Rows(data) /\ DOMAIN Lines(data) = 1 .. Rows(data)
         /\ \A k \in 1 .. Rows(data) :
               /\ Lines(data)[k] = LineText(data, k) /\ LineText(data, k) \in Seq(E)
               /\ Len(LineText(data, k)) = (Cut(data, k) - 1) - Cut(data, k - 1)
<1> PICK n : n = Len(data)
  OBVIOUS
<1>1. /\ Rows(data) \in Nat \ {0} /\ \A k \in 0 .. Rows(data) : Cut(data, k) \in 0 .. n + 1
      /\ \A i, j \in 0 .. Rows(data) : i < j => Cut(data, i) < Cut(data, j)
  BY CutsAre
<1>2. Lines(data) = [k \in 1 .. Rows(data) |-> LineText(data, k)]
  BY DEF Lines, CutAt, LineText, Cut, Rows
<1>3. ASSUME NEW k \in 1 .. Rows(data)
      PROVE  /\ LineText(data, k) \in Seq(E)
             /\ Len(LineText(data, k)) = (Cut(data, k) - 1) - Cut(data, k - 1)
  <2> PICK a, b : a = Cut(data, k - 1) /\ b = Cut(data, k)
    OBVIOUS
  <2>1. k - 1 \in 0 .. Rows(data) /\ k \in 0 .. Rows(data) /\ k - 1 < k
    BY <1>1
  <2>2. n \in Nat /\ a \in 0 .. n + 1 /\ b \in 0 .. n + 1 /\ a < b
    BY <1>1, <2>1
  <2>3. SubSeq(data, a + 1, b - 1) \in Seq(E) /\ Len(SubSeq(data, a + 1, b - 1)) = (b - 1) - a
    BY ONLY <2>2, n = Len(data), data \in Seq(E)
  <2> QED
    BY <2>3 DEF LineText
<1>4. Lines(data) \in Seq(Seq(E)) /\ Len(Lines(data)) = Rows(data) /\ DOMAIN Lines(data) = 1 .. Rows(data)
  <2> PICK Q : Q = Seq(E)
    OBVIOUS
  <2>1. \A k \in 1 .. Rows(data) : LineText(data, k) \in Q
    BY <1>3
  <2>2. Lines(data) \in Seq(Q) /\ Len(Lines(data)) = Rows(data) /\ DOMAIN Lines(data) = 1 .. Rows(data)
    BY ONLY <1>1, <1>2, <2>1
  <2> QED
    BY <2>2
<1>5. \A k \in 1 .. Rows(data) : Lines(data)[k] = LineText(data, k)
  BY <1>2
<1> QED
  BY <1>3, <1>4, <1>5

\* Every offset of a text is in one line; the newlines before it are those of the lines before.
LEMMA OffsetIsInLine ==
  ASSUME NEW E, NEW data \in Seq(E), NEW pos \in 0 .. Len(data)
  PROVE  /\ InLine(data, Len(Ascending(NewlinesOf(data), pos)) + 1, pos)
         /\ \A k : InLine(data, k, pos) => k = Len(Ascending(NewlinesOf(data), pos)) + 1
<1> PICK n, S, s, m : n = Len(data) /\ S = NewlinesOf(data) /\ s = Newlines(data) /\ m = Len(s)
  OBVIOUS
<1> PICK t, l : t = Ascending(S, pos) /\ l = Len(t)
  OBVIOUS
<1>1. /\ n \in Nat /\ m \in Nat /\ pos \in Nat /\ pos <= n /\ s = Ascending(S, n)
      /\ \A i, j \in 1 .. m : i < j => s[i] < s[j]
      /\ \A i \in 1 .. m : s[i] \in 1 .. n /\ data[s[i]] = NL
      /\ DOMAIN data = 1 .. n
  <2>1. /\ n \in Nat /\ DOMAIN data = 1 .. n /\ s = Ascending(S, n) /\ m \in Nat
        /\ \A i, j \in 1 .. m : i < j => s[i] < s[j]
        /\ \A i \in 1 .. m : s[i] \in 1 .. n /\ data[s[i]] = NL
    BY NewlinesAre
  <2>2. pos \in Nat /\ pos <= n
    BY <2>1
  <2> QED
    BY ONLY <2>1, <2>2
<1>2. /\ t \in Seq(1 .. pos) /\ \A k \in S \cap 1 .. pos : \E i \in 1 .. l : t[i] = k
  BY ONLY <1>1, t = Ascending(S, pos), l = Len(t), AscendingIs
<1>3. l <= m /\ \A i \in 1 .. l : s[i] = t[i]
  BY ONLY <1>1, t = Ascending(S, pos), l = Len(t), m = Len(s), AscendingPrefix
<1>4. l \in Nat /\ \A i \in 1 .. l : t[i] \in 1 .. pos
  BY ONLY <1>2, l = Len(t)
<1>5. \A i \in 1 .. l : s[i] <= pos
  BY ONLY <1>1, <1>3, <1>4
<1>6. \A i \in l + 1 .. m : s[i] > pos
  <2> SUFFICES ASSUME NEW i \in l + 1 .. m, ~ (s[i] > pos) PROVE FALSE
    OBVIOUS
  <2>1. i \in 1 .. m
    BY ONLY <1>1, <1>4, i \in l + 1 .. m
  <2>2. s[i] \in 1 .. n /\ data[s[i]] = NL
    BY ONLY <1>1, <2>1
  <2>3. s[i] \in 1 .. pos
    BY ONLY <1>1, <2>2, ~ (s[i] > pos)
  <2>4. s[i] \in S
    BY ONLY <1>1, <2>2, S = NewlinesOf(data) DEF NewlinesOf
  <2>5. PICK j \in 1 .. l : t[j] = s[i]
    BY ONLY <1>2, <2>3, <2>4
  <2>6. j \in 1 .. m /\ j < i /\ s[j] = s[i]
    BY ONLY <1>1, <1>3, <1>4, <2>5, i \in l + 1 .. m
  <2>7. s[j] < s[i]
    BY ONLY <1>1, <2>1, <2>6
  <2> QED
    BY ONLY <2>2, <2>6, <2>7
<1>7. Rows(data) = m + 1
  BY DEF Rows
<1>8. \A k : Cut(data, k) = IF k = 0 THEN 0 ELSE IF k > m THEN n + 1 ELSE s[k]
  BY DEF Cut
<1>9. InLine(data, l + 1, pos)
  <2>1. l + 1 \in 1 .. m + 1 /\ (l + 1) - 1 = l
    BY ONLY <1>1, <1>3, <1>4
  <2>2. Cut(data, l) <= pos
    BY ONLY <1>1, <1>3, <1>4, <1>5, <1>8
  <2>3. pos < Cut(data, l + 1)
    <3>1. CASE l = m
      <4>1. Cut(data, l + 1) = n + 1
        BY ONLY <1>1, <1>8, <3>1
      <4> QED
        BY ONLY <1>1, <4>1
    <3>2. CASE l # m
      <4>1. l + 1 \in l + 1 .. m /\ l + 1 # 0 /\ ~ (l + 1 > m) /\ l + 1 \in 1 .. m
        BY ONLY <1>1, <1>3, <1>4, <3>2
      <4>2. Cut(data, l + 1) = s[l + 1]
        BY ONLY <1>8, <4>1
      <4>3. s[l + 1] > pos /\ s[l + 1] \in 1 .. n
        BY ONLY <1>1, <1>6, <4>1
      <4> QED
        BY ONLY <1>1, <4>2, <4>3
    <3> QED
      BY <3>1, <3>2
  <2> QED
    BY ONLY <1>7, <2>1, <2>2, <2>3 DEF InLine
<1>10. ASSUME NEW k, InLine(data, k, pos) PROVE k = l + 1
  <2> PICK R : R = Rows(data)
    OBVIOUS
  <2>1. R \in Nat /\ \A i \in 0 .. R : Cut(data, i) \in 0 .. n + 1
    BY CutsAre
  <2>2. \A i, j \in 0 .. R : i < j => Cut(data, i) < Cut(data, j)
    BY CutsAre
  <2>3. k \in 1 .. R /\ Cut(data, k - 1) <= pos /\ pos < Cut(data, k)
    BY <1>10 DEF InLine
  <2> PICK j : j = l + 1
    OBVIOUS
  <2>4. j \in 1 .. R /\ Cut(data, j - 1) <= pos /\ pos < Cut(data, j)
    BY <1>9 DEF InLine
  <2>5. k \in 0 .. R /\ j \in 0 .. R /\ k - 1 \in 0 .. R /\ j - 1 \in 0 .. R
    BY ONLY <2>1, <2>3, <2>4
  <2>6. ~ (k < j)
    <3> SUFFICES ASSUME k < j PROVE FALSE
      OBVIOUS
    <3>1. k = j - 1 \/ k < j - 1
      BY ONLY <2>5, k < j
    <3>2. Cut(data, k) <= Cut(data, j - 1)
      BY ONLY <2>1, <2>2, <2>5, <3>1
    <3> QED
      BY ONLY <1>1, <2>1, <2>3, <2>4, <2>5, <3>2
  <2>7. ~ (j < k)
    <3> SUFFICES ASSUME j < k PROVE FALSE
      OBVIOUS
    <3>1. j = k - 1 \/ j < k - 1
      BY ONLY <2>5, j < k
    <3>2. Cut(data, j) <= Cut(data, k - 1)
      BY ONLY <2>1, <2>2, <2>5, <3>1
    <3> QED
      BY ONLY <1>1, <2>1, <2>3, <2>4, <2>5, <3>2
  <2> QED
    BY ONLY <2>5, <2>6, <2>7, j = l + 1
<1> QED
  BY <1>9, <1>10

-----------------------------------------------------------------------------
(***************************************************************************)
(* What the scanners find around an offset (LineScan).                     *)
(***************************************************************************)
LEMMA OffsetsAre ==
  ASSUME NEW E, NEW data \in Seq(E)
  PROVE  /\ \A o \in NewlineOffsets(data) : \E j \in 1 .. Rows(data) - 1 : o = Cut(data, j) - 1
         /\ \A j \in 1 .. Rows(data) - 1 : Cut(data, j) - 1 \in NewlineOffsets(data)
         /\ NewlineOffsets(data) \subseteq 0 .. Len(data) - 1
<1> PICK n : n = Len(data)
  OBVIOUS
<1>1. n \in Nat /\ DOMAIN data = 1 .. n
  OBVIOUS
<1>2. /\ \A k \in 1 .. Rows(data) - 1 : Cut(data, k) \in 1 .. n /\ data[Cut(data, k)] = NL
      /\ \A i \in 1 .. n : data[i] = NL => \E k \in 1 .. Rows(data) - 1 : i = Cut(data, k)
  BY CutsAre
<1>3. NewlineOffsets(data) = {i - 1 : i \in {j \in 1 .. n : data[j] = NL}}
  BY ONLY <1>1 DEF NewlineOffsets
<1>4. \A o \in NewlineOffsets(data) : \E i \in 1 .. n : data[i] = NL /\ o = i - 1
  BY ONLY <1>3
<1>5. \A i \in 1 .. n : data[i] = NL => i - 1 \in NewlineOffsets(data)
  BY ONLY <1>3
<1>6. \A o \in NewlineOffsets(data) : \E j \in 1 .. Rows(data) - 1 : o = Cut(data, j) - 1
  BY ONLY <1>2, <1>4
<1>7. \A j \in 1 .. Rows(data) - 1 : Cut(data, j) - 1 \in NewlineOffsets(data)
  BY ONLY <1>2, <1>5
<1>8. NewlineOffsets(data) \subseteq 0 .. n - 1
  BY ONLY <1>1, <1>4
<1> QED
  BY <1>6, <1>7, <1>8

LEMMA LineEdges ==
  ASSUME NEW E, NEW data \in Seq(E), NEW pos \in 0 .. Len(data), NEW k, InLine(data, k, pos)
  PROVE  LineStart(data, pos) = Cut(data, k - 1) /\ LineEnd(data, pos) = Cut(data, k) - 1
<1> PICK n, R : n = Len(data) /\ R = Rows(data)
  OBVIOUS
<1> DEFINE c(i) == Cut(data, i)
<1>1. /\ n \in Nat /\ R \in Nat \ {0} /\ c(0) = 0 /\ c(R) = n + 1
      /\ \A i \in 0 .. R : c(i) \in 0 .. n + 1
      /\ \A i, j \in 0 .. R : i < j => c(i) < c(j)
  BY CutsAre
<1>2. pos \in Nat /\ pos <= n
  BY <1>1
<1>3. k \in 1 .. R /\ c(k - 1) <= pos /\ pos < c(k) /\ k \in 0 .. R /\ k - 1 \in 0 .. R
  BY <1>1 DEF InLine
<1>4. /\ \A o \in NewlineOffsets(data) : \E j \in 1 .. R - 1 : o = c(j) - 1
      /\ \A j \in 1 .. R - 1 : c(j) - 1 \in NewlineOffsets(data)
      /\ NewlineOffsets(data) \subseteq 0 .. n - 1
  BY OffsetsAre
<1> HIDE DEF c
<1>5. \A j \in 1 .. R - 1 : j \in 0 .. R /\ (j <= k - 1 => c(j) <= c(k - 1)) /\ (k <= j => c(k) <= c(j))
  <2> TAKE j \in 1 .. R - 1
  <2>1. j \in 0 .. R /\ (j <= k - 1 => j = k - 1 \/ j < k - 1) /\ (k <= j => k = j \/ k < j)
    BY ONLY <1>1, <1>3, j \in 1 .. R - 1
  <2>2. c(j) \in Int /\ c(k - 1) \in Int /\ c(k) \in Int
    BY ONLY <1>1, <1>3, <2>1
  <2>3. j < k - 1 => c(j) < c(k - 1)
    BY ONLY <1>1, <1>3, <2>1
  <2>4. k < j => c(k) < c(j)
    BY ONLY <1>1, <1>3, <2>1
  <2>5. j <= k - 1 => c(j) <= c(k - 1)
    BY ONLY <2>1, <2>2, <2>3
  <2>6. k <= j => c(k) <= c(j)
    BY ONLY <2>1, <2>2, <2>4
  <2> QED
    BY ONLY <2>1, <2>5, <2>6
<1> PICK before : before = {o \in NewlineOffsets(data) : o < pos}
  OBVIOUS
<1> PICK after : after = {o \in NewlineOffsets(data) : o >= pos}
  OBVIOUS
<1>6. \A o \in before : o <= c(k - 1) - 1 /\ k # 1 /\ o \in 0 .. n
  <2> TAKE o \in before
  <2>1. PICK j \in 1 .. R - 1 : o = c(j) - 1
    BY <1>4
  <2>2. o < pos /\ o \in 0 .. n - 1
    BY <1>4
  <2>3. c(j) \in 0 .. n + 1 /\ c(k) \in 0 .. n + 1 /\ c(k - 1) \in 0 .. n + 1
    BY ONLY <1>1, <1>3, <1>5, <2>1
  <2>4. k <= j => c(k) <= c(j)
    BY ONLY <1>5, <2>1
  <2>5. j <= k - 1 => c(j) <= c(k - 1)
    BY ONLY <1>5, <2>1
  <2>6. n \in Nat /\ R \in Nat /\ pos \in Nat /\ k \in 1 .. R /\ pos < c(k)
    BY ONLY <1>1, <1>2, <1>3
  <2> PICK x, y, z : x = c(j) /\ y = c(k - 1) /\ z = c(k)
    OBVIOUS
  <2>7. x \in Nat /\ y \in Nat /\ z \in Nat /\ o = x - 1 /\ o < pos /\ pos < z
    BY ONLY <2>1, <2>2, <2>3, <2>6, x = c(j), y = c(k - 1), z = c(k)
  <2>8. ~ (k <= j)
    <3>1. k <= j => z <= x
      BY ONLY <2>4, x = c(j), z = c(k)
    <3> QED
      BY ONLY <2>6, <2>7, <3>1
  <2>9. j <= k - 1 /\ k # 1
    BY ONLY <2>1, <2>6, <2>8
  <2>10. x <= y
    BY ONLY <2>5, <2>9, x = c(j), y = c(k - 1)
  <2>11. o <= y - 1
    BY ONLY <2>7, <2>10
  <2>12. o \in 0 .. n
    BY ONLY <2>2, <2>6
  <2> QED
    BY ONLY <2>9, <2>11, <2>12, y = c(k - 1)
<1>7. \A o \in after : c(k) - 1 <= o /\ k # R /\ o \in Nat
  <2> TAKE o \in after
  <2>1. PICK j \in 1 .. R - 1 : o = c(j) - 1
    BY <1>4
  <2>2. o >= pos /\ o \in 0 .. n - 1
    BY <1>4
  <2>3. c(j) \in 0 .. n + 1 /\ c(k) \in 0 .. n + 1 /\ c(k - 1) \in 0 .. n + 1
    BY ONLY <1>1, <1>3, <1>5, <2>1
  <2>4. k <= j => c(k) <= c(j)
    BY ONLY <1>5, <2>1
  <2>5. j <= k - 1 => c(j) <= c(k - 1)
    BY ONLY <1>5, <2>1
  <2>6. n \in Nat /\ R \in Nat /\ pos \in Nat /\ k \in 1 .. R /\ c(k - 1) <= pos
    BY ONLY <1>1, <1>2, <1>3
  <2> PICK x, y, z : x = c(j) /\ y = c(k - 1) /\ z = c(k)
    OBVIOUS
  <2>7. x \in Nat /\ y \in Nat /\ z \in Nat /\ o = x - 1 /\ o >= pos /\ y <= pos
    BY ONLY <2>1, <2>2, <2>3, <2>6, x = c(j), y = c(k - 1), z = c(k)
  <2>8. ~ (j <= k - 1)
    <3>1. j <= k - 1 => x <= y
      BY ONLY <2>5, x = c(j), y = c(k - 1)
    <3> QED
      BY ONLY <2>6, <2>7, <3>1
  <2>9. k <= j /\ k # R
    BY ONLY <2>1, <2>6, <2>8
  <2>10. z <= x
    BY ONLY <2>4, <2>9, x = c(j), z = c(k)
  <2>11. z - 1 <= o
    BY ONLY <2>7, <2>10
  <2>12. o \in Nat
    BY ONLY <2>2, <2>6
  <2> QED
    BY ONLY <2>9, <2>11, <2>12, z = c(k)
<1>8. LineStart(data, pos) = c(k - 1)
  <2>1. LineStart(data, pos) = IF before = {} THEN 0 ELSE Max(before) + 1
    BY DEF LineStart
  <2>2. CASE k = 1
    <3>1. before = {}
      BY ONLY <1>6, <2>2
    <3> QED
      BY ONLY <1>1, <2>1, <2>2, <3>1
  <2>3. CASE k # 1
    <3>1. k - 1 \in 1 .. R - 1 /\ c(k - 1) \in 0 .. n + 1
      BY ONLY <1>1, <1>3, <2>3
    <3>2. c(k - 1) - 1 \in before
      BY ONLY <1>2, <1>3, <1>4, <3>1, before = {o \in NewlineOffsets(data) : o < pos}
    <3>3. before \subseteq 0 .. n /\ before # {}
      BY <1>6, <3>2
    <3> PICK M, e : M = Max(before) /\ e = c(k - 1) - 1
      OBVIOUS
    <3>4. M \in before /\ \A o \in before : o <= M
      BY ONLY <1>1, <3>3, GreatestIn, M = Max(before)
    <3>5. e \in Int /\ e + 1 = c(k - 1)
      <4> PICK y : y = c(k - 1)
        OBVIOUS
      <4>1. y \in 0 .. n + 1 /\ n \in Nat
        BY ONLY <1>1, <3>1, y = c(k - 1)
      <4> QED
        BY ONLY <4>1, y = c(k - 1), e = c(k - 1) - 1
    <3>9. M \in Int
      BY ONLY <1>1, <3>3, <3>4
    <3>6. M <= e
      BY ONLY <1>6, <3>4, e = c(k - 1) - 1
    <3>7. e <= M
      BY ONLY <3>2, <3>4, e = c(k - 1) - 1
    <3>8. M = e
      BY ONLY <3>5, <3>6, <3>7, <3>9
    <3>10. LineStart(data, pos) = M + 1
      BY ONLY <2>1, <3>3, M = Max(before)
    <3> QED
      BY ONLY <3>5, <3>8, <3>10
  <2> QED
    BY <2>2, <2>3
<1>9. LineEnd(data, pos) = c(k) - 1
  <2>1. LineEnd(data, pos) = IF after = {} THEN n ELSE Min(after)
    BY DEF LineEnd
  <2>2. CASE k = R
    <3>1. after = {}
      BY ONLY <1>7, <2>2
    <3> QED
      BY ONLY <1>1, <2>1, <2>2, <3>1
  <2>3. CASE k # R
    <3>1. k \in 1 .. R - 1 /\ c(k) \in 0 .. n + 1
      BY ONLY <1>1, <1>3, <2>3
    <3>2. c(k) - 1 \in after
      BY ONLY <1>2, <1>3, <1>4, <3>1, after = {o \in NewlineOffsets(data) : o >= pos}
    <3>3. after \subseteq Nat /\ after # {}
      BY <1>7, <3>2
    <3> PICK M, e : M = Min(after) /\ e = c(k) - 1
      OBVIOUS
    <3>4. M \in after /\ \A o \in after : M <= o
      BY ONLY <3>3, MinIsLeast, M = Min(after)
    <3>5. e \in Int /\ M \in Int
      BY ONLY <1>1, <3>1, <3>3, <3>4, e = c(k) - 1
    <3>6. e <= M
      BY ONLY <1>7, <3>4, e = c(k) - 1
    <3>7. M <= e
      BY ONLY <3>2, <3>4, e = c(k) - 1
    <3>8. M = e
      BY ONLY <3>5, <3>6, <3>7
    <3>9. LineEnd(data, pos) = M
      BY ONLY <2>1, <3>3, M = Min(after)
    <3> QED
      BY ONLY <3>8, <3>9, e = c(k) - 1
  <2> QED
    BY <2>2, <2>3
<1> QED
  BY <1>8, <1>9 DEF c

LEMMA NewlinesBetween ==
  ASSUME NEW E, NEW data \in Seq(E), NEW a \in 0 .. Len(data), NEW b \in 0 .. Len(data), a <= b,
         NEW i, InLine(data, i, a), NEW k, InLine(data, k, b)
  PROVE  CountNewlines(data, a, b) = k - i
<1> PICK n, S : n = Len(data) /\ S = NewlinesOf(data)
  OBVIOUS
<1>1. n \in Nat /\ DOMAIN data = 1 .. n /\ a \in Nat /\ b \in Nat /\ b <= n
  OBVIOUS
<1> PICK A, B, C : A = S \cap 1 .. a /\ B = S \cap 1 .. b /\ C = {j \in a + 1 .. b : data[j] = NL}
  OBVIOUS
<1>2. \A j : j \in S <=> j \in 1 .. n /\ data[j] = NL
  BY ONLY <1>1, S = NewlinesOf(data) DEF NewlinesOf
<1>3. B = A \cup C /\ A \cap C = {}
  <2>1. \A j : j \in B <=> j \in S /\ j \in 1 .. b
    OBVIOUS
  <2>2. \A j : j \in A <=> j \in S /\ j \in 1 .. a
    OBVIOUS
  <2>3. \A j : j \in C <=> j \in a + 1 .. b /\ data[j] = NL
    OBVIOUS
  <2>4. \A j : j \in 1 .. b <=> j \in 1 .. a \/ j \in a + 1 .. b
    BY ONLY <1>1, a <= b
  <2>5. \A j \in a + 1 .. b : j \notin 1 .. a /\ j \in 1 .. n
    BY ONLY <1>1
  <2> QED
    BY ONLY <1>2, <2>1, <2>2, <2>3, <2>4, <2>5
<1>4. IsFiniteSet(A) /\ Cardinality(A) = Len(Ascending(S, a))
  BY <1>1, AscendingCounts
<1>5. IsFiniteSet(B) /\ Cardinality(B) = Len(Ascending(S, b))
  BY <1>1, AscendingCounts
<1>6. i = Len(Ascending(S, a)) + 1
  BY OffsetIsInLine
<1>7. k = Len(Ascending(S, b)) + 1
  BY OffsetIsInLine
<1>8. IsFiniteSet(C)
  BY ONLY <1>3, <1>5, FS_Subset
<1>9. Cardinality(B) = Cardinality(A) + Cardinality(C)
  <2>1. Cardinality(A \cup C) = Cardinality(A) + Cardinality(C) - Cardinality(A \cap C)
    BY ONLY <1>4, <1>8, FS_Union
  <2>2. Cardinality(A \cap C) = 0
    BY ONLY <1>3, FS_EmptySet
  <2>3. Cardinality(A) \in Nat /\ Cardinality(C) \in Nat
    BY ONLY <1>4, <1>8, FS_CardinalityType
  <2>4. Cardinality(B) = Cardinality(A) + Cardinality(C) - 0
    BY ONLY <1>3, <2>1, <2>2
  <2> QED
    BY ONLY <2>3, <2>4
<1>10. CountNewlines(data, a, b) = Cardinality(C)
  BY DEF CountNewlines
<1>11. Cardinality(A) \in Nat /\ Cardinality(B) \in Nat /\ Cardinality(C) \in Nat
  BY ONLY <1>4, <1>5, <1>8, FS_CardinalityType
<1> PICK x, y, z : x = Cardinality(A) /\ y = Cardinality(B) /\ z = Cardinality(C)
  OBVIOUS
<1>12. i = x + 1 /\ k = y + 1
  BY ONLY <1>4, <1>5, <1>6, <1>7, x = Cardinality(A), y = Cardinality(B)
<1>13. x \in Nat /\ y \in Nat /\ z \in Nat /\ y = x + z
  BY ONLY <1>9, <1>11, x = Cardinality(A), y = Cardinality(B), z = Cardinality(C)
<1>14. z = k - i
  BY ONLY <1>12, <1>13
<1> QED
  BY ONLY <1>10, <1>14, z = Cardinality(C)


-----------------------------------------------------------------------------
(***************************************************************************)
(* A scan of a whole buffer (LineScan).  When the lines to report are      *)
(* those of T, the scan that has passed the first j lines is ScanAt: it    *)
(* looks on from the first offset of the next line and has reported the    *)
(* members of T among the first j.                                         *)
(***************************************************************************)
HitOf(lines, k) == [line |-> k, text |-> TrimCR(lines[k])]

HitsTo(data, T, j) == HitsAmong(Lines(data), Ascending(T, j))

ScanAt(data, T, j) ==
    [ state  |-> "scan",
      cursor |-> IF j = Rows(data) THEN Len(data) ELSE Cut(data, j),
      line   |-> IF j = Rows(data) THEN j ELSE j + 1,
      hits   |-> HitsTo(data, T, j) ]

ScanEnd(data, T, j) == [ScanAt(data, T, j) EXCEPT !.state = "done"]

AllHits(data, T, j) == j \in 0 .. Rows(data) /\ HitsTo(data, T, j) = HitsTo(data, T, Rows(data))

ScanStates(data, T) ==
    {ScanAt(data, T, j) : j \in 0 .. Rows(data)}
      \cup {ScanEnd(data, T, j) : j \in {i \in 0 .. Rows(data) : AllHits(data, T, i)}}

(* What a turn of a scan does: it reports a line further on, or it ends with all of them. *)
TurnWorks(h, data, T) ==
    /\ \A j \in 0 .. Rows(data) :
         \/ \E k \in j + 1 .. Rows(data) : h[ScanAt(data, T, j)] = ScanAt(data, T, k)
         \/ h[ScanAt(data, T, j)] = ScanEnd(data, T, j) /\ AllHits(data, T, j)
    /\ \A j \in 0 .. Rows(data) : AllHits(data, T, j) => h[ScanEnd(data, T, j)] = ScanEnd(data, T, j)

LEMMA HitsAre ==
  ASSUME NEW lines, NEW m, NEW ks \in Seq(1 .. m)
  PROVE  /\ HitsAmong(lines, ks) \in Seq({HitOf(lines, k) : k \in 1 .. m})
         /\ Len(HitsAmong(lines, ks)) = Len(ks)
         /\ \A i \in 1 .. Len(ks) : HitsAmong(lines, ks)[i] = HitOf(lines, ks[i])
<1> PICK l, H : l = Len(ks) /\ H = {HitOf(lines, k) : k \in 1 .. m}
  OBVIOUS
<1>1. l \in Nat /\ DOMAIN ks = 1 .. l
  OBVIOUS
<1>2. HitsAmong(lines, ks) = [i \in 1 .. l |-> HitOf(lines, ks[i])]
  BY <1>1 DEF HitsAmong, HitOf
<1>3. \A i \in 1 .. l : HitOf(lines, ks[i]) \in H
  <2> TAKE i \in 1 .. l
  <2> PICK S : S = 1 .. m
    OBVIOUS
  <2>1. ks \in Seq(S) /\ i \in 1 .. Len(ks)
    OBVIOUS
  <2>2. ks[i] \in S
    BY ONLY <2>1
  <2> QED
    BY ONLY <2>2, S = 1 .. m, H = {HitOf(lines, k) : k \in 1 .. m}
<1>4. HitsAmong(lines, ks) \in Seq(H) /\ Len(HitsAmong(lines, ks)) = l
  BY ONLY <1>1, <1>2, <1>3
<1>5. \A i \in 1 .. l : HitsAmong(lines, ks)[i] = HitOf(lines, ks[i])
  BY ONLY <1>2
<1> QED
  BY ONLY <1>4, <1>5, l = Len(ks), H = {HitOf(lines, k) : k \in 1 .. m}

LEMMA NoHits == ASSUME NEW lines PROVE HitsAmong(lines, <<>>) = <<>>
<1>1. <<>> \in Seq(1 .. 0)
  OBVIOUS
<1> PICK hs, H : hs = HitsAmong(lines, <<>>) /\ H = {HitOf(lines, k) : k \in 1 .. 0}
  OBVIOUS
<1>2. hs \in Seq(H) /\ Len(hs) = Len(<<>>)
  BY ONLY <1>1, HitsAre, hs = HitsAmong(lines, <<>>), H = {HitOf(lines, k) : k \in 1 .. 0}
<1>3. hs = <<>>
  BY ONLY <1>2
<1> QED
  BY <1>3

LEMMA OneMoreHit ==
  ASSUME NEW lines, NEW m, NEW ks \in Seq(1 .. m), NEW k \in 1 .. m
  PROVE  HitsAmong(lines, Append(ks, k)) = Append(HitsAmong(lines, ks), HitOf(lines, k))
<1> PICK H, l, t : H = {HitOf(lines, i) : i \in 1 .. m} /\ l = Len(ks) /\ t = Append(ks, k)
  OBVIOUS
<1> PICK a, b, x : a = HitsAmong(lines, ks) /\ b = HitsAmong(lines, t) /\ x = HitOf(lines, k)
  OBVIOUS
<1>1. l \in Nat /\ t \in Seq(1 .. m) /\ Len(t) = l + 1 /\ t[l + 1] = k /\ \A i \in 1 .. l : t[i] = ks[i]
  BY ONLY ks \in Seq(1 .. m), k \in 1 .. m, l = Len(ks), t = Append(ks, k)
<1>2. a \in Seq(H) /\ Len(a) = l /\ \A i \in 1 .. l : a[i] = HitOf(lines, ks[i])
  BY HitsAre
<1>3. b \in Seq(H) /\ Len(b) = l + 1 /\ \A i \in 1 .. l + 1 : b[i] = HitOf(lines, t[i])
  <2>1. b \in Seq(H) /\ Len(b) = Len(t) /\ \A i \in 1 .. Len(t) : b[i] = HitOf(lines, t[i])
    BY ONLY <1>1, HitsAre, b = HitsAmong(lines, t), H = {HitOf(lines, i) : i \in 1 .. m}
  <2> QED
    BY ONLY <1>1, <2>1
<1>4. x \in H
  BY ONLY x = HitOf(lines, k), H = {HitOf(lines, i) : i \in 1 .. m}, k \in 1 .. m
<1>5. \A i \in 1 .. l : b[i] = a[i]
  BY ONLY <1>1, <1>2, <1>3
<1>6. b[l + 1] = x
  BY ONLY <1>1, <1>3, x = HitOf(lines, k)
<1>7. b = Append(a, x)
  <2> HIDE DEF HitOf
  <2> QED
    BY ONLY <1>1, <1>2, <1>3, <1>4, <1>5, <1>6, Len(a) = l
<1> QED
  BY ONLY <1>7, a = HitsAmong(lines, ks), b = HitsAmong(lines, t), x = HitOf(lines, k), t = Append(ks, k)

\* The next member of T after the first j lines.
LEMMA NextHit ==
  ASSUME NEW E, NEW data \in Seq(E), NEW T, NEW j \in 0 .. Rows(data), NEW k \in j + 1 .. Rows(data),
         k \in T, \A i \in j + 1 .. k - 1 : i \notin T
  PROVE  HitsTo(data, T, k) = Append(HitsTo(data, T, j), HitOf(Lines(data), k))
<1> PICK R, lines : R = Rows(data) /\ lines = Lines(data)
  OBVIOUS
<1> PICK ks : ks = Ascending(T, j)
  OBVIOUS
<1>1. R \in Nat
  BY CutsAre
<1>2. j \in Nat /\ k \in Nat /\ k # 0 /\ k - 1 \in Nat /\ j <= k - 1 /\ k \in 1 .. k /\ 1 .. j \subseteq 1 .. k
  BY <1>1
<1>3. Ascending(T, k - 1) = ks
  BY ONLY <1>2, AscendingGap, ks = Ascending(T, j), \A i \in j + 1 .. k - 1 : i \notin T
<1>4. Ascending(T, k) = Append(ks, k)
  <2>1. Ascending(T, k) = IF k = 0 THEN <<>>
                          ELSE IF k \in T THEN Append(Ascending(T, k - 1), k) ELSE Ascending(T, k - 1)
    BY ONLY <1>2, AscendingStep
  <2> QED
    BY ONLY <1>2, <1>3, <2>1, k \in T
<1>5. ks \in Seq(1 .. k)
  <2>1. ks \in Seq(1 .. j)
    BY ONLY <1>2, AscendingIs, ks = Ascending(T, j)
  <2> PICK A, B : A = 1 .. j /\ B = 1 .. k
    OBVIOUS
  <2>2. ks \in Seq(A) /\ A \subseteq B
    BY <1>2, <2>1
  <2>3. ks \in Seq(B)
    BY ONLY <2>2
  <2> QED
    BY <2>3
<1>6. HitsAmong(lines, Append(ks, k)) = Append(HitsAmong(lines, ks), HitOf(lines, k))
  BY ONLY <1>2, <1>5, OneMoreHit
<1> QED
  BY ONLY <1>4, <1>6, ks = Ascending(T, j), lines = Lines(data) DEF HitsTo

\* Nothing left to report.
LEMMA NoNextHit ==
  ASSUME NEW E, NEW data \in Seq(E), NEW T, NEW j \in 0 .. Rows(data), \A i \in j + 1 .. Rows(data) : i \notin T
  PROVE  AllHits(data, T, j)
<1> PICK R : R = Rows(data)
  OBVIOUS
<1>1. R \in Nat
  BY CutsAre
<1>2. j \in Nat /\ j <= R
  BY <1>1
<1>3. Ascending(T, R) = Ascending(T, j)
  BY ONLY <1>1, <1>2, AscendingGap, \A i \in j + 1 .. R : i \notin T, R = Rows(data)
<1> QED
  BY <1>3 DEF AllHits, HitsTo

\* Reporting the next line of T takes the scan behind it.
LEMMA ReportIs ==
  ASSUME NEW E, NEW data \in Seq(E), NEW T, NEW j \in 0 .. Rows(data), NEW k \in j + 1 .. Rows(data),
         k \in T, \A i \in j + 1 .. k - 1 : i \notin T
  PROVE  Report(data, ScanAt(data, T, j), Cut(data, k - 1), Cut(data, k) - 1, k) = ScanAt(data, T, k)
<1> PICK n, R, lines : n = Len(data) /\ R = Rows(data) /\ lines = Lines(data)
  OBVIOUS
<1> PICK a, e, b : a = Cut(data, k - 1) /\ e = Cut(data, k) /\ b = e - 1
  OBVIOUS
<1> PICK st, hs : st = ScanAt(data, T, j) /\ hs = HitsTo(data, T, j)
  OBVIOUS
<1>1. /\ n \in Nat /\ R \in Nat /\ Cut(data, R) = n + 1 /\ \A i \in 0 .. R : Cut(data, i) \in 0 .. n + 1
      /\ \A i \in 1 .. R - 1 : Cut(data, i) \in 1 .. n
      /\ \A i, l \in 0 .. R : i < l => Cut(data, i) < Cut(data, l)
  BY CutsAre
<1>2. k \in 1 .. R /\ k \in 0 .. R /\ k - 1 \in 0 .. R /\ k - 1 < k
  BY <1>1
<1>3. a \in 0 .. n + 1 /\ e \in 0 .. n + 1 /\ a < e
  BY <1>1, <1>2
<1>4. ~ (a > b)
  BY ONLY <1>1, <1>3, b = e - 1
<1>5. lines[k] = SubSeq(data, a + 1, b)
  <2>1. lines[k] = LineText(data, k)
    BY <1>2, LinesAre
  <2> QED
    BY <2>1 DEF LineText
<1>6. st.hits = hs
  BY DEF ScanAt
<1>7. HitsTo(data, T, k) = Append(hs, [line |-> k, text |-> TrimCR(lines[k])])
  BY NextHit DEF HitOf
<1>8. Report(data, st, a, b, k) =
        [ state  |-> "scan",
          cursor |-> IF b < n THEN b + 1 ELSE b,
          line   |-> IF b < n THEN k + 1 ELSE k,
          hits   |-> HitsTo(data, T, k) ]
  BY ONLY <1>4, <1>5, <1>6, <1>7, n = Len(data) DEF Report
<1>9. (IF b < n THEN b + 1 ELSE b) = (IF k = R THEN n ELSE e) /\ (IF b < n THEN k + 1 ELSE k) = (IF k = R THEN k ELSE k + 1)
  <2>1. CASE k = R
    BY ONLY <1>1, <1>3, <2>1, e = Cut(data, k), b = e - 1
  <2>2. CASE k # R
    <3>1. k \in 1 .. R - 1
      BY ONLY <1>1, <1>2, <2>2
    <3>2. e \in 1 .. n
      BY ONLY <1>1, <3>1, e = Cut(data, k)
    <3> QED
      BY ONLY <1>1, <2>2, <3>2, b = e - 1
  <2> QED
    BY <2>1, <2>2
<1>10. Report(data, st, a, b, k) = ScanAt(data, T, k)
  BY ONLY <1>8, <1>9, n = Len(data), R = Rows(data), e = Cut(data, k) DEF ScanAt
<1> QED
  BY <1>10

LEMMA RowsAtMost == ASSUME NEW E, NEW data \in Seq(E) PROVE Rows(data) <= Len(data) + 1
<1> PICK n, S : n = Len(data) /\ S = NewlinesOf(data)
  OBVIOUS
<1>1. n \in Nat /\ Newlines(data) = Ascending(S, n) /\ Len(Newlines(data)) \in Nat
  BY NewlinesAre
<1> PICK A : A = S \cap 1 .. n
  OBVIOUS
<1>2. IsFiniteSet(A) /\ Cardinality(A) = Len(Newlines(data))
  BY <1>1, AscendingCounts
<1>3. IsFiniteSet(1 .. n) /\ Cardinality(1 .. n) = n
  <2>1. IsFiniteSet(1 .. n) /\ Cardinality(1 .. n) = IF 1 > n THEN 0 ELSE n - 1 + 1
    BY ONLY <1>1, FS_Interval, 1 \in Int, n \in Int
  <2> QED
    BY ONLY <1>1, <2>1
<1>4. Cardinality(A) <= Cardinality(1 .. n)
  <2>1. A \subseteq 1 .. n
    OBVIOUS
  <2> QED
    BY ONLY <1>3, <2>1, FS_Subset
<1> QED
  BY ONLY <1>1, <1>2, <1>3, <1>4, n = Len(data) DEF Rows

\* With a turn that works, the turns end the scan, and it has reported every line of T.
LEMMA ScanReportsAll ==
  ASSUME NEW E, NEW data \in Seq(E), NEW T, NEW h, TurnWorks(h, data, T),
         NEW f, f[0] = ScanStart, \A k \in 1 .. Turns(data) : f[k] = h[f[k - 1]]
  PROVE  f[Turns(data)].state = "done" /\ f[Turns(data)].hits = HitsTo(data, T, Rows(data))
<1> PICK N, R : N = Turns(data) /\ R = Rows(data)
  OBVIOUS
<1> DEFINE scan(j) == ScanAt(data, T, j)
           end(j) == ScanEnd(data, T, j)
           Over(x) == \E j \in 0 .. R : AllHits(data, T, j) /\ x = end(j)
           P(k) == (\E j \in 0 .. R : k <= j /\ f[k] = scan(j)) \/ Over(f[k])
<1> PICK K : K = {k \in 0 .. N : P(k)}
  OBVIOUS
<1>1. N \in Nat /\ R \in Nat /\ R # 0 /\ N > R
  <2>1. R \in Nat /\ R # 0 /\ R <= Len(data) + 1 /\ Len(data) \in Nat
    BY CutsAre, RowsAtMost
  <2> QED
    BY <2>1 DEF Turns
<1>2. 0 \in K
  <2>1. Cut(data, 0) = 0 /\ Ascending(T, 0) = <<>>
    BY CutsAre, AscendingStep
  <2>2. HitsTo(data, T, 0) = <<>>
    BY <2>1, NoHits DEF HitsTo
  <2>3. scan(0) = ScanStart
    BY ONLY <1>1, <2>1, <2>2, R = Rows(data) DEF ScanAt, ScanStart
  <2>4. 0 \in 0 .. R /\ 0 <= 0 /\ 0 \in 0 .. N
    BY <1>1
  <2>5. P(0)
    BY <2>3, <2>4
  <2> QED
    BY <2>4, <2>5
<1>3. ASSUME NEW k \in 0 .. N - 1, k \in K PROVE k + 1 \in K
  <2> PICK m : m = k + 1
    OBVIOUS
  <2>1. m \in 1 .. N /\ m - 1 = k /\ m \in 0 .. N
    BY <1>1
  <2>2. f[m] = h[f[k]]
    BY <2>1
  <2>3. P(k)
    BY <1>3
  <2>4. P(m)
    <3>1. CASE \E j \in 0 .. R : k <= j /\ f[k] = scan(j)
      <4> PICK j \in 0 .. R : k <= j /\ f[k] = scan(j)
        BY <3>1
      <4>1. \/ \E l \in j + 1 .. R : h[scan(j)] = scan(l)
            \/ h[scan(j)] = end(j) /\ AllHits(data, T, j)
        BY DEF TurnWorks
      <4>2. CASE \E l \in j + 1 .. R : h[scan(j)] = scan(l)
        <5> PICK l \in j + 1 .. R : h[scan(j)] = scan(l)
          BY <4>2
        <5>1. l \in 0 .. R /\ m <= l
          BY <1>1
        <5>2. f[m] = scan(l)
          BY <2>2
        <5> QED
          BY <5>1, <5>2
      <4>3. CASE h[scan(j)] = end(j) /\ AllHits(data, T, j)
        <5>1. Over(f[m])
          BY <2>2, <4>3
        <5> QED
          BY <5>1
      <4> QED
        BY ONLY <4>1, <4>2, <4>3
    <3>2. CASE Over(f[k])
      <4> PICK j \in 0 .. R : AllHits(data, T, j) /\ f[k] = end(j)
        BY <3>2
      <4>1. h[end(j)] = end(j)
        BY DEF TurnWorks
      <4>2. f[m] = end(j)
        BY <2>2, <4>1
      <4>3. Over(f[m])
        BY <4>2
      <4> QED
        BY <4>3
    <3> QED
      BY ONLY <2>3, <3>1, <3>2
  <2> QED
    BY <2>1, <2>4
<1>4. \A k \in 0 .. N : k \in K
  <2> HIDE DEF P
  <2> QED
    BY ONLY <1>1, <1>2, <1>3, UpTo
<1>5. P(N)
  BY <1>1, <1>4
<1>6. Over(f[N])
  BY <1>1, <1>5
<1> PICK j \in 0 .. R : AllHits(data, T, j) /\ f[N] = end(j)
  BY <1>6
<1>7. end(j).state = "done" /\ end(j).hits = HitsTo(data, T, j)
  BY DEF ScanAt, ScanEnd
<1> QED
  BY <1>7 DEF AllHits

(***************************************************************************)
(* The literal scan.  T is the set of lines an occurrence starts on.       *)
(***************************************************************************)
OccursIn(data, lit, k) ==
    \E o \in 0 .. Len(data) - Len(lit) : OccursAt(data, lit, o) /\ InLine(data, k, o)

\* The line a scan looks on from.
LEMMA CursorIsInLine ==
  ASSUME NEW E, NEW data \in Seq(E), NEW T, NEW j \in 0 .. Rows(data) - 1
  PROVE  /\ ScanAt(data, T, j).cursor = Cut(data, j) /\ ScanAt(data, T, j).line = j + 1
         /\ Cut(data, j) \in 0 .. Len(data) /\ InLine(data, j + 1, Cut(data, j))
<1> PICK n, R : n = Len(data) /\ R = Rows(data)
  OBVIOUS
<1>1. /\ n \in Nat /\ R \in Nat /\ Cut(data, R) = n + 1 /\ \A i \in 0 .. R : Cut(data, i) \in 0 .. n + 1
      /\ \A i, l \in 0 .. R : i < l => Cut(data, i) < Cut(data, l)
  BY CutsAre
<1>2. j \in 0 .. R /\ R \in 0 .. R /\ j < R /\ j + 1 \in 0 .. R /\ j + 1 \in 1 .. R /\ j < j + 1 /\ (j + 1) - 1 = j /\ j # R
  BY ONLY <1>1, R = Rows(data), j \in 0 .. Rows(data) - 1
<1>3. Cut(data, j) \in 0 .. n /\ Cut(data, j) < Cut(data, j + 1) /\ Cut(data, j) <= Cut(data, j)
  BY ONLY <1>1, <1>2
<1>4. ScanAt(data, T, j).cursor = Cut(data, j) /\ ScanAt(data, T, j).line = j + 1
  BY ONLY <1>2, R = Rows(data) DEF ScanAt
<1>5. InLine(data, j + 1, Cut(data, j))
  BY ONLY <1>2, <1>3, R = Rows(data) DEF InLine
<1> QED
  BY <1>3, <1>4, <1>5

\* The line of an offset is the first behind j whose end is behind the offset.
LEMMA LineBehind ==
  ASSUME NEW E, NEW data \in Seq(E), NEW j \in 0 .. Rows(data), NEW k, NEW o \in 0 .. Len(data), InLine(data, k, o)
  PROVE  k \in j + 1 .. Rows(data) <=> Cut(data, j) <= o
<1> PICK n, R : n = Len(data) /\ R = Rows(data)
  OBVIOUS
<1>1. /\ n \in Nat /\ R \in Nat /\ \A i \in 0 .. R : Cut(data, i) \in 0 .. n + 1
      /\ \A i, l \in 0 .. R : i < l => Cut(data, i) < Cut(data, l)
  BY CutsAre
<1>2. k \in 1 .. R /\ Cut(data, k - 1) <= o /\ o < Cut(data, k)
  BY DEF InLine
<1>3. k \in 0 .. R /\ k - 1 \in 0 .. R /\ j \in 0 .. R /\ o \in Nat
  BY <1>1, <1>2
<1>4. Cut(data, k) \in Nat /\ Cut(data, k - 1) \in Nat /\ Cut(data, j) \in Nat
  BY ONLY <1>1, <1>3
<1>5. ASSUME k \in j + 1 .. R PROVE Cut(data, j) <= o
  <2>1. j = k - 1 \/ j < k - 1
    BY ONLY <1>3, <1>5
  <2>2. Cut(data, j) <= Cut(data, k - 1)
    BY ONLY <1>1, <1>3, <1>4, <2>1
  <2> QED
    BY ONLY <1>2, <1>3, <1>4, <2>2
<1>6. ASSUME k \notin j + 1 .. R PROVE ~ (Cut(data, j) <= o)
  <2>1. k = j \/ k < j
    BY ONLY <1>1, <1>2, <1>3, <1>6
  <2>2. Cut(data, k) <= Cut(data, j)
    BY ONLY <1>1, <1>3, <1>4, <2>1
  <2> QED
    BY ONLY <1>2, <1>3, <1>4, <2>2
<1> QED
  BY <1>5, <1>6

LEMMA LiteralTurnIs ==
  ASSUME NEW E, NEW data \in Seq(E), NEW F, NEW lit \in Seq(F), lit # <<>>,
         NEW T, \A k \in 1 .. Rows(data) : k \in T <=> OccursIn(data, lit, k),
         NEW j \in 0 .. Rows(data)
  PROVE  \/ \E k \in j + 1 .. Rows(data) : LiteralTurn(data, lit, ScanAt(data, T, j)) = ScanAt(data, T, k)
         \/ LiteralTurn(data, lit, ScanAt(data, T, j)) = ScanEnd(data, T, j) /\ AllHits(data, T, j)
<1> PICK n, R, m : n = Len(data) /\ R = Rows(data) /\ m = Len(lit)
  OBVIOUS
<1> PICK st, c : st = ScanAt(data, T, j) /\ c = st.cursor
  OBVIOUS
<1> PICK occ : occ = {o \in c .. n - m : OccursAt(data, lit, o)}
  OBVIOUS
<1>1. n \in Nat /\ R \in Nat /\ R # 0 /\ m \in Nat /\ m # 0 /\ Cut(data, R) = n + 1
  BY CutsAre
<1>2. st.state = "scan" /\ c = IF j = R THEN n ELSE Cut(data, j)
  BY DEF ScanAt
<1>3. c \in 0 .. n
  <2>1. CASE j = R
    BY ONLY <1>1, <1>2, <2>1
  <2>2. CASE j # R
    <3>1. j \in 0 .. R - 1
      BY ONLY <1>1, <2>2, j \in 0 .. Rows(data), R = Rows(data)
    <3>2. Cut(data, j) \in 0 .. n
      BY <3>1, CursorIsInLine
    <3> QED
      BY ONLY <1>2, <2>2, <3>2
  <2> QED
    BY <2>1, <2>2
<1>4. occ \subseteq 0 .. n /\ occ \subseteq Nat
  BY ONLY <1>1, <1>3, occ = {o \in c .. n - m : OccursAt(data, lit, o)}
<1> PICK pos : pos = Index(data, lit, c)
  OBVIOUS
<1>5. pos = IF occ = {} THEN -1 ELSE Min(occ)
  BY ONLY occ = {o \in c .. n - m : OccursAt(data, lit, o)}, n = Len(data), m = Len(lit), pos = Index(data, lit, c) DEF Index
\* An occurrence on a line behind j is one from the cursor on.
<1>6. ASSUME NEW i \in j + 1 .. R, i \in T PROVE j # R /\ \E o \in occ : InLine(data, i, o)
  <2>1. i \in 1 .. R /\ j # R
    BY ONLY <1>1, i \in j + 1 .. R, j \in 0 .. Rows(data), R = Rows(data)
  <2>2. PICK o \in 0 .. n - m : OccursAt(data, lit, o) /\ InLine(data, i, o)
    BY <1>6, <2>1 DEF OccursIn
  <2>3. o \in 0 .. n
    BY ONLY <1>1, <2>2
  <2>4. Cut(data, j) <= o
    BY <2>2, <2>3, LineBehind
  <2>5. o \in c .. n - m
    BY ONLY <1>1, <1>2, <1>3, <2>1, <2>2, <2>4
  <2> QED
    BY ONLY <2>1, <2>2, <2>5, occ = {o_1 \in c .. n - m : OccursAt(data, lit, o_1)}
<1>7. CASE occ = {}
  <2>1. AllHits(data, T, j)
    <3>1. \A i \in j + 1 .. R : i \notin T
      BY <1>6, <1>7
    <3> QED
      BY <3>1, NoNextHit
  <2>2. pos < 0
    BY ONLY <1>5, <1>7
  <2>3. LiteralTurn(data, lit, st) = [st EXCEPT !.state = "done"]
    BY ONLY <1>2, <2>2, c = st.cursor, pos = Index(data, lit, c) DEF LiteralTurn
  <2> QED
    BY <2>1, <2>3 DEF ScanEnd
<1>8. CASE occ # {}
  <2>1. pos \in occ /\ \A o \in occ : pos <= o
    BY ONLY <1>4, <1>5, <1>8, MinIsLeast
  <2>2. pos \in 0 .. n /\ c <= pos /\ pos <= n - m /\ OccursAt(data, lit, pos) /\ pos \in 0 .. n - m
    BY ONLY <1>1, <1>3, <2>1, occ = {o \in c .. n - m : OccursAt(data, lit, o)}
  <2>3. j \in 0 .. R - 1 /\ j # R
    BY ONLY <1>1, <1>2, <2>2, j \in 0 .. Rows(data), R = Rows(data)
  <2>4. c = Cut(data, j) /\ st.line = j + 1 /\ c \in 0 .. n /\ InLine(data, j + 1, c)
    BY <2>3, CursorIsInLine
  <2>5. PICK k : InLine(data, k, pos)
    BY <2>2, OffsetIsInLine
  <2>6. k \in j + 1 .. R /\ k \in 1 .. R
    <3>1. k \in j + 1 .. R
      BY <2>2, <2>4, <2>5, LineBehind
    <3> QED
      BY <2>5, <3>1 DEF InLine
  <2>7. k \in T
    <3>1. OccursIn(data, lit, k)
      BY ONLY <2>2, <2>5, n = Len(data), m = Len(lit) DEF OccursIn
    <3> QED
      BY <2>6, <3>1
  <2>8. \A i \in j + 1 .. k - 1 : i \notin T
    <3> SUFFICES ASSUME NEW i \in j + 1 .. k - 1, i \in T PROVE FALSE
      OBVIOUS
    <3>1. i \in j + 1 .. R /\ i \in 0 .. R /\ k \notin 1 .. i /\ k \in i + 1 .. R
      BY ONLY <1>1, <2>3, <2>6, i \in j + 1 .. k - 1
    <3>2. PICK o \in occ : InLine(data, i, o)
      BY <1>6, <3>1
    <3>3. o \in 0 .. n /\ pos <= o
      BY ONLY <1>4, <2>1, <3>2
    <3>4. Cut(data, i) <= pos
      BY <2>2, <2>5, <3>1, LineBehind
    <3>5. o < Cut(data, i)
      BY <3>2 DEF InLine
    <3>6. Cut(data, i) \in Nat
      BY <3>1, CutsAre
    <3> QED
      BY ONLY <1>1, <2>2, <3>3, <3>4, <3>5, <3>6
  <2>9. LineStart(data, pos) = Cut(data, k - 1) /\ LineEnd(data, pos) = Cut(data, k) - 1
    BY <2>2, <2>5, LineEdges
  <2>10. st.line + CountNewlines(data, c, pos) = k
    <3> PICK w : w = CountNewlines(data, c, pos)
      OBVIOUS
    <3>1. w = k - (j + 1)
      BY <2>2, <2>4, <2>5, NewlinesBetween
    <3> QED
      BY ONLY <2>3, <2>4, <2>6, <3>1, <1>1, w = CountNewlines(data, c, pos)
  <2>11. LiteralTurn(data, lit, st) = Report(data, st, Cut(data, k - 1), Cut(data, k) - 1, k)
    <3>1. ~ (pos < 0)
      BY ONLY <1>1, <2>2
    <3>2. LiteralTurn(data, lit, st) = Report(data, st, LineStart(data, pos), LineEnd(data, pos),
                                              st.line + CountNewlines(data, c, pos))
      BY ONLY <1>2, <3>1, c = st.cursor, pos = Index(data, lit, c) DEF LiteralTurn
    <3> QED
      BY ONLY <2>9, <2>10, <3>2
  <2>12. LiteralTurn(data, lit, st) = ScanAt(data, T, k)
    BY <2>6, <2>7, <2>8, <2>11, ReportIs
  <2> QED
    BY <2>6, <2>12
<1> QED
  BY <1>7, <1>8

IsLiteralScan(st, data, lit) ==
    st = [k \in 0 .. Turns(data) |-> IF k = 0 THEN ScanStart ELSE LiteralTurn(data, lit, st[k - 1])]

\* A loop of a turn that works runs.
LEMMA ScanRuns ==
  ASSUME NEW E, NEW data \in Seq(E), NEW T, NEW h \in [ScanStates(data, T) -> ScanStates(data, T)]
  PROVE  \E f \in [0 .. Turns(data) -> ScanStates(data, T)] :
            \A k \in 0 .. Turns(data) : f[k] = IF k = 0 THEN ScanStart ELSE h[f[k - 1]]
<1> PICK N, S : N = Turns(data) /\ S = ScanStates(data, T)
  OBVIOUS
<1> PICK g : g = [k \in 1 .. N |-> h]
  OBVIOUS
<1>1. N \in Nat
  BY DEF Turns
<1>2. ScanStart \in S
  <2>1. Cut(data, 0) = 0 /\ Ascending(T, 0) = <<>> /\ Rows(data) \in Nat /\ Rows(data) # 0
    BY CutsAre, AscendingStep
  <2>2. HitsTo(data, T, 0) = <<>>
    BY <2>1, NoHits DEF HitsTo
  <2>3. ScanAt(data, T, 0) = ScanStart
    BY ONLY <2>1, <2>2 DEF ScanAt, ScanStart
  <2> QED
    BY <2>1, <2>3 DEF ScanStates
<1>3. Rounds(g, N, S)
  BY ONLY g = [k \in 1 .. N |-> h], h \in [ScanStates(data, T) -> ScanStates(data, T)], S = ScanStates(data, T) DEF Rounds
<1>4. PICK f : IsLoop(f, N, S, ScanStart, g)
  BY ONLY <1>1, <1>2, <1>3, LoopExists
<1>5. \A k \in 1 .. N : g[k] = h
  BY ONLY g = [k \in 1 .. N |-> h]
<1>6. f \in [0 .. N -> S] /\ \A k \in 0 .. N : f[k] = IF k = 0 THEN ScanStart ELSE g[k][f[k - 1]]
  BY ONLY <1>4 DEF IsLoop
<1>7. \A k \in 0 .. N : f[k] = IF k = 0 THEN ScanStart ELSE h[f[k - 1]]
  <2> TAKE k \in 0 .. N
  <2>1. k # 0 => k \in 1 .. N
    BY ONLY <1>1, k \in 0 .. N
  <2> QED
    BY ONLY <1>5, <1>6, <2>1, k \in 0 .. N
<1> QED
  BY <1>6, <1>7

\* The states f of a scan whose turns are the function h.
GoesBy(f, h, data, T) ==
    TurnWorks(h, data, T) /\ f[0] = ScanStart /\ \A k \in 1 .. Turns(data) : f[k] = h[f[k - 1]]

LEMMA LiteralScanRuns ==
  ASSUME NEW E, NEW data \in Seq(E), NEW F, NEW lit \in Seq(F), lit # <<>>,
         NEW T, \A k \in 1 .. Rows(data) : k \in T <=> OccursIn(data, lit, k)
  PROVE  \E f, h : IsLiteralScan(f, data, lit) /\ GoesBy(f, h, data, T)
<1> PICK N, R, S : N = Turns(data) /\ R = Rows(data) /\ S = ScanStates(data, T)
  OBVIOUS
<1> PICK h : h = [x \in S |-> LiteralTurn(data, lit, x)]
  OBVIOUS
<1>1. N \in Nat /\ R \in Nat
  <2>1. Len(data) \in Nat
    OBVIOUS
  <2>2. R \in Nat
    BY CutsAre
  <2> QED
    BY <2>1, <2>2 DEF Turns
<1>2. /\ \A i \in 0 .. R : ScanAt(data, T, i) \in S
      /\ \A i \in 0 .. R : AllHits(data, T, i) => ScanEnd(data, T, i) \in S
      /\ \A x \in S : \E i \in 0 .. R : x = ScanAt(data, T, i) \/ (AllHits(data, T, i) /\ x = ScanEnd(data, T, i))
  BY ONLY R = Rows(data), S = ScanStates(data, T) DEF ScanStates
<1>3. ASSUME NEW j \in 0 .. R
      PROVE  \/ \E k \in j + 1 .. R : LiteralTurn(data, lit, ScanAt(data, T, j)) = ScanAt(data, T, k)
             \/ LiteralTurn(data, lit, ScanAt(data, T, j)) = ScanEnd(data, T, j) /\ AllHits(data, T, j)
  BY LiteralTurnIs
<1>4. ASSUME NEW j \in 0 .. R
      PROVE  LiteralTurn(data, lit, ScanEnd(data, T, j)) = ScanEnd(data, T, j)
  <2>1. ScanEnd(data, T, j).state # "scan"
    BY DEF ScanAt, ScanEnd
  <2> QED
    BY ONLY <2>1 DEF LiteralTurn
<1>5. \A i \in 0 .. R : h[ScanAt(data, T, i)] = LiteralTurn(data, lit, ScanAt(data, T, i))
  BY ONLY <1>2, h = [x \in S |-> LiteralTurn(data, lit, x)]
<1>6. \A i \in 0 .. R : AllHits(data, T, i) => h[ScanEnd(data, T, i)] = ScanEnd(data, T, i)
  BY ONLY <1>2, <1>4, h = [x \in S |-> LiteralTurn(data, lit, x)]
<1>7. \A i \in 0 .. R :
        \/ \E k \in i + 1 .. R : h[ScanAt(data, T, i)] = ScanAt(data, T, k)
        \/ h[ScanAt(data, T, i)] = ScanEnd(data, T, i) /\ AllHits(data, T, i)
  <2> TAKE i \in 0 .. R
  <2> QED
    BY ONLY <1>3, <1>5, i \in 0 .. R
<1>8. TurnWorks(h, data, T)
  BY ONLY <1>6, <1>7, R = Rows(data) DEF TurnWorks
<1>9. ASSUME NEW x \in S PROVE h[x] \in S
  <2> PICK i \in 0 .. R : x = ScanAt(data, T, i) \/ (AllHits(data, T, i) /\ x = ScanEnd(data, T, i))
    BY <1>2
  <2>1. \A k \in i + 1 .. R : k \in 0 .. R
    BY <1>1
  <2>2. CASE x = ScanAt(data, T, i)
    BY ONLY <1>2, <1>7, <2>1, <2>2, i \in 0 .. R
  <2>3. CASE AllHits(data, T, i) /\ x = ScanEnd(data, T, i)
    BY ONLY <1>2, <1>6, <2>3, i \in 0 .. R
  <2> QED
    BY <2>2, <2>3
<1>10. h \in [S -> S]
  <2>1. h = [x \in S |-> h[x]]
    BY ONLY h = [x \in S |-> LiteralTurn(data, lit, x)]
  <2> QED
    BY ONLY <1>9, <2>1
<1>11. PICK f \in [0 .. N -> S] : \A k \in 0 .. N : f[k] = IF k = 0 THEN ScanStart ELSE h[f[k - 1]]
  BY <1>10, ScanRuns
<1>12. ASSUME NEW k \in 1 .. N PROVE f[k] = h[f[k - 1]] /\ f[k] = LiteralTurn(data, lit, f[k - 1])
  <2>1. k \in 0 .. N /\ k # 0 /\ k - 1 \in 0 .. N
    BY <1>1
  <2>2. f[k] = h[f[k - 1]] /\ f[k - 1] \in S
    BY <1>11, <2>1
  <2>3. h[f[k - 1]] = LiteralTurn(data, lit, f[k - 1])
    BY ONLY <2>2, h = [x \in S |-> LiteralTurn(data, lit, x)]
  <2> QED
    BY <2>2, <2>3
<1>13. f[0] = ScanStart
  BY <1>1, <1>11
<1>14. IsLiteralScan(f, data, lit)
  <2>1. \A k \in 0 .. N : f[k] = IF k = 0 THEN ScanStart ELSE LiteralTurn(data, lit, f[k - 1])
    <3> TAKE k \in 0 .. N
    <3>1. k # 0 => k \in 1 .. N
      BY <1>1
    <3> QED
      BY ONLY <1>12, <1>13, <3>1
  <2>2. f = [k \in 0 .. N |-> f[k]]
    OBVIOUS
  <2>3. f = [k \in 0 .. N |-> IF k = 0 THEN ScanStart ELSE LiteralTurn(data, lit, f[k - 1])]
    BY ONLY <2>1, <2>2
  <2> QED
    BY ONLY <2>3, N = Turns(data) DEF IsLiteralScan
<1>15. \A k \in 1 .. N : f[k] = h[f[k - 1]]
  BY <1>12
<1>16. GoesBy(f, h, data, T)
  BY ONLY <1>8, <1>13, <1>15, N = Turns(data) DEF GoesBy
<1> QED
  BY ONLY <1>14, <1>16

LEMMA LiteralScanIs ==
  ASSUME NEW data, NEW lit
  PROVE  (\E f : IsLiteralScan(f, data, lit)) => \E f : IsLiteralScan(f, data, lit) /\ ScanLiteral(data, lit) = f[Turns(data)]
<1> DEFINE st == CHOOSE st : st = [k \in 0 .. Turns(data) |->
                    IF k = 0 THEN ScanStart ELSE LiteralTurn(data, lit, st[k - 1])]
<1> SUFFICES ASSUME NEW e, IsLiteralScan(e, data, lit) PROVE IsLiteralScan(st, data, lit) /\ ScanLiteral(data, lit) = st[Turns(data)]
  OBVIOUS
<1>1. IsLiteralScan(st, data, lit)
  BY ONLY IsLiteralScan(e, data, lit) DEF IsLiteralScan
<1>2. ScanLiteral(data, lit) = st[Turns(data)]
  BY ONLY DEF ScanLiteral
<1> QED
  BY ONLY <1>1, <1>2

LEMMA LiteralScanReports ==
  ASSUME NEW E, NEW data \in Seq(E), NEW F, NEW lit \in Seq(F), lit # <<>>,
         NEW T, \A k \in 1 .. Rows(data) : k \in T <=> OccursIn(data, lit, k)
  PROVE  ScanLiteral(data, lit).state = "done" /\ ScanLiteral(data, lit).hits = HitsTo(data, T, Rows(data))
<1>1. \E f : IsLiteralScan(f, data, lit)
  BY LiteralScanRuns
<1>2. PICK f : IsLiteralScan(f, data, lit) /\ ScanLiteral(data, lit) = f[Turns(data)]
  BY ONLY <1>1, LiteralScanIs
<1>3. PICK e, h : IsLiteralScan(e, data, lit) /\ GoesBy(e, h, data, T)
  BY LiteralScanRuns
<1>4. Turns(data) \in Nat
  <2>1. Len(data) \in Nat
    OBVIOUS
  <2> QED
    BY <2>1 DEF Turns
<1>5. \A k \in 0 .. Turns(data) : f[k] = e[k]
  <2> PICK N : N = Turns(data)
    OBVIOUS
  <2> PICK K : K = {k \in 0 .. N : f[k] = e[k]}
    OBVIOUS
  <2>1. /\ \A k \in 0 .. N : f[k] = IF k = 0 THEN ScanStart ELSE LiteralTurn(data, lit, f[k - 1])
        /\ \A k \in 0 .. N : e[k] = IF k = 0 THEN ScanStart ELSE LiteralTurn(data, lit, e[k - 1])
    BY ONLY <1>2, <1>3, N = Turns(data) DEF IsLiteralScan
  <2>2. 0 \in K
    BY ONLY <1>4, <2>1, N = Turns(data), K = {k \in 0 .. N : f[k] = e[k]}
  <2>3. ASSUME NEW k \in 0 .. N - 1, k \in K PROVE k + 1 \in K
    <3> PICK i : i = k + 1
      OBVIOUS
    <3>1. i \in 0 .. N /\ i # 0 /\ i - 1 = k
      BY <1>4
    <3>2. f[k] = e[k]
      BY <2>3
    <3>3. f[i] = LiteralTurn(data, lit, f[k]) /\ e[i] = LiteralTurn(data, lit, e[k])
      BY ONLY <2>1, <3>1
    <3> QED
      BY <3>1, <3>2, <3>3
  <2>4. \A k \in 0 .. N : k \in K
    BY ONLY <1>4, <2>2, <2>3, UpTo, N = Turns(data)
  <2> QED
    BY <2>4
<1>6. f[Turns(data)] = e[Turns(data)]
  BY <1>4, <1>5
<1>7. e[Turns(data)].state = "done" /\ e[Turns(data)].hits = HitsTo(data, T, Rows(data))
  BY <1>3, ScanReportsAll DEF GoesBy
<1> QED
  BY ONLY <1>2, <1>6, <1>7

\* Line k starts where the newlines of the lines before it end.
LEMMA LineByNewlines ==
  ASSUME NEW E, NEW data \in Seq(E), NEW o \in 0 .. Len(data), NEW k
  PROVE  InLine(data, k, o) <=> k = 1 + CountNewlines(data, 0, o)
<1>1. Len(data) \in Nat /\ o \in Nat
  OBVIOUS
<1>2. 0 \in 0 .. Len(data) /\ 0 <= o
  BY <1>1
<1> PICK r, w : r = Len(Ascending(NewlinesOf(data), o)) + 1 /\ w = CountNewlines(data, 0, o)
  OBVIOUS
<1>3. InLine(data, r, o) /\ (InLine(data, k, o) => k = r)
  BY OffsetIsInLine
<1>4. InLine(data, 1, 0)
  <2> PICK R : R = Rows(data)
    OBVIOUS
  <2>1. R \in Nat /\ R # 0 /\ Cut(data, 0) = 0
    BY CutsAre
  <2>2. 0 \in 0 .. R /\ 1 \in 0 .. R /\ 0 < 1
    BY ONLY <2>1
  <2>3. Cut(data, 0) < Cut(data, 1)
    BY <2>2, CutsAre
  <2>4. 1 - 1 = 0 /\ 1 \in 1 .. R
    BY ONLY <2>1
  <2> QED
    BY ONLY <2>1, <2>3, <2>4, R = Rows(data) DEF InLine
<1>5. w = r - 1
  BY <1>2, <1>3, <1>4, NewlinesBetween
<1>6. r \in Nat
  BY <1>3, CutsAre DEF InLine
<1>7. 1 + w = r
  BY ONLY <1>5, <1>6
<1> QED
  BY <1>3, <1>7

\* What the literal scan of a buffer must give: the lines an occurrence starts on.
LiteralLines(data, lit) ==
    {k \in DOMAIN Lines(data) :
        {o \in 0 .. Len(data) - Len(lit) :
            OccursAt(data, lit, o) /\ k = 1 + CountNewlines(data, 0, o)} # {}}

LEMMA LiteralLinesAre ==
  ASSUME NEW E, NEW data \in Seq(E), NEW F, NEW lit \in Seq(F), NEW k \in 1 .. Rows(data)
  PROVE  k \in LiteralLines(data, lit) <=> OccursIn(data, lit, k)
<1>1. DOMAIN Lines(data) = 1 .. Rows(data)
  BY LinesAre
<1>2. ASSUME NEW o \in 0 .. Len(data) - Len(lit)
      PROVE  InLine(data, k, o) <=> k = 1 + CountNewlines(data, 0, o)
  <2>1. Len(data) \in Nat /\ Len(lit) \in Nat
    OBVIOUS
  <2>2. o \in 0 .. Len(data)
    BY <2>1
  <2> QED
    BY <2>2, LineByNewlines
<1> QED
  BY ONLY <1>1, <1>2, k \in 1 .. Rows(data) DEF LiteralLines, OccursIn

LEMMA LiteralScanExact ==
  ASSUME NEW E, NEW data \in Seq(E), NEW F, NEW lit \in Seq(F), lit # <<>>
  PROVE  ScanLiteral(data, lit).hits
           = HitsAmong(Lines(data), Ascending(LiteralLines(data, lit), Len(Lines(data))))
<1> PICK T : T = LiteralLines(data, lit)
  OBVIOUS
<1>1. \A k \in 1 .. Rows(data) : k \in T <=> OccursIn(data, lit, k)
  BY LiteralLinesAre
<1>2. ScanLiteral(data, lit).hits = HitsTo(data, T, Rows(data))
  BY <1>1, LiteralScanReports
<1>3. Len(Lines(data)) = Rows(data)
  BY LinesAre
<1> QED
  BY <1>2, <1>3 DEF HitsTo

(***************************************************************************)
(* The scan for a regular expression.  T is the set of the lines that      *)
(* match.                                                                  *)
(***************************************************************************)
AtLineEnd(data, e) == e = Len(data) \/ data[e + 1] = NL

LEMMA LineEndsAre ==
  ASSUME NEW E, NEW data \in Seq(E)
  PROVE  /\ \A k \in 1 .. Rows(data) :
               /\ Cut(data, k) - 1 \in 0 .. Len(data) /\ AtLineEnd(data, Cut(data, k) - 1)
               /\ InLine(data, k, Cut(data, k) - 1) /\ InLine(data, k, Cut(data, k - 1))
               /\ Cut(data, k - 1) \in 0 .. Len(data)
         /\ \A e \in 0 .. Len(data) : AtLineEnd(data, e) => \E k \in 1 .. Rows(data) : e = Cut(data, k) - 1
<1> PICK n, R : n = Len(data) /\ R = Rows(data)
  OBVIOUS
<1>1. /\ n \in Nat /\ R \in Nat /\ R # 0 /\ Cut(data, R) = n + 1 /\ \A i \in 0 .. R : Cut(data, i) \in 0 .. n + 1
      /\ \A i, l \in 0 .. R : i < l => Cut(data, i) < Cut(data, l)
      /\ \A k \in 1 .. R - 1 : Cut(data, k) \in 1 .. n /\ data[Cut(data, k)] = NL
      /\ \A i \in 1 .. n : data[i] = NL => \E k \in 1 .. R - 1 : i = Cut(data, k)
  BY CutsAre
<1>2. ASSUME NEW k \in 1 .. R
      PROVE  /\ Cut(data, k) - 1 \in 0 .. n /\ AtLineEnd(data, Cut(data, k) - 1)
             /\ InLine(data, k, Cut(data, k) - 1) /\ InLine(data, k, Cut(data, k - 1))
             /\ Cut(data, k - 1) \in 0 .. n
  <2> PICK a, b : a = Cut(data, k - 1) /\ b = Cut(data, k)
    OBVIOUS
  <2>1. k - 1 \in 0 .. R /\ k \in 0 .. R /\ k - 1 < k
    BY ONLY <1>1, k \in 1 .. R
  <2>2. a \in 0 .. n + 1 /\ b \in 0 .. n + 1 /\ a < b
    BY ONLY <1>1, <2>1, a = Cut(data, k - 1), b = Cut(data, k)
  <2>3. b - 1 \in 0 .. n /\ a \in 0 .. n /\ a <= b - 1 /\ b - 1 < b /\ a <= a /\ (b - 1) + 1 = b
    BY ONLY <1>1, <2>2
  <2>4. InLine(data, k, b - 1) /\ InLine(data, k, a)
    BY ONLY <2>2, <2>3, k \in 1 .. R, R = Rows(data), a = Cut(data, k - 1), b = Cut(data, k) DEF InLine
  <2>5. AtLineEnd(data, b - 1)
    <3>1. CASE k = R
      <4>1. b - 1 = n
        BY ONLY <1>1, <3>1, b = Cut(data, k)
      <4> QED
        BY ONLY <4>1, n = Len(data) DEF AtLineEnd
    <3>2. CASE k # R
      <4>1. k \in 1 .. R - 1
        BY ONLY <1>1, <3>2, k \in 1 .. R
      <4>2. data[b] = NL
        BY ONLY <1>1, <4>1, b = Cut(data, k)
      <4> QED
        BY ONLY <2>3, <4>2 DEF AtLineEnd
    <3> QED
      BY <3>1, <3>2
  <2> QED
    BY <2>3, <2>4, <2>5
<1>3. ASSUME NEW e \in 0 .. n, AtLineEnd(data, e) PROVE \E k \in 1 .. R : e = Cut(data, k) - 1
  <2>1. CASE e = n
    <3>1. R \in 1 .. R /\ e = Cut(data, R) - 1
      BY ONLY <1>1, <2>1
    <3> QED
      BY <3>1
  <2>2. CASE e # n
    <3> PICK i : i = e + 1
      OBVIOUS
    <3>1. i \in 1 .. n /\ e = i - 1
      BY ONLY <1>1, <2>2, e \in 0 .. n, i = e + 1
    <3>2. data[i] = NL
      BY <1>3, <2>2 DEF AtLineEnd
    <3>3. PICK k \in 1 .. R - 1 : i = Cut(data, k)
      BY <1>1, <3>1, <3>2
    <3>4. k \in 1 .. R /\ e = Cut(data, k) - 1
      BY ONLY <1>1, <3>1, <3>3
    <3> QED
      BY <3>4
  <2> QED
    BY <2>1, <2>2
<1> QED
  BY <1>2, <1>3

\* Where a match may end when the first j lines are passed: at the ends of the matching lines.
LEMMA MatchEnds ==
  ASSUME NEW E, NEW data \in Seq(E), NEW pattern, NEW j \in 0 .. Rows(data), NEW k \in j + 1 .. Rows(data),
         j # Rows(data)
  PROVE  SubSeq(data, Max({Cut(data, j), LineStart(data, Cut(data, k) - 1)}) + 1, Cut(data, k) - 1)
           = Lines(data)[k]
<1> PICK n, R : n = Len(data) /\ R = Rows(data)
  OBVIOUS
<1> PICK a, c, e : a = Cut(data, k - 1) /\ c = Cut(data, j) /\ e = Cut(data, k) - 1
  OBVIOUS
<1>1. /\ n \in Nat /\ R \in Nat /\ \A i \in 0 .. R : Cut(data, i) \in 0 .. n + 1
      /\ \A i, l \in 0 .. R : i < l => Cut(data, i) < Cut(data, l)
  BY CutsAre
<1>2. k \in 1 .. R /\ k - 1 \in 0 .. R /\ (j = k - 1 \/ j < k - 1) /\ j \in 0 .. R
  BY <1>1
<1>3. a \in Nat /\ c \in Nat /\ c <= a /\ a \in 0 .. n + 1 /\ c \in 0 .. n + 1
  BY ONLY <1>1, <1>2, a = Cut(data, k - 1), c = Cut(data, j)
<1>4. e \in 0 .. n /\ InLine(data, k, e)
  BY <1>2, LineEndsAre
<1>5. LineStart(data, e) = a
  BY <1>4, LineEdges
<1> PICK S : S = {c, a}
  OBVIOUS
<1>6. Max(S) = a
  <2> PICK M, w : M = Max(S) /\ w = n + 1
    OBVIOUS
  <2>1. w \in Nat /\ S \subseteq 0 .. w /\ S # {} /\ a \in S
    BY ONLY <1>1, <1>3, S = {c, a}, w = n + 1
  <2>2. M \in S /\ \A y \in S : y <= M
    BY ONLY <2>1, GreatestIn, M = Max(S)
  <2>3. a <= M /\ (M = a \/ M = c)
    BY ONLY <2>1, <2>2, S = {c, a}
  <2>4. M = a
    BY ONLY <1>3, <2>3
  <2> QED
    BY ONLY <2>4, M = Max(S)
<1>7. Lines(data)[k] = LineText(data, k)
  BY <1>2, LinesAre
<1>8. LineText(data, k) = SubSeq(data, a + 1, e)
  BY ONLY a = Cut(data, k - 1), e = Cut(data, k) - 1 DEF LineText
<1>9. Max({c, LineStart(data, e)}) = a
  BY ONLY <1>5, <1>6, S = {c, a}
<1>10. SubSeq(data, Max({c, LineStart(data, e)}) + 1, e) = Lines(data)[k]
  BY ONLY <1>7, <1>8, <1>9
<1> QED
  BY ONLY <1>10, c = Cut(data, j), e = Cut(data, k) - 1

LEMMA RegexTurnIs ==
  ASSUME NEW E, NEW data \in Seq(E), NEW pattern, ~MatchesLine(pattern, <<>>),
         NEW T, \A k \in 1 .. Rows(data) : k \in T <=> MatchesLine(pattern, Lines(data)[k]),
         NEW j \in 0 .. Rows(data)
  PROVE  \/ \E k \in j + 1 .. Rows(data) : RegexTurn(data, pattern, ScanAt(data, T, j)) = ScanAt(data, T, k)
         \/ RegexTurn(data, pattern, ScanAt(data, T, j)) = ScanEnd(data, T, j) /\ AllHits(data, T, j)
<1> PICK n, R : n = Len(data) /\ R = Rows(data)
  OBVIOUS
<1> PICK st, c : st = ScanAt(data, T, j) /\ c = st.cursor
  OBVIOUS
<1>1. n \in Nat /\ R \in Nat /\ R # 0 /\ Cut(data, R) = n + 1 /\ \A i \in 0 .. R : Cut(data, i) \in Nat
  BY CutsAre
<1>2. st.state = "scan" /\ c = IF j = R THEN n ELSE Cut(data, j)
  BY DEF ScanAt
\* A matching line is not empty.
<1>3. ASSUME NEW k \in 1 .. R, k \in T PROVE Cut(data, k - 1) < Cut(data, k) - 1
  <2>1. Lines(data)[k] # <<>>
    BY <1>3
  <2>2. /\ Lines(data)[k] = LineText(data, k) /\ LineText(data, k) \in Seq(E)
        /\ Len(LineText(data, k)) = (Cut(data, k) - 1) - Cut(data, k - 1)
    BY LinesAre
  <2> PICK t, a, b : t = LineText(data, k) /\ a = Cut(data, k - 1) /\ b = Cut(data, k)
    OBVIOUS
  <2>3. t \in Seq(E) /\ t # <<>> /\ Len(t) = (b - 1) - a
    BY ONLY <2>1, <2>2, t = LineText(data, k), a = Cut(data, k - 1), b = Cut(data, k)
  <2>4. Len(t) \in Nat /\ Len(t) # 0
    BY ONLY <2>3
  <2>5. k \in 0 .. R /\ k - 1 \in 0 .. R
    BY <1>1
  <2>6. a \in Nat /\ b \in Nat
    BY <1>1, <2>5
  <2> QED
    BY ONLY <2>3, <2>4, <2>6, a = Cut(data, k - 1), b = Cut(data, k)
<1>4. CASE c >= n
  <2>1. AllHits(data, T, j)
    <3>1. \A i \in j + 1 .. R : i \notin T
      <4> SUFFICES ASSUME NEW i \in j + 1 .. R, i \in T PROVE FALSE
        OBVIOUS
      <4>1. i \in 1 .. R /\ j # R /\ i - 1 \in 0 .. R /\ i \in 0 .. R /\ R \in 0 .. R /\ (j = i - 1 \/ j < i - 1) /\ (i = R \/ i < R)
        BY <1>1
      <4>2. Cut(data, i - 1) < Cut(data, i) - 1
        BY <1>3, <4>1
      <4>3. Cut(data, i) <= n + 1 /\ c <= Cut(data, i - 1)
        <5>1. \A x, y \in 0 .. R : x < y => Cut(data, x) < Cut(data, y)
          BY CutsAre
        <5> PICK x, y, z : x = Cut(data, i) /\ y = Cut(data, i - 1) /\ z = Cut(data, j)
          OBVIOUS
        <5>2. x \in Nat /\ y \in Nat /\ z \in Nat
          BY <1>1, <4>1
        <5>3. x <= n + 1
          BY ONLY <1>1, <4>1, <5>1, <5>2, x = Cut(data, i)
        <5>4. z <= y
          BY ONLY <1>1, <4>1, <5>1, <5>2, y = Cut(data, i - 1), z = Cut(data, j), j \in 0 .. Rows(data), R = Rows(data)
        <5>5. c = z
          BY ONLY <1>2, <4>1, z = Cut(data, j)
        <5> QED
          BY <5>3, <5>4, <5>5
      <4>4. Cut(data, i) \in Nat /\ Cut(data, i - 1) \in Nat
        BY <1>1, <4>1
      <4>5. c \in Int
        BY <1>1, <1>2, <4>1
      <4> QED
        BY ONLY <1>1, <1>4, <4>2, <4>3, <4>4, <4>5
    <3> QED
      BY <3>1, NoNextHit
  <2>2. RegexTurn(data, pattern, st) = [st EXCEPT !.state = "done"]
    BY ONLY <1>2, <1>4, c = st.cursor, n = Len(data) DEF RegexTurn
  <2> QED
    BY <2>1, <2>2 DEF ScanEnd
<1>5. CASE ~ (c >= n)
  <2>1. j \in 0 .. R - 1 /\ j # R /\ j \in 0 .. R
    BY ONLY <1>1, <1>2, <1>5, j \in 0 .. Rows(data), R = Rows(data)
  <2>2. c = Cut(data, j) /\ st.line = j + 1 /\ c \in 0 .. n /\ InLine(data, j + 1, c)
    BY <2>1, CursorIsInLine
  <2> DEFINE Text(e) == SubSeq(data, Max({c, LineStart(data, e)}) + 1, e)
  <2> PICK ends : ends = {e \in c .. n : AtLineEnd(data, e) /\ MatchesLine(pattern, Text(e))}
    OBVIOUS
  <2> PICK pos : pos = FindIndex(data, pattern, c)
    OBVIOUS
  <2>3. pos = IF ends = {} THEN -1 ELSE Min(ends)
    BY DEF FindIndex, AtLineEnd
  <2>4. ASSUME NEW k \in j + 1 .. R
        PROVE  /\ Cut(data, k) - 1 \in c .. n /\ AtLineEnd(data, Cut(data, k) - 1)
               /\ Text(Cut(data, k) - 1) = Lines(data)[k]
    <3>1. k \in 1 .. R
      BY ONLY <1>1, <2>1, k \in j + 1 .. R
    <3>2. /\ Cut(data, k) - 1 \in 0 .. n /\ AtLineEnd(data, Cut(data, k) - 1)
          /\ InLine(data, k, Cut(data, k) - 1)
      BY <3>1, LineEndsAre
    <3>3. Cut(data, j) <= Cut(data, k) - 1
      BY <3>2, LineBehind
    <3>4. Text(Cut(data, k) - 1) = Lines(data)[k]
      BY <2>1, <2>2, MatchEnds
    <3>5. Cut(data, k) - 1 \in c .. n
      BY ONLY <1>1, <2>2, <3>2, <3>3
    <3> QED
      BY ONLY <3>2, <3>4, <3>5
  <2>5. ASSUME NEW k \in j + 1 .. R, k \in T PROVE Cut(data, k) - 1 \in ends
    <3>1. k \in 1 .. R
      BY ONLY <1>1, <2>1, k \in j + 1 .. R
    <3>2. MatchesLine(pattern, Lines(data)[k])
      BY <2>5, <3>1
    <3> HIDE DEF Text
    <3>3. /\ Cut(data, k) - 1 \in c .. n /\ AtLineEnd(data, Cut(data, k) - 1)
          /\ MatchesLine(pattern, Text(Cut(data, k) - 1))
      BY <2>4, <3>2
    <3> QED
      BY ONLY <3>3, ends = {e \in c .. n : AtLineEnd(data, e) /\ MatchesLine(pattern, Text(e))}
  <2>6. ASSUME NEW e \in ends PROVE \E k \in j + 1 .. R : k \in T /\ e = Cut(data, k) - 1
    <3> HIDE DEF Text
    <3>1. e \in c .. n /\ AtLineEnd(data, e) /\ MatchesLine(pattern, Text(e))
      BY ONLY e \in ends, ends = {e_1 \in c .. n : AtLineEnd(data, e_1) /\ MatchesLine(pattern, Text(e_1))}
    <3>2. e \in 0 .. n /\ c <= e
      BY ONLY <1>1, <2>2, <3>1
    <3>3. PICK k \in 1 .. R : e = Cut(data, k) - 1
      BY <3>1, <3>2, LineEndsAre
    <3>4. InLine(data, k, e)
      BY <3>3, LineEndsAre
    <3>5. k \in j + 1 .. R
      BY <2>2, <3>2, <3>4, LineBehind
    <3>6. MatchesLine(pattern, Lines(data)[k])
      BY ONLY <2>4, <3>1, <3>3, <3>5
    <3> QED
      BY <3>3, <3>5, <3>6
  <2> HIDE DEF Text
  <2>7. CASE ends = {}
    <3>1. AllHits(data, T, j)
      <4>1. \A i \in j + 1 .. R : i \notin T
        BY <2>5, <2>7
      <4> QED
        BY <4>1, NoNextHit
    <3>2. pos < 0
      BY ONLY <2>3, <2>7
    <3>3. RegexTurn(data, pattern, st) = [st EXCEPT !.state = "done"]
      BY ONLY <1>2, <3>2, c = st.cursor, pos = FindIndex(data, pattern, c) DEF RegexTurn
    <3> QED
      BY <3>1, <3>3 DEF ScanEnd
  <2>8. CASE ends # {}
    <3>1. ends \subseteq Nat
      BY <1>1, <2>2
    <3>2. pos \in ends /\ \A e \in ends : pos <= e
      BY ONLY <2>3, <2>8, <3>1, MinIsLeast
    <3>3. PICK k \in j + 1 .. R : k \in T /\ pos = Cut(data, k) - 1
      BY <2>6, <3>2
    <3>4. k \in 1 .. R /\ k \in 0 .. R /\ k - 1 \in 0 .. R
      BY ONLY <1>1, <2>1, <3>3
    <3>5. \A i \in j + 1 .. k - 1 : i \notin T
      <4> SUFFICES ASSUME NEW i \in j + 1 .. k - 1, i \in T PROVE FALSE
        OBVIOUS
      <4>1. i \in j + 1 .. R /\ i \in 0 .. R /\ i < k
        BY ONLY <1>1, <2>1, <3>4, i \in j + 1 .. k - 1
      <4>2. Cut(data, i) - 1 \in ends
        BY <2>5, <4>1
      <4>3. pos <= Cut(data, i) - 1
        BY <3>2, <4>2
      <4>4. Cut(data, i) < Cut(data, k)
        BY <3>4, <4>1, CutsAre
      <4>5. Cut(data, i) \in Nat /\ Cut(data, k) \in Nat
        BY <1>1, <3>4, <4>1
      <4> QED
        BY ONLY <3>3, <4>3, <4>4, <4>5
    <3> PICK a : a = Cut(data, k - 1)
      OBVIOUS
    <3>6. a < pos /\ a \in Nat /\ pos \in 0 .. n /\ a \in 0 .. n /\ InLine(data, k, pos) /\ InLine(data, k, a) /\ Cut(data, k) \in Nat
      <4>1. a < pos
        BY <1>3, <3>3, <3>4
      <4>2. pos \in 0 .. n /\ a \in 0 .. n /\ InLine(data, k, pos) /\ InLine(data, k, a)
        BY <3>3, <3>4, LineEndsAre
      <4>3. a \in Nat /\ Cut(data, k) \in Nat
        BY <1>1, <3>4
      <4> QED
        BY <4>1, <4>2, <4>3
    <3>7. LineStart(data, pos) = a
      BY <3>6, LineEdges
    <3>8. LineEnd(data, pos - 1) = pos
      <4> PICK p : p = pos - 1
        OBVIOUS
      <4>1. p \in 0 .. n /\ a <= p /\ p < Cut(data, k)
        <5> PICK y : y = Cut(data, k)
          OBVIOUS
        <5>1. a < pos /\ a \in Nat /\ pos \in 0 .. n /\ y \in Nat
          BY ONLY <3>6, y = Cut(data, k)
        <5>2. pos <= y
          BY ONLY <3>3, <3>6, <5>1, y = Cut(data, k)
        <5>3. n \in Nat
          BY ONLY <1>1
        <5> QED
          BY ONLY <5>1, <5>2, <5>3, p = pos - 1, y = Cut(data, k)
      <4>2. InLine(data, k, p)
        BY ONLY <3>4, <4>1, a = Cut(data, k - 1), R = Rows(data) DEF InLine
      <4>3. LineEnd(data, p) = Cut(data, k) - 1
        BY <4>1, <4>2, LineEdges
      <4> QED
        BY ONLY <3>3, <4>3, p = pos - 1
    <3>9. st.line + CountNewlines(data, c, a) = k
      <4> PICK w : w = CountNewlines(data, c, a)
        OBVIOUS
      <4>1. c <= a
        BY <2>2, <3>3, <3>6, LineBehind
      <4>2. w = k - (j + 1)
        BY <2>2, <3>6, <4>1, NewlinesBetween
      <4> QED
        BY ONLY <1>1, <2>1, <2>2, <3>4, <4>2, w = CountNewlines(data, c, a)
    <3>10. RegexTurn(data, pattern, st) = Report(data, st, a, pos, k)
      <4>1. ~ (pos < 0) /\ pos # 0
        BY ONLY <1>1, <3>6
      <4>2. RegexTurn(data, pattern, st) =
              Report(data, st, LineStart(data, pos), LineEnd(data, pos - 1), st.line + CountNewlines(data, c, LineStart(data, pos)))
        BY ONLY <1>2, <1>5, <4>1, c = st.cursor, n = Len(data), pos = FindIndex(data, pattern, c) DEF RegexTurn
      <4> QED
        BY ONLY <3>7, <3>8, <3>9, <4>2
    <3>11. RegexTurn(data, pattern, st) = ScanAt(data, T, k)
      BY <3>3, <3>5, <3>10, ReportIs
    <3> QED
      BY <3>11
  <2> QED
    BY <2>7, <2>8
<1> QED
  BY <1>4, <1>5

IsRegexScan(st, data, pattern) ==
    st = [k \in 0 .. Turns(data) |-> IF k = 0 THEN ScanStart ELSE RegexTurn(data, pattern, st[k - 1])]

LEMMA RegexScanRuns ==
  ASSUME NEW E, NEW data \in Seq(E), NEW pattern, ~MatchesLine(pattern, <<>>),
         NEW T, \A k \in 1 .. Rows(data) : k \in T <=> MatchesLine(pattern, Lines(data)[k])
  PROVE  \E f, h : IsRegexScan(f, data, pattern) /\ GoesBy(f, h, data, T)
<1> PICK N, R, S : N = Turns(data) /\ R = Rows(data) /\ S = ScanStates(data, T)
  OBVIOUS
<1> PICK h : h = [x \in S |-> RegexTurn(data, pattern, x)]
  OBVIOUS
<1>1. N \in Nat /\ R \in Nat
  <2>1. Len(data) \in Nat
    OBVIOUS
  <2>2. R \in Nat
    BY CutsAre
  <2> QED
    BY <2>1, <2>2 DEF Turns
<1>2. /\ \A i \in 0 .. R : ScanAt(data, T, i) \in S
      /\ \A i \in 0 .. R : AllHits(data, T, i) => ScanEnd(data, T, i) \in S
      /\ \A x \in S : \E i \in 0 .. R : x = ScanAt(data, T, i) \/ (AllHits(data, T, i) /\ x = ScanEnd(data, T, i))
  BY ONLY R = Rows(data), S = ScanStates(data, T) DEF ScanStates
<1>3. ASSUME NEW j \in 0 .. R
      PROVE  \/ \E k \in j + 1 .. R : RegexTurn(data, pattern, ScanAt(data, T, j)) = ScanAt(data, T, k)
             \/ RegexTurn(data, pattern, ScanAt(data, T, j)) = ScanEnd(data, T, j) /\ AllHits(data, T, j)
  BY RegexTurnIs
<1>4. ASSUME NEW j \in 0 .. R
      PROVE  RegexTurn(data, pattern, ScanEnd(data, T, j)) = ScanEnd(data, T, j)
  <2>1. ScanEnd(data, T, j).state # "scan"
    BY DEF ScanAt, ScanEnd
  <2> QED
    BY ONLY <2>1 DEF RegexTurn
<1>5. \A i \in 0 .. R : h[ScanAt(data, T, i)] = RegexTurn(data, pattern, ScanAt(data, T, i))
  BY ONLY <1>2, h = [x \in S |-> RegexTurn(data, pattern, x)]
<1>6. \A i \in 0 .. R : AllHits(data, T, i) => h[ScanEnd(data, T, i)] = ScanEnd(data, T, i)
  BY ONLY <1>2, <1>4, h = [x \in S |-> RegexTurn(data, pattern, x)]
<1>7. \A i \in 0 .. R :
        \/ \E k \in i + 1 .. R : h[ScanAt(data, T, i)] = ScanAt(data, T, k)
        \/ h[ScanAt(data, T, i)] = ScanEnd(data, T, i) /\ AllHits(data, T, i)
  <2> TAKE i \in 0 .. R
  <2> QED
    BY ONLY <1>3, <1>5, i \in 0 .. R
<1>8. TurnWorks(h, data, T)
  BY ONLY <1>6, <1>7, R = Rows(data) DEF TurnWorks
<1>9. ASSUME NEW x \in S PROVE h[x] \in S
  <2> PICK i \in 0 .. R : x = ScanAt(data, T, i) \/ (AllHits(data, T, i) /\ x = ScanEnd(data, T, i))
    BY <1>2
  <2>1. \A k \in i + 1 .. R : k \in 0 .. R
    BY <1>1
  <2>2. CASE x = ScanAt(data, T, i)
    BY ONLY <1>2, <1>7, <2>1, <2>2, i \in 0 .. R
  <2>3. CASE AllHits(data, T, i) /\ x = ScanEnd(data, T, i)
    BY ONLY <1>2, <1>6, <2>3, i \in 0 .. R
  <2> QED
    BY <2>2, <2>3
<1>10. h \in [S -> S]
  <2>1. h = [x \in S |-> h[x]]
    BY ONLY h = [x \in S |-> RegexTurn(data, pattern, x)]
  <2> QED
    BY ONLY <1>9, <2>1
<1>11. PICK f \in [0 .. N -> S] : \A k \in 0 .. N : f[k] = IF k = 0 THEN ScanStart ELSE h[f[k - 1]]
  BY <1>10, ScanRuns
<1>12. ASSUME NEW k \in 1 .. N PROVE f[k] = h[f[k - 1]] /\ f[k] = RegexTurn(data, pattern, f[k - 1])
  <2>1. k \in 0 .. N /\ k # 0 /\ k - 1 \in 0 .. N
    BY <1>1
  <2>2. f[k] = h[f[k - 1]] /\ f[k - 1] \in S
    BY <1>11, <2>1
  <2>3. h[f[k - 1]] = RegexTurn(data, pattern, f[k - 1])
    BY ONLY <2>2, h = [x \in S |-> RegexTurn(data, pattern, x)]
  <2> QED
    BY <2>2, <2>3
<1>13. f[0] = ScanStart
  BY <1>1, <1>11
<1>14. IsRegexScan(f, data, pattern)
  <2>1. \A k \in 0 .. N : f[k] = IF k = 0 THEN ScanStart ELSE RegexTurn(data, pattern, f[k - 1])
    <3> TAKE k \in 0 .. N
    <3>1. k # 0 => k \in 1 .. N
      BY <1>1
    <3> QED
      BY ONLY <1>12, <1>13, <3>1
  <2>2. f = [k \in 0 .. N |-> f[k]]
    OBVIOUS
  <2>3. f = [k \in 0 .. N |-> IF k = 0 THEN ScanStart ELSE RegexTurn(data, pattern, f[k - 1])]
    BY ONLY <2>1, <2>2
  <2> QED
    BY ONLY <2>3, N = Turns(data) DEF IsRegexScan
<1>15. \A k \in 1 .. N : f[k] = h[f[k - 1]]
  BY <1>12
<1>16. GoesBy(f, h, data, T)
  BY ONLY <1>8, <1>13, <1>15, N = Turns(data) DEF GoesBy
<1> QED
  BY ONLY <1>14, <1>16

LEMMA RegexScanIs ==
  ASSUME NEW data, NEW pattern
  PROVE  (\E f : IsRegexScan(f, data, pattern)) => \E f : IsRegexScan(f, data, pattern) /\ ScanRegex(data, pattern) = f[Turns(data)]
<1> DEFINE st == CHOOSE st : st = [k \in 0 .. Turns(data) |->
                    IF k = 0 THEN ScanStart ELSE RegexTurn(data, pattern, st[k - 1])]
<1> SUFFICES ASSUME NEW e, IsRegexScan(e, data, pattern) PROVE IsRegexScan(st, data, pattern) /\ ScanRegex(data, pattern) = st[Turns(data)]
  OBVIOUS
<1>1. IsRegexScan(st, data, pattern)
  BY ONLY IsRegexScan(e, data, pattern) DEF IsRegexScan
<1>2. ScanRegex(data, pattern) = st[Turns(data)]
  BY ONLY DEF ScanRegex
<1> QED
  BY ONLY <1>1, <1>2

LEMMA RegexScanReports ==
  ASSUME NEW E, NEW data \in Seq(E), NEW pattern, ~MatchesLine(pattern, <<>>),
         NEW T, \A k \in 1 .. Rows(data) : k \in T <=> MatchesLine(pattern, Lines(data)[k])
  PROVE  ScanRegex(data, pattern).state = "done" /\ ScanRegex(data, pattern).hits = HitsTo(data, T, Rows(data))
<1>1. \E f : IsRegexScan(f, data, pattern)
  BY RegexScanRuns
<1>2. PICK f : IsRegexScan(f, data, pattern) /\ ScanRegex(data, pattern) = f[Turns(data)]
  BY ONLY <1>1, RegexScanIs
<1>3. PICK e, h : IsRegexScan(e, data, pattern) /\ GoesBy(e, h, data, T)
  BY RegexScanRuns
<1>4. Turns(data) \in Nat
  <2>1. Len(data) \in Nat
    OBVIOUS
  <2> QED
    BY <2>1 DEF Turns
<1>5. \A k \in 0 .. Turns(data) : f[k] = e[k]
  <2> PICK N : N = Turns(data)
    OBVIOUS
  <2> PICK K : K = {k \in 0 .. N : f[k] = e[k]}
    OBVIOUS
  <2>1. /\ \A k \in 0 .. N : f[k] = IF k = 0 THEN ScanStart ELSE RegexTurn(data, pattern, f[k - 1])
        /\ \A k \in 0 .. N : e[k] = IF k = 0 THEN ScanStart ELSE RegexTurn(data, pattern, e[k - 1])
    BY ONLY <1>2, <1>3, N = Turns(data) DEF IsRegexScan
  <2>2. 0 \in K
    BY ONLY <1>4, <2>1, N = Turns(data), K = {k \in 0 .. N : f[k] = e[k]}
  <2>3. ASSUME NEW k \in 0 .. N - 1, k \in K PROVE k + 1 \in K
    <3> PICK i : i = k + 1
      OBVIOUS
    <3>1. i \in 0 .. N /\ i # 0 /\ i - 1 = k
      BY <1>4
    <3>2. f[k] = e[k]
      BY <2>3
    <3>3. f[i] = RegexTurn(data, pattern, f[k]) /\ e[i] = RegexTurn(data, pattern, e[k])
      BY ONLY <2>1, <3>1
    <3> QED
      BY <3>1, <3>2, <3>3
  <2>4. \A k \in 0 .. N : k \in K
    BY ONLY <1>4, <2>2, <2>3, UpTo, N = Turns(data)
  <2> QED
    BY <2>4
<1>6. f[Turns(data)] = e[Turns(data)]
  BY <1>4, <1>5
<1>7. e[Turns(data)].state = "done" /\ e[Turns(data)].hits = HitsTo(data, T, Rows(data))
  BY <1>3, ScanReportsAll DEF GoesBy
<1> QED
  BY ONLY <1>2, <1>6, <1>7

(***************************************************************************)
(* The stream: the lines of the reader are the lines of the text, up to    *)
(* one it cannot hold, and without the last when that is empty.            *)
(***************************************************************************)
LEMMA NoNewlineInLine ==
  ASSUME NEW E, NEW data \in Seq(E), NEW k \in 1 .. Rows(data), NEW i \in 1 .. Len(LineText(data, k))
  PROVE  /\ LineText(data, k)[i] # NL
         /\ \E x \in 1 .. Len(data) : LineText(data, k)[i] = data[x]
<1> PICK n, R : n = Len(data) /\ R = Rows(data)
  OBVIOUS
<1> PICK a, b, t : a = Cut(data, k - 1) /\ b = Cut(data, k) /\ t = LineText(data, k)
  OBVIOUS
<1>1. /\ n \in Nat /\ R \in Nat /\ \A j \in 0 .. R : Cut(data, j) \in 0 .. n + 1
      /\ \A j, l \in 0 .. R : j < l => Cut(data, j) < Cut(data, l)
  BY CutsAre
<1>0. \A x \in 1 .. n : data[x] = NL => \E j \in 1 .. R - 1 : x = Cut(data, j)
  BY ONLY CutsAre, n = Len(data), R = Rows(data), data \in Seq(E)
<1>2. k - 1 \in 0 .. R /\ k \in 0 .. R /\ k - 1 < k /\ k \in 1 .. R
  BY ONLY <1>1, k \in 1 .. Rows(data), R = Rows(data)
<1>3. a \in 0 .. n + 1 /\ b \in 0 .. n + 1 /\ a < b
  BY ONLY <1>1, <1>2, a = Cut(data, k - 1), b = Cut(data, k)
<1>4. Len(t) = (b - 1) - a
  BY <1>2, LinesAre
<1>5. t = SubSeq(data, a + 1, b - 1)
  BY ONLY a = Cut(data, k - 1), b = Cut(data, k), t = LineText(data, k) DEF LineText
<1> PICK x : x = a + i
  OBVIOUS
<1>6. i \in 1 .. (b - 1) - a /\ x \in 1 .. n /\ a < x /\ x < b
  BY ONLY <1>1, <1>3, <1>4, i \in 1 .. Len(LineText(data, k)), t = LineText(data, k), x = a + i
<1>7. t[i] = data[x]
  <2>1. (a + 1) + (i - 1) = x
    BY ONLY <1>3, <1>6, x = a + i
  <2>2. SubSeq(data, a + 1, b - 1)[i] = data[(a + 1) + (i - 1)]
    <3> PICK y, z : y = a + 1 /\ z = b - 1
      OBVIOUS
    <3>1. y \in 1 .. n + 1 /\ z \in y - 1 .. n /\ i \in 1 .. z - y + 1 /\ n \in Nat
      BY ONLY <1>1, <1>3, <1>6, y = a + 1, z = b - 1
    <3>2. SubSeq(data, y, z)[i] = data[y + i - 1]
      BY ONLY <3>1, SubSeqProperties, data \in Seq(E), n = Len(data)
    <3>3. y + i - 1 = (a + 1) + (i - 1)
      BY ONLY <1>3, <1>6, y = a + 1
    <3> QED
      BY ONLY <3>2, <3>3, y = a + 1, z = b - 1
  <2> QED
    BY ONLY <1>5, <2>1, <2>2
<1>8. data[x] # NL
  <2> SUFFICES ASSUME data[x] = NL PROVE FALSE
    OBVIOUS
  <2>1. PICK j \in 1 .. R - 1 : x = Cut(data, j)
    BY <1>0, <1>6
  <2>2. j \in 0 .. R
    BY ONLY <1>1, <2>1
  <2>3. j < k \/ j = k \/ k < j
    BY ONLY <1>1, <1>2, <2>2
  <2>4. CASE j < k
    <3>1. j = k - 1 \/ j < k - 1
      BY ONLY <1>2, <2>2, <2>4
    <3>2. j = k - 1 => x = a
      BY ONLY <2>1, a = Cut(data, k - 1)
    <3>3. j < k - 1 => Cut(data, j) < Cut(data, k - 1)
      BY ONLY <1>1, <1>2, <2>2
    <3>4. x = a \/ x < a
      BY ONLY <2>1, <3>1, <3>2, <3>3, a = Cut(data, k - 1)
    <3> QED
      BY ONLY <1>1, <1>3, <1>6, <3>4
  <2>5. CASE j = k \/ k < j
    <3>2. j = k => x = b
      BY ONLY <2>1, b = Cut(data, k)
    <3>3. k < j => Cut(data, k) < Cut(data, j)
      BY ONLY <1>1, <1>2, <2>2
    <3>1. x = b \/ b < x
      BY ONLY <2>1, <2>5, <3>2, <3>3, b = Cut(data, k)
    <3> QED
      BY ONLY <1>1, <1>3, <1>6, <3>1
  <2> QED
    BY <2>3, <2>4, <2>5
<1> QED
  BY <1>6, <1>7, <1>8

LEMMA LineHasNoEOL ==
  ASSUME NEW E, NEW data \in Seq(E), NEW k \in 1 .. Rows(data)
  PROVE  /\ TrimEOL(LineText(data, k)) = TrimCR(LineText(data, k))
         /\ CR \notin ToSet(data) => TrimCR(LineText(data, k)) = LineText(data, k)
<1> PICK t : t = LineText(data, k)
  OBVIOUS
<1>1. t \in Seq(E)
  BY LinesAre
<1>2. t # <<>> => Last(t) # NL /\ (CR \notin ToSet(data) => Last(t) # CR)
  <2> HAVE t # <<>>
  <2>1. Len(t) \in 1 .. Len(t)
    BY ONLY <1>1, t # <<>>
  <2>2. t[Len(t)] # NL /\ \E x \in 1 .. Len(data) : t[Len(t)] = data[x]
    BY ONLY <2>1, t = LineText(data, k), NoNewlineInLine, data \in Seq(E), k \in 1 .. Rows(data)
  <2>3. CR \notin ToSet(data) => \A x \in 1 .. Len(data) : data[x] # CR
    BY DEF ToSet
  <2> QED
    BY ONLY <2>2, <2>3 DEF Last
<1>3. CR \notin ToSet(data) => TrimCR(t) = t
  BY ONLY <1>2 DEF TrimCR
<1>4. TrimEOL(t) = TrimCR(t)
  BY ONLY <1>2 DEF TrimEOL
<1> QED
  BY ONLY <1>3, <1>4, t = LineText(data, k)

\* What the reader returns for line k.
Raw(data, k) == IF k < Rows(data) THEN LineText(data, k) \o <<NL>> ELSE LineText(data, k)

LEMMA LineOfReader ==
  ASSUME NEW E, NEW data \in Seq(E), NEW k \in 1 .. Rows(data)
  PROVE  TrimEOL(Raw(data, k)) = TrimCR(LineText(data, k))
<1> PICK t, r, F : t = LineText(data, k) /\ r = LineText(data, k) \o <<NL>> /\ F = E \cup {NL}
  OBVIOUS
<1>1. t \in Seq(E)
  BY LinesAre
<1>2. t \in Seq(F) /\ Len(t) \in Nat
  BY ONLY <1>1, F = E \cup {NL}
<1>3. r = Append(t, NL) /\ NL \in F
  BY ONLY <1>2, r = LineText(data, k) \o <<NL>>, t = LineText(data, k), F = E \cup {NL}
<1>4. r \in Seq(F) /\ Len(r) = Len(t) + 1 /\ r[Len(t) + 1] = NL /\ \A i \in 1 .. Len(t) : r[i] = t[i]
  BY ONLY <1>2, <1>3
<1>5. r # <<>> /\ Last(r) = NL
  BY ONLY <1>2, <1>4 DEF Last
<1>6. Front(r) = t
  <2>1. Front(r) = SubSeq(r, 1, Len(t))
    BY ONLY <1>2, <1>4 DEF Front
  <2>2. SubSeq(r, 1, Len(t)) \in Seq(F) /\ Len(SubSeq(r, 1, Len(t))) = Len(t)
        /\ \A i \in 1 .. Len(t) : SubSeq(r, 1, Len(t))[i] = r[i]
    BY ONLY <1>2, <1>4
  <2>3. SubSeq(r, 1, Len(t)) = t
    BY ONLY <1>2, <1>4, <2>2
  <2> QED
    BY <2>1, <2>3
<1>7. TrimEOL(r) = TrimCR(t)
  BY ONLY <1>5, <1>6 DEF TrimEOL
<1>8. TrimEOL(t) = TrimCR(t)
  BY LineHasNoEOL
<1> QED
  BY ONLY <1>7, <1>8, t = LineText(data, k), r = LineText(data, k) \o <<NL>> DEF Raw

\* How many lines the reader returns.
RawLength(data) == IF LineText(data, Rows(data)) = <<>> THEN Rows(data) - 1 ELSE Rows(data)

LEMMA RawLinesAre ==
  ASSUME NEW E, NEW data \in Seq(E)
  PROVE  /\ RawLength(data) \in 0 .. Rows(data)
         /\ RawLines(data) = [k \in 1 .. RawLength(data) |-> Raw(data, k)]
<1> PICK R : R = Rows(data)
  OBVIOUS
<1> PICK raw : raw = [k \in 1 .. R |-> Raw(data, k)]
  OBVIOUS
<1>1. R \in Nat /\ R # 0
  BY CutsAre
<1>2. DOMAIN Lines(data) = 1 .. R /\ Len(Lines(data)) = R /\ \A k \in 1 .. R : Lines(data)[k] = LineText(data, k)
  BY LinesAre
<1>3. raw = [k \in DOMAIN Lines(data) |-> IF k < Len(Lines(data)) THEN Lines(data)[k] \o <<NL>> ELSE Lines(data)[k]]
  BY ONLY <1>2, raw = [k \in 1 .. R |-> Raw(data, k)], R = Rows(data) DEF Raw
<1>4. RawLines(data) = IF Last(raw) = <<>> THEN Front(raw) ELSE raw
  BY ONLY <1>3 DEF RawLines
<1> PICK Q : Q = {Raw(data, k) : k \in 1 .. R}
  OBVIOUS
<1>5. raw \in Seq(Q) /\ Len(raw) = R
  BY ONLY <1>1, raw = [k \in 1 .. R |-> Raw(data, k)], Q = {Raw(data, k) : k \in 1 .. R}
<1>6. Last(raw) = LineText(data, R)
  <2>1. raw[R] = Raw(data, R)
    BY ONLY <1>1, raw = [k \in 1 .. R |-> Raw(data, k)]
  <2>2. ~ (R < R)
    BY ONLY <1>1
  <2> QED
    BY ONLY <1>5, <2>1, <2>2, R = Rows(data) DEF Last, Raw
<1>7. CASE LineText(data, R) = <<>>
  <2> PICK r : r = R - 1
    OBVIOUS
  <2>1. r \in 0 .. R /\ 1 .. r \subseteq 1 .. R /\ r \in Nat
    BY ONLY <1>1, r = R - 1
  <2>2. Front(raw) = SubSeq(raw, 1, r)
    BY ONLY <1>5, r = R - 1 DEF Front
  <2>3. SubSeq(raw, 1, r) \in Seq(Q) /\ Len(SubSeq(raw, 1, r)) = r
        /\ \A k \in 1 .. r : SubSeq(raw, 1, r)[k] = raw[k]
    BY ONLY <1>1, <1>5, <2>1
  <2>4. \A k \in 1 .. r : raw[k] = Raw(data, k)
    BY ONLY <2>1, raw = [k \in 1 .. R |-> Raw(data, k)]
  <2>5. SubSeq(raw, 1, r) = [k \in 1 .. r |-> SubSeq(raw, 1, r)[k]]
    BY ONLY <2>1, <2>3
  <2>6. SubSeq(raw, 1, r) = [k \in 1 .. r |-> Raw(data, k)]
    BY ONLY <2>3, <2>4, <2>5
  <2>7. RawLines(data) = [k \in 1 .. r |-> Raw(data, k)]
    BY ONLY <1>4, <1>6, <1>7, <2>2, <2>6
  <2> QED
    BY ONLY <1>7, <2>1, <2>7, r = R - 1, R = Rows(data) DEF RawLength
<1>8. CASE LineText(data, R) # <<>>
  <2>1. RawLines(data) = raw /\ R \in 0 .. R
    BY ONLY <1>1, <1>4, <1>6, <1>8
  <2> QED
    BY ONLY <1>8, <2>1, raw = [k \in 1 .. R |-> Raw(data, k)], R = Rows(data) DEF RawLength
<1> QED
  BY <1>7, <1>8

\* The lines a stream looks at.
StreamTexts(data) == [k \in DOMAIN StreamLines(data) |-> TrimEOL(StreamLines(data)[k])]

LEMMA StreamTextsAre ==
  ASSUME NEW E, NEW data \in Seq(E), CR \notin ToSet(data)
  PROVE  \E q \in 0 .. Rows(data) :
            /\ StreamTexts(data) = [k \in 1 .. q |-> LineText(data, k)]
            /\ (\A k \in DOMAIN RawLines(data) : ~Overlong(RawLines(data)[k]))
                 => q = Rows(data) \/ (q = Rows(data) - 1 /\ LineText(data, Rows(data)) = <<>>)
<1> PICK R, raw : R = Rows(data) /\ raw = RawLines(data)
  OBVIOUS
<1>1. R \in Nat /\ R # 0
  BY CutsAre
<1> PICK r : r = RawLength(data)
  OBVIOUS
<1>2. /\ r \in 0 .. R /\ raw = [k \in 1 .. r |-> Raw(data, k)]
      /\ r = R \/ (r = R - 1 /\ LineText(data, R) = <<>>)
  <2>1. r \in 0 .. R /\ raw = [k \in 1 .. r |-> Raw(data, k)]
    BY RawLinesAre
  <2> QED
    BY <2>1 DEF RawLength
<1> PICK full : full = {k \in DOMAIN raw : Overlong(raw[k])}
  OBVIOUS
<1>3. r \in Nat /\ DOMAIN raw = 1 .. r /\ full \subseteq 1 .. r /\ full \subseteq Nat
  BY ONLY <1>1, <1>2, full = {k \in DOMAIN raw : Overlong(raw[k])}
<1>4. StreamLines(data) = IF full = {} THEN raw ELSE SubSeq(raw, 1, Min(full) - 1)
  BY ONLY raw = RawLines(data), full = {k \in DOMAIN raw : Overlong(raw[k])} DEF StreamLines
<1>5. \E q \in 0 .. r : StreamLines(data) = [k \in 1 .. q |-> Raw(data, k)] /\ (full = {} => q = r)
  <2>1. CASE full = {}
    <3>1. r \in 0 .. r
      BY ONLY <1>3
    <3> QED
      BY ONLY <1>2, <1>4, <2>1, <3>1
  <2>2. CASE full # {}
    <3> PICK q : q = Min(full) - 1
      OBVIOUS
    <3>1. Min(full) \in 1 .. r
      BY ONLY <1>3, <2>2, MinIsLeast
    <3>2. q \in 0 .. r /\ q \in Nat /\ 1 .. q \subseteq 1 .. r
      BY ONLY <1>3, <3>1, q = Min(full) - 1
    <3> PICK Q : Q = {Raw(data, k) : k \in 1 .. r}
      OBVIOUS
    <3>3. raw \in Seq(Q) /\ Len(raw) = r
      BY ONLY <1>2, <1>3, Q = {Raw(data, k) : k \in 1 .. r}
    <3>4. SubSeq(raw, 1, q) \in Seq(Q) /\ Len(SubSeq(raw, 1, q)) = q
          /\ \A k \in 1 .. q : SubSeq(raw, 1, q)[k] = raw[k]
      BY ONLY <1>3, <3>2, <3>3
    <3>5. \A k \in 1 .. q : raw[k] = Raw(data, k)
      BY ONLY <1>2, <3>2
    <3>6. SubSeq(raw, 1, q) = [k \in 1 .. q |-> SubSeq(raw, 1, q)[k]]
      BY ONLY <3>2, <3>4
    <3>7. SubSeq(raw, 1, q) = [k \in 1 .. q |-> Raw(data, k)]
      BY ONLY <3>4, <3>5, <3>6
    <3> QED
      BY ONLY <1>4, <2>2, <3>2, <3>7, q = Min(full) - 1
  <2> QED
    BY <2>1, <2>2
<1>6. PICK q \in 0 .. r : StreamLines(data) = [k \in 1 .. q |-> Raw(data, k)] /\ (full = {} => q = r)
  BY <1>5
<1>7. q \in 0 .. R /\ \A k \in 1 .. q : k \in 1 .. R
  BY ONLY <1>1, <1>2, <1>6
<1>8. \A k \in 1 .. q : TrimEOL(Raw(data, k)) = LineText(data, k)
  <2> TAKE k \in 1 .. q
  <2>1. k \in 1 .. R
    BY <1>7
  <2>2. TrimEOL(Raw(data, k)) = TrimCR(LineText(data, k))
    BY <2>1, LineOfReader
  <2>3. TrimCR(LineText(data, k)) = LineText(data, k)
    BY <2>1, LineHasNoEOL
  <2> QED
    BY ONLY <2>2, <2>3
<1>9. StreamTexts(data) = [k \in 1 .. q |-> LineText(data, k)]
  BY ONLY <1>6, <1>8 DEF StreamTexts
<1>10. (\A k \in DOMAIN raw : ~Overlong(raw[k])) => q = R \/ (q = R - 1 /\ LineText(data, R) = <<>>)
  <2> HAVE \A k \in DOMAIN raw : ~Overlong(raw[k])
  <2>1. full = {}
    OBVIOUS
  <2> QED
    BY ONLY <1>2, <1>6, <2>1
<1> QED
  BY ONLY <1>7, <1>9, <1>10, R = Rows(data), raw = RawLines(data)

\* The hits among the first q lines are the same as those of a scan that has passed them.
LEMMA FirstLinesHits ==
  ASSUME NEW E, NEW data \in Seq(E), NEW pattern, NEW q \in 0 .. Rows(data),
         NEW texts, texts = [k \in 1 .. q |-> LineText(data, k)],
         NEW T, \A k \in 1 .. Rows(data) : k \in T <=> MatchesLine(pattern, Lines(data)[k])
  PROVE  SelectLines(texts, pattern) = HitsTo(data, T, q)
<1> PICK R : R = Rows(data)
  OBVIOUS
<1>1. R \in Nat /\ q \in Nat /\ q <= R
  <2>1. R \in Nat
    BY CutsAre
  <2> QED
    BY <2>1
<1>2. \A k \in 1 .. q : k \in 1 .. R /\ texts[k] = Lines(data)[k]
  <2> TAKE k \in 1 .. q
  <2>1. k \in 1 .. R
    BY ONLY <1>1, k \in 1 .. q
  <2>2. Lines(data)[k] = LineText(data, k)
    BY <2>1, LinesAre
  <2> QED
    BY <2>1, <2>2
<1> PICK Q : Q = {LineText(data, k) : k \in 1 .. q}
  OBVIOUS
<1>3. DOMAIN texts = 1 .. q /\ texts \in Seq(Q) /\ Len(texts) = q
  BY ONLY <1>1, texts = [k \in 1 .. q |-> LineText(data, k)], Q = {LineText(data, k) : k \in 1 .. q}
<1> PICK W : W = {k \in 1 .. q : MatchesLine(pattern, texts[k])}
  OBVIOUS
<1>4. \A k \in 1 .. q : k \in W <=> k \in T
  BY ONLY <1>2, W = {k \in 1 .. q : MatchesLine(pattern, texts[k])}, R = Rows(data),
          \A k \in 1 .. Rows(data) : k \in T <=> MatchesLine(pattern, Lines(data)[k])
<1> PICK ks : ks = Ascending(T, q)
  OBVIOUS
<1>5. Ascending(W, q) = ks
  BY ONLY <1>1, <1>4, AscendingSame, ks = Ascending(T, q)
<1>6. ks \in Seq(1 .. q)
  BY ONLY <1>1, AscendingIs, ks = Ascending(T, q)
<1>7. SelectLines(texts, pattern) = HitsAmong(texts, ks)
  BY ONLY <1>3, <1>5, W = {k \in 1 .. q : MatchesLine(pattern, texts[k])} DEF SelectLines
<1>8. \A i \in DOMAIN ks : texts[ks[i]] = Lines(data)[ks[i]]
  BY ONLY <1>2, <1>6
<1>9. HitsAmong(texts, ks) = HitsAmong(Lines(data), ks)
  BY ONLY <1>8 DEF HitsAmong
<1> QED
  BY ONLY <1>7, <1>9, ks = Ascending(T, q) DEF HitsTo

\* Fewer lines give the first of the hits.
LEMMA HitsGrow ==
  ASSUME NEW E, NEW data \in Seq(E), NEW T, NEW q \in 0 .. Rows(data)
  PROVE  IsPrefix(HitsTo(data, T, q), HitsTo(data, T, Rows(data)))
<1> PICK R, lines : R = Rows(data) /\ lines = Lines(data)
  OBVIOUS
<1>1. R \in Nat /\ q \in Nat /\ q <= R
  <2>1. R \in Nat
    BY CutsAre
  <2> QED
    BY <2>1
<1> PICK s, t, A : s = Ascending(T, q) /\ t = Ascending(T, R) /\ A = 1 .. q
  OBVIOUS
<1>2. s \in Seq(1 .. q) /\ t \in Seq(1 .. R)
  BY ONLY <1>1, AscendingIs, s = Ascending(T, q), t = Ascending(T, R)
<1>3. Len(s) <= Len(t) /\ \A i \in 1 .. Len(s) : t[i] = s[i]
  BY ONLY <1>1, AscendingPrefix, s = Ascending(T, q), t = Ascending(T, R)
<1>4. Len(s) \in Nat /\ Len(t) \in Nat
  BY ONLY <1>2
<1> PICK a, b : a = HitsAmong(lines, s) /\ b = HitsAmong(lines, t)
  OBVIOUS
<1> PICK G, H : G = {HitOf(lines, k) : k \in 1 .. q} /\ H = {HitOf(lines, k) : k \in 1 .. R}
  OBVIOUS
<1>5. a \in Seq(G) /\ Len(a) = Len(s) /\ \A i \in 1 .. Len(s) : a[i] = HitOf(lines, s[i])
  BY ONLY <1>2, HitsAre, a = HitsAmong(lines, s), G = {HitOf(lines, k) : k \in 1 .. q}
<1>6. b \in Seq(H) /\ Len(b) = Len(t) /\ \A i \in 1 .. Len(t) : b[i] = HitOf(lines, t[i])
  BY ONLY <1>2, HitsAre, b = HitsAmong(lines, t), H = {HitOf(lines, k) : k \in 1 .. R}
<1> PICK l : l = Len(s)
  OBVIOUS
<1>7. l \in Nat /\ l <= Len(b) /\ Len(b) \in Nat /\ Len(a) = l
  BY ONLY <1>3, <1>4, <1>5, <1>6, l = Len(s)
<1>8. \A i \in 1 .. l : b[i] = a[i]
  <2> TAKE i \in 1 .. l
  <2>1. i \in 1 .. Len(t)
    BY ONLY <1>3, <1>4, l = Len(s), i \in 1 .. l
  <2> QED
    BY ONLY <1>3, <1>5, <1>6, <2>1, l = Len(s), i \in 1 .. l
<1>9. SubSeq(b, 1, l) \in Seq(H) /\ Len(SubSeq(b, 1, l)) = l /\ \A i \in 1 .. l : SubSeq(b, 1, l)[i] = b[i]
  BY ONLY <1>6, <1>7
<1>10. SubSeq(a, 1, l) \in Seq(G) /\ Len(SubSeq(a, 1, l)) = l /\ \A i \in 1 .. l : SubSeq(a, 1, l)[i] = a[i]
  BY ONLY <1>5, <1>7
<1>11. SubSeq(a, 1, l) = SubSeq(b, 1, l)
  BY ONLY <1>7, <1>8, <1>9, <1>10
<1>12. IsPrefix(a, b)
  BY ONLY <1>7, <1>11 DEF IsPrefix
<1> QED
  BY ONLY <1>12, s = Ascending(T, q), t = Ascending(T, R), a = HitsAmong(lines, s), b = HitsAmong(lines, t),
          lines = Lines(data), R = Rows(data) DEF HitsTo

\* What the scan for a regular expression must give: the lines that match.
RegexLines(data, pattern) == {k \in DOMAIN Lines(data) : MatchesLine(pattern, Lines(data)[k])}

LEMMA RegexScanExact ==
  ASSUME NEW E, NEW data \in Seq(E), NEW pattern, ~MatchesLine(pattern, <<>>)
  PROVE  /\ ScanRegex(data, pattern).state = "done"
         /\ ScanRegex(data, pattern).hits = HitsTo(data, RegexLines(data, pattern), Rows(data))
         /\ ScanRegex(data, pattern).hits = SelectLines(Lines(data), pattern)
<1> PICK T : T = RegexLines(data, pattern)
  OBVIOUS
<1>1. DOMAIN Lines(data) = 1 .. Rows(data) /\ Len(Lines(data)) = Rows(data)
  BY LinesAre
<1>2. \A k \in 1 .. Rows(data) : k \in T <=> MatchesLine(pattern, Lines(data)[k])
  BY ONLY <1>1, T = RegexLines(data, pattern) DEF RegexLines
<1>3. ScanRegex(data, pattern).state = "done" /\ ScanRegex(data, pattern).hits = HitsTo(data, T, Rows(data))
  BY <1>2, RegexScanReports
<1>4. SelectLines(Lines(data), pattern) = HitsTo(data, T, Rows(data))
  BY ONLY <1>1, T = RegexLines(data, pattern) DEF SelectLines, HitsTo, RegexLines
<1> QED
  BY <1>3, <1>4

LEMMA StreamScanExact ==
  ASSUME NEW E, NEW data \in Seq(E), CR \notin ToSet(data), NEW pattern, ~MatchesLine(pattern, <<>>), ~Binary(data)
  PROVE  /\ IsPrefix(ScanStream(data, pattern), ScanRegex(data, pattern).hits)
         /\ (\A k \in DOMAIN RawLines(data) : ~Overlong(RawLines(data)[k]))
              => ScanStream(data, pattern) = ScanRegex(data, pattern).hits
<1> PICK T, R : T = RegexLines(data, pattern) /\ R = Rows(data)
  OBVIOUS
<1>1. R \in Nat /\ R # 0
  BY CutsAre
<1>2. \A k \in 1 .. R : k \in T <=> MatchesLine(pattern, Lines(data)[k])
  <2>1. DOMAIN Lines(data) = 1 .. R
    BY LinesAre
  <2> QED
    BY ONLY <2>1, T = RegexLines(data, pattern) DEF RegexLines
<1>3. ScanRegex(data, pattern).hits = HitsTo(data, T, R)
  BY RegexScanExact
<1>4. ScanStream(data, pattern) = SelectLines(StreamTexts(data), pattern)
  BY DEF ScanStream, StreamTexts
<1>5. PICK q \in 0 .. R :
         /\ StreamTexts(data) = [k \in 1 .. q |-> LineText(data, k)]
         /\ (\A k \in DOMAIN RawLines(data) : ~Overlong(RawLines(data)[k]))
              => q = R \/ (q = R - 1 /\ LineText(data, R) = <<>>)
  BY StreamTextsAre
<1>6. SelectLines(StreamTexts(data), pattern) = HitsTo(data, T, q)
  BY <1>2, <1>5, FirstLinesHits
<1>7. IsPrefix(HitsTo(data, T, q), HitsTo(data, T, R))
  BY <1>5, HitsGrow
<1>8. q = R - 1 /\ LineText(data, R) = <<>> => HitsTo(data, T, q) = HitsTo(data, T, R)
  <2> HAVE q = R - 1 /\ LineText(data, R) = <<>>
  <2>1. R \in 1 .. R
    BY <1>1
  <2>2. Lines(data)[R] = <<>>
    BY <2>1, LinesAre
  <2>3. R \notin T
    BY <1>2, <2>1, <2>2
  <2>4. \A i \in q + 1 .. R : i = R
    BY <1>1
  <2>5. \A i \in q + 1 .. R : i \notin T
    BY ONLY <2>3, <2>4
  <2>6. AllHits(data, T, q)
    BY <2>5, NoNextHit
  <2> QED
    BY <2>6 DEF AllHits
<1>9. IsPrefix(ScanStream(data, pattern), ScanRegex(data, pattern).hits)
  BY ONLY <1>3, <1>4, <1>6, <1>7
<1>10. (q = R \/ (q = R - 1 /\ LineText(data, R) = <<>>)) => ScanStream(data, pattern) = ScanRegex(data, pattern).hits
  BY ONLY <1>3, <1>4, <1>6, <1>8
<1> QED
  BY ONLY <1>5, <1>9, <1>10

(***************************************************************************)
(* The scans of a file (src/ggrep/search.go), for any text, any literal    *)
(* that is not empty and any pattern that matches no empty line: scanBody  *)
(* and scanRegex report exactly the lines they should, each once, with     *)
(* number and text, and a stream of a text without carriage returns        *)
(* reports the same, or the first of them when a line is too long.         *)
(***************************************************************************)
THEOREM ScannersAreExact ==
  ASSUME call.op = "scan" => \E E : call.data \in Seq(E),
         (call.op = "scan" /\ call.kind = "literal") => call.pattern # <<>> /\ \E F : call.pattern \in Seq(F)
  PROVE  ScannersExact
<1> PICK data, pattern : data = call.data /\ pattern = call.pattern
  OBVIOUS
<1>1. LiteralHitsExact
  <2> SUFFICES ASSUME call.op = "scan", call.kind = "literal", ~Binary(data) PROVE LiteralHitsExact
    BY DEF LiteralHitsExact
  <2>1. PICK E, F : data \in Seq(E) /\ pattern \in Seq(F) /\ pattern # <<>>
    OBVIOUS
  <2>2. ScanLiteral(data, pattern).hits
          = HitsAmong(Lines(data), Ascending(LiteralLines(data, pattern), Len(Lines(data))))
    BY <2>1, LiteralScanExact
  <2>3. ScanBody(data, "literal", pattern) = ScanLiteral(data, pattern)
    BY DEF ScanBody
  <2>4. ScanBody(data, "literal", pattern).hits
          = HitsAmong(Lines(data), Ascending(LiteralLines(data, pattern), Len(Lines(data))))
    BY ONLY <2>2, <2>3
  <2> QED
    BY ONLY <2>4, data = call.data, pattern = call.pattern DEF LiteralHitsExact, LiteralLines
<1>2. RegexHitsExact
  <2> SUFFICES ASSUME call.op = "scan", call.kind = "regex", ~Binary(data), ~MatchesLine(pattern, <<>>)
               PROVE  RegexHitsExact
    BY DEF RegexHitsExact
  <2>1. PICK E : data \in Seq(E)
    OBVIOUS
  <2>2. ScanRegex(data, pattern).state = "done" /\ ScanRegex(data, pattern).hits = SelectLines(Lines(data), pattern)
    BY <2>1, RegexScanExact
  <2>3. ScanBody(data, "regex", pattern) = ScanRegex(data, pattern)
    BY DEF ScanBody
  <2> QED
    BY ONLY <2>2, <2>3, data = call.data, pattern = call.pattern DEF RegexHitsExact
<1>3. StreamAgrees
  <2> SUFFICES ASSUME call.op = "scan", call.kind = "regex", CR \notin ToSet(data), ~MatchesLine(pattern, <<>>)
               PROVE  StreamAgrees
    BY DEF StreamAgrees
  <2>1. PICK E : data \in Seq(E)
    OBVIOUS
  <2> PICK stream, body, whole : /\ stream = ScanStream(data, pattern)
                                 /\ body = ScanBody(data, "regex", pattern).hits
                                 /\ whole = \A k \in DOMAIN RawLines(data) : ~Overlong(RawLines(data)[k])
    OBVIOUS
  <2>2. IsPrefix(stream, body) /\ (whole => stream = body)
    <3>1. CASE Binary(data)
      <4>1. stream = <<>> /\ body = <<>>
        BY <3>1 DEF ScanStream, ScanBody, ScanStart
      <4>2. IsPrefix(<<>>, <<>>)
        BY ONLY DEF IsPrefix
      <4> QED
        BY ONLY <4>1, <4>2
    <3>2. CASE ~Binary(data)
      <4>1. body = ScanRegex(data, pattern).hits
        BY <3>2 DEF ScanBody
      <4>2. /\ IsPrefix(ScanStream(data, pattern), ScanRegex(data, pattern).hits)
            /\ (\A k \in DOMAIN RawLines(data) : ~Overlong(RawLines(data)[k]))
                 => ScanStream(data, pattern) = ScanRegex(data, pattern).hits
        BY <2>1, <3>2, StreamScanExact
      <4> QED
        BY ONLY <4>1, <4>2, stream = ScanStream(data, pattern),
                whole = \A k \in DOMAIN RawLines(data) : ~Overlong(RawLines(data)[k])
    <3> QED
      BY <3>1, <3>2
  <2> QED
    BY ONLY <2>2, data = call.data, pattern = call.pattern, stream = ScanStream(data, pattern),
            body = ScanBody(data, "regex", pattern).hits,
            whole = \A k \in DOMAIN RawLines(data) : ~Overlong(RawLines(data)[k]) DEF StreamAgrees
<1> QED
  BY ONLY <1>1, <1>2, <1>3 DEF ScannersExact

-----------------------------------------------------------------------------
(***************************************************************************)
(* The text of some lines (JoinLines): what the text of a file has from    *)
(* the start of the first to the end of the last.                          *)
(***************************************************************************)
JoinLoop(text, lines) ==
    text = [k \in 0 .. Len(lines) |->
              CASE k = 0 -> <<>>
                [] k = 1 -> lines[1]
                [] OTHER -> text[k - 1] \o <<NL>> \o lines[k]]

LEMMA JoinLoopExists ==
  ASSUME NEW E, NEW lines \in Seq(Seq(E))
  PROVE  \E text : JoinLoop(text, lines)
<1> PICK n, F, Q : n = Len(lines) /\ F = E \cup {NL} /\ Q = Seq(F)
  OBVIOUS
<1> PICK g : g = [k \in 1 .. n |-> [s \in Q |-> IF k = 1 THEN lines[1] ELSE s \o <<NL>> \o lines[k]]]
  OBVIOUS
<1>1. n \in Nat
  OBVIOUS
<1>2. \A k \in 1 .. n : lines[k] \in Q
  <2> TAKE k \in 1 .. n
  <2>1. lines[k] \in Seq(E)
    BY ONLY lines \in Seq(Seq(E)), n = Len(lines), k \in 1 .. n
  <2> QED
    BY ONLY <2>1, F = E \cup {NL}, Q = Seq(F)
<1>3. <<>> \in Q /\ <<NL>> \in Q /\ \A s, t \in Q : s \o t \in Q
  <2>1. NL \in F
    BY ONLY F = E \cup {NL}
  <2> HIDE DEF NL
  <2> QED
    BY ONLY <2>1, Q = Seq(F)
<1>4. \A k \in 1 .. n, s \in Q : (IF k = 1 THEN lines[1] ELSE s \o <<NL>> \o lines[k]) \in Q
  <2> TAKE k \in 1 .. n, s \in Q
  <2>1. lines[k] \in Q /\ (k = 1 => lines[1] \in Q)
    BY ONLY <1>2, k \in 1 .. n
  <2>2. s \o <<NL>> \in Q
    BY ONLY <1>3, s \in Q
  <2>3. s \o <<NL>> \o lines[k] \in Q
    BY ONLY <1>3, <2>1, <2>2
  <2> QED
    BY ONLY <2>1, <2>3
<1>5. Rounds(g, n, Q)
  BY ONLY <1>4, g = [k \in 1 .. n |-> [s \in Q |-> IF k = 1 THEN lines[1] ELSE s \o <<NL>> \o lines[k]]] DEF Rounds
<1>6. PICK f : IsLoop(f, n, Q, <<>>, g)
  BY ONLY <1>1, <1>3, <1>5, LoopExists
<1>7. ASSUME NEW k \in 0 .. n
      PROVE  f[k] = CASE k = 0 -> <<>>
                      [] k = 1 -> lines[1]
                      [] OTHER -> f[k - 1] \o <<NL>> \o lines[k]
  <2>1. k # 0 => k \in 1 .. n /\ k - 1 \in 0 .. n
    BY ONLY <1>1, k \in 0 .. n
  <2>2. k # 0 => f[k - 1] \in Q
    BY ONLY <1>6, <2>1 DEF IsLoop
  <2>3. k # 0 => g[k][f[k - 1]] = IF k = 1 THEN lines[1] ELSE f[k - 1] \o <<NL>> \o lines[k]
    BY ONLY <2>1, <2>2, g = [x \in 1 .. n |-> [s \in Q |-> IF x = 1 THEN lines[1] ELSE s \o <<NL>> \o lines[x]]]
  <2>4. f[k] = IF k = 0 THEN <<>> ELSE g[k][f[k - 1]]
    BY ONLY <1>6, k \in 0 .. n DEF IsLoop
  <2> PICK s : s = f[k - 1] \o <<NL>> \o lines[k]
    OBVIOUS
  <2>5. f[k] = IF k = 0 THEN <<>> ELSE IF k = 1 THEN lines[1] ELSE s
    BY ONLY <2>3, <2>4, s = f[k - 1] \o <<NL>> \o lines[k]
  <2>6. f[k] = CASE k = 0 -> <<>> [] k = 1 -> lines[1] [] OTHER -> s
    BY ONLY <2>5
  <2> QED
    BY ONLY <2>6, s = f[k - 1] \o <<NL>> \o lines[k]
<1>8. f = [k \in 0 .. n |-> f[k]]
  BY ONLY <1>6 DEF IsLoop
<1>9. f = [k \in 0 .. n |-> CASE k = 0 -> <<>>
                              [] k = 1 -> lines[1]
                              [] OTHER -> f[k - 1] \o <<NL>> \o lines[k]]
  BY ONLY <1>7, <1>8
<1> QED
  BY ONLY <1>9, n = Len(lines) DEF JoinLoop

LEMMA JoinLinesIs ==
  ASSUME NEW E, NEW lines \in Seq(Seq(E))
  PROVE  \E text : JoinLoop(text, lines) /\ JoinLines(lines) = text[Len(lines)]
<1> DEFINE text == CHOOSE text : text = [k \in 0 .. Len(lines) |->
                      CASE k = 0 -> <<>>
                        [] k = 1 -> lines[1]
                        [] OTHER -> text[k - 1] \o <<NL>> \o lines[k]]
<1>1. \E f : JoinLoop(f, lines)
  BY JoinLoopExists
<1>2. JoinLoop(text, lines)
  BY <1>1 DEF JoinLoop
<1>3. JoinLines(lines) = text[Len(lines)]
  BY DEF JoinLines
<1> HIDE DEF text
<1> QED
  BY ONLY <1>2, <1>3

LEMMA JoinNone == JoinLines(<<>>) = <<>>
<1>1. <<>> \in Seq(Seq({})) /\ Len(<<>>) = 0
  OBVIOUS
<1>2. PICK text : JoinLoop(text, <<>>) /\ JoinLines(<<>>) = text[Len(<<>>)]
  BY ONLY <1>1, JoinLinesIs
<1>3. text[0] = <<>>
  <2>1. 0 \in 0 .. Len(<<>>)
    BY <1>1
  <2> QED
    BY ONLY <1>2, <2>1 DEF JoinLoop
<1> QED
  BY ONLY <1>1, <1>2, <1>3

\* Two pieces of a text with the newline between them are one piece.
LEMMA Glued ==
  ASSUME NEW E, NEW data \in Seq(E), NEW a \in Nat, NEW x \in a + 1 .. Len(data), NEW y \in x .. Len(data),
         data[x] = NL
  PROVE  SubSeq(data, a + 1, x - 1) \o <<NL>> \o SubSeq(data, x + 1, y) = SubSeq(data, a + 1, y)
<1> PICK n : n = Len(data)
  OBVIOUS
<1> PICK p, q, r : p = SubSeq(data, a + 1, x - 1) /\ q = SubSeq(data, x + 1, y) /\ r = SubSeq(data, a + 1, y)
  OBVIOUS
<1>1. n \in Nat /\ x \in Nat /\ y \in Nat /\ a < x /\ x <= y /\ y <= n
  OBVIOUS
<1>2. p \in Seq(E) /\ Len(p) = (x - 1) - a /\ \A i \in 1 .. Len(p) : p[i] = data[a + i]
  <2>1. p \in Seq(E) /\ Len(p) = (x - 1) - a
    BY ONLY <1>1, data \in Seq(E), n = Len(data), p = SubSeq(data, a + 1, x - 1), a \in Nat
  <2>2. \A i \in 1 .. (x - 1) - a : p[i] = data[(a + 1) + i - 1] /\ (a + 1) + i - 1 = a + i
    BY ONLY <1>1, data \in Seq(E), n = Len(data), p = SubSeq(data, a + 1, x - 1), a \in Nat
  <2> QED
    BY ONLY <2>1, <2>2
<1>3. q \in Seq(E) /\ Len(q) = y - x /\ \A i \in 1 .. Len(q) : q[i] = data[x + i]
  <2>1. q \in Seq(E) /\ Len(q) = y - x
    BY ONLY <1>1, data \in Seq(E), n = Len(data), q = SubSeq(data, x + 1, y)
  <2>2. \A i \in 1 .. y - x : q[i] = data[(x + 1) + i - 1] /\ (x + 1) + i - 1 = x + i
    BY ONLY <1>1, data \in Seq(E), n = Len(data), q = SubSeq(data, x + 1, y)
  <2> QED
    BY ONLY <2>1, <2>2
<1>4. r \in Seq(E) /\ Len(r) = y - a /\ \A i \in 1 .. Len(r) : r[i] = data[a + i]
  <2>1. r \in Seq(E) /\ Len(r) = y - a
    BY ONLY <1>1, data \in Seq(E), n = Len(data), r = SubSeq(data, a + 1, y), a \in Nat
  <2>2. \A i \in 1 .. y - a : r[i] = data[(a + 1) + i - 1] /\ (a + 1) + i - 1 = a + i
    BY ONLY <1>1, data \in Seq(E), n = Len(data), r = SubSeq(data, a + 1, y), a \in Nat
  <2> QED
    BY ONLY <2>1, <2>2
<1> PICK F : F = E \cup {NL}
  OBVIOUS
<1> PICK u, v : u = p \o <<NL>> /\ v = u \o q
  OBVIOUS
<1>5. p \in Seq(F) /\ q \in Seq(F) /\ r \in Seq(F) /\ NL \in F
  BY ONLY <1>2, <1>3, <1>4, F = E \cup {NL}
<1>6. u \in Seq(F) /\ Len(u) = Len(p) + 1 /\ u[Len(p) + 1] = NL /\ \A i \in 1 .. Len(p) : u[i] = p[i]
  <2>1. u = Append(p, NL)
    BY ONLY <1>5, u = p \o <<NL>>
  <2> QED
    BY ONLY <1>5, <2>1
<1>12. /\ v \in Seq(F) /\ Len(v) = Len(u) + Len(q)
       /\ \A i \in 1 .. Len(u) + Len(q) : v[i] = IF i <= Len(u) THEN u[i] ELSE q[i - Len(u)]
  <2>1. u \in Seq(F) /\ q \in Seq(F)
    BY ONLY <1>5, <1>6
  <2> QED
    BY ONLY <2>1, ConcatProperties, v = u \o q
<1>13. Len(u) \in Nat /\ Len(q) \in Nat
  BY ONLY <1>5, <1>6
<1>7. v \in Seq(F) /\ Len(v) = Len(u) + Len(q) /\ \A i \in 1 .. Len(u) : v[i] = u[i]
  BY ONLY <1>12, <1>13
<1>8. \A i \in Len(u) + 1 .. Len(u) + Len(q) : v[i] = q[i - Len(u)]
  BY ONLY <1>12, <1>13
<1>9. Len(v) = Len(r)
  BY ONLY <1>1, <1>2, <1>3, <1>4, <1>6, <1>7, a \in Nat
<1>10. ASSUME NEW i \in 1 .. Len(r) PROVE v[i] = r[i]
  <2>0. r[i] = data[a + i] /\ i \in Nat /\ i <= y - a /\ i # 0
    BY ONLY <1>1, <1>4, i \in 1 .. Len(r), a \in Nat
  <2>1. CASE i <= (x - 1) - a
    <3>1. i \in 1 .. Len(p) /\ i \in 1 .. Len(u)
      BY ONLY <1>1, <1>2, <1>6, <2>0, <2>1, a \in Nat
    <3> QED
      BY ONLY <1>2, <1>6, <1>7, <2>0, <3>1
  <2>2. CASE i = x - a
    <3>1. i = Len(p) + 1 /\ i \in 1 .. Len(u) /\ a + i = x
      BY ONLY <1>1, <1>2, <1>6, <2>0, <2>2, a \in Nat
    <3>2. u[i] = NL
      BY ONLY <1>6, <3>1
    <3> QED
      BY ONLY <1>7, <2>0, <3>1, <3>2, data[x] = NL
  <2>3. CASE i > x - a
    <3> PICK j : j = i - Len(u)
      OBVIOUS
    <3>1. i \in Len(u) + 1 .. Len(u) + Len(q) /\ j \in 1 .. Len(q) /\ x + j = a + i
      BY ONLY <1>1, <1>2, <1>3, <1>6, <2>0, <2>3, a \in Nat, j = i - Len(u)
    <3> QED
      BY ONLY <1>3, <1>8, <2>0, <3>1, j = i - Len(u)
  <2> QED
    BY ONLY <1>1, <2>0, <2>1, <2>2, <2>3, a \in Nat
<1>11. v = r
  <2>1. \A i \in 1 .. Len(v) : v[i] = r[i]
    BY ONLY <1>9, <1>10
  <2> QED
    BY ONLY <1>5, <1>7, <1>9, <2>1, SeqEqual
<1> QED
  BY ONLY <1>11, u = p \o <<NL>>, v = u \o q, p = SubSeq(data, a + 1, x - 1), q = SubSeq(data, x + 1, y), r = SubSeq(data, a + 1, y)

LEMMA JoinedLines ==
  ASSUME NEW E, NEW data \in Seq(E), NEW s \in 1 .. Rows(data), NEW l \in s .. Rows(data)
  PROVE  JoinLines(SubSeq(Lines(data), s, l)) = SubSeq(data, Cut(data, s - 1) + 1, Cut(data, l) - 1)
<1> PICK R, n, lines : R = Rows(data) /\ n = Len(data) /\ lines = Lines(data)
  OBVIOUS
<1>1. /\ n \in Nat /\ R \in Nat /\ \A i \in 0 .. R : Cut(data, i) \in 0 .. n + 1
      /\ \A i, j \in 0 .. R : i < j => Cut(data, i) < Cut(data, j)
      /\ \A k \in 1 .. R - 1 : Cut(data, k) \in 1 .. n /\ data[Cut(data, k)] = NL
  BY CutsAre
<1>2. s \in Nat /\ l \in Nat /\ s # 0 /\ s <= l /\ l <= R
  BY <1>1
<1>3. lines \in Seq(Seq(E)) /\ Len(lines) = R /\ \A k \in 1 .. R : lines[k] = LineText(data, k)
  BY LinesAre
<1> PICK some, m : some = SubSeq(lines, s, l) /\ m = (l - s) + 1
  OBVIOUS
<1>4. some \in Seq(Seq(E)) /\ Len(some) = m /\ m \in Nat /\ m # 0 /\ \A i \in 1 .. m : some[i] = lines[s + i - 1]
  <2> PICK Q : Q = Seq(E)
    OBVIOUS
  <2>1. lines \in Seq(Q)
    BY <1>3
  <2>2. some \in Seq(Q) /\ Len(some) = m /\ m \in Nat /\ m # 0 /\ \A i \in 1 .. m : some[i] = lines[s + i - 1]
    BY ONLY <1>2, <1>3, <2>1, some = SubSeq(lines, s, l), m = (l - s) + 1
  <2> QED
    BY ONLY <2>2, Q = Seq(E)
<1>5. PICK text : JoinLoop(text, some) /\ JoinLines(some) = text[m]
  BY ONLY <1>4, JoinLinesIs
<1>6. \A k \in 0 .. m : text[k] = CASE k = 0 -> <<>>
                                    [] k = 1 -> some[1]
                                    [] OTHER -> text[k - 1] \o <<NL>> \o some[k]
  BY ONLY <1>4, <1>5 DEF JoinLoop
<1> PICK a : a = Cut(data, s - 1)
  OBVIOUS
<1>7. a \in 0 .. n + 1 /\ a \in Nat
  BY ONLY <1>1, <1>2, a = Cut(data, s - 1)
<1> DEFINE P(k) == k = 0 \/ text[k] = SubSeq(data, a + 1, Cut(data, s + k - 1) - 1)
<1> PICK K : K = {k \in 0 .. m : P(k)}
  OBVIOUS
<1>8. 0 \in K
  BY ONLY <1>4, K = {k \in 0 .. m : P(k)}
<1>9. ASSUME NEW k \in 0 .. m - 1, k \in K PROVE k + 1 \in K
  <2> PICK i, j : i = k + 1 /\ j = s + k
    OBVIOUS
  <2>1. i \in 1 .. m /\ i \in 0 .. m /\ i - 1 = k /\ s + i - 1 = j /\ j \in 1 .. R /\ j \in 0 .. R /\ j - 1 \in 0 .. R /\ s + k - 1 = j - 1 /\ j - 1 < j
    BY ONLY <1>1, <1>2, <1>4, k \in 0 .. m - 1, i = k + 1, j = s + k, m = (l - s) + 1
  <2>2. some[i] = LineText(data, j)
    BY ONLY <1>3, <1>4, <2>1
  <2>3. LineText(data, j) = SubSeq(data, Cut(data, j - 1) + 1, Cut(data, j) - 1)
    BY ONLY DEF LineText
  <2>4. text[i] = SubSeq(data, a + 1, Cut(data, j) - 1)
    <3>1. CASE k = 0
      <4>1. i = 1 /\ j = s
        BY ONLY <1>2, <2>1, <3>1, j = s + k
      <4>2. text[1] = some[1]
        BY ONLY <1>6, <2>1, <4>1
      <4> QED
        BY ONLY <2>2, <2>3, <4>1, <4>2, a = Cut(data, s - 1)
    <3>2. CASE k # 0
      <4> PICK t : t = text[k]
        OBVIOUS
      <4>1. i # 0 /\ i # 1 /\ k \in Nat /\ j - 1 \in 1 .. R - 1 /\ (j - 1 = s - 1 \/ s - 1 < j - 1) /\ s - 1 < j - 1 /\ s - 1 \in 0 .. R
        BY ONLY <1>1, <1>2, <2>1, <3>2, k \in 0 .. m - 1, j = s + k, i = k + 1
      <4>2. t = SubSeq(data, a + 1, Cut(data, j - 1) - 1)
        BY ONLY <1>9, <2>1, <3>2, t = text[k], K = {h \in 0 .. m : P(h)}
      <4>3. text[i] = t \o <<NL>> \o some[i]
        <5> PICK w : w = text[i - 1] \o <<NL>> \o some[i]
          OBVIOUS
        <5>1. text[i] = CASE i = 0 -> <<>> [] i = 1 -> some[1] [] OTHER -> w
          BY ONLY <1>6, <2>1, w = text[i - 1] \o <<NL>> \o some[i]
        <5>2. text[i] = w
          BY ONLY <4>1, <5>1
        <5> QED
          BY ONLY <2>1, <5>2, w = text[i - 1] \o <<NL>> \o some[i], t = text[k]
      <4> PICK x, y : x = Cut(data, j - 1) /\ y = Cut(data, j) - 1
        OBVIOUS
      <4>4. x \in 1 .. n /\ data[x] = NL
        BY ONLY <1>1, <4>1, x = Cut(data, j - 1)
      <4>5. a < x
        BY ONLY <1>1, <2>1, <4>1, a = Cut(data, s - 1), x = Cut(data, j - 1)
      <4>6. x < Cut(data, j) /\ Cut(data, j) \in 0 .. n + 1
        BY ONLY <1>1, <2>1, x = Cut(data, j - 1)
      <4>7. x \in a + 1 .. n /\ y \in x .. n
        BY ONLY <1>1, <1>7, <4>4, <4>5, <4>6, y = Cut(data, j) - 1
      <4>8. SubSeq(data, a + 1, x - 1) \o <<NL>> \o SubSeq(data, x + 1, y) = SubSeq(data, a + 1, y)
        BY ONLY <1>7, <4>4, <4>7, Glued, data \in Seq(E), n = Len(data)
      <4> QED
        BY ONLY <2>2, <2>3, <4>2, <4>3, <4>8, x = Cut(data, j - 1), y = Cut(data, j) - 1
    <3> QED
      BY <3>1, <3>2
  <2>5. P(i)
    BY ONLY <2>1, <2>4
  <2> QED
    BY <2>1, <2>5
<1>10. \A k \in 0 .. m : k \in K
  <2> HIDE DEF P
  <2> QED
    BY ONLY <1>4, <1>8, <1>9, UpTo
<1>11. P(m) /\ s + m - 1 = l
  <2>1. m \in 0 .. m /\ s + m - 1 = l
    BY ONLY <1>2, <1>4, m = (l - s) + 1
  <2> QED
    BY <1>10, <2>1
<1>12. text[m] = SubSeq(data, a + 1, Cut(data, l) - 1)
  BY ONLY <1>4, <1>11
<1> QED
  BY ONLY <1>5, <1>12, a = Cut(data, s - 1), some = SubSeq(lines, s, l), lines = Lines(data)

-----------------------------------------------------------------------------
(***************************************************************************)
(* The ranges of a group come in the order of their first lines.           *)
(***************************************************************************)
SliceRange == {r \in [s : Nat \ {0}, e : Nat \ {0}] : r.s <= r.e}

Ordered(list) == \A i, j \in 1 .. Len(list) : i < j => list[i].s <= list[j].s

\* t is list with row before what was its element p.
IsInsertion(t, list, p, row, S) ==
    /\ t \in Seq(S) /\ Len(t) = Len(list) + 1
    /\ \A i \in 1 .. Len(list) + 1 : t[i] = IF i < p THEN list[i] ELSE IF i = p THEN row ELSE list[i - 1]

LEMMA Inserted ==
  ASSUME NEW S, NEW list \in Seq(S), NEW p \in 1 .. Len(list) + 1, NEW row \in S
  PROVE  IsInsertion(InsertAt(list, p, row), list, p, row, S)
<1> PICK n : n = Len(list)
  OBVIOUS
<1> PICK u, v, w : u = SubSeq(list, 1, p - 1) /\ v = SubSeq(list, p, n) /\ w = u \o <<row>>
  OBVIOUS
<1>1. n \in Nat /\ p \in Nat /\ p # 0 /\ p <= n + 1
  OBVIOUS
<1>2. \A i \in 1 .. n : list[i] \in S
  OBVIOUS
<1>3. u \in Seq(S) /\ Len(u) = p - 1 /\ \A i \in 1 .. p - 1 : u[i] = list[i]
  <2>1. /\ u \in Seq(S) /\ Len(u) = (IF 1 <= p - 1 THEN p - 1 - 1 + 1 ELSE 0)
        /\ \A i \in 1 .. p - 1 - 1 + 1 : u[i] = list[1 + i - 1]
    <3>1. 1 \in Int /\ p - 1 \in Int /\ \A i \in 1 .. p - 1 : list[i] \in S
      BY ONLY <1>1, <1>2
    <3> QED
      BY ONLY <3>1, SubSeqProperties, u = SubSeq(list, 1, p - 1)
  <2>2. \A i \in 1 .. p - 1 : i \in 1 .. p - 1 - 1 + 1 /\ 1 + i - 1 = i
    BY ONLY <1>1
  <2> QED
    BY ONLY <1>1, <2>1, <2>2
<1>4. v \in Seq(S) /\ Len(v) = (n - p) + 1 /\ \A i \in 1 .. (n - p) + 1 : v[i] = list[p + i - 1]
  <2>1. /\ v \in Seq(S) /\ Len(v) = (IF p <= n THEN n - p + 1 ELSE 0)
        /\ \A i \in 1 .. n - p + 1 : v[i] = list[p + i - 1]
    <3>1. p \in Int /\ n \in Int /\ \A i \in p .. n : list[i] \in S
      BY ONLY <1>1, <1>2
    <3> QED
      BY ONLY <3>1, SubSeqProperties, v = SubSeq(list, p, n)
  <2> QED
    BY ONLY <1>1, <2>1
<1>5. w \in Seq(S) /\ Len(w) = p /\ w[p] = row /\ \A i \in 1 .. p - 1 : w[i] = list[i]
  <2>1. w = Append(u, row)
    BY ONLY <1>3, w = u \o <<row>>, row \in S
  <2>2. w \in Seq(S) /\ Len(w) = Len(u) + 1 /\ w[Len(u) + 1] = row /\ \A i \in 1 .. Len(u) : w[i] = u[i]
    BY ONLY <1>3, <2>1, row \in S
  <2>3. Len(u) + 1 = p
    BY ONLY <1>1, <1>3
  <2>4. w[p] = row /\ Len(w) = p
    BY ONLY <2>2, <2>3
  <2>5. \A i \in 1 .. p - 1 : w[i] = u[i]
    BY ONLY <1>3, <2>2
  <2> QED
    BY ONLY <1>3, <2>2, <2>4, <2>5
<1> PICK t : t = w \o v
  OBVIOUS
<1>6. /\ t \in Seq(S) /\ Len(t) = Len(w) + Len(v)
      /\ \A i \in 1 .. Len(w) + Len(v) : t[i] = IF i <= Len(w) THEN w[i] ELSE v[i - Len(w)]
  BY ONLY <1>4, <1>5, ConcatProperties, t = w \o v
<1>7. InsertAt(list, p, row) = t
  BY ONLY u = SubSeq(list, 1, p - 1), v = SubSeq(list, p, n), w = u \o <<row>>, t = w \o v, n = Len(list) DEF InsertAt
<1>8. Len(t) = n + 1 /\ Len(w) + Len(v) = n + 1
  BY ONLY <1>1, <1>4, <1>5, <1>6
<1>9. ASSUME NEW i \in 1 .. n + 1
      PROVE  t[i] = IF i < p THEN list[i] ELSE IF i = p THEN row ELSE list[i - 1]
  <2>1. t[i] = IF i <= p THEN w[i] ELSE v[i - p]
    BY ONLY <1>5, <1>6, <1>8, i \in 1 .. n + 1
  <2>2. CASE i < p
    BY ONLY <1>1, <1>5, <2>1, <2>2, i \in 1 .. n + 1
  <2>3. CASE i = p
    BY ONLY <1>1, <1>5, <2>1, <2>3
  <2>4. CASE p < i
    <3> PICK j : j = i - p
      OBVIOUS
    <3>1. j \in 1 .. (n - p) + 1 /\ p + j - 1 = i - 1 /\ ~ (i <= p)
      BY ONLY <1>1, <2>4, i \in 1 .. n + 1, j = i - p
    <3>2. t[i] = list[i - 1]
      BY ONLY <1>4, <2>1, <3>1, j = i - p
    <3>3. ~ (i < p) /\ i # p
      BY ONLY <1>1, <2>4, i \in 1 .. n + 1
    <3> QED
      BY <3>2, <3>3
  <2> QED
    BY ONLY <1>1, <2>2, <2>3, <2>4, i \in 1 .. n + 1
<1> QED
  BY ONLY <1>6, <1>7, <1>8, <1>9, n = Len(list) DEF IsInsertion

LEMMA InsertKeepsOrder ==
  ASSUME NEW list \in Seq(SliceRange), NEW row \in SliceRange
  PROVE  InsertRow(list, row) \in Seq(SliceRange) /\ (Ordered(list) => Ordered(InsertRow(list, row)))
<1> PICK n, after : n = Len(list) /\ after = {i \in DOMAIN list : Before(row, list[i])}
  OBVIOUS
<1>1. n \in Nat /\ DOMAIN list = 1 .. n /\ \A i \in 1 .. n : list[i] \in SliceRange
  OBVIOUS
<1>2. \A r \in SliceRange : r.s \in Nat
  BY DEF SliceRange
<1>3. \A i \in 1 .. n : list[i].s \in Nat
  BY ONLY <1>1, <1>2
<1>4. after \subseteq 1 .. n /\ \A i \in 1 .. n : i \in after <=> Before(row, list[i])
  BY ONLY <1>1, after = {i \in DOMAIN list : Before(row, list[i])}
<1> PICK p : p = IF after = {} THEN n + 1 ELSE Min(after)
  OBVIOUS
<1>5. p \in 1 .. n + 1 /\ (\A i \in 1 .. n : i < p => i \notin after) /\ (p \in 1 .. n => p \in after)
  <2>1. CASE after = {}
    <3>1. p = n + 1
      BY ONLY <2>1, p = IF after = {} THEN n + 1 ELSE Min(after)
    <3> QED
      BY ONLY <1>1, <2>1, <3>1
  <2>2. CASE after # {}
    <3>1. p = Min(after)
      BY ONLY <2>2, p = IF after = {} THEN n + 1 ELSE Min(after)
    <3>2. after \subseteq Nat
      BY ONLY <1>4
    <3>3. p \in after /\ \A i \in after : p <= i
      BY ONLY <2>2, <3>1, <3>2, MinIsLeast
    <3> QED
      BY ONLY <1>1, <1>4, <3>3
  <2> QED
    BY <2>1, <2>2
<1> PICK t : t = InsertRow(list, row)
  OBVIOUS
<1>6. t = InsertAt(list, p, row)
  BY ONLY n = Len(list), after = {i \in DOMAIN list : Before(row, list[i])}, t = InsertRow(list, row),
          p = IF after = {} THEN n + 1 ELSE Min(after) DEF InsertRow
<1>7. /\ t \in Seq(SliceRange) /\ Len(t) = n + 1
      /\ \A i \in 1 .. n + 1 : t[i] = IF i < p THEN list[i] ELSE IF i = p THEN row ELSE list[i - 1]
  <2>1. p \in 1 .. Len(list) + 1
    BY ONLY <1>5, n = Len(list)
  <2>2. IsInsertion(InsertAt(list, p, row), list, p, row, SliceRange)
    BY ONLY <2>1, Inserted, list \in Seq(SliceRange), row \in SliceRange
  <2> QED
    BY ONLY <1>6, <2>2, n = Len(list) DEF IsInsertion
<1>8. row.s \in Nat
  BY <1>2
<1>9. ASSUME Ordered(list) PROVE Ordered(t)
  <2>1. \A i, j \in 1 .. n : i < j => list[i].s <= list[j].s
    BY ONLY <1>9, n = Len(list) DEF Ordered
  <2>2. \A i \in 1 .. n : i < p => list[i].s <= row.s
    <3> TAKE i \in 1 .. n
    <3> HAVE i < p
    <3>1. ~ Before(row, list[i])
      BY ONLY <1>4, <1>5, i < p, i \in 1 .. n
    <3>2. ~ (row.s < list[i].s)
      BY ONLY <3>1 DEF Before
    <3> QED
      BY ONLY <1>3, <1>8, <3>2, i \in 1 .. n
  <2>3. \A i \in 1 .. n : p <= i => row.s <= list[i].s
    <3> TAKE i \in 1 .. n
    <3> HAVE p <= i
    <3>1. p \in 1 .. n
      BY ONLY <1>1, <1>5, p <= i, i \in 1 .. n
    <3>2. Before(row, list[p])
      BY ONLY <1>4, <1>5, <3>1
    <3>3. row.s < list[p].s \/ row.s = list[p].s
      BY ONLY <3>2 DEF Before
    <3>4. list[p].s <= list[i].s
      <4>1. p = i \/ p < i
        BY ONLY <3>1, p <= i, i \in 1 .. n
      <4> QED
        BY ONLY <1>3, <2>1, <3>1, <4>1, i \in 1 .. n
    <3> QED
      BY ONLY <1>3, <1>8, <3>1, <3>3, <3>4, i \in 1 .. n
  <2>4. ASSUME NEW i \in 1 .. n + 1, NEW j \in 1 .. n + 1, i < j PROVE t[i].s <= t[j].s
    <3>1. p \in Nat /\ i \in Nat /\ j \in Nat
      BY ONLY <1>1, <1>5, i \in 1 .. n + 1, j \in 1 .. n + 1
    <3>2. CASE j < p
      <4>1. i < p /\ i \in 1 .. n /\ j \in 1 .. n
        BY ONLY <1>1, <1>5, <2>4, <3>1, <3>2
      <4>2. t[i] = list[i] /\ t[j] = list[j]
        BY ONLY <1>7, <2>4, <3>2, <4>1
      <4> QED
        BY ONLY <2>1, <2>4, <4>1, <4>2
    <3>3. CASE j = p
      <4>1. i < p /\ i \in 1 .. n
        BY ONLY <1>1, <1>5, <2>4, <3>1, <3>3
      <4>2. t[i] = list[i] /\ t[j] = row
        BY ONLY <1>1, <1>7, <2>4, <3>1, <3>3, <4>1
      <4> QED
        BY ONLY <2>2, <4>1, <4>2
    <3>4. CASE p < j
      <4>1. j - 1 \in 1 .. n /\ p <= j - 1 /\ ~ (j < p) /\ j # p
        BY ONLY <1>1, <1>5, <2>4, <3>1, <3>4
      <4>2. t[j] = list[j - 1]
        BY ONLY <1>7, <2>4, <4>1
      <4>3. row.s <= list[j - 1].s /\ list[j - 1].s \in Nat
        BY ONLY <1>3, <2>3, <4>1
      <4>4. CASE i < p
        <5>1. i \in 1 .. n /\ t[i] = list[i]
          BY ONLY <1>1, <1>5, <1>7, <2>4, <3>1, <4>4
        <5>2. list[i].s <= row.s /\ list[i].s \in Nat
          BY ONLY <1>3, <2>2, <4>4, <5>1
        <5> QED
          BY ONLY <1>8, <4>2, <4>3, <5>1, <5>2
      <4>5. CASE i = p
        <5>1. t[i] = row
          BY ONLY <1>7, <2>4, <3>1, <4>5
        <5> QED
          BY ONLY <4>2, <4>3, <5>1
      <4>6. CASE p < i
        <5>1. ~ (i < p) /\ i # p /\ i - 1 \in 1 .. n /\ i - 1 < j - 1
          BY ONLY <1>1, <1>5, <2>4, <3>1, <4>6
        <5>2. t[i] = list[i - 1]
          BY ONLY <1>7, <2>4, <5>1
        <5> QED
          BY ONLY <2>1, <4>1, <4>2, <5>1, <5>2
      <4> QED
        BY ONLY <3>1, <4>4, <4>5, <4>6
    <3> QED
      BY ONLY <3>1, <3>2, <3>3, <3>4
  <2> QED
    BY ONLY <1>7, <2>4 DEF Ordered
<1> QED
  BY ONLY <1>7, <1>9, t = InsertRow(list, row)

SortLoop(list, group) ==
    list = [k \in 0 .. Len(group) |-> IF k = 0 THEN <<>> ELSE InsertRow(list[k - 1], group[k])]

LEMMA SortLoopExists == ASSUME NEW group \in Seq(SliceRange) PROVE \E list : SortLoop(list, group)
<1> PICK n, Q : n = Len(group) /\ Q = Seq(SliceRange)
  OBVIOUS
<1> PICK g : g = [k \in 1 .. n |-> [s \in Q |-> InsertRow(s, group[k])]]
  OBVIOUS
<1>1. n \in Nat /\ \A k \in 1 .. n : group[k] \in SliceRange
  OBVIOUS
<1>2. <<>> \in Q
  OBVIOUS
<1>3. \A k \in 1 .. n, s \in Q : InsertRow(s, group[k]) \in Q
  <2> TAKE k \in 1 .. n, s \in Q
  <2>1. s \in Seq(SliceRange) /\ group[k] \in SliceRange
    BY ONLY <1>1, Q = Seq(SliceRange), s \in Q, k \in 1 .. n
  <2>2. InsertRow(s, group[k]) \in Seq(SliceRange)
    BY ONLY <2>1, InsertKeepsOrder
  <2> QED
    BY ONLY <2>2, Q = Seq(SliceRange)
<1>4. Rounds(g, n, Q)
  BY ONLY <1>3, g = [k \in 1 .. n |-> [s \in Q |-> InsertRow(s, group[k])]] DEF Rounds
<1>5. PICK f : IsLoop(f, n, Q, <<>>, g)
  BY ONLY <1>1, <1>2, <1>4, LoopExists
<1>6. ASSUME NEW k \in 0 .. n PROVE f[k] = IF k = 0 THEN <<>> ELSE InsertRow(f[k - 1], group[k])
  <2>1. k # 0 => k \in 1 .. n /\ k - 1 \in 0 .. n
    BY ONLY <1>1, k \in 0 .. n
  <2>2. k # 0 => f[k - 1] \in Q
    BY ONLY <1>5, <2>1 DEF IsLoop
  <2>3. k # 0 => g[k][f[k - 1]] = InsertRow(f[k - 1], group[k])
    BY ONLY <2>1, <2>2, g = [x \in 1 .. n |-> [s \in Q |-> InsertRow(s, group[x])]]
  <2>4. f[k] = IF k = 0 THEN <<>> ELSE g[k][f[k - 1]]
    BY ONLY <1>5, k \in 0 .. n DEF IsLoop
  <2> QED
    BY ONLY <2>3, <2>4
<1>7. f = [k \in 0 .. n |-> f[k]]
  BY ONLY <1>5 DEF IsLoop
<1>8. f = [k \in 0 .. n |-> IF k = 0 THEN <<>> ELSE InsertRow(f[k - 1], group[k])]
  BY ONLY <1>6, <1>7
<1> QED
  BY ONLY <1>8, n = Len(group) DEF SortLoop

LEMMA SortedIs ==
  ASSUME NEW group \in Seq(SliceRange)
  PROVE  Sorted(group) \in Seq(SliceRange) /\ Ordered(Sorted(group))
<1> DEFINE list == CHOOSE list : list = [k \in 0 .. Len(group) |-> IF k = 0 THEN <<>> ELSE InsertRow(list[k - 1], group[k])]
<1>1. \E f : SortLoop(f, group)
  BY SortLoopExists
<1>2. SortLoop(list, group)
  BY <1>1 DEF SortLoop
<1>3. Sorted(group) = list[Len(group)]
  BY DEF Sorted
<1> HIDE DEF list
<1> PICK n : n = Len(group)
  OBVIOUS
<1>4. n \in Nat /\ \A k \in 1 .. n : group[k] \in SliceRange
  OBVIOUS
<1>5. \A k \in 0 .. n : list[k] = IF k = 0 THEN <<>> ELSE InsertRow(list[k - 1], group[k])
  BY ONLY <1>2, n = Len(group) DEF SortLoop
<1> PICK K : K = {k \in 0 .. n : list[k] \in Seq(SliceRange) /\ Ordered(list[k])}
  OBVIOUS
<1>6. 0 \in K
  <2>1. list[0] = <<>> /\ 0 \in 0 .. n
    BY ONLY <1>4, <1>5
  <2>2. <<>> \in Seq(SliceRange) /\ Len(<<>>) = 0
    OBVIOUS
  <2>3. Ordered(<<>>)
    <3> SUFFICES ASSUME NEW i \in 1 .. Len(<<>>), NEW j \in 1 .. Len(<<>>) PROVE FALSE
      BY Zenon DEF Ordered
    <3> QED
      BY ONLY <2>2, i \in 1 .. Len(<<>>)
  <2>4. list[0] \in Seq(SliceRange) /\ Ordered(list[0])
    BY ONLY Zenon, <2>1, <2>2, <2>3
  <2> QED
    BY ONLY <2>1, <2>4, K = {k \in 0 .. n : list[k] \in Seq(SliceRange) /\ Ordered(list[k])}
<1>7. ASSUME NEW k \in 0 .. n - 1, k \in K PROVE k + 1 \in K
  <2> PICK m : m = k + 1
    OBVIOUS
  <2>1. m \in 0 .. n /\ m \in 1 .. n /\ m # 0 /\ m - 1 = k
    BY ONLY <1>4, k \in 0 .. n - 1, m = k + 1
  <2>2. list[k] \in Seq(SliceRange) /\ Ordered(list[k]) /\ group[m] \in SliceRange
    BY ONLY <1>4, <1>7, <2>1, K = {h \in 0 .. n : list[h] \in Seq(SliceRange) /\ Ordered(list[h])}
  <2>3. list[m] = InsertRow(list[k], group[m])
    BY ONLY <1>5, <2>1
  <2>4. InsertRow(list[k], group[m]) \in Seq(SliceRange) /\ Ordered(InsertRow(list[k], group[m]))
    BY ONLY <2>2, InsertKeepsOrder
  <2> QED
    BY ONLY <2>1, <2>3, <2>4, m = k + 1, K = {h \in 0 .. n : list[h] \in Seq(SliceRange) /\ Ordered(list[h])}
<1>8. \A k \in 0 .. n : k \in K
  BY ONLY <1>4, <1>6, <1>7, UpTo
<1>9. n \in K
  BY ONLY <1>4, <1>8
<1> QED
  BY ONLY <1>3, <1>9, n = Len(group), K = {h \in 0 .. n : list[h] \in Seq(SliceRange) /\ Ordered(list[h])}

\* The ranges of a sorted group.
LEMMA GroupIs ==
  ASSUME NEW group \in Seq(SliceRange), Ordered(group)
  PROVE  /\ Len(group) \in Nat /\ DOMAIN group = 1 .. Len(group)
         /\ \A i \in 1 .. Len(group) :
               group[i].s \in Nat /\ group[i].e \in Nat /\ group[i].s # 0 /\ group[i].s <= group[i].e
         /\ \A i, j \in 1 .. Len(group) : i <= j => group[i].s <= group[j].s
<1> PICK n : n = Len(group)
  OBVIOUS
<1>1. n \in Nat /\ DOMAIN group = 1 .. n /\ \A i \in 1 .. n : group[i] \in SliceRange
  OBVIOUS
<1>2. \A r \in SliceRange : r.s \in Nat /\ r.e \in Nat /\ r.s # 0 /\ r.s <= r.e
  BY DEF SliceRange
<1>3. \A i \in 1 .. n : group[i].s \in Nat /\ group[i].e \in Nat /\ group[i].s # 0 /\ group[i].s <= group[i].e
  BY ONLY <1>1, <1>2
<1>4. \A i, j \in 1 .. n : i <= j => group[i].s <= group[j].s
  <2> TAKE i, j \in 1 .. n
  <2> HAVE i <= j
  <2>1. i = j \/ i < j
    BY ONLY <1>1, i \in 1 .. n, j \in 1 .. n, i <= j
  <2>2. \A k, l \in 1 .. n : k < l => group[k].s <= group[l].s
    BY ONLY Ordered(group), n = Len(group) DEF Ordered
  <2>3. i = j => group[i].s <= group[j].s
    BY ONLY <1>3, i \in 1 .. n
  <2> QED
    BY ONLY <2>1, <2>2, <2>3, i \in 1 .. n, j \in 1 .. n
<1> QED
  BY ONLY <1>1, <1>3, <1>4, n = Len(group)

LEMMA AdvanceIs ==
  ASSUME NEW n \in Nat, NEW i \in 1 .. n + 1, NEW S, n + 1 \notin S
  PROVE  /\ Advance(i, n, S) \in i .. n + 1 /\ Advance(i, n, S) \notin S
         /\ \A j \in i .. Advance(i, n, S) - 1 : j \in S
<1> PICK T : T = {k \in i .. n + 1 : k \notin S}
  OBVIOUS
<1>1. n + 1 \in T /\ T \subseteq Nat
  OBVIOUS
<1>2. PICK k \in T : \A j \in T : k <= j
  BY <1>1, LeastIn
<1>3. k \in i .. n + 1 /\ k \notin S
  OBVIOUS
<1>4. \A j \in i .. k - 1 : j \in S
  <2> TAKE j \in i .. k - 1
  <2>1. j \in i .. n + 1 /\ ~ (k <= j)
    BY ONLY <1>3, i \in 1 .. n + 1, n \in Nat, j \in i .. k - 1
  <2> QED
    BY <1>2, <2>1
<1>5. \E h \in i .. n + 1 : h \notin S /\ \A j \in i .. h - 1 : j \in S
  BY <1>3, <1>4
<1> QED
  BY ONLY <1>5 DEF Advance

-----------------------------------------------------------------------------
(***************************************************************************)
(* The small slicer: what it holds while it is in line l.                  *)
(***************************************************************************)
SmallState(n) ==
    [line : Int, next : 1 .. n + 1, active : 1 .. n + 1, starts : [1 .. n -> Int], ends : [1 .. n -> Int]]

SmallAt(data, group, st, l) ==
    /\ st.line = l
    /\ \A i \in 1 .. Len(group) : i < st.next <=> group[i].s <= l
    /\ \A i \in 1 .. Len(group) : i < st.active => group[i].e < l
    /\ \A i \in 1 .. Len(group) :
          st.starts[i] = IF group[i].s <= l THEN Cut(data, group[i].s - 1) ELSE NoOffset
    /\ \A i \in 1 .. Len(group) :
          st.ends[i] = IF group[i].e < l THEN Cut(data, group[i].e) - 1 ELSE NoOffset

LEMMA SmallStarts ==
  ASSUME NEW E, NEW data \in Seq(E), NEW group \in Seq(SliceRange), Ordered(group)
  PROVE  SmallStart(group) \in SmallState(Len(group)) /\ SmallAt(data, group, SmallStart(group), 1)
<1> PICK n, first : n = Len(group) /\ first = {i \in DOMAIN group : group[i].s = 1}
  OBVIOUS
<1>1. /\ n \in Nat /\ DOMAIN group = 1 .. n
      /\ \A i \in 1 .. n : group[i].s \in Nat /\ group[i].e \in Nat /\ group[i].s # 0 /\ group[i].s <= group[i].e
      /\ \A i, j \in 1 .. n : i <= j => group[i].s <= group[j].s
  BY GroupIs
<1>2. first \subseteq 1 .. n /\ \A i \in 1 .. n : i \in first <=> group[i].s = 1
  BY ONLY <1>1, first = {i \in DOMAIN group : group[i].s = 1}
<1> PICK nextRow : nextRow = Advance(1, n, first)
  OBVIOUS
<1>3. nextRow \in 1 .. n + 1 /\ nextRow \notin first /\ \A j \in 1 .. nextRow - 1 : j \in first
  <2>1. 1 \in 1 .. n + 1 /\ n + 1 \notin first
    BY ONLY <1>1, <1>2
  <2> QED
    BY ONLY <1>1, <2>1, AdvanceIs, nextRow = Advance(1, n, first)
<1> PICK st : st = SmallStart(group)
  OBVIOUS
<1> PICK starts, ends : /\ starts = [i \in 1 .. n |-> IF i \in first THEN 0 ELSE NoOffset]
                        /\ ends = [i \in 1 .. n |-> NoOffset]
  OBVIOUS
<1>4. st = [line |-> 1, next |-> nextRow, active |-> 1, starts |-> starts, ends |-> ends]
  BY ONLY <1>1, st = SmallStart(group), n = Len(group), first = {i \in DOMAIN group : group[i].s = 1},
          nextRow = Advance(1, n, first), starts = [i \in 1 .. n |-> IF i \in first THEN 0 ELSE NoOffset],
          ends = [i \in 1 .. n |-> NoOffset] DEF SmallStart
<1>5. NoOffset \in Int
  BY DEF NoOffset
<1>6. starts \in [1 .. n -> Int] /\ ends \in [1 .. n -> Int]
  BY ONLY <1>5, starts = [i \in 1 .. n |-> IF i \in first THEN 0 ELSE NoOffset], ends = [i \in 1 .. n |-> NoOffset]
<1>7. st \in SmallState(n)
  <2>1. 1 \in Int /\ 1 \in 1 .. n + 1
    BY ONLY <1>1
  <2> QED
    BY ONLY <1>3, <1>4, <1>6, <2>1 DEF SmallState
<1>8. ASSUME NEW i \in 1 .. n PROVE i < nextRow <=> group[i].s <= 1
  <2>1. CASE i < nextRow
    <3>1. i \in first
      BY ONLY <1>1, <1>3, <2>1, i \in 1 .. n
    <3> QED
      BY ONLY <1>2, <2>1, <3>1, i \in 1 .. n
  <2>2. CASE ~ (i < nextRow)
    <3>1. nextRow \in 1 .. n /\ nextRow <= i
      BY ONLY <1>1, <1>3, <2>2, i \in 1 .. n
    <3>2. group[nextRow].s # 1 /\ group[nextRow].s # 0 /\ group[nextRow].s \in Nat /\ group[i].s \in Nat /\ group[nextRow].s <= group[i].s
      BY ONLY <1>1, <1>2, <1>3, <3>1, i \in 1 .. n
    <3> QED
      BY ONLY <2>2, <3>2
  <2> QED
    BY <2>1, <2>2
<1>9. ASSUME NEW i \in 1 .. n
      PROVE  /\ starts[i] = IF group[i].s <= 1 THEN Cut(data, group[i].s - 1) ELSE NoOffset
             /\ ends[i] = IF group[i].e < 1 THEN Cut(data, group[i].e) - 1 ELSE NoOffset
  <2>1. Cut(data, 0) = 0
    BY CutsAre
  <2>2. group[i].s \in Nat /\ group[i].e \in Nat /\ group[i].s # 0 /\ group[i].s <= group[i].e
    BY ONLY <1>1, i \in 1 .. n
  <2>3. ~ (group[i].e < 1) /\ (group[i].s <= 1 <=> group[i].s = 1) /\ (group[i].s = 1 => group[i].s - 1 = 0)
    BY ONLY <2>2
  <2>4. starts[i] = (IF i \in first THEN 0 ELSE NoOffset) /\ ends[i] = NoOffset
    BY ONLY starts = [h \in 1 .. n |-> IF h \in first THEN 0 ELSE NoOffset], ends = [h \in 1 .. n |-> NoOffset],
            i \in 1 .. n
  <2>5. i \in first <=> group[i].s <= 1
    BY ONLY <1>2, <2>3, i \in 1 .. n
  <2>6. group[i].s <= 1 => Cut(data, group[i].s - 1) = 0
    BY ONLY Zenon, <2>1, <2>3
  <2> QED
    BY ONLY <2>3, <2>4, <2>5, <2>6
<1>10. \A i \in 1 .. n : ~ (i < 1)
  BY ONLY <1>1
<1>11. SmallAt(data, group, st, 1)
  BY ONLY <1>4, <1>8, <1>9, <1>10, n = Len(group) DEF SmallAt
<1> QED
  BY ONLY <1>7, <1>11, n = Len(group), st = SmallStart(group)

\* The parts of what a newline leaves behind.
EndedBy(group, st) ==
    {i \in st.active .. Len(group) : (\A j \in st.active .. i : group[j].s <= st.line) /\ group[i].e = st.line}

EndsAfter(group, st, x) == [i \in DOMAIN group |-> IF i \in EndedBy(group, st) THEN x - 1 ELSE st.ends[i]]

NextAfter(group, st) == Advance(st.next, Len(group), {i \in DOMAIN group : group[i].s = st.line + 1})

ActiveAfter(group, st, x) ==
    Advance(st.active, Len(group), {i \in DOMAIN group : EndsAfter(group, st, x)[i] # NoOffset})

StartsAfter(group, st, x) ==
    [i \in DOMAIN group |-> IF i \in st.next .. NextAfter(group, st) - 1 THEN x ELSE st.starts[i]]

LEMMA SmallNewlineIs ==
  ASSUME NEW group, NEW st, NEW x
  PROVE  SmallNewline(group, st, x) = [line |-> st.line + 1, next |-> NextAfter(group, st),
                                       active |-> ActiveAfter(group, st, x), starts |-> StartsAfter(group, st, x),
                                       ends |-> EndsAfter(group, st, x)]
BY Zenon DEF SmallNewline, EndedBy, EndsAfter, NextAfter, ActiveAfter, StartsAfter

LEMMA SmallTypes ==
  ASSUME NEW group \in Seq(SliceRange), NEW st \in SmallState(Len(group)), NEW x \in Int
  PROVE  SmallNewline(group, st, x) \in SmallState(Len(group))
<1> PICK n : n = Len(group)
  OBVIOUS
<1>1. n \in Nat /\ DOMAIN group = 1 .. n
  OBVIOUS
<1>2. /\ st.line \in Int /\ st.next \in 1 .. n + 1 /\ st.active \in 1 .. n + 1
      /\ st.starts \in [1 .. n -> Int] /\ st.ends \in [1 .. n -> Int]
  BY ONLY st \in SmallState(Len(group)), n = Len(group) DEF SmallState
<1>4. NextAfter(group, st) \in 1 .. n + 1
  <2> PICK S : S = {i \in DOMAIN group : group[i].s = st.line + 1}
    OBVIOUS
  <2>1. n + 1 \notin S
    BY ONLY <1>1, S = {i \in DOMAIN group : group[i].s = st.line + 1}
  <2> PICK a : a = st.next
    OBVIOUS
  <2> PICK k : k = Advance(a, n, S)
    OBVIOUS
  <2>2. k \in a .. n + 1 /\ k \notin S /\ \A j \in a .. k - 1 : j \in S
    <3>1. a \in 1 .. n + 1
      BY ONLY <1>2, a = st.next
    <3>2. n \in Nat
      BY ONLY <1>1
    <3> QED
      BY ONLY Zenon, <2>1, <3>1, <3>2, AdvanceIs, k = Advance(a, n, S)
  <2>3. NextAfter(group, st) = k
    BY ONLY n = Len(group), k = Advance(a, n, S), a = st.next, S = {i \in DOMAIN group : group[i].s = st.line + 1} DEF NextAfter
  <2>4. a \in 1 .. n + 1
    BY ONLY <1>2, a = st.next
  <2> QED
    BY ONLY <1>1, <2>2, <2>3, <2>4
<1>5. ActiveAfter(group, st, x) \in 1 .. n + 1
  <2> PICK S : S = {i \in DOMAIN group : EndsAfter(group, st, x)[i] # NoOffset}
    OBVIOUS
  <2>1. n + 1 \notin S
    BY ONLY <1>1, S = {i \in DOMAIN group : EndsAfter(group, st, x)[i] # NoOffset}
  <2> PICK a : a = st.active
    OBVIOUS
  <2> PICK k : k = Advance(a, n, S)
    OBVIOUS
  <2>2. k \in a .. n + 1 /\ k \notin S /\ \A j \in a .. k - 1 : j \in S
    <3>1. a \in 1 .. n + 1
      BY ONLY <1>2, a = st.active
    <3>2. n \in Nat
      BY ONLY <1>1
    <3> QED
      BY ONLY Zenon, <2>1, <3>1, <3>2, AdvanceIs, k = Advance(a, n, S)
  <2>3. ActiveAfter(group, st, x) = k
    BY ONLY n = Len(group), k = Advance(a, n, S), a = st.active, S = {i \in DOMAIN group : EndsAfter(group, st, x)[i] # NoOffset} DEF ActiveAfter
  <2>4. a \in 1 .. n + 1
    BY ONLY <1>2, a = st.active
  <2> QED
    BY ONLY <1>1, <2>2, <2>3, <2>4
<1>6. StartsAfter(group, st, x) \in [1 .. n -> Int]
  BY ONLY <1>1, <1>2, x \in Int DEF StartsAfter
<1>7. EndsAfter(group, st, x) \in [1 .. n -> Int]
  BY ONLY <1>1, <1>2, x \in Int DEF EndsAfter
<1>8. st.line + 1 \in Int
  BY ONLY <1>2
<1>9. SmallNewline(group, st, x) \in SmallState(n)
  BY ONLY <1>4, <1>5, <1>6, <1>7, <1>8, SmallNewlineIs DEF SmallState
<1> QED
  BY ONLY <1>9, n = Len(group)

LEMMA SmallStep ==
  ASSUME NEW E, NEW data \in Seq(E), NEW group \in Seq(SliceRange), Ordered(group),
         NEW l \in 1 .. Rows(data) - 1, NEW st \in SmallState(Len(group)), SmallAt(data, group, st, l)
  PROVE  SmallAt(data, group, SmallNewline(group, st, Cut(data, l)), l + 1)
<1> PICK n, x : n = Len(group) /\ x = Cut(data, l)
  OBVIOUS
<1>1. /\ n \in Nat /\ DOMAIN group = 1 .. n
      /\ \A i \in 1 .. n : group[i].s \in Nat /\ group[i].e \in Nat /\ group[i].s # 0 /\ group[i].s <= group[i].e
      /\ \A i, j \in 1 .. n : i <= j => group[i].s <= group[j].s
  BY GroupIs
<1>2. l \in Nat /\ l # 0
  <2>1. Rows(data) \in Nat
    BY CutsAre
  <2> QED
    BY ONLY <2>1, l \in 1 .. Rows(data) - 1
<1>3. /\ st.next \in 1 .. n + 1 /\ st.active \in 1 .. n + 1
      /\ st.starts \in [1 .. n -> Int] /\ st.ends \in [1 .. n -> Int]
  BY ONLY st \in SmallState(Len(group)), n = Len(group) DEF SmallState
<1>4. /\ st.line = l
      /\ \A i \in 1 .. n : i < st.next <=> group[i].s <= l
      /\ \A i \in 1 .. n : i < st.active => group[i].e < l
  BY ONLY SmallAt(data, group, st, l), n = Len(group) DEF SmallAt
<1>5. \A i \in 1 .. n : st.starts[i] = IF group[i].s <= l THEN Cut(data, group[i].s - 1) ELSE NoOffset
  BY ONLY SmallAt(data, group, st, l), n = Len(group) DEF SmallAt
<1>6. \A i \in 1 .. n : st.ends[i] = IF group[i].e < l THEN Cut(data, group[i].e) - 1 ELSE NoOffset
  BY ONLY SmallAt(data, group, st, l), n = Len(group) DEF SmallAt
<1> PICK nextRow, active, starts, ends :
       /\ nextRow = NextAfter(group, st) /\ active = ActiveAfter(group, st, x)
       /\ starts = StartsAfter(group, st, x) /\ ends = EndsAfter(group, st, x)
  OBVIOUS
<1>7. SmallNewline(group, st, x) = [line |-> l + 1, next |-> nextRow, active |-> active, starts |-> starts, ends |-> ends]
  BY ONLY <1>4, SmallNewlineIs, nextRow = NextAfter(group, st), active = ActiveAfter(group, st, x),
          starts = StartsAfter(group, st, x), ends = EndsAfter(group, st, x)
<1>8. \A i \in 1 .. n : ends[i] = IF group[i].e < l + 1 THEN Cut(data, group[i].e) - 1 ELSE NoOffset
  <2> TAKE i \in 1 .. n
  <2>1. i \in EndedBy(group, st) <=> group[i].e = l
    <3>1. ASSUME group[i].e = l PROVE i \in EndedBy(group, st)
      <4>1. i \in st.active .. n
        BY ONLY <1>1, <1>2, <1>3, <1>4, <3>1, i \in 1 .. n
      <4>2. \A j \in st.active .. i : group[j].s <= l
        <5> TAKE j \in st.active .. i
        <5>1. j \in 1 .. n /\ j <= i
          BY ONLY <1>1, <1>3, i \in 1 .. n, j \in st.active .. i
        <5>2. group[j].s <= group[i].s /\ group[i].s <= l /\ group[j].s \in Nat /\ group[i].s \in Nat
          BY ONLY <1>1, <3>1, <5>1, i \in 1 .. n
        <5> QED
          BY ONLY <1>2, <5>2
      <4> QED
        BY ONLY <1>4, <3>1, <4>1, <4>2, n = Len(group) DEF EndedBy
    <3>2. ASSUME i \in EndedBy(group, st) PROVE group[i].e = l
      BY ONLY <1>4, <3>2 DEF EndedBy
    <3> QED
      BY <3>1, <3>2
  <2>2. ends[i] = IF i \in EndedBy(group, st) THEN x - 1 ELSE st.ends[i]
    BY ONLY <1>1, ends = EndsAfter(group, st, x), i \in 1 .. n DEF EndsAfter
  <2>3. group[i].e < l + 1 <=> group[i].e = l \/ group[i].e < l
    BY ONLY <1>1, <1>2, i \in 1 .. n
  <2>4. ~ (group[i].e = l /\ group[i].e < l)
    BY ONLY <1>2
  <2>5. group[i].e = l => Cut(data, group[i].e) = x
    BY ONLY Zenon, x = Cut(data, l)
  <2>6. CASE group[i].e = l
    BY ONLY <2>1, <2>2, <2>3, <2>5, <2>6
  <2>7. CASE group[i].e # l
    <3>1. ends[i] = st.ends[i] /\ (group[i].e < l + 1 <=> group[i].e < l)
      BY ONLY <2>1, <2>2, <2>3, <2>7
    <3> QED
      BY ONLY <1>6, <3>1, i \in 1 .. n
  <2> QED
    BY <2>6, <2>7
<1>9. \A i \in 1 .. n : i < active => group[i].e < l + 1
  <2> PICK S : S = {i \in DOMAIN group : EndsAfter(group, st, x)[i] # NoOffset}
    OBVIOUS
  <2>1. \A i : i \in S <=> i \in 1 .. n /\ ends[i] # NoOffset
    BY ONLY <1>1, S = {i \in DOMAIN group : EndsAfter(group, st, x)[i] # NoOffset}, ends = EndsAfter(group, st, x)
  <2>2. n + 1 \notin S
    BY ONLY <1>1, <2>1
  <2>3. active = Advance(st.active, n, S)
    BY ONLY active = ActiveAfter(group, st, x), n = Len(group),
            S = {i \in DOMAIN group : EndsAfter(group, st, x)[i] # NoOffset} DEF ActiveAfter
  <2>4. active \in st.active .. n + 1 /\ \A j \in st.active .. active - 1 : j \in S
    BY ONLY <1>1, <1>3, <2>2, <2>3, AdvanceIs
  <2> TAKE i \in 1 .. n
  <2> HAVE i < active
  <2>5. CASE i < st.active
    <3>1. group[i].e < l /\ group[i].e \in Nat
      BY ONLY <1>1, <1>4, <2>5, i \in 1 .. n
    <3> QED
      BY ONLY <1>2, <3>1
  <2>6. CASE ~ (i < st.active)
    <3>1. i \in st.active .. active - 1
      BY ONLY <1>1, <1>3, <2>4, <2>6, i \in 1 .. n, i < active
    <3>2. ends[i] # NoOffset
      BY ONLY <2>1, <2>4, <3>1
    <3> QED
      BY ONLY <1>8, <3>2, i \in 1 .. n
  <2> QED
    BY <2>5, <2>6
<1> PICK starting : starting = {i \in DOMAIN group : group[i].s = st.line + 1}
  OBVIOUS
<1>10. \A i : i \in starting <=> i \in 1 .. n /\ group[i].s = l + 1
  BY ONLY <1>1, <1>4, starting = {i \in DOMAIN group : group[i].s = st.line + 1}
<1>11. nextRow \in st.next .. n + 1 /\ nextRow \notin starting /\ \A j \in st.next .. nextRow - 1 : j \in starting
  <2>1. n + 1 \notin starting
    BY ONLY <1>1, <1>10
  <2>2. nextRow = Advance(st.next, n, starting)
    BY ONLY nextRow = NextAfter(group, st), n = Len(group), starting = {i \in DOMAIN group : group[i].s = st.line + 1} DEF NextAfter
  <2> QED
    BY ONLY <1>1, <1>3, <2>1, <2>2, AdvanceIs
<1>12. nextRow \in 1 .. n + 1
  BY ONLY <1>1, <1>3, <1>11
<1>13. \A i \in 1 .. n : nextRow <= i => group[i].s > l + 1
  <2> TAKE i \in 1 .. n
  <2> HAVE nextRow <= i
  <2>1. nextRow \in 1 .. n /\ ~ (nextRow < st.next)
    BY ONLY <1>1, <1>3, <1>11, <1>12, i \in 1 .. n, nextRow <= i
  <2>2. ~ (group[nextRow].s <= l) /\ group[nextRow].s # l + 1
    BY ONLY <1>4, <1>10, <1>11, <2>1
  <2>3. group[nextRow].s <= group[i].s /\ group[nextRow].s \in Nat /\ group[i].s \in Nat
    BY ONLY <1>1, <2>1, i \in 1 .. n, nextRow <= i
  <2> QED
    BY ONLY <1>2, <2>2, <2>3
<1>14. \A i \in 1 .. n : i \in st.next .. nextRow - 1 => group[i].s = l + 1
  BY ONLY <1>10, <1>11
<1>15. \A i \in 1 .. n : i < st.next \/ i \in st.next .. nextRow - 1 \/ nextRow <= i
  BY ONLY <1>1, <1>3, <1>12
<1>16. \A i \in 1 .. n : i < nextRow <=> group[i].s <= l + 1
  <2> TAKE i \in 1 .. n
  <2>0. group[i].s \in Nat /\ i \in Nat
    BY ONLY <1>1, i \in 1 .. n
  <2>1. CASE i < st.next
    <3>1. group[i].s <= l /\ i < nextRow
      BY ONLY <1>1, <1>3, <1>4, <1>11, <2>1, i \in 1 .. n
    <3> QED
      BY ONLY <1>2, <2>0, <3>1
  <2>2. CASE i \in st.next .. nextRow - 1
    <3>1. group[i].s = l + 1 /\ i < nextRow
      BY ONLY <1>3, <1>12, <1>14, <2>2, i \in 1 .. n
    <3> QED
      BY ONLY <1>2, <3>1
  <2>3. CASE nextRow <= i
    <3>1. group[i].s > l + 1
      BY ONLY <1>13, <2>3, i \in 1 .. n
    <3> QED
      BY ONLY <1>2, <1>12, <2>0, <2>3, <3>1
  <2> QED
    BY ONLY <1>15, <2>1, <2>2, <2>3, i \in 1 .. n
<1>17. \A i \in 1 .. n : starts[i] = IF group[i].s <= l + 1 THEN Cut(data, group[i].s - 1) ELSE NoOffset
  <2> TAKE i \in 1 .. n
  <2>0. group[i].s \in Nat /\ i \in Nat
    BY ONLY <1>1, i \in 1 .. n
  <2>1. starts[i] = IF i \in st.next .. nextRow - 1 THEN x ELSE st.starts[i]
    BY ONLY <1>1, starts = StartsAfter(group, st, x), nextRow = NextAfter(group, st), i \in 1 .. n DEF StartsAfter
  <2>2. CASE i < st.next
    <3>1. i \notin st.next .. nextRow - 1
      BY ONLY <1>3, <1>12, <2>0, <2>2
    <3>2. group[i].s <= l /\ group[i].s <= l + 1
      BY ONLY <1>2, <1>4, <2>0, <2>2, i \in 1 .. n
    <3> QED
      BY ONLY <1>5, <2>1, <3>1, <3>2, i \in 1 .. n
  <2>3. CASE i \in st.next .. nextRow - 1
    <3>1. group[i].s = l + 1 /\ group[i].s <= l + 1 /\ group[i].s - 1 = l
      BY ONLY <1>2, <1>14, <2>3, i \in 1 .. n
    <3>2. Cut(data, group[i].s - 1) = x
      BY ONLY Zenon, <3>1, x = Cut(data, l)
    <3> QED
      BY ONLY <2>1, <2>3, <3>1, <3>2
  <2>4. CASE nextRow <= i
    <3>1. group[i].s > l + 1 /\ i \notin st.next .. nextRow - 1
      BY ONLY <1>3, <1>12, <1>13, <2>0, <2>4, i \in 1 .. n
    <3>2. ~ (group[i].s <= l) /\ ~ (group[i].s <= l + 1)
      BY ONLY <1>2, <2>0, <3>1
    <3>3. st.starts[i] = NoOffset
      BY ONLY <1>5, <3>2, i \in 1 .. n
    <3> QED
      BY ONLY <2>1, <3>1, <3>2, <3>3
  <2> QED
    BY ONLY <1>15, <2>2, <2>3, <2>4, i \in 1 .. n
<1>18. SmallAt(data, group, SmallNewline(group, st, x), l + 1)
  BY ONLY <1>7, <1>8, <1>9, <1>16, <1>17, n = Len(group) DEF SmallAt
<1> QED
  BY ONLY <1>18, x = Cut(data, l)

\* The lines of a range are one piece of the text.
Upper(r, k) == IF r.e < k THEN r.e ELSE k

LEMMA ContentIs ==
  ASSUME NEW E, NEW data \in Seq(E), NEW r \in SliceRange
  PROVE  SmallContent(data, r) =
            IF r.s <= Rows(data) /\ Cut(data, r.s - 1) < Len(data)
            THEN SubSeq(data, Cut(data, r.s - 1) + 1, Cut(data, Upper(r, Rows(data))) - 1)
            ELSE <<>>
<1> PICK R, n, s, m : R = Rows(data) /\ n = Len(data) /\ s = r.s /\ m = Upper(r, Rows(data))
  OBVIOUS
<1>1. /\ n \in Nat /\ R \in Nat /\ R # 0 /\ Cut(data, R) = n + 1
      /\ \A i \in 0 .. R : Cut(data, i) \in 0 .. n + 1
      /\ \A i, j \in 0 .. R : i < j => Cut(data, i) < Cut(data, j)
  BY CutsAre
<1>2. s \in Nat /\ r.e \in Nat /\ s # 0 /\ s <= r.e
  BY DEF SliceRange
<1>3. m \in Nat /\ m <= R /\ m = IF r.e < R THEN r.e ELSE R
  BY ONLY <1>1, <1>2, m = Upper(r, Rows(data)), R = Rows(data) DEF Upper
<1>4. Len(Lines(data)) = R
  BY LinesAre
<1>5. SmallContent(data, r) = JoinLines(SubSeq(Lines(data), s, m))
  BY ONLY <1>3, <1>4, s = r.s DEF SmallContent, LinesOf
<1>6. CASE s <= R
  <2>1. s <= m /\ s \in 1 .. R /\ m \in s .. R /\ s - 1 \in 0 .. R /\ m \in 0 .. R
    BY ONLY <1>1, <1>2, <1>3, <1>6
  <2>2. JoinLines(SubSeq(Lines(data), s, m)) = SubSeq(data, Cut(data, s - 1) + 1, Cut(data, m) - 1)
    BY ONLY <2>1, JoinedLines, data \in Seq(E), R = Rows(data)
  <2> PICK a, b : a = Cut(data, s - 1) /\ b = Cut(data, m)
    OBVIOUS
  <2>3. a \in 0 .. n + 1 /\ b \in 0 .. n + 1
    BY ONLY <1>1, <2>1, a = Cut(data, s - 1), b = Cut(data, m)
  <2>4. CASE a < n
    BY ONLY <1>5, <1>6, <2>2, <2>4, a = Cut(data, s - 1), s = r.s, m = Upper(r, Rows(data)), R = Rows(data), n = Len(data)
  <2>5. CASE ~ (a < n)
    <3>1. b - 1 < a + 1 /\ a + 1 \in Int /\ b - 1 \in Int
      BY ONLY <1>1, <2>3, <2>5
    <3>2. SubSeq(data, a + 1, b - 1) = <<>>
      BY ONLY <3>1, SubSeqEmpty
    <3> QED
      BY ONLY <1>5, <2>2, <2>5, <3>2, a = Cut(data, s - 1), b = Cut(data, m), s = r.s, n = Len(data)
  <2> QED
    BY <2>4, <2>5
<1>7. CASE ~ (s <= R)
  <2>1. m < s /\ m \in Int /\ s \in Int
    BY ONLY <1>1, <1>2, <1>3, <1>7
  <2>2. SubSeq(Lines(data), s, m) = <<>>
    BY ONLY <2>1, SubSeqEmpty
  <2> QED
    BY ONLY <1>5, <1>7, <2>2, JoinNone, s = r.s, R = Rows(data)
<1> QED
  BY <1>6, <1>7

SmallScan(scan, data, group) ==
    scan = [k \in 0 .. Len(Newlines(data)) |->
              IF k = 0 THEN SmallStart(group) ELSE SmallNewline(group, scan[k - 1], Newlines(data)[k])]

LEMMA SmallScanExists ==
  ASSUME NEW E, NEW data \in Seq(E), NEW group \in Seq(SliceRange), Ordered(group)
  PROVE  \E scan : SmallScan(scan, data, group)
<1> PICK m, Q, offs : m = Len(Newlines(data)) /\ Q = SmallState(Len(group)) /\ offs = Newlines(data)
  OBVIOUS
<1> PICK g : g = [k \in 1 .. m |-> [st \in Q |-> SmallNewline(group, st, offs[k])]]
  OBVIOUS
<1>1. m \in Nat /\ \A k \in 1 .. m : offs[k] \in Int
  <2>1. m \in Nat /\ offs \in Seq(1 .. Len(data)) /\ \A k \in 1 .. m : offs[k] \in 1 .. Len(data)
    BY NewlinesAre
  <2>2. Len(data) \in Nat
    OBVIOUS
  <2> QED
    BY ONLY <2>1, <2>2
<1>2. SmallStart(group) \in Q
  BY SmallStarts
<1>3. \A k \in 1 .. m, st \in Q : SmallNewline(group, st, offs[k]) \in Q
  <2> TAKE k \in 1 .. m, st \in Q
  <2>1. st \in SmallState(Len(group)) /\ offs[k] \in Int
    BY ONLY <1>1, Q = SmallState(Len(group)), st \in Q, k \in 1 .. m
  <2>2. SmallNewline(group, st, offs[k]) \in SmallState(Len(group))
    BY ONLY <2>1, SmallTypes, group \in Seq(SliceRange)
  <2> QED
    BY ONLY <2>2, Q = SmallState(Len(group))
<1>4. Rounds(g, m, Q)
  BY ONLY <1>3, g = [k \in 1 .. m |-> [st \in Q |-> SmallNewline(group, st, offs[k])]] DEF Rounds
<1>5. PICK f : IsLoop(f, m, Q, SmallStart(group), g)
  BY ONLY <1>1, <1>2, <1>4, LoopExists
<1>6. ASSUME NEW k \in 0 .. m PROVE f[k] = IF k = 0 THEN SmallStart(group) ELSE SmallNewline(group, f[k - 1], offs[k])
  <2>1. k # 0 => k \in 1 .. m /\ k - 1 \in 0 .. m
    BY ONLY <1>1, k \in 0 .. m
  <2>2. k # 0 => f[k - 1] \in Q
    BY ONLY <1>5, <2>1 DEF IsLoop
  <2>3. k # 0 => g[k][f[k - 1]] = SmallNewline(group, f[k - 1], offs[k])
    BY ONLY <2>1, <2>2, g = [x \in 1 .. m |-> [st \in Q |-> SmallNewline(group, st, offs[x])]]
  <2>4. f[k] = IF k = 0 THEN SmallStart(group) ELSE g[k][f[k - 1]]
    BY ONLY <1>5, k \in 0 .. m DEF IsLoop
  <2> QED
    BY ONLY <2>3, <2>4
<1>7. f = [k \in 0 .. m |-> f[k]]
  BY ONLY <1>5 DEF IsLoop
<1>8. f = [k \in 0 .. m |-> IF k = 0 THEN SmallStart(group) ELSE SmallNewline(group, f[k - 1], offs[k])]
  BY ONLY <1>6, <1>7
<1> QED
  BY ONLY <1>8, m = Len(Newlines(data)), offs = Newlines(data) DEF SmallScan

\* What the small slicer makes of its last state.
SmallResult(data, group, st) ==
    [i \in DOMAIN group |->
        IF st.starts[i] = NoOffset
             \/ (IF group[i].e >= st.line /\ st.ends[i] = NoOffset THEN Len(data) ELSE st.ends[i]) = NoOffset
             \/ st.starts[i] >= Len(data)
        THEN <<>>
        ELSE SubSeq(data, st.starts[i] + 1,
                    IF group[i].e >= st.line /\ st.ends[i] = NoOffset THEN Len(data) ELSE st.ends[i])]

LEMMA SliceSmallIs ==
  ASSUME NEW data, NEW group, \E scan : SmallScan(scan, data, group)
  PROVE  \E scan : SmallScan(scan, data, group)
                     /\ SliceSmall(data, group) = SmallResult(data, group, scan[Len(Newlines(data))])
<1> DEFINE scan == CHOOSE scan : scan = [k \in 0 .. Len(Newlines(data)) |->
              IF k = 0 THEN SmallStart(group) ELSE SmallNewline(group, scan[k - 1], Newlines(data)[k])]
<1>2. SmallScan(scan, data, group)
  BY DEF SmallScan
<1>3. SliceSmall(data, group) = SmallResult(data, group, scan[Len(Newlines(data))])
  <2> DEFINE st == scan[Len(Newlines(data))]
             end == [i \in DOMAIN group |->
                        IF group[i].e >= st.line /\ st.ends[i] = NoOffset THEN Len(data) ELSE st.ends[i]]
  <2>1. SliceSmall(data, group) =
          [i \in DOMAIN group |->
              IF st.starts[i] = NoOffset \/ end[i] = NoOffset \/ st.starts[i] >= Len(data)
              THEN <<>> ELSE SubSeq(data, st.starts[i] + 1, end[i])]
    BY DEF SliceSmall
  <2> HIDE DEF scan
  <2>2. \A i \in DOMAIN group :
          end[i] = IF group[i].e >= st.line /\ st.ends[i] = NoOffset THEN Len(data) ELSE st.ends[i]
    OBVIOUS
  <2> HIDE DEF end, st
  <2>3. SliceSmall(data, group) = SmallResult(data, group, st)
    BY ONLY <2>1, <2>2 DEF SmallResult
  <2> QED
    BY ONLY <2>3 DEF st
<1> HIDE DEF scan
<1> QED
  BY ONLY <1>2, <1>3

LEMMA SmallLastState ==
  ASSUME NEW E, NEW data \in Seq(E), NEW group \in Seq(SliceRange), Ordered(group), NEW scan, SmallScan(scan, data, group)
  PROVE  SmallAt(data, group, scan[Len(Newlines(data))], Rows(data))
<1> PICK m, Q, offs : m = Len(Newlines(data)) /\ Q = SmallState(Len(group)) /\ offs = Newlines(data)
  OBVIOUS
<1>1. m \in Nat /\ Rows(data) = m + 1 /\ \A k \in 1 .. m : offs[k] \in Int /\ offs[k] = Cut(data, k)
  <2>1. m \in Nat /\ \A k \in 1 .. m : offs[k] \in 1 .. Len(data)
    BY NewlinesAre
  <2>2. Len(data) \in Nat
    OBVIOUS
  <2>3. \A k \in 1 .. m : k # 0 /\ ~ (k > m)
    BY ONLY <2>1
  <2>4. \A k \in 1 .. m : Cut(data, k) = offs[k]
    BY ONLY <2>3, m = Len(Newlines(data)), offs = Newlines(data) DEF Cut
  <2>5. Rows(data) = m + 1
    BY DEF Rows
  <2> QED
    BY ONLY <2>1, <2>2, <2>4, <2>5
<1>2. \A k \in 0 .. m : scan[k] = IF k = 0 THEN SmallStart(group) ELSE SmallNewline(group, scan[k - 1], offs[k])
  BY ONLY <1>1, SmallScan(scan, data, group), m = Len(Newlines(data)), offs = Newlines(data) DEF SmallScan
<1> PICK K : K = {k \in 0 .. m : scan[k] \in Q /\ SmallAt(data, group, scan[k], k + 1)}
  OBVIOUS
<1>3. 0 \in K
  <2>1. 0 \in 0 .. m /\ 0 + 1 = 1
    BY ONLY <1>1
  <2>2. scan[0] = SmallStart(group)
    BY ONLY <1>2, <2>1
  <2>3. SmallStart(group) \in Q /\ SmallAt(data, group, SmallStart(group), 1)
    BY SmallStarts
  <2> QED
    BY ONLY <2>1, <2>2, <2>3, K = {k \in 0 .. m : scan[k] \in Q /\ SmallAt(data, group, scan[k], k + 1)}
<1>4. ASSUME NEW k \in 0 .. m - 1, k \in K PROVE k + 1 \in K
  <2> PICK l, st : l = k + 1 /\ st = scan[k]
    OBVIOUS
  <2>1. l \in 0 .. m /\ l \in 1 .. m /\ l # 0 /\ l - 1 = k /\ l \in 1 .. Rows(data) - 1
    BY ONLY <1>1, k \in 0 .. m - 1, l = k + 1
  <2>2. st \in SmallState(Len(group)) /\ SmallAt(data, group, st, l)
    BY ONLY <1>4, l = k + 1, st = scan[k], Q = SmallState(Len(group)),
            K = {h \in 0 .. m : scan[h] \in Q /\ SmallAt(data, group, scan[h], h + 1)}
  <2>3. scan[l] = SmallNewline(group, st, offs[l]) /\ offs[l] \in Int /\ offs[l] = Cut(data, l)
    BY ONLY <1>1, <1>2, <2>1, st = scan[k]
  <2>4. SmallNewline(group, st, offs[l]) \in Q
    BY <2>2, <2>3, SmallTypes
  <2>5. SmallAt(data, group, SmallNewline(group, st, Cut(data, l)), l + 1)
    BY <2>1, <2>2, SmallStep
  <2>6. scan[l] \in Q /\ SmallAt(data, group, scan[l], l + 1)
    BY ONLY <2>3, <2>4, <2>5
  <2> QED
    BY ONLY <2>1, <2>6, l = k + 1, K = {h \in 0 .. m : scan[h] \in Q /\ SmallAt(data, group, scan[h], h + 1)}
<1>5. \A k \in 0 .. m : k \in K
  BY ONLY <1>1, <1>3, <1>4, UpTo
<1>6. m \in K
  BY ONLY <1>1, <1>5
<1> QED
  BY ONLY <1>1, <1>6, m = Len(Newlines(data)), K = {h \in 0 .. m : scan[h] \in Q /\ SmallAt(data, group, scan[h], h + 1)}

LEMMA SmallSlicerIsExact ==
  ASSUME NEW E, NEW data \in Seq(E), NEW group \in Seq(SliceRange), Ordered(group)
  PROVE  SliceSmall(data, group) = [i \in 1 .. Len(group) |-> SmallContent(data, group[i])]
<1> PICK n, len, R : n = Len(group) /\ len = Len(data) /\ R = Rows(data)
  OBVIOUS
<1>1. /\ n \in Nat /\ DOMAIN group = 1 .. n
      /\ \A i \in 1 .. n : group[i].s \in Nat /\ group[i].e \in Nat /\ group[i].s # 0 /\ group[i].s <= group[i].e
  BY GroupIs
<1>2. \E scan : SmallScan(scan, data, group)
  BY SmallScanExists
<1>3. PICK scan : SmallScan(scan, data, group) /\ SliceSmall(data, group) = SmallResult(data, group, scan[Len(Newlines(data))])
  BY ONLY <1>2, SliceSmallIs
<1> PICK st : st = scan[Len(Newlines(data))]
  OBVIOUS
<1>4. SmallAt(data, group, st, R)
  BY <1>3, SmallLastState
<1>5. /\ len \in Nat /\ R \in Nat /\ R # 0 /\ Cut(data, R) = len + 1
      /\ \A i \in 0 .. R : Cut(data, i) \in 0 .. len + 1
      /\ \A i, j \in 0 .. R : i < j => Cut(data, i) < Cut(data, j)
      /\ Cut(data, 0) = 0
  BY CutsAre
<1>6. NoOffset \in Int /\ NoOffset < 0
  BY DEF NoOffset
<1>7. ASSUME NEW i \in 1 .. n
      PROVE  (IF st.starts[i] = NoOffset
                   \/ (IF group[i].e >= st.line /\ st.ends[i] = NoOffset THEN len ELSE st.ends[i]) = NoOffset
                   \/ st.starts[i] >= len
              THEN <<>>
              ELSE SubSeq(data, st.starts[i] + 1,
                          IF group[i].e >= st.line /\ st.ends[i] = NoOffset THEN len ELSE st.ends[i]))
             = SmallContent(data, group[i])
  <2> PICK r, s, e : r = group[i] /\ s = group[i].s /\ e = group[i].e
    OBVIOUS
  <2>1. r \in SliceRange /\ s = r.s /\ e = r.e /\ s \in Nat /\ e \in Nat /\ s # 0 /\ s <= e
    BY ONLY <1>1, i \in 1 .. n, n = Len(group), group \in Seq(SliceRange), r = group[i], s = group[i].s, e = group[i].e
  <2> PICK a, b, m : a = Cut(data, s - 1) /\ b = Cut(data, Upper(r, R)) /\ m = Upper(r, R)
    OBVIOUS
  <2>2. m \in Nat /\ m \in 0 .. R /\ m # 0 /\ m = (IF e < R THEN e ELSE R)
    BY ONLY <1>5, <2>1, m = Upper(r, R) DEF Upper
  <2>3. b \in 0 .. len + 1 /\ b # 0
    <3>1. 0 < m /\ 0 \in 0 .. R
      BY ONLY <1>5, <2>2
    <3>2. 0 < b
      BY ONLY <1>5, <2>2, <3>1, b = Cut(data, Upper(r, R)), m = Upper(r, R)
    <3> QED
      BY ONLY <1>5, <2>2, <3>2, b = Cut(data, Upper(r, R)), m = Upper(r, R)
  <2>4. SmallContent(data, r) = IF s <= R /\ a < len THEN SubSeq(data, a + 1, b - 1) ELSE <<>>
    BY ONLY <2>1, ContentIs, data \in Seq(E), a = Cut(data, s - 1), b = Cut(data, Upper(r, R)), R = Rows(data), len = Len(data)
  <2> PICK end : end = IF e >= R /\ st.ends[i] = NoOffset THEN len ELSE st.ends[i]
    OBVIOUS
  <2>5. end = b - 1
    <3>1. st.ends[i] = IF e < R THEN Cut(data, e) - 1 ELSE NoOffset
      BY ONLY <1>4, i \in 1 .. n, n = Len(group), e = group[i].e DEF SmallAt
    <3>2. CASE e < R
      <4>1. m = e /\ ~ (e >= R)
        BY ONLY <1>5, <2>1, <2>2, <3>2
      <4> QED
        BY ONLY <3>1, <3>2, <4>1, b = Cut(data, Upper(r, R)), m = Upper(r, R), end = IF e >= R /\ st.ends[i] = NoOffset THEN len ELSE st.ends[i]
    <3>3. CASE ~ (e < R)
      <4>1. m = R /\ e >= R
        BY ONLY <1>5, <2>1, <2>2, <3>3
      <4>2. end = len
        BY ONLY <3>1, <3>3, <4>1, end = IF e >= R /\ st.ends[i] = NoOffset THEN len ELSE st.ends[i]
      <4>3. b = len + 1
        BY ONLY <1>5, <4>1, b = Cut(data, Upper(r, R)), m = Upper(r, R)
      <4> QED
        BY ONLY <1>5, <4>2, <4>3
    <3> QED
      BY <3>2, <3>3
  <2>6. end # NoOffset
    BY ONLY <1>5, <1>6, <2>3, <2>5
  <2>7. st.starts[i] = IF s <= R THEN a ELSE NoOffset
    BY ONLY <1>4, i \in 1 .. n, n = Len(group), s = group[i].s, a = Cut(data, s - 1) DEF SmallAt
  <2>8. s <= R => a \in Nat /\ a # NoOffset
    <3> HAVE s <= R
    <3>1. s - 1 \in 0 .. R
      BY ONLY <1>5, <2>1, s <= R
    <3> QED
      BY ONLY <1>5, <1>6, <3>1, a = Cut(data, s - 1)
  <2>9. (IF st.starts[i] = NoOffset \/ end = NoOffset \/ st.starts[i] >= len THEN <<>> ELSE SubSeq(data, st.starts[i] + 1, end))
        = SmallContent(data, r)
    <3>1. CASE s <= R /\ a < len
      <4>1. st.starts[i] = a /\ ~ (a >= len) /\ a # NoOffset
        BY ONLY <1>5, <2>7, <2>8, <3>1
      <4> QED
        BY ONLY <2>4, <2>5, <2>6, <3>1, <4>1
    <3>2. CASE ~ (s <= R)
      BY ONLY <2>4, <2>7, <3>2
    <3>3. CASE s <= R /\ ~ (a < len)
      <4>1. st.starts[i] = a /\ a >= len
        BY ONLY <1>5, <2>7, <2>8, <3>3
      <4> QED
        BY ONLY <2>4, <3>3, <4>1
    <3> QED
      BY <3>1, <3>2, <3>3
  <2>10. st.line = R
    BY ONLY <1>4 DEF SmallAt
  <2> QED
    BY ONLY <2>9, <2>10, r = group[i], e = group[i].e, end = IF e >= R /\ st.ends[i] = NoOffset THEN len ELSE st.ends[i]
<1>8. SmallResult(data, group, st) = [i \in 1 .. n |-> SmallContent(data, group[i])]
  BY ONLY <1>1, <1>7, len = Len(data) DEF SmallResult
<1> QED
  BY ONLY <1>3, <1>8, n = Len(group), st = scan[Len(Newlines(data))]

-----------------------------------------------------------------------------
(***************************************************************************)
(* The large slicer: what it holds after p lines.                          *)
(***************************************************************************)
LargeState(n, E) ==
    [line : Int, next : 1 .. n + 1, active : 1 .. n + 1, lists : [1 .. n -> Seq(Seq(E))]]

LargeAt(texts, group, st, p) ==
    /\ st.line = p
    /\ \A i \in 1 .. Len(group) : i < st.next <=> group[i].s <= p
    /\ \A i \in 1 .. Len(group) : i < st.active => group[i].e <= p
    /\ \A i \in 1 .. Len(group) : st.lists[i] = SubSeq(texts, group[i].s, Upper(group[i], p))

\* The parts of what a line leaves behind.
NextRead(group, st) == Advance(st.next, Len(group), {i \in DOMAIN group : st.line + 1 >= group[i].s})

ActiveRead(group, st) == Advance(st.active, Len(group), {i \in DOMAIN group : st.line + 1 >= group[i].e})

ListsRead(group, st, text) ==
    [i \in DOMAIN group |->
        IF i \in st.active .. NextRead(group, st) - 1 /\ st.line + 1 <= group[i].e
        THEN Append(st.lists[i], text) ELSE st.lists[i]]

LEMMA LargeLineIs ==
  ASSUME NEW group, NEW st, NEW text
  PROVE  LargeLine(group, st, text) = [line |-> st.line + 1, next |-> NextRead(group, st),
                                       active |-> ActiveRead(group, st), lists |-> ListsRead(group, st, text)]
BY Zenon DEF LargeLine, NextRead, ActiveRead, ListsRead

LEMMA LargeTypes ==
  ASSUME NEW E, NEW group \in Seq(SliceRange), NEW st \in LargeState(Len(group), E), NEW text \in Seq(E)
  PROVE  LargeLine(group, st, text) \in LargeState(Len(group), E)
<1> PICK n, Q : n = Len(group) /\ Q = Seq(E)
  OBVIOUS
<1>1. n \in Nat /\ DOMAIN group = 1 .. n
  OBVIOUS
<1>2. /\ st.line \in Int /\ st.next \in 1 .. n + 1 /\ st.active \in 1 .. n + 1
      /\ st.lists \in [1 .. n -> Seq(Q)]
  BY ONLY st \in LargeState(Len(group), E), n = Len(group), Q = Seq(E) DEF LargeState
<1>3. NextRead(group, st) \in 1 .. n + 1
  <2> PICK S : S = {i \in DOMAIN group : st.line + 1 >= group[i].s}
    OBVIOUS
  <2>1. n + 1 \notin S
    BY ONLY <1>1, S = {i \in DOMAIN group : st.line + 1 >= group[i].s}
  <2> PICK a : a = st.next
    OBVIOUS
  <2> PICK k : k = Advance(a, n, S)
    OBVIOUS
  <2>2. a \in 1 .. n + 1
    BY ONLY <1>2, a = st.next
  <2>3. k \in a .. n + 1 /\ k \notin S /\ \A j \in a .. k - 1 : j \in S
    BY ONLY <1>1, <2>1, <2>2, AdvanceIs, k = Advance(a, n, S)
  <2>4. NextRead(group, st) = k
    BY ONLY n = Len(group), k = Advance(a, n, S), a = st.next, S = {i \in DOMAIN group : st.line + 1 >= group[i].s} DEF NextRead
  <2> QED
    BY ONLY <1>1, <2>2, <2>3, <2>4
<1>4. ActiveRead(group, st) \in 1 .. n + 1
  <2> PICK S : S = {i \in DOMAIN group : st.line + 1 >= group[i].e}
    OBVIOUS
  <2>1. n + 1 \notin S
    BY ONLY <1>1, S = {i \in DOMAIN group : st.line + 1 >= group[i].e}
  <2> PICK a : a = st.active
    OBVIOUS
  <2> PICK k : k = Advance(a, n, S)
    OBVIOUS
  <2>2. a \in 1 .. n + 1
    BY ONLY <1>2, a = st.active
  <2>3. k \in a .. n + 1 /\ k \notin S /\ \A j \in a .. k - 1 : j \in S
    BY ONLY <1>1, <2>1, <2>2, AdvanceIs, k = Advance(a, n, S)
  <2>4. ActiveRead(group, st) = k
    BY ONLY n = Len(group), k = Advance(a, n, S), a = st.active, S = {i \in DOMAIN group : st.line + 1 >= group[i].e} DEF ActiveRead
  <2> QED
    BY ONLY <1>1, <2>2, <2>3, <2>4
<1>5. ListsRead(group, st, text) \in [1 .. n -> Seq(Q)]
  <2>1. \A i \in 1 .. n : st.lists[i] \in Seq(Q) /\ Append(st.lists[i], text) \in Seq(Q)
    <3> TAKE i \in 1 .. n
    <3>1. st.lists[i] \in Seq(Q) /\ text \in Q
      BY ONLY <1>2, i \in 1 .. n, text \in Seq(E), Q = Seq(E)
    <3> QED
      BY ONLY <3>1
  <2> QED
    BY ONLY <1>1, <2>1 DEF ListsRead
<1>6. st.line + 1 \in Int
  BY ONLY <1>2
<1>7. LargeLine(group, st, text) \in LargeState(n, E)
  BY ONLY <1>3, <1>4, <1>5, <1>6, LargeLineIs, Q = Seq(E) DEF LargeState
<1> QED
  BY ONLY <1>7, n = Len(group)

LEMMA LargeStarts ==
  ASSUME NEW E, NEW texts \in Seq(Seq(E)), NEW group \in Seq(SliceRange), Ordered(group)
  PROVE  LargeStart(group) \in LargeState(Len(group), E) /\ LargeAt(texts, group, LargeStart(group), 0)
<1> PICK n, lists, Q, st : n = Len(group) /\ lists = [i \in 1 .. n |-> <<>>] /\ Q = Seq(E) /\ st = LargeStart(group)
  OBVIOUS
<1>1. /\ n \in Nat /\ DOMAIN group = 1 .. n
      /\ \A i \in 1 .. n : group[i].s \in Nat /\ group[i].e \in Nat /\ group[i].s # 0 /\ group[i].s <= group[i].e
  BY GroupIs
<1>2. st = [line |-> 0, next |-> 1, active |-> 1, lists |-> lists]
  BY ONLY <1>1, st = LargeStart(group), lists = [i \in 1 .. n |-> <<>>] DEF LargeStart
<1>3. lists \in [1 .. n -> Seq(Q)]
  <2>1. <<>> \in Seq(Q)
    OBVIOUS
  <2> QED
    BY ONLY <2>1, lists = [i \in 1 .. n |-> <<>>]
<1>4. st \in LargeState(n, E)
  <2>1. 0 \in Int /\ 1 \in 1 .. n + 1
    BY ONLY <1>1
  <2> QED
    BY ONLY <1>2, <1>3, <2>1, Q = Seq(E) DEF LargeState
<1>5. \A i \in 1 .. n : ~ (i < 1) /\ ~ (group[i].s <= 0)
  BY ONLY <1>1
<1>6. \A i \in 1 .. n : lists[i] = SubSeq(texts, group[i].s, Upper(group[i], 0))
  <2> TAKE i \in 1 .. n
  <2>1. Upper(group[i], 0) = 0
    BY ONLY <1>1, i \in 1 .. n DEF Upper
  <2>2. 0 \in Int /\ group[i].s \in Int /\ 0 < group[i].s
    BY ONLY <1>1, i \in 1 .. n
  <2>3. SubSeq(texts, group[i].s, 0) = <<>>
    BY ONLY <2>2, SubSeqEmpty
  <2> QED
    BY ONLY <2>1, <2>3, lists = [h \in 1 .. n |-> <<>>], i \in 1 .. n
<1>7. LargeAt(texts, group, st, 0)
  BY ONLY <1>2, <1>5, <1>6, n = Len(group) DEF LargeAt
<1> QED
  BY ONLY <1>4, <1>7, n = Len(group), st = LargeStart(group)

\* One more line at the end of a piece.
LEMMA PieceGrows ==
  ASSUME NEW Q, NEW texts \in Seq(Q), NEW s \in Nat, NEW l \in Nat, s # 0, s <= l, l <= Len(texts)
  PROVE  SubSeq(texts, s, l) = Append(SubSeq(texts, s, l - 1), texts[l])
<1>1. s \in 1 .. Len(texts) /\ l \in s .. Len(texts)
  OBVIOUS
<1>2. SubSeq(texts, s, l) = SubSeq(texts, s, l - 1) \o <<texts[l]>>
  BY <1>1, SubSeqRecursiveSecond
<1>3. SubSeq(texts, s, l - 1) \in Seq(Q)
  <2>1. s \in Int /\ l - 1 \in Int /\ \A i \in s .. l - 1 : texts[i] \in Q
    BY <1>1
  <2> QED
    BY ONLY <2>1, SubSeqProperties
<1> PICK t, x : t = SubSeq(texts, s, l - 1) /\ x = texts[l]
  OBVIOUS
<1>4. t \o <<x>> = Append(t, x)
  <2>1. t \in Seq(Q) /\ x \in Q
    BY <1>1, <1>3
  <2> QED
    BY ONLY <2>1
<1> QED
  BY ONLY <1>2, <1>4, t = SubSeq(texts, s, l - 1), x = texts[l]

LEMMA LargeStep ==
  ASSUME NEW E, NEW texts \in Seq(Seq(E)), NEW group \in Seq(SliceRange), Ordered(group),
         NEW l \in 1 .. Len(texts), NEW st \in LargeState(Len(group), E), LargeAt(texts, group, st, l - 1)
  PROVE  LargeAt(texts, group, LargeLine(group, st, texts[l]), l)
<1> PICK n, text, p : n = Len(group) /\ text = texts[l] /\ p = l - 1
  OBVIOUS
<1>1. /\ n \in Nat /\ DOMAIN group = 1 .. n
      /\ \A i \in 1 .. n : group[i].s \in Nat /\ group[i].e \in Nat /\ group[i].s # 0 /\ group[i].s <= group[i].e
      /\ \A i, j \in 1 .. n : i <= j => group[i].s <= group[j].s
  BY GroupIs
<1>2. l \in Nat /\ p \in Nat /\ p + 1 = l /\ l # 0 /\ l <= Len(texts)
  <2>1. Len(texts) \in Nat
    OBVIOUS
  <2> QED
    BY ONLY <2>1, l \in 1 .. Len(texts), p = l - 1
<1>3. st.next \in 1 .. n + 1 /\ st.active \in 1 .. n + 1
  BY ONLY st \in LargeState(Len(group), E), n = Len(group) DEF LargeState
<1>4. /\ st.line = p
      /\ \A i \in 1 .. n : i < st.next <=> group[i].s <= p
      /\ \A i \in 1 .. n : i < st.active => group[i].e <= p
      /\ \A i \in 1 .. n : st.lists[i] = SubSeq(texts, group[i].s, Upper(group[i], p))
  BY ONLY LargeAt(texts, group, st, l - 1), n = Len(group), p = l - 1 DEF LargeAt
<1> PICK nextRow, active, lists :
       nextRow = NextRead(group, st) /\ active = ActiveRead(group, st) /\ lists = ListsRead(group, st, text)
  OBVIOUS
<1>5. LargeLine(group, st, text) = [line |-> l, next |-> nextRow, active |-> active, lists |-> lists]
  BY ONLY <1>2, <1>4, LargeLineIs, nextRow = NextRead(group, st), active = ActiveRead(group, st), lists = ListsRead(group, st, text)
<1> PICK begun : begun = {i \in DOMAIN group : st.line + 1 >= group[i].s}
  OBVIOUS
<1>6. \A i : i \in begun <=> i \in 1 .. n /\ group[i].s <= l
  <2>1. \A i : i \in begun <=> i \in 1 .. n /\ l >= group[i].s
    BY ONLY <1>1, <1>2, <1>4, begun = {i \in DOMAIN group : st.line + 1 >= group[i].s}
  <2> QED
    BY ONLY <1>1, <1>2, <2>1
<1>7. nextRow \in st.next .. n + 1 /\ nextRow \notin begun /\ \A j \in st.next .. nextRow - 1 : j \in begun
  <2>1. n + 1 \notin begun
    BY ONLY <1>1, <1>6
  <2>2. nextRow = Advance(st.next, n, begun)
    BY ONLY nextRow = NextRead(group, st), n = Len(group), begun = {i \in DOMAIN group : st.line + 1 >= group[i].s} DEF NextRead
  <2> QED
    BY ONLY <1>1, <1>3, <2>1, <2>2, AdvanceIs
<1>8. nextRow \in 1 .. n + 1
  BY ONLY <1>1, <1>3, <1>7
<1>9. \A i \in 1 .. n : i < nextRow <=> group[i].s <= l
  <2> TAKE i \in 1 .. n
  <2>0. group[i].s \in Nat /\ i \in Nat
    BY ONLY <1>1, i \in 1 .. n
  <2>1. CASE i < st.next
    <3>1. group[i].s <= p /\ i < nextRow
      BY ONLY <1>1, <1>3, <1>4, <1>7, <2>1, i \in 1 .. n
    <3> QED
      BY ONLY <1>2, <2>0, <3>1
  <2>2. CASE st.next <= i /\ i < nextRow
    <3>1. i \in st.next .. nextRow - 1
      BY ONLY <1>3, <1>8, <2>0, <2>2
    <3>2. group[i].s <= l
      BY ONLY <1>6, <1>7, <3>1
    <3> QED
      BY ONLY <2>2, <3>2
  <2>3. CASE nextRow <= i
    <3>1. nextRow \in 1 .. n /\ ~ (i < nextRow)
      BY ONLY <1>1, <1>8, <2>3, i \in 1 .. n
    <3>2. ~ (group[nextRow].s <= l)
      BY ONLY <1>6, <1>7, <3>1
    <3>3. group[nextRow].s <= group[i].s /\ group[nextRow].s \in Nat
      BY ONLY <1>1, <2>3, <3>1, i \in 1 .. n
    <3> QED
      BY ONLY <1>2, <2>0, <3>1, <3>2, <3>3
  <2> QED
    BY ONLY <1>3, <1>8, <2>0, <2>1, <2>2, <2>3
<1>10. \A i \in 1 .. n : i < active => group[i].e <= l
  <2> PICK S : S = {i \in DOMAIN group : st.line + 1 >= group[i].e}
    OBVIOUS
  <2>1. \A i : i \in S <=> i \in 1 .. n /\ l >= group[i].e
    BY ONLY <1>1, <1>2, <1>4, S = {i \in DOMAIN group : st.line + 1 >= group[i].e}
  <2>2. n + 1 \notin S
    BY ONLY <1>1, <2>1
  <2>3. active = Advance(st.active, n, S)
    BY ONLY active = ActiveRead(group, st), n = Len(group), S = {i \in DOMAIN group : st.line + 1 >= group[i].e} DEF ActiveRead
  <2>4. active \in st.active .. n + 1 /\ active \notin S /\ \A j \in st.active .. active - 1 : j \in S
    BY ONLY <1>1, <1>3, <2>2, <2>3, AdvanceIs
  <2> TAKE i \in 1 .. n
  <2> HAVE i < active
  <2>5. CASE i < st.active
    <3>1. group[i].e <= p /\ group[i].e \in Nat
      BY ONLY <1>1, <1>4, <2>5, i \in 1 .. n
    <3> QED
      BY ONLY <1>2, <3>1
  <2>6. CASE ~ (i < st.active)
    <3>1. i \in st.active .. active - 1
      BY ONLY <1>1, <1>3, <2>4, <2>6, i \in 1 .. n, i < active
    <3>2. l >= group[i].e /\ group[i].e \in Nat
      BY ONLY <1>1, <2>1, <2>4, <3>1, i \in 1 .. n
    <3> QED
      BY ONLY <1>2, <3>2
  <2> QED
    BY <2>5, <2>6
<1>11. \A i \in 1 .. n : lists[i] = SubSeq(texts, group[i].s, Upper(group[i], l))
  <2> TAKE i \in 1 .. n
  <2> PICK s, e : s = group[i].s /\ e = group[i].e
    OBVIOUS
  <2>0. s \in Nat /\ e \in Nat /\ i \in Nat /\ s # 0 /\ s <= e
    BY ONLY <1>1, i \in 1 .. n, s = group[i].s, e = group[i].e
  <2>1. lists[i] = IF i \in st.active .. nextRow - 1 /\ l <= e THEN Append(st.lists[i], text) ELSE st.lists[i]
    BY ONLY <1>1, <1>2, <1>4, lists = ListsRead(group, st, text), nextRow = NextRead(group, st), i \in 1 .. n, e = group[i].e DEF ListsRead
  <2> PICK u, v : u = Upper(group[i], p) /\ v = Upper(group[i], l)
    OBVIOUS
  <2>2. u = (IF e < p THEN e ELSE p) /\ v = (IF e < l THEN e ELSE l)
    BY ONLY u = Upper(group[i], p), v = Upper(group[i], l), e = group[i].e DEF Upper
  <2>3. st.lists[i] = SubSeq(texts, s, u)
    BY ONLY <1>4, i \in 1 .. n, s = group[i].s, u = Upper(group[i], p)
  <2>4. CASE s <= l /\ l <= e
    <3>1. u = l - 1 /\ v = l
      BY ONLY <1>2, <2>0, <2>2, <2>4
    <3>2. i < nextRow
      BY ONLY <1>9, <2>4, i \in 1 .. n, s = group[i].s
    <3>3. ~ (i < st.active)
      BY ONLY <1>1, <1>2, <1>4, <2>0, <2>4, i \in 1 .. n, e = group[i].e
    <3>4. i \in st.active .. nextRow - 1
      BY ONLY <1>3, <1>8, <2>0, <3>2, <3>3
    <3>5. lists[i] = Append(SubSeq(texts, s, l - 1), text)
      BY ONLY <2>1, <2>3, <2>4, <3>1, <3>4
    <3> PICK Q : Q = Seq(E)
      OBVIOUS
    <3>6. texts \in Seq(Q)
      BY ONLY texts \in Seq(Seq(E)), Q = Seq(E)
    <3>7. SubSeq(texts, s, l) = Append(SubSeq(texts, s, l - 1), texts[l])
      BY ONLY <1>2, <2>0, <2>4, <3>6, PieceGrows
    <3> QED
      BY ONLY <3>1, <3>5, <3>7, text = texts[l], s = group[i].s, v = Upper(group[i], l)
  <2>5. CASE ~ (l <= e)
    <3>1. u = v
      BY ONLY <1>2, <2>0, <2>2, <2>5
    <3> QED
      BY ONLY <2>1, <2>3, <2>5, <3>1, s = group[i].s, v = Upper(group[i], l)
  <2>6. CASE ~ (s <= l)
    <3>1. u < s /\ v < s /\ u \in Int /\ v \in Int /\ s \in Int
      BY ONLY <1>2, <2>0, <2>2, <2>6
    <3>2. SubSeq(texts, s, u) = <<>> /\ SubSeq(texts, s, v) = <<>>
      BY ONLY <3>1, SubSeqEmpty
    <3>3. ~ (i < nextRow)
      BY ONLY <1>9, <2>6, i \in 1 .. n, s = group[i].s
    <3>4. i \notin st.active .. nextRow - 1
      BY ONLY <1>3, <1>8, <2>0, <3>3
    <3> QED
      BY ONLY <2>1, <2>3, <3>2, <3>4, s = group[i].s, v = Upper(group[i], l)
  <2> QED
    BY <2>4, <2>5, <2>6
<1>12. LargeAt(texts, group, LargeLine(group, st, text), l)
  BY ONLY <1>5, <1>9, <1>10, <1>11, n = Len(group) DEF LargeAt
<1> QED
  BY ONLY <1>12, text = texts[l]

LEMMA TrimTypes ==
  ASSUME NEW F, NEW line \in Seq(F)
  PROVE  TrimCR(line) \in Seq(F) /\ TrimEOL(line) \in Seq(F)
<1>1. \A t \in Seq(F) : t # <<>> => Front(t) \in Seq(F)
  <2> TAKE t \in Seq(F)
  <2> HAVE t # <<>>
  <2>1. Front(t) = SubSeq(t, 1, Len(t) - 1)
    BY DEF Front
  <2>2. 1 \in Int /\ Len(t) - 1 \in Int /\ \A i \in 1 .. Len(t) - 1 : t[i] \in F
    OBVIOUS
  <2>3. SubSeq(t, 1, Len(t) - 1) \in Seq(F)
    BY ONLY <2>2, SubSeqProperties
  <2> QED
    BY <2>1, <2>3
<1>2. \A t \in Seq(F) : TrimCR(t) \in Seq(F)
  BY ONLY <1>1 DEF TrimCR
<1>3. TrimEOL(line) \in Seq(F)
  BY ONLY <1>1, <1>2, line \in Seq(F) DEF TrimEOL
<1> QED
  BY <1>2, <1>3

LEMMA RawTypes ==
  ASSUME NEW E, NEW data \in Seq(E), NEW k \in 1 .. Rows(data)
  PROVE  Raw(data, k) \in Seq(E \cup {NL})
<1> PICK F, t : F = E \cup {NL} /\ t = LineText(data, k)
  OBVIOUS
<1>1. t \in Seq(E)
  BY LinesAre
<1>2. t \in Seq(F) /\ NL \in F
  BY ONLY <1>1, F = E \cup {NL}
<1>3. t \o <<NL>> \in Seq(F)
  <2> HIDE DEF NL
  <2>1. <<NL>> \in Seq(F)
    BY ONLY <1>2
  <2> QED
    BY ONLY <1>2, <2>1
<1> QED
  BY ONLY <1>2, <1>3, F = E \cup {NL}, t = LineText(data, k) DEF Raw

\* The reads are the lines of the reader as long as they fit its buffer.
LEMMA ReadsAre ==
  ASSUME NEW E, NEW data \in Seq(E)
  PROVE  /\ Reads(data) \in Seq(Seq(E \cup {NL})) /\ Len(Reads(data)) \in 0 .. RawLength(data)
         /\ \A e \in Nat :
               (\A k \in 1 .. RawLength(data) : k <= e => Len(Raw(data, k)) <= BufferSize)
                 => \A k \in 1 .. RawLength(data) : k <= e => k <= Len(Reads(data)) /\ Reads(data)[k] = Raw(data, k)
<1> PICK R, q, Q, raw : R = Rows(data) /\ q = RawLength(data) /\ Q = Seq(E \cup {NL}) /\ raw = RawLines(data)
  OBVIOUS
<1>1. R \in Nat /\ q \in 0 .. R /\ q \in Nat /\ raw = [k \in 1 .. q |-> Raw(data, k)]
  <2>1. R \in Nat
    BY CutsAre
  <2>2. q \in 0 .. R /\ raw = [k \in 1 .. q |-> Raw(data, k)]
    BY RawLinesAre
  <2> QED
    BY ONLY <2>1, <2>2
<1>2. \A k \in 1 .. q : Raw(data, k) \in Q
  <2> TAKE k \in 1 .. q
  <2>1. k \in 1 .. Rows(data)
    BY ONLY <1>1, R = Rows(data), k \in 1 .. q
  <2> QED
    BY <2>1, RawTypes
<1>3. raw \in Seq(Q) /\ Len(raw) = q /\ DOMAIN raw = 1 .. q /\ \A k \in 1 .. q : raw[k] = Raw(data, k)
  BY ONLY <1>1, <1>2
<1> PICK long, stop : long = {k \in DOMAIN raw : Len(raw[k]) > BufferSize} /\ stop = Min(long)
  OBVIOUS
<1>4. \A k : k \in long <=> k \in 1 .. q /\ Len(raw[k]) > BufferSize
  BY ONLY <1>3, long = {k \in DOMAIN raw : Len(raw[k]) > BufferSize}
<1> PICK piece, pre : piece = SubSeq(raw[stop], 1, BufferSize) /\ pre = SubSeq(raw, 1, stop - 1)
  OBVIOUS
<1>5. Reads(data) = IF long = {} THEN raw ELSE pre \o <<piece>>
  BY ONLY raw = RawLines(data), long = {k \in DOMAIN raw : Len(raw[k]) > BufferSize}, stop = Min(long),
          piece = SubSeq(raw[stop], 1, BufferSize), pre = SubSeq(raw, 1, stop - 1) DEF Reads
<1>6. CASE long = {}
  <2>1. Reads(data) = raw
    BY ONLY <1>5, <1>6
  <2>2. Len(raw) \in 0 .. q
    BY ONLY <1>1, <1>3
  <2>3. \A k \in 1 .. q : k <= Len(raw)
    BY ONLY <1>1, <1>3
  <2> QED
    BY ONLY <1>3, <2>1, <2>2, <2>3, q = RawLength(data), Q = Seq(E \cup {NL})
<1>7. CASE long # {}
  <2>1. stop \in long
    <3>1. \A k \in long : k \in 1 .. q
      BY ONLY Zenon, <1>4
    <3>2. long \subseteq Nat
      BY ONLY <1>1, <3>1
    <3> QED
      BY ONLY <1>7, <3>2, MinIsLeast, stop = Min(long)
  <2>2. stop \in 1 .. q /\ Len(raw[stop]) > BufferSize /\ stop \in Nat /\ stop <= q /\ stop # 0
    <3>1. stop \in 1 .. q /\ Len(raw[stop]) > BufferSize
      BY ONLY <1>4, <2>1
    <3> QED
      BY ONLY <1>1, <3>1
  <2>3. BufferSize \in Nat
    BY SlicerAssumption
  <2>4. raw[stop] \in Seq(E \cup {NL})
    BY ONLY <1>2, <1>3, <2>2, Q = Seq(E \cup {NL})
  <2>5. piece \in Q
    <3> PICK long_line : long_line = raw[stop]
      OBVIOUS
    <3>1. 1 \in Int /\ BufferSize \in Int /\ \A i \in 1 .. BufferSize : long_line[i] \in E \cup {NL}
      BY ONLY <2>2, <2>3, <2>4, long_line = raw[stop]
    <3>2. SubSeq(long_line, 1, BufferSize) \in Seq(E \cup {NL})
      BY ONLY <3>1, SubSeqProperties
    <3> QED
      BY ONLY <3>2, piece = SubSeq(raw[stop], 1, BufferSize), long_line = raw[stop], Q = Seq(E \cup {NL})
  <2>6. pre \in Seq(Q) /\ Len(pre) = stop - 1 /\ \A k \in 1 .. stop - 1 : pre[k] = raw[k]
    BY ONLY <1>1, <1>3, <2>2, pre = SubSeq(raw, 1, stop - 1)
  <2> PICK reads : reads = Append(pre, piece)
    OBVIOUS
  <2>7. reads \in Seq(Q) /\ Len(reads) = stop /\ \A k \in 1 .. stop - 1 : reads[k] = raw[k]
    BY ONLY <2>2, <2>5, <2>6, reads = Append(pre, piece)
  <2>8. Reads(data) = reads
    <3>1. pre \o <<piece>> = Append(pre, piece)
      BY ONLY <2>5, <2>6
    <3> QED
      BY ONLY <1>5, <1>7, <3>1, reads = Append(pre, piece)
  <2>9. Len(reads) \in 0 .. q
    BY ONLY <1>1, <2>2, <2>7
  <2>10. ASSUME NEW e \in Nat, \A k \in 1 .. q : k <= e => Len(Raw(data, k)) <= BufferSize, NEW k \in 1 .. q, k <= e
         PROVE  k <= Len(reads) /\ reads[k] = Raw(data, k)
    <3>1. ~ (stop <= e)
      <4> SUFFICES ASSUME stop <= e PROVE FALSE
        OBVIOUS
      <4>1. Len(Raw(data, stop)) <= BufferSize /\ Raw(data, stop) = raw[stop]
        BY ONLY <1>3, <2>2, <2>10, stop <= e
      <4>2. Len(raw[stop]) \in Nat
        BY ONLY <2>4
      <4> QED
        BY ONLY <2>2, <2>3, <4>1, <4>2
    <3>2. k \in 1 .. stop - 1 /\ k <= stop
      BY ONLY <1>1, <2>2, <2>10, <3>1
    <3> QED
      BY ONLY <1>3, <2>7, <2>10, <3>2
  <2> QED
    BY ONLY <2>7, <2>8, <2>9, <2>10, q = RawLength(data), Q = Seq(E \cup {NL})
<1> QED
  BY <1>6, <1>7

LastRow(group) == Max({group[i].e : i \in DOMAIN group})

LEMMA LastRowIs ==
  ASSUME NEW group \in Seq(SliceRange), Ordered(group), NEW h \in 1 .. Len(group)
  PROVE  LastRow(group) \in Nat /\ \A i \in 1 .. Len(group) : group[i].e <= LastRow(group)
<1> PICK n, S : n = Len(group) /\ S = {group[i].e : i \in DOMAIN group}
  OBVIOUS
<1>1. n \in Nat /\ DOMAIN group = 1 .. n /\ \A i \in 1 .. n : group[i].e \in Nat
  BY GroupIs
<1>2. S = {group[i].e : i \in 1 .. n}
  BY ONLY <1>1, S = {group[i].e : i \in DOMAIN group}
<1> PICK K : K = {k \in 0 .. n : \E b \in Nat : \A i \in 1 .. k : group[i].e <= b}
  OBVIOUS
<1>3. 0 \in K
  <2>1. 0 \in Nat /\ \A i \in 1 .. 0 : group[i].e <= 0
    OBVIOUS
  <2> QED
    BY ONLY <1>1, <2>1, K = {k \in 0 .. n : \E b \in Nat : \A i \in 1 .. k : group[i].e <= b}
<1>4. ASSUME NEW k \in 0 .. n - 1, k \in K PROVE k + 1 \in K
  <2>1. PICK b \in Nat : \A i \in 1 .. k : group[i].e <= b
    BY ONLY <1>4, K = {j \in 0 .. n : \E b \in Nat : \A i \in 1 .. j : group[i].e <= b}
  <2> PICK l, x, c : l = k + 1 /\ x = group[k + 1].e /\ c = IF group[k + 1].e < b THEN b ELSE group[k + 1].e
    OBVIOUS
  <2>2. l \in 1 .. n /\ l \in 0 .. n /\ \A i \in 1 .. l : i \in 1 .. k \/ i = l
    BY ONLY <1>1, k \in 0 .. n - 1, l = k + 1
  <2>3. x \in Nat
    BY ONLY <1>1, <2>2, l = k + 1, x = group[k + 1].e
  <2>4. c \in Nat /\ b <= c /\ x <= c
    BY ONLY <2>1, <2>3, x = group[k + 1].e, c = IF group[k + 1].e < b THEN b ELSE group[k + 1].e
  <2>5. \A i \in 1 .. l : group[i].e <= c
    <3> TAKE i \in 1 .. l
    <3>1. CASE i = l
      BY ONLY <2>4, <3>1, l = k + 1, x = group[k + 1].e
    <3>2. CASE i \in 1 .. k
      <4>1. i \in 1 .. n /\ group[i].e <= b
        BY ONLY <1>1, <2>1, <3>2, k \in 0 .. n - 1
      <4>2. group[i].e \in Nat
        BY ONLY <1>1, <4>1
      <4> QED
        BY ONLY <2>1, <2>4, <4>1, <4>2
    <3> QED
      BY <2>2, <3>1, <3>2
  <2> QED
    BY ONLY <2>2, <2>4, <2>5, l = k + 1, K = {j \in 0 .. n : \E d \in Nat : \A i \in 1 .. j : group[i].e <= d}
<1>5. \A k \in 0 .. n : k \in K
  BY ONLY <1>1, <1>3, <1>4, UpTo
<1>6. PICK b \in Nat : \A i \in 1 .. n : group[i].e <= b
  <2>1. n \in K
    BY ONLY <1>1, <1>5
  <2> QED
    BY ONLY <2>1, K = {k \in 0 .. n : \E b \in Nat : \A i \in 1 .. k : group[i].e <= b}
<1>7. S \subseteq 0 .. b /\ S # {} /\ \A i \in 1 .. n : group[i].e \in S
  <2>1. h \in 1 .. n
    BY ONLY h \in 1 .. Len(group), n = Len(group)
  <2>2. \A i \in 1 .. n : group[i].e \in S
    BY ONLY <1>2
  <2>3. \A y \in S : \E i \in 1 .. n : y = group[i].e
    BY ONLY <1>2
  <2>4. \A i \in 1 .. n : group[i].e \in 0 .. b
    BY ONLY <1>1, <1>6
  <2> QED
    BY ONLY <2>1, <2>2, <2>3, <2>4
<1> PICK m : m = Max(S)
  OBVIOUS
<1>8. m \in S /\ \A y \in S : y <= m
  BY ONLY <1>6, <1>7, GreatestIn, m = Max(S)
<1>9. m \in Nat /\ \A i \in 1 .. n : group[i].e <= m
  <2>1. m \in 0 .. b
    BY ONLY Zenon, <1>7, <1>8
  <2>2. \A i \in 1 .. n : group[i].e <= m
    BY ONLY Zenon, <1>7, <1>8
  <2> QED
    BY ONLY <1>6, <2>1, <2>2
<1>10. LastRow(group) = m
  BY DEF LastRow
<1> QED
  BY ONLY <1>9, <1>10, n = Len(group)

\* The lines the large slicer reads, and their texts.
Consumed(data, group) ==
    SubSeq(Reads(data), 1, IF LastRow(group) < Len(Reads(data)) THEN LastRow(group) ELSE Len(Reads(data)))

ReadTexts(consumed) == [k \in 1 .. Len(consumed) |-> TrimEOL(consumed[k])]

LargeScan(scan, consumed, group) ==
    scan = [k \in 0 .. Len(consumed) |->
              IF k = 0 THEN LargeStart(group) ELSE LargeLine(group, scan[k - 1], TrimEOL(consumed[k]))]

LEMMA LargeScanExists ==
  ASSUME NEW F, NEW consumed \in Seq(Seq(F)), NEW group \in Seq(SliceRange), Ordered(group)
  PROVE  \E scan : LargeScan(scan, consumed, group)
<1> PICK m, Q : m = Len(consumed) /\ Q = LargeState(Len(group), F)
  OBVIOUS
<1> PICK g : g = [k \in 1 .. m |-> [st \in Q |-> LargeLine(group, st, TrimEOL(consumed[k]))]]
  OBVIOUS
<1>1. m \in Nat /\ \A k \in 1 .. m : TrimEOL(consumed[k]) \in Seq(F)
  <2>1. m \in Nat /\ \A k \in 1 .. m : consumed[k] \in Seq(F)
    <3> PICK T : T = Seq(F)
      OBVIOUS
    <3>1. consumed \in Seq(T)
      BY ONLY consumed \in Seq(Seq(F)), T = Seq(F)
    <3>2. m \in Nat /\ \A k \in 1 .. m : consumed[k] \in T
      BY ONLY <3>1, m = Len(consumed)
    <3> QED
      BY ONLY <3>2, T = Seq(F)
  <2> QED
    BY ONLY <2>1, TrimTypes
<1>2. LargeStart(group) \in Q
  <2>1. <<>> \in Seq(Seq(F))
    OBVIOUS
  <2> QED
    BY <2>1, LargeStarts
<1>3. \A k \in 1 .. m, st \in Q : LargeLine(group, st, TrimEOL(consumed[k])) \in Q
  <2> TAKE k \in 1 .. m, st \in Q
  <2>1. st \in LargeState(Len(group), F) /\ TrimEOL(consumed[k]) \in Seq(F)
    BY ONLY <1>1, Q = LargeState(Len(group), F), st \in Q, k \in 1 .. m
  <2>2. LargeLine(group, st, TrimEOL(consumed[k])) \in LargeState(Len(group), F)
    BY ONLY <2>1, LargeTypes, group \in Seq(SliceRange)
  <2> QED
    BY ONLY <2>2, Q = LargeState(Len(group), F)
<1>4. Rounds(g, m, Q)
  BY ONLY <1>3, g = [k \in 1 .. m |-> [st \in Q |-> LargeLine(group, st, TrimEOL(consumed[k]))]] DEF Rounds
<1>5. PICK f : IsLoop(f, m, Q, LargeStart(group), g)
  BY ONLY <1>1, <1>2, <1>4, LoopExists
<1>6. ASSUME NEW k \in 0 .. m
      PROVE  f[k] = IF k = 0 THEN LargeStart(group) ELSE LargeLine(group, f[k - 1], TrimEOL(consumed[k]))
  <2>1. k # 0 => k \in 1 .. m /\ k - 1 \in 0 .. m
    BY ONLY <1>1, k \in 0 .. m
  <2>2. k # 0 => f[k - 1] \in Q
    BY ONLY <1>5, <2>1 DEF IsLoop
  <2>3. k # 0 => g[k][f[k - 1]] = LargeLine(group, f[k - 1], TrimEOL(consumed[k]))
    BY ONLY <2>1, <2>2, g = [x \in 1 .. m |-> [st \in Q |-> LargeLine(group, st, TrimEOL(consumed[x]))]]
  <2>4. f[k] = IF k = 0 THEN LargeStart(group) ELSE g[k][f[k - 1]]
    BY ONLY <1>5, k \in 0 .. m DEF IsLoop
  <2> QED
    BY ONLY <2>3, <2>4
<1>7. f = [k \in 0 .. m |-> f[k]]
  BY ONLY <1>5 DEF IsLoop
<1>8. f = [k \in 0 .. m |-> IF k = 0 THEN LargeStart(group) ELSE LargeLine(group, f[k - 1], TrimEOL(consumed[k]))]
  BY ONLY <1>6, <1>7
<1> QED
  BY ONLY <1>8, m = Len(consumed) DEF LargeScan

LEMMA SliceLargeIs ==
  ASSUME NEW data, NEW group, \E scan : LargeScan(scan, Consumed(data, group), group)
  PROVE  \E scan : /\ LargeScan(scan, Consumed(data, group), group)
                   /\ SliceLarge(data, group) =
                        [i \in DOMAIN group |-> JoinLines(scan[Len(Consumed(data, group))].lists[i])]
<1> DEFINE scan == CHOOSE scan : scan = [k \in 0 .. Len(Consumed(data, group)) |->
              IF k = 0 THEN LargeStart(group)
              ELSE LargeLine(group, scan[k - 1], TrimEOL(Consumed(data, group)[k]))]
<1>1. LargeScan(scan, Consumed(data, group), group)
  BY DEF LargeScan
<1>2. SliceLarge(data, group) = [i \in DOMAIN group |-> JoinLines(scan[Len(Consumed(data, group))].lists[i])]
  BY DEF SliceLarge, Consumed, LastRow
<1> HIDE DEF scan
<1> QED
  BY ONLY <1>1, <1>2

LEMMA LargeLastState ==
  ASSUME NEW F, NEW consumed \in Seq(Seq(F)), NEW group \in Seq(SliceRange), Ordered(group), NEW scan, LargeScan(scan, consumed, group)
  PROVE  LargeAt(ReadTexts(consumed), group, scan[Len(consumed)], Len(consumed))
<1> PICK m, Q, texts : m = Len(consumed) /\ Q = LargeState(Len(group), F) /\ texts = ReadTexts(consumed)
  OBVIOUS
<1>1. m \in Nat /\ \A k \in 1 .. m : TrimEOL(consumed[k]) \in Seq(F)
  <2>1. m \in Nat /\ \A k \in 1 .. m : consumed[k] \in Seq(F)
    <3> PICK T : T = Seq(F)
      OBVIOUS
    <3>1. consumed \in Seq(T)
      BY ONLY consumed \in Seq(Seq(F)), T = Seq(F)
    <3>2. m \in Nat /\ \A k \in 1 .. m : consumed[k] \in T
      BY ONLY <3>1, m = Len(consumed)
    <3> QED
      BY ONLY <3>2, T = Seq(F)
  <2> QED
    BY ONLY <2>1, TrimTypes
<1>2. texts \in Seq(Seq(F)) /\ Len(texts) = m /\ \A k \in 1 .. m : texts[k] = TrimEOL(consumed[k])
  <2>1. texts = [k \in 1 .. m |-> TrimEOL(consumed[k])]
    BY ONLY texts = ReadTexts(consumed), m = Len(consumed) DEF ReadTexts
  <2> PICK T : T = Seq(F)
    OBVIOUS
  <2>2. \A k \in 1 .. m : TrimEOL(consumed[k]) \in T
    BY ONLY <1>1, T = Seq(F)
  <2>3. texts \in Seq(T) /\ Len(texts) = m /\ \A k \in 1 .. m : texts[k] = TrimEOL(consumed[k])
    BY ONLY <1>1, <2>1, <2>2
  <2> QED
    BY ONLY <2>3, T = Seq(F)
<1>3. \A k \in 0 .. m : scan[k] = IF k = 0 THEN LargeStart(group) ELSE LargeLine(group, scan[k - 1], TrimEOL(consumed[k]))
  BY ONLY LargeScan(scan, consumed, group), m = Len(consumed) DEF LargeScan
<1> PICK K : K = {k \in 0 .. m : scan[k] \in Q /\ LargeAt(texts, group, scan[k], k)}
  OBVIOUS
<1>4. 0 \in K
  <2>1. 0 \in 0 .. m
    BY ONLY <1>1
  <2>2. scan[0] = LargeStart(group)
    BY ONLY <1>3, <2>1
  <2>3. LargeStart(group) \in Q /\ LargeAt(texts, group, LargeStart(group), 0)
    BY <1>2, LargeStarts
  <2> QED
    BY ONLY <2>1, <2>2, <2>3, K = {k \in 0 .. m : scan[k] \in Q /\ LargeAt(texts, group, scan[k], k)}
<1>5. ASSUME NEW k \in 0 .. m - 1, k \in K PROVE k + 1 \in K
  <2> PICK l, st : l = k + 1 /\ st = scan[k]
    OBVIOUS
  <2>1. l \in 0 .. m /\ l \in 1 .. m /\ l # 0 /\ l - 1 = k /\ l \in 1 .. Len(texts)
    BY ONLY <1>1, <1>2, k \in 0 .. m - 1, l = k + 1
  <2>2. st \in LargeState(Len(group), F) /\ LargeAt(texts, group, st, l - 1)
    BY ONLY <1>5, <2>1, st = scan[k], Q = LargeState(Len(group), F),
            K = {h \in 0 .. m : scan[h] \in Q /\ LargeAt(texts, group, scan[h], h)}
  <2>3. scan[l] = LargeLine(group, st, texts[l]) /\ texts[l] \in Seq(F)
    BY ONLY <1>1, <1>2, <1>3, <2>1, st = scan[k]
  <2>4. LargeLine(group, st, texts[l]) \in Q
    BY <2>2, <2>3, LargeTypes
  <2>5. LargeAt(texts, group, LargeLine(group, st, texts[l]), l)
    BY <1>2, <2>1, <2>2, LargeStep
  <2>6. scan[l] \in Q /\ LargeAt(texts, group, scan[l], l)
    BY ONLY <2>3, <2>4, <2>5
  <2> QED
    BY ONLY <2>1, <2>6, l = k + 1, K = {h \in 0 .. m : scan[h] \in Q /\ LargeAt(texts, group, scan[h], h)}
<1>6. \A k \in 0 .. m : k \in K
  BY ONLY <1>1, <1>4, <1>5, UpTo
<1>7. m \in K
  BY ONLY <1>1, <1>6
<1> QED
  BY ONLY <1>7, m = Len(consumed), texts = ReadTexts(consumed), K = {h \in 0 .. m : scan[h] \in Q /\ LargeAt(texts, group, scan[h], h)}

\* From s to m two sequences have the same elements.
Agree(t, u, s, m, Q) == \A k \in s .. m : t[k] \in Q /\ u[k] = t[k]

SamePieces(t, u, s, m) == SubSeq(t, s, m) = SubSeq(u, s, m)

LEMMA SamePiece ==
  ASSUME NEW Q, NEW t, NEW u, NEW s \in Nat, NEW m \in Nat, Agree(t, u, s, m, Q)
  PROVE  SamePieces(t, u, s, m)
<1>0. \A k \in s .. m : t[k] \in Q /\ u[k] = t[k]
  BY DEF Agree
<1> PICK a, b : a = SubSeq(t, s, m) /\ b = SubSeq(u, s, m)
  OBVIOUS
<1>1. s \in Int /\ m \in Int /\ (\A i \in s .. m : t[i] \in Q) /\ (\A i \in s .. m : u[i] \in Q)
  BY <1>0
<1>2. a \in Seq(Q) /\ Len(a) = (IF s <= m THEN m - s + 1 ELSE 0) /\ \A i \in 1 .. m - s + 1 : a[i] = t[s + i - 1]
  BY ONLY <1>1, SubSeqProperties, a = SubSeq(t, s, m)
<1>3. b \in Seq(Q) /\ Len(b) = (IF s <= m THEN m - s + 1 ELSE 0) /\ \A i \in 1 .. m - s + 1 : b[i] = u[s + i - 1]
  BY ONLY <1>1, SubSeqProperties, b = SubSeq(u, s, m)
<1>4. \A i \in 1 .. Len(a) : a[i] = b[i]
  <2> TAKE i \in 1 .. Len(a)
  <2>1. i \in 1 .. m - s + 1 /\ s + i - 1 \in s .. m
    BY ONLY <1>1, <1>2, i \in 1 .. Len(a)
  <2> QED
    BY <1>0, <1>2, <1>3, <2>1
<1>5. a = b
  BY ONLY <1>2, <1>3, <1>4, SeqEqual
<1> QED
  BY ONLY <1>5, a = SubSeq(t, s, m), b = SubSeq(u, s, m) DEF SamePieces

LEMMA LargeContentIs ==
  ASSUME NEW E, NEW data \in Seq(E), NEW r
  PROVE  LargeContent(data, r) =
            JoinLines(SubSeq([k \in 1 .. RawLength(data) |-> TrimCR(LineText(data, k))], r.s, Upper(r, RawLength(data))))
<1> PICK R, q, lines : R = Rows(data) /\ q = RawLength(data) /\ lines = Lines(data)
  OBVIOUS
<1>1. R \in Nat /\ R # 0 /\ q \in 0 .. R
  <2>1. R \in Nat /\ R # 0
    BY CutsAre
  <2>2. q \in 0 .. R
    BY RawLinesAre
  <2> QED
    BY <2>1, <2>2
<1>2. lines \in Seq(Seq(E)) /\ Len(lines) = R /\ \A k \in 1 .. R : lines[k] = LineText(data, k)
  BY LinesAre
<1>3. (IF Last(lines) = <<>> THEN Len(lines) - 1 ELSE Len(lines)) = q
  <2>1. R \in 1 .. R
    BY ONLY <1>1
  <2>2. Last(lines) = LineText(data, R)
    BY ONLY <1>2, <2>1 DEF Last
  <2> QED
    BY ONLY <1>2, <2>2, q = RawLength(data), R = Rows(data) DEF RawLength
<1> PICK clean : clean = [k \in 1 .. q |-> TrimCR(LineText(data, k))]
  OBVIOUS
<1>4. clean = [k \in 1 .. q |-> TrimCR(lines[k])]
  <2>1. \A k \in 1 .. q : lines[k] = LineText(data, k)
    BY ONLY <1>1, <1>2
  <2> QED
    BY ONLY <2>1, clean = [k \in 1 .. q |-> TrimCR(LineText(data, k))]
<1>5. Len(clean) = q
  BY ONLY <1>1, clean = [k \in 1 .. q |-> TrimCR(LineText(data, k))]
<1>6. LargeContent(data, r) = JoinLines(LinesOf(clean, r))
  BY ONLY <1>3, <1>4, lines = Lines(data) DEF LargeContent
<1>7. LinesOf(clean, r) = SubSeq(clean, r.s, Upper(r, q))
  BY ONLY <1>5 DEF LinesOf, Upper
<1> QED
  BY ONLY <1>6, <1>7, q = RawLength(data), clean = [k \in 1 .. q |-> TrimCR(LineText(data, k))]

LEMMA ConsumedIs ==
  ASSUME NEW E, NEW data \in Seq(E), NEW group \in Seq(SliceRange), Ordered(group), NEW h \in 1 .. Len(group)
  PROVE  /\ Consumed(data, group) \in Seq(Seq(E \cup {NL}))
         /\ Len(Consumed(data, group)) =
               IF LastRow(group) < Len(Reads(data)) THEN LastRow(group) ELSE Len(Reads(data))
         /\ \A k \in 1 .. Len(Consumed(data, group)) : Consumed(data, group)[k] = Reads(data)[k]
<1> PICK Q, reads, w : /\ Q = Seq(E \cup {NL}) /\ reads = Reads(data)
                       /\ w = IF LastRow(group) < Len(Reads(data)) THEN LastRow(group) ELSE Len(Reads(data))
  OBVIOUS
<1>1. reads \in Seq(Q)
  BY ReadsAre
<1>2. LastRow(group) \in Nat
  BY LastRowIs
<1>3. w \in 0 .. Len(reads) /\ w \in Nat /\ Len(reads) \in Nat
  <2>1. Len(reads) \in Nat
    BY ONLY <1>1
  <2> QED
    BY ONLY <1>2, <2>1, reads = Reads(data), w = IF LastRow(group) < Len(Reads(data)) THEN LastRow(group) ELSE Len(Reads(data))
<1>4. SubSeq(reads, 1, w) \in Seq(Q) /\ Len(SubSeq(reads, 1, w)) = w /\ \A k \in 1 .. w : SubSeq(reads, 1, w)[k] = reads[k]
  BY ONLY <1>1, <1>3
<1>5. Consumed(data, group) = SubSeq(reads, 1, w)
  BY ONLY reads = Reads(data), w = IF LastRow(group) < Len(Reads(data)) THEN LastRow(group) ELSE Len(Reads(data)) DEF Consumed
<1> QED
  BY ONLY <1>4, <1>5, Q = Seq(E \cup {NL}), reads = Reads(data),
          w = IF LastRow(group) < Len(Reads(data)) THEN LastRow(group) ELSE Len(Reads(data))

LEMMA LargeSlicerIsExact ==
  ASSUME NEW E, NEW data \in Seq(E), NEW group \in Seq(SliceRange), Ordered(group),
         NEW i \in 1 .. Len(group), FitsBuffer(data, group[i])
  PROVE  SliceLarge(data, group)[i] = LargeContent(data, group[i])
<1> PICK F, Q, q, reads, used, w :
       /\ F = E \cup {NL} /\ Q = Seq(E \cup {NL}) /\ q = RawLength(data) /\ reads = Reads(data)
       /\ used = Consumed(data, group) /\ w = Len(Consumed(data, group))
  OBVIOUS
<1>1. /\ DOMAIN group = 1 .. Len(group)
      /\ group[i].s \in Nat /\ group[i].e \in Nat /\ group[i].s # 0 /\ group[i].s <= group[i].e
  BY GroupIs
<1> PICK r, s, e : r = group[i] /\ s = group[i].s /\ e = group[i].e
  OBVIOUS
<1>2. s \in Nat /\ e \in Nat /\ s # 0 /\ s <= e /\ s = r.s /\ e = r.e
  BY ONLY <1>1, r = group[i], s = group[i].s, e = group[i].e
<1>3. /\ used \in Seq(Q) /\ w = (IF LastRow(group) < Len(reads) THEN LastRow(group) ELSE Len(reads))
      /\ \A k \in 1 .. w : used[k] = reads[k]
  BY ConsumedIs
<1>4. LastRow(group) \in Nat /\ e <= LastRow(group)
  BY LastRowIs
<1>5. q \in Nat /\ q <= Rows(data) /\ Rows(data) \in Nat /\ RawLines(data) = [k \in 1 .. q |-> Raw(data, k)]
  <2>1. Rows(data) \in Nat
    BY CutsAre
  <2>2. q \in 0 .. Rows(data) /\ RawLines(data) = [k \in 1 .. q |-> Raw(data, k)]
    BY RawLinesAre
  <2> QED
    BY ONLY <2>1, <2>2
<1>6. \A k \in 1 .. q : k <= e => Len(Raw(data, k)) <= BufferSize
  <2>1. DOMAIN RawLines(data) = 1 .. q /\ \A k \in 1 .. q : RawLines(data)[k] = Raw(data, k)
    BY ONLY <1>5
  <2>2. \A k \in DOMAIN RawLines(data) : k <= r.e => Len(RawLines(data)[k]) <= BufferSize
    BY ONLY FitsBuffer(data, group[i]), r = group[i] DEF FitsBuffer
  <2> QED
    BY ONLY <1>2, <2>1, <2>2
<1>7. Len(reads) \in 0 .. q /\ \A k \in 1 .. q : k <= e => k <= Len(reads) /\ reads[k] = Raw(data, k)
  <2>1. Len(reads) \in 0 .. q
    BY ReadsAre
  <2>2. \A d \in Nat : (\A k \in 1 .. q : k <= d => Len(Raw(data, k)) <= BufferSize)
                          => \A k \in 1 .. q : k <= d => k <= Len(reads) /\ reads[k] = Raw(data, k)
    BY ReadsAre
  <2> QED
    BY ONLY <1>2, <1>6, <2>1, <2>2
<1> PICK m : m = Upper(r, q)
  OBVIOUS
<1>8. m = (IF e < q THEN e ELSE q) /\ m \in Nat /\ m <= q /\ m <= e
  BY ONLY <1>2, <1>5, m = Upper(r, q) DEF Upper
<1>9. Upper(r, w) = m /\ m <= w /\ w \in Nat
  <2>1. Upper(r, w) = IF e < w THEN e ELSE w
    BY ONLY <1>2 DEF Upper
  <2>2. CASE e <= q
    <3>1. e \in 1 .. q /\ m = e
      BY ONLY <1>2, <1>5, <1>8, <2>2
    <3>2. e <= Len(reads)
      BY ONLY <1>2, <1>7, <3>1
    <3> QED
      BY ONLY <1>2, <1>3, <1>4, <1>5, <1>7, <2>1, <3>1, <3>2
  <2>3. CASE ~ (e <= q)
    <3>1. m = q /\ q < e
      BY ONLY <1>2, <1>5, <1>8, <2>3
    <3>2. Len(reads) = q
      <4>1. CASE q = 0
        BY ONLY <1>7, <4>1
      <4>2. CASE q # 0
        <5>1. q \in 1 .. q /\ q <= e
          BY ONLY <1>2, <1>5, <3>1, <4>2
        <5>2. q <= Len(reads)
          BY ONLY <1>7, <5>1
        <5> QED
          BY ONLY <1>5, <1>7, <5>2
      <4> QED
        BY <4>1, <4>2
    <3>3. w = q
      BY ONLY <1>2, <1>3, <1>4, <1>5, <3>1, <3>2
    <3> QED
      BY ONLY <1>2, <1>5, <2>1, <3>1, <3>3
  <2> QED
    BY <2>2, <2>3
<1>10. used \in Seq(Seq(F))
  BY ONLY <1>3, F = E \cup {NL}, Q = Seq(E \cup {NL})
<1>11. \E scan : LargeScan(scan, used, group)
  BY <1>10, LargeScanExists
<1>12. PICK scan : /\ LargeScan(scan, used, group)
                   /\ SliceLarge(data, group) = [h \in DOMAIN group |-> JoinLines(scan[Len(used)].lists[h])]
  BY ONLY <1>11, SliceLargeIs, used = Consumed(data, group)
<1>13. LargeAt(ReadTexts(used), group, scan[Len(used)], w)
  <2>1. LargeAt(ReadTexts(used), group, scan[Len(used)], Len(used))
    BY <1>10, <1>12, LargeLastState
  <2> QED
    BY ONLY <2>1, used = Consumed(data, group), w = Len(Consumed(data, group))
<1> PICK texts, clean : texts = ReadTexts(used) /\ clean = [k \in 1 .. q |-> TrimCR(LineText(data, k))]
  OBVIOUS
<1>14. scan[Len(used)].lists[i] = SubSeq(texts, s, m)
  <2>1. scan[Len(used)].lists[i] = SubSeq(texts, group[i].s, Upper(group[i], w))
    BY ONLY <1>13, texts = ReadTexts(used), i \in 1 .. Len(group) DEF LargeAt
  <2> QED
    BY ONLY <1>9, <2>1, r = group[i], s = group[i].s
<1>15. \A k \in s .. m : texts[k] \in {TrimCR(LineText(data, j)) : j \in 1 .. q} /\ clean[k] = texts[k]
  <2> TAKE k \in s .. m
  <2>1. k \in 1 .. q /\ k \in 1 .. w /\ k <= e /\ k \in 1 .. Rows(data)
    BY ONLY <1>2, <1>5, <1>8, <1>9, k \in s .. m
  <2>2. texts[k] = TrimEOL(used[k])
    BY ONLY <2>1, texts = ReadTexts(used), used = Consumed(data, group), w = Len(Consumed(data, group)) DEF ReadTexts
  <2>3. used[k] = Raw(data, k)
    BY ONLY <1>3, <1>7, <2>1
  <2>4. TrimEOL(Raw(data, k)) = TrimCR(LineText(data, k))
    BY <2>1, LineOfReader
  <2>5. clean[k] = TrimCR(LineText(data, k))
    BY ONLY <2>1, clean = [h \in 1 .. q |-> TrimCR(LineText(data, h))]
  <2> QED
    BY ONLY <2>1, <2>2, <2>3, <2>4, <2>5
<1>16. SubSeq(texts, s, m) = SubSeq(clean, s, m)
  <2> PICK T : T = {TrimCR(LineText(data, j)) : j \in 1 .. q}
    OBVIOUS
  <2>1. \A k \in s .. m : texts[k] \in T /\ clean[k] = texts[k]
    BY ONLY <1>15, T = {TrimCR(LineText(data, j)) : j \in 1 .. q}
  <2>2. Agree(texts, clean, s, m, T)
    BY ONLY <2>1 DEF Agree
  <2>3. s \in Nat /\ m \in Nat
    BY ONLY <1>2, <1>8
  <2>4. SamePieces(texts, clean, s, m)
    BY ONLY <2>2, <2>3, SamePiece
  <2> QED
    BY ONLY Zenon, <2>4 DEF SamePieces
<1>17. LargeContent(data, r) = JoinLines(SubSeq(clean, s, m))
  <2>1. LargeContent(data, r) =
            JoinLines(SubSeq([k \in 1 .. RawLength(data) |-> TrimCR(LineText(data, k))], r.s, Upper(r, RawLength(data))))
    BY LargeContentIs
  <2> QED
    BY ONLY <1>2, <2>1, clean = [k \in 1 .. q |-> TrimCR(LineText(data, k))], q = RawLength(data), m = Upper(r, q)
<1>18. SliceLarge(data, group)[i] = JoinLines(scan[Len(used)].lists[i])
  <2>1. i \in DOMAIN group
    BY ONLY <1>1, i \in 1 .. Len(group)
  <2> QED
    BY ONLY <1>12, <2>1
<1> QED
  BY ONLY <1>14, <1>16, <1>17, <1>18, r = group[i]

-----------------------------------------------------------------------------
(***************************************************************************)
(* What the two slicers show of a file (db.go 552-747), for a file of any  *)
(* length and any group of rows: a file that is taken whole gives every    *)
(* row its lines byte for byte, ranges beyond the end included; one that   *)
(* is read line by line gives every row whose lines fit the buffer its     *)
(* lines without carriage returns, overlapping ranges included.  A row     *)
(* starts at line 1 or later and does not end before it starts.            *)
(***************************************************************************)
THEOREM SlicerIsExact ==
  ASSUME call.op = "slice" => (\E E : call.data \in Seq(E)) /\ call.group \in Seq(SliceRange)
  PROVE  SlicerExact
<1> SUFFICES ASSUME call.op = "slice" PROVE SlicerExact
  BY DEF SlicerExact, SmallFileSlices, LargeFileSlices
<1> PICK data, group : data = call.data /\ group = Sorted(call.group)
  OBVIOUS
<1>1. PICK E : data \in Seq(E)
  OBVIOUS
<1>2. group \in Seq(SliceRange) /\ Ordered(group)
  BY SortedIs
<1>3. DOMAIN group = 1 .. Len(group)
  BY ONLY <1>2
<1>4. LoadAndSlice(data, group) =
        IF data = <<>> THEN [i \in DOMAIN group |-> <<>>]
        ELSE IF Len(data) <= FileSliceLimit THEN SliceSmall(data, group) ELSE SliceLarge(data, group)
  BY DEF LoadAndSlice
<1>5. SmallFileSlices
  <2> SUFFICES ASSUME Len(call.data) <= FileSliceLimit, NEW i \in DOMAIN Sorted(call.group)
               PROVE  LoadAndSlice(call.data, Sorted(call.group))[i] = SmallContent(call.data, Sorted(call.group)[i])
    BY Zenon DEF SmallFileSlices
  <2> SUFFICES ASSUME Len(data) <= FileSliceLimit, i \in 1 .. Len(group)
               PROVE  LoadAndSlice(data, group)[i] = SmallContent(data, group[i])
    BY Zenon, <1>3
  <2>1. CASE data = <<>>
    <3>1. LoadAndSlice(data, group)[i] = <<>>
      BY ONLY <1>3, <1>4, <2>1, i \in 1 .. Len(group)
    <3>2. group[i] \in SliceRange
      BY ONLY <1>2, i \in 1 .. Len(group)
    <3> PICK r, a : r = group[i] /\ a = Cut(data, r.s - 1)
      OBVIOUS
    <3>3. r.s <= Rows(data) => ~ (a < Len(data))
      <4> HAVE r.s <= Rows(data)
      <4>1. /\ Rows(data) \in Nat /\ \A k \in 0 .. Rows(data) : Cut(data, k) \in 0 .. Len(data) + 1
        BY <1>1, CutsAre
      <4>2. r.s \in Nat /\ r.s # 0
        BY ONLY <3>2, r = group[i] DEF SliceRange
      <4>3. r.s - 1 \in 0 .. Rows(data)
        BY ONLY <4>1, <4>2, r.s <= Rows(data)
      <4>4. Len(data) = 0
        BY ONLY <2>1
      <4> QED
        BY ONLY <4>1, <4>3, <4>4, a = Cut(data, r.s - 1)
    <3>4. SmallContent(data, r) =
            IF r.s <= Rows(data) /\ a < Len(data)
            THEN SubSeq(data, a + 1, Cut(data, Upper(r, Rows(data))) - 1) ELSE <<>>
      BY ONLY <1>1, <3>2, ContentIs, r = group[i], a = Cut(data, r.s - 1)
    <3> QED
      BY ONLY <3>1, <3>3, <3>4, r = group[i]
  <2>2. CASE data # <<>>
    <3>1. LoadAndSlice(data, group) = SliceSmall(data, group)
      BY ONLY <1>4, <2>2, Len(data) <= FileSliceLimit
    <3>2. SliceSmall(data, group) = [k \in 1 .. Len(group) |-> SmallContent(data, group[k])]
      BY ONLY <1>1, <1>2, SmallSlicerIsExact
    <3> QED
      BY ONLY <3>1, <3>2, i \in 1 .. Len(group)
  <2> QED
    BY <2>1, <2>2
<1>6. LargeFileSlices
  <2> SUFFICES ASSUME Len(call.data) > FileSliceLimit, NEW i \in DOMAIN Sorted(call.group),
                      FitsBuffer(call.data, Sorted(call.group)[i])
               PROVE  LoadAndSlice(call.data, Sorted(call.group))[i] = LargeContent(call.data, Sorted(call.group)[i])
    BY Zenon DEF LargeFileSlices
  <2> SUFFICES ASSUME Len(data) > FileSliceLimit, i \in 1 .. Len(group), FitsBuffer(data, group[i])
               PROVE  LoadAndSlice(data, group)[i] = LargeContent(data, group[i])
    BY Zenon, <1>3
  <2>1. FileSliceLimit \in Nat /\ Len(data) \in Nat
    BY <1>1, SlicerAssumption
  <2>2. data # <<>> /\ ~ (Len(data) <= FileSliceLimit)
    <3>1. Len(data) # 0 /\ ~ (Len(data) <= FileSliceLimit)
      BY ONLY <2>1, Len(data) > FileSliceLimit
    <3>2. data = <<>> => Len(data) = 0
      OBVIOUS
    <3> QED
      BY ONLY <3>1, <3>2
  <2>3. LoadAndSlice(data, group) = SliceLarge(data, group)
    BY ONLY <1>4, <2>2
  <2>4. SliceLarge(data, group)[i] = LargeContent(data, group[i])
    BY ONLY <1>1, <1>2, LargeSlicerIsExact, i \in 1 .. Len(group), FitsBuffer(data, group[i])
  <2> QED
    BY ONLY <2>3, <2>4
<1> QED
  BY <1>5, <1>6 DEF SlicerExact
=============================================================================
