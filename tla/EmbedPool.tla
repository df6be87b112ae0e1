----------------------------- MODULE EmbedPool ------------------------------
(***************************************************************************)
(* merkle.generateEmbeddings and the requests of llm.GetEmbedding.         *)
(*                                                                         *)
(* The main goroutine starts one goroutine per job and takes a slot of sem *)
(* before each.  A goroutine asks the embedding service, up to MaxRetries  *)
(* times more when an attempt fails in a way that may pass, as long as no  *)
(* more than MaxElapsed has gone by; it stores its result, gives its slot  *)
(* back and is done.  An attempt is cut off after Timeout.  Time is that   *)
(* of each request and in units that keep the order of the two limits: the *)
(* code has 10 s for an attempt and 5 s for the retries to begin.          *)
(***************************************************************************)
EXTENDS Integers, FiniteSets

CONSTANTS
  Jobs,        \* how many chunks there are to embed
  PoolSize,    \* capacity of sem (16)
  MaxRetries,  \* of backoff.WithMaxRetries (3)
  MaxElapsed,  \* of the exponential backoff
  Timeout,     \* of the HTTP client
  Unknown      \* no result yet

ASSUME PoolAssumption ==
  /\ Jobs \in Nat /\ PoolSize \in Nat \ {0} /\ MaxRetries \in Nat
  /\ MaxElapsed \in Nat /\ Timeout \in Nat

VARIABLES
  main,      \* where generateEmbeddings is
  next,      \* the job its loop has come to
  wg,        \* the count of its WaitGroup
  sem,       \* slots taken
  at,        \* where the goroutine of each job is
  tries,     \* attempts of each request
  elapsed,   \* time each request has taken so far
  answer,    \* what GetEmbedding returns: an embedding (TRUE) or an error
  results,   \* the slice of results
  completed  \* the counter of the progress line

Job == 1 .. Jobs
reqVars == <<tries, elapsed, answer>>
vars == <<main, next, wg, sem, at, reqVars, results, completed>>

Running == {"request", "backoff", "answered", "stored"}

Init ==
  /\ main = "add" /\ next = 1 /\ wg = 0 /\ sem = 0
  /\ at = [j \in Job |-> "new"]
  /\ tries = [j \in Job |-> 0] /\ elapsed = [j \in Job |-> 0]
  /\ answer = [j \in Job |-> FALSE]
  /\ results = [j \in Job |-> Unknown] /\ completed = 0

(***************************************************************************)
(* generateEmbeddings.                                                     *)
(***************************************************************************)
AddJob ==
  /\ main = "add" /\ next <= Jobs
  /\ wg' = wg + 1 /\ main' = "acquire"
  /\ UNCHANGED <<next, sem, at, reqVars, results, completed>>

\* Mutant: the goroutine is started without a slot being free.
Launch_NoWait ==
  /\ main = "acquire"
  /\ sem' = IF sem < PoolSize THEN sem + 1 ELSE sem
  /\ at' = [at EXCEPT ![next] = "request"]
  /\ next' = next + 1 /\ main' = "add"
  /\ UNCHANGED <<wg, reqVars, results, completed>>

Launch ==
  /\ main = "acquire" /\ sem < PoolSize
  /\ sem' = sem + 1
  /\ at' = [at EXCEPT ![next] = "request"]
  /\ next' = next + 1 /\ main' = "add"
  /\ UNCHANGED <<wg, reqVars, results, completed>>

LoopEnds ==
  /\ main = "add" /\ next > Jobs /\ main' = "wait"
  /\ UNCHANGED <<next, wg, sem, at, reqVars, results, completed>>

WaitReturns ==
  /\ main = "wait" /\ wg = 0 /\ main' = "returned"
  /\ UNCHANGED <<next, wg, sem, at, reqVars, results, completed>>

(***************************************************************************)
(* llm.GetEmbedding.  An attempt takes up to Timeout and ends with an      *)
(* embedding, with an answer that has none, with an error that is tried    *)
(* again (transport, 429, 5xx, a body that does not decode) or with one    *)
(* that is not (any other status, a request that cannot be made).          *)
(***************************************************************************)
Respond(j, d) ==
  /\ at[j] = "request"
  /\ tries' = [tries EXCEPT ![j] = @ + 1]
  /\ elapsed' = [elapsed EXCEPT ![j] = @ + d]
  /\ \/ /\ \E ok \in BOOLEAN : answer' = [answer EXCEPT ![j] = ok]
        /\ at' = [at EXCEPT ![j] = "answered"]
     \/ at' = [at EXCEPT ![j] = "backoff"] /\ UNCHANGED answer
  /\ UNCHANGED <<main, next, wg, sem, results, completed>>

\* Mutant: the time the attempts took is not counted.
Retry_NoElapsed(j, wait) ==
  /\ at[j] = "backoff"
  /\ IF tries[j] <= MaxRetries
     THEN at' = [at EXCEPT ![j] = "request"] /\ elapsed' = [elapsed EXCEPT ![j] = @ + wait]
     ELSE at' = [at EXCEPT ![j] = "answered"] /\ UNCHANGED elapsed
  /\ UNCHANGED <<main, next, wg, sem, tries, answer, results, completed>>

\* NextBackOff: the request goes on after a wait, unless its retries are used up or
\* the wait would take it past MaxElapsed.
Retry(j, wait) ==
  /\ at[j] = "backoff"
  /\ IF tries[j] <= MaxRetries /\ elapsed[j] + wait <= MaxElapsed
     THEN at' = [at EXCEPT ![j] = "request"] /\ elapsed' = [elapsed EXCEPT ![j] = @ + wait]
     ELSE at' = [at EXCEPT ![j] = "answered"] /\ UNCHANGED elapsed
  /\ UNCHANGED <<main, next, wg, sem, tries, answer, results, completed>>

\* The variables of a request go with it.
Forget(j) == tries' = [tries EXCEPT ![j] = 0] /\ elapsed' = [elapsed EXCEPT ![j] = 0]

\* Mutant: the goroutine reads the loop's variable instead of its own argument.
Store_LoopVariable(j) ==
  /\ at[j] = "answered"
  /\ results' = [results EXCEPT ![IF next > Jobs THEN Jobs ELSE next] = [job |-> j, ok |-> answer[j]]]
  /\ completed' = completed + 1
  /\ at' = [at EXCEPT ![j] = "stored"]
  /\ Forget(j)
  /\ UNCHANGED <<main, next, wg, sem, answer>>

Store(j) ==
  /\ at[j] = "answered"
  /\ results' = [results EXCEPT ![j] = [job |-> j, ok |-> answer[j]]]
  /\ completed' = completed + 1
  /\ at' = [at EXCEPT ![j] = "stored"]
  /\ Forget(j)
  /\ UNCHANGED <<main, next, wg, sem, answer>>

\* Mutant: only a goroutine that has an embedding gives its slot back.
Release_OnSuccess(j) ==
  /\ at[j] = "stored"
  /\ sem' = IF answer[j] THEN sem - 1 ELSE sem
  /\ at' = [at EXCEPT ![j] = "released"]
  /\ UNCHANGED <<main, next, wg, reqVars, results, completed>>

\* The deferred function: the slot first, then the WaitGroup.
Release(j) ==
  /\ at[j] = "stored"
  /\ sem' = sem - 1
  /\ at' = [at EXCEPT ![j] = "released"]
  /\ UNCHANGED <<main, next, wg, reqVars, results, completed>>

Done(j) ==
  /\ at[j] = "released"
  /\ wg' = wg - 1
  /\ at' = [at EXCEPT ![j] = "done"]
  /\ UNCHANGED <<main, next, sem, reqVars, results, completed>>

MainStep == AddJob \/ Launch \/ LoopEnds \/ WaitReturns
JobStep(j) ==
  \/ Store(j) \/ Release(j) \/ Done(j)
  \/ \E d \in 0 .. Timeout : Respond(j, d)
  \/ \E wait \in 0 .. MaxElapsed : Retry(j, wait)

Next == MainStep \/ \E j \in Job : JobStep(j)

Spec == Init /\ [][Next]_vars

\* Goroutines are scheduled, and no attempt outlasts Timeout.
FairSpec == Spec /\ WF_vars(MainStep) /\ \A j \in Job : WF_vars(JobStep(j))

(***************************************************************************)
(* Properties.                                                             *)
(***************************************************************************)
EmbedTypeOK ==
  /\ main \in {"add", "acquire", "wait", "returned"}
  /\ next \in 1 .. Jobs + 1 /\ wg \in 0 .. Jobs /\ sem \in 0 .. PoolSize
  /\ at \in [Job -> {"new", "released", "done"} \cup Running]
  /\ tries \in [Job -> Nat] /\ elapsed \in [Job -> Nat] /\ answer \in [Job -> BOOLEAN]
  /\ results \in [Job -> [job : Job, ok : BOOLEAN] \cup {Unknown}]
  /\ completed \in 0 .. Jobs

\* No more requests are under way at once than there are slots, and every slot
\* that is taken belongs to a goroutine that will give it back, on every path of a
\* request.
PoolBounded ==
  /\ Cardinality({j \in Job : at[j] \in Running}) <= PoolSize
  /\ sem = Cardinality({j \in Job : at[j] \in Running})

\* However slow the service is, a request gives up: it makes at most MaxRetries + 1
\* attempts, and the last of them begins within MaxElapsed.
RequestsGiveUp ==
  \A j \in Job : tries[j] <= MaxRetries + 1 /\ elapsed[j] <= MaxElapsed + Timeout

\* generateEmbeddings returns.
EmbeddingEnds == <>(main = "returned")

\* When it does, every job has its own result, and no goroutine writes a late one.
Batch == INSTANCE EmbedBatch WITH
  results <- IF main = "returned" THEN results ELSE [j \in Job |-> Unknown]
ImplementsEmbedBatch == Batch!Spec
============================================================================
