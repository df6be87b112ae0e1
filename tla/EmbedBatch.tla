----------------------------- MODULE EmbedBatch -----------------------------
(***************************************************************************)
(* What generateEmbeddings promises UpdateIndex, and what EmbedAndLaunch   *)
(* of IndexPipeline relies on: one step that gives every job its own       *)
(* embedding or an error, after which the results do not change.           *)
(***************************************************************************)
CONSTANTS
  Job,     \* the chunks to embed
  Unknown  \* no result yet

VARIABLE results

Init == results = [j \in Job |-> Unknown]

Embed ==
  /\ results = [j \in Job |-> Unknown]
  /\ results' \in [Job -> [job : Job, ok : BOOLEAN]]
  /\ \A j \in Job : results'[j].job = j

Spec == Init /\ [][Embed]_results
============================================================================
