-------------------------- MODULE MCIndexPipeline --------------------------
(* Model values and constant functions for checking IndexPipeline: the     *)
(* codebase /app with main.py and app/main.py.  Root joined to the absolute*)
(* path of the first is the absolute path of the second.                   *)
EXTENDS IndexPipeline, TLC

CONSTANTS app, main, v1, v2, h1, h2, k1, k2

MCCodebase == {<<app>>}
MCFile == {<<main>>, <<app, main>>}
MCEvalSymlinks == [p \in {<<app, main>>, <<app, app, main>>} |-> p]

MCHashOf == v1 :> h1 @@ v2 :> h2
MCChunksOf == v1 :> {k1, k2} @@ v2 :> {k1}
============================================================================
