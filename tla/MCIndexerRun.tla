---------------------------- MODULE MCIndexerRun ----------------------------
(* Model values and constant functions for checking IndexerRun: as in      *)
(* MCIndexPipeline, but app/main.py is a symbolic link to /src.            *)
EXTENDS IndexerRun, TLC

CONSTANTS app, main, src, v1, v2, v3, h1, h2, k1, k2

MCCodebase == {<<app>>}
MCFile == {<<main>>, <<app, main>>}
MCEvalSymlinks == <<app, main>> :> <<app, main>> @@ <<app, app, main>> :> <<src>>

\* v2 and v3 differ outside their chunks only: the same hash.
MCHashOf == v1 :> h1 @@ v2 :> h2 @@ v3 :> h2
MCChunksOf == v1 :> {k1, k2} @@ v2 :> {k1} @@ v3 :> {k1}
============================================================================
