----------------------------- MODULE MCServerRun ----------------------------
(* Model values and constant functions for checking ServerRun: the codebase*)
(* /vendor, and /vendor/vendor, which a scan of /vendor does not enter.    *)
(* /vendor joined to the absolute path of its file is the path of the file *)
(* of the other.                                                           *)
EXTENDS ServerRun, TLC

CONSTANTS vendor, main, v1, v2, h1, h2, k1, k2

MCCodebase == {<<vendor>>, <<vendor, vendor>>}
MCOneCodebase == {<<vendor>>}
MCFile == {<<main>>}
MCEvalSymlinks == [p \in {<<vendor, main>>, <<vendor, vendor, main>>} |-> p]

MCHashOf == v1 :> h1 @@ v2 :> h2
MCChunksOf == v1 :> {k1, k2} @@ v2 :> {k1}
============================================================================
