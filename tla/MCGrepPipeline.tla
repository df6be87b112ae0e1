--------------------------- MODULE MCGrepPipeline ---------------------------
(* A tree of directories and, as further roots, files of it once more.     *)
EXTENDS GrepPipeline, TLC

CONSTANTS top, sub, side, deep1, deep2, skipped, f1, f2, f3, f4, f5

MCEntries == top :> <<sub, skipped, side>> @@ sub :> <<deep1, deep2, f1>> @@ side :> <<f2>>
             @@ deep1 :> <<f3>> @@ deep2 :> <<>> @@ skipped :> <<f5>>
MCIgnored == [d \in Dir |-> IF d = top THEN {skipped} ELSE {}]
MCSize == f1 :> "small" @@ f2 :> "large" @@ f3 :> "small" @@ f4 :> "empty" @@ f5 :> "small"
MCLines == f1 :> 2 @@ f2 :> 1 @@ f3 :> 0 @@ f4 :> 0 @@ f5 :> 1
MCRoots == <<top, f1, f4, f3>>
============================================================================
