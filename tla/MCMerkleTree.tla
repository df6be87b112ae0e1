---------------------------- MODULE MCMerkleTree ----------------------------
(* A small workspace: a may be a file or a directory with two entries, b a *)
(* file or an empty directory, v a directory that is skipped or a file that*)
(* is not indexed.                                                         *)
EXTENDS MerkleTree, TLC

CONSTANTS a, b, v, c1, c2, c3, h1, h2

MCPath == {<<a>>, <<a, a>>, <<a, v>>, <<a, v, b>>, <<b>>, <<v>>, <<v, a>>}

\* c2 and c3 differ outside their chunks only.
MCHashOf == c1 :> h1 @@ c2 :> h2 @@ c3 :> h2
============================================================================
