-------------------------- MODULE MCCallGraphStore --------------------------
(* Two files that may both declare run.  fn and run call each other, fn     *)
(* calls itself, and Trun, (T).run, ends in run.  v3 does not parse and has *)
(* no chunks.                                                               *)
EXTENDS CallGraphStore, TLC

CONSTANTS v1, v2, v3, h1, h2, h3, run, fn, Trun

MCHashOf == v1 :> h1 @@ v2 :> h2 @@ v3 :> h3
MCDecl == v1 :> {run, fn} @@ v2 :> {run, Trun} @@ v3 :> {}
MCCalls == v1 :> {<<fn, run>>, <<fn, fn>>, <<run, fn>>} @@ v2 :> {<<run, run>>} @@ v3 :> {}
MCLike == {<<n, n>> : n \in Name} \cup {<<run, Trun>>}
MCDotLike == {<<run, Trun>>}
============================================================================
