----------------------------- MODULE VectorFile -----------------------------
(***************************************************************************)
(* What the vector index promises the rest of the program: each process    *)
(* has a set of ids in memory, and the .tqv file is a register that a save *)
(* replaces in one step by the set of the process that saves.  A process   *)
(* may end at any moment and starts from the file.  Nothing is promised    *)
(* once the saves of two processes have collided.                          *)
(***************************************************************************)
EXTENDS FiniteSets

CONSTANTS
  Proc,  \* the processes that share the file
  Id     \* row ids

VARIABLES
  up,    \* processes that run
  mem,   \* their ids in memory
  file,  \* the ids of the file
  collided

vars == <<up, mem, file, collided>>

Init ==
  /\ up = {}
  /\ mem = [p \in Proc |-> {}]
  /\ file = {}
  /\ collided = FALSE

Start(p) ==
  /\ p \notin up
  /\ up' = up \cup {p} /\ mem' = [mem EXCEPT ![p] = file]
  /\ UNCHANGED file

Add(p, i) ==
  /\ p \in up
  /\ mem' = [mem EXCEPT ![p] = @ \cup {i}]
  /\ UNCHANGED <<up, file>>

Drop(p, ids) ==
  /\ p \in up
  /\ mem' = [mem EXCEPT ![p] = @ \ ids]
  /\ UNCHANGED <<up, file>>

Save(p) ==
  /\ p \in up
  /\ file' = mem[p]
  /\ UNCHANGED <<up, mem>>

End(p) ==
  /\ p \in up
  /\ up' = up \ {p} /\ mem' = [mem EXCEPT ![p] = {}]
  /\ UNCHANGED file

Use ==
  \E p \in Proc :
    \/ Start(p) \/ Save(p) \/ End(p)
    \/ \E i \in Id : Add(p, i)
    \/ \E ids \in SUBSET Id : Drop(p, ids)

\* Two saves overlap, and whatever follows.
Collide ==
  /\ collided' = TRUE
  /\ up' \in SUBSET Proc /\ mem' \in [Proc -> SUBSET Id] /\ file' \in SUBSET Id

Next == (Use /\ UNCHANGED collided) \/ Collide

Spec == Init /\ [][Next]_vars
============================================================================
