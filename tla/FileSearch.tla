----------------------------- MODULE FileSearch -----------------------------
(***************************************************************************)
(* What ggrep.Search promises searchLexicalSparse: every matching line of  *)
(* every file its roots lead to is reported exactly once per root, but for *)
(* files that could not be read, and the search is over only when all of   *)
(* them have been reported.                                                *)
(***************************************************************************)
EXTENDS Naturals

CONSTANTS
  File,    \* the files below the roots
  Lines,   \* matching lines of a file
  Visits   \* how many of the roots lead to it

VARIABLES
  found,   \* lines collected of each file
  missed,  \* visits of a file that failed
  over     \* the caller goes on

vars == <<found, missed, over>>

Expected(m) == [f \in File |-> Lines[f] * (Visits[f] - m[f])]

Init ==
  /\ found = [f \in File |-> 0]
  /\ missed = [f \in File |-> 0]
  /\ over = FALSE

Report(f) ==
  /\ ~ over /\ found[f] < Expected(missed)[f]
  /\ found' = [found EXCEPT ![f] = @ + 1]
  /\ UNCHANGED <<missed, over>>

\* A visit fails before it reports a line of the file.
Miss ==
  /\ ~ over
  /\ missed' \in [File -> Nat]
  /\ \A f \in File :
       missed[f] <= missed'[f] /\ missed'[f] <= Visits[f] /\ found[f] <= Expected(missed')[f]
  /\ UNCHANGED <<found, over>>

Finish ==
  /\ ~ over /\ found = Expected(missed)
  /\ over' = TRUE
  /\ UNCHANGED <<found, missed>>

Next == Miss \/ Finish \/ \E f \in File : Report(f)

Spec == Init /\ [][Next]_vars
============================================================================
