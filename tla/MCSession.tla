----------------------------- MODULE MCSession -----------------------------
EXTENDS Session

CONSTANT MaxEvals   \* how many loads and requests there are

Bound == n <= MaxEvals

(* Once a program has strayed, the invariants checked promise nothing.     *)
(* The last of the evaluations finds and leaves the ports as they were.    *)
BoundSound ==
  /\ Bound /\ ~strayed
  /\ n = MaxEvals => portVars = <<"file", "file", "file">>
===========================================================================
