----------------------------- MODULE MCDisplays -----------------------------
(* Displays with two tracks and two gestures, and short windows *)
EXTENDS Displays

MCNeeded == [k \in {0, 1, 2} |-> 1]
=============================================================================
