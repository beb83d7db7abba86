---------------------------- MODULE MCVisualizer ----------------------------
(* Visualizer with a device of two ports, one of a single port and one     *)
(* with an output rate of its own.                                         *)
EXTENDS Visualizer

MCDemosOf == [xWR6843 |-> <<"Out of Box", "Gesture">>,
              xWRL6432 |-> <<"Out of Box x432", "Video Doorbell", "Gesture">>,
              xWRL6844 |-> <<"Out of Box x844">>]
=============================================================================
