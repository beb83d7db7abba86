------------------------------ MODULE Displays ------------------------------
(* The demo shown gets the frames of the radar (Core.updateGraph): two     *)
(* displays of People and the two of Gestures, on either device.           *)
EXTENDS People, Gestures

CONSTANT Demos  \* of "labels", "heights", "x843" and "x432"

VARIABLE demo

vars == <<demo, people, gestures>>

Init == demo \in Demos /\ PeopleInit /\ GesturesInit

(* What the firmware sends of its tracks: classes, with a speed that only  *)
(* matters to a confident one, or heights                                  *)
Readings == {c \in [class : Classes \cup {"unsure"}, slow : BOOLEAN] : c.slow => c.class # "unsure"}
Labelled == UNION {[now -> Readings] : now \in SUBSET Ids}
Measured == UNION {[now -> Heights] : now \in SUBSET Ids}

ShowPeople ==
  \/ demo = "labels"  /\ \E classes \in Labelled : PeopleFrame(classes, <<>>)
  \/ demo = "heights" /\ \E heights \in Measured : PeopleFrame(<<>>, heights)

ShowGestures ==
  \/ demo = "x843" /\ NetworkFrame
  \/ demo = "x432" /\ ModeFrame

Next ==
  \/ demo \in {"labels", "heights"} /\ UNCHANGED <<demo, gestures>>
     /\ (ShowPeople \/ Draw \/ Return \/ GraphDone \/ SwitchTab \/ StopDrawing
           \/ (demo = "heights" /\ (ToggleFalls \/ NewTracking)))
  \/ demo \in {"x843", "x432"} /\ UNCHANGED <<demo, people>> /\ (ShowGestures \/ GestureTimeout(demo) \/ NewPresence)

Spec == Init /\ [][Next]_vars

-----------------------------------------------------------------------------
(* ModeIsShown of the device that is connected *)
ModeIsTold == ModeIsShown(demo)
=============================================================================
