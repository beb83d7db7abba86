------------------------------ MODULE Gestures ------------------------------
(***************************************************************************)
(* The gesture display of old-visualizer (gesture_recognition.py): on an   *)
(* x843 the probabilities of the radar's network are turned into gestures  *)
(* here, on an x432 the radar sends gestures, and the mode it is in.       *)
(***************************************************************************)
EXTENDS Integers, Sequences, FiniteSets

CONSTANTS
  Kinds,        \* the places of gestureList, 0 for "No Gesture"
  Continuing,   \* the gestures announced again while they last
  Needed,       \* countThresholds: kind -> frames
  Window,       \* GESTURE_FEATURE_LENGTH, 15
  Every,        \* contGestureFramecount, 10
  PlotDelay,    \* frames the plot of presence stays, 80
  MaxFrame      \* bound: frame numbers

ASSUME GesturesAssumption ==
  /\ IsFiniteSet(Kinds) /\ Kinds = 0 .. Cardinality(Kinds) - 1 /\ 0 \in Kinds
  /\ Continuing \subseteq Kinds \ {0} /\ Needed \in [Kinds -> Nat]
  /\ Window \in Nat \ {0} /\ Every \in Nat \ {0} /\ PlotDelay \in Nat /\ MaxFrame \in Nat

VARIABLES
  frame,      \* frameNum
  net,        \* sumProbs as a window of sets, gesture of the frame before, lastFrameProcd
  panel,      \* text, modeStatus, gestureTimer, gestureMode, demoMode, isOn, the delays, the plots seen
  announced,  \* the gestures this frame brought from the network
  confident,  \* history: the gestures the last frames were confident of, each frame once
  asBuilt     \* history: the mode has not changed since the tab was built

gestures == <<frame, net, panel, announced, confident, asBuilt>>

None == -1
Searching == -2  \* "Searching for Presence"; gestures are their place in the list
Modes == {"presence", "gesture"}
Most(n, most) == IF n < most THEN n + 1 ELSE n

(* initGestureTab: "No Gesture" is the text, which is "Undefined" on an    *)
(* x843.  demoMode 0 is a radar that only has gestures.                    *)
Built(p, demoMode) ==
  [p EXCEPT !.text = 0, !.status = IF demoMode = 0 THEN "gesture" ELSE "send", !.demoMode = demoMode,
            !.presence = demoMode # 0, !.doppler = demoMode = 0]

(* setupGUI: the x432 display starts in gesture mode with the plot of      *)
(* presence, isOn is not set.                                              *)
GesturesInit ==
  /\ frame = 0
  /\ net = [window |-> [i \in 1 .. Window |-> {}], previous |-> None, last |-> None]
  /\ panel = [text |-> 0, status |-> "send", demoMode |-> 1, timer |-> FALSE, mode |-> "gesture", isOn |-> FALSE, delayP |-> 0, delayD |-> 0,
              presence |-> TRUE, doppler |-> FALSE]
  /\ announced = {} /\ confident = [i \in 1 .. Window |-> {}] /\ asBuilt = TRUE

-----------------------------------------------------------------------------
(* gestureHandler, updateGestureDisplay *)
Shown(p, text) == [p EXCEPT !.text = text, !.timer = TRUE]

Times(window, k) == Cardinality({i \in DOMAIN window : k \in window[i]})

(* The last gesture of the list that was probable often enough *)
Current(window) ==
  LET often == {k \in Kinds : Times(window, k) > Needed[k]}
  IN  IF often = {} THEN 0 ELSE CHOOSE k \in often : \A other \in often : other <= k

(* gesturePostProc *)
Announces(previous, current) ==
  IF previous # current THEN {current} \ {0}
  ELSE IF frame' % Every = 0 THEN {current} \cap Continuing ELSE {}

(* Mutant: a frame shown again counts again *)
Any(last) == TRUE
IsNew(last) == last # frame'

PostProc(probable) ==
  LET window == Append(Tail(net.window), probable)
      current == Current(window)
  IN  /\ net' = [window |-> window, previous |-> current, last |-> frame']
      /\ announced' = Announces(net.previous, current)
      /\ panel' = IF announced' = {} THEN panel ELSE Shown(panel, current)

(* An x843 sends probabilities with every frame; one may be shown again,   *)
(* by a replay.                                                            *)
NetworkFrame ==
  /\ frame' \in {frame, frame + 1} /\ frame' <= MaxFrame
  /\ \E probable \in SUBSET Kinds :
       /\ IF IsNew(net.last) THEN PostProc(probable)
          ELSE announced' = {} /\ UNCHANGED <<net, panel>>
       /\ confident' = IF frame' = frame /\ net.last # None THEN confident ELSE Append(Tail(confident), probable)
  /\ UNCHANGED asBuilt

-----------------------------------------------------------------------------
(* gesturePresenceHandler: what a change of mode shows, then the plots     *)
Mutual(mode) == IF mode = "presence" THEN Searching ELSE 0

Retold(p, mode) == Shown(p, Mutual(mode))

Changed(p, mode) ==
  IF p.mode = mode THEN p
  ELSE [Retold(p, mode) EXCEPT !.mode = mode, !.status = mode, !.isOn = (mode = "gesture"),
          !.delayP = IF mode = "presence" THEN 0 ELSE @, !.delayD = IF mode = "gesture" THEN 0 ELSE @,
          !.presence = @ \/ mode = "presence", !.doppler = @ \/ mode = "gesture"]

Counted(p) == IF p.isOn THEN [p EXCEPT !.delayP = Most(@, PlotDelay + 1)] ELSE [p EXCEPT !.delayD = Most(@, 3)]
Hidden(p) == [p EXCEPT !.presence = @ /\ ~(p.isOn /\ p.delayP > PlotDelay), !.doppler = @ /\ ~(~p.isOn /\ p.delayD > 2)]

(* An x432 sends a gesture, a mode, or both; updateGraph takes the gesture *)
(* first.                                                                  *)
ModeFrame ==
  /\ frame < MaxFrame /\ frame' = frame + 1
  /\ \E k \in Kinds \cup {None}, mode \in Modes \cup {"none"} :
       LET told == IF k \in {None, 0} THEN panel ELSE Shown(panel, k)
       IN  panel' = IF mode = "none" THEN told ELSE Hidden(Counted(Changed(told, mode)))
  /\ asBuilt' = (asBuilt /\ panel'.mode = panel.mode)
  /\ announced' = {} /\ UNCHANGED <<net, confident>>

(* resetGestureDisplay, a second after the last text *)
GestureTimeout(device) ==
  /\ panel.timer
  /\ panel' = [panel EXCEPT !.timer = FALSE, !.text = IF device = "x432" THEN Mutual(panel.mode) ELSE 0]
  /\ UNCHANGED <<frame, net, announced, confident, asBuilt>>

(* parsePresenceDetectCfg of a configuration selected anew: another        *)
(* demoMode builds the tab again, the mode of the radar stays what it was. *)
NewPresence ==
  /\ \E demoMode \in 0 .. 2 \ {panel.demoMode} : panel' = Built(panel, demoMode)
  /\ asBuilt' = TRUE
  /\ UNCHANGED <<frame, net, announced, confident>>

-----------------------------------------------------------------------------
(* A gesture is announced when it was probable in enough of the last       *)
(* frames, counting every frame once.                                      *)
GesturesConfirmed == \A k \in announced : Times(confident, k) > Needed[k]

(* The text tells the mode of the radar, but for the second in which it    *)
(* tells a gesture, and so does the status below it; both once the mode    *)
(* changed since the tab was built.  Until then the tab may say what a     *)
(* configuration has set it to, whatever the mode of the radar is.         *)
ModeIsShown(device) ==
  device = "x432" => \/ asBuilt /\ panel.text = 0
                     \/ /\ panel.text = Mutual(panel.mode) \/ (panel.timer /\ panel.text \in Kinds \ {0})
                        /\ asBuilt \/ panel.status = panel.mode
=============================================================================
