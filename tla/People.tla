------------------------------- MODULE People -------------------------------
(***************************************************************************)
(* The tracks on the displays of old-visualizer/Demo_Classes: the labels   *)
(* Human and Non-Human (Helper_Classes/classification.py, shown by         *)
(* out_of_box_x432.py), the falls (Helper_Classes/fall_detection.py, shown *)
(* by people_tracking.py) and the thread that draws the points and tracks  *)
(* of a frame (gui_threads.py).  A frame is the set of its tracks with     *)
(* what the classifier and the heights say of each.                        *)
(***************************************************************************)
EXTENDS Integers, Sequences, FiniteSets

CONSTANTS
  Ids,          \* the numbers of the tracks, which the radar uses again
  TagLen,       \* TAG_HISTORY_LEN, 5
  MaxUnknown,   \* MAX_NUM_UNKNOWN_TAGS_FOR_HUMAN_DETECTION, 1
  HeightLen,    \* heightHistoryLen, the frames of 2.5 s
  ShowFrames,   \* numFramesToDisplayFall, 100
  Heights,      \* bound: the heights given
  Threshold,    \* fallingThresholdProportion in tenths, 6
  MaxDone       \* bound: signals of threads on their way

ASSUME PeopleAssumption ==
  /\ Ids \subseteq Nat /\ IsFiniteSet(Ids) /\ Heights \subseteq Int
  /\ TagLen \in Nat \ {0} /\ HeightLen \in Nat \ {0} /\ ShowFrames \in Nat \ {0}
  /\ MaxUnknown \in Nat /\ Threshold \in Nat /\ MaxDone \in Nat

VARIABLES
  classifier,  \* ClassificationSupplement: tags, human, previous, and the labels of the frame
  fall,        \* FallDetection: buffer, previous, display
  falling,     \* the tracks shown with FALL DETECTED
  screen,      \* the tab, the box for falls, plotComplete, the thread that draws
  seen,        \* history: confident frames of each class since the track was absent
  since,       \* history: the heights of a track since it was absent
  dropped,     \* history: steps since a height of this number dropped
  hurried      \* history: plotComplete was set while a frame was drawn

noted == <<since, dropped>>
people == <<classifier, fall, falling, screen, seen, noted, hurried>>

(* deque.appendleft of a full deque *)
AppendLeft(s, x) == <<x>> \o SubSeq(s, 1, Len(s) - 1)
Filled(n, x) == [i \in 1 .. n |-> x]

(* Mutant: the sets are swapped *)
Appeared(previous, now) == now \ previous
Vanished(previous, now) == previous \ now

-----------------------------------------------------------------------------
(* Labels.  "unsure" stands for a probability of 0.5 and for two that are  *)
(* not above 0.6.                                                          *)
Classes == {"human", "other"}
Count(tags, class) == Cardinality({i \in DOMAIN tags : tags[i] = class})

Decision(tags) ==
  CASE Count(tags, "unknown") > MaxUnknown \/ Count(tags, "human") = Count(tags, "other") -> "Unknown Label"
    [] OTHER -> IF Count(tags, "human") > Count(tags, "other") THEN "Human" ELSE "Non-Human"

(* A human that stands still keeps its tags *)
Tagged(id, c) ==
  IF c.class = "unsure" \/ (classifier.human[id] /\ c.slow) THEN classifier.tags[id]
  ELSE AppendLeft(classifier.tags[id], c.class)

(* run_frame; classes is empty when the frame lacks tracks or classes *)
RunFrame(classes) ==
  LET now == DOMAIN classes
      tags == [id \in Ids |-> IF id \in now THEN Tagged(id, classes[id])
                              ELSE IF id \in Vanished(classifier.previous, now) THEN Filled(TagLen, "unknown")
                              ELSE classifier.tags[id]]
      labels == [id \in now |-> Decision(tags[id])]
  IN  classifier' = [tags |-> tags, previous |-> now, labels |-> labels,
                     human |-> [id \in Ids |-> IF id \in now THEN labels[id] = "Human"
                                               ELSE classifier.human[id] /\ id \notin classifier.previous]]

NoneSeen == [c \in Classes |-> 0]
OneMore(n, most) == IF n < most THEN n + 1 ELSE n
SeenWith(classes) ==
  [id \in Ids |-> IF id \notin DOMAIN classes THEN NoneSeen
                  ELSE [c \in Classes |-> IF classes[id].class = c THEN OneMore(seen[id][c], TagLen) ELSE seen[id][c]]]

-----------------------------------------------------------------------------
(* Falls *)
Fallen(buffer) == 10 * buffer[1] < Threshold * buffer[Len(buffer)]
(* Mutant: a fall stays on the screen *)
Stays(n) == n
Less(n) == IF n > 0 THEN n - 1 ELSE 0

(* step, for the tracks that have a height *)
Stepped(f, heights) ==
  LET now == DOMAIN heights
      buffer == [id \in Ids |-> IF id \in now THEN AppendLeft(f.buffer[id], heights[id])
                                ELSE IF id \in Vanished(f.previous, now) THEN Filled(HeightLen, -5)
                                ELSE f.buffer[id]]
  IN  [buffer |-> buffer, previous |-> now,
       display |-> [id \in Ids |-> IF id \in now /\ Fallen(buffer[id]) THEN ShowFrames ELSE Less(f.display[id])]]

(* The display makes a step for every track with a height, so that a frame *)
(* of two tracks makes two: Turn is the place of a track among them.       *)
Turn(id, heights) == Cardinality({i \in DOMAIN heights : i <= id})
Steps(heights) ==
  LET after[k \in 0 .. Cardinality(DOMAIN heights)] == IF k = 0 THEN fall ELSE Stepped(after[k - 1], heights)
  IN  after

UpdateFalls(heights) ==
  IF screen.falls
  THEN \E after \in {Steps(heights)} :
         /\ fall' = after[Cardinality(DOMAIN heights)]
         /\ falling' = {id \in DOMAIN heights : after[Turn(id, heights)].display[id] > 0}
  ELSE UNCHANGED fall /\ falling' = {}

(* A step tells a track that is gone from one that is there; a frame       *)
(* without heights makes none, and goes unnoticed.  A number keeps its     *)
(* drops when another track takes it.                                      *)
Noted(heights) == screen.falls /\ heights # <<>>
Drops(id, h) == \E i \in DOMAIN since[id] : 10 * h < Threshold * since[id][i]
NoteHeights(heights) ==
  IF Noted(heights)
  THEN /\ since' = [id \in Ids |-> IF id \in DOMAIN heights
                                   THEN SubSeq(<<heights[id]>> \o since[id], 1, IF Len(since[id]) < HeightLen THEN Len(since[id]) + 1 ELSE HeightLen)
                                   ELSE <<>>]
       /\ dropped' = [id \in Ids |-> IF id \in DOMAIN heights /\ Drops(id, heights[id]) THEN 0
                                     ELSE OneMore(dropped[id], ShowFrames)]
  ELSE UNCHANGED noted

-----------------------------------------------------------------------------
(* Drawing *)
PeopleInit ==
  /\ classifier = [tags |-> [id \in Ids |-> Filled(TagLen, "unknown")], human |-> [id \in Ids |-> FALSE],
                   previous |-> {}, labels |-> <<>>]
  /\ fall = [buffer |-> [id \in Ids |-> Filled(HeightLen, -5)], previous |-> {}, display |-> [id \in Ids |-> 0]]
  /\ falling = {}
  /\ screen = [tab |-> "3D", falls |-> FALSE, complete |-> TRUE, thread |-> "none", done |-> 0, crashed |-> "no"]
  /\ seen = [id \in Ids |-> NoneSeen] /\ since = [id \in Ids |-> <<>>]
  /\ dropped = [id \in Ids |-> ShowFrames] /\ hurried = FALSE

(* Mutant: graphDone is called once the thread is started *)
AtOnce == TRUE
AfterStart == FALSE

Runs == screen.crashed = "no"

(* The thread of the frame before is replaced when plotComplete says that  *)
(* it is done; Qt aborts the program when it has not returned from run.    *)
Plot ==
  CASE screen.tab # "3D" ->
         screen' = [screen EXCEPT !.complete = TRUE] /\ hurried' = (hurried \/ screen.thread = "draws" \/ screen.done > 0)
    [] screen.tab = "3D" /\ screen.complete ->
         /\ screen' = [screen EXCEPT !.complete = AfterStart, !.thread = "draws",
                                     !.crashed = IF screen.thread = "none" THEN "no" ELSE screen.thread]
         /\ UNCHANGED hurried
    [] OTHER -> UNCHANGED <<screen, hurried>>

(* parseStandardFrame labels the tracks; updateGraph shows the frame       *)
PeopleFrame(classes, heights) ==
  /\ Runs
  /\ RunFrame(classes) /\ seen' = SeenWith(classes)
  /\ IF screen.tab = "3D" THEN UpdateFalls(heights) /\ NoteHeights(heights)
     ELSE UNCHANGED <<fall, falling, noted>>
  /\ Plot

(* updateQTTargetThread3D.run emits done, and then returns *)
Draw ==
  /\ Runs /\ screen.thread = "draws" /\ screen.done < MaxDone
  /\ screen' = [screen EXCEPT !.thread = "ends", !.done = @ + 1]
  /\ UNCHANGED <<classifier, fall, falling, seen, noted, hurried>>

Return ==
  /\ Runs /\ screen.thread = "ends" /\ screen' = [screen EXCEPT !.thread = "none"]
  /\ UNCHANGED <<classifier, fall, falling, seen, noted, hurried>>

GraphDone ==
  /\ Runs /\ screen.done > 0
  /\ screen' = [screen EXCEPT !.complete = TRUE, !.done = @ - 1]
  /\ hurried' = (hurried \/ screen.thread = "draws")
  /\ UNCHANGED <<classifier, fall, falling, seen, noted>>

SwitchTab ==
  /\ Runs
  /\ screen' = [screen EXCEPT !.tab = IF @ = "3D" THEN "range" ELSE "3D"]
  /\ UNCHANGED <<classifier, fall, falling, seen, noted, hurried>>

ToggleFalls ==
  /\ Runs /\ screen' = [screen EXCEPT !.falls = ~@]
  /\ UNCHANGED <<classifier, fall, falling, seen, noted, hurried>>

(* gracefulReset terminates the thread, and plotComplete stays as it is *)
StopDrawing ==
  /\ Runs /\ screen' = [screen EXCEPT !.thread = "none"]
  /\ UNCHANGED <<classifier, fall, falling, seen, noted, hurried>>

(* parseTrackingCfg of a configuration selected anew *)
NewTracking ==
  /\ Runs
  /\ fall' = [buffer |-> [id \in Ids |-> Filled(HeightLen, -5)], previous |-> {}, display |-> [id \in Ids |-> 0]]
  /\ since' = [id \in Ids |-> <<>>]
  /\ UNCHANGED <<classifier, falling, screen, seen, dropped, hurried>>

-----------------------------------------------------------------------------
(* A track has a label when enough confident frames, of which most say so, *)
(* came since its number was last absent: never by those of another track  *)
(* that had the number before.                                             *)
LabelsHaveEvidence ==
  \A id \in DOMAIN classifier.labels :
    LET class == IF classifier.labels[id] = "Human" THEN "human" ELSE "other"
    IN  classifier.labels[id] # "Unknown Label" =>
          /\ seen[id]["human"] + seen[id]["other"] >= TagLen - MaxUnknown
          /\ 2 * seen[id][class] > TagLen - MaxUnknown

(* A fall is shown of a number when a height of a track that has it, or    *)
(* had it before, dropped below the threshold of one the same track had    *)
(* since the last step without it, and no longer than the frames it is to  *)
(* be shown for: heights of two tracks are never compared.                 *)
FallsHaveDrops == \A id \in falling : dropped[id] < ShowFrames

(* A thread that still has its frame to draw is replaced, at which the     *)
(* program aborts, only after the other tab took plotComplete as its own.  *)
(* One that has emitted done may be replaced before it returns.            *)
DrawerIsSafe == screen.crashed = "draws" => hurried
=============================================================================
