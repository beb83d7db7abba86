--------------------------- MODULE DisplaysProofs ---------------------------
(***************************************************************************)
(* Module Displays for any tracks, histories, gestures, plot delays and    *)
(* number of signals on their way: the thread that draws is replaced while *)
(* it draws only after the other tab took plotComplete, the texts of the   *)
(* gesture display tell the mode of the radar once it changed, labels and  *)
(* gestures are shown on evidence of their own, and a fall only while a    *)
(* drop of a track of that number is recent.                               *)
(***************************************************************************)
EXTENDS Displays, SequenceTheorems, FiniteSetTheorems, WellFoundedInduction, TLAPS

Screen == [tab : {"3D", "range"}, falls : BOOLEAN, complete : BOOLEAN, thread : {"none", "draws", "ends"},
           done : Nat, crashed : {"no", "draws", "ends"}]

ScreenTypeOK == screen \in Screen /\ hurried \in BOOLEAN

(* Until plotComplete is taken by the other tab, a frame is either being   *)
(* drawn, or its signal is on the way, or plotComplete is set - or the     *)
(* thread was stopped and none of the three will come.                     *)
OneDrawer ==
  ~hurried => /\ screen.complete => screen.thread # "draws" /\ screen.done = 0
              /\ screen.thread = "draws" => screen.done = 0
              /\ screen.done =< 1

DrawerInv == ScreenTypeOK /\ OneDrawer /\ DrawerIsSafe

-----------------------------------------------------------------------------
LEMMA DrawerInit == Init => DrawerInv
<1> SUFFICES ASSUME Init PROVE DrawerInv
  OBVIOUS
<1>1. /\ screen = [tab |-> "3D", falls |-> FALSE, complete |-> TRUE, thread |-> "none", done |-> 0, crashed |-> "no"]
      /\ hurried = FALSE
  BY DEF Init, PeopleInit
<1>2. ScreenTypeOK
  BY <1>1 DEF ScreenTypeOK, Screen
<1>3. OneDrawer /\ DrawerIsSafe
  BY <1>1 DEF OneDrawer, DrawerIsSafe
<1> QED BY <1>2, <1>3 DEF DrawerInv

(* A frame draws in a new thread, or finds the other tab, or is passed over *)
LEMMA PlotStep == DrawerInv /\ Runs /\ Plot => DrawerInv'
<1> SUFFICES ASSUME DrawerInv, Runs, Plot PROVE DrawerInv'
  OBVIOUS
<1> USE DEF DrawerInv, ScreenTypeOK
<1>1. CASE screen.tab # "3D"
  <2>1. /\ screen' = [screen EXCEPT !.complete = TRUE]
        /\ hurried' = (hurried \/ screen.thread = "draws" \/ screen.done > 0)
    BY <1>1 DEF Plot
  <2>2. ScreenTypeOK'
    BY <2>1 DEF Screen
  <2>3. /\ ~hurried' => ~hurried /\ screen.thread # "draws" /\ ~(screen.done > 0)
        /\ screen.done \in Nat
        /\ screen'.thread = screen.thread /\ screen'.done = screen.done /\ screen'.crashed = screen.crashed
    BY <2>1 DEF Screen
  <2>4. OneDrawer' /\ DrawerIsSafe'
    BY <2>3 DEF OneDrawer, DrawerIsSafe
  <2> QED BY <2>2, <2>4
<1>2. CASE screen.tab = "3D" /\ screen.complete
  <2> DEFINE crashed == IF screen.thread = "none" THEN "no" ELSE screen.thread
  <2>1. /\ screen' = [screen EXCEPT !.complete = FALSE, !.thread = "draws", !.crashed = crashed]
        /\ hurried' = hurried
    BY <1>2 DEF Plot, AfterStart
  <2>2. crashed \in {"no", "draws", "ends"} /\ (crashed = "draws" => screen.thread = "draws")
    BY DEF Screen
  <2> HIDE DEF crashed
  <2>3. /\ screen'.complete = FALSE /\ screen'.thread = "draws"
        /\ screen'.done = screen.done /\ screen'.crashed = crashed
    BY <2>1 DEF Screen
  <2>4. ScreenTypeOK'
    BY <2>1, <2>2 DEF Screen
  <2>5. OneDrawer' /\ DrawerIsSafe'
    BY <1>2, <2>1, <2>2, <2>3 DEF OneDrawer, DrawerIsSafe
  <2> QED BY <2>4, <2>5
<1>3. CASE screen.tab = "3D" /\ ~screen.complete
  <2>1. screen' = screen /\ hurried' = hurried
    BY <1>3 DEF Plot
  <2> QED BY <2>1 DEF Screen, OneDrawer, DrawerIsSafe
<1> QED BY <1>1, <1>2, <1>3

(* The thread has drawn, and its signal is on the way *)
LEMMA DrawStep == DrawerInv /\ Draw => DrawerInv'
<1> SUFFICES ASSUME DrawerInv, Draw PROVE DrawerInv'
  OBVIOUS
<1>1. /\ screen \in Screen /\ hurried' = hurried /\ screen.thread = "draws" /\ screen.crashed = "no"
      /\ screen' = [screen EXCEPT !.thread = "ends", !.done = screen.done + 1]
  BY DEF Draw, Runs, DrawerInv, ScreenTypeOK
<1>2. /\ screen'.complete = screen.complete /\ screen'.thread = "ends"
      /\ screen'.done = screen.done + 1 /\ screen'.crashed = screen.crashed
      /\ screen.done \in Nat
  BY <1>1 DEF Screen
<1>3. screen.done + 1 \in Nat
  BY <1>2
<1>4. ScreenTypeOK'
  BY <1>1, <1>3 DEF Screen, DrawerInv, ScreenTypeOK
<1>5. OneDrawer' /\ DrawerIsSafe'
  BY <1>1, <1>2 DEF OneDrawer, DrawerIsSafe, DrawerInv
<1> QED BY <1>4, <1>5 DEF DrawerInv

(* The signal of a thread that has drawn arrives *)
LEMMA GraphDoneStep == DrawerInv /\ GraphDone => DrawerInv'
<1> SUFFICES ASSUME DrawerInv, GraphDone PROVE DrawerInv'
  OBVIOUS
<1>1. /\ screen \in Screen /\ hurried' = (hurried \/ screen.thread = "draws") /\ screen.done > 0
      /\ screen' = [screen EXCEPT !.complete = TRUE, !.done = screen.done - 1]
  BY DEF GraphDone, DrawerInv, ScreenTypeOK
<1>2. /\ screen'.complete = TRUE /\ screen'.thread = screen.thread
      /\ screen'.done = screen.done - 1 /\ screen'.crashed = screen.crashed
      /\ screen.done \in Nat
  BY <1>1 DEF Screen
<1>3. screen.done - 1 \in Nat
  BY <1>1, <1>2
<1>4. ScreenTypeOK'
  BY <1>1, <1>3 DEF Screen, DrawerInv, ScreenTypeOK
<1>5. /\ ~hurried' => ~hurried /\ screen.thread # "draws"
      /\ OneDrawer
  BY <1>1 DEF DrawerInv
<1>6. OneDrawer' /\ DrawerIsSafe'
  BY <1>1, <1>2, <1>5 DEF OneDrawer, DrawerIsSafe, DrawerInv
<1> QED BY <1>4, <1>6 DEF DrawerInv

LEMMA DrawerStep == DrawerInv /\ [Next]_vars => DrawerInv'
<1> SUFFICES ASSUME DrawerInv, [Next]_vars PROVE DrawerInv'
  OBVIOUS
<1>1. ASSUME NEW classes, NEW heights, PeopleFrame(classes, heights) PROVE DrawerInv'
  BY <1>1, PlotStep DEF PeopleFrame
<1>2. CASE ShowPeople
  BY <1>1, <1>2 DEF ShowPeople
<1>3. CASE Draw \/ GraphDone
  BY <1>3, DrawStep, GraphDoneStep
<1> USE DEF DrawerInv, ScreenTypeOK, Screen, OneDrawer, DrawerIsSafe
<1>4. CASE SwitchTab
  BY <1>4 DEF SwitchTab
<1>5. CASE ToggleFalls
  BY <1>5 DEF ToggleFalls
<1>6. CASE StopDrawing \/ Return
  BY <1>6 DEF StopDrawing, Return
<1>7. CASE NewTracking
  BY <1>7 DEF NewTracking
<1>8. CASE UNCHANGED people
  BY <1>8 DEF people
<1>9. UNCHANGED vars => UNCHANGED people
  BY DEF vars
<1> QED BY <1>2, <1>3, <1>4, <1>5, <1>6, <1>7, <1>8, <1>9 DEF Next

-----------------------------------------------------------------------------
(* updateGraph replaces a thread that has its frame still to draw - at     *)
(* which Qt aborts the program - only after the other tab took             *)
(* plotComplete as its own: no order of frames and signals alone lets it.  *)
(* Of a thread that has emitted done and not returned it says nothing.     *)
THEOREM DisplaysReplaceSafely == Spec => []DrawerIsSafe
<1>1. DrawerInv => DrawerIsSafe
  BY DEF DrawerInv
<1> QED BY <1>1, DrawerInit, DrawerStep, PTL DEF Spec

-----------------------------------------------------------------------------
Panel == [text : Int, status : {"send", "gesture", "presence"}, demoMode : Int, timer : BOOLEAN, mode : Modes,
          isOn : BOOLEAN, delayP : Nat, delayD : Nat, presence : BOOLEAN, doppler : BOOLEAN]

(* What the text, its timer and the mode must be to each other *)
TellsMode(p) == p.text = Mutual(p.mode) \/ (p.timer /\ p.text \in Kinds \ {0})

(* The same of a tab that may be as it was built, or whose status follows  *)
(* the mode                                                                *)
Tells(p, built) == \/ built /\ p.text = 0
                   \/ TellsMode(p) /\ (built \/ p.status = p.mode)

PanelInv == demo = "x432" => panel \in Panel /\ asBuilt \in BOOLEAN /\ Tells(panel, asBuilt)

(* A change of mode tells the new mode, or nothing changes *)
LEMMA ChangedTells ==
  ASSUME NEW p \in Panel, NEW b \in BOOLEAN, Tells(p, b), NEW mode \in Modes
  PROVE  Changed(p, mode) \in Panel /\ Tells(Changed(p, mode), b /\ Changed(p, mode).mode = p.mode)
<1>1. CASE p.mode = mode
  <2>1. Changed(p, mode) = p
    BY <1>1 DEF Changed
  <2> QED BY <2>1
<1>2. CASE p.mode # mode
  <2>1. Mutual(mode) \in Int
    BY DEF Mutual, Searching
  <2> DEFINE told == [p EXCEPT !.text = Mutual(mode), !.timer = TRUE]
  <2>2. told \in Panel /\ told.text = Mutual(mode)
    BY <2>1 DEF Panel
  <2>3. Changed(p, mode) =
          [told EXCEPT !.mode = mode, !.status = mode, !.isOn = (mode = "gesture"),
             !.delayP = IF mode = "presence" THEN 0 ELSE told.delayP,
             !.delayD = IF mode = "gesture" THEN 0 ELSE told.delayD,
             !.presence = told.presence \/ mode = "presence", !.doppler = told.doppler \/ mode = "gesture"]
    BY <1>2 DEF Changed, Retold, Shown
  <2> HIDE DEF told
  <2> DEFINE on == (mode = "gesture")
             dp == IF mode = "presence" THEN 0 ELSE told.delayP
             dd == IF mode = "gesture" THEN 0 ELSE told.delayD
             pr == (told.presence \/ mode = "presence")
             do == (told.doppler \/ mode = "gesture")
  <2>4. on \in BOOLEAN /\ dp \in Nat /\ dd \in Nat /\ pr \in BOOLEAN /\ do \in BOOLEAN
        /\ mode \in {"send", "gesture", "presence"}
    BY <2>2 DEF Panel, Modes
  <2>5. Changed(p, mode) = [told EXCEPT !.mode = mode, !.status = mode, !.isOn = on, !.delayP = dp, !.delayD = dd,
                                        !.presence = pr, !.doppler = do]
    BY <2>3
  <2> HIDE DEF on, dp, dd, pr, do
  <2> DEFINE half == [told EXCEPT !.mode = mode, !.status = mode, !.isOn = on]
  <2>6. half \in Panel /\ half.text = told.text /\ half.mode = mode /\ half.status = mode
    BY <2>2, <2>4 DEF Panel
  <2>7. Changed(p, mode) = [half EXCEPT !.delayP = dp, !.delayD = dd, !.presence = pr, !.doppler = do]
    BY <2>2, <2>5 DEF Panel
  <2> HIDE DEF half
  <2>8. /\ Changed(p, mode) \in Panel /\ Changed(p, mode).text = told.text
        /\ Changed(p, mode).mode = mode /\ Changed(p, mode).status = mode
    BY <2>4, <2>6, <2>7 DEF Panel
  <2> QED BY <2>2, <2>8 DEF TellsMode, Tells
<1> QED BY <1>1, <1>2

(* The plots come and go without the text *)
LEMMA PlotsLeaveText ==
  ASSUME NEW p \in Panel, NEW b, Tells(p, b)
  PROVE  /\ Hidden(Counted(p)) \in Panel /\ Tells(Hidden(Counted(p)), b)
         /\ Hidden(Counted(p)).mode = p.mode
<1>1. PlotDelay \in Nat
  BY GesturesAssumption
<1> DEFINE c == Counted(p)
<1>2. c \in Panel /\ c.text = p.text /\ c.mode = p.mode /\ c.timer = p.timer /\ c.status = p.status
  BY <1>1 DEF Counted, Panel, Most
<1> HIDE DEF c
<1>3. /\ Hidden(c) \in Panel
      /\ Hidden(c).text = c.text /\ Hidden(c).mode = c.mode /\ Hidden(c).timer = c.timer
      /\ Hidden(c).status = c.status
  BY <1>2 DEF Hidden, Panel
<1>4. Tells(Hidden(c), b)
  BY <1>2, <1>3 DEF TellsMode, Tells
<1> QED BY <1>2, <1>3, <1>4 DEF c

(* A tab built again says nothing yet *)
LEMMA BuiltIsPanel ==
  ASSUME NEW p \in Panel, NEW demoMode \in 0 .. 2
  PROVE  Built(p, demoMode) \in Panel /\ Built(p, demoMode).text = 0
<1> DEFINE pr == (demoMode # 0)
           do == (demoMode = 0)
           st == IF demoMode = 0 THEN "gesture" ELSE "send"
<1>1. Built(p, demoMode) = [p EXCEPT !.text = 0, !.status = st, !.demoMode = demoMode, !.presence = pr, !.doppler = do]
  BY DEF Built
<1>2. pr \in BOOLEAN /\ do \in BOOLEAN /\ st \in {"send", "gesture", "presence"} /\ demoMode \in Int
  OBVIOUS
<1> HIDE DEF pr, do, st
<1> DEFINE half == [p EXCEPT !.text = 0, !.status = st]
<1>3. half \in Panel /\ half.text = 0
  <2>1. ASSUME NEW x \in Int, NEW y \in {"send", "gesture", "presence"}
        PROVE  [p EXCEPT !.text = x, !.status = y] \in Panel /\ [p EXCEPT !.text = x, !.status = y].text = x
    BY DEF Panel
  <2>2. 0 \in Int /\ st \in {"send", "gesture", "presence"}
    BY <1>2
  <2> QED BY <2>1, <2>2, Zenon
<1>4. Built(p, demoMode) = [half EXCEPT !.demoMode = demoMode, !.presence = pr, !.doppler = do]
  BY <1>1 DEF Panel
<1> HIDE DEF half
<1> QED BY <1>2, <1>3, <1>4 DEF Panel

LEMMA PanelInit == Init => PanelInv
<1> SUFFICES ASSUME Init PROVE PanelInv
  OBVIOUS
<1>1. /\ panel = [text |-> 0, status |-> "send", demoMode |-> 1, timer |-> FALSE, mode |-> "gesture", isOn |-> FALSE,
                  delayP |-> 0, delayD |-> 0, presence |-> TRUE, doppler |-> FALSE]
      /\ asBuilt = TRUE
  BY DEF Init, GesturesInit
<1>2. panel \in Panel /\ panel.text = 0
  BY <1>1 DEF Panel, Modes
<1> QED BY <1>1, <1>2 DEF PanelInv, Tells

(* A frame tells its gesture, and then its mode *)
LEMMA ModeFrameTells == ASSUME PanelInv, demo = "x432", ModeFrame
                        PROVE  panel' \in Panel /\ asBuilt' \in BOOLEAN /\ Tells(panel', asBuilt')
<1>1. panel \in Panel /\ asBuilt \in BOOLEAN /\ Tells(panel, asBuilt)
  BY DEF PanelInv
<1>2. PICK k \in Kinds \cup {None}, mode \in Modes \cup {"none"} :
        LET told == IF k \in {None, 0} THEN panel ELSE Shown(panel, k)
        IN  panel' = IF mode = "none" THEN told ELSE Hidden(Counted(Changed(told, mode)))
  BY DEF ModeFrame
<1> DEFINE told == IF k \in {None, 0} THEN panel ELSE Shown(panel, k)
<1>3. panel' = IF mode = "none" THEN told ELSE Hidden(Counted(Changed(told, mode)))
  BY <1>2
<1>4. told \in Panel /\ Tells(told, asBuilt) /\ told.mode = panel.mode
  <2>1. CASE k \in {None, 0}
    BY <1>1, <2>1
  <2>2. CASE k \notin {None, 0}
    <3>1. k \in Kinds \ {0} /\ k \in Int
      <4>1. Cardinality(Kinds) \in Nat
        BY GesturesAssumption, FS_CardinalityType
      <4>2. Kinds \subseteq Int
        BY <4>1, GesturesAssumption
      <4> QED BY <2>2, <4>2
    <3>2. told = [panel EXCEPT !.text = k, !.timer = TRUE]
      BY <2>2 DEF Shown
    <3>3. /\ told \in Panel /\ told.text = k /\ told.timer = TRUE
          /\ told.status = panel.status /\ told.mode = panel.mode
      BY <1>1, <3>1, <3>2 DEF Panel
    <3>4. asBuilt \/ panel.status = panel.mode
      BY <1>1 DEF Tells
    <3> QED BY <3>1, <3>3, <3>4 DEF TellsMode, Tells
  <2> QED BY <2>1, <2>2
<1>5. asBuilt' = (asBuilt /\ panel'.mode = told.mode)
  BY <1>4 DEF ModeFrame
<1> HIDE DEF told
<1>6. CASE mode = "none"
  <2>1. panel' = told
    BY <1>3, <1>6
  <2>2. asBuilt' = asBuilt
    BY <1>1, <1>5, <2>1
  <2> QED BY <1>1, <1>4, <2>1, <2>2
<1>7. CASE mode # "none"
  <2> DEFINE c == Changed(told, mode)
             b == (asBuilt /\ c.mode = told.mode)
  <2>1. c \in Panel /\ Tells(c, b)
    BY <1>1, <1>4, <1>7, ChangedTells
  <2>2. panel' = Hidden(Counted(c))
    BY <1>3, <1>7
  <2> HIDE DEF c
  <2>3. panel' \in Panel /\ Tells(panel', b) /\ panel'.mode = c.mode
    BY <2>1, <2>2, PlotsLeaveText
  <2>4. asBuilt' = b
    BY <1>5, <2>3
  <2>5. b \in BOOLEAN
    BY <1>1
  <2> HIDE DEF b
  <2> QED BY <2>3, <2>4, <2>5
<1> QED BY <1>6, <1>7

LEMMA PanelStep == PanelInv /\ [Next]_vars => PanelInv'
<1> SUFFICES ASSUME PanelInv, [Next]_vars, demo' = "x432"
             PROVE  panel' \in Panel /\ asBuilt' \in BOOLEAN /\ Tells(panel', asBuilt')
  BY DEF PanelInv, Tells, TellsMode
<1>1. demo = "x432" /\ panel \in Panel /\ asBuilt \in BOOLEAN /\ Tells(panel, asBuilt)
  BY DEF PanelInv, Next, vars
<1>2. CASE ModeFrame
  BY <1>1, <1>2, ModeFrameTells
<1>3. CASE GestureTimeout(demo)
  <2>1. panel' = [panel EXCEPT !.timer = FALSE, !.text = Mutual(panel.mode)] /\ asBuilt' = asBuilt
    BY <1>1, <1>3 DEF GestureTimeout
  <2>2. Mutual(panel.mode) \in Int /\ (panel.mode = "gesture" => Mutual(panel.mode) = 0)
    BY DEF Mutual, Searching
  <2>3. /\ panel' \in Panel /\ panel'.text = Mutual(panel.mode) /\ panel'.mode = panel.mode
        /\ panel'.status = panel.status
    BY <1>1, <2>1, <2>2 DEF Panel
  <2>4. asBuilt \/ panel.status = panel.mode
    BY <1>1 DEF Tells
  <2> QED BY <1>1, <2>1, <2>3, <2>4 DEF TellsMode, Tells
<1>4. CASE NewPresence
  <2>1. PICK demoMode \in 0 .. 2 : panel' = Built(panel, demoMode)
    BY <1>4 DEF NewPresence
  <2>2. asBuilt' = TRUE
    BY <1>4 DEF NewPresence
  <2>3. panel' \in Panel /\ panel'.text = 0
    BY <1>1, <2>1, BuiltIsPanel
  <2> QED BY <2>2, <2>3 DEF Tells
<1>5. CASE UNCHANGED vars
  BY <1>1, <1>5 DEF vars, gestures
<1> QED BY <1>1, <1>2, <1>3, <1>4, <1>5 DEF Next, ShowGestures

(* On an x432 the text and the status below it tell the mode the radar is  *)
(* in, but for the second in which the text tells a gesture                *)
(* (gesturePresenceHandler), in whatever order gestures, modes, the timer  *)
(* and configurations come - once the mode changed since the tab was       *)
(* built, which parsePresenceDetectCfg does without asking for the mode.   *)
THEOREM DisplaysTellMode == Spec => []ModeIsTold
<1>1. PanelInv => ModeIsTold
  BY DEF PanelInv, Tells, TellsMode, ModeIsShown, ModeIsTold
<1> QED BY <1>1, PanelInit, PanelStep, PTL DEF Spec

(* Induction, for sets of numbers *)

LEMMA NatMin ==
  ASSUME NEW T, T \subseteq Nat, T # {}
  PROVE  \E x \in T : \A y \in T : x =< y
<1> DEFINE R == OpToRel(<, Nat)
<1>1. IsWellFoundedOn(R, Nat)
  BY NatLessThanWellFounded
<1>2. R = {ss \in Nat \X Nat : ss[1] < ss[2]}
  BY DEF OpToRel
<1> HIDE DEF R
<1>3. PICK x \in T : \A y \in T : ~ (<<y, x>> \in R)
  BY <1>1, WFMin
<1>4. ASSUME NEW y \in T PROVE x =< y
  <2>1. x \in Nat /\ y \in Nat /\ <<y, x>> \notin R
    BY <1>3
  <2>2. ~ (y < x)
    BY <1>2, <2>1
  <2> QED BY <2>1, <2>2
<1> QED BY <1>4

LEMMA SetInduction ==
  ASSUME NEW T, 0 \in T, \A k \in Nat : k \in T => k + 1 \in T
  PROVE  Nat \subseteq T
<1> SUFFICES ASSUME Nat \ T # {} PROVE FALSE
  OBVIOUS
<1>1. PICK x \in Nat \ T : \A y \in Nat \ T : x =< y
  BY NatMin
<1>2. x # 0 /\ x - 1 \in Nat /\ (x - 1) + 1 = x
  BY <1>1
<1>3. x - 1 \notin T
  BY <1>2
<1>4. ~ (x =< x - 1)
  BY <1>2
<1> QED BY <1>1, <1>2, <1>3, <1>4

-----------------------------------------------------------------------------
(* The gestures of the network: its window holds what the last frames were *)
(* confident of, a frame shown again included once.                        *)
NetInv ==
  /\ frame \in Nat /\ confident = net.window
  /\ net.last # None => net.last = frame /\ demo = "x843"
  /\ GesturesConfirmed

(* The gesture chosen, if any, was probable often enough *)
LEMMA CurrentIsOften ==
  ASSUME NEW window, Current(window) # 0
  PROVE  Times(window, Current(window)) > Needed[Current(window)]
<1> DEFINE often == {k \in Kinds : Times(window, k) > Needed[k]}
           n == Cardinality(Kinds) - 1
           T == {m \in Nat : n - m \in often}
<1>1. Kinds = 0 .. n /\ n \in Int
  BY GesturesAssumption, FS_CardinalityType
<1> HIDE DEF n
<1>2. often # {}
  BY DEF Current
<1>3. PICK k \in often : TRUE
  BY <1>2
<1>4. n - k \in T
  BY <1>1, <1>3
<1>5. PICK x \in T : \A y \in T : x =< y
  <2> HIDE DEF T
  <2>1. T \subseteq Nat
    BY DEF T
  <2> QED BY <1>4, <2>1, NatMin
<1>6. n - x \in often /\ x \in Nat
  BY <1>5
<1>7. ASSUME NEW j \in often PROVE j <= n - x
  <2>1. n - j \in Nat /\ n - (n - j) = j
    BY <1>1
  <2>2. n - j \in T
    BY <2>1
  <2>3. x =< n - j
    BY <1>5, <2>2
  <2> QED BY <1>1, <1>6, <2>1, <2>3
<1>8. Current(window) = CHOOSE i \in often : \A other \in often : other <= i
  BY <1>2 DEF Current
<1>9. Current(window) \in often
  <2> HIDE DEF often
  <2> QED BY <1>6, <1>7, <1>8
<1> QED BY <1>9

(* What is announced was chosen, and is a gesture *)
LEMMA AnnouncedIsCurrent ==
  ASSUME NEW previous, NEW current, NEW k \in Announces(previous, current)
  PROVE  k = current /\ current # 0
BY GesturesAssumption DEF Announces

LEMMA NetInit == Init => NetInv
<1> SUFFICES ASSUME Init PROVE NetInv
  OBVIOUS
<1>1. /\ frame = 0 /\ net.window = [i \in 1 .. Window |-> {}] /\ net.last = None
      /\ announced = {} /\ confident = [i \in 1 .. Window |-> {}]
  BY DEF Init, GesturesInit
<1> QED BY <1>1 DEF NetInv, GesturesConfirmed

LEMMA NetworkFrameStep ==
  ASSUME NetInv, demo = "x843", demo' = demo, NetworkFrame
  PROVE  NetInv'
<1>1. PICK probable \in SUBSET Kinds :
        /\ IF IsNew(net.last) THEN PostProc(probable)
           ELSE announced' = {} /\ UNCHANGED <<net, panel>>
        /\ confident' = IF frame' = frame /\ net.last # None THEN confident ELSE Append(Tail(confident), probable)
  BY DEF NetworkFrame
<1>2. frame' \in Nat /\ frame' # None /\ frame # None /\ frame + 1 # frame /\ frame' \in {frame, frame + 1}
  BY DEF NetInv, NetworkFrame, None
<1>3. CASE IsNew(net.last)
  <2> DEFINE window == Append(Tail(net.window), probable)
             current == Current(window)
  <2>1. net' = [window |-> window, previous |-> current, last |-> frame'] /\ announced' = Announces(net.previous, current)
    BY <1>1, <1>3 DEF PostProc
  <2>2. net.last = None \/ frame' # frame
    BY <1>3 DEF NetInv, IsNew
  <2>3. confident' = window
    BY <1>1, <2>2 DEF NetInv
  <2>4. net'.window = window /\ net'.last = frame'
    BY <2>1
  <2> HIDE DEF window, current
  <2>5. ASSUME NEW k \in announced' PROVE Times(confident', k) > Needed[k]
    <3>1. k = current /\ current # 0
      BY <2>1, <2>5, AnnouncedIsCurrent
    <3> QED BY <2>3, <3>1, CurrentIsOften DEF current
  <2>6. GesturesConfirmed'
    BY <2>5 DEF GesturesConfirmed
  <2> QED BY <1>2, <2>3, <2>4, <2>6 DEF NetInv
<1>4. CASE ~IsNew(net.last)
  <2>1. net.last = frame' /\ net.last = frame
    BY <1>2, <1>4 DEF IsNew, NetInv
  <2>2. frame' = frame /\ net' = net /\ confident' = confident /\ announced' = {}
    BY <1>1, <1>2, <1>4, <2>1
  <2> QED BY <2>2 DEF NetInv, GesturesConfirmed
<1> QED BY <1>3, <1>4

LEMMA NetStep == NetInv /\ [Next]_vars => NetInv'
<1> SUFFICES ASSUME NetInv, [Next]_vars PROVE NetInv'
  OBVIOUS
<1>1. demo' = demo
  BY DEF Next, vars
<1>2. CASE demo = "x843" /\ NetworkFrame
  BY <1>1, <1>2, NetworkFrameStep
<1>3. CASE demo = "x432" /\ ModeFrame
  <2>1. frame' = frame + 1 /\ announced' = {} /\ net' = net /\ confident' = confident
    BY <1>3 DEF ModeFrame
  <2> QED BY <1>1, <1>3, <2>1 DEF NetInv, GesturesConfirmed
<1>4. CASE GestureTimeout(demo) \/ NewPresence \/ UNCHANGED gestures
  <2>1. UNCHANGED <<frame, net, announced, confident>>
    BY <1>4 DEF GestureTimeout, NewPresence, gestures
  <2> QED BY <1>1, <2>1 DEF NetInv, GesturesConfirmed
<1> QED BY <1>2, <1>3, <1>4 DEF Next, vars, ShowGestures

(* A gesture is announced only when the network was confident of it in as  *)
(* many of the last frames as gesturePostProc asks for; a frame shown      *)
(* again does not count twice.                                             *)
THEOREM DisplaysConfirmGestures == Spec => []GesturesConfirmed
<1>1. NetInv => GesturesConfirmed
  BY DEF NetInv
<1> QED BY <1>1, NetInit, NetStep, PTL DEF Spec

-----------------------------------------------------------------------------
(* A full deque keeps its length, and its elements move by one *)
Moved(t, s, x, n) == t[1] = x /\ \A i \in 1 .. n : i # 1 => t[i] = s[i - 1] /\ i - 1 \in 1 .. n

LEMMA AppendLeftMoves ==
  ASSUME NEW S, NEW n \in Nat \ {0}, NEW s \in [1 .. n -> S], NEW x \in S
  PROVE  AppendLeft(s, x) \in [1 .. n -> S] /\ Moved(AppendLeft(s, x), s, x, n)
<1>1. s \in Seq(S) /\ Len(s) = n
  OBVIOUS
<1> DEFINE rest == SubSeq(s, 1, Len(s) - 1)
<1>2. rest \in Seq(S) /\ Len(rest) = n - 1 /\ \A i \in 1 .. n - 1 : rest[i] = s[i]
  BY <1>1
<1> HIDE DEF rest
<1>3. <<x>> \in Seq(S) /\ Len(<<x>>) = 1 /\ <<x>>[1] = x
  OBVIOUS
<1> DEFINE t == <<x>> \o rest
<1>4. t \in Seq(S) /\ Len(t) = n /\ t[1] = x /\ \A i \in 1 .. n : i # 1 => t[i] = rest[i - 1] /\ i - 1 \in 1 .. n - 1
  BY <1>2, <1>3
<1>5. AppendLeft(s, x) = t
  BY DEF AppendLeft, rest
<1> HIDE DEF t
<1>6. t \in [1 .. n -> S]
  BY <1>4
<1>7. \A i \in 1 .. n - 1 : i \in 1 .. n
  OBVIOUS
<1>8. Moved(t, s, x, n)
  BY <1>2, <1>4, <1>7 DEF Moved
<1> QED BY <1>5, <1>6, <1>8

Tag == Classes \cup {"unknown"}
Tags == [1 .. TagLen -> Tag]
Places(tags, class) == {i \in 1 .. TagLen : tags[i] = class}

LEMMA CountType ==
  ASSUME NEW tags \in Tags, NEW class
  PROVE  /\ IsFiniteSet(Places(tags, class)) /\ Count(tags, class) = Cardinality(Places(tags, class))
         /\ Count(tags, class) \in Nat /\ Count(tags, class) =< TagLen
<1>1. TagLen \in Nat \ {0}
  BY PeopleAssumption
<1>2. IsFiniteSet(1 .. TagLen) /\ Cardinality(1 .. TagLen) = TagLen
  BY <1>1, FS_Interval
<1>3. Places(tags, class) \in SUBSET (1 .. TagLen)
  BY DEF Places
<1>4. DOMAIN tags = 1 .. TagLen
  BY DEF Tags
<1>5. Count(tags, class) = Cardinality(Places(tags, class))
  BY <1>4 DEF Count, Places
<1> QED BY <1>2, <1>3, <1>5, FS_Subset, FS_CardinalityType

(* Every tag is counted once *)
LEMMA CountsAddUp ==
  ASSUME NEW tags \in Tags
  PROVE  Count(tags, "human") + Count(tags, "other") + Count(tags, "unknown") = TagLen
<1> DEFINE h == Places(tags, "human")
           o == Places(tags, "other")
           u == Places(tags, "unknown")
<1>1. IsFiniteSet(h) /\ IsFiniteSet(o) /\ IsFiniteSet(u)
  BY CountType
<1>2. h \cap o = {} /\ (h \cup o) \cap u = {} /\ (h \cup o) \cup u = 1 .. TagLen
  BY DEF Places, Tags, Tag, Classes
<1>3. TagLen \in Nat \ {0} /\ Cardinality(1 .. TagLen) = TagLen
  BY PeopleAssumption, FS_Interval
<1> HIDE DEF h, o, u
<1>4. IsFiniteSet(h \cup o) /\ Cardinality(h \cup o) = Cardinality(h) + Cardinality(o) - Cardinality(h \cap o)
  BY <1>1, FS_Union
<1>5. Cardinality((h \cup o) \cup u) = Cardinality(h \cup o) + Cardinality(u) - Cardinality((h \cup o) \cap u)
  BY <1>1, <1>4, FS_Union
<1>6. Cardinality({}) = 0
  BY FS_EmptySet
<1>7. Cardinality(h) \in Nat /\ Cardinality(o) \in Nat /\ Cardinality(u) \in Nat
  BY <1>1, FS_CardinalityType
<1>8. Cardinality(h) + Cardinality(o) + Cardinality(u) = TagLen
  <2>1. Cardinality(h \cup o) = Cardinality(h) + Cardinality(o) - 0
    BY <1>2, <1>4, <1>6
  <2>2. TagLen = Cardinality(h \cup o) + Cardinality(u) - 0
    BY <1>2, <1>3, <1>5, <1>6
  <2>3. ASSUME NEW a \in Nat, NEW b \in Nat, NEW c \in Nat, NEW ab, ab = a + b - 0
        PROVE  ab + c - 0 = a + b + c
    BY <2>3
  <2> QED BY <1>7, <2>1, <2>2, <2>3
<1> QED BY <1>8, CountType DEF h, o, u

(* A tag that comes in counts for its class *)
LEMMA CountAppended ==
  ASSUME NEW tags \in Tags, NEW x \in Tag, NEW class
  PROVE  /\ AppendLeft(tags, x) \in Tags
         /\ Count(AppendLeft(tags, x), class) =< Count(tags, class) + (IF x = class THEN 1 ELSE 0)
<1> DEFINE new == AppendLeft(tags, x)
           moved == Places(new, class) \ {1}
           f == [i \in moved |-> i - 1]
<1>0. TagLen \in Nat \ {0}
  BY PeopleAssumption
<1>1. new \in Tags /\ new[1] = x /\ \A i \in 1 .. TagLen : i # 1 => new[i] = tags[i - 1] /\ i - 1 \in 1 .. TagLen
  <2>1. tags \in [1 .. TagLen -> Tag]
    BY DEF Tags
  <2>2. AppendLeft(tags, x) \in [1 .. TagLen -> Tag] /\ Moved(AppendLeft(tags, x), tags, x, TagLen)
    <3> HIDE DEF new
    <3> QED BY <1>0, <2>1, AppendLeftMoves
  <2> QED BY <2>2 DEF Tags, Moved
<1> HIDE DEF new
<1>2. f \in Injection(moved, Places(tags, class))
  <2>1. \A i \in moved : i \in Int /\ i - 1 \in Places(tags, class)
    BY <1>0, <1>1 DEF Places
  <2>2. f \in [moved -> Places(tags, class)]
    BY <2>1
  <2>3. \A i, j \in moved : f[i] = f[j] => i = j
    BY <2>1
  <2> QED BY <2>2, <2>3 DEF Injection, IsInjective
<1> HIDE DEF f
<1>3. IsFiniteSet(moved) /\ Cardinality(moved) =< Cardinality(Places(tags, class))
  BY <1>2, CountType, FS_Injection
<1>4. 1 \in Places(new, class) <=> x = class
  BY <1>0, <1>1 DEF Places
<1>5. IsFiniteSet(Places(new, class)) /\ Cardinality(Places(new, class)) \in Nat
      /\ Count(new, class) = Cardinality(Places(new, class))
  BY <1>1, CountType
<1>6. Cardinality(moved) = IF 1 \in Places(new, class) THEN Cardinality(Places(new, class)) - 1
                           ELSE Cardinality(Places(new, class))
  BY <1>5, FS_RemoveElement
<1>7. Cardinality(Places(tags, class)) \in Nat /\ Count(tags, class) = Cardinality(Places(tags, class))
  BY CountType
<1> HIDE DEF moved
<1>8. Count(new, class) =< Count(tags, class) + (IF x = class THEN 1 ELSE 0)
  BY <1>3, <1>4, <1>5, <1>6, <1>7
<1> QED BY <1>1, <1>8 DEF new

(* Every label is decided on tags of the track's own, of which the track   *)
(* has seen each: none is left of a track that had the number before.      *)
TagsSeen ==
  \A id \in Ids, c \in Classes :
    /\ Count(classifier.tags[id], c) =< seen[id][c]
    /\ id \notin classifier.previous => Count(classifier.tags[id], c) = 0

LabelInv ==
  /\ classifier.tags \in [Ids -> Tags] /\ classifier.previous \subseteq Ids
  /\ seen \in [Ids -> [Classes -> Nat]] /\ TagsSeen
  /\ DOMAIN classifier.labels \subseteq Ids
  /\ \A id \in DOMAIN classifier.labels : classifier.labels[id] = Decision(classifier.tags[id])

ClassesGiven(classes) ==
  /\ DOMAIN classes \subseteq Ids
  /\ \A id \in DOMAIN classes : classes[id] \in [class : Classes \cup {"unsure"}, slow : BOOLEAN]

LEMMA UnknownCounts ==
  ASSUME NEW c \in Classes
  PROVE  Filled(TagLen, "unknown") \in Tags /\ Count(Filled(TagLen, "unknown"), c) = 0
<1> DEFINE tags == Filled(TagLen, "unknown")
<1>1. tags \in Tags
  BY DEF Tags, Tag, Filled
<1>2. Places(tags, c) = {}
  BY DEF Places, Filled, Classes
<1> HIDE DEF tags
<1>3. Count(tags, c) = 0
  BY <1>1, <1>2, CountType, FS_EmptySet
<1> QED BY <1>1, <1>3 DEF tags

LEMMA LabelInit == Init => LabelInv
<1> SUFFICES ASSUME Init PROVE LabelInv
  OBVIOUS
<1>1. /\ classifier = [tags |-> [id \in Ids |-> Filled(TagLen, "unknown")], human |-> [id \in Ids |-> FALSE],
                       previous |-> {}, labels |-> <<>>]
      /\ seen = [id \in Ids |-> NoneSeen]
  BY DEF Init, PeopleInit
<1>2. "human" \in Classes
  BY DEF Classes
<1>3. Filled(TagLen, "unknown") \in Tags
  BY <1>2, UnknownCounts
<1>4. classifier.tags = [id \in Ids |-> Filled(TagLen, "unknown")] /\ classifier.previous = {} /\ DOMAIN classifier.labels = {}
  <2>1. classifier.labels = <<>>
    BY <1>1
  <2>2. DOMAIN classifier.labels = 1 .. 0
    BY <2>1
  <2> QED BY <1>1, <2>2
<1>5. NoneSeen \in [Classes -> Nat] /\ \A c \in Classes : NoneSeen[c] = 0
  BY DEF NoneSeen
<1>6. TagsSeen
  <2> SUFFICES ASSUME NEW id \in Ids, NEW c \in Classes
               PROVE  Count(classifier.tags[id], c) =< seen[id][c] /\ Count(classifier.tags[id], c) = 0
    BY DEF TagsSeen
  <2>1. Count(classifier.tags[id], c) = 0
    BY <1>4, UnknownCounts
  <2>2. seen[id][c] = 0
    BY <1>1, <1>5
  <2> QED BY <2>1, <2>2
<1>7. seen \in [Ids -> [Classes -> Nat]] /\ classifier.tags \in [Ids -> Tags]
  BY <1>1, <1>3, <1>4, <1>5
<1> QED BY <1>4, <1>6, <1>7 DEF LabelInv

(* A frame adds at most its own confident tag, which the track has seen *)
LEMMA TaggedSeen ==
  ASSUME LabelInv, NEW classes, ClassesGiven(classes), NEW id \in DOMAIN classes, NEW c \in Classes
  PROVE  /\ Tagged(id, classes[id]) \in Tags
         /\ Count(Tagged(id, classes[id]), c) =< SeenWith(classes)[id][c]
<1> DEFINE x == classes[id].class
           old == classifier.tags[id]
           new == Tagged(id, classes[id])
           s == seen[id][c]
<1>1. id \in Ids /\ x \in Classes \cup {"unsure"} /\ old \in Tags /\ s \in Nat /\ TagLen \in Nat
  BY PeopleAssumption DEF ClassesGiven, LabelInv
<1>2. SeenWith(classes)[id][c] = IF x = c THEN OneMore(s, TagLen) ELSE s
  BY <1>1 DEF SeenWith
<1>3. new = old \/ (x \in Tag /\ new = AppendLeft(old, x))
  BY <1>1 DEF Tagged, Tag
<1>4. Count(old, c) =< s /\ Count(old, c) \in Nat /\ Count(old, c) =< TagLen
  BY <1>1, CountType DEF LabelInv, TagsSeen
<1> HIDE DEF x, old, s
<1>5. s =< SeenWith(classes)[id][c] \/ (x = c /\ s >= TagLen /\ SeenWith(classes)[id][c] = TagLen)
  BY <1>1, <1>2 DEF OneMore
<1>6. CASE new = old
  BY <1>1, <1>2, <1>4, <1>6 DEF OneMore
<1>7. CASE x \in Tag /\ new = AppendLeft(old, x)
  <2>1. AppendLeft(old, x) \in Tags /\ Count(AppendLeft(old, x), c) =< Count(old, c) + (IF x = c THEN 1 ELSE 0)
    BY <1>1, <1>7, CountAppended
  <2>2. Count(AppendLeft(old, x), c) \in Nat /\ Count(AppendLeft(old, x), c) =< TagLen
    BY <2>1, CountType
  <2>3. ASSUME NEW m \in Nat, NEW k \in Nat, m =< k + (IF x = c THEN 1 ELSE 0), m =< TagLen, k =< s
        PROVE  m =< (IF x = c THEN OneMore(s, TagLen) ELSE s)
    BY <1>1, <2>3 DEF OneMore
  <2>4. Count(AppendLeft(old, x), c) =< SeenWith(classes)[id][c]
    BY <1>2, <1>4, <2>1, <2>2, <2>3
  <2> QED BY <1>7, <2>1, <2>4
<1> QED BY <1>3, <1>6, <1>7

LEMMA RunFrameStep ==
  ASSUME LabelInv, NEW classes, ClassesGiven(classes), RunFrame(classes), seen' = SeenWith(classes)
  PROVE  LabelInv'
<1> DEFINE now == DOMAIN classes
           tags == [id \in Ids |-> IF id \in now THEN Tagged(id, classes[id])
                                   ELSE IF id \in Vanished(classifier.previous, now) THEN Filled(TagLen, "unknown")
                                   ELSE classifier.tags[id]]
           labels == [id \in now |-> Decision(tags[id])]
<1>1. classifier'.tags = tags /\ classifier'.previous = now /\ classifier'.labels = labels
  BY DEF RunFrame
<1>2. now \subseteq Ids
  BY DEF ClassesGiven
<1>3. \A id \in Ids, c \in Classes : /\ tags[id] \in Tags /\ Count(tags[id], c) =< seen'[id][c]
                                     /\ id \notin now => Count(tags[id], c) = 0
  <2> SUFFICES ASSUME NEW id \in Ids, NEW c \in Classes
               PROVE  /\ tags[id] \in Tags /\ Count(tags[id], c) =< seen'[id][c]
                      /\ id \notin now => Count(tags[id], c) = 0
    OBVIOUS
  <2>1. CASE id \in now
    <3>1. tags[id] = Tagged(id, classes[id])
      BY <2>1
    <3> HIDE DEF tags
    <3> QED BY <2>1, <3>1, TaggedSeen
  <2>2. CASE id \notin now
    <3>1. tags[id] = Filled(TagLen, "unknown") \/ (tags[id] = classifier.tags[id] /\ id \notin classifier.previous)
      BY <2>2 DEF Vanished
    <3> HIDE DEF tags
    <3>2. tags[id] \in Tags /\ Count(tags[id], c) = 0
      BY <3>1, UnknownCounts DEF LabelInv, TagsSeen
    <3>3. seen'[id][c] = 0
      BY <2>2 DEF SeenWith, NoneSeen
    <3> QED BY <2>2, <3>2, <3>3
  <2> QED BY <2>1, <2>2
<1>4. seen' \in [Ids -> [Classes -> Nat]]
  <2>1. \A n \in Nat : OneMore(n, TagLen) \in Nat
    BY PeopleAssumption DEF OneMore
  <2>2. NoneSeen \in [Classes -> Nat]
    BY DEF NoneSeen
  <2>3. seen \in [Ids -> [Classes -> Nat]]
    BY DEF LabelInv
  <2> QED BY <2>1, <2>2, <2>3 DEF SeenWith
<1>5. "human" \in Classes /\ tags = [id \in Ids |-> tags[id]]
  BY DEF Classes
<1>6. \A id \in now : labels[id] = Decision(tags[id])
  OBVIOUS
<1>7. DOMAIN labels = now
  OBVIOUS
<1> HIDE DEF tags, labels, now
<1>8. tags \in [Ids -> Tags]
  BY <1>3, <1>5
<1> QED BY <1>1, <1>2, <1>3, <1>4, <1>6, <1>7, <1>8 DEF LabelInv, TagsSeen

LEMMA NoClassesGiven == ClassesGiven(<<>>)
<1>1. DOMAIN <<>> = 1 .. 0
  OBVIOUS
<1> QED BY <1>1 DEF ClassesGiven

LEMMA LabelStep == LabelInv /\ [Next]_vars => LabelInv'
<1> SUFFICES ASSUME LabelInv, [Next]_vars PROVE LabelInv'
  OBVIOUS
<1>1. ASSUME NEW classes, NEW heights, ClassesGiven(classes), PeopleFrame(classes, heights) PROVE LabelInv'
  BY <1>1, RunFrameStep DEF PeopleFrame
<1>2. CASE ShowPeople
  <2>1. ASSUME NEW classes \in Labelled PROVE ClassesGiven(classes)
    <3>1. PICK now \in SUBSET Ids : classes \in [now -> Readings]
      BY DEF Labelled
    <3> QED BY <3>1 DEF Readings, ClassesGiven
  <2> QED BY <1>1, <1>2, <2>1, NoClassesGiven DEF ShowPeople
<1>3. CASE UNCHANGED <<classifier, seen>>
  BY <1>3 DEF LabelInv, TagsSeen
<1>4. Draw \/ Return \/ GraphDone \/ SwitchTab \/ StopDrawing \/ ToggleFalls \/ NewTracking \/ UNCHANGED people
        => UNCHANGED <<classifier, seen>>
  BY DEF Draw, Return, GraphDone, SwitchTab, StopDrawing, ToggleFalls, NewTracking, people
<1>5. UNCHANGED vars => UNCHANGED people
  BY DEF vars
<1> QED BY <1>2, <1>3, <1>4, <1>5 DEF Next

(* A label is given on evidence: of the tags that were counted all but a   *)
(* few are of frames of this track, and more than half of them say so.     *)
LEMMA LabelInvShows == LabelInv => LabelsHaveEvidence
<1> SUFFICES ASSUME LabelInv, NEW id \in DOMAIN classifier.labels, classifier.labels[id] # "Unknown Label"
             PROVE  LET class == IF classifier.labels[id] = "Human" THEN "human" ELSE "other"
                    IN  /\ seen[id]["human"] + seen[id]["other"] >= TagLen - MaxUnknown
                        /\ 2 * seen[id][class] > TagLen - MaxUnknown
  BY DEF LabelsHaveEvidence
<1> DEFINE tags == classifier.tags[id]
           h == Count(tags, "human")
           o == Count(tags, "other")
           u == Count(tags, "unknown")
           sh == seen[id]["human"]
           so == seen[id]["other"]
<1>1. id \in Ids /\ tags \in Tags /\ classifier.labels[id] = Decision(tags)
  BY DEF LabelInv
<1>2. h \in Nat /\ o \in Nat /\ u \in Nat /\ h + o + u = TagLen
  BY <1>1, CountType, CountsAddUp
<1>3. sh \in Nat /\ so \in Nat /\ h =< sh /\ o =< so
  BY <1>1 DEF LabelInv, TagsSeen, Classes
<1>4. ~(u > MaxUnknown) /\ h # o /\ classifier.labels[id] = IF h > o THEN "Human" ELSE "Non-Human"
  BY <1>1 DEF Decision
<1>5. TagLen \in Nat /\ MaxUnknown \in Nat
  BY PeopleAssumption
<1> HIDE DEF tags, h, o, u, sh, so
<1>6. sh + so >= TagLen - MaxUnknown
  BY <1>2, <1>3, <1>4, <1>5
<1>7. h > o => 2 * sh > TagLen - MaxUnknown
  BY <1>2, <1>3, <1>4, <1>5
<1>8. ~(h > o) => 2 * so > TagLen - MaxUnknown
  BY <1>2, <1>3, <1>4, <1>5
<1>9. CASE h > o
  BY <1>4, <1>6, <1>7, <1>9 DEF sh, so
<1>10. CASE ~(h > o)
  BY <1>4, <1>6, <1>8, <1>10 DEF sh, so
<1> QED BY <1>9, <1>10

(* A track is called a human, or not, on the tags of its own frames, and   *)
(* never on those of the track that had its number before (run_frame).     *)
THEOREM DisplaysLabelOnEvidence == Spec => []LabelsHaveEvidence
BY LabelInit, LabelStep, LabelInvShows, PTL DEF Spec

-----------------------------------------------------------------------------
(* Falls.  With a threshold below 1 a steady height is no fall only while  *)
(* it is not negative, nor far below -5 times the threshold, which stands  *)
(* for the heights a track has not had yet.                                *)
StandingIsNoFall == \A h \in Heights : 10 * h >= Threshold * h /\ 10 * h >= Threshold * (-5)

Elevation == Int
Buffer == [1 .. HeightLen -> Elevation]

(* A buffer holds heights of the track's own, none later than its place *)
Remembers(b, s) ==
  \A j \in 1 .. HeightLen : b[j] = -5 \/ \E i \in 1 .. Len(s) : i =< j /\ b[j] = s[i]

FallInv ==
  /\ fall.buffer \in [Ids -> Buffer] /\ fall.previous \subseteq Ids /\ fall.display \in [Ids -> Nat]
  /\ since \in [Ids -> Seq(Int)] /\ dropped \in [Ids -> Nat] /\ falling \subseteq Ids
  /\ \A id \in Ids :
       /\ Len(since[id]) =< HeightLen /\ Remembers(fall.buffer[id], since[id])
       /\ id \notin fall.previous => fall.buffer[id] = Filled(HeightLen, -5)
       /\ fall.display[id] = 0 \/ dropped[id] + fall.display[id] =< ShowFrames
  /\ FallsHaveDrops

HeightsGiven(heights) ==
  /\ DOMAIN heights \subseteq Ids /\ \A id \in DOMAIN heights : heights[id] \in Heights
  /\ DOMAIN heights = {} => heights = <<>>

LEMMA NoHeights ==
  /\ Filled(HeightLen, -5) \in Buffer
  /\ \A s \in Seq(Int) : Remembers(Filled(HeightLen, -5), s)
BY DEF Filled, Buffer, Elevation, Remembers

LEMMA FallInit == Init => FallInv
<1> SUFFICES ASSUME Init PROVE FallInv
  OBVIOUS
<1>1. /\ fall = [buffer |-> [id \in Ids |-> Filled(HeightLen, -5)], previous |-> {}, display |-> [id \in Ids |-> 0]]
      /\ falling = {} /\ since = [id \in Ids |-> <<>>] /\ dropped = [id \in Ids |-> ShowFrames]
  BY DEF Init, PeopleInit
<1>2. HeightLen \in Nat /\ ShowFrames \in Nat
  BY PeopleAssumption
<1>3. <<>> \in Seq(Int) /\ Len(<<>>) = 0
  OBVIOUS
<1>4. since \in [Ids -> Seq(Int)] /\ \A id \in Ids : Len(since[id]) = 0
  BY <1>1, <1>3
<1>5. /\ fall.buffer = [id \in Ids |-> Filled(HeightLen, -5)] /\ fall.previous = {}
      /\ fall.display = [id \in Ids |-> 0] /\ dropped \in [Ids -> Nat] /\ falling = {}
  BY <1>1, <1>2
<1>6. fall.buffer \in [Ids -> Buffer] /\ fall.display \in [Ids -> Nat]
  BY <1>5, NoHeights
<1>7. FallsHaveDrops
  BY <1>5 DEF FallsHaveDrops
<1>8. ASSUME NEW id \in Ids
      PROVE  /\ Len(since[id]) =< HeightLen /\ Remembers(fall.buffer[id], since[id])
             /\ fall.buffer[id] = Filled(HeightLen, -5) /\ fall.display[id] = 0
  <2>1. since[id] \in Seq(Int) /\ Len(since[id]) = 0 /\ fall.buffer[id] = Filled(HeightLen, -5)
    BY <1>4, <1>5
  <2> QED BY <1>2, <1>5, <2>1, NoHeights
<1> QED BY <1>4, <1>5, <1>6, <1>7, <1>8 DEF FallInv

(* Within a frame: what a step for height h makes of heights s, d steps of *)
(* which are known to be later                                             *)
Early(b, s, h, d) ==
  \A j \in 1 .. HeightLen : b[j] = -5 \/ b[j] = h \/ \E i \in 1 .. Len(s) : i + d =< j /\ b[j] = s[i]

LEMMA EarlyAppended ==
  ASSUME NEW b \in Buffer, NEW s \in Seq(Int), NEW h \in Elevation, NEW d \in {0, 1}, Early(b, s, h, d)
  PROVE  AppendLeft(b, h) \in Buffer /\ AppendLeft(b, h)[1] = h /\ Early(AppendLeft(b, h), s, h, 1)
<1>1. HeightLen \in Nat \ {0} /\ Len(s) \in Nat
  BY PeopleAssumption
<1>2. b \in [1 .. HeightLen -> Elevation]
  BY DEF Buffer
<1>3. /\ AppendLeft(b, h) \in [1 .. HeightLen -> Elevation] /\ AppendLeft(b, h)[1] = h
      /\ \A j \in 1 .. HeightLen : j # 1 => AppendLeft(b, h)[j] = b[j - 1] /\ j - 1 \in 1 .. HeightLen
  <2>1. HeightLen \in Nat \ {0}
    BY <1>1
  <2>2. AppendLeft(b, h) \in [1 .. HeightLen -> Elevation] /\ Moved(AppendLeft(b, h), b, h, HeightLen)
    BY <1>2, <2>1, AppendLeftMoves
  <2> QED BY <2>2 DEF Moved
<1> DEFINE c == AppendLeft(b, h)
<1> HIDE DEF c
<1>4. ASSUME NEW j \in 1 .. HeightLen, j # 1, c[j] # -5, c[j] # h
      PROVE  \E i \in 1 .. Len(s) : i + 1 =< j /\ c[j] = s[i]
  <2>1. c[j] = b[j - 1] /\ j - 1 \in 1 .. HeightLen
    BY <1>3, <1>4 DEF c
  <2>4. b[j - 1] # -5 /\ b[j - 1] # h
    BY <1>4, <2>1
  <2>2. PICK i \in 1 .. Len(s) : i + d =< j - 1 /\ b[j - 1] = s[i]
    BY <1>4, <2>1 DEF Early
  <2>3. i + 1 =< j
    BY <1>1, <2>2
  <2> QED BY <2>1, <2>2, <2>3
<1>5. Early(c, s, h, 1)
  BY <1>3, <1>4 DEF Early, c
<1> QED BY <1>3, <1>5 DEF c, Buffer

(* Only a height below one of the track's earlier ones is a fall *)
LEMMA FallenDrops ==
  ASSUME StandingIsNoFall, NEW b \in Buffer, NEW id \in Ids, since[id] \in Seq(Int), NEW h \in Heights,
         b[1] = h, Early(b, since[id], h, 1), Fallen(b)
  PROVE  Drops(id, h)
<1>1. HeightLen \in Nat \ {0} /\ h \in Int /\ Threshold \in Nat
  BY PeopleAssumption
<1>2. Len(b) = HeightLen /\ HeightLen \in 1 .. HeightLen
  BY <1>1 DEF Buffer, Elevation
<1> DEFINE last == b[HeightLen]
<1>3. 10 * h < Threshold * last
  BY <1>2 DEF Fallen
<1>4. last # -5
  BY <1>1, <1>3 DEF StandingIsNoFall
<1>5. last # h
  <2>1. 10 * h >= Threshold * h /\ Threshold * h \in Int /\ 10 * h \in Int
    BY <1>1 DEF StandingIsNoFall
  <2>2. last = h => Threshold * last = Threshold * h
    OBVIOUS
  <2> HIDE DEF last
  <2> QED BY <1>3, <2>1, <2>2
<1>6. PICK i \in 1 .. Len(since[id]) : last = since[id][i]
  BY <1>2, <1>4, <1>5 DEF Early
<1>7. i \in DOMAIN since[id]
  BY <1>6
<1> QED BY <1>3, <1>6, <1>7 DEF Drops

(* What the steps of a frame have made, when there was at least one, of    *)
(* the fall record, the heights noted before the frame standing            *)
Walked(f, k, heights) ==
  /\ f.buffer \in [Ids -> Buffer] /\ f.previous = DOMAIN heights /\ f.display \in [Ids -> Nat]
  /\ \A id \in DOMAIN heights : Early(f.buffer[id], since[id], heights[id], 1)
  /\ \A id \in Ids \ DOMAIN heights : f.buffer[id] = Filled(HeightLen, -5)
  /\ \A id \in Ids : \/ f.display[id] = 0 \/ f.display[id] + k =< fall.display[id]
                     \/ id \in DOMAIN heights /\ Drops(id, heights[id]) /\ f.display[id] =< ShowFrames

(* A step, on what every step of the frame finds *)
LEMMA SteppedWalks ==
  ASSUME StandingIsNoFall, FallInv, NEW heights, HeightsGiven(heights), NEW k \in Nat, NEW d \in {0, 1}, NEW f,
         f.buffer \in [Ids -> Buffer], f.display \in [Ids -> Nat],
         \A id \in DOMAIN heights : Early(f.buffer[id], since[id], heights[id], d),
         \A id \in Ids \ DOMAIN heights : id \notin f.previous => f.buffer[id] = Filled(HeightLen, -5),
         \A id \in Ids : \/ f.display[id] = 0 \/ f.display[id] + k =< fall.display[id]
                         \/ id \in DOMAIN heights /\ Drops(id, heights[id]) /\ f.display[id] =< ShowFrames
  PROVE  Walked(Stepped(f, heights), k + 1, heights)
<1> DEFINE now == DOMAIN heights
           buffer == [id \in Ids |-> IF id \in now THEN AppendLeft(f.buffer[id], heights[id])
                                     ELSE IF id \in Vanished(f.previous, now) THEN Filled(HeightLen, -5)
                                     ELSE f.buffer[id]]
           display == [id \in Ids |-> IF id \in now /\ Fallen(buffer[id]) THEN ShowFrames ELSE Less(f.display[id])]
           g == Stepped(f, heights)
<1>1. g.buffer = buffer /\ g.previous = now /\ g.display = display
  BY DEF Stepped
<1>2. now \subseteq Ids /\ \A id \in now : heights[id] \in Heights /\ heights[id] \in Elevation
  BY PeopleAssumption DEF HeightsGiven, Elevation
<1>3. ShowFrames \in Nat /\ fall.display \in [Ids -> Nat] /\ since \in [Ids -> Seq(Int)]
  BY PeopleAssumption DEF FallInv
<1>4. ASSUME NEW id \in now
      PROVE  buffer[id] \in Buffer /\ buffer[id][1] = heights[id] /\ Early(buffer[id], since[id], heights[id], 1)
  <2>1. buffer[id] = AppendLeft(f.buffer[id], heights[id])
    BY <1>2, <1>4
  <2>2. f.buffer[id] \in Buffer /\ since[id] \in Seq(Int) /\ heights[id] \in Elevation /\ Early(f.buffer[id], since[id], heights[id], d)
    BY <1>2, <1>3, <1>4
  <2> HIDE DEF buffer, now
  <2> QED BY <2>1, <2>2, EarlyAppended
<1>5. ASSUME NEW id \in Ids \ now PROVE buffer[id] = Filled(HeightLen, -5)
  BY <1>5 DEF Vanished
<1>6. ASSUME NEW id \in now, Fallen(buffer[id]) PROVE Drops(id, heights[id])
  <2> HIDE DEF buffer, now
  <2> QED BY <1>2, <1>3, <1>4, <1>6, FallenDrops
<1>7. \A id \in Ids : display[id] = IF id \in now /\ Fallen(buffer[id]) THEN ShowFrames ELSE Less(f.display[id])
  OBVIOUS
<1>8. buffer = [id \in Ids |-> buffer[id]] /\ display = [id \in Ids |-> display[id]]
  OBVIOUS
<1> HIDE DEF buffer, display
<1>9. ASSUME NEW id \in Ids
      PROVE  /\ display[id] \in Nat
             /\ \/ display[id] = 0 \/ display[id] + (k + 1) =< fall.display[id]
                \/ id \in now /\ Drops(id, heights[id]) /\ display[id] =< ShowFrames
  <2>1. CASE id \in now /\ Fallen(buffer[id])
    <3>1. display[id] = ShowFrames /\ Drops(id, heights[id])
      BY <1>6, <1>7, <2>1
    <3> QED BY <1>3, <2>1, <3>1
  <2>2. CASE ~(id \in now /\ Fallen(buffer[id]))
    <3>1. display[id] = Less(f.display[id])
      BY <1>7, <2>2
    <3>2. f.display[id] \in Nat /\ fall.display[id] \in Nat
      BY <1>3
    <3>3. /\ Less(f.display[id]) \in Nat /\ Less(f.display[id]) =< f.display[id]
          /\ Less(f.display[id]) = 0 \/ Less(f.display[id]) + 1 = f.display[id]
      BY <3>2 DEF Less
    <3>4. CASE f.display[id] = 0
      BY <3>1, <3>4 DEF Less
    <3>5. CASE f.display[id] + k =< fall.display[id]
      BY <3>1, <3>2, <3>3, <3>5
    <3>6. CASE id \in now /\ Drops(id, heights[id]) /\ f.display[id] =< ShowFrames
      BY <1>3, <3>1, <3>2, <3>3, <3>6
    <3> QED BY <3>4, <3>5, <3>6
  <2> QED BY <2>1, <2>2
<1>10. buffer \in [Ids -> Buffer]
  BY <1>4, <1>5, <1>8, NoHeights
<1>11. display \in [Ids -> Nat]
  BY <1>8, <1>9
<1> HIDE DEF g
<1> QED BY <1>1, <1>4, <1>5, <1>9, <1>10, <1>11 DEF Walked, g

(* The steps of a frame one by one *)
Stepping(g, n, heights) ==
  g = [k \in 0 .. n |-> IF k = 0 THEN fall ELSE Stepped(g[k - 1], heights)]

LEMMA SteppingExists ==
  ASSUME NEW heights, NEW n \in Nat
  PROVE  \E g : Stepping(g, n, heights)
<1> DEFINE T == {m \in Nat : \E g : Stepping(g, m, heights)}
<1>1. 0 \in T
  <2> DEFINE g == [k \in 0 .. 0 |-> fall]
  <2>1. g = [k \in 0 .. 0 |-> IF k = 0 THEN fall ELSE Stepped(g[k - 1], heights)]
    OBVIOUS
  <2> HIDE DEF g
  <2> QED BY <2>1 DEF Stepping
<1>2. ASSUME NEW m \in Nat, m \in T PROVE m + 1 \in T
  <2>1. PICK g : g = [k \in 0 .. m |-> IF k = 0 THEN fall ELSE Stepped(g[k - 1], heights)]
    BY <1>2 DEF Stepping
  <2> DEFINE h == [k \in 0 .. m + 1 |-> IF k = m + 1 THEN Stepped(g[m], heights) ELSE g[k]]
  <2>2. \A k \in 0 .. m : k \in 0 .. m + 1 /\ k # m + 1
    OBVIOUS
  <2>3. \A k \in 0 .. m : h[k] = g[k]
    BY <2>2
  <2>4. ASSUME NEW k \in 0 .. m + 1 PROVE h[k] = IF k = 0 THEN fall ELSE Stepped(h[k - 1], heights)
    <3>1. CASE k = m + 1
      <4>1. k # 0 /\ k - 1 = m /\ m \in 0 .. m
        BY <3>1
      <4>2. h[k] = Stepped(g[m], heights) /\ h[m] = g[m]
        BY <2>3, <3>1, <4>1
      <4> HIDE DEF h
      <4> QED BY <4>1, <4>2
    <3>2. CASE k # m + 1
      <4>1. k \in 0 .. m /\ (k # 0 => k - 1 \in 0 .. m)
        BY <3>2
      <4>2. g[k] = IF k = 0 THEN fall ELSE Stepped(g[k - 1], heights)
        BY <2>1, <4>1
      <4> HIDE DEF h
      <4> QED BY <2>3, <4>1, <4>2
    <3> QED BY <3>1, <3>2
  <2>5. h = [k \in 0 .. m + 1 |-> h[k]]
    OBVIOUS
  <2> HIDE DEF h
  <2>6. h = [k \in 0 .. m + 1 |-> IF k = 0 THEN fall ELSE Stepped(h[k - 1], heights)]
    BY <2>4, <2>5
  <2>7. Stepping(h, m + 1, heights)
    BY <2>6 DEF Stepping
  <2> QED BY <2>7
<1> HIDE DEF T
<1>3. n \in T
  BY <1>1, <1>2, SetInduction
<1> QED BY <1>3 DEF T

LEMMA StepsStep ==
  ASSUME NEW heights, Cardinality(DOMAIN heights) \in Nat
  PROVE  /\ Steps(heights)[0] = fall
         /\ \A k \in 1 .. Cardinality(DOMAIN heights) :
              Steps(heights)[k] = Stepped(Steps(heights)[k - 1], heights)
<1> DEFINE n == Cardinality(DOMAIN heights)
           g == Steps(heights)
<1>1. g = CHOOSE f : Stepping(f, n, heights)
  BY DEF Steps, Stepping
<1> HIDE DEF g, n
<1>2. n \in Nat
  BY DEF n
<1>3. Stepping(g, n, heights)
  BY <1>1, <1>2, SteppingExists
<1>4. \A k \in 0 .. n : g[k] = IF k = 0 THEN fall ELSE Stepped(g[k - 1], heights)
  BY <1>3 DEF Stepping
<1>5. 0 \in 0 .. n /\ \A k \in 1 .. n : k \in 0 .. n /\ k # 0
  BY <1>2
<1>6. g[0] = fall /\ \A k \in 1 .. n : g[k] = Stepped(g[k - 1], heights)
  BY <1>4, <1>5
<1> QED BY <1>6 DEF g, n

LEMMA StepsWalk ==
  ASSUME StandingIsNoFall, FallInv, NEW heights, HeightsGiven(heights), Cardinality(DOMAIN heights) \in Nat
  PROVE  \A k \in 1 .. Cardinality(DOMAIN heights) : Walked(Steps(heights)[k], k, heights)
<1> DEFINE n == Cardinality(DOMAIN heights)
           g == Steps(heights)
           T == {m \in Nat : m + 1 =< n => Walked(g[m + 1], m + 1, heights)}
<1>0. n \in Nat
  OBVIOUS
<1>1. g[0] = fall /\ \A k \in 1 .. n : g[k] = Stepped(g[k - 1], heights)
  BY StepsStep
<1> HIDE DEF n, g
<1>2. 0 \in T
  <2> SUFFICES ASSUME 0 + 1 =< n PROVE Walked(g[0 + 1], 0 + 1, heights)
    OBVIOUS
  <2>1. g[0 + 1] = Stepped(fall, heights)
    <3>1. 1 \in 1 .. n /\ 1 - 1 = 0 /\ 0 + 1 = 1
      BY <1>0
    <3> QED BY <1>1, <3>1
  <2>2. /\ fall.buffer \in [Ids -> Buffer] /\ fall.display \in [Ids -> Nat]
        /\ \A id \in Ids \ DOMAIN heights : id \notin fall.previous => fall.buffer[id] = Filled(HeightLen, -5)
        /\ \A id \in Ids : fall.display[id] + 0 =< fall.display[id]
    BY DEF FallInv
  <2>3. ASSUME NEW id \in DOMAIN heights PROVE Early(fall.buffer[id], since[id], heights[id], 0)
    <3>1. Remembers(fall.buffer[id], since[id]) /\ since[id] \in Seq(Int)
      BY DEF FallInv, HeightsGiven
    <3>2. Len(since[id]) \in Nat
      BY <3>1
    <3>3. \A i \in 1 .. Len(since[id]) : i + 0 = i
      BY <3>2
    <3> QED BY <3>1, <3>3 DEF Remembers, Early
  <2>4. Walked(Stepped(fall, heights), 0 + 1, heights)
    BY <2>2, <2>3, SteppedWalks
  <2> QED BY <2>1, <2>4
<1>3. ASSUME NEW m \in Nat, m \in T PROVE m + 1 \in T
  <2> SUFFICES ASSUME (m + 1) + 1 =< n PROVE Walked(g[(m + 1) + 1], (m + 1) + 1, heights)
    OBVIOUS
  <2>1. m + 1 =< n /\ (m + 1) + 1 \in 1 .. n /\ ((m + 1) + 1) - 1 = m + 1 /\ m + 1 \in Nat
    BY <1>0
  <2>2. Walked(g[m + 1], m + 1, heights)
    BY <1>3, <2>1
  <2>3. g[(m + 1) + 1] = Stepped(g[m + 1], heights)
    BY <1>1, <2>1
  <2> DEFINE f == g[m + 1]
             k == m + 1
  <2>4. k \in Nat /\ Walked(f, k, heights)
    BY <2>1, <2>2
  <2> HIDE DEF f, k
  <2>5. Walked(Stepped(f, heights), k + 1, heights)
    BY <2>4, SteppedWalks DEF Walked
  <2> QED BY <2>3, <2>5 DEF f, k
<1> HIDE DEF T
<1>4. Nat \subseteq T
  BY <1>2, <1>3, SetInduction
<1>5. ASSUME NEW k \in 1 .. n PROVE Walked(g[k], k, heights)
  <2>1. k - 1 \in Nat /\ (k - 1) + 1 = k /\ k =< n
    BY <1>0
  <2>2. k - 1 \in T
    BY <1>4, <2>1
  <2>3. (k - 1) + 1 =< n => Walked(g[(k - 1) + 1], (k - 1) + 1, heights)
    BY <2>2 DEF T
  <2> QED BY <2>1, <2>3
<1> QED BY <1>5 DEF n, g

(* The place of a track among those of the frame *)
LEMMA TurnType ==
  ASSUME NEW heights, IsFiniteSet(DOMAIN heights), DOMAIN heights \subseteq Nat, NEW id \in DOMAIN heights
  PROVE  Turn(id, heights) \in 1 .. Cardinality(DOMAIN heights)
<1> DEFINE S == {i \in DOMAIN heights : i <= id}
<1>1. S \in SUBSET DOMAIN heights /\ id \in S
  OBVIOUS
<1>2. Turn(id, heights) = Cardinality(S)
  BY DEF Turn
<1> HIDE DEF S
<1>3. IsFiniteSet(S) /\ Cardinality(S) =< Cardinality(DOMAIN heights) /\ Cardinality(S) \in Nat /\ Cardinality(DOMAIN heights) \in Nat
  BY <1>1, FS_Subset, FS_CardinalityType
<1>4. Cardinality(S) # 0
  BY <1>1, <1>3, FS_EmptySet
<1> QED BY <1>2, <1>3, <1>4

(* A height noted in front of the others moves those by one *)
LEMMA HeightNoted ==
  ASSUME NEW s \in Seq(Int), NEW h \in Int, Len(s) =< HeightLen, NEW b, Early(b, s, h, 1)
  PROVE  LET t == SubSeq(<<h>> \o s, 1, IF Len(s) < HeightLen THEN Len(s) + 1 ELSE HeightLen)
         IN  t \in Seq(Int) /\ Len(t) =< HeightLen /\ Remembers(b, t)
<1> DEFINE all == <<h>> \o s
           n == IF Len(s) < HeightLen THEN Len(s) + 1 ELSE HeightLen
           t == SubSeq(all, 1, n)
<1>1. HeightLen \in Nat \ {0} /\ Len(s) \in Nat
  BY PeopleAssumption
<1>2. n \in Nat \ {0} /\ n =< Len(s) + 1 /\ n =< HeightLen /\ (n = HeightLen \/ n = Len(s) + 1)
  BY <1>1
<1>3. all \in Seq(Int) /\ Len(all) = Len(s) + 1 /\ all[1] = h /\ \A i \in 1 .. Len(s) : all[i + 1] = s[i]
  BY <1>1
<1> HIDE DEF all, n
<1>4. t \in Seq(Int) /\ Len(t) = n /\ \A i \in 1 .. n : t[i] = all[i]
  BY <1>1, <1>2, <1>3
<1> HIDE DEF t
<1>5. ASSUME NEW j \in 1 .. HeightLen, b[j] # -5 PROVE \E i \in 1 .. n : i =< j /\ b[j] = t[i]
  <2>1. CASE b[j] = h
    <3>1. 1 \in 1 .. n /\ 1 =< j
      BY <1>2
    <3>2. t[1] = h
      BY <1>3, <1>4, <3>1
    <3> QED BY <2>1, <3>1, <3>2
  <2>2. CASE b[j] # h
    <3>1. PICK i \in 1 .. Len(s) : i + 1 =< j /\ b[j] = s[i]
      BY <1>5, <2>2 DEF Early
    <3>2. i + 1 \in 1 .. n
      BY <1>1, <1>2, <3>1
    <3>3. t[i + 1] = s[i]
      BY <1>3, <1>4, <3>1, <3>2
    <3> QED BY <3>1, <3>2, <3>3
  <2> QED BY <2>1, <2>2
<1>6. Remembers(b, t)
  BY <1>4, <1>5 DEF Remembers
<1> QED BY <1>2, <1>4, <1>6 DEF t, all, n

LEMMA FallFrameStep ==
  ASSUME StandingIsNoFall, FallInv, NEW heights, HeightsGiven(heights), UpdateFalls(heights), NoteHeights(heights)
  PROVE  FallInv'
<1> DEFINE now == DOMAIN heights
           n == Cardinality(now)
           g == Steps(heights)
<1>1. IsFiniteSet(now) /\ now \subseteq Ids /\ now \subseteq Nat /\ n \in Nat
  BY PeopleAssumption, FS_Subset, FS_CardinalityType DEF HeightsGiven
<1>2. HeightLen \in Nat \ {0} /\ ShowFrames \in Nat \ {0}
  BY PeopleAssumption
<1>3. CASE UNCHANGED <<fall, since, dropped>> /\ falling' = {}
  BY <1>3 DEF FallInv, Remembers, FallsHaveDrops
<1>4. CASE ~screen.falls
  BY <1>3, <1>4 DEF UpdateFalls, NoteHeights, Noted, noted
<1>5. CASE screen.falls /\ now = {}
  <2>1. n = 0 /\ ~Noted(heights)
    BY <1>5, FS_EmptySet DEF Noted, HeightsGiven
  <2>2. fall' = g[n] /\ falling' = {} /\ UNCHANGED <<since, dropped>>
    BY <1>5, <2>1 DEF UpdateFalls, NoteHeights, noted
  <2>3. g[0] = fall
    BY <1>1, StepsStep
  <2> QED BY <1>3, <2>1, <2>2, <2>3
<1>6. CASE screen.falls /\ now # {}
  <2>1. n # 0 /\ n \in 1 .. n
    BY <1>1, <1>6, FS_EmptySet
  <2>2. heights # <<>>
    <3>1. DOMAIN <<>> = 1 .. 0
      OBVIOUS
    <3>2. DOMAIN <<>> = {}
      BY <3>1
    <3> QED BY <1>6, <3>2
  <2>3. /\ fall' = g[n] /\ falling' = {id \in now : g[Turn(id, heights)].display[id] > 0}
        /\ since' = [id \in Ids |-> IF id \in now
                                    THEN SubSeq(<<heights[id]>> \o since[id], 1, IF Len(since[id]) < HeightLen THEN Len(since[id]) + 1 ELSE HeightLen)
                                    ELSE <<>>]
        /\ dropped' = [id \in Ids |-> IF id \in now /\ Drops(id, heights[id]) THEN 0
                                      ELSE OneMore(dropped[id], ShowFrames)]
    BY <1>6, <2>2 DEF UpdateFalls, NoteHeights, Noted
  <2>4. \A k \in 1 .. n : Walked(g[k], k, heights)
    BY <1>1, StepsWalk
  <2> HIDE DEF g, n
  <2>5. Walked(fall', n, heights)
    BY <2>1, <2>3, <2>4
  <2>6. fall'.buffer \in [Ids -> Buffer] /\ fall'.previous = now /\ fall'.display \in [Ids -> Nat]
    BY <2>5 DEF Walked
  <2>7. ASSUME NEW id \in Ids
        PROVE  /\ since'[id] \in Seq(Int) /\ Len(since'[id]) =< HeightLen /\ Remembers(fall'.buffer[id], since'[id])
               /\ id \notin now => fall'.buffer[id] = Filled(HeightLen, -5)
    <3>1. CASE id \in now
      <4>1. since[id] \in Seq(Int) /\ Len(since[id]) =< HeightLen /\ heights[id] \in Int
        BY <3>1, PeopleAssumption DEF FallInv, HeightsGiven
      <4>2. Early(fall'.buffer[id], since[id], heights[id], 1)
        BY <2>5, <3>1 DEF Walked
      <4>3. since'[id] = SubSeq(<<heights[id]>> \o since[id], 1, IF Len(since[id]) < HeightLen THEN Len(since[id]) + 1 ELSE HeightLen)
        BY <2>3, <3>1
      <4>4. since'[id] \in Seq(Int) /\ Len(since'[id]) =< HeightLen /\ Remembers(fall'.buffer[id], since'[id])
        BY <4>1, <4>2, <4>3, HeightNoted
      <4> QED BY <3>1, <4>4
    <3>2. CASE id \notin now
      <4>1. since'[id] = <<>> /\ <<>> \in Seq(Int) /\ Len(<<>>) = 0
        BY <2>3, <3>2
      <4>2. fall'.buffer[id] = Filled(HeightLen, -5)
        BY <2>5, <3>2 DEF Walked
      <4> DEFINE none == since'[id]
                 b == fall'.buffer[id]
      <4>3. none \in Seq(Int) /\ Len(none) = 0 /\ b = Filled(HeightLen, -5)
        BY <4>1, <4>2
      <4> HIDE DEF none, b
      <4>4. Remembers(b, none)
        BY <4>3, NoHeights, Zenon
      <4>5. Len(none) =< HeightLen
        BY <1>2, <4>3
      <4> QED BY <4>3, <4>4, <4>5 DEF none, b
    <3> QED BY <3>1, <3>2
  <2>8. ASSUME NEW id \in Ids
        PROVE  /\ dropped'[id] \in Nat
               /\ dropped'[id] = 0 \/ dropped'[id] =< dropped[id] + 1
               /\ id \in now /\ Drops(id, heights[id]) => dropped'[id] = 0
    <3>1. dropped[id] \in Nat
      BY DEF FallInv
    <3> QED BY <1>2, <2>3, <3>1 DEF OneMore
  <2>9. ASSUME NEW id \in Ids, NEW k \in 1 .. n, g[k].display[id] # 0
        PROVE  dropped'[id] + g[k].display[id] =< ShowFrames
    <3>1. Walked(g[k], k, heights) /\ g[k].display[id] \in Nat
      BY <2>4 DEF Walked
    <3>2. fall.display[id] \in Nat /\ dropped[id] \in Nat /\ (fall.display[id] = 0 \/ dropped[id] + fall.display[id] =< ShowFrames)
      BY DEF FallInv
    <3>3. CASE id \in now /\ Drops(id, heights[id]) /\ g[k].display[id] =< ShowFrames
      BY <1>2, <2>8, <3>1, <3>3
    <3>4. CASE g[k].display[id] + k =< fall.display[id]
      <4> DEFINE d == g[k].display[id]
                 e == fall.display[id]
                 a == dropped[id]
                 b == dropped'[id]
      <4>1. d \in Nat /\ d # 0 /\ e \in Nat /\ a \in Nat /\ b \in Nat /\ d + k =< e /\ (b = 0 \/ b =< a + 1)
            /\ (e = 0 \/ a + e =< ShowFrames) /\ k \in Nat /\ k >= 1
        BY <1>1, <2>8, <2>9, <3>1, <3>2, <3>4 DEF n
      <4> HIDE DEF d, e, a, b
      <4>2. b + d =< ShowFrames
        BY <1>2, <4>1
      <4> QED BY <4>2 DEF b, d
    <3> QED BY <2>9, <3>1, <3>3, <3>4 DEF Walked
  <2>10. \A id \in Ids : fall'.display[id] = 0 \/ dropped'[id] + fall'.display[id] =< ShowFrames
    BY <2>1, <2>3, <2>9
  <2>11. FallsHaveDrops'
    <3> SUFFICES ASSUME NEW id \in falling' PROVE dropped'[id] < ShowFrames
      BY DEF FallsHaveDrops
    <3> DEFINE k == Turn(id, heights)
    <3>1. id \in now /\ id \in Ids /\ g[k].display[id] > 0
      BY <1>1, <2>3
    <3>2. k \in 1 .. n
      BY <1>1, <3>1, TurnType DEF n
    <3> HIDE DEF k
    <3>3. g[k].display[id] \in Nat
      BY <2>4, <3>1, <3>2 DEF Walked
    <3>4. dropped'[id] + g[k].display[id] =< ShowFrames /\ dropped'[id] \in Nat
      BY <2>8, <2>9, <3>1, <3>2, <3>3
    <3> QED BY <1>2, <3>1, <3>3, <3>4
  <2>12. since' \in [Ids -> Seq(Int)] /\ dropped' \in [Ids -> Nat]
    <3>1. since' = [id \in Ids |-> since'[id]]
      BY <2>3
    <3>2. dropped' = [id \in Ids |-> dropped'[id]]
      BY <2>3
    <3>3. since' \in [Ids -> Seq(Int)]
      BY <2>7, <3>1
    <3>4. dropped' \in [Ids -> Nat]
      BY <2>8, <3>2
    <3> QED BY <3>3, <3>4
  <2>13. falling' \subseteq Ids
    BY <1>1, <2>3
  <2> QED BY <1>1, <2>6, <2>7, <2>10, <2>11, <2>12, <2>13 DEF FallInv
<1> QED BY <1>4, <1>5, <1>6

LEMMA FallStep == StandingIsNoFall /\ FallInv /\ [Next]_vars => FallInv'
<1> SUFFICES ASSUME StandingIsNoFall, FallInv, [Next]_vars PROVE FallInv'
  OBVIOUS
<1>1. CASE UNCHANGED <<fall, falling, since, dropped>>
  BY <1>1 DEF FallInv, Remembers, FallsHaveDrops
<1>2. ASSUME NEW classes, NEW heights, HeightsGiven(heights), PeopleFrame(classes, heights) PROVE FallInv'
  BY <1>1, <1>2, FallFrameStep DEF PeopleFrame, noted
<1>3. CASE ShowPeople
  <2>1. ASSUME NEW heights \in Measured PROVE HeightsGiven(heights)
    <3>1. PICK now \in SUBSET Ids : heights \in [now -> Heights]
      BY DEF Measured
    <3>2. now = {} => heights = <<>>
      BY <3>1
    <3> QED BY <3>1, <3>2 DEF HeightsGiven
  <2>2. HeightsGiven(<<>>)
    <3>1. DOMAIN <<>> = 1 .. 0
      OBVIOUS
    <3> QED BY <3>1 DEF HeightsGiven
  <2> QED BY <1>2, <1>3, <2>1, <2>2 DEF ShowPeople
<1>4. CASE NewTracking
  <2>1. /\ fall'.buffer = [id \in Ids |-> Filled(HeightLen, -5)] /\ fall'.previous = {}
        /\ fall'.display = [id \in Ids |-> 0] /\ since' = [id \in Ids |-> <<>>]
        /\ falling' = falling /\ dropped' = dropped
    BY <1>4 DEF NewTracking
  <2>2. fall'.buffer \in [Ids -> Buffer] /\ fall'.display \in [Ids -> Nat]
    BY <2>1, NoHeights
  <2>3. <<>> \in Seq(Int) /\ Len(<<>>) = 0 /\ HeightLen \in Nat
    BY PeopleAssumption
  <2>4. since' \in [Ids -> Seq(Int)]
    BY <2>1, <2>3
  <2>5. ASSUME NEW id \in Ids
        PROVE  /\ Len(since'[id]) =< HeightLen /\ Remembers(fall'.buffer[id], since'[id])
               /\ fall'.buffer[id] = Filled(HeightLen, -5) /\ fall'.display[id] = 0
    <3> DEFINE none == since'[id]
               b == fall'.buffer[id]
    <3>1. none \in Seq(Int) /\ Len(none) = 0 /\ b = Filled(HeightLen, -5) /\ fall'.display[id] = 0
      BY <2>1, <2>3
    <3> HIDE DEF none, b
    <3>2. Remembers(b, none)
      BY <3>1, NoHeights, Zenon
    <3>3. Len(none) =< HeightLen
      BY <2>3, <3>1
    <3> QED BY <3>1, <3>2, <3>3 DEF none, b
  <2>6. FallsHaveDrops' /\ falling' \subseteq Ids /\ dropped' \in [Ids -> Nat]
    BY <2>1 DEF FallInv, FallsHaveDrops
  <2> QED BY <2>1, <2>2, <2>4, <2>5, <2>6 DEF FallInv
<1>5. Draw \/ Return \/ GraphDone \/ SwitchTab \/ StopDrawing \/ ToggleFalls \/ UNCHANGED people
        => UNCHANGED <<fall, falling, since, dropped>>
  BY DEF Draw, Return, GraphDone, SwitchTab, StopDrawing, ToggleFalls, people, noted
<1>6. UNCHANGED vars => UNCHANGED people
  BY DEF vars
<1> QED BY <1>1, <1>3, <1>4, <1>5, <1>6 DEF Next

(* A fall is shown of a number only when a track that has it, or had it    *)
(* before, dropped below the threshold of an earlier height of its own     *)
(* (FallDetection.step), never on heights of two tracks, and is gone after *)
(* as many steps as it is to be shown for, however many a frame makes - as *)
(* long as a steady height is no fall by the measure itself.               *)
THEOREM DisplaysShowRecentFalls == ASSUME StandingIsNoFall PROVE Spec => []FallsHaveDrops
<1>1. FallInv /\ [Next]_vars => FallInv'
  BY FallStep
<1>2. FallInv => FallsHaveDrops
  BY DEF FallInv
<1> QED BY <1>1, <1>2, FallInit, PTL DEF Spec
=============================================================================
