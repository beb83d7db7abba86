-------------------------- MODULE VisualizerProofs --------------------------
(***************************************************************************)
(* Safety of module Visualizer for any devices, demos, baud rates, frames  *)
(* per file, clicks and faults: no frame recorded on a connection is lost  *)
(* or repeated, the reading thread is never replaced while it runs, the    *)
(* ports are opened at the rates their demo needs, a replay is whole up to *)
(* a frame the display raises for, and a restart restores the choice.      *)
(***************************************************************************)
EXTENDS Visualizer, SequenceTheorems, TLAPS

Places == {"none", "idle", "run", "parsed", "append", "dir", "made", "open", "write", "clear", "close"}
ThreadType == [pc : Places, double : BOOLEAN, frame : Nat, out : Seq(Nat)]
WindowType == [status : {"Not Connected", "Connected", "Unable to Connect"}, lists : BOOLEAN,
               connect : BOOLEAN, send : BOOLEAN, start : BOOLEAN, record : BOOLEAN, play : BOOLEAN,
               canCache : BOOLEAN, cfg : BOOLEAN]
ParserType == [saving : BOOLEAN, counter : Nat, frames : Seq(Nat), first : BOOLEAN, dir : BOOLEAN,
               stored : Seq(Nat)]

TypeOK ==
  /\ thread \in ThreadType /\ window \in WindowType /\ rec \in ParserType
  /\ timer \in {"none", "off", "on"}
  /\ DOMAIN cache = {"device", "demo", "record"} /\ cache.record \in BOOLEAN
  /\ DOMAIN choice = {"device", "demo"} /\ DOMAIN rates = Ports /\ menus \subseteq Ports
  /\ recorded \in Seq(Nat) /\ reads \in Nat
  /\ cutOff \in BOOLEAN /\ detached \in BOOLEAN /\ aborted \in BOOLEAN

(* The file that is written holds the frames until they are cleared *)
OutIsFrames == thread.pc \in {"write", "clear"} => thread.out = rec.frames

(* All frames recorded by this run of the program are kept, those of       *)
(* connections before included: nothing clears them at a reset.            *)
FramesInOrder == ~cutOff => recorded = rec.stored \o InClosing \o rec.frames

Recording == FramesInOrder /\ OutIsFrames

(* Frames of the connections before are among those recorded *)
FormerIsPart == former \in Nat /\ former <= Len(recorded)

(* Without a connection nothing runs, and no timer starts it, unless the   *)
(* timer was started without one.                                          *)
Threading ==
  /\ aborted => detached
  /\ window.status # "Connected" /\ ~detached => ~Running /\ timer # "on"

(* What the menus show is the preset of the choice or was picked by hand *)
RatesArePreset ==
  \A p \in PresetPorts(choice.device) : p \in picked \/ rates[p] = Preset(choice.device, choice.demo, p)

RatesSound == RatesArePreset /\ OpenedAtPreset

VisualizerInv == TypeOK /\ Recording /\ FormerIsPart /\ Threading /\ RatesSound

-----------------------------------------------------------------------------
(* Types *)

LEMMA TypeStep == TypeOK /\ [Next]_vars => TypeOK'
<1> SUFFICES ASSUME TypeOK, [Next]_vars PROVE TypeOK'
  OBVIOUS
<1>1. CASE ChooseDemo
  BY <1>1 DEF ChooseDemo, TypeOK, Click, settings, replaying, history, reader, Chosen, Presets, WindowType
<1>2. CASE ChooseDevice
  BY <1>2 DEF ChooseDevice, TypeOK, Click, settings, replaying, history, reader, Chosen, Presets, Menus, PresetPorts, Ports, WindowType
<1>3. CASE PickRate
  BY <1>3 DEF PickRate, TypeOK, Click, settings, replaying, history, reader
<1>4. CASE ToggleRecord
  BY <1>4 DEF ToggleRecord, TypeOK, Click, settings, replaying, history, reader, Toggled, WindowType, ParserType
<1>5. CASE SelectCfg
  BY <1>5 DEF SelectCfg, TypeOK, Click, settings, replaying, history, reader, WindowType
<1>6. CASE Connect
  <2>1. UNCHANGED <<cache, choice, rates, rec, recorded, reads, cutOff, detached>>
    BY <1>6 DEF Connect, replaying
  <2>2. CASE Running
    BY <1>6, <2>1, <2>2 DEF Connect, TypeOK
  <2>3. CASE ~Running
    <3>1. thread' = [NoThread EXCEPT !.pc = "idle"] /\ timer' = "off" /\ aborted' = aborted /\ (Connected \/ NotConnected)
      BY <1>6, <2>3 DEF Connect
    <3>2. <<>> \in Seq(Nat)
      BY EmptySeq
    <3>3. thread' \in ThreadType
      BY <3>1, <3>2 DEF NoThread, ThreadType, Places
    <3>4. CASE Connected
      <4>1. window' = [window EXCEPT !.status = "Connected", !.start = TRUE, !.send = choice.demo # NoCfgDemo]
            /\ menus' = {}
        BY <3>4 DEF Connected, Locked
      <4>2. window' \in WindowType
        BY <4>1 DEF TypeOK, WindowType
      <4> QED BY <2>1, <3>1, <3>3, <4>1, <4>2 DEF TypeOK
    <3>5. CASE NotConnected
      <4>1. window' = [window EXCEPT !.status = "Unable to Connect", !.start = FALSE, !.send = FALSE] /\ menus' = menus
        BY <3>5 DEF NotConnected
      <4>2. window' \in WindowType
        BY <4>1 DEF TypeOK, WindowType
      <4> QED BY <2>1, <3>1, <3>3, <4>1, <4>2 DEF TypeOK
    <3> QED BY <3>1, <3>4, <3>5
  <2> QED BY <2>2, <2>3
<1>7. CASE Reset
  BY <1>7 DEF Reset, TypeOK, Click, settings, replaying, history, reader, Stopped, Menus, PresetPorts, Ports, ThreadType, Places, WindowType
<1>8. CASE Start
  BY <1>8 DEF Start, TypeOK, Click, settings, replaying, history, reader, TimerStarted
<1>9. CASE SendCfg
  BY <1>9 DEF SendCfg, TypeOK, Click, settings, replaying, history, reader, TimerStarted
<1>10. CASE PlayOrPause
  BY <1>10 DEF PlayOrPause, TypeOK, Click, settings, replaying, history, reader
<1>11. CASE LoadReplay
  BY <1>11 DEF LoadReplay, TypeOK, Click, settings, replaying, history, reader, WindowType, ParserType
<1>12. CASE LeaveReplay
  BY <1>12 DEF LeaveReplay, TypeOK, Click, settings, replaying, history, reader, WindowType
<1>13. CASE MoveSlider
  BY <1>13 DEF MoveSlider, TypeOK, Click, settings, replaying, history, reader
<1>14. CASE ReplayTick
  BY <1>14 DEF ReplayTick, TypeOK, Click, settings, replaying, history, reader
<1>15. CASE Tick
  <2>1. UNCHANGED <<window, timer, cache, choice, rates, menus, detached, aborted>>
    BY <1>15 DEF Tick, Parsing, OnlyThread, settings, replaying, history
  <2>2. thread' = [thread EXCEPT !.pc = "run", !.double = Double(choice.device)] /\ UNCHANGED <<rec, recorded, cutOff, reads>>
    BY <1>15 DEF Tick, Parsing
  <2>3. Double(choice.device) \in BOOLEAN
    BY DEF Double
  <2>4. thread' \in ThreadType
    BY <2>2, <2>3 DEF TypeOK, ThreadType, Places
  <2> QED BY <2>1, <2>2, <2>4 DEF TypeOK
<1>16. CASE NoPort
  BY <1>16 DEF NoPort, TypeOK, Click, settings, replaying, history, reader, OnlyThread, Parsing, Goes, Fault, ThreadType, Places, ParserType
<1>17. CASE Read
  <2>1. UNCHANGED <<window, timer, cache, choice, rates, menus, detached, aborted>>
    BY <1>17 DEF Read, Parsing, OnlyThread, settings, replaying, history
  <2>2. PICK f \in {0, reads + 1} : thread' = [thread EXCEPT !.pc = "parsed", !.frame = f]
    BY <1>17 DEF Read
  <2>3. reads' = reads + 1 /\ UNCHANGED <<rec, recorded, cutOff>>
    BY <1>17 DEF Read
  <2>4. reads + 1 \in Nat
    BY DEF TypeOK
  <2>5. thread' \in ThreadType
    <3>1. f \in Nat /\ "parsed" \in Places
      BY <2>4 DEF Places
    <3> QED BY <2>2, <3>1 DEF TypeOK, ThreadType
  <2> QED BY <2>1, <2>3, <2>4, <2>5 DEF TypeOK
<1>18. CASE CountFrame
  <2>1. UNCHANGED <<window, timer, cache, choice, rates, menus, detached, aborted>>
    BY <1>18 DEF CountFrame, Parsing, OnlyThread, settings, replaying, history
  <2>2. \/ thread' = [thread EXCEPT !.pc = "append"] /\ rec' = [rec EXCEPT !.counter = rec.counter + 1]
        \/ thread' = [thread EXCEPT !.pc = "idle"] /\ rec' = rec
    BY <1>18 DEF CountFrame, Goes
  <2>3. UNCHANGED <<recorded, cutOff, reads>>
    BY <1>18 DEF CountFrame, Parsing
  <2>4. rec.counter + 1 \in Nat
    BY DEF TypeOK, ParserType
  <2>5. thread' \in ThreadType /\ rec' \in ParserType
    BY <2>2, <2>4 DEF TypeOK, ThreadType, Places, ParserType
  <2> QED BY <2>1, <2>3, <2>5 DEF TypeOK
<1>19. CASE AppendFrame
  <2>1. UNCHANGED <<window, timer, cache, choice, rates, menus, detached, aborted>>
    BY <1>19 DEF AppendFrame, Parsing, OnlyThread, settings, replaying, history
  <2>2. UNCHANGED <<cutOff, reads>>
    BY <1>19 DEF AppendFrame, Parsing
  <2>3. \E pc \in {"idle", "dir"} : thread' = [thread EXCEPT !.pc = pc]
    BY <1>19 DEF AppendFrame, Goes
  <2>4. \/ UNCHANGED <<rec, recorded>>
        \/ /\ rec' = [rec EXCEPT !.frames = Append(rec.frames, thread.frame)]
           /\ recorded' = Append(recorded, thread.frame)
    BY <1>19 DEF AppendFrame
  <2>5. rec.frames \in Seq(Nat) /\ thread.frame \in Nat /\ recorded \in Seq(Nat)
    BY DEF TypeOK, ParserType, ThreadType
  <2>6. Append(rec.frames, thread.frame) \in Seq(Nat) /\ Append(recorded, thread.frame) \in Seq(Nat)
    BY <2>5, AppendProperties
  <2>7. thread' \in ThreadType
    BY <2>3 DEF TypeOK, ThreadType, Places
  <2>8. rec' \in ParserType /\ recorded' \in Seq(Nat)
    BY <2>4, <2>6 DEF TypeOK, ParserType
  <2> QED BY <2>1, <2>2, <2>7, <2>8 DEF TypeOK
<1>20. CASE MakeDir
  BY <1>20 DEF MakeDir, TypeOK, Click, settings, replaying, history, reader, OnlyThread, Parsing, Goes, Fault, ThreadType, Places, ParserType
<1>21. CASE DirMade
  BY <1>21 DEF DirMade, TypeOK, Click, settings, replaying, history, reader, OnlyThread, Parsing, Goes, Fault, ThreadType, Places, ParserType
<1>22. CASE OpenFile
  BY <1>22 DEF OpenFile, TypeOK, Click, settings, replaying, history, reader, OnlyThread, Parsing, Goes, Fault, ThreadType, Places, ParserType, Opened
<1>23. CASE WriteFile
  BY <1>23 DEF WriteFile, TypeOK, Click, settings, replaying, history, reader, OnlyThread, Parsing, Goes, Fault, ThreadType, Places, ParserType
<1>24. CASE ClearFrames
  <2>1. UNCHANGED <<window, timer, cache, choice, rates, menus, detached, aborted>>
    BY <1>24 DEF ClearFrames, Parsing, OnlyThread, settings, replaying, history
  <2>2. /\ rec' = [rec EXCEPT !.frames = <<>>] /\ thread' = [thread EXCEPT !.pc = "close"]
        /\ UNCHANGED <<recorded, cutOff, reads>>
    BY <1>24 DEF ClearFrames, Goes, Parsing
  <2>3. <<>> \in Seq(Nat)
    BY EmptySeq
  <2>4. thread' \in ThreadType /\ rec' \in ParserType
    BY <2>2, <2>3 DEF TypeOK, ThreadType, Places, ParserType
  <2> QED BY <2>1, <2>2, <2>4 DEF TypeOK
<1>25. CASE CloseFile
  <2>1. UNCHANGED <<window, timer, cache, choice, rates, menus, detached, aborted>>
    BY <1>25 DEF CloseFile, Parsing, OnlyThread, settings, replaying, history
  <2>2. /\ thread' = [thread EXCEPT !.pc = "idle", !.out = <<>>]
        /\ UNCHANGED <<recorded, reads>>
    BY <1>25 DEF CloseFile, Parsing
  <2>3. \/ rec' = [rec EXCEPT !.stored = rec.stored \o thread.out] /\ cutOff' = cutOff
        \/ rec' = rec /\ cutOff' = TRUE
    BY <1>25 DEF CloseFile
  <2>4. <<>> \in Seq(Nat) /\ rec.stored \o thread.out \in Seq(Nat)
    <3>1. rec.stored \in Seq(Nat) /\ thread.out \in Seq(Nat)
      BY DEF TypeOK, ThreadType, ParserType
    <3> QED BY <3>1, ConcatProperties, EmptySeq
  <2>5. thread' \in ThreadType
    BY <2>2, <2>4 DEF TypeOK, ThreadType, Places
  <2>6. rec' \in ParserType /\ cutOff' \in BOOLEAN
    BY <2>3, <2>4 DEF TypeOK, ParserType
  <2> QED BY <2>1, <2>2, <2>5, <2>6 DEF TypeOK
<1>26. CASE Restart
  <2>1. /\ window' = StartWindow(choice', cache.record) /\ rec' = [NoParser EXCEPT !.saving = cache.record]
        /\ thread' = NoThread /\ recorded' = <<>> /\ timer' = "none"
        /\ cutOff' = FALSE /\ detached' = FALSE /\ aborted' = FALSE
        /\ UNCHANGED <<cache, reads>>
    BY <1>26 DEF Restart
  <2>2. /\ choice' = Cached(cache) /\ rates' = StartRates(choice') /\ menus' = StartMenus(choice')
    BY <1>26 DEF Restart
  <2>3. DOMAIN choice' = {"device", "demo"}
    BY <2>2 DEF Cached
  <2>4. DOMAIN rates' = Ports
    BY <2>2 DEF StartRates, Presets
  <2>5. menus' \subseteq Ports
    BY <2>2 DEF StartMenus, Menus, PresetPorts, Ports
  <2>6. <<>> \in Seq(Nat)
    BY EmptySeq
  <2>7. thread' \in ThreadType
    BY <2>1, <2>6 DEF NoThread, ThreadType, Places
  <2>8. rec' \in ParserType
    BY <2>1, <2>6 DEF NoParser, ParserType, TypeOK
  <2>9. window' \in WindowType
    BY <2>1 DEF StartWindow, FirstWindow, WindowType, TypeOK
  <2> QED BY <2>1, <2>3, <2>4, <2>5, <2>6, <2>7, <2>8, <2>9 DEF TypeOK
<1>27. CASE UNCHANGED vars
  BY <1>27 DEF vars, settings, replaying, history, reader, TypeOK, Click, settings, replaying, history, reader
<1> QED BY <1>1, <1>2, <1>3, <1>4, <1>5, <1>6, <1>7, <1>8, <1>9, <1>10, <1>11, <1>12, <1>13, <1>14, <1>15, <1>16, <1>17, <1>18, <1>19, <1>20, <1>21, <1>22, <1>23, <1>24, <1>25, <1>26, <1>27 DEF Next

-----------------------------------------------------------------------------
(* Frames *)

(* Frames of the file, of the one being closed and in memory are one       *)
(* sequence, which a frame appended, or frames moved along, keep.          *)
LEMMA Moved ==
  ASSUME NEW a \in Seq(Nat), NEW b \in Seq(Nat), NEW f \in Nat
  PROVE  /\ a \o <<>> \o Append(b, f) = Append(a \o <<>> \o b, f)
         /\ a \o b \o <<>> = a \o <<>> \o b
<1>1. a \o <<>> = a /\ a \o b \in Seq(Nat) /\ <<f>> \in Seq(Nat)
  BY ConcatEmptySeq, ConcatProperties
<1>2. a \o Append(b, f) = Append(a \o b, f)
  <2>1. Append(b, f) = b \o <<f>> /\ Append(a \o b, f) = (a \o b) \o <<f>>
    BY <1>1, AppendIsConcat
  <2> QED BY <2>1, <1>1, ConcatAssociative
<1>3. (a \o b) \o <<>> = a \o b
  BY <1>1, ConcatEmptySeq
<1> QED BY <1>1, <1>2, <1>3

(* What leaves the frames and the place of the thread among them alone *)
LEMMA RecordingKept ==
  ASSUME Recording, UNCHANGED recorded,
         rec'.frames = rec.frames, rec'.stored = rec.stored,
         thread.pc # "close" \/ cutOff', cutOff => cutOff',
         thread'.pc # "close",
         thread'.pc \in {"write", "clear"} => thread'.out = rec.frames
  PROVE  Recording'
<1>1. OutIsFrames'
  BY DEF OutIsFrames
<1>2. InClosing' = <<>>
  BY DEF InClosing
<1>3. CASE cutOff'
  BY <1>1, <1>3 DEF Recording, FramesInOrder
<1>4. CASE ~cutOff'
  <2>1. ~cutOff /\ InClosing = <<>>
    BY <1>4 DEF InClosing
  <2>2. recorded = rec.stored \o <<>> \o rec.frames
    BY <2>1 DEF Recording, FramesInOrder
  <2>3. FramesInOrder'
    BY <2>2, <1>2 DEF FramesInOrder
  <2> QED BY <1>1, <2>3 DEF Recording
<1> QED BY <1>3, <1>4

(* What leaves the thread alone *)
LEMMA RecordingAlone ==
  ASSUME Recording, UNCHANGED <<recorded, thread, cutOff>>,
         rec'.frames = rec.frames, rec'.stored = rec.stored
  PROVE  Recording'
BY DEF Recording, FramesInOrder, OutIsFrames, InClosing

(* Every step keeps the frames recorded *)
LEMMA RecordingStep == TypeOK /\ Recording /\ [Next]_vars => Recording'
<1> SUFFICES ASSUME TypeOK /\ Recording, [Next]_vars PROVE Recording'
  OBVIOUS
<1>1. CASE ToggleRecord
  BY <1>1, RecordingAlone DEF ToggleRecord, Toggled, TypeOK, ParserType
<1>2. CASE LoadReplay
  BY <1>2, RecordingAlone DEF LoadReplay, TypeOK, ParserType
<1>3. CASE Connect
  <2>1. UNCHANGED <<rec, recorded, cutOff>>
    BY <1>3 DEF Connect
  <2>2. CASE Running
    BY <1>3, <2>1, <2>2, RecordingAlone DEF Connect
  <2>3. CASE ~Running
    <3>1. thread'.pc = "idle" /\ thread.pc # "close"
      BY <1>3, <2>3 DEF Connect, NoThread, Running
    <3> QED BY <2>1, <3>1, RecordingKept
  <2> QED BY <2>2, <2>3
<1>4. CASE Reset
  <2>1. UNCHANGED <<rec, recorded>> /\ cutOff' = (cutOff \/ thread.pc = "close")
    BY <1>4 DEF Reset, Cuts
  <2>2. thread'.pc = "idle"
    BY <1>4 DEF Reset, TypeOK, ThreadType
  <2> QED BY <2>1, <2>2, RecordingKept
<1>5. CASE Tick
  <2>1. /\ UNCHANGED recorded /\ rec'.frames = rec.frames /\ rec'.stored = rec.stored
        /\ thread.pc # "close" \/ cutOff'
        /\ cutOff => cutOff'
    BY <1>5 DEF Tick, Parsing, OnlyThread, TypeOK, ParserType
  <2>2. /\ thread'.pc # "close"
        /\ thread'.pc \in {"write", "clear"} => thread'.out = rec.frames
    BY <1>5 DEF Tick, Goes, TypeOK, ThreadType
  <2> QED BY <2>1, <2>2, RecordingKept
<1>6. CASE NoPort
  <2>1. /\ UNCHANGED recorded /\ rec'.frames = rec.frames /\ rec'.stored = rec.stored
        /\ thread.pc # "close" \/ cutOff'
        /\ cutOff => cutOff'
    BY <1>6 DEF NoPort, Parsing, OnlyThread, TypeOK, ParserType
  <2>2. /\ thread'.pc # "close"
        /\ thread'.pc \in {"write", "clear"} => thread'.out = rec.frames
    BY <1>6 DEF NoPort, Goes, TypeOK, ThreadType
  <2> QED BY <2>1, <2>2, RecordingKept
<1>7. CASE Read
  <2>1. /\ UNCHANGED recorded /\ rec'.frames = rec.frames /\ rec'.stored = rec.stored
        /\ thread.pc # "close" \/ cutOff'
        /\ cutOff => cutOff'
    BY <1>7 DEF Read, Parsing, OnlyThread, TypeOK, ParserType
  <2>2. /\ thread'.pc # "close"
        /\ thread'.pc \in {"write", "clear"} => thread'.out = rec.frames
    BY <1>7 DEF Read, Goes, TypeOK, ThreadType
  <2> QED BY <2>1, <2>2, RecordingKept
<1>8. CASE CountFrame
  <2>1. /\ UNCHANGED recorded /\ rec'.frames = rec.frames /\ rec'.stored = rec.stored
        /\ thread.pc # "close" \/ cutOff'
        /\ cutOff => cutOff'
    BY <1>8 DEF CountFrame, Parsing, OnlyThread, TypeOK, ParserType
  <2>2. /\ thread'.pc # "close"
        /\ thread'.pc \in {"write", "clear"} => thread'.out = rec.frames
    BY <1>8 DEF CountFrame, Goes, TypeOK, ThreadType
  <2> QED BY <2>1, <2>2, RecordingKept
<1>9. CASE MakeDir
  <2>1. /\ UNCHANGED recorded /\ rec'.frames = rec.frames /\ rec'.stored = rec.stored
        /\ thread.pc # "close" \/ cutOff'
        /\ cutOff => cutOff'
    BY <1>9 DEF MakeDir, Parsing, OnlyThread, TypeOK, ParserType
  <2>2. /\ thread'.pc # "close"
        /\ thread'.pc \in {"write", "clear"} => thread'.out = rec.frames
    BY <1>9 DEF MakeDir, Goes, TypeOK, ThreadType
  <2> QED BY <2>1, <2>2, RecordingKept
<1>10. CASE DirMade
  <2>1. /\ UNCHANGED recorded /\ rec'.frames = rec.frames /\ rec'.stored = rec.stored
        /\ thread.pc # "close" \/ cutOff'
        /\ cutOff => cutOff'
    BY <1>10 DEF DirMade, Parsing, OnlyThread, TypeOK, ParserType
  <2>2. /\ thread'.pc # "close"
        /\ thread'.pc \in {"write", "clear"} => thread'.out = rec.frames
    BY <1>10 DEF DirMade, Goes, TypeOK, ThreadType
  <2> QED BY <2>1, <2>2, RecordingKept
<1>11. CASE WriteFile
  <2>1. /\ UNCHANGED recorded /\ rec'.frames = rec.frames /\ rec'.stored = rec.stored
        /\ thread.pc # "close" \/ cutOff'
        /\ cutOff => cutOff'
    BY <1>11 DEF WriteFile, Parsing, OnlyThread, TypeOK, ParserType
  <2>2. /\ thread'.pc # "close"
        /\ thread'.pc \in {"write", "clear"} => thread'.out = rec.frames
    BY <1>11 DEF WriteFile, Goes, TypeOK, ThreadType, Recording, OutIsFrames
  <2> QED BY <2>1, <2>2, RecordingKept
<1>12. CASE OpenFile
  <2>1. /\ UNCHANGED recorded /\ rec'.frames = rec.frames /\ rec'.stored = rec.stored
        /\ thread.pc # "close" \/ cutOff'
        /\ cutOff => cutOff'
    BY <1>12 DEF OpenFile, Parsing, OnlyThread, TypeOK, ParserType, Opened
  <2>2. /\ thread'.pc # "close"
        /\ thread'.pc \in {"write", "clear"} => thread'.out = rec.frames
    BY <1>12 DEF OpenFile, Goes, TypeOK, ThreadType, Opened, ParserType
  <2> QED BY <2>1, <2>2, RecordingKept
<1>13. CASE AppendFrame
  <2>1. thread.pc = "append" /\ cutOff' = cutOff /\ thread'.pc \in {"idle", "dir"}
    BY <1>13 DEF AppendFrame, Parsing, Goes, TypeOK, ThreadType
  <2>2. CASE UNCHANGED <<rec, recorded>>
    BY <2>1, <2>2, RecordingKept
  <2>3. CASE /\ rec' = [rec EXCEPT !.frames = Append(rec.frames, thread.frame)]
             /\ recorded' = Append(recorded, thread.frame)
    <3>1. rec'.frames = Append(rec.frames, thread.frame) /\ rec'.stored = rec.stored
      BY <2>3 DEF TypeOK, ParserType
    <3>2. InClosing = <<>> /\ InClosing' = <<>> /\ OutIsFrames'
      BY <2>1 DEF InClosing, OutIsFrames
    <3>3. rec.stored \in Seq(Nat) /\ rec.frames \in Seq(Nat) /\ thread.frame \in Nat
      BY DEF TypeOK, ParserType, ThreadType
    <3>4. ~cutOff => recorded = rec.stored \o <<>> \o rec.frames
      BY <3>2 DEF Recording, FramesInOrder
    <3>5. rec.stored \o <<>> \o Append(rec.frames, thread.frame) = Append(rec.stored \o <<>> \o rec.frames, thread.frame)
      BY <3>3, Moved
    <3>6. ~cutOff' => recorded' = rec'.stored \o InClosing' \o rec'.frames
      BY <2>1, <2>3, <3>1, <3>2, <3>4, <3>5
    <3> QED BY <3>2, <3>6 DEF Recording, FramesInOrder
  <2> QED BY <1>13, <2>2, <2>3 DEF AppendFrame
<1>14. CASE ClearFrames
  <2>1. /\ thread.pc = "clear" /\ rec' = [rec EXCEPT !.frames = <<>>] /\ thread' = [thread EXCEPT !.pc = "close"]
        /\ UNCHANGED <<recorded, cutOff>>
    BY <1>14 DEF ClearFrames, Goes, Parsing
  <2>2. /\ rec'.frames = <<>> /\ rec'.stored = rec.stored
        /\ thread'.pc = "close" /\ thread'.out = rec.frames
    BY <2>1 DEF TypeOK, ParserType, ThreadType, Recording, OutIsFrames
  <2>3. InClosing = <<>> /\ InClosing' = rec.frames /\ OutIsFrames'
    BY <2>1, <2>2 DEF InClosing, OutIsFrames
  <2>4. rec.stored \o rec.frames \o <<>> = rec.stored \o <<>> \o rec.frames
    <3>1. rec.stored \in Seq(Nat) /\ rec.frames \in Seq(Nat)
      BY DEF TypeOK, ParserType
    <3> QED BY <3>1, Moved
  <2>5. ~cutOff => recorded = rec.stored \o <<>> \o rec.frames
    BY <2>3 DEF Recording, FramesInOrder
  <2>6. ~cutOff' => recorded' = rec'.stored \o InClosing' \o rec'.frames
    BY <2>1, <2>2, <2>3, <2>4, <2>5
  <2> QED BY <2>3, <2>6 DEF Recording, FramesInOrder
<1>15. CASE CloseFile
  <2>1. /\ thread.pc = "close" /\ thread' = [thread EXCEPT !.pc = "idle", !.out = <<>>] /\ UNCHANGED recorded
    BY <1>15 DEF CloseFile, Parsing
  <2>2. thread'.pc = "idle" /\ InClosing = thread.out
    BY <2>1 DEF TypeOK, ThreadType, InClosing
  <2>3. InClosing' = <<>> /\ OutIsFrames'
    BY <2>2 DEF InClosing, OutIsFrames
  <2>4. CASE cutOff'
    BY <2>3, <2>4 DEF Recording, FramesInOrder
  <2>5. CASE ~cutOff'
    <3>0. (rec' = [rec EXCEPT !.stored = rec.stored \o thread.out] /\ (cutOff => cutOff')) \/ cutOff'
      BY <1>15 DEF CloseFile
    <3>1. rec' = [rec EXCEPT !.stored = rec.stored \o thread.out] /\ ~cutOff
      BY <2>5, <3>0
    <3>2. rec'.stored = rec.stored \o thread.out /\ rec'.frames = rec.frames
      BY <3>1 DEF TypeOK, ParserType
    <3>3. recorded = rec.stored \o thread.out \o rec.frames
      BY <2>2, <3>1 DEF Recording, FramesInOrder
    <3>4. rec.stored \o thread.out \o <<>> = rec.stored \o thread.out
      <4>1. rec.stored \in Seq(Nat) /\ thread.out \in Seq(Nat)
        BY DEF TypeOK, ParserType, ThreadType
      <4> QED BY <4>1, ConcatProperties, ConcatEmptySeq
    <3>5. recorded' = rec'.stored \o InClosing' \o rec'.frames
      BY <2>1, <2>3, <3>2, <3>3, <3>4
    <3> QED BY <2>3, <3>5 DEF Recording, FramesInOrder
  <2> QED BY <2>4, <2>5
<1>16. CASE Restart
  <2>1. recorded' = <<>> /\ cutOff' = FALSE /\ thread' = NoThread /\ rec' = [NoParser EXCEPT !.saving = cache.record]
    BY <1>16 DEF Restart
  <2>2. thread'.pc = "none" /\ rec'.stored = <<>> /\ rec'.frames = <<>>
    BY <2>1 DEF NoThread, NoParser
  <2>3. InClosing' = <<>> /\ OutIsFrames'
    BY <2>2 DEF InClosing, OutIsFrames
  <2>4. <<>> \o <<>> \o <<>> = <<>>
    BY EmptySeq, ConcatEmptySeq
  <2> QED BY <2>1, <2>2, <2>3, <2>4 DEF Recording, FramesInOrder
<1>17. CASE ChooseDemo \/ ChooseDevice \/ PickRate \/ SelectCfg \/ Start \/ SendCfg \/ PlayOrPause \/ LeaveReplay \/ MoveSlider \/ ReplayTick \/ UNCHANGED vars
  <2>1. UNCHANGED reader
    BY <1>17 DEF ChooseDemo, ChooseDevice, PickRate, SelectCfg, Start, SendCfg, PlayOrPause, LeaveReplay, MoveSlider, ReplayTick, vars
  <2> QED BY <2>1, RecordingAlone DEF reader
<1> QED BY <1>1, <1>2, <1>3, <1>4, <1>5, <1>6, <1>7, <1>8, <1>9, <1>10, <1>11, <1>12, <1>13, <1>14, <1>15, <1>16, <1>17 DEF Next

(* A reset counts the frames recorded so far, of which none is forgotten *)
LEMMA FormerStep == TypeOK /\ FormerIsPart /\ [Next]_vars => FormerIsPart'
<1> SUFFICES ASSUME TypeOK /\ FormerIsPart, [Next]_vars PROVE FormerIsPart'
  OBVIOUS
<1>0. Len(recorded) \in Nat
  BY LenProperties DEF TypeOK
<1>1. CASE Reset
  <2>1. former' = Len(recorded) /\ recorded' = recorded
    BY <1>1 DEF Reset
  <2> QED BY <1>0, <2>1 DEF FormerIsPart
<1>2. CASE Restart
  <2>1. former' = 0 /\ recorded' = <<>> /\ Len(<<>>) = 0
    BY <1>2, EmptySeq DEF Restart
  <2> QED BY <2>1 DEF FormerIsPart
<1>3. CASE AppendFrame
  <2>1. former' = former /\ (recorded' = recorded \/ recorded' = Append(recorded, thread.frame))
    BY <1>3 DEF AppendFrame, Parsing, OnlyThread, history
  <2>2. Len(Append(recorded, thread.frame)) = Len(recorded) + 1
    BY AppendProperties DEF TypeOK, ThreadType
  <2> QED BY <1>0, <2>1, <2>2 DEF FormerIsPart
<1>4. CASE ChooseDemo \/ ChooseDevice \/ PickRate \/ ToggleRecord \/ SelectCfg \/ Connect \/ Start \/ SendCfg \/ PlayOrPause
           \/ LoadReplay \/ LeaveReplay \/ MoveSlider \/ ReplayTick \/ UNCHANGED vars
  <2>1. UNCHANGED <<former, recorded>>
    BY <1>4 DEF ChooseDemo, ChooseDevice, PickRate, ToggleRecord, SelectCfg, Connect, Start, SendCfg, PlayOrPause,
                LoadReplay, LeaveReplay, MoveSlider, ReplayTick, vars, history, reader
  <2> QED BY <2>1 DEF FormerIsPart
<1>5. CASE Tick \/ NoPort \/ Read \/ CountFrame \/ MakeDir \/ DirMade \/ OpenFile \/ WriteFile \/ ClearFrames \/ CloseFile
  <2>1. UNCHANGED <<former, recorded>>
    BY <1>5 DEF Tick, NoPort, Read, CountFrame, MakeDir, DirMade, OpenFile, WriteFile, ClearFrames, CloseFile,
                Parsing, OnlyThread, history
  <2> QED BY <2>1 DEF FormerIsPart
<1> QED BY <1>1, <1>2, <1>3, <1>4, <1>5 DEF Next

-----------------------------------------------------------------------------
(* The reading thread *)

LEMMA ThreadingAlone ==
  ASSUME Threading, window'.status = window.status, UNCHANGED <<timer, thread, detached, aborted>>
  PROVE  Threading'
BY DEF Threading, Running

(* A thread that goes on, or is started by the timer, may do so because    *)
(* there is a connection or the timer was started without one.             *)
LEMMA ThreadingOn ==
  ASSUME Threading, Running \/ timer = "on", UNCHANGED <<window, detached, aborted>>
  PROVE  Threading'
BY DEF Threading

(* Every step keeps the thread and its timer to connections *)
LEMMA ThreadingStep == TypeOK /\ Threading /\ [Next]_vars => Threading'
<1> SUFFICES ASSUME TypeOK /\ Threading, [Next]_vars PROVE Threading'
  OBVIOUS
<1>1. CASE Tick \/ Read \/ CountFrame \/ AppendFrame \/ MakeDir \/ DirMade \/ OpenFile \/ WriteFile \/ ClearFrames \/ CloseFile \/ NoPort
  <2>1. (Running \/ timer = "on") /\ OnlyThread
    BY <1>1 DEF Tick, Read, CountFrame, AppendFrame, MakeDir, DirMade, OpenFile, WriteFile, ClearFrames, CloseFile, NoPort, Running, Parsing
  <2> QED BY <2>1, ThreadingOn DEF OnlyThread, history
<1>2. CASE Connect
  <2>1. window.status # "Connected" /\ detached' = detached
    BY <1>2 DEF Connect
  <2>2. CASE Running
    BY <1>2, <2>1, <2>2 DEF Connect, Threading, Running
  <2>3. CASE ~Running
    <3>1. thread'.pc = "idle" /\ timer' = "off" /\ aborted' = aborted
      BY <1>2, <2>3 DEF Connect, NoThread
    <3> QED BY <2>1, <3>1 DEF Threading, Running
  <2> QED BY <2>2, <2>3
<1>3. CASE Reset
  <2>1. thread'.pc = "idle" /\ timer' = "off" /\ UNCHANGED <<aborted, detached>>
    BY <1>3 DEF Reset, Stopped, history, TypeOK, ThreadType
  <2> QED BY <2>1 DEF Threading, Running
<1>4. CASE Start \/ SendCfg
  <2>1. UNCHANGED <<window, thread, aborted>> /\ (TimerStarted \/ UNCHANGED <<timer, detached>>)
    BY <1>4 DEF Start, SendCfg, reader
  <2>2. CASE TimerStarted
    <3>1. /\ detached => detached'
          /\ window.status # "Connected" => detached'
      BY <2>2 DEF TimerStarted
    <3> QED BY <2>1, <3>1 DEF Threading
  <2> QED BY <2>1, <2>2, ThreadingAlone
<1>5. CASE Restart
  <2>1. thread'.pc = "none" /\ timer' = "none" /\ aborted' = FALSE
    BY <1>5 DEF Restart, NoThread
  <2> QED BY <2>1 DEF Threading, Running
<1>6. CASE ChooseDemo \/ ChooseDevice \/ PickRate \/ ToggleRecord \/ SelectCfg \/ PlayOrPause \/ LoadReplay \/ LeaveReplay \/ MoveSlider \/ ReplayTick \/ UNCHANGED vars
  <2>1. window'.status = window.status
    <3>1. CASE ChooseDemo
      BY <3>1 DEF ChooseDemo, Chosen, Toggled, TypeOK, WindowType
    <3>2. CASE ChooseDevice
      BY <3>2 DEF ChooseDevice, Chosen, Toggled, TypeOK, WindowType
    <3>3. CASE PickRate
      BY <3>3 DEF PickRate, Chosen, Toggled, TypeOK, WindowType
    <3>4. CASE ToggleRecord
      BY <3>4 DEF ToggleRecord, Chosen, Toggled, TypeOK, WindowType
    <3>5. CASE SelectCfg
      BY <3>5 DEF SelectCfg, Chosen, Toggled, TypeOK, WindowType
    <3>6. CASE PlayOrPause
      BY <3>6 DEF PlayOrPause, Chosen, Toggled, TypeOK, WindowType
    <3>7. CASE LoadReplay
      BY <3>7 DEF LoadReplay, Chosen, Toggled, TypeOK, WindowType
    <3>8. CASE LeaveReplay
      BY <3>8 DEF LeaveReplay, Chosen, Toggled, TypeOK, WindowType
    <3>9. CASE MoveSlider
      BY <3>9 DEF MoveSlider, Chosen, Toggled, TypeOK, WindowType
    <3>10. CASE ReplayTick
      BY <3>10 DEF ReplayTick, Chosen, Toggled, TypeOK, WindowType
    <3>11. CASE UNCHANGED vars
      BY <3>11 DEF vars
    <3> QED BY <1>6, <3>1, <3>2, <3>3, <3>4, <3>5, <3>6, <3>7, <3>8, <3>9, <3>10, <3>11
  <2>2. UNCHANGED <<timer, thread, detached, aborted>>
    BY <1>6 DEF ChooseDemo, ChooseDevice, PickRate, ToggleRecord, SelectCfg, PlayOrPause, LoadReplay, LeaveReplay, MoveSlider, ReplayTick, vars, reader, history
  <2> QED BY <2>1, <2>2, ThreadingAlone
<1> QED BY <1>1, <1>2, <1>3, <1>4, <1>5, <1>6 DEF Next

-----------------------------------------------------------------------------
(* Baud rates *)

LEMMA RatesAlone ==
  ASSUME RatesSound, UNCHANGED <<choice, rates, picked, opened>>
  PROVE  RatesSound'
BY DEF RatesSound, RatesArePreset, OpenedAtPreset

LEMMA PresetPortsArePorts == \A device : PresetPorts(device) \subseteq Ports
BY DEF PresetPorts, Ports

LEMMA PresetsArePresets ==
  ASSUME NEW device, NEW demo, NEW old, NEW p \in PresetPorts(device)
  PROVE  Presets(device, demo, old)[p] = Preset(device, demo, p)
BY PresetPortsArePorts DEF Presets

LEMMA ChosenSetsRates ==
  ASSUME NEW device, NEW demo, Chosen(device, demo)
  PROVE  RatesArePreset'
<1>1. choice'.device = device /\ choice'.demo = demo /\ rates' = Presets(device, demo, rates)
  BY DEF Chosen
<1> QED BY <1>1, PresetsArePresets DEF RatesArePreset

(* Every step keeps the rates those of the demo, or picked *)
LEMMA RatesStep == TypeOK /\ RatesSound /\ [Next]_vars => RatesSound'
<1> SUFFICES ASSUME TypeOK /\ RatesSound, [Next]_vars PROVE RatesSound'
  OBVIOUS
<1>1. CASE ChooseDemo \/ ChooseDevice
  <2>1. (\E device, demo : Chosen(device, demo)) /\ opened' = opened
    BY <1>1 DEF ChooseDemo, ChooseDevice, history
  <2>2. RatesArePreset'
    BY <2>1, ChosenSetsRates
  <2> QED BY <2>1, <2>2 DEF RatesSound, OpenedAtPreset
<1>2. CASE PickRate
  <2>1. PICK p \in menus : rates' = [rates EXCEPT ![p] = "picked"] /\ picked' = picked \cup {p}
    BY <1>2 DEF PickRate
  <2>2. UNCHANGED <<choice, opened>>
    BY <1>2 DEF PickRate, history
  <2>3. ASSUME NEW q \in PresetPorts(choice.device), q \notin picked'
        PROVE  rates'[q] = Preset(choice.device, choice.demo, q)
    <3>1. q \in DOMAIN rates /\ q # p /\ q \notin picked
      BY <2>1, <2>3, PresetPortsArePorts DEF TypeOK
    <3>2. rates'[q] = rates[q]
      BY <2>1, <3>1
    <3> QED BY <3>1, <3>2 DEF RatesSound, RatesArePreset
  <2>4. RatesArePreset'
    BY <2>2, <2>3 DEF RatesArePreset
  <2> QED BY <2>2, <2>4 DEF RatesSound, OpenedAtPreset
<1>3. CASE Connect
  <2>1. UNCHANGED <<choice, rates, picked>>
    BY <1>3 DEF Connect
  <2>2. CASE opened' = opened
    BY <2>1, <2>2, RatesAlone
  <2>3. CASE Connected
    <3>1. ASSUME NEW o \in opened' PROVE o.byHand \/ o.rate = o.preset
      <4>1. PICK p \in PresetPorts(choice.device) :
              o = [port |-> p, rate |-> rates[p], preset |-> Preset(choice.device, choice.demo, p), byHand |-> p \in picked]
        BY <2>3 DEF Connected
      <4>2. o.rate = rates[p] /\ o.preset = Preset(choice.device, choice.demo, p) /\ o.byHand = (p \in picked)
        BY <4>1
      <4>3. p \in picked \/ rates[p] = Preset(choice.device, choice.demo, p)
        BY DEF RatesSound, RatesArePreset
      <4> QED BY <4>2, <4>3
    <3>2. OpenedAtPreset'
      BY <3>1 DEF OpenedAtPreset
    <3> QED BY <2>1, <3>2 DEF RatesSound, RatesArePreset
  <2> QED BY <1>3, <2>2, <2>3 DEF Connect, NotConnected
<1>4. CASE Restart
  <2>1. rates' = StartRates(choice') /\ picked' = {} /\ opened' = {}
    BY <1>4 DEF Restart
  <2>2. RatesArePreset'
    BY <2>1, PresetsArePresets DEF RatesArePreset, StartRates
  <2> QED BY <2>1, <2>2 DEF RatesSound, OpenedAtPreset
<1>5. CASE ToggleRecord \/ SelectCfg \/ Reset \/ Start \/ SendCfg \/ PlayOrPause \/ LoadReplay \/ LeaveReplay \/ MoveSlider \/ ReplayTick \/ Tick \/ NoPort \/ Read \/ CountFrame \/ AppendFrame \/ MakeDir \/ DirMade \/ OpenFile \/ WriteFile \/ ClearFrames \/ CloseFile \/ UNCHANGED vars
  <2>1. UNCHANGED <<choice, rates, picked, opened>>
    BY <1>5 DEF ToggleRecord, SelectCfg, Reset, Start, SendCfg, PlayOrPause, LoadReplay, LeaveReplay, MoveSlider, ReplayTick, Tick, NoPort, Read, CountFrame, AppendFrame, MakeDir, DirMade, OpenFile, WriteFile, ClearFrames, CloseFile, vars, settings, history, OnlyThread, Parsing
  <2> QED BY <2>1, RatesAlone
<1> QED BY <1>1, <1>2, <1>3, <1>4, <1>5 DEF Next

-----------------------------------------------------------------------------
(* The theorems *)

LEMMA VisualizerInit == Init => VisualizerInv
<1> SUFFICES ASSUME Init PROVE VisualizerInv
  OBVIOUS
<1>1. /\ thread = NoThread /\ window = StartWindow(choice, FALSE) /\ rec = NoParser /\ timer = "none"
      /\ cache = NoCache /\ choice = Cached(NoCache) /\ rates = StartRates(choice) /\ menus = StartMenus(choice)
      /\ recorded = <<>> /\ former = 0 /\ reads = 0 /\ opened = {} /\ cutOff = FALSE /\ detached = FALSE /\ aborted = FALSE
  BY DEF Init
<1>2. <<>> \in Seq(Nat) /\ <<>> \o <<>> \o <<>> = <<>>
  BY EmptySeq, ConcatEmptySeq
<1>3. TypeOK
  <2>1. thread \in ThreadType /\ rec \in ParserType
    BY <1>1, <1>2 DEF NoThread, NoParser, ThreadType, ParserType, Places
  <2>2. window \in WindowType
    BY <1>1 DEF StartWindow, FirstWindow, WindowType
  <2>3. DOMAIN cache = {"device", "demo", "record"} /\ cache.record \in BOOLEAN
    BY <1>1 DEF NoCache
  <2>4. DOMAIN choice = {"device", "demo"} /\ DOMAIN rates = Ports
    BY <1>1 DEF Cached, StartRates, Presets
  <2>5. menus \subseteq Ports
    BY <1>1 DEF StartMenus, Menus, PresetPorts, Ports
  <2> QED BY <1>1, <1>2, <2>1, <2>2, <2>3, <2>4, <2>5 DEF TypeOK
<1>4. Recording
  BY <1>1, <1>2 DEF Recording, FramesInOrder, OutIsFrames, InClosing, NoThread, NoParser
<1>5. Threading
  BY <1>1 DEF Threading, Running, NoThread
<1>6. RatesSound
  <2>1. RatesArePreset
    BY <1>1, PresetsArePresets DEF RatesArePreset, StartRates
  <2> QED BY <1>1, <2>1 DEF RatesSound, OpenedAtPreset
<1>7. FormerIsPart
  <2>1. Len(<<>>) = 0
    BY EmptySeq
  <2> QED BY <1>1, <2>1 DEF FormerIsPart
<1> QED BY <1>3, <1>4, <1>5, <1>6, <1>7 DEF VisualizerInv

LEMMA VisualizerStep == VisualizerInv /\ [Next]_vars => VisualizerInv'
BY TypeStep, RecordingStep, FormerStep, ThreadingStep, RatesStep DEF VisualizerInv

LEMMA VisualizerInvariant == Spec => []VisualizerInv
BY VisualizerInit, VisualizerStep, PTL DEF Spec

(* The window, the parser and the thread keep their types. *)
THEOREM VisualizerTypeCorrect == Spec => []TypeOK
<1>1. VisualizerInv => TypeOK
  BY DEF VisualizerInv
<1> QED BY <1>1, VisualizerInvariant, PTL

(* UARTParser loses, repeats and reorders no frame recorded since the       *)
(* connection was last reset, whatever fails on disk and whenever           *)
(* gracefulReset kills the thread, but for frames that were cleared when    *)
(* their file had not been flushed yet.  Older frames come before them; the *)
(* invariant has it that they are kept too, which a comment at              *)
(* gui_parser.py:40 says they should not be.                                *)
THEOREM VisualizerKeepsFrames == Spec => []RecordedIsKept
<1>1. ASSUME VisualizerInv PROVE RecordedIsKept
  <2> SUFFICES ASSUME ~cutOff
               PROVE  \E n \in 0 .. Len(Held) :
                        /\ SubSeq(Held, n + 1, Len(Held)) = SubSeq(recorded, former + 1, Len(recorded))
                        /\ \A i \in 1 .. n : \E j \in 1 .. former : Held[i] = recorded[j]
    BY DEF RecordedIsKept
  <2>1. Held = recorded
    BY <1>1 DEF VisualizerInv, Recording, FramesInOrder, Held
  <2>2. former \in 0 .. Len(recorded)
    <3>1. Len(recorded) \in Nat
      BY <1>1, LenProperties DEF VisualizerInv, TypeOK
    <3> QED BY <1>1, <3>1 DEF VisualizerInv, FormerIsPart
  <2>3. \A i \in 1 .. former : \E j \in 1 .. former : Held[i] = recorded[j]
    BY <2>1
  <2> QED BY <2>1, <2>2, <2>3
<1> QED BY <1>1, VisualizerInvariant, PTL

(* connectCom replaces a thread that runs - at which Qt aborts the program  *)
(* - only when the timer was started without a connection; and it opens the *)
(* ports at the rates of the demo, or at those picked by hand.              *)
THEOREM VisualizerConnectsSoundly == Spec => []ConnectionSound
<1>1. VisualizerInv => ConnectionSound
  BY DEF VisualizerInv, Threading, RatesSound, ConnectionSound, ConnectIsSafe
<1> QED BY <1>1, VisualizerInvariant, PTL

-----------------------------------------------------------------------------
(* The replay *)

ReplayType == [on : BOOLEAN, box : BOOLEAN, playing : BOOLEAN, ticking : BOOLEAN, pos : Nat, slider : Nat,
               length : Nat]

(* The slider stands at the frame that comes next; at the last one when    *)
(* that is past the end; or at 0 where a file of one frame has left it.    *)
Aligned ==
  \/ replay.slider = replay.pos
  \/ replay.pos = replay.length /\ replay.slider = replay.length - 1
  \/ replay.pos = 1 /\ replay.slider = 0 /\ (shown = <<>> \/ ~replay.ticking)

(* The frame to come is the one after the last that was shown, while there *)
(* is one and the timer runs.                                              *)
InStep ==
  replay.ticking /\ shown # <<>> =>
    /\ replay.pos < replay.length
    /\ replay.pos = Last(shown) + 1 \/ (shown = <<1>> /\ replay.pos = 1 /\ replay.length = 2)

(* The first part of ReplayIsWhole *)
Consecutive == \A i \in 1 .. Len(shown) - 1 : shown[i + 1] = shown[i] + 1 \/ (i = 1 /\ LastAgain)

(* The replay: what the slider, the position and the frames shown have to  *)
(* do with each other.                                                     *)
ReplayInv ==
  /\ replay \in ReplayType /\ shown \in Seq(Nat)
  /\ replay.length > 0 => replay.pos =< replay.length /\ replay.slider < replay.length
  /\ replay.length = 0 => ~replay.box /\ shown = <<>> /\ replay.pos = replay.slider
  /\ Aligned /\ InStep /\ ReplayIsWhole

-----------------------------------------------------------------------------
LEMMA MinOfTwo ==
  ASSUME NEW a \in Nat, NEW b \in Nat
  PROVE  Min({a, b}) = IF a <= b THEN a ELSE b
<1> DEFINE m == IF a <= b THEN a ELSE b
<1>1. m \in {a, b} /\ \A y \in {a, b} : m <= y
  OBVIOUS
<1>2. ASSUME NEW x \in {a, b}, \A y \in {a, b} : x <= y
      PROVE  x = m
  BY <1>2
<1> HIDE DEF m
<1>3. Min({a, b}) = m
  BY <1>1, <1>2 DEF Min
<1> QED BY <1>3 DEF m

(* What the slider makes of a value that is set *)
LEMMA SlidFields ==
  ASSUME NEW r \in ReplayType, NEW value \in Nat
  PROVE  /\ Slid(r, value) \in ReplayType
         /\ Slid(r, value).slider = value
         /\ Slid(r, value).pos = IF value = r.slider THEN r.pos ELSE value
         /\ Slid(r, value).on = r.on /\ Slid(r, value).box = r.box /\ Slid(r, value).length = r.length
         /\ Slid(r, value).playing = r.playing /\ Slid(r, value).ticking = r.ticking
BY DEF Slid, ReplayType

(* Frames shown before stay as they are *)
LEMMA Shows ==
  ASSUME NEW s \in Seq(Nat), NEW f \in Nat
  PROVE  /\ Append(s, f) \in Seq(Nat) /\ Len(Append(s, f)) = Len(s) + 1 /\ Append(s, f) # <<>>
         /\ Last(Append(s, f)) = f /\ Append(s, f)[Len(s) + 1] = f
         /\ \A i \in 1 .. Len(s) : Append(s, f)[i] = s[i]
<1>1. /\ Append(s, f) \in Seq(Nat) /\ Len(Append(s, f)) = Len(s) + 1
      /\ Append(s, f)[Len(s) + 1] = f /\ \A i \in 1 .. Len(s) : Append(s, f)[i] = s[i]
  BY AppendProperties
<1>2. Append(s, f) # <<>>
  BY <1>1, LenProperties, EmptySeq
<1> QED BY <1>1, <1>2 DEF Last

LEMMA NothingShown ==
  ASSUME replay' \in ReplayType, shown' = <<>>, Aligned',
         replay'.length > 0 /\ replay'.pos =< replay'.length /\ replay'.slider < replay'.length
  PROVE  ReplayInv'
<1>1. <<>> \in Seq(Nat) /\ Len(<<>>) = 0 /\ shown' \in Seq(Nat)
  BY EmptySeq
<1>2. InStep'
  BY DEF InStep
<1>3. ReplayIsWhole'
  <2>1. Len(shown') = 0 /\ 1 .. Len(shown') - 1 = {}
    BY <1>1
  <2> QED BY <2>1 DEF ReplayIsWhole
<1> QED BY <1>1, <1>2, <1>3 DEF ReplayInv

(* Steps that leave the position in the file and what was shown alone *)
LEMMA ReplayAlone ==
  ASSUME ReplayInv, replay' \in ReplayType, UNCHANGED <<shown, raised>>,
         replay'.pos = replay.pos, replay'.slider = replay.slider, replay'.length = replay.length,
         replay'.box => replay.box,
         replay'.ticking = replay.ticking, replay'.playing => replay.playing
  PROVE  ReplayInv'
BY DEF ReplayInv, Aligned, InStep, ReplayIsWhole, LastAgain

-----------------------------------------------------------------------------
LEMMA ReplayInit == Init => ReplayInv
<1> SUFFICES ASSUME Init PROVE ReplayInv
  OBVIOUS
<1>1. replay = Quiet /\ shown = <<>>
  BY DEF Init
<1>2. /\ replay \in ReplayType /\ replay.length = 0 /\ replay.pos = replay.slider /\ ~replay.box
      /\ ~replay.ticking
  BY <1>1 DEF Quiet, ReplayType
<1>3. <<>> \in Seq(Nat) /\ 1 .. Len(<<>>) - 1 = {}
  BY EmptySeq
<1>4. ReplayIsWhole
  BY <1>1, <1>3 DEF ReplayIsWhole
<1> QED BY <1>1, <1>2, <1>3, <1>4 DEF ReplayInv, Aligned, InStep

(* A file is loaded: the slider goes to the end of the new file, if it was *)
(* beyond, and to 0.                                                       *)
LEMMA LoadStep ==
  ASSUME ReplayInv, NEW n \in ReplayLengths, replay' = [Loaded(replay, n) EXCEPT !.on = TRUE], shown' = <<>>
  PROVE  ReplayInv'
<1> DEFINE r0 == [replay EXCEPT !.length = n, !.box = TRUE]
           m == Min({r0.slider, n - 1})
           r1 == Slid(r0, m)
           r2 == Slid(r1, 0)
<1>1. n \in Nat \ {0}
  BY VisualizerAssumption
<1>2. r0 \in ReplayType /\ r0.slider = replay.slider /\ r0.pos = replay.pos /\ r0.length = n
  BY <1>1 DEF ReplayInv, ReplayType
<1>3. m \in Nat /\ m <= n - 1 /\ m <= r0.slider /\ (m = r0.slider \/ m = n - 1)
  <2>1. r0.slider \in Nat /\ n - 1 \in Nat
    BY <1>1, <1>2 DEF ReplayInv, ReplayType
  <2> HIDE DEF r0
  <2>2. m = IF r0.slider <= n - 1 THEN r0.slider ELSE n - 1
    BY <2>1, MinOfTwo
  <2> QED BY <2>1, <2>2
<1>4. Loaded(replay, n) = Slid(Slid(r0, m), 0)
  BY <1>2 DEF Loaded
<1> HIDE DEF r0, m
<1>5. /\ r1 \in ReplayType /\ r1.slider = m /\ r1.pos = (IF m = r0.slider THEN r0.pos ELSE m) /\ r1.length = n
  BY <1>2, <1>3, SlidFields
<1> HIDE DEF r1
<1>6. /\ r2 \in ReplayType /\ r2.slider = 0 /\ r2.pos = (IF 0 = r1.slider THEN r1.pos ELSE 0) /\ r2.length = n
  BY <1>5, SlidFields
<1>7. Loaded(replay, n) = r2
  BY <1>4 DEF r1
<1> HIDE DEF r2
<1>8. /\ replay' \in ReplayType /\ replay'.slider = 0 /\ replay'.pos = r2.pos /\ replay'.length = n
  BY <1>6, <1>7 DEF ReplayType
<1>9. r2.pos \in {0, 1}
  <2>1. CASE r1.slider # 0
    BY <1>6, <2>1
  <2>2. CASE r1.slider = 0 /\ m # r0.slider
    BY <1>5, <1>6, <2>2
  <2>3. CASE r1.slider = 0 /\ m = r0.slider
    <3>1. replay.slider = 0 /\ r2.pos = replay.pos
      BY <1>2, <1>5, <1>6, <2>3
    <3>2. replay.length \in Nat /\ replay.pos \in Nat
      BY DEF ReplayInv, ReplayType
    <3> QED BY <3>1, <3>2 DEF ReplayInv, Aligned
  <2> QED BY <2>1, <2>2, <2>3
<1>10. Aligned'
  BY <1>8, <1>9 DEF Aligned
<1> QED BY <1>1, <1>8, <1>9, <1>10, NothingShown

LEMMA SliderStep == ReplayInv /\ MoveSlider => ReplayInv'
<1> SUFFICES ASSUME ReplayInv, MoveSlider PROVE ReplayInv'
  OBVIOUS
<1>1. PICK value \in 0 .. replay.length - 1 \ {replay.slider} : replay' = Slid(replay, value)
  BY DEF MoveSlider
<1>2. /\ value \in Nat /\ replay \in ReplayType /\ replay.length \in Nat /\ value < replay.length /\ value # replay.slider
  BY <1>1 DEF ReplayInv, ReplayType
<1>3. /\ replay' \in ReplayType /\ replay'.slider = value /\ replay'.pos = value /\ replay'.length = replay.length
      /\ replay'.playing = replay.playing /\ replay'.ticking = replay.ticking
  BY <1>1, <1>2, SlidFields
<1>4. Aligned'
  BY <1>3 DEF Aligned
<1>5. CASE replay.ticking
  <2>1. shown' = <<>>
    BY <1>5 DEF MoveSlider, Anew
  <2> QED BY <1>2, <1>3, <1>4, <2>1, NothingShown
<1>6. CASE ~replay.ticking
  <2>1. UNCHANGED <<shown, raised>>
    BY <1>6 DEF MoveSlider
  <2> QED BY <1>2, <1>3, <1>4, <1>6, <2>1 DEF ReplayInv, InStep, ReplayIsWhole, LastAgain
<1> QED BY <1>5, <1>6

LEMMA PlayStep == ReplayInv /\ PlayOrPause => ReplayInv'
<1> SUFFICES ASSUME ReplayInv, PlayOrPause PROVE ReplayInv'
  OBVIOUS
<1>1. CASE replay.playing
  <2>1. replay' = [replay EXCEPT !.playing = FALSE] /\ UNCHANGED <<shown, raised>>
    BY <1>1 DEF PlayOrPause
  <2> QED BY <2>1, ReplayAlone DEF ReplayInv, ReplayType
<1>2. CASE ~replay.playing
  <2>1. replay' = [replay EXCEPT !.playing = TRUE, !.ticking = TRUE] /\ shown' = <<>>
    BY <1>2 DEF PlayOrPause, Anew
  <2>2. /\ replay' \in ReplayType /\ replay'.pos = replay.pos /\ replay'.slider = replay.slider
        /\ replay'.length = replay.length /\ replay'.box = replay.box /\ replay.length \in Nat
    BY <2>1 DEF ReplayInv, ReplayType
  <2>3. Aligned'
    BY <2>1, <2>2 DEF ReplayInv, Aligned
  <2>4. CASE replay.length > 0
    BY <2>1, <2>2, <2>3, <2>4, NothingShown DEF ReplayInv
  <2>5. CASE replay.length = 0
    <3>1. ~replay'.box /\ replay'.pos = replay'.slider /\ ~(replay'.length > 0)
      BY <2>2, <2>5 DEF ReplayInv
    <3>2. <<>> \in Seq(Nat) /\ Len(<<>>) = 0
      BY EmptySeq
    <3>3. ReplayIsWhole' /\ InStep'
      BY <2>1, <3>2 DEF ReplayIsWhole, InStep
    <3> QED BY <2>1, <2>2, <2>3, <3>1, <3>2, <3>3 DEF ReplayInv
  <2> QED BY <2>2, <2>4, <2>5
<1> QED BY <1>1, <1>2

(* One more frame is given to the display *)
LEMMA ConsecutiveStep ==
  ASSUME ReplayInv, replay.ticking, replay.pos < replay.length, replay'.length = replay.length,
         shown' = Append(shown, replay.pos)
  PROVE  Consecutive'
<1>1. replay.pos \in Nat
  BY DEF ReplayInv, ReplayType
<1>2. /\ shown' \in Seq(Nat) /\ Len(shown') = Len(shown) + 1
      /\ shown'[Len(shown) + 1] = replay.pos
      /\ \A i \in 1 .. Len(shown) : shown'[i] = shown[i]
  BY <1>1, Shows DEF ReplayInv
<1>3. Len(shown) \in Nat /\ (shown # <<>> => Len(shown) > 0)
  BY LenProperties, EmptySeq DEF ReplayInv
<1>4. ASSUME NEW i \in 1 .. Len(shown') - 1
      PROVE  shown'[i + 1] = shown'[i] + 1 \/ (i = 1 /\ LastAgain')
  <2>1. i \in 1 .. Len(shown)
    BY <1>2, <1>3
  <2>2. CASE i = Len(shown)
    <3>1. shown'[i + 1] = replay.pos /\ shown'[i] = Last(shown) /\ shown # <<>>
      BY <1>2, <2>1, <2>2, EmptySeq DEF Last
    <3>2. CASE replay.pos = Last(shown) + 1
      BY <3>1, <3>2
    <3>3. CASE shown = <<1>> /\ replay.pos = 1 /\ replay.length = 2
      <4>1. i = 1 /\ shown'[1] = 1 /\ shown'[2] = 1
        BY <2>2, <3>1, <3>3 DEF Last
      <4> QED BY <3>3, <4>1 DEF LastAgain
    <3> QED BY <3>1, <3>2, <3>3 DEF ReplayInv, InStep
  <2>3. CASE i < Len(shown)
    <3>1. i \in 1 .. Len(shown) - 1 /\ i + 1 \in 1 .. Len(shown)
      BY <1>3, <2>1, <2>3
    <3>2. shown'[i] = shown[i] /\ shown'[i + 1] = shown[i + 1]
      BY <1>2, <2>1, <3>1
    <3>3. shown[i + 1] = shown[i] + 1 \/ (i = 1 /\ LastAgain)
      BY <3>1 DEF ReplayInv, ReplayIsWhole
    <3>4. i = 1 /\ LastAgain => LastAgain'
      <4>1. i = 1 => shown'[1] = shown[1] /\ shown'[2] = shown[2]
        BY <3>2
      <4> QED BY <4>1 DEF LastAgain
    <3> QED BY <3>2, <3>3, <3>4
  <2> QED BY <1>3, <2>1, <2>2, <2>3
<1> QED BY <1>4 DEF Consecutive

(* A frame is shown *)
LEMMA ShowStep ==
  ASSUME ReplayInv, replay.ticking, replay.playing, replay.pos < replay.length,
         NEW moved, moved = Slid([replay EXCEPT !.pos = replay.pos + 1], Min({replay.pos + 1, replay.length - 1})),
         replay' = [moved EXCEPT !.ticking = moved.pos < replay.length],
         shown' = Append(shown, replay.pos)
  PROVE  ReplayInv'
<1> DEFINE p == replay.pos
           n == replay.length
           s == replay.slider
           r0 == [replay EXCEPT !.pos = p + 1]
           m == Min({p + 1, n - 1})
<1>1. p \in Nat /\ n \in Nat /\ s \in Nat /\ p < n /\ s < n
  BY DEF ReplayInv, ReplayType
<1>2. m \in Nat /\ m = IF p + 1 <= n - 1 THEN p + 1 ELSE n - 1
  <2>1. p + 1 \in Nat /\ n - 1 \in Nat
    BY <1>1
  <2> QED BY <2>1, MinOfTwo
<1>3. /\ r0 \in ReplayType /\ r0.slider = s /\ r0.pos = p + 1 /\ r0.length = n /\ r0.playing
  <2>1. p + 1 \in Nat /\ replay \in ReplayType
    BY <1>1 DEF ReplayInv
  <2> QED BY <2>1 DEF ReplayType
<1>4. moved = Slid(r0, m)
  OBVIOUS
<1> HIDE DEF r0, m
<1>5. /\ moved \in ReplayType /\ moved.slider = m /\ moved.pos = (IF m = s THEN p + 1 ELSE m) /\ moved.length = n
      /\ moved.playing
  BY <1>2, <1>3, <1>4, SlidFields
<1>6. /\ replay' \in ReplayType /\ replay'.slider = m /\ replay'.pos = moved.pos /\ replay'.length = n
      /\ replay'.playing /\ replay'.ticking = (moved.pos < n)
  <2>1. replay' = [moved EXCEPT !.ticking = (moved.pos < n)] /\ (moved.pos < n) \in BOOLEAN
    OBVIOUS
  <2>2. ASSUME NEW b \in BOOLEAN, replay' = [moved EXCEPT !.ticking = b]
        PROVE  /\ replay' \in ReplayType /\ replay'.slider = m /\ replay'.pos = moved.pos /\ replay'.length = n
               /\ replay'.playing /\ replay'.ticking = b
    BY <1>5, <2>2 DEF ReplayType
  <2> QED BY <2>1, <2>2
<1>7. s = p \/ (p = 1 /\ s = 0 /\ shown = <<>>)
  BY <1>1 DEF ReplayInv, Aligned
<1> HIDE DEF p, n, s
<1>8. replay'.pos = IF p = 1 /\ s = 0 /\ n = 2 THEN 1 ELSE p + 1
  <2>1. ASSUME NEW x, x = (IF m = s THEN p + 1 ELSE m)
        PROVE  x = IF p = 1 /\ s = 0 /\ n = 2 THEN 1 ELSE p + 1
    <3>1. CASE s = p
      BY <1>1, <1>2, <2>1, <3>1
    <3>2. CASE p = 1 /\ s = 0
      BY <1>1, <1>2, <2>1, <3>2
    <3> QED BY <1>7, <3>1, <3>2
  <2> QED BY <1>5, <1>6, <2>1
<1>9. /\ shown' \in Seq(Nat) /\ Len(shown') = Len(shown) + 1 /\ shown' # <<>>
      /\ Last(shown') = p /\ shown'[Len(shown) + 1] = p
      /\ \A i \in 1 .. Len(shown) : shown'[i] = shown[i]
  BY <1>1, Shows DEF ReplayInv, p
<1>10. Aligned'
  <2>1. m = replay'.pos \/ (replay'.pos = n /\ m = n - 1)
    BY <1>1, <1>2, <1>7, <1>8
  <2> QED BY <1>6, <2>1 DEF Aligned
<1>11. InStep'
  <2>1. CASE p = 1 /\ s = 0 /\ n = 2
    <3>1. shown = <<>>
      BY <1>7, <2>1
    <3>2. shown' = <<1>>
      <4>1. shown' = Append(shown, 1)
        BY <2>1 DEF p
      <4>2. Append(<<>>, 1) = <<1>>
        OBVIOUS
      <4> QED BY <3>1, <4>1, <4>2
    <3> QED BY <1>6, <1>8, <2>1, <3>2 DEF InStep
  <2>2. CASE ~(p = 1 /\ s = 0 /\ n = 2)
    BY <1>6, <1>8, <1>9, <2>2 DEF InStep
  <2> QED BY <2>1, <2>2
<1>12. ReplayIsWhole'
  <2>1. replay'.playing /\ ~replay'.ticking => Last(shown') = n - 1
    <3>1. replay'.ticking = (replay'.pos < n) /\ Last(shown') = p
      BY <1>6, <1>9
    <3>2. ASSUME NEW x, x = (IF p = 1 /\ s = 0 /\ n = 2 THEN 1 ELSE p + 1), ~(x < n)
          PROVE  p = n - 1
      BY <1>1, <3>2
    <3> QED BY <1>8, <3>1, <3>2
  <2>2. Consecutive'
    BY <1>6, ConsecutiveStep DEF n
  <2> QED BY <1>6, <2>1, <2>2 DEF ReplayIsWhole, Consecutive
<1>13. replay'.length > 0 /\ replay'.pos =< replay'.length /\ replay'.slider < replay'.length
  BY <1>1, <1>2, <1>6, <1>8
<1> QED BY <1>6, <1>9, <1>10, <1>11, <1>12, <1>13 DEF ReplayInv

(* The display raises for a frame: the timer is not set again *)
LEMMA RaiseStep ==
  ASSUME ReplayInv, replay.ticking, replay.pos < replay.length,
         replay' = [replay EXCEPT !.ticking = FALSE], raised', shown' = Append(shown, replay.pos)
  PROVE  ReplayInv'
<1>1. /\ replay' \in ReplayType /\ replay'.pos = replay.pos /\ replay'.slider = replay.slider
      /\ replay'.length = replay.length /\ replay'.box = replay.box /\ ~replay'.ticking
  BY DEF ReplayInv, ReplayType
<1>2. replay.pos \in Nat /\ replay.length > 0
  BY DEF ReplayInv, ReplayType
<1>3. shown' \in Seq(Nat)
  BY <1>2, Shows DEF ReplayInv
<1>4. Consecutive'
  BY <1>1, ConsecutiveStep
<1>5. Aligned' /\ InStep'
  BY <1>1 DEF ReplayInv, Aligned, InStep
<1>6. ReplayIsWhole'
  BY <1>4 DEF ReplayIsWhole, Consecutive
<1>7. /\ replay'.length > 0 => replay'.pos =< replay'.length /\ replay'.slider < replay'.length
      /\ replay'.length = 0 => ~replay'.box /\ shown' = <<>> /\ replay'.pos = replay'.slider
  BY <1>1, <1>2 DEF ReplayInv, ReplayType
<1> QED BY <1>1, <1>3, <1>5, <1>6, <1>7 DEF ReplayInv

LEMMA TickStep == ReplayInv /\ ReplayTick => ReplayInv'
<1> SUFFICES ASSUME ReplayInv, ReplayTick PROVE ReplayInv'
  OBVIOUS
<1>1. CASE replay.playing /\ replay.pos < replay.length
  <2>1. replay.ticking /\ shown' = Append(shown, replay.pos)
    BY <1>1 DEF ReplayTick
  <2>2. CASE Played
    BY <1>1, <2>1, <2>2, ShowStep DEF Played, More
  <2>3. CASE replay' = [replay EXCEPT !.ticking = FALSE] /\ raised' = TRUE
    BY <1>1, <2>1, <2>3, RaiseStep
  <2> QED BY <1>1, <2>2, <2>3 DEF ReplayTick
<1>2. CASE ~(replay.playing /\ replay.pos < replay.length)
  <2>1. replay.ticking /\ replay' = [replay EXCEPT !.ticking = FALSE] /\ UNCHANGED <<shown, raised>>
    BY <1>2 DEF ReplayTick
  <2>2. /\ replay' \in ReplayType /\ replay'.pos = replay.pos /\ replay'.slider = replay.slider
        /\ replay'.length = replay.length /\ replay'.box = replay.box /\ replay'.playing = replay.playing
        /\ ~replay'.ticking
    BY <2>1 DEF ReplayInv, ReplayType
  <2>3. shown # <<>> => ~replay.playing
    BY <1>2, <2>1 DEF ReplayInv, InStep
  <2>4. Aligned' /\ InStep' /\ ReplayIsWhole'
    BY <2>1, <2>2, <2>3 DEF ReplayInv, Aligned, InStep, ReplayIsWhole, LastAgain
  <2> QED BY <2>1, <2>2, <2>4 DEF ReplayInv
<1> QED BY <1>1, <1>2

LEMMA ReplayStep == ReplayInv /\ [Next]_vars => ReplayInv'
<1> SUFFICES ASSUME ReplayInv, [Next]_vars PROVE ReplayInv'
  OBVIOUS
<1>1. CASE ToggleRecord
  <2>1. UNCHANGED <<shown, raised>> /\ (replay' = replay \/ replay' = [replay EXCEPT !.on = FALSE])
    BY <1>1 DEF ToggleRecord, Toggled
  <2> QED BY <2>1, ReplayAlone DEF ReplayInv, ReplayType
<1>2. CASE LeaveReplay
  <2>1. UNCHANGED <<shown, raised>> /\ replay' = [replay EXCEPT !.on = FALSE, !.box = FALSE]
    BY <1>2 DEF LeaveReplay
  <2> QED BY <2>1, ReplayAlone DEF ReplayInv, ReplayType
<1>3. CASE LoadReplay
  <2>1. \/ UNCHANGED <<shown, raised>> /\ replay' = [replay EXCEPT !.on = TRUE]
        \/ shown' = <<>> /\ \E n \in ReplayLengths : replay' = [Loaded(replay, n) EXCEPT !.on = TRUE]
    BY <1>3 DEF LoadReplay, Anew
  <2>2. CASE UNCHANGED <<shown, raised>> /\ replay' = [replay EXCEPT !.on = TRUE]
    BY <2>2, ReplayAlone DEF ReplayInv, ReplayType
  <2> QED BY <2>1, <2>2, LoadStep
<1>4. CASE Restart
  <2>1. replay' = Quiet /\ shown' = <<>>
    BY <1>4 DEF Restart, Anew
  <2>2. /\ replay' \in ReplayType /\ replay'.length = 0 /\ replay'.pos = replay'.slider /\ ~replay'.box
        /\ ~replay'.ticking
    BY <2>1 DEF Quiet, ReplayType
  <2>3. <<>> \in Seq(Nat) /\ 1 .. Len(<<>>) - 1 = {}
    BY EmptySeq
  <2>4. ReplayIsWhole'
    BY <2>1, <2>3 DEF ReplayIsWhole
  <2> QED BY <2>1, <2>2, <2>3, <2>4 DEF ReplayInv, Aligned, InStep
<1>5. CASE ChooseDemo \/ ChooseDevice \/ PickRate \/ SelectCfg \/ Connect \/ Reset \/ Start \/ SendCfg
           \/ Tick \/ NoPort \/ Read \/ CountFrame \/ AppendFrame \/ MakeDir \/ DirMade \/ OpenFile \/ WriteFile
           \/ ClearFrames \/ CloseFile \/ UNCHANGED vars
  <2>1. UNCHANGED <<replay, shown, raised>>
    BY <1>5 DEF ChooseDemo, ChooseDevice, PickRate, SelectCfg, Connect, Reset, Start, SendCfg, Tick, NoPort, Read,
                CountFrame, AppendFrame, MakeDir, DirMade, OpenFile, WriteFile, ClearFrames, CloseFile, vars,
                replaying, OnlyThread, Parsing
  <2> QED BY <2>1, ReplayAlone DEF ReplayInv
<1> QED BY <1>1, <1>2, <1>3, <1>4, <1>5, SliderStep, PlayStep, TickStep DEF Next

(* replayData gives the display the frames of the file in their order,     *)
(* each once, and plays until the last or one the display raises for,      *)
(* however the slider is moved, the replay paused and files loaded over it *)
(* - but for the last of two frames after a file of one, which is shown    *)
(* twice.                                                                  *)
THEOREM VisualizerReplaysWhole == Spec => []ReplayIsWhole
<1>1. ReplayInv => ReplayIsWhole
  BY DEF ReplayInv
<1> QED BY <1>1, ReplayInit, ReplayStep, PTL DEF Spec

-----------------------------------------------------------------------------
(* The cache holds the choice of device and demo, and whether frames are   *)
(* recorded while it is told so.                                           *)
CacheInv ==
  /\ Cached(cache) = choice
  /\ window.canCache => window.record = cache.record /\ rec.saving = cache.record

LEMMA CachedIsADevice ==
  ASSUME NEW old
  PROVE  /\ Cached(old).device \in Devices /\ Cached(old).demo \in SetOfDemos(Cached(old).device)
         /\ Cached(old) = [device |-> Cached(old).device, demo |-> Cached(old).demo]
<1> DEFINE d == IF old.device \in Devices THEN old.device ELSE FirstDevice
<1>1. d \in Devices
  BY VisualizerAssumption
<1>2. First(d) \in SetOfDemos(d)
  <2>1. 1 \in DOMAIN DemosOf[d]
    BY <1>1, VisualizerAssumption
  <2> QED BY <2>1 DEF First, SetOfDemos, ToSet
<1> DEFINE e == IF old.demo \in SetOfDemos(d) THEN old.demo ELSE First(d)
<1>3. Cached(old) = [device |-> d, demo |-> e]
  BY DEF Cached
<1>4. e \in SetOfDemos(d)
  BY <1>2
<1> HIDE DEF d, e
<1> QED BY <1>1, <1>3, <1>4

LEMMA ChosenIsCached ==
  ASSUME TypeOK, NEW device \in Devices, NEW demo \in SetOfDemos(device), Chosen(device, demo)
  PROVE  Cached(cache') = choice'
<1>1. cache'.device = device /\ cache'.demo = demo
  BY DEF Chosen, TypeOK
<1> QED BY <1>1 DEF Cached, Chosen

LEMMA CacheInit == Init => CacheInv
<1> SUFFICES ASSUME Init PROVE CacheInv
  OBVIOUS
<1>1. choice = Cached(NoCache) /\ cache = NoCache /\ window = StartWindow(choice, FALSE) /\ rec = NoParser
  BY DEF Init
<1>2. window.record = FALSE /\ rec.saving = FALSE /\ cache.record = FALSE
  BY <1>1 DEF StartWindow, FirstWindow, NoCache, NoParser
<1> QED BY <1>1, <1>2 DEF CacheInv

LEMMA CacheStep == TypeOK /\ CacheInv /\ [Next]_vars => CacheInv'
<1> SUFFICES ASSUME TypeOK, CacheInv, [Next]_vars PROVE CacheInv'
  OBVIOUS
<1>0. choice.device \in Devices
  BY CachedIsADevice DEF CacheInv
<1>1. CASE ChooseDemo \/ ChooseDevice
  <2>1. PICK device \in Devices : \E demo \in SetOfDemos(device) : Chosen(device, demo)
    <3>1. ASSUME NEW d \in Devices PROVE First(d) \in SetOfDemos(d)
      BY VisualizerAssumption DEF First, SetOfDemos, ToSet
    <3> QED BY <1>0, <1>1, <3>1 DEF ChooseDemo, ChooseDevice
  <2>2. Cached(cache') = choice'
    BY <2>1, ChosenIsCached
  <2>3. window'.canCache = window.canCache /\ window'.record = window.record /\ cache'.record = cache.record
    BY <2>1 DEF Chosen, TypeOK, WindowType
  <2>4. rec' = rec
    BY <1>1 DEF ChooseDemo, ChooseDevice, reader
  <2> QED BY <2>2, <2>3, <2>4 DEF CacheInv
<1>2. CASE ToggleRecord
  <2>1. /\ choice' = choice /\ rec'.saving = ~window.record /\ window'.record = ~window.record
        /\ window'.canCache = window.canCache
    BY <1>2 DEF ToggleRecord, Toggled, settings, TypeOK, WindowType, ParserType
  <2>2. cache' = IF window.canCache THEN [cache EXCEPT !.record = ~window.record] ELSE cache
    BY <1>2 DEF ToggleRecord, Toggled
  <2>3. cache'.device = cache.device /\ cache'.demo = cache.demo /\ (window.canCache => cache'.record = ~window.record)
    BY <2>2 DEF TypeOK
  <2> QED BY <2>1, <2>3 DEF CacheInv, Cached
<1>3. CASE LoadReplay
  <2>1. choice' = choice /\ ~window'.canCache
    BY <1>3 DEF LoadReplay, settings, TypeOK, WindowType
  <2>2. cache'.device = cache.device /\ cache'.demo = cache.demo
    BY <1>3 DEF LoadReplay, TypeOK
  <2> QED BY <2>1, <2>2 DEF CacheInv, Cached
<1>4. CASE Restart
  BY <1>4 DEF Restart, CacheInv, StartWindow, FirstWindow, NoParser
<1>5. CASE PickRate \/ SelectCfg \/ Connect \/ Reset \/ Start \/ SendCfg \/ PlayOrPause \/ LeaveReplay \/ MoveSlider
           \/ ReplayTick \/ Tick \/ NoPort \/ Read \/ CountFrame \/ AppendFrame \/ MakeDir \/ DirMade \/ OpenFile
           \/ WriteFile \/ ClearFrames \/ CloseFile \/ UNCHANGED vars
  <2>1. UNCHANGED <<cache, choice>>
    BY <1>5 DEF PickRate, SelectCfg, Connect, Reset, Start, SendCfg, PlayOrPause, LeaveReplay, MoveSlider, ReplayTick,
                Tick, NoPort, Read, CountFrame, AppendFrame, MakeDir, DirMade, OpenFile, WriteFile, ClearFrames,
                CloseFile, vars, settings, OnlyThread, Parsing
  <2>2. window'.canCache = window.canCache /\ window'.record = window.record
    <3>1. CASE SelectCfg \/ Reset \/ LeaveReplay
      BY <3>1 DEF SelectCfg, Reset, LeaveReplay, TypeOK, WindowType
    <3>2. CASE Connect
      BY <3>2 DEF Connect, Connected, NotConnected, TypeOK, WindowType
    <3> QED BY <1>5, <3>1, <3>2 DEF PickRate, Start, SendCfg, PlayOrPause, MoveSlider, ReplayTick,
                Tick, NoPort, Read, CountFrame, AppendFrame, MakeDir, DirMade, OpenFile, WriteFile, ClearFrames,
                CloseFile, vars, OnlyThread, Parsing
  <2>3. rec'.saving = rec.saving
    <3>1. CASE CountFrame \/ AppendFrame \/ MakeDir \/ DirMade \/ OpenFile \/ ClearFrames \/ CloseFile
      BY <3>1 DEF CountFrame, AppendFrame, MakeDir, DirMade, OpenFile, ClearFrames, CloseFile, Opened, TypeOK, ParserType
    <3> QED BY <1>5, <3>1 DEF PickRate, SelectCfg, Connect, Reset, Start, SendCfg, PlayOrPause, LeaveReplay, MoveSlider,
                ReplayTick, Tick, NoPort, Read, WriteFile, vars, reader, Parsing
  <2> QED BY <2>1, <2>2, <2>3 DEF CacheInv
<1> QED BY <1>1, <1>2, <1>3, <1>4, <1>5 DEF Next

(* CachedDataType keeps the choice of device and demo from one run of the  *)
(* program to the next, and the box for recording with it unless a replay  *)
(* has taken the method that stores it away.                               *)
THEOREM VisualizerRestores == Spec => RestartRestores
<1>1. CacheInv /\ [Next]_vars =>
        [Restart => /\ choice' = choice
                    /\ window.canCache => window'.record = window.record /\ rec'.saving = rec.saving]_vars
  <2>1. ASSUME CacheInv, Restart
        PROVE  /\ choice' = choice
               /\ window.canCache => window'.record = window.record /\ rec'.saving = rec.saving
    BY <2>1 DEF CacheInv, Restart, StartWindow, FirstWindow, NoParser
  <2> QED BY <2>1
<1>2. VisualizerInv => TypeOK
  BY DEF VisualizerInv
<1> QED BY <1>1, <1>2, VisualizerInit, VisualizerStep, CacheInit, CacheStep, PTL DEF Spec, RestartRestores
=============================================================================
