----------------------------- MODULE Visualizer -----------------------------
(***************************************************************************)
(* The window of old-visualizer/ (gui_core.py) with what its buttons       *)
(* drive: the thread that reads the radar (gui_threads.py), the recording  *)
(* of frames in files (gui_parser.py), the replay of such a file, the baud *)
(* rates (Baud_Rates_Manager.py) and the cache of the choices made         *)
(* (cached_data.py).  A click is one action: the GUI thread handles the    *)
(* signals a handler raises before it returns.  The reading thread runs    *)
(* next to it.  Frames are numbers here; UartFrame has their bytes.        *)
(***************************************************************************)
EXTENDS Integers, SequencesExt

CONSTANTS
  DemosOf,       \* DEVICE_DEMO_DICT: device -> its demos, the first one first
  FirstDevice,   \* the first of the device list
  SinglePort,    \* the devices with singleCOM
  FastDemos,     \* demos that use 1250000 baud on these devices
  NoCfgDemo,     \* "Video Doorbell", whose configuration cannot be sent
  FramesPerFile, \* 100
  ReplayLengths, \* frames in the files that may be replayed
  MaxClicks,     \* bound: clicks
  MaxFrames,     \* bound: frames read
  MaxFaults      \* bound: operations on disk that fail

Devices == DOMAIN DemosOf

ASSUME VisualizerAssumption ==
  /\ FirstDevice \in Devices /\ SinglePort \subseteq Devices
  /\ \A d \in Devices : 1 \in DOMAIN DemosOf[d]
  /\ FramesPerFile \in Nat \ {0}
  /\ ReplayLengths \subseteq Nat \ {0}
  /\ MaxClicks \in Nat /\ MaxFrames \in Nat /\ MaxFaults \in Nat

VARIABLES
  choice,  \* device and demo chosen
  rates,   \* baud rates: input and output, or single
  menus,   \* which of their menus are enabled
  cache,   \* cache/cachedData.txt: device, demo, record
  window,  \* status, check boxes and enabled widgets
  ports,   \* cliCom and dataCom: "none", "open", "closed"
  timer,   \* parseTimer: "none", "off", "on"
  thread,  \* the reading thread: where it is, for which kind of port, frame
  rec,     \* UARTParser: saveBinary, uartCounter, frames, first_file; the files of this run
  replay   \* replay, its box shown, playing, replayTimer, replayFrameNum, the slider, the file

(* History: frames read and recorded, how many of these before the         *)
(* connection was last reset, the rates the ports were opened at and those *)
(* picked by hand, the frames given to the display since the last click on *)
(* the replay and whether it raised for the last, what went wrong.         *)
VARIABLES reads, recorded, former, opened, picked, shown, raised, cutOff, aborted, detached, clicks, faults

settings == <<choice, rates, menus, picked>>
replaying == <<replay, shown, raised>>
history == <<opened, former, detached, aborted>>
reader == <<thread, rec, reads, recorded, cutOff, faults>>
vars == <<settings, cache, window, ports, timer, reader, replaying, history, clicks>>

-----------------------------------------------------------------------------
(* What a choice of demo sets the rates to (onChangeDemo) *)
Ports == {"input", "output", "single"}
PresetPorts(device) == IF device \in SinglePort THEN {"single"} ELSE {"input", "output"}
Preset(device, demo, port) ==
  CASE port = "single" -> IF demo \in FastDemos THEN "1250000" ELSE "115200"
    [] port = "input"  -> "115200"
    [] port = "output" -> IF device = "xWRL6844" THEN "1250000" ELSE "921600"
Presets(device, demo, old) ==
  [p \in Ports |-> IF p \in PresetPorts(device) THEN Preset(device, demo, p) ELSE old[p]]

(* updateBaudMenuState, lockBaudMenuState *)
Menus(device) == PresetPorts(device)
Locked == {}

(* Presets of a demo take back what was picked by hand *)
Unpicked(device) == picked \ PresetPorts(device)

SetOfDemos(device) == ToSet(DemosOf[device])
First(device) == DemosOf[device][1]

(* loadCachedData: both names are taken from the cache before the device   *)
(* is set, which writes the cache anew with the first demo of that device. *)
(* Mutant: the name of the demo is asked for afterwards                    *)
AskedLate(old) ==
  LET device == IF old.device \in Devices THEN old.device ELSE FirstDevice
  IN  [device |-> device, demo |-> IF device = FirstDevice THEN old.demo ELSE First(device)]
Cached(old) ==
  LET device == IF old.device \in Devices THEN old.device ELSE FirstDevice
  IN  [device |-> device, demo |-> IF old.demo \in SetOfDemos(device) THEN old.demo ELSE First(device)]

NoCache == [device |-> "", demo |-> "", record |-> FALSE]
NoPorts == [cli |-> "none", data |-> "none"]
NoThread == [pc |-> "none", double |-> FALSE, frame |-> 0, out |-> <<>>]

(* The slider stands at 20 until a file is loaded *)
Quiet == [on |-> FALSE, box |-> FALSE, playing |-> FALSE, ticking |-> FALSE, pos |-> 20, slider |-> 20, length |-> 0]
NoParser == [saving |-> FALSE, counter |-> 0, frames |-> <<>>, first |-> TRUE, dir |-> FALSE, stored |-> <<>>]
ZeroRates == [p \in Ports |-> "115200"]

FirstRates == [p \in Ports |-> "115200"]
FirstWindow == [status |-> "Not Connected", lists |-> TRUE, connect |-> TRUE, send |-> TRUE, start |-> FALSE,
                record |-> FALSE, play |-> FALSE, canCache |-> TRUE, cfg |-> FALSE]

(* What Core.__init__ and Window.__init__ set from the cache: the first    *)
(* demo is shown before, which enables sendConfig and presets its rates.   *)
StartRates(start) == Presets(start.device, start.demo, Presets(FirstDevice, First(FirstDevice), FirstRates))
StartMenus(start) == IF start.device = FirstDevice THEN Ports ELSE Menus(start.device)
StartWindow(start, record) == [FirstWindow EXCEPT !.send = start.demo # NoCfgDemo, !.record = record]

Init ==
  /\ choice = Cached(NoCache) /\ rates = StartRates(choice) /\ menus = StartMenus(choice)
  /\ cache = NoCache /\ window = StartWindow(choice, FALSE) /\ rec = NoParser
  /\ picked = {} /\ ports = NoPorts /\ timer = "none" /\ thread = NoThread
  /\ recorded = <<>> /\ cutOff = FALSE /\ replay = Quiet /\ shown = <<>> /\ raised = FALSE
  /\ opened = {} /\ former = 0 /\ detached = FALSE /\ aborted = FALSE
  /\ reads = 0 /\ faults = 0 /\ clicks = 0

Click == ~aborted /\ clicks < MaxClicks /\ clicks' = clicks + 1

-----------------------------------------------------------------------------
(* The choice of device and demo, of rates and of recording *)

(* onChangeDemo; a demo is chosen by the user, or by the list that is      *)
(* filled anew when the device changes.                                    *)
Chosen(device, demo) ==
  /\ choice' = [device |-> device, demo |-> demo]
  /\ cache' = [cache EXCEPT !.device = device, !.demo = demo]
  /\ rates' = Presets(device, demo, rates) /\ picked' = Unpicked(device)
  /\ window' = [window EXCEPT !.send = demo # NoCfgDemo]

ChooseDemo ==
  /\ Click /\ window.lists
  /\ \E demo \in SetOfDemos(choice.device) \ {choice.demo} : Chosen(choice.device, demo)
  /\ UNCHANGED <<menus, ports, timer, reader, replaying, history>>

(* onChangeDevice: possible, and felt by the reading thread, while         *)
(* connected; the menus of the rates are unlocked by it.                   *)
ChooseDevice ==
  /\ Click /\ window.lists
  /\ \E device \in Devices \ {choice.device} :
       Chosen(device, First(device)) /\ menus' = Menus(device)
  /\ UNCHANGED <<ports, timer, reader, replaying, history>>

PickRate ==
  /\ Click
  /\ \E p \in menus : rates' = [rates EXCEPT ![p] = "picked"] /\ picked' = picked \cup {p}
  /\ UNCHANGED <<choice, menus, cache, window, ports, timer, reader, replaying, history>>

(* toggleSaveData: ends replay mode as well, unless the method that caches *)
(* the choice was overwritten with a string by a replay and raises first.  *)
Toggled(on, w, r) ==
  /\ rec' = [rec EXCEPT !.saving = on]
  /\ cache' = IF window.canCache THEN [cache EXCEPT !.record = on] ELSE cache
  /\ window' = IF window.canCache THEN [w EXCEPT !.record = on, !.lists = TRUE, !.connect = TRUE]
               ELSE [w EXCEPT !.record = on]
  /\ replay' = IF window.canCache THEN [r EXCEPT !.on = FALSE] ELSE r

ToggleRecord ==
  /\ Click
  /\ Toggled(~window.record, window, replay)
  /\ UNCHANGED <<settings, ports, timer, thread, reads, recorded, cutOff, faults, shown, raised, history>>

(* parseCfg: the lines are those of the replayed file while there is one *)
SelectCfg ==
  /\ Click /\ window.lists
  /\ window' = [window EXCEPT !.cfg = @ \/ ~replay.on \/ replay.length > 0]
  /\ UNCHANGED <<settings, cache, ports, timer, reader, replaying, history>>

-----------------------------------------------------------------------------
(* Connection *)

Running == thread.pc \notin {"none", "idle"}
Double(device) == device \notin SinglePort

(* onConnect, connectCom: thread and timer are made anew before the ports  *)
(* are opened.  A thread that still runs is destroyed with its object,     *)
(* which Qt answers by aborting the program.                               *)
Connected ==
  /\ ports' = IF Double(choice.device) THEN [cli |-> "open", data |-> "open"] ELSE [ports EXCEPT !.cli = "open"]
  /\ opened' = {[port |-> p, rate |-> rates[p], preset |-> Preset(choice.device, choice.demo, p), byHand |-> p \in picked]
                  : p \in PresetPorts(choice.device)}
  /\ window' = [window EXCEPT !.status = "Connected", !.start = TRUE, !.send = choice.demo # NoCfgDemo]
  /\ menus' = Locked

(* connectComPorts may open the first port and fail at the second *)
NotConnected ==
  /\ \E cli \in {ports.cli} \cup (IF Double(choice.device) THEN {"open"} ELSE {}) : ports' = [ports EXCEPT !.cli = cli]
  /\ window' = [window EXCEPT !.status = "Unable to Connect", !.start = FALSE, !.send = FALSE]
  /\ UNCHANGED <<menus, opened>>

Connect ==
  /\ Click /\ window.connect /\ window.status # "Connected"
  /\ IF Running
     THEN aborted' = TRUE /\ UNCHANGED <<ports, opened, window, menus, thread, timer>>
     ELSE /\ thread' = [NoThread EXCEPT !.pc = "idle"] /\ timer' = "off"
          /\ Connected \/ NotConnected
          /\ UNCHANGED aborted
  /\ UNCHANGED <<choice, rates, picked, cache, rec, reads, recorded, cutOff, faults, replaying, former, detached>>

(* Mutant: the timer goes on *)
GoesOn == timer
Stopped == "off"

(* A thread that is killed leaves the file it writes as it is on disk;     *)
(* frames already cleared are in no other.                                 *)
Cuts == thread.pc = "close"
Closed(p) == IF p = "open" THEN "closed" ELSE p

(* gracefulReset *)
Reset ==
  /\ Click /\ window.connect /\ window.status = "Connected"
  /\ timer' = Stopped
  /\ thread' = [thread EXCEPT !.pc = "idle"] /\ cutOff' = (cutOff \/ Cuts)
  /\ ports' = [cli |-> Closed(ports.cli), data |-> Closed(ports.data)]
  /\ window' = [window EXCEPT !.status = "Not Connected", !.start = FALSE, !.send = FALSE]
  /\ menus' = Menus(choice.device) /\ former' = Len(recorded)
  /\ UNCHANGED <<choice, rates, picked, cache, rec, reads, recorded, faults, replaying, opened, detached, aborted>>

(* startApp outside of a replay, and sendCfg, start the timer, if there is *)
(* one, whether or not there is a connection.                              *)
TimerStarted == timer' = "on" /\ detached' = (detached \/ window.status # "Connected")

Start ==
  /\ Click /\ window.start /\ ~replay.on
  /\ IF timer = "none" THEN UNCHANGED <<timer, detached>> ELSE TimerStarted
  /\ UNCHANGED <<settings, cache, window, ports, reader, replaying, opened, former, aborted>>

(* sendCfg raises on the way to the timer without a file or an open port;  *)
(* an acknowledgement that does not come ends it, and the timer starts.    *)
CfgSent == window.cfg /\ ports.cli = "open"

SendCfg ==
  /\ Click /\ window.send
  /\ IF CfgSent THEN TimerStarted ELSE UNCHANGED <<timer, detached>>
  /\ UNCHANGED <<settings, cache, window, ports, reader, replaying, opened, former, aborted>>

-----------------------------------------------------------------------------
(* Replay *)

(* Frames are counted from here *)
Anew == shown' = <<>> /\ raised' = FALSE

(* startApp in a replay *)
PlayOrPause ==
  /\ Click /\ window.start /\ replay.on
  /\ IF replay.playing
     THEN replay' = [replay EXCEPT !.playing = FALSE] /\ UNCHANGED <<shown, raised>>
     ELSE replay' = [replay EXCEPT !.playing = TRUE, !.ticking = TRUE] /\ Anew
  /\ UNCHANGED <<settings, cache, window, ports, timer, reader, history>>

(* The slider tells its new value to replayFrameNum, when it has one *)
Slid(r, value) == IF value = r.slider THEN r ELSE [r EXCEPT !.slider = value, !.pos = value]

(* loadForReplay of a file: the clamping of the slider and its return to 0 *)
Loaded(r, n) == Slid(Slid([r EXCEPT !.length = n, !.box = TRUE], Min({r.slider, n - 1})), 0)

(* The box for recording is unchecked first.  Assigning "True" to the      *)
(* method setCachedRecord comes before the file is opened: it stays when   *)
(* no file is chosen and the rest is not done.                             *)
LoadReplay ==
  /\ Click /\ ~window.play
  /\ LET w == [window EXCEPT !.record = FALSE, !.play = TRUE, !.canCache = FALSE]
         off == window.record /\ window.canCache
         lists == window.lists \/ off
         connect == window.connect \/ off
     IN  /\ rec' = [rec EXCEPT !.saving = IF window.record THEN FALSE ELSE @]
         /\ cache' = IF off THEN [cache EXCEPT !.record = FALSE] ELSE cache
         /\ \/ window' = [w EXCEPT !.lists = lists, !.connect = connect]
               /\ replay' = [replay EXCEPT !.on = TRUE]
               /\ UNCHANGED <<shown, raised>>
            \/ /\ window' = [w EXCEPT !.lists = FALSE, !.connect = FALSE, !.send = FALSE, !.start = TRUE, !.cfg = TRUE]
               /\ \E n \in ReplayLengths : replay' = [Loaded(replay, n) EXCEPT !.on = TRUE]
               /\ Anew
  /\ UNCHANGED <<settings, ports, timer, thread, reads, recorded, cutOff, faults, history>>

(* loadForReplay when the entry of the menu is unchecked: a replay goes on *)
LeaveReplay ==
  /\ Click /\ window.play
  /\ replay' = [replay EXCEPT !.on = FALSE, !.box = FALSE]
  /\ window' = [window EXCEPT !.play = FALSE, !.lists = TRUE, !.connect = TRUE, !.send = TRUE]
  /\ UNCHANGED <<settings, cache, ports, timer, reader, shown, raised, history>>

MoveSlider ==
  /\ Click /\ replay.box
  /\ \E value \in 0 .. replay.length - 1 \ {replay.slider} : replay' = Slid(replay, value)
  /\ IF replay.ticking THEN Anew ELSE UNCHANGED <<shown, raised>>
  /\ UNCHANGED <<settings, cache, window, ports, timer, reader, history>>

(* Mutant: the last frame is taken for the end *)
OneEarly(pos, length) == pos < length - 1
More(pos, length) == pos < length

(* replayData when the display takes the frame *)
Played ==
  LET next == replay.pos + 1
      moved == Slid([replay EXCEPT !.pos = next], Min({next, replay.length - 1}))
  IN  replay' = [moved EXCEPT !.ticking = More(moved.pos, replay.length)]

(* updateGraph may raise, as it does for the tracks of a file, which are   *)
(* lists: the position stays, no timer is set and the replay still plays.  *)
(* Past the last frame the list of frames raises.                          *)
ReplayTick ==
  /\ ~aborted /\ replay.ticking
  /\ IF replay.playing /\ replay.pos < replay.length
     THEN /\ shown' = Append(shown, replay.pos)
          /\ \/ Played /\ raised' = FALSE
             \/ replay' = [replay EXCEPT !.ticking = FALSE] /\ raised' = TRUE
     ELSE replay' = [replay EXCEPT !.ticking = FALSE] /\ UNCHANGED <<shown, raised>>
  /\ UNCHANGED <<settings, cache, window, ports, timer, reader, history, clicks>>

-----------------------------------------------------------------------------
(* The reading thread *)

Goes(pc) == thread' = [thread EXCEPT !.pc = pc]
OnlyThread == ~aborted /\ UNCHANGED <<settings, cache, window, timer, replaying, history, clicks>>
Parsing == OnlyThread /\ UNCHANGED <<ports, reads>>
Fault == faults < MaxFaults /\ faults' = faults + 1

(* parseData, run: QThread.start does nothing for a thread that runs *)
Tick ==
  /\ timer = "on" /\ thread.pc = "idle"
  /\ thread' = [thread EXCEPT !.pc = "run", !.double = Double(choice.device)]
  /\ Parsing /\ UNCHANGED <<rec, recorded, cutOff, faults>>

(* readAndParseUart...COMPort: a port that was never opened, or is closed, *)
(* raises and ends the run; the single port is reopened first.             *)
Source == IF thread.double THEN ports.data ELSE ports.cli

NoPort ==
  /\ thread.pc = "run" /\ Source # "open"
  /\ \/ Goes("idle") /\ UNCHANGED ports
     \/ ~thread.double /\ ports.cli = "closed" /\ ports' = [ports EXCEPT !.cli = "open"] /\ UNCHANGED thread
  /\ OnlyThread /\ UNCHANGED <<rec, reads, recorded, cutOff, faults>>

(* A frame is parsed when parserType still is the one the run began with;  *)
(* it is 0 otherwise, for which the rest of the method raises.             *)
Read ==
  /\ thread.pc = "run" /\ Source = "open" /\ reads < MaxFrames
  /\ reads' = reads + 1
  /\ thread' = [thread EXCEPT !.pc = "parsed", !.frame = IF Double(choice.device) = thread.double THEN reads' ELSE 0]
  /\ OnlyThread /\ UNCHANGED <<ports, rec, recorded, cutOff, faults>>

CountFrame ==
  /\ thread.pc = "parsed"
  /\ IF rec.saving THEN Goes("append") /\ rec' = [rec EXCEPT !.counter = @ + 1]
                   ELSE Goes("idle") /\ UNCHANGED rec
  /\ Parsing /\ UNCHANGED <<recorded, cutOff, faults>>

AppendFrame ==
  /\ thread.pc = "append"
  /\ IF thread.frame = 0
     THEN Goes("idle") /\ UNCHANGED <<rec, recorded>>
     ELSE /\ rec' = [rec EXCEPT !.frames = Append(@, thread.frame)] /\ recorded' = Append(recorded, thread.frame)
          /\ Goes(IF rec.counter % FramesPerFile = 0 THEN "dir" ELSE "idle")
  /\ Parsing /\ UNCHANGED <<cutOff, faults>>

(* os.mkdir raises for a directory that is there: the one of a thread that *)
(* was killed before it cleared first_file is never used.                  *)
MakeDir ==
  /\ thread.pc = "dir"
  /\ \/ rec.first /\ ~rec.dir /\ rec' = [rec EXCEPT !.dir = TRUE] /\ Goes("made") /\ UNCHANGED faults
     \/ rec.first /\ rec.dir /\ Goes("idle") /\ UNCHANGED <<rec, faults>>
     \/ rec.first /\ ~rec.dir /\ Fault /\ Goes("idle") /\ UNCHANGED rec
     \/ ~rec.first /\ Goes("open") /\ UNCHANGED <<rec, faults>>
  /\ Parsing /\ UNCHANGED <<recorded, cutOff>>

DirMade ==
  /\ thread.pc = "made" /\ rec' = [rec EXCEPT !.first = FALSE] /\ Goes("open")
  /\ Parsing /\ UNCHANGED <<recorded, cutOff, faults>>

(* Mutant: the frames are cleared once the file is there *)
ClearedAtOnce(r) == [r EXCEPT !.frames = <<>>]
Opened(r) == r

OpenFile ==
  /\ thread.pc = "open"
  /\ \/ thread' = [thread EXCEPT !.pc = "write", !.out = rec.frames] /\ rec' = Opened(rec) /\ UNCHANGED faults
     \/ Fault /\ Goes("idle") /\ UNCHANGED rec
  /\ Parsing /\ UNCHANGED <<recorded, cutOff>>

WriteFile ==
  /\ thread.pc = "write"
  /\ \/ Goes("clear") /\ UNCHANGED faults
     \/ Fault /\ Goes("idle")
  /\ Parsing /\ UNCHANGED <<rec, recorded, cutOff>>

ClearFrames ==
  /\ thread.pc = "clear" /\ rec' = [rec EXCEPT !.frames = <<>>] /\ Goes("close")
  /\ Parsing /\ UNCHANGED <<recorded, cutOff, faults>>

(* The end of the with: what is not on disk yet may be refused there *)
CloseFile ==
  /\ thread.pc = "close" /\ thread' = [thread EXCEPT !.pc = "idle", !.out = <<>>]
  /\ \/ rec' = [rec EXCEPT !.stored = @ \o thread.out] /\ UNCHANGED <<cutOff, faults>>
     \/ Fault /\ cutOff' = TRUE /\ UNCHANGED rec
  /\ Parsing /\ UNCHANGED recorded

-----------------------------------------------------------------------------
(* The program is closed, or aborted, and started anew: loadCachedData     *)
(* writes the cache as it reads it; frames in memory are gone.             *)
Restart ==
  /\ clicks < MaxClicks /\ clicks' = clicks + 1
  /\ choice' = Cached(cache) /\ rates' = StartRates(choice') /\ menus' = StartMenus(choice')
  /\ window' = StartWindow(choice', cache.record) /\ rec' = [NoParser EXCEPT !.saving = cache.record]
  /\ picked' = {} /\ ports' = NoPorts /\ timer' = "none" /\ thread' = NoThread
  /\ recorded' = <<>> /\ cutOff' = FALSE /\ replay' = Quiet /\ Anew
  /\ opened' = {} /\ former' = 0 /\ detached' = FALSE /\ aborted' = FALSE
  /\ UNCHANGED <<cache, reads, faults>>

Next ==
  \/ ChooseDemo \/ ChooseDevice \/ PickRate \/ ToggleRecord \/ SelectCfg
  \/ Connect \/ Reset \/ Start \/ SendCfg
  \/ PlayOrPause \/ LoadReplay \/ LeaveReplay \/ MoveSlider \/ ReplayTick
  \/ Tick \/ NoPort \/ Read \/ CountFrame \/ AppendFrame
  \/ MakeDir \/ DirMade \/ OpenFile \/ WriteFile \/ ClearFrames \/ CloseFile
  \/ Restart

Spec == Init /\ [][Next]_vars

-----------------------------------------------------------------------------
(* Properties *)

(* Every frame recorded since the connection was last reset is in a file, *)
(* in the one to be closed or still in memory, in the order read and once, *)
(* behind what is left of those recorded before, whatever failed on disk   *)
(* and whenever the thread was killed, but for frames cleared before their *)
(* file was flushed.                                                       *)
InClosing == IF thread.pc = "close" THEN thread.out ELSE <<>>
Held == rec.stored \o InClosing \o rec.frames
RecordedIsKept ==
  ~cutOff => \E n \in 0 .. Len(Held) :
               /\ SubSeq(Held, n + 1, Len(Held)) = SubSeq(recorded, former + 1, Len(recorded))
               /\ \A i \in 1 .. n : \E j \in 1 .. former : Held[i] = recorded[j]

(* The comment at gui_parser.py:40, "this needs to be reset if connection  *)
(* is reset", of the frames in memory: no file has frames of a connection  *)
(* that was reset before it was opened.                                    *)
FramesAreReset ==
  thread.pc = "write" => \A i \in DOMAIN thread.out : \A j \in 1 .. former : thread.out[i] # recorded[j]

(* The thread runs without a connection, or is replaced while it runs,     *)
(* only after the timer was started without one: a reset stops both.       *)
ConnectIsSafe == aborted \/ (Running /\ window.status # "Connected") => detached

(* A port is opened at the rate its device and demo need, unless another   *)
(* was picked for them by hand since they were chosen.                     *)
OpenedAtPreset == \A o \in opened : o.byHand \/ o.rate = o.preset

(* Both of them *)
ConnectionSound == ConnectIsSafe /\ OpenedAtPreset

(* A replay gives the display consecutive frames, and plays until the last *)
(* one or one the display raises for.  One pair is not consecutive: after  *)
(* a file of one frame the slider stands at 0 and the next frame is 1, and *)
(* in a file of two the slider then takes the position past the end back   *)
(* to the last frame, which is shown again.                                *)
LastAgain == replay.length = 2 /\ shown[1] = 1 /\ shown[2] = 1
ReplayIsWhole ==
  /\ \A i \in 1 .. Len(shown) - 1 : shown[i + 1] = shown[i] + 1 \/ (i = 1 /\ LastAgain)
  /\ replay.playing /\ ~replay.ticking /\ shown # <<>> => raised \/ Last(shown) = replay.length - 1

(* The program comes up with the device and demo it was closed with, and,  *)
(* when no replay took the cache away, with the recording as it was.       *)
RestartRestores ==
  [][Restart => /\ choice' = choice
                /\ window.canCache => window'.record = window.record /\ rec'.saving = rec.saving]_vars
=============================================================================
