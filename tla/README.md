# A TLA+ verification of mmWave-Visualizer-python

The repository reads a TI mmWave radar and shows what it sees. Its core is
`server-parser/`, a C program on the machine the radar is plugged into: it
configures the radar over a serial command line (CLI) port, reads the frames the
radar sends on a second port, forwards both to one TCP client, passes that client's
commands on to the radar, logs asynchronously, and resets the radar through a GPIO
line when it falls silent. Around it are Python clients (`visualizer/`), earlier
servers (`visualizer/*.c`), a bootloader flasher (`flasher/`), an older
GUI that reads the UARTs itself (`old-visualizer/`), and experiments (`tests/`).

The server, the Python clients, the flasher and the parts of the GUI that have a state worth
the name are modelled here. The modules, the configurations TLC checks
them with and the proofs TLAPS checks are beside this file. `PROJECT.json` lists the
components, the runs, the mutants that show each property can fail, the source lines of
each definition, the hazards, the findings and the theorems.

## 1. Inventory

| Part | State it keeps | Operations | What is hard about it |
|---|---|---|---|
| Logger, `logger.c` | linked list and `queue_count` under a mutex, `running`, the worker's batch, `fd`, `current_size`, the numbered files | `logger_log`, `enqueue_log`, the worker, `rotate_logs`, `logger_init`, `logger_shutdown` | condition variable, batches, I/O that fails, a kill between two renames, shutdown with work queued |
| Radar stream parser, `serial.c` | `port2_accum`, its length | `port2_feed`, `_process_radar_frame`, TLV handlers | reads cut the stream anywhere; lengths from the wire; lost bytes; a buffer at its limit |
| Client link, `tcp_server.c`, `serial.c` | `g_client_fd`, `g_cmd_line_buf`, `g_cmd_line_len` | `accept_new_client`, `close_client`, `send_async_packet`, `handle_client_data`, `_handle_client_command` | clients displace each other at any step, sends fail half way, the client is lost in the middle of its own chunk |
| Watchdog, `watchdog.c` | `last_heartbeat`, `running`, five GPIO handles, the line | `watchdog_start`, `_feed`, `_stop`, the monitor thread | two writers of one time stamp, a decision made outside the lock, a clock that is set, stop in mid-pulse |
| Life cycle, `main.c` | descriptors, `config_file`, `config_done`, `g_running`, `g_stop` | startup, the poll loop, configuration, cleanup | partial failure, a signal at any step, clients before the configuration is out |
| Python plotters, `visualizer/claude_tcp_client.py`, `client.py`, `clienttcp.py`, `client_udp.py` | the packet buffer, the frame buffer, the socket, `running`, the queued plots, the window | packets out of TCP, frames out of packets, TLVs out of frames; RESET and its answer, keepalive, reconnect, stop | two layers of framing, a SYSTEM packet between them that empties one, reconnection, exceptions, datagrams that overtake each other, a length of zero, a window that waits for its thread |
| Earlier servers, `visualizer/tcp_server_main.c` and others | the Port-1 state machine, its deadline and cooldown, `g_needs_reconfig` | send a line, wait for the answer, time out, reconfigure | late answers, reconfiguration at any moment |
| Flasher, `flasher/mmWaveProgFlash.py` and its three programs | port, command status, version, files, progress, the cancel flag, the boot pin | connect, version, erase, start, chunks, close, status, cancel | reads that time out and answers that come late, refusals, an answer read for another command, cancel anywhere |
| UART reader, `old-visualizer/gui_parser.py`, `parseFrame.py`, `parseTLVs.py` | the match index, the byte held back, the frame, the output dictionary | hunt for the magic word, read a frame, walk its TLVs, some forty decoders | noise that begins like the word, short reads, records that are missing |
| Window, `gui_core.py`, `gui_threads.py`, `Baud_Rates_Manager.py`, `cached_data.py` | the choice of device and demo, rates and menus, the cache, ports, timer, thread, replay | choose, pick, connect, start, send, record, replay, reset, restart | clicks in any order next to a thread that reads; files that fail; a cache that is written while it is read |
| Displays, `Demo_Classes/` | tags and labels of tracks, heights and falls, the drawing thread, the window of gestures, the mode and its text | classify, detect, draw, announce, time out | numbers of tracks that are used again, two users of `plotComplete`, three writers of one text |
| Tests and experiments, `tests/` | — | predecessors of the above | not part of the program |

**How they interact.** One main thread runs the poll loop: it accepts a client,
works off what the client sent, reads the CLI port and the radar port, sends what
it read on to the client, feeds the watchdog, and gives the radar's bytes to the
parser. The watchdog's monitor and the logger's worker are the two other threads;
every thread logs. Signals set two flags. The client speaks lines to the server and
receives packets (type, sequence number, length, payload). A plotter has a network thread that
turns packets into plots and signals them to its window. The older GUI does without the server: a thread
started by a timer reads one frame from the UART, parses it, records it, and signals it to the window,
whose display updates itself and may start a thread that draws. The flasher talks to the radar's boot
loader alone.

**What makes each correct.** Logger: nothing accepted is lost, repeated or
reordered; the worker never sleeps on work; shutdown drains and returns; the files
are the tail of what was written. Parser: exactly the frames sent, as soon as complete,
however reads fall; never outside its buffers; back in step after a loss. Link: each
command is one line of one client; one connection at most; commands whole. Watchdog:
resets follow silence and only silence, never close together; stopping is clean.
Life cycle: configuration before commands; everything released once; a signal ends it.
Plotters: the plots are the radar's,
wherever the stream was cut, and a closed window goes away. Flasher: an acknowledgement belongs to its
command, what is reported stored was accepted chunk by chunk, a cancel is heeded. UART reader: each frame
is read whole and decoded by itself. Window: no recorded frame is lost, nothing runs without a connection,
ports have the right rate, a restart restores. Displays: what is shown has evidence of its own.

## 2. The modules

| Module | Models | Main correspondence |
|---|---|---|
| `AsyncLog` | what a logger promises | abstract: accept, retire a batch, stop, crash |
| `Logger` | `logger.c` | each critical section, the `writev`, each rename and the reopen is one action |
| `Port2` | parser in `serial.c` | `port2_feed` is `Feed`, its loop `Drain` with `Pass` for one turn, the TLV loop `Tlvs`, the handlers' copies `Copied` |
| `Link` | client side of `tcp_server.c`, `serial.c`, `main.c` | `pc` follows main's loop; a received chunk is worked off a byte per step, a command in one step per write |
| `Watchdog` | `watchdog.c` | main's calls, the monitor's steps between its sleeps, time in ticks |
| `Server` | `main.c` | startup, configuration, poll, service, cleanup; what the others do inside is left to their modules |
| `ServerProcess` | `main.c` with `watchdog.c` | `Server` and `Watchdog` in one process: main's calls are steps of both, the monitor runs beside main |
| `FrameClient` | the four plotters | a pass of the receiving loop is one action; `Process`, `Parse` and `ExtractTlvs` are `process_net_buffer`, `parse_buffer` and `extract_tlvs`, `NextPacket`, `Turn` and `NextTlv` a turn of the loop of each; `kind` says which program it is |
| `Flasher` | `mmWaveProgFlash.py`, `flasher.py`, `FlashPython.py`, `flasher_copy.py` | each `read` is one action, and each stretch of the loader between two of them; the boot loader is external |
| `UartFrame` | reader and parsers of the GUI | each turn of the hunt and each read is one action; `ParserFunctions` is the dispatch table, `Decode` the decoders by kind |
| `Visualizer` | the window, recording, replay, rates, cache | a click is one action; the reading thread's steps between two effects on memory or disk are one each |
| `People`, `Gestures` | the displays of tracks and of gestures | `PeopleFrame`, `NetworkFrame` and `ModeFrame` are `updateGraph` with what it calls |
| `Displays` | the demo that is shown | composes the two, on either device |
| `MC*` | small instances for TLC | constants, and properties that join or fold sequences |
| `LoggerProofs`, `Port2Proofs`, `LinkProofs`, `ServerProofs`, `FrameClientProofs`, `FlasherProofs`, `VisualizerProofs`, `DisplaysProofs` | the theorems | section 4 |

`Server` is the composition in time: it starts, serves, stops and joins what the other
modules model in detail, and its assumption that the joins return is what
`Logger!ShutdownCompletes` and `Watchdog!StopReturns` establish. What `watchdog_stop` may do wrong after a GPIO
configuration that failed half way is in `Server` too: its `Release` ends the process there. `ServerProcess` is the one composition in
which two of them run at once: main waits in `watchdog_stop` for a monitor that may be in the middle of a pulse. It
has no run of its own; its steps are steps of `Server` and of `Watchdog` by definition (two lemmas of `ServerProofs`), so what their runs show holds in it. The
other components share no state, so checking them apart loses no interleaving between them. `UartFrame` and `Visualizer`
meet in one place: a frame of `Visualizer` is a number, and `UartFrame` has the bytes behind it.

### Abstractions

- **Logger.** A message is `[by, id, level]`; it counts as one unit of file size. A line
  cut by a short `writev` counts as lost. Allocation may fail (the message
  disappears before the queue). `files` is a directory that survives `CrashRestart`.
  A rename succeeds when its file exists; a failing rename, which the code ignores, is not
  modelled. A reopen that fails leaves `opened` FALSE: the code then drops every
  batch for good, since the size never reaches the limit again while nothing is written.
  That is in the model, as an I/O fault.
- **Port2.** Header fields are one byte, the header four, the buffer thirteen; the *order*
  of tests and the arithmetic are the code's. A packet of exactly `PORT2_ACCUM_SIZE`
  is believed but can never be collected, because the buffer saturates first
  (`MCFrames` holds one that becomes such a packet by a loss); in the code,
  frames within one read of the buffer's size may be purged for the same reason.
- **Link.** "RESET" is two characters; the buffer four bytes. The CLI port may take any
  part of a write or refuse it, which ends the command; what the radar reads of it is kept in `heard` and `open`.
  How fast the port sends is left open: a flush drops any end of what it took since the last one. The packet's sequence number
  (`g_tx_sequence`) and what a connection carries to the client are left out: a packet is sent or
  dropped (nothing changes), or its client is closed. The code compares five bytes of the buffer whatever
  the line's length, so stale bytes can complete a short line to RESET; and the tail
  of an over-long line is executed as a line. `CommandsAreLines` therefore holds for clients that
  type neither, and says so in `Mistakable`.
- **Watchdog.** Absolute times become ages, capped where no comparison can tell them
  from greater ones. GPIO configuration may fail after any handle; after a failure in
  the middle the globals point at freed handles, which `watchdog_stop` frees again
  (`twice`); what that does is in `Server`. A failing `pthread_create` and a signal that shortens the monitor's
  `usleep` are left out.
- **Server.** The branch that waits for a response to a configuration line is dead:
  `config_waiting` is set and cleared in the same pass (main.c:205, 210), so
  `RESPONSE_TIMEOUT_MS` never applies. It is left out. A reset by the watchdog does
  not make main send the configuration again; nothing in the code promises that. A line of the configuration that
  the port takes in part (main.c:181-185) is one entry of `cli` like any other: `ConfigFirst` is about the order of lines.
  A handle freed twice ends the process, as glibc does, or does nothing.

- **FrameClient.** Headers of two and four units for the code's; a heat map of four values. The server
  and the network are the environment: packets of any cut, breaks, datagrams lost or overtaken. Plots are
  what is emitted; how they are drawn is left out.
- **Flasher.** A file is its size and header; progress is kept, since the user sees it. The answer of
  the boot loader to any command may be yes or no, comes whole and at any time later, and is thrown away by a port that is
  closed. `read` returns what is there. A write that fails is left out.
- **UartFrame.** A record's numbers are one number, or two where the length of the record matters;
  the decoders are told apart by units, length of a record, key and what they do when the slice is short.
  A length is two digits.
- **Visualizer.** Frames are numbers. A click is handled whole, as Qt does; the reading thread runs between
  clicks. Killing that thread (`terminate`) may happen at each of its steps, and is immediate. Which frames of a file the display
  raises for is left open.
- **People, Gestures.** A class is one of three answers of the classifier, a height one of two values. The thread that draws has two steps, the signal
  `done` and the return from `run` (gui_threads.py:245), between which anything may happen.
  Statistics, colours and the plots of features are left out. The threshold of falls is a constant, though a
  slider may set it at run time (people_tracking.py:225).

## 3. The runs

| Run | Instance | Shows |
|---|---|---|
| `logger` | 2 threads, limit 1, batch 2, 2 backups, file size 1, 3 messages of levels 1 and 4, 1 kill | `NoLostWakeup`, `ShutdownFlushes`, `RetainedSuffix`, `ShutdownCompletes`, refinement of `AsyncLog` (with its liveness) |
| `port2` | 4 frame shapes, one with a heatmap of odd length, 4 kinds of noise, buffer 13, reads of 1 to 4, 14 bytes under way, 1 lost | `FramesSound`, `InStep`, `ChunkIndependence`, `Recovers` |
| `link` | 2 clients, 2 characters and the line end, buffer 4, 5 bytes typed, every write in parts or refused, packets sent or lost with the client | `SoleAuthor`, `CommandsAreLines`, `RadarReadsCommands` |
| `watchdog` | timeout 2, hold-off 6, clock set by 3 ticks once | `CleanStop`, `ResetJustified`, `SpacedResets`, `SilenceResets`, `StopReturns` |
| `server` | 3 configuration lines, 2 commands | `ConfigFirst`, `CleanExit`, `ConfigCompletes`, `SignalEnds`, `HangUpNoticed` |
| `client` | the 4 plotters, 7 streams (noise, padding, a short and an odd map, a length of zero), packets of 6, reads of 5, 2 connections, 1 datagram lost or overtaken | `InStep`, `ReadAtOnce`, `PlotsAreRadars`, `StopEnds` |
| `flasher` | 11 jobs of the three programs, up to 2 files of up to 4 chunks, 2 retries | `VerdictIsDevices`, `StoredIfReported`, `CancelStops`, `FlashEnds` |
| `uart` | 4 streams of 2 or 3 frames with 21 types of TLV, chunks of 3 and 10, 1 read that times out, 1 byte lost | `WholeFramesDecode`, `NothingSkipped` |
| `visual` | 3 devices, 6 demos, files of 2 frames, replays of 1, 2 and 3, 7 clicks, 4 frames, 1 failure on disk | `RecordedIsKept`, `ConnectionSound`, `ReplayIsWhole`, `RestartRestores` |
| `displays` | 2 tracks, tags and heights of 3 frames, 3 gestures, a window of 3, 6 frames | `LabelsHaveEvidence`, `FallsHaveDrops`, `GesturesConfirmed`, `DrawerIsSafe` |

Three invariants that are theorems for every value of the constants are not run as well: `Conservation` of the logger, `OneSession` of
the link and `ModeIsTold` of the gesture display.

**Where the code does not do what the repository says.** Two statements are checked by a run of their own, in which TLC shows how the
code departs from them; `findings` in `PROJECT.json` quotes them.

| Run | The statement | What the code does |
|---|---|---|
| `watchdog_hold` | `HoldOffKept`: watchdog.c:134, 3 s until the next reset is possible | the next feed takes the hold-off back (watchdog.c:102) |
| `visual_reset` | `FramesAreReset`: gui_parser.py:40, to be reset if the connection is | keeps the frames of the old connection and writes them into the next file (gui_parser.py:164) |

Five more departures are in the models, and what the passing runs check allows for each of them in so many words:

| The statement | What the code does | What is checked |
|---|---|---|
| serial.h:15, limits for static memory safety | compares elements and copies bytes (serial.c:93): an odd heatmap is a byte too long | `FramesSound` allows for that byte and for nothing else |
| tcp_server.c:65, "dropping packet" | keeps a connection that was given a part of the packet (tcp_server.c:64), so the next one is read as its rest | nothing: what a connection carries to the client is not in the model, and no property claims that packets are whole |
| readme.md:46, graceful shutdowns | frees GPIO handles a second time after a configuration that failed half way (watchdog.c:167), which may end the process | `CleanExit` says that only the logger and the GPIO handles are ever released twice, and that nothing but the logger is left open then |
| parseFrame.py:183, verify the length to detect transmission error | adds up the lengths the TLVs state, not what was read (parseFrame.py:184), so a frame cut short may pass | `WholeFramesDecode` is about frames read whole, whatever cut ones came before |
| people_tracking.py:131, if this track was computed to have fallen | leaves the frames a fall is still shown for to the next track of the number (fall_detection.py:69) | `FallsHaveDrops` says that a fall shown follows a drop of a track that has or had the number, within the frames it is to be shown for |

Next to the two runs, `SpacedResets` says of the watchdog that a radar silent since a reset has the hold-off and the timeout, and another the
timeout; and `RecordedIsKept` of the recorder that the frames of the present connection are kept in order behind what is left of older ones.

**Why the bounds are enough.** `logger`: a limit of one is reached by the second message,
a batch of two splits three messages, a file size of one rotates at every write, and two
backups give a shift, an unlink and a rename of the live file to be interrupted by the kill.
`port2`: the buffer is three headers and a byte, so it saturates, holds a frame and a half, and
cuts a magic word; one loss is the case from which longer sequences of losses start afresh, because the
parser keeps no state but its buffer. `link`: five bytes are a line of one client
plus a piece left to the next, a RESET, an over-long line, and a chunk lost half way; two
clients displace each other and each can have a predecessor. They are also a command that is cut and the one
behind it, or a RESET before or behind a command. `watchdog`: the ratio of
hold-off to timeout is the code's (3 s to the timeout of main, in ticks of half a timeout).
`server`: nothing depends on the number of lines but its being more than one.
`client`: packets of 6 and reads of 5 cut both headers, the magic word and the length, and two frames are
enough for pieces of one to meet the other. `flasher`: two files make an answer to one late for the other,
two chunks a cancel between them. `uart`: two frames show what is carried over, a third that the reader is back
in step; between them the streams go through every kind of decoder. `visual`: seven clicks reach
connect, start, reset, connect again and a replay with the slider moved; files of two frames make two of the four
frames read cross a file. `displays`: three frames fill a window, a fourth pushes the first out, and two
tracks change numbers.

**Action constraint and symmetry of `link`.** `ActInTime`: a client connects before a poll,
and types and hangs up only while it is served and its chunk has not been received. Any other such
step touches only `session`, `inbox` and `hungUp`: the server reads the first at poll and
accept, the others for the client it serves, so the step commutes to the next of these.
The two clients are interchangeable and the run checks no liveness, so
`SYMMETRY` is sound.

**Deadlock** is checked in `logger`, `port2`, `link` and `watchdog`. The others may stop: the server and the flasher
end, and the clients, the reader and the window run out of frames, clicks or datagrams.
In `logger` the end is the explicit step `Exited`.

**Fairness.** `Logger`: the worker is a thread that the scheduler runs and that gets
the mutex, and `pthread_join` on an ended thread returns. `Port2`: `poll` returns while
bytes wait, and the radar keeps sending. `Watchdog`: time passes, the monitor runs, and
`watchdog_stop`, once entered, goes on; whether main feeds or stops is open.
`Server`: main runs and no call of it blocks for good; time passes.
`FrameClient`: a socket call returns, since all have a time-out, and the window waits for its thread.
`Flasher`: a read returns, since the port has a time-out, and what the boot loader sent arrives. Clients,
signals, users, crashes and losses are never fair. `Link`, `UartFrame`, `Visualizer` and `Displays` state no
fairness: their runs are about safety, and that a hang-up is noticed is checked in `server`.

**What else the code does that a reader may not expect.** Each was met while modelling, and the model does the same.

- The limit of the logger's queue is looked at by `logger_log` only (logger.c:319). Errors and fatal messages go
  through `enqueue_log`, which does not look (logger.c:146), so they may put more on the queue than the limit.
- `logger_init` returns 0 when it fails, and main tests for a negative value (main.c:85): a failure is not
  noticed, and main later stops a logger that never ran.
- `clienttcp.py` keeps its buffers over a reconnect (clienttcp.py:97); `InStep` and `PlotsAreRadars` speak of unbroken
  streams (`intact`).
- A length of zero keeps `parse_buffer` turning for ever (claude_tcp_client.py:130), and the window waits for it;
  `StopEnds` says that nothing else does.
- A boot loader that falls silent does the same to `_read_ack` (mmWaveProgFlash.py:357); `FlashEnds` allows for it.
- The answers to the opening of a file (mmWaveProgFlash.py:611) and to its closing (mmWaveProgFlash.py:644) are
  ignored: a file whose close was refused is reported as written all the same.
- Start or Send without a connection starts the timer, so that a connect may replace a thread that
  runs, which Qt answers by aborting the program; `ConnectionSound` says that this is the only way.
- The range tab sets `plotComplete` while the other tab's thread draws (people_tracking.py:153);
  `DrawerIsSafe` says that this is the only way to replace a thread that has its frame still to draw.
- `run` emits `done` before the thread has returned (gui_threads.py:245), and nothing waits for it: the next frame may replace a QThread that
  is running still. The model reaches this (`crashed` is then "ends"), and no property excludes it.
- The display raises for a frame that has tracks of a file, which json gives as lists (people_tracking.py:112): the replay stops there, still
  playing (gui_core.py:801). `ReplayIsWhole` allows for an end at such a frame.
- `parsePresenceDetectCfg` builds the gesture tab again and leaves the mode as it was (gesture_recognition.py:543), so the text may
  say No Gesture of a radar in presence mode. `ModeIsTold`, which is proved, speaks of a tab whose mode changed since it was built.
- After a replay of a file of one frame the slider stands at 0 and the position at 1; a file of two frames loaded then
  shows its last frame twice (gui_core.py:803). `ReplayIsWhole` excepts exactly that (`LastAgain`).
- The detector of falls asks whether a height is less than a proportion of an earlier one (fall_detection.py:64). Of a height below
  zero that stays the same this is so, too: such a track falls for ever. The theorem on falls excludes it by its
  hypothesis `StandingIsNoFall`.
- `main.py` opens no window today, and `connection_lost` of `serialAsync.py` is defined twice, so that the
  loop goes on when the port is lost.

## 4. The proofs

TLC shows the properties on the instances above; TLAPS proves these for every value of the constants. The assumptions
are the named ones on the constants - `LoggerAssumption`, `Port2Assumption`, `LinkAssumption`, `WatchdogAssumption`,
`ServerAssumption`, `ClientAssumption`, `FlasherAssumption`, `VisualizerAssumption`, `PeopleAssumption`, `GesturesAssumption` - which state types, that sizes are not
zero, that RESET with its terminator fits the command buffer, that a header holds the magic word and the two fields that
are read, and that each device has a demo. Four hypotheses are not on constants of the code but on what it is pointed at, and stand in the theorems:

- `Fitting` (of `Port2KeepsInStep`): the radar's frames begin with the magic word, state their length and leave room for a read
  in `port2_accum`, and what stands on the line before the first of them holds no magic word and makes none with it.
  Otherwise a frame may be purged with a saturated buffer, or the noise may swallow one, as it must. The instance of the run `port2` fits.
- `AllFramed` (of `ReaderSkipsNothing`): the same of the radar the GUI reads: frames begin with the magic word and state their length, and what lies
  before one holds no magic word and makes none with it. TLC checks it of the streams of the run `uart` (`MCFramed`).
- `AllReadable` (of `ClientShowsRadars`): `extract_tlvs`, given the frame at any magic word of the whole stream, emits plots the radar means, and
  those of a later magic word are later plots. It speaks of the stream as the radar sends it, not of packets, buffers or reads. TLC checks it of the
  streams of the run `client` (`MCReadable`), among them noise, an odd record and a length of zero.
- `StandingIsNoFall` (of `DisplaysShowRecentFalls`): a steady height is no fall by the measure of the detector.
  It holds of every height that is not negative when the threshold is below 1.

| Module | Theorems | Inductive invariant |
|---|---|---|
| `LoggerProofs` | `LoggerTypeCorrect`, `LoggerConserves`, `LoggerWakesUp`, `LoggerFlushes`, `LoggerRefinesAsyncLog`; `LoggerRetainsSuffix` | `LoggerInv`; `RetentionInv` |
| `Port2Proofs` | `Port2TypeCorrect`, `Port2HandsOnSound`, `Port2ChunksDoNotMatter`; `Port2KeepsInStep` | `Port2Inv`; `StepInv` |
| `LinkProofs` | `LinkTypeCorrect`, `LinkOneSession`, `LinkSoleAuthor`; `LinkRadarReadsCommands`; `LinkCommandsAreLines` | `LinkInv`; `PortInv`; `LineInv` |
| `ServerProofs` | `WatchdogTypeCorrect`, `WatchdogStopsClean`, `WatchdogJustified`, `WatchdogSpaced`; `ServerTypeCorrect`, `ServerConfiguresFirst`, `ServerExitsClean`, `ServerStopsLoggerLast`; `ProcessFeedsWhatRuns`, `ProcessMonitorEndsFirst` | `WatchdogInv`; `ServerInv`; `ProcessInv` |
| `FrameClientProofs` | `ClientReads`, `ClientReadsAtOnce`; `ClientInStep`; `ClientShowsRadars`; `ReaderSkipsNothing` | `ReadInv`; `StepInv`; `RadarInv`; `UartInv` |
| `VisualizerProofs` | `VisualizerTypeCorrect`, `VisualizerKeepsFrames`, `VisualizerConnectsSoundly`; `VisualizerReplaysWhole`; `VisualizerRestores` | `VisualizerInv`; `ReplayInv`; `CacheInv` |
| `FlasherProofs` | `FlasherStopsOnCancel`; `FlasherHearsVerdict`; `FlasherStores` | `CancelInv`; `VerdictInv`; `StoredInv` |
| `DisplaysProofs` | `DisplaysReplaceSafely`; `DisplaysTellMode`; `DisplaysConfirmGestures`; `DisplaysLabelOnEvidence`; `DisplaysShowRecentFalls` | `DrawerInv`; `PanelInv`; `NetInv`; `LabelInv`; `FallInv` |

*Logger.* `Conservation` says that what was accepted is what was retired, then the batch,
then the queue. It is inductive only with the types, because a batch taken from the head
and the rest make up the queue (lemma `TakeRest`). `ShutdownFlushes` is not inductive:
it says nothing until the worker has ended. `Bookkeeping` adds what it rests on: the flag
is down exactly when main is past its signal, what is owed never exceeds what was accepted,
the worker ends only when all of it has left, and what has left is in the file while no I/O failed. The
refinement maps `Push` to `Accept`, `WorkerWrite` to a `Retire` of the batch
(lemma `RetiredPrefix`), the worker's exit to `Stop`, `CrashRestart` to `Crash`, and every
other step to a stutter. `RetainedSuffix` is about files joined to one sequence, which no step could keep as it stands: `RetentionInv` says instead that there are
cuts in what was written, one per file, between which the files lie (`Adjoin`), so that a rename moves
a cut, an unlink drops the oldest, and a kill changes none; and that a rename finds its place free.

*Port2.* A pass of the loop either ends it or goes on further down the buffer (`Advances`), so the loop ends, and what it computes from an offset is what it
computes from the bytes behind that offset (`DrainUnfolds`). From these follow, by induction on the bytes left, what it hands on
(`DrainProperties`), that cutting its input changes nothing but bytes without significance, and that on frames behind noise it
hands on those that came whole (`DrainHands`). `StepInv` says where the parser stands while nothing was lost:
the bytes left over and those to come are what remains of the noise and then the frames owed (`Standing`), and either the first is not whole yet or there are
fewer bytes than a header. `InStep` alone is not inductive, for it does not say that the noise is not a frame.

*Link.* That each executed line has one author (`SoleAuthor`) says nothing of the line
being assembled. `OneWriter` does: a piece of a line belongs to the client served, or to one
lost in the middle of its own chunk, whose rest then goes on the same line. It needs
`OneSender` (a chunk is of one client, and is worked off before the next accept) and
`PolledServed` (a client reported by poll is served, or one in its place), so that a receive
finds either an empty line or a line of the client it reads from. Every way to lose a client outside its
chunk clears the line. `CommandsAreLines` compares what was executed with what a client typed; `LineInv` adds what
stands between the two: a client that writes (`Writes`) has in the buffer what it typed since its last line end, or has typed more than fits.
`RadarReadsCommands` says nothing while a command is being written. `PortInv` adds that what is out of it and what is left (`open`, `unsent`) make up what
the radar had of an older one and the whole command, and that the radar is in the middle of a line outside of a command only when the last one did not get through;
a write that takes a part moves bytes from one to the other, and a flush leaves a prefix of what was there. `MCLink` writes what `CommandsAreLines` compares as folds from the left (`Folded`), whose
value after one more element is lemma `FoldedAppend`.

*Watchdog.* The monitor's decision compares the clock with one time stamp that two threads write; the
property is about main's silence. `Ages` relates the two: the age is never greater
than the silence, nor - except between a pulse and its hold-off - than the time since the
last reset, and a decision stays justified until it is carried out. `Roles` says who holds
the line when: the line is low only inside a pulse, and the monitor's end lies outside one.
`LineWhole` is about the handles of a line that was obtained.

*Server.* `Ownership` says that main's variables name exactly what is open, up to a
logger that failed unnoticed, and that cleanup leaves nothing behind its position; the
client that poll reported is still there when it is served. `Progress` counts the lines
sent against the position in the file.

*Server process.* `ServerProcess` has main's variables, the watchdog's, and main's wait for the monitor. Every step of it is a step of `Server`
or leaves it alone, and a step of `Watchdog` or leaves that alone; the second needs that main starts, feeds and stops in an order
the watchdog's callers keep. So the invariants of both hold in the process, and from the two together follows what neither says:
that main feeds only what runs, and that the monitor is gone before the logger it writes to.

*Plotters.* `ReadAtOnce` compares plots from pieces with those from the whole. It is inductive with where the rest of the stream is: `ReadInv` says
that, while nothing was thrown away as an error, what was shown is one reading of all that was heard, and that the buffer is what this reading leaves over (`Splits`).
That a step keeps it is `ChunkLemma`: a stream that is parsed in two pieces, the second behind what the first left over, gives the plots it gives at once. Each of the three
loops is shown to end and to compute from an offset what it computes from the bytes behind it, as in *Port2*.
`StepInv` is about packets: what waits, what is under way and what the server has yet to send of a packet make up the packets
due, joined. That no other way to cut those bytes into packets exists, because a packet states its length, is what makes a packet handled the one that was due.
`RadarInv` looks ahead: the buffer, the bytes in the packets due and the bytes the radar has yet to send, joined, hold no whole frame whose plots would come out of order
behind those emitted (`Fits`). Bytes may be dropped from the front of this - by a SYSTEM packet, by what `parse_buffer` cuts off, while nobody listens - and a frame read moves
its plots from behind to before (`FitsRead`), but no read leaves a frame in the buffer that it has read, except where an exception ends the thread (`ParseFits`). With `StepInv`, which says
that the packets handled are those due, it gives `PlotsAreRadars`.

*Reader of the GUI.* `NothingSkipped` says nothing of the frame being read. `UartInv` says where the reader is: hunting, the byte held
back and the bytes to come are what is left of the noise before the next frame, then that frame and those after it, and at most the first byte of the word is taken;
in the frame, the bytes taken are its first, as many as the place in the code says. A byte that breaks a match and is held
back keeps this, where a reader that dropped it could miss the word (lemma `HuntsOn`).

*Visualizer.* `RecordedIsKept` is inductive with `OutIsFrames`: while the file is written, what
goes into it is what is in memory, so that clearing moves the frames from memory to the file (lemma `Moved`), and
closing moves them on. `FramesInOrder` says that all that was recorded is held, older frames too, which is more than the property asks; `FormerIsPart` places the present connection in it. `Threading` is what a connect finds: without a connection nothing runs, no
timer will start it, and the program has not been aborted, unless the timer was started without one. `RatesArePreset`
says of the menus what `OpenedAtPreset` says of the ports opened from them. `ReplayInv` ties position, slider and
the frames shown: while the timer runs the position is the frame after the last shown. `CacheInv` says that what a start would make of the cache is
the present choice, which every step keeps that writes either.

*Flasher.* That one chunk at most is late is not inductive: after it another could follow. `WindingUp`
says where the program is once it has gone out - its answer is being read, or the file is being closed
with `result` down, or the end has come - and from none of these does a chunk go out.
`VerdictInv` follows an answer through the port: at each place the program waits at, how many of its bytes were read, what the next of them are, and that no other answer is
under way (`Reading`); after a refusal, an answer that comes late or a status that was asked for, the reads of header and payload take what is left of it.
`StoredInv` adds the counts: what the loader holds of the file in transfer is the chunks sent and accepted so far, files to come hold nothing, and those reported lie behind.

*Displays.* Until the other tab takes `plotComplete`, `OneDrawer` holds: a frame is being drawn, or its signal is on the
way, or `plotComplete` is set, and never two of them; a thread that has emitted `done` and not returned is in none of the three. `PanelInv` is about the texts
of the gesture display: a tab is as it was built, or tells a gesture or the mode, and its status the mode. `NetInv` identifies the window of the network with
the frames it was confident in, and a frame shown again with the last of them. `LabelInv` counts: no class is more frequent among
a track's tags than the track itself has had it, and a number not in the last frame has none left. `FallInv` does so for heights: each entry of the buffer is
the filler or a height of the track's own, no older than its place says, and a fall of a number is shown no longer than since the last drop of a track that had it.

Each step lemma has one step per action and under it one per conjunct the action can disturb.

*How recursive functions are reasoned about.* The library's theorems of induction take a predicate as a parameter, which the provers
cannot instantiate. The modules use them in the form of sets: a set of numbers that holds 0 and with each its successor holds all
(`SetInduction`, from the well-foundedness of the order), applied to the set of the numbers for which a lemma holds. That a recursive function exists, and so
satisfies its own equation, is proved first, by the same induction.

**Only model-checked:**

- All liveness (TLAPS as installed has no proofs from fairness, nor of ENABLED), hence `Recovers` and the liveness part of
  the refinement of `AsyncLog`.
- `WholeFramesDecode` (`UartFrame`): it compares what the decoders make of a frame with what the streams of the instance say that it means. For arbitrary
  streams this is a hypothesis on the decoders, not a consequence of the program. What the reading around them adds is proved: that the
  frames reach the decoders whole and in order (`NothingSkipped`).
- The two findings, which are counterexamples.

## 5. Not modelled

- **Earlier C servers** (`visualizer/*.c`) and **tests**: predecessors of `server-parser`, of its logger and of its
  parser; the program that is built today is modelled instead. `tcp_server_main.c` has a state machine of commands, answers,
  deadlines and reconfiguration that `server-parser` gave up; it would be the next thing to model if it were revived.
- **Other displays** and `graph_utilities.py`: widgets, axes, colours. They draw what one frame holds;
  what they keep between frames is `plotComplete`, which `People` has. `point_cloud_classification.py` calls
  `graphDone` right after it starts its thread, which the model shows as a mutant to be wrong for `people_tracking.py`.
- **Panes of the GUI core and of the gesture display**, what `parseCfg` takes from a configuration for the axes, the plots of
  features: no property depends on them. Those two components are therefore modelled in part.
- **`serialAsync.py`, `main.py`**: one buffer, no protocol; what is odd about them is listed above.
- **`parserRadarData.py`**: a copy of the parser that nothing imports. **`serialStub.py`**, the serial
  dump programs, the Makefile and the configuration files: no behaviour, or data.
