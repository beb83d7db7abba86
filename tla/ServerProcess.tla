--------------------------- MODULE ServerProcess ---------------------------
(***************************************************************************)
(* The server process with two of its threads: main (module Server) and    *)
(* the monitor of the watchdog (module Watchdog).  main starts the         *)
(* watchdog, feeds it with every serial port that poll reports readable,   *)
(* and in cleanup tells the monitor to end and waits for it, while the     *)
(* monitor tests, sleeps and pulls the reset line.                         *)
(***************************************************************************)
EXTENDS Server, Watchdog

processVars == <<vars, watchdogVars>>

ProcessInit == Init /\ WatchdogInit

-----------------------------------------------------------------------------
(* main starts the watchdog, and the GPIO globals are what it left *)
StartsWatchdog ==
  /\ StartWatchdog /\ Start
  /\ "gpio" \in open' <=> handles'[Request] = "live"
  /\ "gpio" \in has' \ open' <=> \E h \in Handles : handles'[h] = "freed"

(* if (fds[i].revents & POLLIN): the port is read, its bytes sent on, and  *)
(* the watchdog fed, though the read may have failed                       *)
Reads ==
  /\ ServeSerial
  /\ IF pc \in revents THEN Feed ELSE UNCHANGED watchdogVars

AtWatchdog == pc = "cleanup" /\ Releasing[stage] = "watchdog" /\ "watchdog" \in has

(* cleanup comes to watchdog_stop, which clears the flag ...               *)
TellsWatchdog == AtWatchdog /\ StopSignal /\ UNCHANGED vars

(* ... and returns when the monitor has ended                              *)
JoinsWatchdog == AtWatchdog /\ Release /\ StopRelease

(* What else main does leaves the watchdog alone *)
MainAlone ==
  \/ StartLogger \/ Open \/ LoopEnds \/ NoConfigStep \/ SendConfigLine \/ EndOfConfig
  \/ Poll \/ Accept \/ ServeClient
  \/ ~AtWatchdog /\ Release

ProcessMain ==
  \/ StartsWatchdog \/ Reads \/ TellsWatchdog \/ JoinsWatchdog
  \/ MainAlone /\ UNCHANGED watchdogVars

(* The signal handler and the clients *)
Outside == Signal \/ Elapse \/ Connect \/ Type \/ HangUp

ProcessNext ==
  \/ ProcessMain
  \/ Outside /\ UNCHANGED watchdogVars
  \/ (Monitor \/ Tick \/ SetClock) /\ UNCHANGED vars

ProcessSpec == ProcessInit /\ [][ProcessNext]_processVars

-----------------------------------------------------------------------------
(* The monitor logs each reset, from its own thread, and drives the line:  *)
(* whichever way main comes to its end - an error at startup, a failing    *)
(* write, a signal - and wherever the monitor then is, in the middle of a  *)
(* pulse as well, it ends before the logger is shut down and before the    *)
(* process, and the radar is not left in reset, though the release of the  *)
(* GPIO handles may end the process.                                       *)
MonitorEndsFirst ==
  /\ monitor \notin {"off", "done"} => "logger" \in has
  /\ pc \in {"exited", "crashed"} => monitor = "done" /\ line # "low"
=============================================================================
