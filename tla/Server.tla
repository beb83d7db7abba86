------------------------------- MODULE Server -------------------------------
(***************************************************************************)
(* The life of the server process (main of server-parser/main.c): what it  *)
(* starts and opens, and releases again on every way out; the radar        *)
(* configuration sent line by line from the poll loop; the client served   *)
(* in the same loop once the configuration is out; SIGINT at any moment.   *)
(* What a client's bytes do is module Link, what the radar's bytes do is   *)
(* module Port2, and the threads are modules Logger and Watchdog: here     *)
(* they are started, told to stop and joined.                              *)
(***************************************************************************)
EXTENDS Integers, Sequences

CONSTANTS
  ConfigLines,  \* lines of the configuration file
  MaxCommands   \* bound: commands of clients

ASSUME ServerAssumption == ConfigLines \in Nat /\ MaxCommands \in Nat

VARIABLES
  pc,          \* where main stands
  stage,       \* index into Opening or Releasing
  ret,         \* ret
  running,     \* g_running /\ !g_stop
  has,         \* main's variables that are not -1, NULL or false
  open,        \* what is open, or runs, in fact
  nextLine,    \* position in config_file
  configDone,  \* config_done
  due,         \* config_next_send_ms has passed
  revents      \* what the last poll reported

(* Outside *)
VARIABLES
  backlog,     \* a client waits to be accepted
  data,        \* the client served has sent bytes not yet received
  hungUp       \* the client served has closed its end

(* History *)
VARIABLES
  cli,         \* what was written to the CLI port: config lines, commands
  misused      \* what was released, or joined, and was not there

mainVars == <<pc, stage, ret, running, has, open, nextLine, configDone, due, revents>>
peerVars == <<backlog, data, hungUp>>
vars == <<mainVars, peerVars, cli, misused>>

Opening == <<"fd1", "fd2", "listen", "config">>

(* The order of the code after cleanup: *)
Releasing == <<"config", "client", "listen", "fd1", "fd2", "watchdog", "logger">>

(* "watchdog" is its thread, "gpio" the handles that lead to its line      *)
Resources == {"fd1", "fd2", "listen", "config", "client", "watchdog", "gpio", "logger"}
Command == 0

Init ==
  /\ pc = "logger" /\ stage = 1 /\ ret = "failure" /\ running = TRUE
  /\ has = {} /\ open = {}
  /\ nextLine = 1 /\ configDone = FALSE /\ due = TRUE /\ revents = {}
  /\ backlog = FALSE /\ data = FALSE /\ hungUp = FALSE
  /\ cli = <<>> /\ misused = {}

-----------------------------------------------------------------------------
(* Outside *)

(* SIGINT or SIGTERM: only the flags change *)
Signal ==
  /\ running /\ running' = FALSE
  /\ UNCHANGED <<pc, stage, ret, has, open, nextLine, configDone, due, revents,
                 peerVars, cli, misused>>

(* CONFIG_DELAY_MS have passed *)
Elapse ==
  /\ ~due /\ due' = TRUE
  /\ UNCHANGED <<pc, stage, ret, running, has, open, nextLine, configDone, revents,
                 peerVars, cli, misused>>

Connect ==
  /\ "listen" \in open /\ ~backlog /\ backlog' = TRUE
  /\ UNCHANGED <<mainVars, data, hungUp, cli, misused>>

Type ==
  /\ "client" \in open /\ ~hungUp /\ ~data /\ data' = TRUE
  /\ UNCHANGED <<mainVars, backlog, hungUp, cli, misused>>

HangUp ==
  /\ "client" \in open /\ ~hungUp /\ hungUp' = TRUE
  /\ UNCHANGED <<mainVars, backlog, data, cli, misused>>

-----------------------------------------------------------------------------
(* Startup *)

(* logger_init: returns 0, not a negative number, when it fails, so main   *)
(* goes on in every case.                                                  *)
StartLogger ==
  /\ pc = "logger"
  /\ \E up \in BOOLEAN : open' = IF up THEN open \cup {"logger"} ELSE open
  /\ has' = has \cup {"logger"}
  /\ pc' = "watchdog"
  /\ UNCHANGED <<stage, ret, running, nextLine, configDone, due, revents,
                 peerVars, cli, misused>>

(* watchdog_start always returns 1; its monitor is module Watchdog.  The   *)
(* GPIO handles are there, or were never obtained, or a later step of      *)
(* _gpio_config failed: it freed those it had, and left the globals set.   *)
StartWatchdog ==
  /\ pc = "watchdog"
  /\ \E set \in SUBSET {"gpio"} : \E live \in SUBSET set :
       /\ has' = has \cup {"watchdog"} \cup set
       /\ open' = open \cup {"watchdog"} \cup live
  /\ pc' = "open"
  /\ UNCHANGED <<stage, ret, running, nextLine, configDone, due, revents,
                 peerVars, cli, misused>>

(* configure_serial_port twice, setup_tcp_listener, fopen: each undoes its *)
(* own work when it fails, and main goes to cleanup.                       *)
Open ==
  /\ pc = "open"
  /\ \/ /\ open' = open \cup {Opening[stage]} /\ has' = has \cup {Opening[stage]}
        /\ IF stage = Len(Opening) THEN pc' = "loop" /\ stage' = 1
                                   ELSE pc' = "open" /\ stage' = stage + 1
     \/ pc' = "cleanup" /\ stage' = 1 /\ UNCHANGED <<open, has>>
  /\ UNCHANGED <<ret, running, nextLine, configDone, due, revents,
                 peerVars, cli, misused>>

-----------------------------------------------------------------------------
(* The loop *)

(* Give up r: fclose, close or close_client *)
Released(r) ==
  /\ open' = open \ {r}
  /\ misused' = misused \cup ({r} \ open)

(* Mutant: the loop looks at a flag the handler does not set *)
NeverSeen == FALSE

(* The condition of the loop no longer holds *)
Stopped == ~running

LoopEnds ==
  /\ pc = "loop" /\ Stopped
  /\ ret' = "success"
  /\ pc' = "cleanup"
  /\ UNCHANGED <<stage, running, has, open, nextLine, configDone, due, revents,
                 peerVars, cli, misused>>

(* Mutant: the comparison of the times is turned round *)
NotYet == ~due

(* now_ms() >= config_next_send_ms.  config_waiting is set and taken back  *)
(* at once (lines 205 and 210), so it holds nothing up.                    *)
SendNow == due

NoConfigStep ==
  /\ pc = "loop" /\ ~Stopped /\ (configDone \/ ~SendNow)
  /\ pc' = "poll"
  /\ UNCHANGED <<stage, ret, running, has, open, nextLine, configDone, due, revents,
                 peerVars, cli, misused>>

(* Mutant: config_file keeps its value after fclose *)
StillSet(s) == s

(* config_file = NULL *)
Cleared(s) == s \ {"config"}

(* fgets returns a line *)
LineLeft == nextLine =< ConfigLines

(* The next line goes out, if the port takes all or a part of it; an error *)
(* of write, EAGAIN of a full port included, ends the server.              *)
SendConfigLine ==
  /\ pc = "loop" /\ ~Stopped /\ ~configDone /\ SendNow
  /\ LineLeft
  /\ nextLine' = nextLine + 1
  /\ \/ /\ cli' = Append(cli, nextLine)
        /\ due' = FALSE
        /\ pc' = "poll"
        /\ UNCHANGED <<has, open, misused>>
     \/ /\ Released("config")
        /\ has' = Cleared(has)
        /\ pc' = "cleanup"
        /\ UNCHANGED <<cli, due>>
  /\ UNCHANGED <<stage, ret, running, configDone, revents, peerVars>>

EndOfConfig ==
  /\ pc = "loop" /\ ~Stopped /\ ~configDone /\ SendNow
  /\ ~LineLeft
  /\ configDone' = TRUE
  /\ pc' = "poll"
  /\ UNCHANGED <<stage, ret, running, has, open, nextLine, due, revents,
                 peerVars, cli, misused>>

(* poll, with the client that is there now.  Serial data may come or not.  *)
(* A signal makes it return at once (EINTR); another error ends the loop,  *)
(* with success.                                                           *)
Poll ==
  /\ pc = "poll"
  /\ \/ /\ \E serial \in SUBSET {"fd1", "fd2"} :
             revents' = serial
               \cup {e \in {"listen"} : backlog}
               \cup {e \in {"client"} : "client" \in has /\ (data \/ hungUp)}
        /\ pc' = "accept"
        /\ UNCHANGED ret
     \/ /\ ~running
        /\ pc' = "loop" /\ UNCHANGED <<revents, ret>>
     \/ pc' = "cleanup" /\ ret' = "success" /\ UNCHANGED revents
  /\ UNCHANGED <<stage, running, has, open, nextLine, configDone, due,
                 peerVars, cli, misused>>

(* accept_new_client: the client there was, if any, is closed first *)
Accept ==
  /\ pc = "accept"
  /\ pc' = "client"
  /\ \/ /\ "listen" \in revents
        /\ backlog' = FALSE
        /\ open' = open \cup {"client"} /\ has' = has \cup {"client"}
        /\ data' = FALSE /\ hungUp' = FALSE
     \/ UNCHANGED <<backlog, open, has, data, hungUp>>
  /\ UNCHANGED <<stage, ret, running, nextLine, configDone, due, revents, cli, misused>>

(* Mutant: only data is looked at *)
DataOnly == "client" \in revents /\ configDone /\ data

(* Mutant: the client is served while the configuration is under way *)
ServedAtOnce == "client" \in revents

Served == "client" \in revents /\ configDone

(* close_client *)
ClientClosed ==
  /\ Released("client") /\ has' = has \ {"client"}
  /\ data' = FALSE /\ hungUp' = FALSE

(* handle_client_data: bytes received, which may complete a command for    *)
(* the CLI port, or the end of the stream; nothing if the client polled    *)
(* was displaced by one that is silent.                                    *)
ServeClient ==
  /\ pc = "client"
  /\ pc' = "fd1"
  /\ \/ /\ Served /\ data
        /\ data' = FALSE
        /\ \/ cli' = Append(cli, Command) /\ Len(cli) < ConfigLines + MaxCommands
           \/ UNCHANGED cli
        /\ UNCHANGED <<has, open, hungUp, misused>>
     \/ /\ Served /\ ~data /\ hungUp
        /\ ClientClosed
        /\ UNCHANGED cli
     \/ /\ Served => ~data /\ ~hungUp
        /\ UNCHANGED <<data, hungUp, has, open, cli, misused>>
  /\ UNCHANGED <<stage, ret, running, nextLine, configDone, due, revents, backlog>>

(* The CLI port, then the radar port.  What was read is sent to the        *)
(* client; a failing send closes it.  The watchdog is fed.                 *)
ServeSerial ==
  /\ pc \in {"fd1", "fd2"}
  /\ pc' = IF pc = "fd1" THEN "fd2" ELSE "loop"
  /\ \/ pc \in revents /\ "client" \in has /\ ClientClosed
     \/ UNCHANGED <<has, open, data, hungUp, misused>>
  /\ UNCHANGED <<stage, ret, running, nextLine, configDone, due, revents, backlog, cli>>

-----------------------------------------------------------------------------
(* What goes with r: watchdog_stop releases the GPIO handles, too *)
With(r) == {r} \cup IF r = "watchdog" THEN {"gpio"} ELSE {}

(* cleanup: everything the variables say is there, one after the other.    *)
(* To join a logger thread that was never created, or to free GPIO handles *)
(* that were freed, is undefined: it returns or it ends the process.       *)
Release ==
  /\ pc = "cleanup"
  /\ LET given == has \cap With(Releasing[stage])
     IN /\ open' = open \ given /\ has' = has \ given
        /\ misused' = misused \cup (given \ open)
        /\ \/ pc' = IF stage = Len(Releasing) THEN "exited" ELSE "cleanup"
           \/ given \ open # {} /\ pc' = "crashed"
  /\ stage' = IF stage = Len(Releasing) THEN stage ELSE stage + 1
  /\ UNCHANGED <<ret, running, nextLine, configDone, due, revents, peerVars, cli>>

Main == StartLogger \/ StartWatchdog \/ Open \/ LoopEnds \/ NoConfigStep
          \/ SendConfigLine \/ EndOfConfig \/ Poll \/ Accept \/ ServeClient
          \/ ServeSerial \/ Release

Next == Main \/ Signal \/ Elapse \/ Connect \/ Type \/ HangUp

(* main runs, no call of it blocks for good (poll has a timeout, the       *)
(* threads it joins end: modules Logger and Watchdog), and time passes.    *)
Spec == Init /\ [][Next]_vars /\ WF_vars(Main) /\ WF_vars(Elapse)

-----------------------------------------------------------------------------
TypeOK ==
  /\ pc \in {"logger", "watchdog", "open", "loop", "poll", "accept", "client",
             "fd1", "fd2", "cleanup", "exited", "crashed"}
  /\ stage \in 1 .. Len(Releasing) /\ ret \in {"failure", "success"}
  /\ running \in BOOLEAN /\ has \subseteq Resources /\ open \subseteq Resources
  /\ nextLine \in 1 .. ConfigLines + 1 /\ configDone \in BOOLEAN /\ due \in BOOLEAN
  /\ revents \subseteq {"fd1", "fd2", "listen", "client"}
  /\ backlog \in BOOLEAN /\ data \in BOOLEAN /\ hungUp \in BOOLEAN
  /\ cli \in Seq(0 .. ConfigLines) /\ misused \subseteq Resources

(* The radar gets the lines of its configuration each once and in order,   *)
(* and the first command of a client after the last of them, though        *)
(* clients are accepted, and type, while the configuration is under way.   *)
ConfigFirst ==
  \A i \in DOMAIN cli : cli[i] = IF i =< ConfigLines THEN i ELSE Command

(* On every way out - startup that fails at any point, a failing write or  *)
(* poll, a signal - all that is open is released, and nothing twice but    *)
(* what failed unnoticed at startup: the logger, and the GPIO handles.     *)
(* Those two alone can end the process early, and then everything but the  *)
(* logger has been released.                                               *)
CleanExit ==
  /\ pc = "exited" => open = {} /\ has = {}
  /\ misused \subseteq {"logger", "gpio"}
  /\ pc = "crashed" => misused # {} /\ open \subseteq {"logger"}

(* The watchdog's thread, which logs, is gone before the logger is, so no  *)
(* message of it is queued for a worker that has ended.                    *)
LoggerLast == "watchdog" \in open => "logger" \in has

(* Once in its loop the server gets through its configuration, unless it   *)
(* is told to stop, or stops on an error.                                  *)
ConfigCompletes == pc = "loop" ~> configDone \/ ~running \/ pc = "cleanup"

(* A signal, whenever it comes, ends the process. *)
SignalEnds == ~running ~> pc \in {"exited", "crashed"}

(* The server closes a connection its client has closed, or gives it to    *)
(* another client, or ends - though it does not look at its client before  *)
(* the configuration is out.                                               *)
HangUpNoticed == hungUp ~> ~hungUp \/ "client" \notin open
=============================================================================
