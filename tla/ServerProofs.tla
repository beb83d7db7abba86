---------------------------- MODULE ServerProofs ----------------------------
(***************************************************************************)
(* The safety properties of the server process and of its two parts: of    *)
(* module Server for a configuration file of any length and any number of  *)
(* commands, of module Watchdog for every timeout, hold-off, period of the *)
(* monitor and length of the pulse and a clock set by any number of ticks, *)
(* and of module ServerProcess, which is shown to implement both and       *)
(* inherits their invariants.                                              *)
(***************************************************************************)
EXTENDS ServerProcess, SequenceTheorems, TLAPS

(***************************************************************************)
(* main                                                                    *)
(***************************************************************************)

InLoop == pc \in {"loop", "poll", "accept", "client", "fd1", "fd2"}
Ended == pc \in {"exited", "crashed"}

(* What may be taken for there, and is not *)
Unnoticed == {"logger", "gpio"}

(* main's variables say what is open, but for a logger that did not start, *)
(* or GPIO handles that were freed again; in the loop the configuration    *)
(* file is open, and a client that poll reported is still there when it is *)
(* served; cleanup leaves nothing behind it, and a crash in it only what   *)
(* comes later.                                                            *)
Ownership ==
  /\ open \subseteq has /\ has \subseteq open \cup Unnoticed
  /\ misused \subseteq Unnoticed
  /\ "gpio" \in has => "watchdog" \in has
  /\ pc = "logger" => has = {}
  /\ pc # "logger" /\ ~Ended => "logger" \in has
  /\ InLoop => "config" \in has
  /\ pc \in {"accept", "client"} /\ "client" \in revents => "client" \in has
  /\ pc = "open" => stage \in 1 .. Len(Opening)
  /\ pc \in {"logger", "watchdog"} \/ InLoop => stage = 1
  /\ pc = "cleanup" => \A j \in 1 .. stage - 1 : Releasing[j] \notin has
  /\ Ended => has \subseteq {"logger"}
  /\ pc = "exited" => has = {}
  /\ pc = "crashed" => misused # {}

(* While the configuration is under way the CLI port has got exactly the   *)
(* lines before the next one.                                              *)
Progress ==
  /\ ~configDone /\ pc # "cleanup" /\ ~Ended => Len(cli) = nextLine - 1
  /\ configDone => Len(cli) >= ConfigLines

ServerInv == TypeOK /\ Ownership /\ Progress /\ ConfigFirst

-----------------------------------------------------------------------------
(* The two orders as functions *)

LEMMA Orders ==
  /\ Len(Opening) = 4 /\ Len(Releasing) = 7
  /\ \A i \in 1 .. 4 : Opening[i] \in {"fd1", "fd2", "listen", "config"}
  /\ Opening[4] = "config"
  /\ \A i \in 1 .. 7 : Releasing[i] \in Resources
  /\ \A r \in Resources \ {"gpio"} : \E i \in 1 .. 7 : Releasing[i] = r
  /\ \A i \in 1 .. 7 : Releasing[i] = "watchdog" <=> i = 6
  /\ \A i \in 1 .. 7 : Releasing[i] # "gpio"
  /\ \A i \in 1 .. 7 : Releasing[i] = "logger" <=> i = 7
<1>1. Len(Opening) = 4 /\ Len(Releasing) = 7
  BY DEF Opening, Releasing
<1>2. /\ \A i \in 1 .. 4 : Opening[i] \in {"fd1", "fd2", "listen", "config"}
      /\ Opening[4] = "config"
  BY DEF Opening
<1>3. /\ Releasing[1] = "config" /\ Releasing[2] = "client" /\ Releasing[3] = "listen"
      /\ Releasing[4] = "fd1" /\ Releasing[5] = "fd2" /\ Releasing[6] = "watchdog"
      /\ Releasing[7] = "logger"
  BY DEF Releasing
<1>4. \A i \in 1 .. 7 : i = 1 \/ i = 2 \/ i = 3 \/ i = 4 \/ i = 5 \/ i = 6 \/ i = 7
  OBVIOUS
<1>5. \A i \in 1 .. 7 : Releasing[i] \in Resources /\ (Releasing[i] = "logger" <=> i = 7)
  BY <1>3, <1>4 DEF Resources
<1>7. \A i \in 1 .. 7 : (Releasing[i] = "watchdog" <=> i = 6) /\ Releasing[i] # "gpio"
  BY <1>3, <1>4
<1>6. \A r \in Resources \ {"gpio"} : \E i \in 1 .. 7 : Releasing[i] = r
  BY <1>3 DEF Resources
<1> QED
  BY <1>1, <1>2, <1>5, <1>6, <1>7

(* What is appended to the CLI port is the last element, and the others    *)
(* keep their places.                                                      *)
LEMMA CliAppend ==
  ASSUME NEW S, NEW s \in Seq(S), NEW e \in S
  PROVE  /\ Append(s, e) \in Seq(S) /\ Len(s) \in Nat
         /\ Len(Append(s, e)) = Len(s) + 1
         /\ DOMAIN s = 1 .. Len(s) /\ DOMAIN Append(s, e) = 1 .. Len(s) + 1
         /\ \A i \in 1 .. Len(s) : Append(s, e)[i] = s[i]
         /\ Append(s, e)[Len(s) + 1] = e
<1>1. Append(s, e) \in Seq(S)
  BY AppendProperties
<1> QED
  BY <1>1, AppendProperties, LenProperties

LEMMA ServerInit == Init => ServerInv
<1> SUFFICES ASSUME Init PROVE ServerInv
  OBVIOUS
<1> USE DEF Init
<1>1. <<>> \in Seq(0 .. ConfigLines) /\ Len(<<>>) = 0 /\ DOMAIN <<>> = {}
  BY EmptySeq
<1>2. TypeOK
  <2>1. stage \in 1 .. Len(Releasing) /\ nextLine \in 1 .. ConfigLines + 1
    BY Orders, ServerAssumption
  <2>2. cli \in Seq(0 .. ConfigLines)
    BY <1>1
  <2> QED
    BY <2>1, <2>2 DEF TypeOK
<1>3. Ownership
  BY Orders DEF Ownership, InLoop, Ended
<1>4. Progress /\ ConfigFirst
  BY <1>1 DEF Progress, ConfigFirst
<1> QED
  BY <1>2, <1>3, <1>4 DEF ServerInv

(* One step per action; under it one per conjunct the action can disturb. *)
LEMMA ServerNext == ServerInv /\ [Next]_vars => ServerInv'
<1> SUFFICES ASSUME ServerInv, [Next]_vars
             PROVE  ServerInv'
  OBVIOUS
<1> USE DEF ServerInv
<1>0. cli \in Seq(0 .. ConfigLines) /\ Len(cli) \in Nat /\ DOMAIN cli = 1 .. Len(cli)
  BY LenProperties DEF TypeOK
<1>1. ASSUME Signal \/ Elapse \/ Connect \/ Type \/ HangUp
      PROVE  ServerInv'
  <2>1. UNCHANGED <<pc, stage, has, open, misused, revents, nextLine, configDone, cli>>
    BY <1>1 DEF Signal, Elapse, Connect, Type, HangUp, mainVars
  <2>2. TypeOK'
    <3>1. UNCHANGED ret
      BY <1>1 DEF Signal, Elapse, Connect, Type, HangUp, mainVars
    <3>2. /\ running' \in BOOLEAN /\ due' \in BOOLEAN
          /\ backlog' \in BOOLEAN /\ data' \in BOOLEAN /\ hungUp' \in BOOLEAN
      BY <1>1 DEF Signal, Elapse, Connect, Type, HangUp, mainVars, peerVars, TypeOK
    <3> QED
      BY <2>1, <3>1, <3>2 DEF TypeOK
  <2> QED
    BY <2>1, <2>2 DEF Ownership, InLoop, Ended, Progress, ConfigFirst
<1>2. ASSUME StartLogger
      PROVE  ServerInv'
  <2>1. TypeOK'
    BY <1>2 DEF StartLogger, TypeOK, Resources, peerVars
  <2>2. Ownership'
    BY <1>2 DEF StartLogger, Ownership, Unnoticed, InLoop, Ended
  <2> QED
    BY <1>2, <2>1, <2>2 DEF StartLogger, Progress, ConfigFirst, Ended
<1>3. ASSUME StartWatchdog
      PROVE  ServerInv'
  <2>1. TypeOK'
    BY <1>3 DEF StartWatchdog, TypeOK, Resources, peerVars
  <2>2. Ownership'
    <3>1. PICK set \in SUBSET {"gpio"} : \E live \in SUBSET set :
            /\ has' = has \cup {"watchdog"} \cup set
            /\ open' = open \cup {"watchdog"} \cup live
      BY <1>3 DEF StartWatchdog
    <3>2. PICK live \in SUBSET set : open' = open \cup {"watchdog"} \cup live
      BY <3>1
    <3>3. pc = "watchdog" /\ pc' = "open" /\ UNCHANGED <<stage, misused, revents>>
      BY <1>3 DEF StartWatchdog
    <3>4. open' \subseteq has' /\ has' \subseteq open' \cup Unnoticed /\ "watchdog" \in has'
      BY <3>1, <3>2 DEF Ownership, Unnoticed
    <3>5. "logger" \in has' /\ stage = 1
      BY <3>1, <3>3 DEF Ownership, Ended
    <3> QED
      BY <3>3, <3>4, <3>5, Orders DEF Ownership, InLoop, Ended
  <2> QED
    BY <1>3, <2>1, <2>2 DEF StartWatchdog, Progress, ConfigFirst, Ended
<1>4. ASSUME Open
      PROVE  ServerInv'
  <2>1. stage \in 1 .. 4 /\ Opening[stage] \in Resources \ {"logger", "client"}
    BY <1>4, Orders DEF Open, Ownership, Resources
  <2>2. TypeOK'
    BY <1>4, <2>1, Orders DEF Open, TypeOK, peerVars
  <2>3. Ownership'
    BY <1>4, <2>1, Orders DEF Open, Ownership, InLoop, Ended
  <2> QED
    BY <1>4, <2>2, <2>3 DEF Open, Progress, ConfigFirst, Ended
<1>5. ASSUME LoopEnds
      PROVE  ServerInv'
  <2>1. TypeOK'
    BY <1>5 DEF LoopEnds, TypeOK, peerVars
  <2>2. Ownership'
    BY <1>5 DEF LoopEnds, Ownership, InLoop, Ended
  <2> QED
    BY <1>5, <2>1, <2>2 DEF LoopEnds, Progress, ConfigFirst, Ended
<1>6. ASSUME NoConfigStep
      PROVE  ServerInv'
  <2>1. TypeOK'
    BY <1>6 DEF NoConfigStep, TypeOK, peerVars
  <2>2. Ownership'
    BY <1>6 DEF NoConfigStep, Ownership, InLoop, Ended
  <2> QED
    BY <1>6, <2>1, <2>2 DEF NoConfigStep, Progress, ConfigFirst, Ended
<1>7. ASSUME SendConfigLine
      PROVE  ServerInv'
  <2>0. /\ nextLine \in 1 .. ConfigLines /\ nextLine' = nextLine + 1
        /\ Len(cli) = nextLine - 1 /\ "config" \in has /\ "config" \in open
    BY <1>7, ServerAssumption
    DEF SendConfigLine, LineLeft, TypeOK, Progress, Ownership, Unnoticed, InLoop, Ended
  <2>1. CASE cli' = Append(cli, nextLine) /\ pc' = "poll" /\ due' = FALSE
               /\ UNCHANGED <<has, open, misused>>
    <3>1. nextLine \in 0 .. ConfigLines
      BY <2>0
    <3>2. /\ cli' \in Seq(0 .. ConfigLines) /\ Len(cli') = nextLine
          /\ DOMAIN cli' = 1 .. nextLine
          /\ \A i \in 1 .. nextLine - 1 : cli'[i] = cli[i]
          /\ cli'[nextLine] = nextLine
      BY <1>0, <2>0, <2>1, <3>1, CliAppend
    <3>3. TypeOK'
      <4>1. nextLine' \in 1 .. ConfigLines + 1
        BY <2>0, ServerAssumption
      <4> QED
        BY <1>7, <2>1, <3>2, <4>1 DEF SendConfigLine, TypeOK, peerVars
    <3>4. Ownership'
      BY <1>7, <2>1 DEF SendConfigLine, Ownership, InLoop, Ended
    <3>5. Progress'
      BY <1>7, <2>0, <3>2 DEF SendConfigLine, Progress
    <3>6. ConfigFirst'
      BY <1>0, <2>0, <3>2, ServerAssumption DEF ConfigFirst
    <3> QED
      BY <3>3, <3>4, <3>5, <3>6
  <2>2. CASE Released("config") /\ has' = has \ {"config"} /\ pc' = "cleanup"
               /\ UNCHANGED <<cli, due>>
    <3>1. TypeOK'
      BY <1>7, <2>0, <2>2, ServerAssumption
      DEF SendConfigLine, Released, TypeOK, Resources, peerVars
    <3>2. Ownership'
      <4>1. stage = 1 /\ UNCHANGED stage
        BY <1>7 DEF SendConfigLine, Ownership, InLoop
      <4>2. open' = open \ {"config"} /\ misused' = misused
        BY <2>0, <2>2 DEF Released
      <4>3. "logger" \in has
        BY <1>7 DEF SendConfigLine, Ownership, Ended
      <4> QED
        BY <2>2, <4>1, <4>2, <4>3 DEF Ownership, InLoop, Ended
    <3> QED
      BY <1>7, <2>2, <3>1, <3>2 DEF SendConfigLine, Progress, ConfigFirst
  <2> QED
    BY <1>7, <2>1, <2>2 DEF SendConfigLine, Cleared
<1>8. ASSUME EndOfConfig
      PROVE  ServerInv'
  <2>1. TypeOK'
    BY <1>8 DEF EndOfConfig, TypeOK, peerVars
  <2>2. Ownership'
    BY <1>8 DEF EndOfConfig, Ownership, InLoop, Ended
  <2>3. Progress'
    BY <1>0, <1>8, ServerAssumption DEF EndOfConfig, LineLeft, Progress, TypeOK, Ended
  <2> QED
    BY <1>8, <2>1, <2>2, <2>3 DEF EndOfConfig, ConfigFirst
<1>9. ASSUME Poll
      PROVE  ServerInv'
  <2>1. /\ revents' \subseteq {"fd1", "fd2", "listen", "client"}
        /\ pc' = "accept" /\ "client" \in revents' => "client" \in has
        /\ pc' \in {"accept", "loop", "cleanup"} /\ pc = "poll"
        /\ ret' \in {"failure", "success"}
    BY <1>9 DEF Poll, TypeOK
  <2>2. TypeOK'
    BY <1>9, <2>1 DEF Poll, TypeOK, peerVars
  <2>3. Ownership'
    BY <1>9, <2>1 DEF Poll, Ownership, InLoop, Ended
  <2> QED
    BY <1>9, <2>1, <2>2, <2>3 DEF Poll, Progress, ConfigFirst, Ended
<1>10. ASSUME Accept
       PROVE  ServerInv'
  <2>1. TypeOK'
    BY <1>10 DEF Accept, TypeOK, Resources
  <2>2. Ownership'
    BY <1>10 DEF Accept, Ownership, InLoop, Ended
  <2> QED
    BY <1>10, <2>1, <2>2 DEF Accept, Progress, ConfigFirst, Ended
<1>11. ASSUME ServeClient
       PROVE  ServerInv'
  <2>1. cli' = cli \/ (cli' = Append(cli, Command) /\ configDone)
    BY <1>11 DEF ServeClient, Served
  <2>2. cli' \in Seq(0 .. ConfigLines) /\ ConfigFirst' /\ Progress'
    <3>1. CASE cli' = cli
      BY <1>0, <1>11, <3>1 DEF ServeClient, ConfigFirst, Progress, Ended
    <3>2. CASE cli' = Append(cli, Command) /\ configDone
      <4>1. Command \in 0 .. ConfigLines
        BY ServerAssumption DEF Command
      <4>2. /\ cli' \in Seq(0 .. ConfigLines) /\ Len(cli') = Len(cli) + 1
            /\ DOMAIN cli' = 1 .. Len(cli) + 1
            /\ \A i \in 1 .. Len(cli) : cli'[i] = cli[i]
            /\ cli'[Len(cli) + 1] = Command
        BY <1>0, <3>2, <4>1, CliAppend
      <4>3. Len(cli) >= ConfigLines
        BY <3>2 DEF Progress
      <4>4. ConfigFirst'
        <5> SUFFICES ASSUME NEW i \in DOMAIN cli'
                     PROVE  cli'[i] = IF i =< ConfigLines THEN i ELSE Command
          BY DEF ConfigFirst
        <5>1. CASE i \in 1 .. Len(cli)
          BY <1>0, <4>2, <5>1 DEF ConfigFirst
        <5>2. CASE i = Len(cli) + 1
          BY <1>0, <4>2, <4>3, <5>2, ServerAssumption
        <5> QED
          BY <1>0, <4>2, <5>1, <5>2
      <4>5. Progress'
        <5>1. Len(cli') >= ConfigLines
          BY <1>0, <4>2, <4>3, ServerAssumption
        <5> QED
          BY <1>11, <3>2, <5>1 DEF ServeClient, Progress
      <4> QED
        BY <4>2, <4>4, <4>5
    <3> QED
      BY <2>1, <3>1, <3>2
  <2>3. TypeOK'
    BY <1>11, <2>2 DEF ServeClient, ClientClosed, Released, TypeOK, Resources
  <2>4. Ownership'
    BY <1>11 DEF ServeClient, ClientClosed, Released, Served, Ownership, InLoop, Ended
  <2> QED
    BY <2>2, <2>3, <2>4
<1>12. ASSUME ServeSerial
       PROVE  ServerInv'
  <2>1. TypeOK'
    BY <1>12 DEF ServeSerial, ClientClosed, Released, TypeOK, Resources
  <2>2. Ownership'
    BY <1>12 DEF ServeSerial, ClientClosed, Released, Ownership, InLoop, Ended
  <2> QED
    BY <1>12, <2>1, <2>2 DEF ServeSerial, Progress, ConfigFirst, Ended
<1>13. ASSUME Release
       PROVE  ServerInv'
  <2> DEFINE r == Releasing[stage]
             given == has \cap With(r)
  <2>1. stage \in 1 .. 7 /\ r \in Resources /\ (r = "logger" <=> stage = 7) /\ (r = "watchdog" <=> stage = 6)
    BY Orders DEF TypeOK
  <2>2. /\ pc = "cleanup" /\ has' = has \ given /\ open' = open \ given
        /\ misused' = misused \cup (given \ open)
        /\ stage' = IF stage = 7 THEN stage ELSE stage + 1
        /\ pc' = (IF stage = 7 THEN "exited" ELSE "cleanup")
             \/ (given \ open # {} /\ pc' = "crashed")
    BY <1>13, Orders DEF Release
  <2>3. r \in With(r) /\ With(r) \subseteq {r, "gpio"} /\ (stage = 6 => "gpio" \in With(r))
    BY <2>1 DEF With
  <2> HIDE DEF r
  <2>4. given \ open \subseteq Unnoticed /\ given \ open \subseteq With(r)
    BY DEF Ownership
  <2>5. r \notin has' /\ has' \subseteq has /\ \A j \in 1 .. stage - 1 : Releasing[j] \notin has'
    BY <2>2, <2>3 DEF Ownership
  <2>6. \A j \in 1 .. stage : Releasing[j] \notin has'
    <3>1. \A j \in 1 .. stage : j \in 1 .. stage - 1 \/ j = stage
      BY <2>1
    <3> QED BY <2>5, <3>1 DEF r
  <2>7. "gpio" \in has' => "watchdog" \in has'
    <3>1. CASE stage = 6
      BY <2>2, <2>3, <3>1
    <3>2. CASE stage # 6
      BY <2>1, <2>2, <3>2 DEF Ownership, With
    <3> QED BY <3>1, <3>2
  <2>8. stage \in {6, 7} => has' \subseteq {"logger"}
    <3> SUFFICES ASSUME stage \in {6, 7}, NEW x \in has', x # "logger" PROVE FALSE
      OBVIOUS
    <3>1. x \in Resources
      BY <2>5 DEF TypeOK
    <3>2. PICK y \in Resources \ {"gpio"} : y \in has' /\ y # "logger"
      BY <2>7, <3>1 DEF Resources
    <3>3. PICK i \in 1 .. 7 : Releasing[i] = y
      BY <3>2, Orders
    <3>4. i # 7 /\ i \in 1 .. stage
      BY <3>2, <3>3, Orders
    <3> QED BY <2>6, <3>2, <3>3, <3>4
  <2>9. stage = 7 => has' = {}
    BY <2>1, <2>5, <2>8
  <2>10. given \ open # {} => stage \in {6, 7}
    <3>1. CASE r \notin {"watchdog", "logger"}
      <4>1. With(r) = {r} /\ (r = "gpio" => FALSE)
        BY <2>1, <3>1, Orders DEF With, r
      <4> QED BY <2>4, <3>1, <4>1 DEF Unnoticed
    <3>2. CASE r \in {"watchdog", "logger"}
      BY <2>1, <3>2
    <3> QED BY <3>1, <3>2
  <2>11. stage' \in 1 .. 7 /\ pc' \in {"cleanup", "exited", "crashed"}
    BY <2>1, <2>2
  <2>12. pc' = "cleanup" => stage # 7 /\ stage' = stage + 1
    BY <2>2
  <2>13. TypeOK'
    <3>1. has' \subseteq Resources /\ open' \subseteq Resources /\ misused' \subseteq Resources
      BY <2>2 DEF TypeOK
    <3>2. stage' \in 1 .. Len(Releasing)
      BY <2>11, Orders
    <3> QED BY <1>13, <2>11, <3>1, <3>2 DEF Release, TypeOK, peerVars
  <2>14. Ownership'
    <3>1. open' \subseteq has' /\ has' \subseteq open' \cup Unnoticed /\ misused' \subseteq Unnoticed
      BY <2>2, <2>4 DEF Ownership
    <3>2. pc' = "cleanup" => "logger" \in has'
      BY <2>1, <2>2, <2>3, <2>12 DEF Ownership, Ended
    <3>3. pc' = "cleanup" => \A j \in 1 .. stage' - 1 : Releasing[j] \notin has'
      <4>1. pc' = "cleanup" => stage' - 1 = stage
        BY <2>1, <2>12
      <4> QED BY <2>6, <4>1
    <3>4. pc' \in {"exited", "crashed"} => has' \subseteq {"logger"}
      BY <2>2, <2>8, <2>10
    <3>5. pc' = "exited" => has' = {}
      BY <2>2, <2>9
    <3>6. pc' = "crashed" => misused' # {}
      BY <2>2
    <3> QED
      BY <2>7, <2>11, <3>1, <3>2, <3>3, <3>4, <3>5, <3>6 DEF Ownership, InLoop, Ended
  <2> QED
    BY <1>13, <2>11, <2>13, <2>14 DEF Release, Progress, ConfigFirst, Ended
<1>14. CASE UNCHANGED vars
  BY <1>14 DEF vars, mainVars, peerVars, TypeOK, Ownership, InLoop, Ended, Progress,
               ConfigFirst
<1> QED
  BY <1>1, <1>2, <1>3, <1>4, <1>5, <1>6, <1>7, <1>8, <1>9, <1>10, <1>11, <1>12,
     <1>13, <1>14
  DEF Next, Main

(* The inductive invariant holds of every reachable state. *)
LEMMA ServerInvariant == Spec => []ServerInv
BY ServerInit, ServerNext, PTL DEF Spec

-----------------------------------------------------------------------------
(* The theorems *)

(* The variables of main keep their types: the position in the file, and   *)
(* the way through startup and cleanup, stay within their ranges.          *)
THEOREM ServerTypeCorrect == Spec => []TypeOK
<1>1. ServerInv => TypeOK
  BY DEF ServerInv
<1> QED
  BY <1>1, ServerInvariant, PTL

(* The poll loop sends a configuration of any length once and in order,    *)
(* before the first command of a client.                                   *)
THEOREM ServerConfiguresFirst == Spec => []ConfigFirst
<1>1. ServerInv => ConfigFirst
  BY DEF ServerInv
<1> QED
  BY <1>1, ServerInvariant, PTL

(* On every way out main releases what it has opened, and nothing twice    *)
(* but what failed unnoticed at startup, which alone can end it early.     *)
THEOREM ServerExitsClean == Spec => []CleanExit
<1>1. ServerInv => CleanExit
  BY DEF ServerInv, Ownership, Ended, Unnoticed, CleanExit
<1> QED
  BY <1>1, ServerInvariant, PTL

(* main stops the watchdog's thread, which logs, before the logger.        *)
THEOREM ServerStopsLoggerLast == Spec => []LoggerLast
<1>1. ServerInv => LoggerLast
  BY DEF ServerInv, Ownership, Ended, LoggerLast
<1> QED
  BY <1>1, ServerInvariant, PTL

(***************************************************************************)
(* The watchdog                                                            *)
(***************************************************************************)

(* The last reset is long ago *)
Spaced ==
  \/ sinceReset > Timeout + HoldOff
  \/ silence =< sinceReset /\ sinceReset > Timeout

(* The heart beat, whoever wrote it last, is no older than main's silence  *)
(* and, but for the moment between a pulse and its hold-off, no older than *)
(* the last reset, and than that less the hold-off if main has been silent *)
(* since; and a decision to reset stays justified until it is carried out. *)
(* A clock that was set breaks all of them.                                *)
Ages ==
  clockSet \/ /\ -HoldOff =< age /\ age =< silence
              /\ monitor = "hold" \/ age =< sinceReset
              /\ \/ monitor = "hold" \/ silence =< sinceReset
                 \/ sinceReset > Timeout + HoldOff \/ age + HoldOff =< sinceReset
              /\ monitor = "low" => Spaced

(* Which thread is where, and what it holds: main frees the line only when *)
(* the monitor has ended, and the monitor ends only with the line high or  *)
(* not there.                                                              *)
Roles ==
  /\ wdtRunning <=> main = "up"
  /\ main = "off" <=> monitor = "off"
  /\ main = "stopped" => monitor = "done" /\ \A h \in Handles : handles[h] # "live"
  /\ monitor = "done" => main \in {"joining", "stopped"}
  /\ line = "low" => monitor = "pulse" /\ handles[Request] = "live"

(* What a start leaves: the line and every handle, or no line. *)
LineWhole ==
  /\ main # "stopped" => twice = {}
  /\ line # "none" /\ main # "stopped" =>
       \A h \in Handles : handles[h] = "live"
  /\ main = "stopped" /\ line = "high" => twice = {}

WatchdogInv == WatchdogTypeOK /\ Ages /\ Roles /\ LineWhole

-----------------------------------------------------------------------------
(* The numbers *)

LEMMA CapFacts == Cap \in Nat /\ Cap > Timeout /\ Cap > HoldOff + MaxSet
BY WatchdogAssumption DEF Cap

(* An age grows by a tick until the cap, and order is kept. *)
LEMMA LaterFacts ==
  ASSUME NEW a \in Int, NEW b \in Int, a =< b, b =< Cap
  PROVE  /\ Later(a) \in Int /\ a =< Later(a) /\ Later(a) =< Cap
         /\ Later(a) =< Later(b)
BY CapFacts DEF Later

LEMMA WatchdogStarts == WatchdogInit => WatchdogInv
<1> SUFFICES ASSUME WatchdogInit PROVE WatchdogInv
  OBVIOUS
<1> USE DEF WatchdogInit
<1>1. WatchdogTypeOK
  <2>1. /\ age \in -(HoldOff + MaxSet) .. Cap /\ timer \in Nat
        /\ silence \in 0 .. Cap /\ sinceReset \in 0 .. Cap
    BY CapFacts, WatchdogAssumption
  <2>2. /\ handles \in [Handles -> {"null", "live", "freed"}]
        /\ (line = "none" <=> handles[Request] = "null")
    BY DEF Handles, Request
  <2>3. twice \subseteq Handles
    OBVIOUS
  <2> QED
    BY <2>1, <2>2, <2>3 DEF WatchdogTypeOK
<1>2. Ages
  BY CapFacts, WatchdogAssumption DEF Ages
<1>3. Roles /\ LineWhole
  BY DEF Roles, LineWhole, Handles, Request
<1> QED
  BY <1>1, <1>2, <1>3 DEF WatchdogInv

(* One step per action; under it one per conjunct the action can disturb. *)
LEMMA WatchdogSteps == WatchdogInv /\ [WatchdogNext]_watchdogVars => WatchdogInv'
<1> SUFFICES ASSUME WatchdogInv, [WatchdogNext]_watchdogVars
             PROVE  WatchdogInv'
  OBVIOUS
<1> USE DEF WatchdogInv
<1>0. /\ age \in Int /\ silence \in Int /\ sinceReset \in Int
      /\ age =< Cap /\ silence =< Cap /\ sinceReset =< Cap
      /\ 0 =< silence /\ 0 =< sinceReset
  BY CapFacts, WatchdogAssumption DEF WatchdogTypeOK
<1>1. ASSUME Tick
      PROVE  WatchdogInv'
  <2>1. /\ Later(age) \in Int /\ age =< Later(age) /\ Later(age) =< Cap
        /\ Later(silence) \in Int /\ silence =< Later(silence) /\ Later(silence) =< Cap
        /\ Later(sinceReset) \in Int /\ sinceReset =< Later(sinceReset)
        /\ Later(sinceReset) =< Cap
    BY <1>0, LaterFacts
  <2>2. /\ age =< silence => Later(age) =< Later(silence)
        /\ age =< sinceReset => Later(age) =< Later(sinceReset)
    BY <1>0, LaterFacts
  <2>3. WatchdogTypeOK'
    BY <1>0, <1>1, <2>1, CapFacts, WatchdogAssumption DEF Tick, WatchdogTypeOK
  <2>4. Ages'
    <3>1. /\ age' = Later(age) /\ silence' = Later(silence) /\ sinceReset' = Later(sinceReset)
          /\ UNCHANGED <<clockSet, monitor>>
      BY <1>1 DEF Tick
    <3>2. silence =< sinceReset => Later(silence) =< Later(sinceReset)
      BY <1>0, LaterFacts
    <3>3. sinceReset > Timeout + HoldOff => Later(sinceReset) > Timeout + HoldOff
      BY <1>0, <2>1, WatchdogAssumption
    <3>4. age + HoldOff =< sinceReset /\ ~(sinceReset > Timeout + HoldOff)
            => Later(age) + HoldOff =< Later(sinceReset)
      BY <1>0, WatchdogAssumption DEF Later, Cap
    <3>5. Spaced => Spaced'
      BY <1>0, <2>1, <3>1, <3>2, <3>3, WatchdogAssumption DEF Spaced
    <3>6. ~clockSet => /\ -HoldOff =< age' /\ age' =< silence'
                       /\ monitor' = "hold" \/ age' =< sinceReset'
      BY <1>0, <2>1, <2>2, <3>1, WatchdogAssumption DEF Ages
    <3>7. ~clockSet => \/ monitor' = "hold" \/ silence' =< sinceReset'
                       \/ sinceReset' > Timeout + HoldOff \/ age' + HoldOff =< sinceReset'
      BY <3>1, <3>2, <3>3, <3>4 DEF Ages
    <3> QED BY <3>1, <3>5, <3>6, <3>7 DEF Ages
  <2> QED
    BY <1>1, <2>3, <2>4 DEF Tick, Roles, LineWhole
<1>2. ASSUME SetClock
      PROVE  WatchdogInv'
  <2>1. age' \in -(HoldOff + MaxSet) .. Cap
    BY <1>0, <1>2, CapFacts, WatchdogAssumption DEF SetClock, Ages
  <2>2. WatchdogTypeOK'
    BY <1>2, <2>1 DEF SetClock, WatchdogTypeOK
  <2> QED
    BY <1>2, <2>2 DEF SetClock, Ages, Roles, LineWhole
<1>3. ASSUME Start
      PROVE  WatchdogInv'
  <2> PICK n \in 0 .. Request :
        /\ handles' = Configured(n)
        /\ line' = IF n = Request THEN "high" ELSE "none"
    BY <1>3 DEF Start
  <2>1. handles' \in [Handles -> {"null", "live", "freed"}]
    BY DEF Configured
  <2>2. n = Request => \A h \in Handles : handles'[h] = "live"
    BY DEF Configured, Handles, Request
  <2>3. handles'[Request] = IF n = Request THEN "live" ELSE "null"
    BY DEF Configured, Handles, Request
  <2>4. WatchdogTypeOK'
    BY <1>3, <2>1, <2>3, CapFacts, WatchdogAssumption DEF Start, WatchdogTypeOK
  <2>5. Ages'
    BY <1>0, <1>3, WatchdogAssumption DEF Start, Ages
  <2>6. Roles'
    BY <1>3 DEF Start, Roles
  <2>7. LineWhole'
    BY <1>3, <2>2 DEF Start, LineWhole
  <2> QED
    BY <2>4, <2>5, <2>6, <2>7
<1>4. ASSUME Feed
      PROVE  WatchdogInv'
  <2>1. WatchdogTypeOK'
    BY <1>4, CapFacts, WatchdogAssumption DEF Feed, WatchdogTypeOK
  <2>2. Ages'
    BY <1>0, <1>4, WatchdogAssumption DEF Feed, Ages, Spaced
  <2> QED
    BY <1>4, <2>1, <2>2 DEF Feed, Roles, LineWhole
<1>5. ASSUME StopSignal
      PROVE  WatchdogInv'
  <2>1. WatchdogTypeOK'
    BY <1>5 DEF StopSignal, WatchdogTypeOK
  <2>2. Roles'
    BY <1>5 DEF StopSignal, Roles
  <2> QED
    BY <1>5, <2>1, <2>2 DEF StopSignal, Ages, Spaced, LineWhole
<1>6. ASSUME StopRelease
      PROVE  WatchdogInv'
  <2>1. \A h \in Handles : handles'[h] = IF handles[h] = "null" THEN "null" ELSE "freed"
    BY <1>6 DEF StopRelease
  <2>2. handles' \in [Handles -> {"null", "live", "freed"}]
        /\ (handles'[Request] = "null" <=> handles[Request] = "null")
    BY <1>6 DEF StopRelease, Handles, Request
  <2>3. twice' \subseteq Handles
    BY <1>6 DEF StopRelease, WatchdogTypeOK
  <2>4. WatchdogTypeOK'
    BY <1>6, <2>2, <2>3 DEF StopRelease, WatchdogTypeOK
  <2>5. Roles'
    BY <1>6, <2>1 DEF StopRelease, Joined, Roles
  <2>6. LineWhole'
    BY <1>6 DEF StopRelease, LineWhole
  <2> QED
    BY <1>6, <2>4, <2>5, <2>6 DEF StopRelease, Ages, Spaced
<1>7. ASSUME LoopTest
      PROVE  WatchdogInv'
  <2>1. WatchdogTypeOK'
    BY <1>7, WatchdogAssumption DEF LoopTest, WatchdogTypeOK
  <2>2. Ages'
    BY <1>7 DEF LoopTest, Ages
  <2>3. Roles'
    BY <1>7 DEF LoopTest, KeepRunning, Roles, WatchdogTypeOK
  <2> QED
    BY <1>7, <2>1, <2>2, <2>3 DEF LoopTest, LineWhole
<1>8. ASSUME Check
      PROVE  WatchdogInv'
  <2>1. WatchdogTypeOK'
    BY <1>8 DEF Check, WatchdogTypeOK
  <2>2. Ages'
    BY <1>0, <1>8, WatchdogAssumption DEF Check, Expired, Ages, Spaced
  <2>3. Roles'
    BY <1>8 DEF Check, Roles
  <2> QED
    BY <1>8, <2>1, <2>2, <2>3 DEF Check, LineWhole
<1>9. ASSUME PullLow
      PROVE  WatchdogInv'
  <2>1. WatchdogTypeOK'
    BY <1>9, WatchdogAssumption DEF PullLow, Written, WatchdogTypeOK
  <2>2. Ages'
    BY <1>9 DEF PullLow, Ages
  <2>3. Roles'
    BY <1>9 DEF PullLow, Written, Roles
  <2>4. LineWhole'
    BY <1>9 DEF PullLow, Written, LineWhole, Roles, WatchdogTypeOK
  <2> QED
    BY <2>1, <2>2, <2>3, <2>4
<1>10. ASSUME ReleaseHigh
       PROVE  WatchdogInv'
  <2>1. WatchdogTypeOK'
    BY <1>10, CapFacts DEF ReleaseHigh, Written, WatchdogTypeOK
  <2>2. Ages'
    BY <1>10 DEF ReleaseHigh, Ages
  <2>3. Roles'
    BY <1>10 DEF ReleaseHigh, Written, Roles
  <2>4. LineWhole'
    BY <1>10 DEF ReleaseHigh, Written, LineWhole, Roles, WatchdogTypeOK
  <2> QED
    BY <2>1, <2>2, <2>3, <2>4
<1>11. ASSUME Hold
       PROVE  WatchdogInv'
  <2>1. WatchdogTypeOK'
    BY <1>11, CapFacts, WatchdogAssumption DEF Hold, Held, WatchdogTypeOK
  <2>2. Ages'
    BY <1>0, <1>11, WatchdogAssumption DEF Hold, Held, Ages
  <2>3. Roles'
    BY <1>11 DEF Hold, Roles
  <2> QED
    BY <1>11, <2>1, <2>2, <2>3 DEF Hold, LineWhole
<1>12. CASE UNCHANGED watchdogVars
  BY <1>12 DEF watchdogVars, WatchdogTypeOK, Ages, Spaced, Roles, LineWhole
<1> QED
  BY <1>1, <1>2, <1>3, <1>4, <1>5, <1>6, <1>7, <1>8, <1>9, <1>10, <1>11, <1>12
  DEF WatchdogNext, Monitor

(* The inductive invariant holds of every reachable state. *)
LEMMA WatchdogInvariant == WatchdogSpec => []WatchdogInv
BY WatchdogStarts, WatchdogSteps, PTL DEF WatchdogSpec

-----------------------------------------------------------------------------
(* The theorems *)

(* The variables of watchdog.c keep their types: in particular the line is *)
(* driven only when it was obtained, and ages stay within their range.     *)
THEOREM WatchdogTypeCorrect == WatchdogSpec => []WatchdogTypeOK
<1>1. WatchdogInv => WatchdogTypeOK
  BY DEF WatchdogInv
<1> QED
  BY <1>1, WatchdogInvariant, PTL

(* When watchdog_stop has returned the line is not low, whatever the       *)
(* monitor was doing, and nothing is released twice if the line was there. *)
THEOREM WatchdogStopsClean == WatchdogSpec => []CleanStop
<1>1. WatchdogInv => CleanStop
  BY DEF WatchdogInv, Roles, LineWhole, CleanStop
<1> QED
  BY <1>1, WatchdogInvariant, PTL

(* _watchdog_monitor decides to reset only a radar that main has not heard *)
(* for longer than the timeout, unless the clock was set.                  *)
THEOREM WatchdogJustified == WatchdogSpec => ResetJustified
<1>1. WatchdogInv /\ [WatchdogNext]_watchdogVars =>
        [Check /\ monitor' = "low" => silence > Timeout \/ clockSet]_watchdogVars
  <2> SUFFICES ASSUME WatchdogInv, Check, monitor' = "low"
               PROVE  silence > Timeout \/ clockSet
    OBVIOUS
  <2>1. age > Timeout
    BY DEF Check, Expired
  <2>2. age \in Int /\ silence \in Int
    BY CapFacts, WatchdogAssumption DEF WatchdogInv, WatchdogTypeOK
  <2> QED
    BY <2>1, <2>2, WatchdogAssumption DEF WatchdogInv, Ages
<1> QED
  BY <1>1, WatchdogInvariant, PTL DEF WatchdogSpec, ResetJustified

(* A silent radar is left alone for the hold-off and the timeout after a   *)
(* pulse, one that spoke for the timeout, though main and the monitor      *)
(* overwrite one heart beat - unless the clock was set.                    *)
THEOREM WatchdogSpaced == WatchdogSpec => SpacedResets
<1>1. WatchdogInv /\ [WatchdogNext]_watchdogVars =>
        [line = "high" /\ line' = "low" => clockSet \/ Spaced]_watchdogVars
  <2> SUFFICES ASSUME WatchdogInv, WatchdogNext, line = "high", line' = "low"
               PROVE  clockSet \/ Spaced
    OBVIOUS
  <2>1. CASE PullLow
    BY <2>1 DEF PullLow, WatchdogInv, Ages
  <2>2. ~Start /\ ~ReleaseHigh
    BY DEF Start, ReleaseHigh, Written
  <2>3. ~Tick /\ ~SetClock /\ ~Feed /\ ~StopSignal /\ ~StopRelease
    BY DEF Tick, SetClock, Feed, StopSignal, StopRelease
  <2>4. ~LoopTest /\ ~Check /\ ~Hold
    BY DEF LoopTest, Check, Hold
  <2> QED
    BY <2>1, <2>2, <2>3, <2>4 DEF WatchdogNext, Monitor
<1> QED
  BY <1>1, WatchdogInvariant, PTL DEF WatchdogSpec, SpacedResets, Spaced

(***************************************************************************)
(* The process                                                             *)
(***************************************************************************)

(* How the two parts stand to each other: main's variable says whether it  *)
(* has the watchdog, from the end of startup to watchdog_stop's return,    *)
(* and it waits in watchdog_stop only in cleanup.                          *)
Together ==
  /\ main = "off" <=> pc \in {"logger", "watchdog"}
  /\ main \in {"up", "joining"} <=> "watchdog" \in has
  /\ pc = "open" \/ InLoop => "watchdog" \in has
  /\ main = "joining" => AtWatchdog

ProcessInv == ServerInv /\ WatchdogInv /\ Together

(* Every step of the process is a step of main, or one it does not take    *)
(* part in; and the same for the watchdog.                                 *)
LEMMA StepOfServer == [ProcessNext]_processVars => [Next]_vars
BY DEF ProcessNext, processVars, ProcessMain, StartsWatchdog, Reads, TellsWatchdog,
       JoinsWatchdog, MainAlone, Outside, Next, Main

LEMMA StepOfWatchdog == [ProcessNext]_processVars => [WatchdogNext]_watchdogVars
BY DEF ProcessNext, processVars, ProcessMain, StartsWatchdog, Reads, TellsWatchdog,
       JoinsWatchdog, WatchdogNext

LEMMA ProcessStarts == ProcessInit => ProcessInv
<1> SUFFICES ASSUME ProcessInit PROVE ProcessInv
  OBVIOUS
<1>1. ServerInv /\ WatchdogInv
  BY ServerInit, WatchdogStarts DEF ProcessInit
<1>2. Together
  BY DEF ProcessInit, Init, WatchdogInit, Together, InLoop
<1> QED
  BY <1>1, <1>2 DEF ProcessInv

(* A step of main alone neither starts nor stops the watchdog. *)
LEMMA MainAloneKeeps ==
  ASSUME ServerInv, MainAlone
  PROVE  /\ "watchdog" \in has' <=> "watchdog" \in has
         /\ pc' \in {"logger", "watchdog"} <=> pc \in {"logger", "watchdog"}
         /\ AtWatchdog => AtWatchdog'
         /\ pc' = "open" \/ InLoop' => pc = "open" \/ InLoop
<1>1. CASE StartLogger
  BY <1>1 DEF StartLogger, AtWatchdog, InLoop
<1>2. CASE Open
  <2>1. Opening[stage] # "watchdog" /\ pc = "open"
    BY <1>2, Orders DEF Open, ServerInv, Ownership
  <2> QED
    BY <1>2, <2>1 DEF Open, AtWatchdog, InLoop
<1>3. CASE LoopEnds \/ NoConfigStep \/ EndOfConfig \/ Poll
  BY <1>3 DEF LoopEnds, NoConfigStep, EndOfConfig, Poll, AtWatchdog, InLoop
<1>4. CASE SendConfigLine
  BY <1>4 DEF SendConfigLine, Cleared, AtWatchdog, InLoop
<1>5. CASE Accept \/ ServeClient
  BY <1>5 DEF Accept, ServeClient, ClientClosed, AtWatchdog, InLoop
<1>6. CASE ~AtWatchdog /\ Release
  <2>1. pc = "cleanup" /\ pc' \in {"cleanup", "exited", "crashed"}
    BY <1>6 DEF Release
  <2>2. has' = has \ (has \cap With(Releasing[stage]))
    BY <1>6 DEF Release
  <2>3. "watchdog" \in has' <=> "watchdog" \in has
    BY <1>6, <2>1, <2>2 DEF AtWatchdog, With
  <2> QED
    BY <1>6, <2>1, <2>3 DEF InLoop
<1> QED
  BY <1>1, <1>2, <1>3, <1>4, <1>5, <1>6 DEF MainAlone

LEMMA ProcessSteps == ProcessInv /\ [ProcessNext]_processVars => ProcessInv'
<1> SUFFICES ASSUME ProcessInv, [ProcessNext]_processVars
             PROVE  ProcessInv'
  OBVIOUS
<1>1. ServerInv' /\ WatchdogInv'
  BY StepOfServer, StepOfWatchdog, ServerNext, WatchdogSteps DEF ProcessInv
<1>2. Together /\ ServerInv /\ WatchdogInv
  BY DEF ProcessInv
<1>3. ASSUME StartsWatchdog PROVE Together'
  BY <1>2, <1>3 DEF StartsWatchdog, StartWatchdog, Start, Together, InLoop, AtWatchdog
<1>4. ASSUME Reads PROVE Together'
  <2>1. main' = main
    BY <1>4 DEF Reads, Feed, watchdogVars
  <2>2. pc \in {"fd1", "fd2"} /\ pc' \in {"fd2", "loop"}
    BY <1>4 DEF Reads, ServeSerial
  <2>3. "watchdog" \in has' <=> "watchdog" \in has
    BY <1>4 DEF Reads, ServeSerial, ClientClosed
  <2> QED
    BY <1>2, <2>1, <2>2, <2>3 DEF Together, InLoop, AtWatchdog
<1>5. ASSUME TellsWatchdog PROVE Together'
  <2>1. UNCHANGED <<pc, stage, has>> /\ AtWatchdog
    BY <1>5 DEF TellsWatchdog, vars, mainVars
  <2>2. main = "up" /\ main' = "joining"
    BY <1>5 DEF TellsWatchdog, StopSignal
  <2> QED
    BY <1>2, <2>1, <2>2 DEF Together, InLoop, AtWatchdog
<1>6. ASSUME JoinsWatchdog PROVE Together'
  <2>1. pc = "cleanup" /\ pc' \in {"cleanup", "exited", "crashed"}
    BY <1>6 DEF JoinsWatchdog, Release
  <2>2. "watchdog" \notin has'
    BY <1>6 DEF JoinsWatchdog, AtWatchdog, Release, With
  <2>3. main' = "stopped"
    BY <1>6 DEF JoinsWatchdog, StopRelease
  <2> QED
    BY <2>1, <2>2, <2>3 DEF Together, InLoop
<1>7. ASSUME MainAlone /\ UNCHANGED watchdogVars PROVE Together'
  <2>1. main' = main
    BY <1>7 DEF watchdogVars
  <2> QED
    BY <1>2, <1>7, <2>1, MainAloneKeeps DEF Together
<1>8. ASSUME Outside /\ UNCHANGED watchdogVars PROVE Together'
  <2>1. UNCHANGED <<pc, stage, has, main>>
    BY <1>8 DEF Outside, Signal, Elapse, Connect, Type, HangUp, mainVars, watchdogVars
  <2> QED
    BY <1>2, <2>1 DEF Together, InLoop, AtWatchdog
<1>9. ASSUME (Monitor \/ Tick \/ SetClock) /\ UNCHANGED vars PROVE Together'
  <2>1. UNCHANGED <<pc, stage, has, main>>
    BY <1>9 DEF Monitor, LoopTest, Check, PullLow, ReleaseHigh, Hold, Tick, SetClock,
       vars, mainVars
  <2> QED
    BY <1>2, <2>1 DEF Together, InLoop, AtWatchdog
<1>10. ASSUME UNCHANGED processVars PROVE Together'
  <2>1. UNCHANGED <<pc, stage, has, main>>
    BY <1>10 DEF processVars, vars, mainVars, watchdogVars
  <2> QED
    BY <1>2, <2>1 DEF Together, InLoop, AtWatchdog
<1>11. Together'
  BY <1>3, <1>4, <1>5, <1>6, <1>7, <1>8, <1>9, <1>10 DEF ProcessNext, ProcessMain
<1> QED
  BY <1>1, <1>11 DEF ProcessInv

LEMMA ProcessInvariant == ProcessSpec => []ProcessInv
BY ProcessStarts, ProcessSteps, PTL DEF ProcessSpec

(* The process does with the radar and its clients what main does alone:   *)
(* the threads hold up its steps, and add none.                            *)
LEMMA ProcessIsServer == ProcessSpec => Init /\ [][Next]_vars
<1>1. ProcessInit => Init
  BY DEF ProcessInit
<1> QED
  BY <1>1, StepOfServer, PTL DEF ProcessSpec

(* main calls watchdog_start, watchdog_feed and watchdog_stop in the order *)
(* module Watchdog leaves open, so that what is shown of the watchdog for  *)
(* any caller holds in the server.                                         *)
LEMMA ProcessIsWatchdog == ProcessSpec => WatchdogInit /\ [][WatchdogNext]_watchdogVars
<1>1. ProcessInit => WatchdogInit
  BY DEF ProcessInit
<1> QED
  BY <1>1, StepOfWatchdog, PTL DEF ProcessSpec

(* The watchdog main feeds from its loop has been started and not been     *)
(* told to stop: a read of main is never held up by it.                    *)
FeedsWhatRuns == pc \in {"fd1", "fd2"} => main = "up"

THEOREM ProcessFeedsWhatRuns == ProcessSpec => []FeedsWhatRuns
<1>1. ProcessInv => FeedsWhatRuns
  BY DEF ProcessInv, Together, InLoop, AtWatchdog, FeedsWhatRuns
<1> QED
  BY <1>1, ProcessInvariant, PTL

(* Whatever ends the server, and wherever the monitor is then, it ends     *)
(* before the logger and the process do, with the line high or not there.  *)
THEOREM ProcessMonitorEndsFirst == ProcessSpec => []MonitorEndsFirst
<1>1. ASSUME ProcessInv, monitor \notin {"off", "done"}
      PROVE  "logger" \in has
  <2>1. main \in {"up", "joining"}
    BY <1>1 DEF ProcessInv, WatchdogInv, WatchdogTypeOK, Roles
  <2>2. "watchdog" \in has
    BY <1>1, <2>1 DEF ProcessInv, Together
  <2> QED
    BY <1>1, <2>2 DEF ProcessInv, ServerInv, Ownership
<1>2. ASSUME ProcessInv, Ended
      PROVE  monitor = "done" /\ line # "low"
  <2>1. "watchdog" \notin has /\ pc \notin {"logger", "watchdog"}
    BY <1>2 DEF ProcessInv, ServerInv, Ownership, Ended
  <2>2. main = "stopped"
    BY <1>2, <2>1 DEF ProcessInv, Together, WatchdogInv, WatchdogTypeOK
  <2> QED
    BY <1>2, <2>2 DEF ProcessInv, WatchdogInv, Roles
<1>3. ProcessInv => MonitorEndsFirst
  BY <1>1, <1>2 DEF MonitorEndsFirst, Ended
<1> QED
  BY <1>3, ProcessInvariant, PTL
=============================================================================
