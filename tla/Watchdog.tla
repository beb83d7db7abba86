------------------------------ MODULE Watchdog ------------------------------
(***************************************************************************)
(* The hardware watchdog (server-parser/watchdog.c): main feeds it with    *)
(* every serial read, a monitor thread compares the time of the last feed  *)
(* with the timeout every 100 ms and pulls the radar's reset line low for  *)
(* 100 ms.  Time passes in ticks.  The times the code keeps absolute are   *)
(* kept as ages, since only differences count; an age is capped where no   *)
(* comparison can tell it from a greater one.  The wall clock the code     *)
(* reads may be set.                                                       *)
(***************************************************************************)
EXTENDS Integers, Sequences

CONSTANTS
  Timeout,   \* ticks: wdt->timeout
  HoldOff,   \* ticks: the 3 s added to last_heartbeat after a reset
  CheckGap,  \* ticks: the monitor's usleep
  Pulse,     \* ticks: the usleep with the line low
  MaxSet     \* bound: ticks by which the clock is set, once

ASSUME WatchdogAssumption ==
  /\ Timeout \in Nat /\ HoldOff \in Nat /\ MaxSet \in Nat
  /\ CheckGap \in Nat /\ Pulse \in Nat

VARIABLES
  main,      \* off, up, joining (in watchdog_stop), stopped
  wdtRunning,\* wdt->running
  age,       \* the clock less wdt->last_heartbeat
  monitor,   \* where the monitor stands
  timer,     \* what is left of its usleep
  line,      \* the reset line: none (no request), high, low
  handles    \* chip, settings, line_cfg, req_cfg, request: null, live, freed

(* History *)
VARIABLES
  silence,   \* ticks since main last fed, or started, the watchdog
  sinceReset,\* ticks since the last reset ended; at the cap before the first
  clockSet,  \* the clock has been set
  twice      \* handles that were released when released already

watchdogVars == <<main, wdtRunning, age, monitor, timer, line, handles,
          silence, sinceReset, clockSet, twice>>

(* The handles in the order they are obtained *)
Handles == 1 .. 5
Chip == 1
Request == 5

Cap == Timeout + HoldOff + MaxSet + 1
Later(t) == IF t < Cap THEN t + 1 ELSE t

WatchdogInit ==
  /\ main = "off" /\ wdtRunning = FALSE /\ age = 0 /\ monitor = "off" /\ timer = 0
  /\ line = "none" /\ handles = [h \in Handles |-> "null"]
  /\ silence = 0 /\ sinceReset = Cap /\ clockSet = FALSE /\ twice = {}

-----------------------------------------------------------------------------
(* Time *)

Tick ==
  /\ age' = Later(age) /\ silence' = Later(silence) /\ sinceReset' = Later(sinceReset)
  /\ timer' = IF timer > 0 THEN timer - 1 ELSE 0
  /\ UNCHANGED <<main, wdtRunning, monitor, line, handles, clockSet, twice>>

(* gettimeofday is the wall clock: NTP or a user may set it *)
SetClock ==
  /\ ~clockSet /\ clockSet' = TRUE
  /\ \E d \in {-MaxSet, MaxSet} :
       age' = IF age + d > Cap THEN Cap ELSE age + d
  /\ UNCHANGED <<main, wdtRunning, monitor, timer, line, handles, silence, sinceReset, twice>>

-----------------------------------------------------------------------------
(* main *)

(* _gpio_export and _gpio_config when the first n handles were obtained:   *)
(* a later failure frees those that were, but the chip, and leaves the     *)
(* globals pointing at them.                                               *)
Configured(n) ==
  [h \in Handles |-> IF h > n THEN "null"
                     ELSE IF h = Chip \/ n = Request THEN "live" ELSE "freed"]

(* watchdog_start, which succeeds whatever became of the GPIO *)
Start ==
  /\ main = "off"
  /\ \E n \in 0 .. Request :
       /\ handles' = Configured(n)
       /\ line' = IF n = Request THEN "high" ELSE "none"
  /\ main' = "up" /\ wdtRunning' = TRUE
  /\ age' = 0 /\ silence' = 0
  /\ monitor' = "test"
  /\ UNCHANGED <<timer, sinceReset, clockSet, twice>>

(* watchdog_feed *)
Feed ==
  /\ main = "up"
  /\ age' = 0
  /\ silence' = 0
  /\ UNCHANGED <<main, wdtRunning, monitor, timer, line, handles, sinceReset, clockSet, twice>>

(* watchdog_stop up to the join *)
StopSignal ==
  /\ main = "up"
  /\ main' = "joining" /\ wdtRunning' = FALSE
  /\ UNCHANGED <<age, monitor, timer, line, handles, silence, sinceReset, clockSet, twice>>

(* Mutant: the join is left out *)
NotJoined == TRUE

Joined == monitor = "done"

(* The join, and the release of everything that is not NULL *)
StopRelease ==
  /\ main = "joining" /\ Joined
  /\ main' = "stopped"
  /\ handles' = [h \in Handles |-> IF handles[h] = "null" THEN "null" ELSE "freed"]
  /\ twice' = twice \cup {h \in Handles : handles[h] = "freed"}
  /\ UNCHANGED <<wdtRunning, age, monitor, timer, line, silence, sinceReset, clockSet>>

-----------------------------------------------------------------------------
(* _watchdog_monitor *)

(* Mutant: a monitor that is never told to end *)
Forever == TRUE

KeepRunning == wdtRunning

LoopTest ==
  /\ monitor = "test"
  /\ IF KeepRunning THEN monitor' = "sleep" /\ timer' = CheckGap
                    ELSE monitor' = "done" /\ UNCHANGED timer
  /\ UNCHANGED <<main, wdtRunning, age, line, handles, silence, sinceReset, clockSet, twice>>

(* Mutant: a feed that is exactly as old as it may be is too old *)
Early == age >= Timeout

Expired == age > Timeout

(* The critical section that reads the age, and the decision *)
Check ==
  /\ monitor = "sleep" /\ timer = 0
  /\ monitor' = IF Expired THEN "low" ELSE "test"
  /\ UNCHANGED <<main, wdtRunning, age, timer, line, handles, silence, sinceReset,
                 clockSet, twice>>

(* Mutant: the line is taken for active low: the reset makes it high *)
NeverLow(level) == IF handles[Request] = "live" THEN "high" ELSE line

(* _gpio_write *)
Written(level) == IF handles[Request] = "live" THEN level ELSE line

PullLow ==
  /\ monitor = "low"
  /\ line' = Written("low")
  /\ monitor' = "pulse" /\ timer' = Pulse
  /\ UNCHANGED <<main, wdtRunning, age, handles, silence, sinceReset, clockSet, twice>>

ReleaseHigh ==
  /\ monitor = "pulse" /\ timer = 0
  /\ line' = Written("high")
  /\ sinceReset' = 0
  /\ monitor' = "hold"
  /\ UNCHANGED <<main, wdtRunning, age, timer, handles, silence, clockSet, twice>>

(* Mutant: the heart beat is left as old as it is *)
NoHold == age

(* The age of last_heartbeat after a reset *)
Held == -HoldOff

Hold ==
  /\ monitor = "hold"
  /\ age' = Held
  /\ monitor' = "test"
  /\ UNCHANGED <<main, wdtRunning, timer, line, handles, silence, sinceReset, clockSet, twice>>

Monitor == LoopTest \/ Check \/ PullLow \/ ReleaseHigh \/ Hold

WatchdogNext == Tick \/ SetClock \/ Start \/ Feed \/ StopSignal \/ StopRelease \/ Monitor

(* Time passes, the scheduler runs the monitor, and main, once it is in    *)
(* watchdog_stop, carries on.  Whether main feeds or stops is left open.   *)
WatchdogSpec == WatchdogInit /\ [][WatchdogNext]_watchdogVars /\ WF_watchdogVars(Tick) /\ WF_watchdogVars(Monitor) /\ WF_watchdogVars(StopRelease)

-----------------------------------------------------------------------------
WatchdogTypeOK ==
  /\ main \in {"off", "up", "joining", "stopped"} /\ wdtRunning \in BOOLEAN
  /\ age \in -(HoldOff + MaxSet) .. Cap
  /\ monitor \in {"off", "test", "sleep", "low", "pulse", "hold", "done"}
  /\ timer \in Nat
  /\ line \in {"none", "high", "low"}
  /\ line = "none" <=> handles[Request] = "null"
  /\ handles \in [Handles -> {"null", "live", "freed"}]
  /\ silence \in 0 .. Cap /\ sinceReset \in 0 .. Cap
  /\ clockSet \in BOOLEAN /\ twice \subseteq Handles

(* The monitor decides to reset only when main has not fed it for longer   *)
(* than the timeout, whichever way feeds and hold-offs overwrote the heart *)
(* beat - unless the clock was set.                                        *)
ResetJustified ==
  [][Check /\ monitor' = "low" => silence > Timeout \/ clockSet]_watchdogVars

(* A radar that stays silent after a reset is left alone for the hold-off  *)
(* and the timeout before the next: the hold-off is not lost to a check    *)
(* that was under way.  One that spoke, and so took the hold-off back, is  *)
(* left alone for the timeout - unless the clock was set.                  *)
SpacedResets ==
  [][line = "high" /\ line' = "low" =>
       \/ clockSet
       \/ sinceReset > Timeout + HoldOff
       \/ silence =< sinceReset /\ sinceReset > Timeout]_watchdogVars

(* "3s ate proximo reset ser possivel" (watchdog.c:134): no reset is       *)
(* possible for the hold-off after a reset - unless the clock was set.     *)
HoldOffKept ==
  [][line = "high" /\ line' = "low" => sinceReset >= HoldOff \/ clockSet]_watchdogVars

(* When watchdog_stop has returned the line is not left low, the monitor   *)
(* touches nothing any more, and every handle was released, once - but     *)
(* once only if the line was obtained, or nothing but the chip was.        *)
CleanStop ==
  main = "stopped" =>
    /\ line # "low" /\ monitor = "done"
    /\ \A h \in Handles : handles[h] # "live"
    /\ line = "high" => twice = {}

(* A radar that stays silent is reset, again and again, for as long as     *)
(* main neither feeds nor stops the watchdog and the line is there.        *)
SilenceResets ==
  (main = "up" /\ line # "none") ~>
    (line = "low" \/ main # "up" \/ silence = 0)

(* watchdog_stop returns, in the middle of a pulse as well. *)
StopReturns == main = "joining" ~> main = "stopped"
=============================================================================
