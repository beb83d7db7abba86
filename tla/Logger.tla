------------------------------- MODULE Logger -------------------------------
(***************************************************************************)
(* server-parser/logger.c: a linked-list queue filled by any thread under  *)
(* one mutex, a worker thread that waits on a condition variable, takes a  *)
(* batch, writes it with one writev and rotates the file when it is full.  *)
(* Everything between pthread_mutex_lock and unlock is one action; what    *)
(* runs outside the mutex (formatting, writev, each rename of a rotation)  *)
(* is an action of its own.  A message counts as one unit of file size; a  *)
(* line cut by a short write counts as lost.                               *)
(***************************************************************************)
EXTENDS Integers, Sequences

CONSTANTS
  Threads,       \* threads that log
  Main,          \* the one that calls logger_shutdown
  UsedLevels,    \* levels the callers use, a subset of LOG_TRACE .. LOG_FATAL
  CurrentLevel,  \* current_level
  MaxQueue,      \* max_queue_size
  Batch,         \* BATCH_SIZE
  MaxLogSize,    \* max_log_size, in messages
  MaxBackups,    \* max_log_backups
  MaxMsgs,       \* bound: log calls in a behaviour
  MaxCrashes     \* bound: kills of the process followed by a restart

LogError == 4    \* LOG_ERROR in logger.h; LOG_FATAL is 5

ASSUME LoggerAssumption ==
  /\ Main \in Threads
  /\ UsedLevels \subseteq 0 .. 5
  /\ CurrentLevel \in 0 .. 5
  /\ MaxQueue \in Nat /\ Batch \in Nat \ {0}
  /\ MaxLogSize \in Nat /\ MaxBackups \in Nat
  /\ MaxMsgs \in Nat /\ MaxCrashes \in Nat

Message == [by : Threads, id : 1 .. MaxMsgs, level : 0 .. 5]

Worker == {"lock", "waiting", "write", "rotate", "reopen", "exited"}

VARIABLES
  queue,     \* head .. tail
  count,     \* queue_count
  running,   \* running
  worker,    \* where the worker thread stands
  batch,     \* nodes_to_free / iov
  opened,    \* fd >= 0
  csize,     \* current_size
  shift,     \* rotate_logs: the loop's i, then 0 for the live file
  files,     \* the directory: index of a backup (0: the live file) -> contents
  pending,   \* thread -> nodes it has built and not yet queued (at most one)
  main,      \* the main thread: runs, sits in pthread_join, or has returned
  issued,    \* log calls so far: the id, and the time stamp, of a message
  crashes

(* History: what the queue took in, what left it, what reached the file,   *)
(* how much had been accepted when shutdown was signalled, and whether a   *)
(* write or an open ever failed.                                           *)
VARIABLES accepted, retired, written, owed, ioFault

code == <<queue, count, running, worker, batch, opened, csize, shift, files>>
env  == <<pending, main, issued, crashes>>
hist == <<accepted, retired, written, owed, ioFault>>
vars == <<code, env, hist>>

-----------------------------------------------------------------------------
(* The directory *)

Rename(f, i, j) ==
  IF i \in DOMAIN f
  THEN [k \in (DOMAIN f \ {i}) \cup {j} |-> IF k = j THEN f[i] ELSE f[k]]
  ELSE f

Unlink(f, i) == [k \in DOMAIN f \ {i} |-> f[k]]

(* Mutant: O_TRUNC in place of O_APPEND *)
OpenTruncating(f) == [k \in DOMAIN f \cup {0} |-> IF k = 0 THEN <<>> ELSE f[k]]

(* open(O_CREAT | O_APPEND) *)
OpenLive(f) == IF 0 \in DOMAIN f THEN f ELSE [k \in DOMAIN f \cup {0} |->
                                              IF k = 0 THEN <<>> ELSE f[k]]

AppendLive(f, ms) == [f EXCEPT ![0] = @ \o ms]

-----------------------------------------------------------------------------
(* Mutant: the signal is forgotten *)
SignalNobody(w) == w

(* pthread_cond_signal: only the worker ever waits *)
Signal(w) == IF w = "waiting" THEN "lock" ELSE w

(* logger_init on the files a former run left: current_size is what stat   *)
(* says of the file just opened.                                           *)
LoggerInit(f) ==
  [files |-> OpenLive(f), csize |-> Len(OpenLive(f)[0])]

Init ==
  /\ queue = <<>> /\ count = 0 /\ running = TRUE
  /\ worker = "lock" /\ batch = <<>>
  /\ opened = TRUE /\ shift = 0
  /\ files = LoggerInit(<<>>).files /\ csize = LoggerInit(<<>>).csize
  /\ pending = [t \in Threads |-> <<>>]
  /\ main = "running" /\ issued = 0 /\ crashes = 0
  /\ accepted = <<>> /\ retired = <<>> /\ written = <<>>
  /\ owed = 0 /\ ioFault = FALSE

Alive == main # "returned"
CanLog(t) == Alive /\ (t = Main => main = "running")

(* logger_log and logger_log_loc up to the lock: the level filter, the     *)
(* time stamp, the malloc, which may fail and then loses the message.      *)
LogBegin(t, level) ==
  /\ CanLog(t) /\ pending[t] = <<>>
  /\ issued < MaxMsgs
  /\ level >= CurrentLevel
  /\ issued' = issued + 1
  /\ \/ pending' = [pending EXCEPT ![t] =
                      <<[by |-> t, id |-> issued + 1, level |-> level]>>]
     \/ UNCHANGED pending
  /\ UNCHANGED <<code, main, crashes, hist>>

(* The limit is looked at by logger_log alone: LOG_ERROR and LOG_FATAL go  *)
(* through logger_log_loc and enqueue_log, which does not have it.         *)
Refused(m) == m.level < LogError /\ count >= MaxQueue

(* The node is linked at the tail *)
Push(m) ==
  /\ queue' = Append(queue, m)
  /\ count' = count + 1
  /\ worker' = Signal(worker)
  /\ accepted' = Append(accepted, m)

(* The critical section of logger_log / enqueue_log *)
LogEnqueue(t) ==
  /\ CanLog(t) /\ pending[t] # <<>>
  /\ pending' = [pending EXCEPT ![t] = <<>>]
  /\ IF Refused(pending[t][1])
     THEN UNCHANGED <<queue, count, worker, accepted>>
     ELSE Push(pending[t][1])
  /\ UNCHANGED <<running, batch, opened, csize, shift, files,
                 main, issued, crashes, retired, written, owed, ioFault>>

-----------------------------------------------------------------------------
(* The worker thread *)

Taken == IF Len(queue) < Batch THEN Len(queue) ELSE Batch

MustSleep == queue = <<>> /\ running

(* Mutant: the flag alone ends the loop *)
ExitAtOnce == ~running

MayExit == ~running /\ queue = <<>>

(* The worker holds the mutex: sleep, leave, or take a batch *)
WorkerLock ==
  /\ Alive /\ worker = "lock"
  /\ \/ /\ MustSleep
        /\ worker' = "waiting"
        /\ UNCHANGED <<queue, count, batch, opened>>
     \/ /\ MayExit
        /\ worker' = "exited"
        /\ opened' = FALSE
        /\ UNCHANGED <<queue, count, batch>>
     \/ /\ ~MustSleep /\ ~MayExit
        /\ batch' = SubSeq(queue, 1, Taken)
        /\ queue' = SubSeq(queue, Taken + 1, Len(queue))
        /\ count' = count - Taken
        /\ worker' = "write"
        /\ UNCHANGED opened
  /\ UNCHANGED <<running, csize, shift, files, env, hist>>

(* POSIX lets pthread_cond_wait return without a signal *)
SpuriousWakeup ==
  /\ Alive /\ worker = "waiting"
  /\ worker' = "lock"
  /\ UNCHANGED <<queue, count, running, batch, opened, csize, shift, files,
                 env, hist>>

(* Where the worker goes after a batch, given the size then reached;       *)
(* rotate_logs closes the file first and skips the renames without backups *)
AfterWrite(size) ==
  IF size < MaxLogSize THEN "lock" ELSE IF MaxBackups > 0 THEN "rotate" ELSE "reopen"

(* One writev for the batch: k messages reach the file, the others are     *)
(* freed all the same.                                                     *)
WorkerWrite ==
  /\ Alive /\ worker = "write"
  /\ \E k \in IF opened THEN 0 .. Len(batch) ELSE {0} :
       LET sent == SubSeq(batch, 1, k) IN
       /\ files' = IF opened THEN AppendLive(files, sent) ELSE files
       /\ written' = written \o sent
       /\ ioFault' = (ioFault \/ k < Len(batch))
       /\ csize' = csize + k
       /\ worker' = AfterWrite(csize + k)
  /\ shift' = MaxBackups
  /\ opened' = (opened /\ worker' = "lock")
  /\ retired' = retired \o batch
  /\ batch' = <<>>
  /\ UNCHANGED <<queue, count, running, env, accepted, owed>>

(* One turn of rotate_logs' loop, i = shift, or the rename of the live     *)
(* file after it (shift = 0).                                              *)
RotateShift ==
  /\ Alive /\ worker = "rotate"
  /\ files' = IF shift = MaxBackups THEN Unlink(files, shift)
              ELSE Rename(files, shift, shift + 1)
  /\ shift' = IF shift = 0 THEN 0 ELSE shift - 1
  /\ worker' = IF shift = 0 THEN "reopen" ELSE "rotate"
  /\ UNCHANGED <<queue, count, running, batch, opened, csize, env, hist>>

(* The open that ends a rotation may fail; the size is reset either way *)
RotateReopen ==
  /\ Alive /\ worker = "reopen"
  /\ worker' = "lock"
  /\ csize' = 0
  /\ \/ opened' = TRUE /\ files' = OpenLive(files)
     \/ opened' = FALSE /\ UNCHANGED files
  /\ UNCHANGED <<queue, count, running, batch, shift, env, hist>>

WorkerStep == WorkerLock \/ WorkerWrite \/ RotateShift \/ RotateReopen

-----------------------------------------------------------------------------
(* logger_shutdown, called by the main thread *)

ShutdownSignal ==
  /\ main = "running" /\ pending[Main] = <<>>
  /\ running' = FALSE
  /\ worker' = Signal(worker)
  /\ main' = "joining"
  /\ owed' = Len(accepted)
  /\ UNCHANGED <<queue, count, batch, opened, csize, shift, files,
                 pending, issued, crashes, accepted, retired, written, ioFault>>

ShutdownJoin ==
  /\ main = "joining" /\ worker = "exited"
  /\ main' = "returned"
  /\ UNCHANGED <<code, pending, issued, crashes, hist>>

(* The process is killed at any point and started again: the directory is  *)
(* all that survives.                                                      *)
CrashRestart ==
  /\ Alive /\ crashes < MaxCrashes
  /\ crashes' = crashes + 1
  /\ queue' = <<>> /\ count' = 0 /\ running' = TRUE
  /\ worker' = "lock" /\ batch' = <<>> /\ opened' = TRUE /\ shift' = 0
  /\ files' = LoggerInit(files).files /\ csize' = LoggerInit(files).csize
  /\ pending' = [t \in Threads |-> <<>>]
  /\ main' = "running" /\ accepted' = retired /\ owed' = 0
  /\ UNCHANGED <<issued, retired, written, ioFault>>

(* The process has returned from main; nothing happens any more *)
Exited == ~Alive /\ UNCHANGED vars

Next ==
  \/ \E t \in Threads : LogEnqueue(t) \/ \E l \in UsedLevels : LogBegin(t, l)
  \/ WorkerStep \/ SpuriousWakeup
  \/ ShutdownSignal \/ ShutdownJoin
  \/ CrashRestart \/ Exited

(* The worker is an ordinary thread that is eventually scheduled and given *)
(* the mutex, and a pthread_join whose thread has ended returns.           *)
Fairness == WF_vars(WorkerStep) /\ WF_vars(ShutdownJoin)

Spec == Init /\ [][Next]_vars /\ Fairness

-----------------------------------------------------------------------------
TypeOK ==
  /\ queue \in Seq(Message) /\ batch \in Seq(Message)
  /\ count \in Nat /\ csize \in Nat
  /\ running \in BOOLEAN /\ opened \in BOOLEAN /\ ioFault \in BOOLEAN
  /\ worker \in Worker
  /\ shift \in 0 .. MaxBackups
  /\ DOMAIN files \subseteq 0 .. MaxBackups
  /\ \A i \in DOMAIN files : files[i] \in Seq(Message)
  /\ pending \in [Threads -> {<<>>} \cup {<<m>> : m \in Message}]
  /\ main \in {"running", "joining", "returned"}
  /\ issued \in 0 .. MaxMsgs /\ crashes \in 0 .. MaxCrashes
  /\ accepted \in Seq(Message) /\ retired \in Seq(Message)
  /\ written \in Seq(Message) /\ owed \in Nat

(* The queue neither loses, repeats nor reorders: what was accepted is     *)
(* what has left, then the batch the worker holds, then the list; and      *)
(* queue_count, on which the drop limit relies, is the length of the list. *)
Conservation ==
  /\ accepted = retired \o batch \o queue
  /\ count = Len(queue)
  /\ batch # <<>> => worker = "write"

(* The worker never sleeps with work to do: neither a message nor the      *)
(* request to stop is missed between its test and its wait.                *)
NoLostWakeup == worker = "waiting" => queue = <<>> /\ running

(* When the worker has ended, every message accepted before the shutdown   *)
(* was signalled is in the file, in order, unless a write or open failed.  *)
ShutdownFlushes ==
  worker = "exited" /\ ~ioFault =>
    /\ owed =< Len(written)
    /\ \A i \in 1 .. owed : written[i] = accepted[i]

(* logger_shutdown returns, unless the process is killed meanwhile. *)
ShutdownCompletes == main = "joining" ~> main # "joining"

Abstract == INSTANCE AsyncLog WITH
  MaxRetired <- Batch, open <- (worker # "exited")

(* The logger is an asynchronous log: batches leave in the order accepted, *)
(* the worker ends only when nothing is held, and what is held leaves.     *)
ImplementsAsyncLog == Abstract!Spec
=============================================================================
