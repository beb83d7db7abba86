---------------------------- MODULE LoggerProofs ----------------------------
(***************************************************************************)
(* The safety properties of module Logger, for every number of threads,    *)
(* every queue limit, batch size and number of backups, and every bound.   *)
(* LoggerInv is the inductive invariant all of them follow from.           *)
(***************************************************************************)
EXTENDS MCLogger, SequenceTheorems, WellFoundedInduction, TLAPS

(* What the named invariants need to be inductive: the worker ends only    *)
(* after the shutdown was signalled and when everything owed has left, and *)
(* what has left is in the file until an I/O error.                        *)
Bookkeeping ==
  /\ running <=> main = "running"
  /\ worker = "exited" => ~running /\ owed =< Len(retired)
  /\ worker = "write" => batch # <<>> /\ Len(batch) =< Batch
  /\ owed =< Len(accepted)
  /\ ioFault \/ written = retired

LoggerInv == TypeOK /\ Conservation /\ NoLostWakeup /\ Bookkeeping

-----------------------------------------------------------------------------
(* Sequences *)

(* A batch taken from the head and the rest of the queue are the queue. *)
LEMMA TakeRest ==
  ASSUME NEW S, NEW q \in Seq(S), NEW k \in 0 .. Len(q)
  PROVE  /\ SubSeq(q, 1, k) \in Seq(S) /\ SubSeq(q, k + 1, Len(q)) \in Seq(S)
         /\ Len(SubSeq(q, 1, k)) = k
         /\ Len(SubSeq(q, k + 1, Len(q))) = Len(q) - k
         /\ SubSeq(q, 1, k) \o SubSeq(q, k + 1, Len(q)) = q
<1>1. Len(q) \in Nat /\ DOMAIN q = 1 .. Len(q) /\ \A i \in 1 .. Len(q) : q[i] \in S
  BY LenProperties, ElementOfSeq
<1>2. \A i \in 1 .. k : q[i] \in S
  BY <1>1
<1>3. \A i \in k + 1 .. Len(q) : q[i] \in S
  BY <1>1
<1>4. SubSeq(q, 1, k) \in Seq(S) /\ Len(SubSeq(q, 1, k)) = k
  BY <1>1, <1>2, SubSeqProperties
<1>5. /\ SubSeq(q, k + 1, Len(q)) \in Seq(S)
      /\ Len(SubSeq(q, k + 1, Len(q))) = Len(q) - k
  <2>1. k + 1 \in Int /\ Len(q) \in Int
    BY <1>1
  <2>2. /\ SubSeq(q, k + 1, Len(q)) \in Seq(S)
        /\ Len(SubSeq(q, k + 1, Len(q)))
             = IF k + 1 <= Len(q) THEN Len(q) - (k + 1) + 1 ELSE 0
    BY <1>3, <2>1, SubSeqProperties
  <2>3. ASSUME NEW n \in Nat, NEW j \in 0 .. n
        PROVE  (IF j + 1 <= n THEN n - (j + 1) + 1 ELSE 0) = n - j
    OBVIOUS
  <2> QED
    BY <1>1, <2>2, <2>3
<1>6. SubSeq(q, 1, k) \o SubSeq(q, k + 1, Len(q)) = SubSeq(q, 1, Len(q))
  <2>1. 1 \in 1 .. Len(q) + 1 /\ k \in 1 - 1 .. Len(q) /\ Len(q) \in k .. Len(q)
    BY <1>1
  <2> QED
    BY <2>1, ConcatAdjacentSubSeq
<1> QED
  BY <1>4, <1>5, <1>6, SubSeqFull

(* A non-empty batch, retired, is a longer prefix of what was accepted. *)
LEMMA RetiredPrefix ==
  ASSUME NEW S, NEW r \in Seq(S), NEW b \in Seq(S), NEW q \in Seq(S), b # <<>>
  PROVE  /\ Len(b) \in Nat \ {0} /\ Len(r) + Len(b) =< Len(r \o b \o q)
         /\ r \o b = SubSeq(r \o b \o q, 1, Len(r) + Len(b))
<1>1. Len(b) \in Nat \ {0} /\ Len(r) \in Nat /\ Len(q) \in Nat
  BY EmptySeq, LenProperties
<1>2. r \o b \in Seq(S) /\ Len(r \o b) = Len(r) + Len(b)
  BY ConcatProperties
<1>3. Len(r \o b \o q) = Len(r) + Len(b) + Len(q)
  BY <1>2, ConcatProperties
<1>4. SubSeq((r \o b) \o q, 1, Len(r \o b)) = SubSeq(r \o b, 1, Len(r \o b))
  BY <1>1, <1>2, SubSeqOfConcat1
<1> QED
  BY <1>1, <1>2, <1>3, <1>4, SubSeqFull

-----------------------------------------------------------------------------
(* The directory *)

FilesOK(f) == /\ DOMAIN f \subseteq 0 .. MaxBackups
              /\ \A i \in DOMAIN f : f[i] \in Seq(Message)

(* Each operation of the directory keeps the numbers of the backups within *)
(* their range and the files sequences of messages.                        *)
LEMMA RenameOK ==
  ASSUME NEW f, FilesOK(f), NEW i, NEW j \in 0 .. MaxBackups
  PROVE  FilesOK(Rename(f, i, j)) /\ FilesOK(Unlink(f, i))
BY DEF FilesOK, Rename, Unlink

LEMMA OpenLiveOK ==
  ASSUME NEW f, FilesOK(f)
  PROVE  /\ FilesOK(OpenLive(f)) /\ FilesOK(LoggerInit(f).files)
         /\ LoggerInit(f).csize \in Nat
<1>1. 0 \in 0 .. MaxBackups
  BY LoggerAssumption
<1>2. <<>> \in Seq(Message)
  BY EmptySeq
<1>3. FilesOK(OpenLive(f)) /\ 0 \in DOMAIN OpenLive(f)
  BY <1>1, <1>2 DEF FilesOK, OpenLive
<1>4. Len(OpenLive(f)[0]) \in Nat
  BY <1>3, LenProperties DEF FilesOK
<1> QED
  BY <1>3, <1>4 DEF LoggerInit

LEMMA AppendLiveOK ==
  ASSUME NEW f, FilesOK(f), NEW ms \in Seq(Message)
  PROVE  FilesOK(AppendLive(f, ms))
<1>1. ASSUME 0 \in DOMAIN f
      PROVE  f[0] \o ms \in Seq(Message)
  BY <1>1, ConcatProperties DEF FilesOK
<1> QED
  BY <1>1 DEF FilesOK, AppendLive

-----------------------------------------------------------------------------
(* The inductive invariant *)

LEMMA LoggerInit0 == Init => LoggerInv
<1> SUFFICES ASSUME Init PROVE LoggerInv
  OBVIOUS
<1>1. <<>> \in Seq(Message) /\ Len(<<>>) = 0 /\ <<>> \o <<>> \o <<>> = <<>>
  BY EmptySeq, ConcatEmptySeq
<1>2. FilesOK(<<>>)
  BY DEF FilesOK
<1>3. FilesOK(files) /\ csize \in Nat
  BY <1>2, OpenLiveOK DEF Init
<1>4. TypeOK
  <2>1. pending \in [Threads -> {<<>>} \cup {<<m>> : m \in Message}]
    BY DEF Init
  <2>2. shift \in 0 .. MaxBackups /\ issued \in 0 .. MaxMsgs /\ crashes \in 0 .. MaxCrashes
    BY LoggerAssumption DEF Init
  <2>3. worker \in Worker /\ main \in {"running", "joining", "returned"}
    BY DEF Init, Worker
  <2>4. /\ queue \in Seq(Message) /\ batch \in Seq(Message) /\ accepted \in Seq(Message)
        /\ retired \in Seq(Message) /\ written \in Seq(Message)
    BY <1>1 DEF Init
  <2>5. /\ count \in Nat /\ owed \in Nat
        /\ running \in BOOLEAN /\ opened \in BOOLEAN /\ ioFault \in BOOLEAN
    BY DEF Init
  <2> QED
    BY <1>3, <2>1, <2>2, <2>3, <2>4, <2>5 DEF TypeOK, FilesOK
<1>5. Conservation
  BY <1>1 DEF Init, Conservation
<1>6. NoLostWakeup /\ Bookkeeping
  BY <1>1 DEF Init, NoLostWakeup, Bookkeeping
<1> QED
  BY <1>4, <1>5, <1>6 DEF LoggerInv

(* One step per action; under it one per conjunct the action can disturb. *)
LEMMA LoggerInvNext == LoggerInv /\ [Next]_vars => LoggerInv'
<1> SUFFICES ASSUME LoggerInv, [Next]_vars
             PROVE  LoggerInv'
  OBVIOUS
<1> USE DEF LoggerInv
<1>0. /\ queue \in Seq(Message) /\ batch \in Seq(Message)
      /\ retired \in Seq(Message) /\ written \in Seq(Message)
  BY DEF TypeOK
<1>1. ASSUME NEW t \in Threads, NEW l \in UsedLevels, LogBegin(t, l)
      PROVE  LoggerInv'
  <2>1. issued' \in 0 .. MaxMsgs /\ issued + 1 \in 1 .. MaxMsgs
    BY <1>1, LoggerAssumption DEF LogBegin, TypeOK
  <2>2. [by |-> t, id |-> issued + 1, level |-> l] \in Message
    BY <1>1, <2>1, LoggerAssumption DEF Message
  <2>3. pending' \in [Threads -> {<<>>} \cup {<<m>> : m \in Message}]
    BY <1>1, <2>2 DEF LogBegin, TypeOK
  <2>4. TypeOK'
    BY <1>1, <2>1, <2>3 DEF LogBegin, TypeOK, code, hist
  <2> QED
    BY <1>1, <2>4 DEF LogBegin, Conservation, NoLostWakeup, Bookkeeping, code, hist
<1>2. ASSUME NEW t \in Threads, LogEnqueue(t)
      PROVE  LoggerInv'
  <2>0. ASSUME NEW x \in Message
        PROVE  Append(retired \o batch \o queue, x) = retired \o batch \o Append(queue, x)
    <3>1. <<x>> \in Seq(Message) /\ Append(queue, x) = queue \o <<x>>
      BY <1>0, <2>0, AppendIsConcat
    <3>2. retired \o batch \in Seq(Message) /\ retired \o batch \o queue \in Seq(Message)
      BY <1>0, ConcatProperties
    <3>3. Append(retired \o batch \o queue, x) = retired \o batch \o queue \o <<x>>
      BY <2>0, <3>2, AppendIsConcat
    <3>4. ((retired \o batch) \o queue) \o <<x>> = (retired \o batch) \o (queue \o <<x>>)
      BY <1>0, <3>1, <3>2, ConcatAssociative
    <3> QED
      BY <3>1, <3>3, <3>4
  <2>1. pending[t][1] \in Message
    BY <1>2 DEF LogEnqueue, TypeOK
  <2>2. pending' \in [Threads -> {<<>>} \cup {<<m>> : m \in Message}]
    BY <1>2 DEF LogEnqueue, TypeOK
  <2>3. CASE Refused(pending[t][1])
    <3>1. TypeOK'
      BY <1>2, <2>2, <2>3 DEF LogEnqueue, TypeOK
    <3> QED
      BY <1>2, <2>3, <3>1 DEF LogEnqueue, Conservation, NoLostWakeup, Bookkeeping
  <2>4. CASE ~Refused(pending[t][1])
    <3> DEFINE m == pending[t][1]
    <3>1. /\ queue' = Append(queue, m) /\ count' = count + 1
          /\ worker' = Signal(worker) /\ accepted' = Append(accepted, m)
      BY <1>2, <2>4 DEF LogEnqueue, Push
    <3>2. /\ queue' \in Seq(Message) /\ accepted' \in Seq(Message)
          /\ Len(queue') = Len(queue) + 1 /\ Len(accepted') = Len(accepted) + 1
      BY <2>1, <3>1, AppendProperties DEF TypeOK
    <3>3. worker' \in Worker /\ worker' # "waiting"
      BY <3>1 DEF Signal, TypeOK, Worker
    <3>4. TypeOK'
      BY <1>2, <2>2, <3>1, <3>2, <3>3 DEF LogEnqueue, TypeOK
    <3>5. accepted' = retired \o batch \o queue'
      <4> HIDE DEF m
      <4>1. m \in Message
        BY <2>1 DEF m
      <4>2. Append(retired \o batch \o queue, m) = retired \o batch \o Append(queue, m)
        BY <2>0, <4>1
      <4> QED
        BY <3>1, <4>2 DEF Conservation
    <3>6. Conservation'
      BY <1>2, <3>1, <3>2, <3>5 DEF LogEnqueue, Conservation, Signal
    <3>7. Bookkeeping'
      BY <1>2, <3>1, <3>2 DEF LogEnqueue, Bookkeeping, Signal, TypeOK
    <3> QED
      BY <3>3, <3>4, <3>6, <3>7 DEF NoLostWakeup
  <2> QED
    BY <2>3, <2>4
<1>3. ASSUME WorkerLock
      PROVE  LoggerInv'
  <2>1. batch = <<>> /\ Alive
    BY <1>3 DEF WorkerLock, Conservation
  <2>2. accepted = retired \o queue
    BY <2>1, ConcatEmptySeq DEF Conservation, TypeOK
  <2>3. CASE MustSleep /\ worker' = "waiting" /\ UNCHANGED <<queue, count, batch, opened>>
    <3>1. TypeOK'
      BY <1>3, <2>3 DEF WorkerLock, TypeOK, Worker, env, hist
    <3> QED
      BY <1>3, <2>3, <3>1
      DEF WorkerLock, MustSleep, Conservation, NoLostWakeup, Bookkeeping, env, hist
  <2>4. CASE MayExit /\ worker' = "exited" /\ opened' = FALSE
               /\ UNCHANGED <<queue, count, batch>>
    <3>1. TypeOK'
      BY <1>3, <2>4 DEF WorkerLock, TypeOK, Worker, env, hist
    <3>2. accepted = retired
      BY <2>2, <2>4, ConcatEmptySeq DEF MayExit, TypeOK
    <3>3. Bookkeeping'
      BY <1>3, <2>4, <3>2 DEF WorkerLock, MayExit, Bookkeeping, env, hist
    <3> QED
      BY <1>3, <2>1, <2>4, <3>1, <3>3 DEF WorkerLock, Conservation, NoLostWakeup, env, hist
  <2>5. CASE /\ ~MustSleep /\ ~MayExit
             /\ batch' = SubSeq(queue, 1, Taken)
             /\ queue' = SubSeq(queue, Taken + 1, Len(queue))
             /\ count' = count - Taken
             /\ worker' = "write"
             /\ UNCHANGED opened
    <3>1. queue # <<>> /\ Len(queue) \in Nat \ {0}
      BY <2>5, EmptySeq DEF MustSleep, MayExit, TypeOK
    <3>2. Taken \in 1 .. Len(queue) /\ Taken =< Batch
      BY <3>1, LoggerAssumption DEF Taken
    <3>3. /\ batch' \in Seq(Message) /\ queue' \in Seq(Message)
          /\ Len(batch') = Taken /\ Len(queue') = Len(queue) - Taken
          /\ batch' \o queue' = queue
      <4>1. Taken \in 0 .. Len(queue)
        BY <3>1, <3>2
      <4> QED
        BY <1>0, <2>5, <4>1, TakeRest
    <3>4. batch' # <<>>
      BY <3>2, <3>3, EmptySeq
    <3>5. retired \o batch' \o queue' = accepted
      <4>1. ASSUME NEW b \in Seq(Message), NEW q \in Seq(Message)
            PROVE  (retired \o b) \o q = retired \o (b \o q)
        BY <1>0, ConcatAssociative
      <4>2. (retired \o batch') \o queue' = retired \o (batch' \o queue')
        BY <3>3, <4>1
      <4> QED
        BY <2>2, <3>3, <4>2
    <3>6. count' = Len(queue') /\ count' \in Nat
      BY <2>5, <3>1, <3>2, <3>3 DEF Conservation
    <3>7. TypeOK'
      BY <1>3, <2>5, <3>3, <3>6 DEF WorkerLock, TypeOK, Worker, env, hist
    <3>8. Conservation'
      BY <1>3, <2>5, <3>5, <3>6 DEF WorkerLock, Conservation, hist
    <3>9. Bookkeeping' /\ NoLostWakeup'
      BY <1>3, <2>5, <3>2, <3>3, <3>4
      DEF WorkerLock, Bookkeeping, NoLostWakeup, env, hist
    <3> QED
      BY <3>7, <3>8, <3>9
  <2> QED
    BY <1>3, <2>3, <2>4, <2>5 DEF WorkerLock
<1>4. ASSUME SpuriousWakeup
      PROVE  LoggerInv'
  <2>1. TypeOK'
    BY <1>4 DEF SpuriousWakeup, TypeOK, Worker, env, hist
  <2> QED
    BY <1>4, <2>1 DEF SpuriousWakeup, Conservation, NoLostWakeup, Bookkeeping, env, hist
<1>5. ASSUME WorkerWrite
      PROVE  LoggerInv'
  <2> PICK k \in 0 .. Len(batch) :
        /\ k = Len(batch) \/ ioFault'
        /\ files' = IF opened THEN AppendLive(files, SubSeq(batch, 1, k)) ELSE files
        /\ written' = written \o SubSeq(batch, 1, k)
        /\ ioFault' = (ioFault \/ k < Len(batch))
        /\ csize' = csize + k
        /\ worker' = AfterWrite(csize + k)
    <3>1. Len(batch) \in Nat
      BY <1>0, LenProperties
    <3>2. PICK k \in IF opened THEN 0 .. Len(batch) ELSE {0} :
            /\ files' = IF opened THEN AppendLive(files, SubSeq(batch, 1, k)) ELSE files
            /\ written' = written \o SubSeq(batch, 1, k)
            /\ ioFault' = (ioFault \/ k < Len(batch))
            /\ csize' = csize + k
            /\ worker' = AfterWrite(csize + k)
      BY <1>5 DEF WorkerWrite
    <3>3. k \in 0 .. Len(batch)
      BY <3>1, <3>2
    <3>4. k = Len(batch) \/ ioFault'
      <4>1. k = Len(batch) \/ k < Len(batch)
        BY <3>1, <3>3
      <4> QED
        BY <3>2, <4>1, Zenon
    <3> QED
      BY <3>2, <3>3, <3>4
  <2>1. SubSeq(batch, 1, k) \in Seq(Message)
    BY <1>0, TakeRest
  <2>2. worker' \in {"lock", "rotate", "reopen"}
    BY DEF AfterWrite
  <2>3. retired' \in Seq(Message) /\ Len(retired') >= Len(retired)
    <3>1. Len(retired) \in Nat /\ Len(batch) \in Nat
      BY <1>0, LenProperties
    <3>2. retired' = retired \o batch
      BY <1>5 DEF WorkerWrite
    <3> QED
      BY <1>0, <3>1, <3>2, ConcatProperties
  <2>4. TypeOK'
    <3>1. FilesOK(files')
      BY <2>1, AppendLiveOK DEF TypeOK, FilesOK
    <3>2. written' \in Seq(Message)
      BY <1>0, <2>1, ConcatProperties
    <3>3. csize' \in Nat
      BY <1>0, LenProperties DEF TypeOK
    <3>4. batch' \in Seq(Message) /\ shift' \in 0 .. MaxBackups /\ opened' \in BOOLEAN
      BY <1>5, EmptySeq, LoggerAssumption DEF WorkerWrite
    <3>5. ioFault' \in BOOLEAN /\ worker' \in Worker
      BY <2>2 DEF TypeOK, Worker
    <3> QED
      BY <1>5, <2>3, <3>1, <3>2, <3>3, <3>4, <3>5 DEF WorkerWrite, TypeOK, FilesOK, env
  <2>5. Conservation'
    <3>1. (retired \o batch) \o <<>> = retired \o batch
      BY <1>0, ConcatProperties, ConcatEmptySeq
    <3> QED
      BY <1>5, <2>2, <3>1 DEF WorkerWrite, Conservation
  <2>6. Bookkeeping'
    <3>1. ioFault' \/ written' = retired'
      <4>1. SubSeq(batch, 1, Len(batch)) = batch
        BY <1>0, SubSeqFull
      <4> QED
        BY <1>5, <4>1 DEF WorkerWrite, Bookkeeping
    <3> QED
      BY <1>5, <2>2, <3>1 DEF WorkerWrite, Bookkeeping, env
  <2> QED
    BY <2>2, <2>4, <2>5, <2>6 DEF NoLostWakeup
<1>6. ASSUME RotateShift
      PROVE  LoggerInv'
  <2>1. FilesOK(files')
    <3>1. shift # MaxBackups => shift + 1 \in 0 .. MaxBackups
      BY LoggerAssumption DEF TypeOK
    <3> QED
      BY <1>6, <3>1, LoggerAssumption, RenameOK DEF RotateShift, TypeOK, FilesOK
  <2>2. shift' \in 0 .. MaxBackups /\ worker' \in {"reopen", "rotate"}
    BY <1>6, LoggerAssumption DEF RotateShift, TypeOK
  <2>3. TypeOK'
    BY <1>6, <2>1, <2>2 DEF RotateShift, TypeOK, FilesOK, Worker, env, hist
  <2> QED
    BY <1>6, <2>2, <2>3 DEF RotateShift, Conservation, NoLostWakeup, Bookkeeping, env, hist
<1>7. ASSUME RotateReopen
      PROVE  LoggerInv'
  <2>1. FilesOK(files') /\ opened' \in BOOLEAN
    BY <1>7, OpenLiveOK DEF RotateReopen, TypeOK, FilesOK
  <2>2. TypeOK'
    BY <1>7, <2>1 DEF RotateReopen, TypeOK, FilesOK, Worker, env, hist
  <2> QED
    BY <1>7, <2>2 DEF RotateReopen, Conservation, NoLostWakeup, Bookkeeping, env, hist
<1>8. ASSUME ShutdownSignal
      PROVE  LoggerInv'
  <2>1. Len(accepted) \in Nat
    BY LenProperties DEF TypeOK
  <2>2. worker' \in Worker /\ worker' # "waiting"
        /\ (worker' = "exited" => worker = "exited")
        /\ (worker' = "write" <=> worker = "write")
    BY <1>8 DEF ShutdownSignal, Signal, TypeOK, Worker
  <2>3. worker # "exited"
    BY <1>8 DEF ShutdownSignal, Bookkeeping
  <2>4. TypeOK'
    BY <1>8, <2>1, <2>2 DEF ShutdownSignal, TypeOK
  <2> QED
    BY <1>8, <2>1, <2>2, <2>3, <2>4
    DEF ShutdownSignal, Conservation, NoLostWakeup, Bookkeeping
<1>9. ASSUME ShutdownJoin
      PROVE  LoggerInv'
  <2>1. TypeOK'
    BY <1>9 DEF ShutdownJoin, TypeOK, code, hist
  <2> QED
    BY <1>9, <2>1 DEF ShutdownJoin, Conservation, NoLostWakeup, Bookkeeping, code, hist
<1>10. ASSUME CrashRestart
       PROVE  LoggerInv'
  <2>1. <<>> \in Seq(Message) /\ Len(<<>>) = 0 /\ retired \o <<>> \o <<>> = retired
    BY <1>0, EmptySeq, ConcatEmptySeq
  <2>2. FilesOK(files') /\ csize' \in Nat
    BY <1>10, OpenLiveOK DEF CrashRestart, TypeOK, FilesOK
  <2>3. crashes' \in 0 .. MaxCrashes /\ shift' \in 0 .. MaxBackups
    BY <1>10, LoggerAssumption DEF CrashRestart, TypeOK
  <2>4. pending' \in [Threads -> {<<>>} \cup {<<m>> : m \in Message}]
    BY <1>10 DEF CrashRestart
  <2>5. TypeOK'
    BY <1>10, <2>1, <2>2, <2>3, <2>4 DEF CrashRestart, TypeOK, FilesOK, Worker
  <2>6. Len(accepted') \in Nat
    BY <1>10, <1>0, LenProperties DEF CrashRestart
  <2> QED
    BY <1>10, <2>1, <2>5, <2>6 DEF CrashRestart, Conservation, NoLostWakeup, Bookkeeping
<1>11. CASE UNCHANGED vars
  <2>1. TypeOK'
    BY <1>11 DEF TypeOK, vars, code, env, hist
  <2> QED
    BY <1>11, <2>1 DEF Conservation, NoLostWakeup, Bookkeeping, vars, code, env, hist
<1> QED
  BY <1>1, <1>2, <1>3, <1>4, <1>5, <1>6, <1>7, <1>8, <1>9, <1>10, <1>11
  DEF Next, WorkerStep, Exited

-----------------------------------------------------------------------------
(* The theorems *)

(* The inductive invariant holds of every reachable state of the logger. *)
LEMMA LoggerInvariant == Spec => []LoggerInv
BY LoggerInit0, LoggerInvNext, PTL DEF Spec

(* The variables of the logger keep their types; the directory never holds *)
(* a backup numbered above max_log_backups (rotate_logs).                  *)
THEOREM LoggerTypeCorrect == Spec => []TypeOK
<1>1. LoggerInv => TypeOK
  BY DEF LoggerInv
<1> QED
  BY <1>1, LoggerInvariant, PTL

(* logger.c's queue neither loses, repeats nor reorders a message it has   *)
(* accepted, and queue_count is the length of the list.                    *)
THEOREM LoggerConserves == Spec => []Conservation
<1>1. LoggerInv => Conservation
  BY DEF LoggerInv
<1> QED
  BY <1>1, LoggerInvariant, PTL

(* logger_worker never waits on the condition with work queued or the stop *)
(* requested, whatever the interleaving of its callers.                    *)
THEOREM LoggerWakesUp == Spec => []NoLostWakeup
<1>1. LoggerInv => NoLostWakeup
  BY DEF LoggerInv
<1> QED
  BY <1>1, LoggerInvariant, PTL

(* Once the worker has ended, every message accepted before                *)
(* logger_shutdown signalled it is in the file, in order, barring I/O      *)
(* errors.                                                                 *)
THEOREM LoggerFlushes == Spec => []ShutdownFlushes
<1>1. LoggerInv => ShutdownFlushes
  <2> SUFFICES ASSUME LoggerInv, worker = "exited", ~ioFault
               PROVE  /\ owed =< Len(written)
                      /\ \A i \in 1 .. owed : written[i] = accepted[i]
    BY DEF ShutdownFlushes
  <2>1. /\ queue \in Seq(Message) /\ retired \in Seq(Message)
        /\ written = retired /\ owed =< Len(retired) /\ owed \in Nat
        /\ batch = <<>>
    BY DEF LoggerInv, TypeOK, Bookkeeping, Conservation
  <2>2. accepted = retired \o queue
    BY <2>1, ConcatEmptySeq DEF LoggerInv, Conservation
  <2>3. Len(retired) \in Nat /\ Len(queue) \in Nat
    BY <2>1, LenProperties
  <2>4. \A i \in 1 .. Len(retired) + Len(queue) :
           (retired \o queue)[i] = IF i <= Len(retired) THEN retired[i]
                                   ELSE queue[i - Len(retired)]
    BY <2>1, ConcatProperties
  <2> QED
    BY <2>1, <2>2, <2>3, <2>4
<1> QED
  BY <1>1, LoggerInvariant, PTL

-----------------------------------------------------------------------------
(* Every step of the logger is a step of the asynchronous log or leaves    *)
(* what the callers see of it unchanged.                                   *)
LEMMA LoggerSimulates == LoggerInv /\ [Next]_vars => [Abstract!Next]_Abstract!vars
<1> SUFFICES ASSUME LoggerInv, [Next]_vars
             PROVE  Abstract!Next \/ UNCHANGED Abstract!vars
  OBVIOUS
<1>0. /\ queue \in Seq(Message) /\ batch \in Seq(Message) /\ retired \in Seq(Message)
      /\ accepted = retired \o batch \o queue
  BY DEF LoggerInv, TypeOK, Conservation
<1>1. ASSUME NEW t \in Threads, LogEnqueue(t)
      PROVE  Abstract!Next \/ UNCHANGED Abstract!vars
  <2>1. pending[t][1] \in Message
    BY <1>1 DEF LogEnqueue, LoggerInv, TypeOK
  <2>2. CASE Refused(pending[t][1])
    BY <1>1, <2>2 DEF LogEnqueue, Abstract!vars
  <2>3. CASE ~Refused(pending[t][1])
    <3>1. Abstract!Accept(pending[t][1])
      BY <1>1, <2>3 DEF LogEnqueue, Push, Signal, Abstract!Accept
    <3> QED
      BY <2>1, <3>1 DEF Abstract!Next
  <2> QED
    BY <2>2, <2>3
<1>2. ASSUME WorkerLock
      PROVE  Abstract!Next \/ UNCHANGED Abstract!vars
  <2>1. CASE worker' = "exited"
    <3>1. MayExit /\ batch = <<>>
      BY <1>2, <2>1 DEF WorkerLock, LoggerInv, Conservation
    <3>2. retired = accepted
      BY <1>0, <3>1, ConcatEmptySeq DEF MayExit
    <3>3. Abstract!Stop
      BY <1>2, <2>1, <3>2 DEF WorkerLock, hist, Abstract!Stop
    <3> QED
      BY <3>3 DEF Abstract!Next
  <2>2. CASE worker' # "exited"
    BY <1>2, <2>2 DEF WorkerLock, hist, Abstract!vars
  <2> QED
    BY <2>1, <2>2
<1>3. ASSUME WorkerWrite
      PROVE  Abstract!Next \/ UNCHANGED Abstract!vars
  <2>1. batch # <<>> /\ Len(batch) =< Batch
    BY <1>3 DEF WorkerWrite, LoggerInv, Bookkeeping
  <2>2. /\ Len(batch) \in Nat \ {0} /\ Len(retired) + Len(batch) =< Len(accepted)
        /\ retired \o batch = SubSeq(accepted, 1, Len(retired) + Len(batch))
    BY <1>0, <2>1, RetiredPrefix
  <2>3. worker' # "exited" /\ worker # "exited"
    BY <1>3 DEF WorkerWrite, AfterWrite
  <2>4. Abstract!Retire(Len(batch))
    BY <1>3, <2>2, <2>3 DEF WorkerWrite, Abstract!Retire
  <2>5. Len(batch) \in 1 .. Batch
    BY <2>1, <2>2, LoggerAssumption
  <2> QED
    BY <2>4, <2>5 DEF Abstract!Next, Abstract!RetireSome
<1>4. ASSUME CrashRestart
      PROVE  Abstract!Next \/ UNCHANGED Abstract!vars
  <2>1. Abstract!Crash
    BY <1>4 DEF CrashRestart, Abstract!Crash
  <2> QED
    BY <2>1 DEF Abstract!Next
<1>5. ASSUME SpuriousWakeup \/ RotateShift \/ RotateReopen
      PROVE  UNCHANGED Abstract!vars
  BY <1>5 DEF SpuriousWakeup, RotateShift, RotateReopen, hist, Abstract!vars
<1>6. ASSUME NEW t \in Threads, NEW l \in UsedLevels, LogBegin(t, l)
      PROVE  UNCHANGED Abstract!vars
  BY <1>6 DEF LogBegin, code, hist, Abstract!vars
<1>7. ASSUME ShutdownSignal \/ ShutdownJoin
      PROVE  UNCHANGED Abstract!vars
  BY <1>7 DEF ShutdownSignal, ShutdownJoin, Signal, code, hist, Abstract!vars
<1>8. CASE UNCHANGED vars
  BY <1>8 DEF vars, code, hist, Abstract!vars
<1> QED
  BY <1>1, <1>2, <1>3, <1>4, <1>5, <1>6, <1>7, <1>8 DEF Next, WorkerStep, Exited

(* logger.c is an asynchronous log: whatever its queue limit, batches,     *)
(* rotations and restarts, messages leave in the order they were accepted, *)
(* none twice and none skipped, and the worker ends only with nothing held.*)
THEOREM LoggerRefinesAsyncLog == Spec => Abstract!SafeSpec
<1>1. Init => Abstract!Init
  BY DEF Init, Abstract!Init
<1> QED
  BY <1>1, LoggerInvariant, LoggerSimulates, PTL DEF Spec, Abstract!SafeSpec

-----------------------------------------------------------------------------
(* Slices: SubSeq(w, a + 1, b) is what lies between the marks a and b *)

LEMMA SliceProperties ==
  ASSUME NEW S, NEW w \in Seq(S), NEW b \in 0 .. Len(w), NEW a \in 0 .. b
  PROVE  /\ SubSeq(w, a + 1, b) \in Seq(S) /\ Len(SubSeq(w, a + 1, b)) = b - a
         /\ a = b <=> SubSeq(w, a + 1, b) = <<>>
         /\ \A i \in 1 .. b - a : SubSeq(w, a + 1, b)[i] = w[a + i]
<1>1. Len(w) \in Nat /\ \A i \in 1 .. Len(w) : w[i] \in S
  BY LenProperties, ElementOfSeq
<1>2. a + 1 \in Int /\ b \in Int /\ \A i \in a + 1 .. b : w[i] \in S
  BY <1>1
<1>3. /\ SubSeq(w, a + 1, b) \in Seq(S)
      /\ Len(SubSeq(w, a + 1, b)) = IF a + 1 <= b THEN b - (a + 1) + 1 ELSE 0
      /\ \A i \in 1 .. b - (a + 1) + 1 : SubSeq(w, a + 1, b)[i] = w[a + 1 + i - 1]
  BY <1>2, SubSeqProperties
<1>4. Len(SubSeq(w, a + 1, b)) = b - a
  BY <1>1, <1>3
<1>5. \A i \in 1 .. b - a : SubSeq(w, a + 1, b)[i] = w[a + i]
  BY <1>1, <1>3
<1>6. a = b <=> SubSeq(w, a + 1, b) = <<>>
  BY <1>1, <1>3, <1>4, EmptySeq
<1> QED BY <1>3, <1>4, <1>5, <1>6

LEMMA SliceJoin ==
  ASSUME NEW S, NEW w \in Seq(S), NEW c \in 0 .. Len(w), NEW b \in 0 .. c, NEW a \in 0 .. b
  PROVE  SubSeq(w, a + 1, b) \o SubSeq(w, b + 1, c) = SubSeq(w, a + 1, c)
<1>1. Len(w) \in Nat
  BY LenProperties
<1>2. a + 1 \in 1 .. Len(w) + 1 /\ b \in (a + 1) - 1 .. Len(w) /\ c \in b .. Len(w)
  BY <1>1
<1> QED BY <1>2, ConcatAdjacentSubSeq

(* What is appended lengthens the last slice and leaves the others *)
LEMMA SliceAppend ==
  ASSUME NEW S, NEW w \in Seq(S), NEW u \in Seq(S), NEW b \in 0 .. Len(w), NEW a \in 0 .. b
  PROVE  /\ SubSeq(w \o u, a + 1, b) = SubSeq(w, a + 1, b)
         /\ SubSeq(w, a + 1, Len(w)) \o u = SubSeq(w \o u, a + 1, Len(w \o u))
<1>1. /\ Len(w) \in Nat /\ Len(u) \in Nat
      /\ w \o u \in Seq(S) /\ Len(w \o u) = Len(w) + Len(u)
  BY LenProperties, ConcatProperties
<1>2. ASSUME NEW n \in 0 .. Len(w), NEW m \in 0 .. n
      PROVE  SubSeq(w \o u, m + 1, n) = SubSeq(w, m + 1, n)
  <2>1. CASE m = n
    BY <2>1, <1>1, SubSeqEmpty
  <2>2. CASE m # n
    <3>1. m + 1 \in 1 .. Len(w) /\ n \in 1 .. Len(w)
      BY <1>1, <2>2
    <3> QED BY <3>1, SubSeqOfConcat1
  <2> QED BY <2>1, <2>2
<1>3. SubSeq(w \o u, Len(w) + 1, Len(w \o u)) = u
  <2>1. CASE u = <<>>
    BY <2>1, <1>1, SubSeqEmpty, EmptySeq
  <2>2. CASE u # <<>>
    <3>1. Len(u) \in Nat \ {0}
      BY <2>2, EmptySeq
    <3>2. /\ Len(w) + 1 \in Len(w) + 1 .. Len(w) + Len(u) /\ Len(w) + Len(u) \in Len(w) + 1 .. Len(w) + Len(u)
      BY <1>1, <3>1
    <3>3. SubSeq(w \o u, Len(w) + 1, Len(w) + Len(u)) = SubSeq(u, Len(w) + 1 - Len(w), Len(w) + Len(u) - Len(w))
      BY <3>2, SubSeqOfConcat2
    <3>4. Len(w) + 1 - Len(w) = 1 /\ Len(w) + Len(u) - Len(w) = Len(u)
      BY <1>1
    <3> QED BY <1>1, <3>3, <3>4, SubSeqFull
  <2> QED BY <2>1, <2>2
<1>4. SubSeq(w \o u, a + 1, Len(w)) \o SubSeq(w \o u, Len(w) + 1, Len(w \o u)) = SubSeq(w \o u, a + 1, Len(w \o u))
  <2>1. Len(w \o u) \in 0 .. Len(w \o u) /\ Len(w) \in 0 .. Len(w \o u) /\ a \in 0 .. Len(w)
    BY <1>1
  <2> QED BY <1>1, <2>1, SliceJoin
<1>5. a \in 0 .. Len(w) /\ Len(w) \in 0 .. Len(w)
  BY <1>1
<1> QED BY <1>2, <1>3, <1>4, <1>5

-----------------------------------------------------------------------------
(* The files, live file last, adjoin: marks cut the end of what was        *)
(* written into the contents of the files, a missing file being empty.     *)

Content(f, i) == IF i \in DOMAIN f THEN f[i] ELSE <<>>

Adjoin(f, w, c) ==
  /\ c \in [0 .. MaxBackups + 1 -> 0 .. Len(w)] /\ c[0] = Len(w)
  /\ \A i \in 0 .. MaxBackups : c[i + 1] =< c[i] /\ Content(f, i) = SubSeq(w, c[i + 1] + 1, c[i])

(* The rename of a rotation finds its place free, and the live file is     *)
(* there while it is open, which it is not during a rotation.              *)
SlotIsFree == worker = "rotate" /\ shift < MaxBackups => shift + 1 \notin DOMAIN files
LiveIsThere == opened => 0 \in DOMAIN files /\ worker # "rotate"

RetentionInv == (\E c : Adjoin(files, written, c)) /\ SlotIsFree /\ LiveIsThere

(* A file that is opened where there was none is empty *)
LEMMA AdjoinOpen ==
  ASSUME NEW f, NEW w, NEW c, Adjoin(f, w, c)
  PROVE  Adjoin(OpenLive(f), w, c) /\ 0 \in DOMAIN OpenLive(f)
<1>1. \A i \in 0 .. MaxBackups : Content(OpenLive(f), i) = Content(f, i)
  BY DEF Content, OpenLive
<1>2. 0 \in DOMAIN OpenLive(f)
  BY DEF OpenLive
<1> QED BY <1>1, <1>2 DEF Adjoin

(* The oldest file may go *)
LEMMA AdjoinUnlink ==
  ASSUME NEW f, NEW w \in Seq(Message), NEW c, Adjoin(f, w, c)
  PROVE  \E d : Adjoin(Unlink(f, MaxBackups), w, d)
<1> DEFINE d == [c EXCEPT ![MaxBackups + 1] = c[MaxBackups]]
<1> SUFFICES Adjoin(Unlink(f, MaxBackups), w, d)
  OBVIOUS
<1>1. MaxBackups \in Nat /\ Len(w) \in Nat
  BY LoggerAssumption, LenProperties
<1>2. /\ d \in [0 .. MaxBackups + 1 -> 0 .. Len(w)]
      /\ d[MaxBackups + 1] = c[MaxBackups] /\ \A i \in 0 .. MaxBackups : d[i] = c[i]
  BY <1>1 DEF Adjoin
<1> HIDE DEF d
<1>3. ASSUME NEW i \in 0 .. MaxBackups
      PROVE  d[i + 1] =< d[i] /\ Content(Unlink(f, MaxBackups), i) = SubSeq(w, d[i + 1] + 1, d[i])
  <2>1. CASE i = MaxBackups
    <3>1. Content(Unlink(f, MaxBackups), i) = <<>>
      BY <2>1 DEF Content, Unlink
    <3>2. d[i] = c[MaxBackups] /\ d[i + 1] = c[MaxBackups] /\ c[MaxBackups] \in 0 .. Len(w)
      BY <1>1, <1>2, <2>1
    <3>3. SubSeq(w, d[i + 1] + 1, d[i]) = <<>>
      BY <1>1, <3>2, SubSeqEmpty
    <3> QED BY <1>1, <3>1, <3>2, <3>3
  <2>2. CASE i # MaxBackups
    <3>1. d[i] = c[i] /\ i + 1 \in 0 .. MaxBackups /\ d[i + 1] = c[i + 1]
      BY <1>1, <1>2, <2>2
    <3>2. Content(Unlink(f, MaxBackups), i) = Content(f, i)
      BY <2>2 DEF Content, Unlink
    <3> QED BY <3>1, <3>2 DEF Adjoin
  <2> QED BY <2>1, <2>2
<1>4. d[0] = Len(w)
  BY <1>1, <1>2 DEF Adjoin
<1> QED BY <1>2, <1>3, <1>4 DEF Adjoin

(* A file may move to the free place behind it *)
LEMMA AdjoinRename ==
  ASSUME NEW f, NEW w \in Seq(Message), NEW c, Adjoin(f, w, c),
         NEW i \in 0 .. MaxBackups - 1, i + 1 \notin DOMAIN f
  PROVE  \E d : Adjoin(Rename(f, i, i + 1), w, d)
<1>0. MaxBackups \in Nat /\ Len(w) \in Nat /\ i \in 0 .. MaxBackups /\ i + 1 \in 0 .. MaxBackups
  BY LoggerAssumption, LenProperties
<1>1. CASE i \notin DOMAIN f
  BY <1>1 DEF Rename
<1>2. CASE i \in DOMAIN f
  <2> DEFINE d == [c EXCEPT ![i + 1] = c[i]]
  <2> SUFFICES Adjoin(Rename(f, i, i + 1), w, d)
    OBVIOUS
  <2>1. /\ d \in [0 .. MaxBackups + 1 -> 0 .. Len(w)]
        /\ d[i + 1] = c[i] /\ \A k \in 0 .. MaxBackups + 1 : k # i + 1 => d[k] = c[k]
    <3>1. /\ c \in [0 .. MaxBackups + 1 -> 0 .. Len(w)]
          /\ i \in 0 .. MaxBackups + 1 /\ i + 1 \in 0 .. MaxBackups + 1
      BY <1>0 DEF Adjoin
    <3>2. c[i] \in 0 .. Len(w)
      BY <3>1
    <3> QED BY <3>1, <3>2
  <2> HIDE DEF d
  <2>2. /\ Content(Rename(f, i, i + 1), i + 1) = f[i] /\ Content(Rename(f, i, i + 1), i) = <<>>
        /\ \A k \in 0 .. MaxBackups : k \notin {i, i + 1} => Content(Rename(f, i, i + 1), k) = Content(f, k)
    BY <1>0, <1>2 DEF Content, Rename
  <2>3. c[i + 2] = c[i + 1]
    <3>1. /\ c[i + 2] =< c[i + 1] /\ Content(f, i + 1) = SubSeq(w, c[i + 2] + 1, c[i + 1])
          /\ c[i + 1] \in 0 .. Len(w) /\ c[i + 2] \in 0 .. Len(w)
      BY <1>0 DEF Adjoin
    <3>2. SubSeq(w, c[i + 2] + 1, c[i + 1]) = <<>> /\ c[i + 2] \in 0 .. c[i + 1]
      BY <1>0, <3>1 DEF Content
    <3> QED BY <3>1, <3>2, SliceProperties
  <2>4. ASSUME NEW k \in 0 .. MaxBackups
        PROVE  d[k + 1] =< d[k] /\ Content(Rename(f, i, i + 1), k) = SubSeq(w, d[k + 1] + 1, d[k])
    <3>1. CASE k = i + 1
      <4>1. d[k] = c[i] /\ d[k + 1] = c[i + 1] /\ c[i + 1] =< c[i]
        BY <1>0, <2>1, <2>3, <3>1 DEF Adjoin
      <4>2. Content(Rename(f, i, i + 1), k) = SubSeq(w, c[i + 1] + 1, c[i])
        BY <1>0, <1>2, <2>2, <3>1 DEF Adjoin, Content
      <4> QED BY <4>1, <4>2
    <3>2. CASE k = i
      <4>1. d[k] = c[i] /\ d[k + 1] = c[i] /\ c[i] \in 0 .. Len(w)
        BY <1>0, <2>1, <3>2 DEF Adjoin
      <4>2. SubSeq(w, c[i] + 1, c[i]) = <<>>
        BY <1>0, <4>1, SubSeqEmpty
      <4>3. d[k + 1] =< d[k]
        BY <1>0, <4>1
      <4> QED BY <2>2, <3>2, <4>1, <4>2, <4>3
    <3>3. CASE k \notin {i, i + 1}
      <4>1. /\ k \in 0 .. MaxBackups + 1 /\ k + 1 \in 0 .. MaxBackups + 1
            /\ k # i + 1 /\ k + 1 # i + 1
        BY <1>0, <3>3
      <4>2. d[k] = c[k] /\ d[k + 1] = c[k + 1]
        BY <2>1, <4>1
      <4>3. c[k + 1] =< c[k] /\ Content(f, k) = SubSeq(w, c[k + 1] + 1, c[k])
        BY DEF Adjoin
      <4>4. Content(Rename(f, i, i + 1), k) = Content(f, k)
        BY <2>2, <3>3
      <4> QED BY <4>2, <4>3, <4>4
    <3> QED BY <3>1, <3>2, <3>3
  <2>5. d[0] = Len(w)
    <3>1. 0 # i + 1 /\ 0 \in 0 .. MaxBackups + 1
      BY <1>0
    <3> QED BY <2>1, <3>1 DEF Adjoin
  <2> QED BY <2>1, <2>4, <2>5 DEF Adjoin
<1> QED BY <1>1, <1>2

(* What is written goes to the live file *)
LEMMA AdjoinAppend ==
  ASSUME NEW f, NEW w \in Seq(Message), NEW c, Adjoin(f, w, c), 0 \in DOMAIN f, NEW u \in Seq(Message)
  PROVE  \E d : Adjoin(AppendLive(f, u), w \o u, d)
<1> DEFINE d == [c EXCEPT ![0] = Len(w \o u)]
<1> SUFFICES Adjoin(AppendLive(f, u), w \o u, d)
  OBVIOUS
<1>0. /\ MaxBackups \in Nat /\ Len(w) \in Nat /\ Len(u) \in Nat /\ Len(w \o u) = Len(w) + Len(u)
      /\ 0 \in 0 .. MaxBackups
  BY LoggerAssumption, LenProperties, ConcatProperties
<1>1. /\ d \in [0 .. MaxBackups + 1 -> 0 .. Len(w \o u)]
      /\ d[0] = Len(w \o u) /\ \A k \in 1 .. MaxBackups + 1 : d[k] = c[k]
  BY <1>0 DEF Adjoin
<1> HIDE DEF d
<1>2. ASSUME NEW k \in 0 .. MaxBackups
      PROVE  d[k + 1] =< d[k] /\ Content(AppendLive(f, u), k) = SubSeq(w \o u, d[k + 1] + 1, d[k])
  <2>1. /\ c[k] \in 0 .. Len(w) /\ c[k + 1] \in 0 .. Len(w) /\ c[k + 1] =< c[k]
        /\ Content(f, k) = SubSeq(w, c[k + 1] + 1, c[k]) /\ c[0] = Len(w)
    BY <1>0 DEF Adjoin
  <2>2. c[k + 1] \in 0 .. c[k]
    BY <1>0, <2>1
  <2>3. d[k + 1] = c[k + 1]
    BY <1>0, <1>1
  <2>4. CASE k = 0
    <3>1. Content(AppendLive(f, u), k) = Content(f, k) \o u
      BY <2>4 DEF Content, AppendLive
    <3>2. SubSeq(w, c[k + 1] + 1, Len(w)) \o u = SubSeq(w \o u, c[k + 1] + 1, Len(w \o u))
      BY <2>1, <2>2, SliceAppend
    <3>3. d[k] = Len(w \o u) /\ c[k] = Len(w)
      BY <1>1, <2>1, <2>4
    <3>4. d[k + 1] =< d[k]
      BY <1>0, <2>1, <2>3, <3>3
    <3> QED BY <2>1, <2>3, <3>1, <3>2, <3>3, <3>4
  <2>5. CASE k # 0
    <3>1. Content(AppendLive(f, u), k) = Content(f, k)
      BY <2>5 DEF Content, AppendLive
    <3>2. d[k] = c[k]
      BY <1>0, <1>1, <2>5
    <3>3. SubSeq(w \o u, c[k + 1] + 1, c[k]) = SubSeq(w, c[k + 1] + 1, c[k])
      BY <2>1, <2>2, SliceAppend
    <3> QED BY <2>1, <2>3, <3>1, <3>2, <3>3
  <2> QED BY <2>4, <2>5
<1> QED BY <1>1, <1>2 DEF Adjoin

-----------------------------------------------------------------------------
LEMMA RetentionInit == Init => RetentionInv
<1> SUFFICES ASSUME Init PROVE RetentionInv
  OBVIOUS
<1>1. MaxBackups \in Nat /\ <<>> \in Seq(Message) /\ Len(<<>>) = 0 /\ DOMAIN <<>> = {}
  BY LoggerAssumption, EmptySeq
<1> DEFINE c == [k \in 0 .. MaxBackups + 1 |-> 0]
<1>2. Adjoin(<<>>, <<>>, c)
  <2>1. /\ c \in [0 .. MaxBackups + 1 -> 0 .. Len(<<>>)]
        /\ \A k \in 0 .. MaxBackups + 1 : c[k] = 0
    BY <1>1
  <2> HIDE DEF c
  <2>2. ASSUME NEW k \in 0 .. MaxBackups
        PROVE  c[k + 1] =< c[k] /\ Content(<<>>, k) = SubSeq(<<>>, c[k + 1] + 1, c[k])
    <3>1. c[k] = 0 /\ c[k + 1] = 0
      BY <1>1, <2>1
    <3>2. SubSeq(<<>>, 0 + 1, 0) = <<>>
      BY SubSeqEmpty
    <3> QED BY <1>1, <3>1, <3>2 DEF Content
  <2>3. c[0] = Len(<<>>)
    BY <1>1, <2>1
  <2> QED BY <2>1, <2>2, <2>3 DEF Adjoin
<1>3. Adjoin(OpenLive(<<>>), <<>>, c) /\ 0 \in DOMAIN OpenLive(<<>>)
  BY <1>2, AdjoinOpen
<1>4. files = OpenLive(<<>>) /\ written = <<>> /\ worker = "lock"
  BY DEF Init, LoggerInit
<1> HIDE DEF c
<1> QED BY <1>3, <1>4 DEF RetentionInv, SlotIsFree, LiveIsThere

LEMMA RetentionNext == LoggerInv /\ RetentionInv /\ [Next]_vars => RetentionInv'
<1> SUFFICES ASSUME LoggerInv, RetentionInv, [Next]_vars
             PROVE  RetentionInv'
  OBVIOUS
<1>0. PICK c : Adjoin(files, written, c)
  BY DEF RetentionInv
<1>a. /\ written \in Seq(Message) /\ batch \in Seq(Message) /\ shift \in 0 .. MaxBackups
      /\ MaxBackups \in Nat /\ opened \in BOOLEAN /\ FilesOK(files)
  BY LoggerAssumption DEF LoggerInv, TypeOK, FilesOK
<1>b. ASSUME UNCHANGED <<files, written>>, opened' => opened,
             worker' = "rotate" => worker = "rotate" /\ UNCHANGED <<shift, opened>>
      PROVE  RetentionInv'
  BY <1>b DEF RetentionInv, SlotIsFree, LiveIsThere
<1>1. CASE WorkerWrite
  <2>1. PICK k \in IF opened THEN 0 .. Len(batch) ELSE {0} :
          /\ files' = IF opened THEN AppendLive(files, SubSeq(batch, 1, k)) ELSE files
          /\ written' = written \o SubSeq(batch, 1, k)
          /\ worker' = AfterWrite(csize + k)
    BY <1>1 DEF WorkerWrite
  <2>2. k \in 0 .. Len(batch) /\ (~opened => k = 0)
    <3>1. Len(batch) \in Nat
      BY <1>a, LenProperties
    <3> QED BY <2>1, <3>1
  <2>3. SubSeq(batch, 1, k) \in Seq(Message)
    BY <1>a, <2>2, TakeRest
  <2>4. \E d : Adjoin(files', written', d)
    <3>1. CASE opened
      <4>1. 0 \in DOMAIN files
        BY <3>1 DEF RetentionInv, LiveIsThere
      <4> QED BY <1>0, <1>a, <2>1, <2>3, <3>1, <4>1, AdjoinAppend
    <3>2. CASE ~opened
      <4>1. written \o SubSeq(batch, 1, k) = written
        <5>1. SubSeq(batch, 1, 0) = <<>>
          BY SubSeqEmpty
        <5> QED BY <1>a, <2>2, <3>2, <5>1, ConcatEmptySeq
      <4> QED BY <1>0, <2>1, <3>2, <4>1
    <3> QED BY <3>1, <3>2
  <2>5. SlotIsFree'
    <3>1. shift' = MaxBackups
      BY <1>1 DEF WorkerWrite
    <3> QED BY <1>a, <3>1 DEF SlotIsFree
  <2>6. LiveIsThere'
    <3>1. opened' => opened /\ worker' = "lock"
      BY <1>1 DEF WorkerWrite
    <3>2. DOMAIN AppendLive(files, SubSeq(batch, 1, k)) = DOMAIN files
      BY DEF AppendLive
    <3> QED BY <2>1, <3>1, <3>2 DEF RetentionInv, LiveIsThere
  <2> QED BY <2>4, <2>5, <2>6 DEF RetentionInv
<1>2. CASE RotateShift
  <2>0. worker = "rotate" /\ written' = written /\ opened' = opened
    BY <1>2 DEF RotateShift, hist
  <2>3. LiveIsThere'
    BY <2>0 DEF RetentionInv, LiveIsThere
  <2>1. CASE shift = MaxBackups
    <3>1. files' = Unlink(files, MaxBackups)
      BY <1>2, <2>1 DEF RotateShift
    <3>2. \E d : Adjoin(files', written', d)
      BY <1>0, <1>a, <2>0, <3>1, AdjoinUnlink
    <3>3. SlotIsFree'
      <4>1. shift' = (IF MaxBackups = 0 THEN 0 ELSE MaxBackups - 1) /\ MaxBackups \notin DOMAIN files'
        BY <1>2, <2>1, <3>1 DEF RotateShift, Unlink
      <4> QED BY <1>a, <4>1 DEF SlotIsFree
    <3> QED BY <2>3, <3>2, <3>3 DEF RetentionInv
  <2>2. CASE shift # MaxBackups
    <3>1. files' = Rename(files, shift, shift + 1)
      BY <1>2, <2>2 DEF RotateShift
    <3>2. shift \in 0 .. MaxBackups - 1 /\ shift + 1 \notin DOMAIN files
      BY <1>a, <2>0, <2>2 DEF RetentionInv, SlotIsFree
    <3>3. \E d : Adjoin(files', written', d)
      BY <1>0, <1>a, <2>0, <3>1, <3>2, AdjoinRename
    <3>4. shift' = (IF shift = 0 THEN 0 ELSE shift - 1) /\ worker' = (IF shift = 0 THEN "reopen" ELSE "rotate")
      BY <1>2 DEF RotateShift
    <3>5. SlotIsFree'
      <4>1. shift \notin DOMAIN files'
        BY <1>a, <3>1 DEF Rename
      <4> QED BY <1>a, <3>4, <4>1 DEF SlotIsFree
    <3> QED BY <2>3, <3>3, <3>5 DEF RetentionInv
  <2> QED BY <2>1, <2>2
<1>3. CASE RotateReopen
  <2>1. worker' = "lock" /\ written' = written
    BY <1>3 DEF RotateReopen, hist
  <2>2. \/ opened' = TRUE /\ files' = OpenLive(files)
        \/ opened' = FALSE /\ files' = files
    BY <1>3 DEF RotateReopen
  <2>3. Adjoin(OpenLive(files), written, c) /\ 0 \in DOMAIN OpenLive(files)
    BY <1>0, AdjoinOpen
  <2> QED BY <1>0, <2>1, <2>2, <2>3 DEF RetentionInv, SlotIsFree, LiveIsThere
<1>4. CASE CrashRestart
  <2>1. /\ worker' = "lock" /\ written' = written /\ files' = OpenLive(files)
    BY <1>4 DEF CrashRestart, LoggerInit
  <2>2. Adjoin(OpenLive(files), written, c) /\ 0 \in DOMAIN OpenLive(files)
    BY <1>0, AdjoinOpen
  <2> QED BY <2>1, <2>2 DEF RetentionInv, SlotIsFree, LiveIsThere
<1>5. CASE WorkerLock
  <2>1. /\ UNCHANGED <<files, written, shift>> /\ worker' # "rotate"
    BY <1>5 DEF WorkerLock, hist
  <2>2. opened' => opened
    BY <1>5 DEF WorkerLock
  <2> QED BY <1>b, <2>1, <2>2
<1>6. ASSUME NEW t \in Threads, LogEnqueue(t)
      PROVE  RetentionInv'
  <2>1. UNCHANGED <<files, written, shift, opened>> /\ (worker' = "rotate" => worker = "rotate")
    BY <1>6 DEF LogEnqueue, Push, Signal
  <2> QED BY <1>b, <2>1
<1>7. ASSUME NEW t \in Threads, NEW l \in UsedLevels, LogBegin(t, l)
      PROVE  RetentionInv'
  BY <1>7, <1>b DEF LogBegin, code, hist
<1>8. CASE SpuriousWakeup
  BY <1>8, <1>b DEF SpuriousWakeup, hist
<1>9. CASE ShutdownSignal
  BY <1>9, <1>b DEF ShutdownSignal, Signal
<1>10. CASE ShutdownJoin
  BY <1>10, <1>b DEF ShutdownJoin, code, hist
<1>11. CASE UNCHANGED vars
  BY <1>11, <1>b DEF vars, code, hist
<1> QED
  BY <1>1, <1>2, <1>3, <1>4, <1>5, <1>6, <1>7, <1>8, <1>9, <1>10, <1>11
  DEF Next, WorkerStep, Exited

-----------------------------------------------------------------------------
(* Induction over the naturals, of a set: a set that is not all of Nat     *)
(* would have a least number outside it.                                   *)
LEMMA NatMin ==
  ASSUME NEW T, T \subseteq Nat, T # {}
  PROVE  \E x \in T : \A y \in T : x =< y
<1> DEFINE R == OpToRel(<, Nat)
<1>1. IsWellFoundedOn(R, Nat)
  BY NatLessThanWellFounded
<1>2. R = {ss \in Nat \X Nat : ss[1] < ss[2]}
  BY DEF OpToRel
<1> HIDE DEF R
<1>3. PICK x \in T : \A y \in T : ~ (<<y, x>> \in R)
  BY <1>1, WFMin
<1>4. ASSUME NEW y \in T PROVE x =< y
  <2>1. x \in Nat /\ y \in Nat /\ <<y, x>> \notin R
    BY <1>3
  <2>2. ~ (y < x)
    BY <1>2, <2>1
  <2> QED BY <2>1, <2>2
<1> QED BY <1>4

LEMMA SetInduction ==
  ASSUME NEW T, 0 \in T, \A k \in Nat : k \in T => k + 1 \in T
  PROVE  Nat \subseteq T
<1> SUFFICES ASSUME Nat \ T # {} PROVE FALSE
  OBVIOUS
<1>1. PICK x \in Nat \ T : \A y \in Nat \ T : x =< y
  BY NatMin
<1>2. x # 0 /\ x - 1 \in Nat /\ (x - 1) + 1 = x
  BY <1>1
<1>3. x - 1 \notin T
  BY <1>2
<1>4. ~ (x =< x - 1)
  BY <1>2
<1> QED BY <1>1, <1>2, <1>3, <1>4

(* Adjoining slices, put together, are one slice *)
LEMMA FlattenSlices ==
  ASSUME NEW S, NEW w \in Seq(S), NEW n \in Nat \ {0},
         NEW m, m \in [0 .. n -> 0 .. Len(w)], \A k \in 1 .. n : m[k - 1] =< m[k],
         NEW ss, ss = [k \in 1 .. n |-> SubSeq(w, m[k - 1] + 1, m[k])]
  PROVE  m[0] =< m[n] /\ FlattenSeq(ss) = SubSeq(w, m[0] + 1, m[n])
<1>0. Len(w) \in Nat /\ n \in Nat /\ n >= 1
  BY LenProperties
<1>1. \A k \in 0 .. n : m[k] \in 0 .. Len(w)
  OBVIOUS
<1>2. \A k \in 0 .. n : m[0] =< m[k]
  <2> DEFINE T == {k \in Nat : k \in 0 .. n => m[0] =< m[k]}
  <2>1. 0 \in T
    BY <1>0, <1>1
  <2>2. ASSUME NEW k \in Nat, k \in T PROVE k + 1 \in T
    <3> SUFFICES ASSUME k + 1 \in 0 .. n PROVE m[0] =< m[k + 1]
      OBVIOUS
    <3>1. k \in 0 .. n /\ k + 1 \in 1 .. n /\ (k + 1) - 1 = k
      OBVIOUS
    <3>2. m[0] =< m[k] /\ m[k] =< m[k + 1]
      BY <2>2, <3>1
    <3> QED BY <1>0, <1>1, <3>1, <3>2
  <2> HIDE DEF T
  <2>3. Nat \subseteq T
    BY <2>1, <2>2, SetInduction
  <2> QED BY <2>3 DEF T
<1> DEFINE G == [k \in 1 .. n |-> SubSeq(w, m[0] + 1, m[k])]
           F(h) == [i \in 1 .. n |-> IF i = 1 THEN ss[i] ELSE h[i - 1] \o ss[i]]
           flat == CHOOSE h : h = F(h)
<1>3. G = F(G)
  <2> SUFFICES ASSUME NEW i \in 1 .. n
               PROVE  SubSeq(w, m[0] + 1, m[i]) = IF i = 1 THEN ss[i] ELSE G[i - 1] \o ss[i]
    OBVIOUS
  <2>1. ss[i] = SubSeq(w, m[i - 1] + 1, m[i])
    OBVIOUS
  <2>2. CASE i = 1
    <3>1. i - 1 = 0
      BY <2>2
    <3> QED BY <2>1, <2>2, <3>1
  <2>3. CASE i # 1
    <3>1. i - 1 \in 1 .. n /\ i - 1 \in 0 .. n /\ i \in 0 .. n
      BY <2>3
    <3>2. m[i] \in 0 .. Len(w) /\ m[i - 1] \in 0 .. m[i] /\ m[0] \in 0 .. m[i - 1]
      <4>1. 0 \in 0 .. n /\ m[i - 1] =< m[i] /\ m[0] =< m[i - 1]
        BY <1>0, <1>2, <3>1
      <4>2. m[0] \in 0 .. Len(w) /\ m[i - 1] \in 0 .. Len(w) /\ m[i] \in 0 .. Len(w)
        BY <1>1, <3>1, <4>1
      <4> QED BY <1>0, <4>1, <4>2
    <3>3. SubSeq(w, m[0] + 1, m[i - 1]) \o SubSeq(w, m[i - 1] + 1, m[i]) = SubSeq(w, m[0] + 1, m[i])
      BY <3>2, SliceJoin
    <3> QED BY <2>1, <2>3, <3>1, <3>3
  <2> QED BY <2>2, <2>3
<1>4. flat = F(flat)
  <2> HIDE DEF G
  <2> QED BY <1>3
<1> HIDE DEF G, flat
<1>7. ASSUME NEW i \in 1 .. n
      PROVE  /\ flat[i] = IF i = 1 THEN ss[i] ELSE flat[i - 1] \o ss[i]
             /\ G[i] = IF i = 1 THEN ss[i] ELSE G[i - 1] \o ss[i]
  <2>1. F(flat)[i] = (IF i = 1 THEN ss[i] ELSE flat[i - 1] \o ss[i])
    OBVIOUS
  <2>2. F(G)[i] = (IF i = 1 THEN ss[i] ELSE G[i - 1] \o ss[i])
    OBVIOUS
  <2> HIDE DEF F
  <2> QED BY <1>3, <1>4, <2>1, <2>2
<1> HIDE DEF F
<1>5. n \in 1 .. n /\ flat[n] = G[n]
  <2> DEFINE T == {k \in Nat : k + 1 \in 1 .. n => flat[k + 1] = G[k + 1]}
  <2>0. 1 \in 1 .. n
    BY <1>0
  <2>1. 1 \in 1 .. n /\ flat[1] = ss[1] /\ G[1] = ss[1]
    BY <1>7, <2>0
  <2>2. 0 \in T
    <3>1. 0 + 1 = 1
      OBVIOUS
    <3> QED BY <2>1, <3>1
  <2>3. ASSUME NEW k \in Nat, k \in T PROVE k + 1 \in T
    <3> SUFFICES ASSUME (k + 1) + 1 \in 1 .. n PROVE flat[(k + 1) + 1] = G[(k + 1) + 1]
      OBVIOUS
    <3>1. k + 1 \in 1 .. n /\ (k + 1) + 1 # 1 /\ ((k + 1) + 1) - 1 = k + 1
      OBVIOUS
    <3>2. flat[k + 1] = G[k + 1]
      BY <2>3, <3>1
    <3>3. /\ flat[(k + 1) + 1] = flat[k + 1] \o ss[(k + 1) + 1]
          /\ G[(k + 1) + 1] = G[k + 1] \o ss[(k + 1) + 1]
      BY <1>7, <3>1
    <3> QED BY <3>2, <3>3
  <2> HIDE DEF T
  <2>4. Nat \subseteq T
    BY <2>2, <2>3, SetInduction
  <2>5. n - 1 \in T /\ (n - 1) + 1 = n /\ n \in 1 .. n
    BY <1>0, <2>4
  <2> QED BY <2>5 DEF T
<1>6. FlattenSeq(ss) = flat[n]
  <2>1. Len(ss) = n
    <3>1. ASSUME NEW k \in 1 .. n
          PROVE  SubSeq(w, m[k - 1] + 1, m[k]) \in Seq(S)
      <4>1. k \in 0 .. n /\ k - 1 \in 0 .. n /\ m[k - 1] =< m[k]
        BY <1>0
      <4>2. m[k] \in 0 .. Len(w) /\ m[k - 1] \in 0 .. Len(w)
        BY <1>1, <4>1
      <4>3. m[k - 1] \in 0 .. m[k]
        BY <1>0, <4>1, <4>2
      <4> QED BY <4>2, <4>3, SliceProperties
    <3>2. ss \in [1 .. n -> Seq(S)]
      BY <3>1
    <3>3. ss \in Seq(Seq(S)) /\ DOMAIN ss = 1 .. n
      <4>1. ss \in UNION {[1 .. k -> Seq(S)] : k \in Nat}
        BY <1>0, <3>2
      <4> QED BY <3>2, <4>1, SeqDef
    <3>4. Len(ss) \in Nat /\ 1 .. Len(ss) = 1 .. n
      BY <3>3, LenProperties
    <3> QED BY <1>0, <3>4
  <2>2. FlattenSeq(ss) = (CHOOSE h : h = [i \in 1 .. Len(ss) |-> IF i = 1 THEN ss[i] ELSE h[i - 1] \o ss[i]])[Len(ss)]
    BY <1>0, <2>1 DEF FlattenSeq
  <2> QED BY <2>1, <2>2 DEF flat, F
<1>8. G[n] = SubSeq(w, m[0] + 1, m[n])
  BY <1>5 DEF G
<1>9. m[0] =< m[n]
  BY <1>0, <1>2
<1> QED BY <1>5, <1>6, <1>8, <1>9

(* The end of a sequence is a suffix of it *)
LEMMA SliceIsSuffix ==
  ASSUME NEW S, NEW w \in Seq(S), NEW a \in 0 .. Len(w)
  PROVE  IsSuffix(SubSeq(w, a + 1, Len(w)), w)
<1> DEFINE L == Len(w)
           s == SubSeq(w, a + 1, L)
<1>1. ASSUME NEW t \in Seq(S)
      PROVE  /\ Reverse(t) \in Seq(S) /\ Len(Reverse(t)) = Len(t)
             /\ \A i \in 1 .. Len(t) : Reverse(t)[i] = t[Len(t) - i + 1]
  <2>1. Len(t) \in Nat /\ t \in [1 .. Len(t) -> S]
    BY LenProperties
  <2>2. ASSUME NEW i \in 1 .. Len(t)
        PROVE  t[(Len(t) - i) + 1] \in S
    <3>1. (Len(t) - i) + 1 \in 1 .. Len(t)
      BY <2>1
    <3> QED BY <2>1, <3>1
  <2>3. Reverse(t) \in [1 .. Len(t) -> S] /\ \A i \in 1 .. Len(t) : Reverse(t)[i] = t[Len(t) - i + 1]
    BY <2>2 DEF Reverse
  <2>4. Reverse(t) \in Seq(S) /\ DOMAIN Reverse(t) = 1 .. Len(t)
    BY <2>1, <2>3, SeqDef
  <2>5. Len(Reverse(t)) \in Nat /\ 1 .. Len(Reverse(t)) = 1 .. Len(t)
    BY <2>4, LenProperties
  <2>6. Len(Reverse(t)) = Len(t)
    BY <2>1, <2>5
  <2> QED BY <2>3, <2>4, <2>6
<1>2. L \in Nat /\ L \in 0 .. Len(w) /\ a \in 0 .. L
  BY LenProperties
<1>3. s \in Seq(S) /\ Len(s) = L - a /\ \A i \in 1 .. L - a : s[i] = w[a + i]
  BY <1>2, SliceProperties
<1> HIDE DEF s, L
<1>4. ASSUME NEW t \in Seq(S), Len(t) \in L - a .. L
      PROVE  /\ SubSeq(Reverse(t), 1, L - a) \in Seq(S) /\ Len(SubSeq(Reverse(t), 1, L - a)) = L - a
             /\ \A i \in 1 .. L - a : SubSeq(Reverse(t), 1, L - a)[i] = t[Len(t) - i + 1]
  <2>1. /\ Reverse(t) \in Seq(S) /\ Len(Reverse(t)) = Len(t)
        /\ \A i \in 1 .. Len(t) : Reverse(t)[i] = t[Len(t) - i + 1]
    BY <1>1
  <2>2. L - a \in 0 .. Len(Reverse(t))
    BY <1>2, <1>4, <2>1
  <2>3. \A i \in 1 .. L - a : i \in 1 .. Len(t) /\ Reverse(t)[i] \in S
    BY <1>2, <1>4, <2>1, ElementOfSeq
  <2>4. /\ 1 \in Int /\ L - a \in Int /\ (IF 1 <= L - a THEN L - a - 1 + 1 ELSE 0) = L - a
        /\ L - a - 1 + 1 = L - a /\ \A i \in 1 .. L - a : 1 + i - 1 = i
    BY <1>2
  <2>5. /\ SubSeq(Reverse(t), 1, L - a) \in Seq(S) /\ Len(SubSeq(Reverse(t), 1, L - a)) = L - a
        /\ \A i \in 1 .. L - a : SubSeq(Reverse(t), 1, L - a)[i] = Reverse(t)[1 + i - 1]
    BY <2>3, <2>4, SubSeqProperties
  <2> QED BY <2>1, <2>3, <2>4, <2>5
<1>5. Len(s) \in L - a .. L /\ Len(w) \in L - a .. L
  BY <1>2, <1>3 DEF L
<1>6. ASSUME NEW i \in 1 .. L - a
      PROVE  s[Len(s) - i + 1] = w[Len(w) - i + 1]
  <2>1. L - a - i + 1 \in 1 .. L - a /\ a + (L - a - i + 1) = L - i + 1
    BY <1>2
  <2> QED BY <1>3, <2>1 DEF L
<1>7. SubSeq(Reverse(s), 1, L - a) = SubSeq(Reverse(w), 1, L - a)
  <2> DEFINE p == SubSeq(Reverse(s), 1, L - a)
             q == SubSeq(Reverse(w), 1, L - a)
  <2>1. p \in Seq(S) /\ Len(p) = L - a /\ \A i \in 1 .. L - a : p[i] = s[Len(s) - i + 1]
    BY <1>3, <1>4, <1>5
  <2>2. q \in Seq(S) /\ Len(q) = L - a /\ \A i \in 1 .. L - a : q[i] = w[Len(w) - i + 1]
    BY <1>4, <1>5
  <2> HIDE DEF p, q
  <2>3. Len(p) = Len(q) /\ \A i \in 1 .. Len(p) : p[i] = q[i]
    BY <1>6, <2>1, <2>2
  <2>4. p = q
    BY <2>1, <2>2, <2>3, SeqEqual
  <2> QED BY <2>4 DEF p, q
<1>8. Len(Reverse(s)) = L - a /\ Len(Reverse(w)) = L /\ L - a =< L
  <2>1. L - a =< L
    BY <1>2
  <2>2. Len(Reverse(s)) = L - a
    BY <1>1, <1>3
  <2>3. Len(Reverse(w)) = L
    BY <1>1 DEF L
  <2> QED BY <2>1, <2>2, <2>3
<1>9. IsSuffix(s, w)
  BY <1>7, <1>8 DEF IsSuffix, IsPrefix
<1> QED BY <1>9 DEF s, L

(* Adjoining files, put together, are the end of what was written *)
LEMMA AdjoinSuffix ==
  ASSUME written \in Seq(Message), NEW c, Adjoin(files, written, c)
  PROVE  RetainedSuffix
<1> DEFINE n == MaxBackups + 1
           m == [k \in 0 .. n |-> c[n - k]]
           ss == [k \in 1 .. MaxBackups + 1 |->
                    LET i == MaxBackups + 1 - k IN IF i \in DOMAIN files THEN files[i] ELSE <<>>]
<1>1. MaxBackups \in Nat /\ n \in Nat \ {0} /\ n = MaxBackups + 1 /\ n - 1 = MaxBackups /\ Len(written) \in Nat
  BY LoggerAssumption, LenProperties
<1>2. Retained = FlattenSeq(ss)
  BY DEF Retained
<1> HIDE DEF n
<1>3. /\ c \in [0 .. n -> 0 .. Len(written)] /\ c[0] = Len(written)
      /\ \A i \in 0 .. n - 1 : c[i + 1] =< c[i] /\ Content(files, i) = SubSeq(written, c[i + 1] + 1, c[i])
  BY <1>1 DEF Adjoin, n
<1>4. m \in [0 .. n -> 0 .. Len(written)]
  <2>1. ASSUME NEW k \in 0 .. n PROVE c[n - k] \in 0 .. Len(written)
    <3>1. n - k \in 0 .. n
      BY <1>1
    <3> QED BY <1>3, <3>1
  <2> QED BY <2>1
<1>5. ASSUME NEW k \in 1 .. n
      PROVE  m[k - 1] =< m[k] /\ Content(files, n - k) = SubSeq(written, m[k - 1] + 1, m[k])
  <2>1. /\ n - k \in 0 .. n - 1 /\ (n - k) + 1 = n - (k - 1)
        /\ k \in 0 .. n /\ k - 1 \in 0 .. n
    BY <1>1
  <2>2. m[k] = c[n - k] /\ m[k - 1] = c[(n - k) + 1]
    BY <2>1
  <2> QED BY <1>3, <2>1, <2>2
<1>6. m[0] = c[n] /\ m[n] = Len(written)
  <2>1. 0 \in 0 .. n /\ n \in 0 .. n /\ n - 0 = n /\ n - n = 0
    BY <1>1
  <2> QED BY <1>3, <2>1
<1> HIDE DEF m
<1>7. ss = [k \in 1 .. n |-> SubSeq(written, m[k - 1] + 1, m[k])]
  <2>1. ss = [k \in 1 .. n |-> ss[k]]
    BY DEF n
  <2>2. ASSUME NEW k \in 1 .. n
        PROVE  ss[k] = Content(files, n - k)
    <3>1. ss[k] = LET i == MaxBackups + 1 - k IN IF i \in DOMAIN files THEN files[i] ELSE <<>>
      BY DEF n
    <3>2. n - k = MaxBackups + 1 - k
      BY <1>1
    <3> HIDE DEF ss, n
    <3> QED BY <3>1, <3>2 DEF Content
  <2> HIDE DEF ss
  <2>3. \A k \in 1 .. n : ss[k] = SubSeq(written, m[k - 1] + 1, m[k])
    BY <1>5, <2>2
  <2> QED BY <2>1, <2>3
<1> HIDE DEF ss
<1>8. FlattenSeq(ss) = SubSeq(written, m[0] + 1, m[n])
  <2>1. \A k \in 1 .. n : m[k - 1] =< m[k]
    BY <1>5
  <2>2. n \in Nat \ {0} /\ written \in Seq(Message)
    BY <1>1
  <2> QED BY <1>4, <1>7, <2>1, <2>2, FlattenSlices, Zenon
<1>9. m[0] \in 0 .. Len(written)
  <2>1. 0 \in 0 .. n
    BY <1>1
  <2> QED BY <1>4, <2>1
<1> QED BY <1>2, <1>6, <1>8, <1>9, SliceIsSuffix DEF RetainedSuffix

(* rotate_logs drops the oldest messages only: at every step of a rotation,*)
(* whatever fails and after a kill at any of them, the backups, oldest     *)
(* first, and the live file hold the last messages written, in order and   *)
(* without a gap, for every number of backups.                             *)
THEOREM LoggerRetainsSuffix == Spec => []RetainedSuffix
<1>1. LoggerInv /\ RetentionInv => RetainedSuffix
  BY AdjoinSuffix DEF LoggerInv, TypeOK, RetentionInv
<1> QED
  BY <1>1, LoggerInvariant, RetentionInit, RetentionNext, PTL DEF Spec
=============================================================================
