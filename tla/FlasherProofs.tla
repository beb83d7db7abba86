---------------------------- MODULE FlasherProofs ----------------------------
(***************************************************************************)
(* Module Flasher for any jobs, sizes of chunks and files and answers of   *)
(* the bootloader: after the user's cancel at most one more chunk goes     *)
(* out, an acknowledgement that is read is the ruling on the command just *)
(* sent, and a file reported as downloaded is stored whole.                *)
(***************************************************************************)
EXTENDS Flasher, SequenceTheorems, TLAPS

(* Where the answer to a command is read *)
Answering == {"length", "checksum", "zero", "code", "header", "payload"}

(* A chunk that went out after the cancel is being answered, or its file   *)
(* is being closed with no other to follow, or the program has ended.      *)
WindingUp ==
  \/ cmd = "chunk" /\ pc \in Answering \cup {"sent"}
  \/ cmd = "close" /\ pc \in Answering \cup {"filed"} /\ result = FALSE
  \/ pc = "ended"

(* What is being answered is a command *)
Commands == {"hello", "version", "erase", "start", "chunk", "close"}
CommandAnswered == pc \in Answering => cmd \in Commands

CancelInv == late \in {0, 1} /\ (late = 1 => cancelled /\ WindingUp) /\ CommandAnswered

-----------------------------------------------------------------------------
LEMMA CancelInit == Init => CancelInv
<1> SUFFICES ASSUME Init PROVE CancelInv
  OBVIOUS
<1>1. late = 0 /\ pc = "begin"
  BY DEF Init
<1> QED BY <1>1 DEF CancelInv, CommandAnswered, Answering

(* Steps that send nothing late *)
LEMMA Quietly ==
  ASSUME CancelInv, late' = late, cancelled' = cancelled, WindingUp => WindingUp',
         pc' \in Answering => cmd' \in Commands
  PROVE  CancelInv'
BY DEF CancelInv, CommandAnswered

(* A step that begins where no chunk can have gone out late *)
LEMMA Early ==
  ASSUME CancelInv, pc \notin Answering \cup {"sent", "filed", "ended"},
         late' = late, cancelled' = cancelled, pc' \in Answering => cmd' \in Commands
  PROVE  CancelInv'
BY DEF CancelInv, WindingUp, CommandAnswered

(* Reading an answer, of any length, byte by byte *)
LEMMA ReadStep ==
  ASSUME CancelInv,
         ReadLength \/ ReadChecksum \/ ReadZero \/ ReadCode \/ ReadHeader \/ ReadPayload
           \/ ReadVersionLength \/ ReadVersionCrc \/ ReadVersion
  PROVE  CancelInv'
<1>1. CASE ReadLength \/ ReadChecksum \/ ReadZero \/ ReadHeader
  <2>1. late' = late /\ cancelled' = cancelled /\ cmd' = cmd /\ result' = result
    BY <1>1 DEF ReadLength, ReadChecksum, ReadZero, ReadHeader, UnchangedButIO, UnchangedDevice, fileVars
  <2>2. /\ pc \in {"length", "checksum", "zero", "header"}
        /\ cmd # "hello" => pc' \in Answering \cup {"ended"}
    BY <1>1 DEF ReadLength, ReadChecksum, ReadZero, ReadHeader, Goto, End, Answering
  <2>3. cmd \in Commands
    BY <2>2 DEF CancelInv, CommandAnswered, Answering
  <2> QED BY <2>1, <2>2, <2>3, Quietly DEF WindingUp, Answering
<1>2. CASE ReadCode
  <2>1. cancelled' = cancelled /\ cmd' = cmd /\ result' = result /\ pc = "code"
    BY <1>2 DEF ReadCode, UnchangedButIO, fileVars
  <2>2. cmd \in Commands
    BY <2>1 DEF CancelInv, CommandAnswered, Answering
  <2>3. late' = late /\ (cmd \in {"chunk", "close"} => pc' \in {"header", "code"})
    <3>1. CASE AckKnown(Got(1))
      BY <2>2, <3>1 DEF AckKnown, Goto, Commands
    <3>2. CASE Goto("code") /\ UnchangedDevice
      BY <3>2 DEF Goto, UnchangedDevice
    <3> QED BY <1>2, <3>1, <3>2 DEF ReadCode
  <2> QED BY <2>1, <2>2, <2>3, Quietly DEF WindingUp, Answering
<1>3. CASE ReadPayload
  <2>1. late' = late /\ cancelled' = cancelled /\ cmd' = cmd /\ result' = result /\ pc = "payload"
    BY <1>3 DEF ReadPayload, UnchangedButIO, UnchangedDevice, fileVars
  <2>2. /\ cmd = "chunk" => pc' = "sent"
        /\ cmd = "close" => pc' = "filed"
    BY <1>3 DEF ReadPayload, Goto, Answered
  <2>3. cmd \in Commands
    BY <2>1 DEF CancelInv, CommandAnswered, Answering
  <2> QED BY <2>1, <2>2, <2>3, Quietly DEF WindingUp, Answering
<1>4. CASE ReadVersionLength \/ ReadVersionCrc \/ ReadVersion
  <2>1. late' = late /\ cancelled' = cancelled /\ pc \in {"vlength", "vcrc", "vbody"}
    BY <1>4 DEF ReadVersionLength, ReadVersionCrc, ReadVersion, UnchangedButIO, UnchangedDevice
  <2>2. pc' \notin Answering
    BY <1>4 DEF ReadVersionLength, ReadVersionCrc, ReadVersion, NoVersion, Goto, Answering
  <2> QED BY <2>1, <2>2, Early DEF Answering
<1> QED BY <1>1, <1>2, <1>3, <1>4

(* Steps outside of a file *)
LEMMA OutsideStep ==
  ASSUME CancelInv,
         CopyMain \/ CliMain \/ UiMain \/ Connect \/ Connected \/ Versioned \/ Aborting
           \/ Erase \/ Erased \/ StartFile
  PROVE  CancelInv'
<1>1. cancelled' = cancelled /\ pc \notin Answering \cup {"sent", "filed", "ended"}
  BY DEF CopyMain, CliMain, UiMain, Connect, Connected, Versioned, Aborting, Erase, Erased,
         StartFile, UnchangedFile, Answering
<1>2. CASE CopyMain \/ CliMain \/ UiMain \/ Versioned \/ Aborting \/ Erased
  <2>1. late' = late
    BY <1>2 DEF CopyMain, CliMain, UiMain, Versioned, Aborting, Erased, UnchangedDevice
  <2>2. pc' \notin Answering
    <3>1. CASE CopyMain \/ CliMain \/ UiMain \/ Aborting \/ Erased
      BY <3>1 DEF CopyMain, CliMain, UiMain, Aborting, Erased, Goto, End, Answering
    <3>2. CASE Versioned
      BY <3>2 DEF Versioned, Goto, End, Answering
    <3> QED BY <1>2, <3>1, <3>2
  <2> QED BY <1>1, <2>1, <2>2, Early
<1>3. CASE Connect \/ Connected \/ Erase \/ StartFile
  <2>1. \/ \E c \in Commands \ {"chunk"} : Send(c)
        \/ UnchangedDevice /\ pc' \notin Answering
    <3>1. CASE Connect
      BY <3>1 DEF Connect, End, Commands, Answering
    <3>2. CASE Connected
      BY <3>2 DEF Connected, Goto, End, Commands, Answering
    <3>3. CASE Erase
      BY <3>3 DEF Erase, Goto, Commands, Answering
    <3>4. CASE StartFile
      BY <3>4 DEF StartFile, End, Commands, Answering
    <3> QED BY <1>3, <3>1, <3>2, <3>3, <3>4
  <2>2. late' = late /\ (pc' \in Answering => cmd' \in Commands)
    BY <2>1 DEF Send, UnchangedDevice
  <2> QED BY <1>1, <2>2, Early
<1> QED BY <1>2, <1>3

(* The first chunk of a file, which follows an answer to the start *)
LEMMA SendChunkStep == CancelInv /\ SendChunk => CancelInv'
<1> SUFFICES ASSUME CancelInv, SendChunk PROVE CancelInv'
  OBVIOUS
<1>1. pc = "send" /\ cancelled' = cancelled /\ cmd' = "chunk" /\ pc' = "length"
  BY DEF SendChunk, UnchangedFile, Send
<1>2. late = 0
  BY <1>1 DEF CancelInv, WindingUp, Answering
<1>3. late' = IF cancelled THEN 1 ELSE 0
  BY <1>2 DEF SendChunk, Send
<1> QED BY <1>1, <1>3 DEF CancelInv, WindingUp, Answering, CommandAnswered, Commands

(* After the answer to a chunk another one is sent only if the user has    *)
(* not cancelled, and the file is closed otherwise.                        *)
LEMMA ChunkAnsweredStep == CancelInv /\ ChunkAnswered => CancelInv'
<1> SUFFICES ASSUME CancelInv, ChunkAnswered PROVE CancelInv'
  OBVIOUS
<1>1. pc = "sent" /\ cancelled' = cancelled /\ result' = (result /\ ~Refused(ok) /\ ~cancelled)
  BY DEF ChunkAnswered, UnchangedFile, CancelSeen
<1>2. (~cancelled /\ Send("chunk")) \/ Send("close")
  BY DEF ChunkAnswered, CancelSeen
<1>3. CASE ~cancelled
  <2>1. late' = late /\ late # 1 /\ cmd' \in Commands
    BY <1>2, <1>3 DEF Send, CancelInv, Commands
  <2> QED BY <1>1, <2>1 DEF CancelInv, CommandAnswered
<1>4. CASE cancelled
  <2>1. late' = late /\ cmd' = "close" /\ pc' = "length"
    BY <1>2, <1>4 DEF Send
  <2>2. result' = FALSE
    BY <1>1, <1>4
  <2> QED BY <1>1, <2>1, <2>2, Quietly DEF WindingUp, Answering, Commands
<1> QED BY <1>3, <1>4

LEMMA CancelStep == CancelInv /\ [Next]_vars => CancelInv'
<1> SUFFICES ASSUME CancelInv, [Next]_vars PROVE CancelInv'
  OBVIOUS
<1>1. CASE FileDone
  <2>1. pc = "filed" /\ late' = late /\ cancelled' = cancelled
    BY <1>1 DEF FileDone, UnchangedFile, UnchangedDevice
  <2>2. pc' \notin Answering /\ (result = FALSE => pc' = "ended")
    BY <1>1 DEF FileDone, End, Goto, Answering
  <2> QED BY <2>1, <2>2, Quietly DEF WindingUp, Answering
<1>2. CASE Finish
  <2>1. late' = late /\ cancelled' = cancelled /\ pc' = pc /\ cmd' = cmd /\ result' = result
    BY <1>2 DEF Finish, UnchangedDevice, ioVars, fileVars
  <2> QED BY <2>1, Quietly DEF WindingUp, CancelInv, CommandAnswered
<1>3. CASE Cancel
  <2>1. late' = late /\ cancelled' = TRUE /\ pc' = pc /\ cmd' = cmd /\ result' = result
    BY <1>3 DEF Cancel, UnchangedDevice, ioVars, fileVars
  <2> QED BY <2>1 DEF CancelInv, WindingUp, CommandAnswered
<1>4. CASE Deliver \/ Die \/ UNCHANGED vars
  <2>1. late' = late /\ cancelled' = cancelled /\ pc' = pc /\ cmd' = cmd /\ result' = result
    BY <1>4 DEF Deliver, Die, vars, ioVars, fileVars
  <2> QED BY <2>1, Quietly DEF WindingUp, CancelInv, CommandAnswered
<1> QED BY <1>1, <1>2, <1>3, <1>4, ReadStep, OutsideStep, SendChunkStep, ChunkAnsweredStep
        DEF Next, Program

-----------------------------------------------------------------------------
(* download_file looks at the user's flag after every chunk: whenever Cancel  *)
(* comes, and whatever the bootloader answers, one chunk more at most is   *)
(* sent, of this file or of a later one.                                   *)
THEOREM FlasherStopsOnCancel == Spec => []CancelStops
<1>1. CancelInv => CancelStops
  BY DEF CancelInv, CancelStops
<1> QED BY <1>1, CancelInit, CancelStep, PTL DEF Spec

-----------------------------------------------------------------------------
(* The ruling that is heard *)

(* What is left of the acknowledgement of ruling v to command c when k of *)
(* its bytes have been read; the version follows that of its command.      *)
Rest(c, s, v, k) ==
  /\ v \in {Ack, Nack} /\ s \in Seq(Nat)
  /\ Len(s) >= 5 - k /\ (c # "version" => Len(s) = 5 - k)
  /\ \A i \in 1 .. 5 - k : s[i] = AckBytes(v)[k + i]

(* The answer is on its way, or will not come; or it has arrived, and a    *)
(* number of bytes of it in K have been read.                              *)
Reading(K) ==
  \/ inbox = <<>> /\ answers = <<>>
  \/ inbox = <<>> /\ \E s : answers = <<s>> /\ Rest(cmd, s, ruling, 0)
  \/ answers = <<>> /\ \E k \in K : Rest(cmd, inbox, ruling, k)

(* The code was the checksum or was itself, and the status is asked for.   *)
(* What is read as the length of its packet is never too short.            *)
HeaderAwaited ==
  \/ answers \in {<<>>, <<StatusBytes>>} /\ \E k \in {3, 5} : Rest(cmd, inbox, ruling, k)
  \/ /\ answers = <<>> /\ inbox \in Seq(Nat) /\ Len(inbox) >= 3
     /\ 256 * inbox[1] + inbox[2] - 2 >= Len(inbox) - 3

Filing == {"start", "chunk", "close"}

(* What is under way at each place the program waits at: how far the       *)
(* answer to the command is read, that nothing else is left to be read,    *)
(* and that what was heard of it is the ruling of the bootloader.         *)
VerdictInv ==
  /\ pc = "length" => Reading({0})
  /\ pc = "checksum" => Reading({0, 2})
  /\ pc = "zero" => Reading({0, 1, 3})
  /\ pc = "code" => Reading({0, 1, 2, 4})
  /\ pc = "connected" => cmd = "hello" /\ (ok => ruling = Ack /\ answers = <<>>)
  /\ pc \in {"vlength", "vcrc", "vbody", "erase"} => answers = <<>> /\ ok /\ ruling = Ack
  /\ pc = "versioned" => answers = <<>> /\ (ok => ruling = Ack)
  /\ pc \in {"header", "payload"} => cmd \in Filing /\ ruling \in {Ack, Nack} /\ ok = (ruling = Ack)
  /\ pc = "header" => HeaderAwaited
  /\ pc = "payload" => answers = <<>> /\ inbox \in Seq(Nat) /\ want \in Int /\ want >= Len(inbox)
  /\ pc \in {"send", "sent", "filed"} => inbox = <<>> /\ answers = <<>> /\ ok = (ruling = Ack)
  /\ pc = "erased" => answers = <<>> /\ ok = (ruling = Ack)
  /\ pc \in {"begin", "job", "file"} => answers = <<>>

-----------------------------------------------------------------------------
LEMMA AckShape ==
  ASSUME NEW v \in {Ack, Nack}
  PROVE  /\ AckBytes(v) \in Seq(Nat) /\ Len(AckBytes(v)) = 5
         /\ AckBytes(v)[1] = 0 /\ AckBytes(v)[2] = 4 /\ AckBytes(v)[3] = v
         /\ AckBytes(v)[4] = 0 /\ AckBytes(v)[5] = v
BY DEF AckBytes, Ack, Nack

LEMMA StatusShape ==
  /\ StatusBytes \in Seq(Nat) /\ StatusBytes[1] = 0
  /\ \/ Len(StatusBytes) = 7 /\ StatusBytes[2] = 6
     \/ Len(StatusBytes) = 4 /\ StatusBytes[2] = 3
BY DEF StatusBytes, Status

LEMMA RestDrop ==
  ASSUME NEW c, NEW s, NEW v, NEW k \in 0 .. 5, Rest(c, s, v, k), NEW g \in 0 .. 5 - k
  PROVE  Rest(c, SubSeq(s, g + 1, Len(s)), v, k + g)
<1>1. s \in Seq(Nat) /\ Len(s) \in Nat /\ Len(s) >= 5 - k
  BY LenProperties DEF Rest
<1>2. \A i \in g + 1 .. Len(s) : s[i] \in Nat
  BY <1>1, ElementOfSeq
<1> DEFINE t == SubSeq(s, g + 1, Len(s))
<1>3. /\ t \in Seq(Nat) /\ Len(t) = (IF g + 1 <= Len(s) THEN Len(s) - (g + 1) + 1 ELSE 0)
      /\ \A i \in 1 .. Len(s) - (g + 1) + 1 : t[i] = s[g + 1 + i - 1]
  BY <1>1, <1>2, SubSeqProperties
<1> HIDE DEF t
<1>4. Len(t) = Len(s) - g
  <2>1. ASSUME NEW n \in Nat, n >= 5 - k, NEW m, m = (IF g + 1 <= n THEN n - (g + 1) + 1 ELSE 0)
        PROVE  m = n - g
    BY <2>1
  <2> QED BY <1>1, <1>3, <2>1
<1>5. Len(t) >= 5 - (k + g) /\ (c # "version" => Len(t) = 5 - (k + g))
  BY <1>1, <1>4 DEF Rest
<1>6. ASSUME NEW i \in 1 .. 5 - (k + g)
      PROVE  t[i] = AckBytes(v)[(k + g) + i]
  <2>1. i \in 1 .. Len(s) - (g + 1) + 1 /\ g + 1 + i - 1 = g + i /\ g + i \in 1 .. 5 - k
    BY <1>1
  <2>2. t[i] = s[g + i]
    BY <1>3, <2>1
  <2>3. s[g + i] = AckBytes(v)[k + (g + i)]
    BY <2>1 DEF Rest
  <2>4. k + (g + i) = (k + g) + i
    OBVIOUS
  <2> QED BY <2>2, <2>3, <2>4
<1>7. Rest(c, t, v, k + g)
  BY <1>3, <1>5, <1>6 DEF Rest
<1> QED BY <1>7 DEF t

(* What read(n) returns, and what it leaves *)
LEMMA GotProperties ==
  ASSUME inbox \in Seq(Nat), NEW n \in Nat
  PROVE  /\ Got(n) \in Seq(Nat) /\ Len(Got(n)) = IF n < Len(inbox) THEN n ELSE Len(inbox)
         /\ \A i \in 1 .. Len(Got(n)) : Got(n)[i] = inbox[i]
<1> DEFINE m == IF n < Len(inbox) THEN n ELSE Len(inbox)
<1>1. Len(inbox) \in Nat /\ m \in 0 .. Len(inbox) /\ \A i \in 1 .. m : inbox[i] \in Nat
  <2>1. Len(inbox) \in Nat
    BY LenProperties
  <2>2. m \in 0 .. Len(inbox)
    BY <2>1
  <2> HIDE DEF m
  <2> QED BY <2>1, <2>2, ElementOfSeq
<1>2. Got(n) = SubSeq(inbox, 1, m)
  BY DEF Got
<1> HIDE DEF m
<1>3. /\ Got(n) \in Seq(Nat) /\ Len(Got(n)) = (IF 1 <= m THEN m - 1 + 1 ELSE 0)
      /\ \A i \in 1 .. m - 1 + 1 : Got(n)[i] = inbox[1 + i - 1]
  BY <1>1, <1>2, SubSeqProperties
<1>4. Len(Got(n)) = m /\ \A i \in 1 .. Len(Got(n)) : Got(n)[i] = inbox[i]
  BY <1>1, <1>3
<1> QED BY <1>3, <1>4 DEF m

LEMMA NothingThere ==
  ASSUME inbox = <<>>, NEW n \in Nat, Reads(n)
  PROVE  inbox' = <<>> /\ Got(n) = <<>>
<1>1. inbox \in Seq(Nat) /\ Len(inbox) = 0
  BY EmptySeq
<1>2. Got(n) \in Seq(Nat) /\ Len(Got(n)) = 0
  BY <1>1, GotProperties
<1>3. Got(n) = <<>>
  BY <1>2, EmptySeq
<1>4. inbox' = SubSeq(inbox, 1, 0)
  BY <1>1, <1>2 DEF Reads
<1> QED BY <1>3, <1>4, SubSeqEmpty

(* A read from an acknowledgement that has arrived *)
LEMMA RestRead ==
  ASSUME NEW c, NEW v, NEW k \in 0 .. 5, Rest(c, inbox, v, k), NEW n \in 1 .. 5 - k, Reads(n)
  PROVE  /\ Rest(c, inbox', v, k + n) /\ Len(Got(n)) = n
         /\ Got(n)[1] = AckBytes(v)[k + 1]
<1>1. inbox \in Seq(Nat) /\ Len(inbox) \in Nat /\ Len(inbox) >= 5 - k /\ n \in Nat
  BY LenProperties DEF Rest
<1>2. Len(Got(n)) = n /\ Got(n)[1] = inbox[1]
  <2>1. Len(Got(n)) = n
    BY <1>1, GotProperties
  <2>2. 1 \in 1 .. Len(Got(n))
    BY <2>1
  <2>3. \A i \in 1 .. Len(Got(n)) : Got(n)[i] = inbox[i]
    BY <1>1, GotProperties
  <2> QED BY <2>1, <2>2, <2>3
<1>3. Rest(c, SubSeq(inbox, n + 1, Len(inbox)), v, k + n)
  BY RestDrop
<1>4. inbox' = SubSeq(inbox, n + 1, Len(inbox))
  BY <1>2 DEF Reads
<1>5. inbox[1] = AckBytes(v)[k + 1]
  BY DEF Rest
<1> QED BY <1>2, <1>3, <1>4, <1>5

LEMMA ReadOn ==
  ASSUME NEW K \in SUBSET (0 .. 5), NEW n \in 1 .. 5, NEW M, \A k \in K : k + n =< 5 /\ k + n \in M,
         Reading(K), Reads(n), UNCHANGED <<cmd, ruling, answers>>
  PROVE  Reading(M)'
<1>1. CASE inbox = <<>>
  <2>1. inbox' = <<>>
    BY <1>1, NothingThere
  <2>2. ASSUME answers = <<>> /\ \E k \in K : Rest(cmd, inbox, ruling, k) PROVE inbox' = <<>> /\ answers' = <<>>
    BY <2>1, <2>2
  <2> QED BY <2>1, <2>2 DEF Reading
<1>2. CASE inbox # <<>>
  <2>1. PICK k \in K : answers = <<>> /\ Rest(cmd, inbox, ruling, k)
    BY <1>2 DEF Reading
  <2>2. k \in 0 .. 5 /\ n \in 1 .. 5 - k /\ k + n \in M
    OBVIOUS
  <2>3. Rest(cmd, inbox', ruling, k + n)
    BY <2>1, <2>2, RestRead
  <2> QED BY <2>1, <2>2, <2>3 DEF Reading
<1> QED BY <1>1, <1>2

LEMMA FirstBytes ==
  ASSUME NEW a \in Seq(Nat), Len(a) = 5, NEW b \in Seq(Nat)
  PROVE  a \o b \in Seq(Nat) /\ Len(a \o b) >= 5 /\ \A i \in 1 .. 5 : (a \o b)[i] = a[i]
<1>1. Len(b) \in Nat
  BY LenProperties
<1>2. /\ a \o b \in Seq(Nat) /\ Len(a \o b) = 5 + Len(b)
      /\ \A i \in 1 .. 5 + Len(b) : (a \o b)[i] = IF i <= 5 THEN a[i] ELSE b[i - 5]
  <2>1. /\ a \o b \in Seq(Nat) /\ Len(a \o b) = Len(a) + Len(b)
        /\ \A i \in 1 .. Len(a) + Len(b) : (a \o b)[i] = IF i <= Len(a) THEN a[i] ELSE b[i - Len(a)]
    BY ConcatProperties
  <2> QED BY <2>1
<1>3. \A i \in 1 .. 5 : i \in 1 .. 5 + Len(b) /\ i <= 5
  BY <1>1
<1> QED BY <1>1, <1>2, <1>3

LEMMA RestFull ==
  ASSUME NEW c, NEW v \in {Ack, Nack}, NEW s \in Seq(Nat), Len(s) >= 5, c # "version" => Len(s) = 5,
         \A i \in 1 .. 5 : s[i] = AckBytes(v)[i]
  PROVE  Rest(c, s, v, 0)
<1>1. 5 - 0 = 5 /\ \A i \in 1 .. 5 : 0 + i = i
  OBVIOUS
<1>2. \A i \in 1 .. 5 : s[i] = AckBytes(v)[0 + i]
  BY <1>1
<1> QED BY <1>1, <1>2 DEF Rest

(* A command that is sent to a silent line is awaited *)
LEMMA Sent ==
  ASSUME NEW c \in Commands, Send(c), answers = <<>>, inbox' = <<>>
  PROVE  VerdictInv'
<1>1. pc' = "length" /\ cmd' = c /\ Hears(c)
  BY DEF Send
<1>2. CASE ~alive
  BY <1>1, <1>2 DEF Hears, VerdictInv, Reading
<1>3. CASE alive
  <2>1. PICK v \in {Ack, Nack}, n \in Versions :
          /\ ruling' = v
          /\ answers' = Append(answers, IF c = "version" /\ v = Ack THEN AckBytes(v) \o VersionBytes(n)
                                        ELSE AckBytes(v))
    BY <1>1, <1>3, Zenon DEF Hears
  <2>2. /\ AckBytes(v) \in Seq(Nat) /\ Len(AckBytes(v)) = 5
        /\ VersionBytes(n) \in Seq(Nat) /\ Len(VersionBytes(n)) \in Nat
    <3>1. n \in Nat
      BY FlasherAssumption
    <3>2. VersionBytes(n) \in Seq(Nat)
      BY <3>1 DEF VersionBytes
    <3> QED BY <3>2, AckShape, LenProperties
  <2>3. /\ AckBytes(v) \o VersionBytes(n) \in Seq(Nat) /\ Len(AckBytes(v) \o VersionBytes(n)) >= 5
        /\ \A i \in 1 .. 5 : (AckBytes(v) \o VersionBytes(n))[i] = AckBytes(v)[i]
    BY <2>2, FirstBytes
  <2> DEFINE s == IF c = "version" /\ v = Ack THEN AckBytes(v) \o VersionBytes(n) ELSE AckBytes(v)
  <2>4. Rest(c, s, v, 0)
    <3>1. CASE c = "version" /\ v = Ack
      <4>1. Rest(c, AckBytes(v) \o VersionBytes(n), v, 0)
        BY <2>3, <3>1, RestFull
      <4> QED BY <3>1, <4>1
    <3>2. CASE ~ (c = "version" /\ v = Ack)
      <4>1. Rest(c, AckBytes(v), v, 0)
        <5>1. /\ AckBytes(v) \in Seq(Nat) /\ Len(AckBytes(v)) >= 5
              /\ (c # "version" => Len(AckBytes(v)) = 5)
          BY <2>2
        <5> QED BY <5>1, RestFull, Zenon
      <4> QED BY <3>2, <4>1
    <3> QED BY <3>1, <3>2
  <2> HIDE DEF s
  <2>5. answers' = <<s>>
    BY <2>1 DEF s
  <2>6. Reading({0})'
    BY <1>1, <2>1, <2>4, <2>5 DEF Reading
  <2> QED BY <1>1, <2>6 DEF VerdictInv
<1> QED BY <1>2, <1>3

LEMMA VerdictInit == Init => VerdictInv
BY DEF Init, VerdictInv

(* Steps that lead to where nothing is claimed or only that the line is silent *)
LEMMA OutsideVerdict ==
  ASSUME VerdictInv,
         CopyMain \/ CliMain \/ UiMain \/ Connect \/ Connected \/ Versioned \/ Aborting
           \/ Erase \/ Erased \/ StartFile
  PROVE  VerdictInv'
<1>1. CASE CopyMain \/ CliMain \/ UiMain
  <2>1. pc = "begin" /\ answers' = answers /\ pc' \in {"ended", "job"}
    BY <1>1 DEF CopyMain, CliMain, UiMain, End, Goto, UnchangedDevice, deviceVars
  <2> QED BY <2>1 DEF VerdictInv
<1>2. CASE Connect
  <2>1. pc = "job" /\ answers = <<>>
    BY <1>2 DEF Connect, VerdictInv
  <2>2. (inbox' = <<>> /\ Send("hello")) \/ pc' = "ended"
    BY <1>2 DEF Connect, End, Opens
  <2>3. CASE pc' = "ended"
    BY <2>3 DEF VerdictInv
  <2> QED BY <2>1, <2>2, <2>3, Sent DEF Commands
<1>3. CASE Connected
  <2>1. pc = "connected" /\ (ok => ruling = Ack /\ answers = <<>>)
    BY <1>3 DEF Connected, VerdictInv
  <2>2. \/ ok /\ inbox' = <<>> /\ Send("version")
        \/ pc' = "ended"
        \/ pc' = "erase" /\ ok /\ ok' = ok /\ UnchangedDevice
    BY <1>3 DEF Connected, End, Goto, Opens
  <2>3. CASE pc' = "ended"
    BY <2>3 DEF VerdictInv
  <2>4. CASE pc' = "erase" /\ ok /\ ok' = ok /\ UnchangedDevice
    BY <2>1, <2>4 DEF VerdictInv, UnchangedDevice, deviceVars
  <2> QED BY <2>1, <2>2, <2>3, <2>4, Sent DEF Commands
<1>4. CASE Versioned
  <2>1. /\ pc = "versioned" /\ answers = <<>> /\ (ok => ruling = Ack)
        /\ answers' = answers /\ ruling' = ruling /\ ok' = ok
    BY <1>4 DEF Versioned, VerdictInv, UnchangedDevice, deviceVars, NothingRead
  <2>2. pc' \in {"ended", "aborting", "file", "erase"} /\ (pc' \in {"file", "erase"} => ok)
    BY <1>4 DEF Versioned, End, Goto
  <2> QED BY <2>1, <2>2 DEF VerdictInv
<1>5. CASE Aborting
  <2>1. pc' = "ended"
    BY <1>5 DEF Aborting, End
  <2> QED BY <2>1 DEF VerdictInv
<1>6. CASE Erase
  <2>1. pc = "erase" /\ answers = <<>> /\ ok /\ ruling = Ack /\ ok' = ok
    BY <1>6 DEF Erase, VerdictInv
  <2>2. \/ inbox' = <<>> /\ Send("erase")
        \/ pc' = "erased" /\ UnchangedDevice
    BY <1>6 DEF Erase, Goto, Opens
  <2>3. CASE pc' = "erased" /\ UnchangedDevice
    BY <2>1, <2>3 DEF VerdictInv, UnchangedDevice, deviceVars
  <2> QED BY <2>1, <2>2, <2>3, Sent DEF Commands
<1>7. CASE Erased
  <2>1. pc = "erased" /\ answers' = answers /\ answers = <<>> /\ pc' \in {"ended", "file"}
    BY <1>7 DEF Erased, VerdictInv, End, Goto, UnchangedDevice, deviceVars
  <2> QED BY <2>1 DEF VerdictInv
<1>8. CASE StartFile
  <2>1. pc = "file" /\ answers = <<>>
    BY <1>8 DEF StartFile, VerdictInv
  <2>2. (inbox' = <<>> /\ Send("start")) \/ pc' = "ended"
    BY <1>8 DEF StartFile, End, Opens
  <2>3. CASE pc' = "ended"
    BY <2>3 DEF VerdictInv
  <2> QED BY <2>1, <2>2, <2>3, Sent DEF Commands
<1> QED BY <1>1, <1>2, <1>3, <1>4, <1>5, <1>6, <1>7, <1>8

LEMMA FileVerdict ==
  ASSUME VerdictInv, SendChunk \/ ChunkAnswered \/ FileDone
  PROVE  VerdictInv'
<1>1. CASE SendChunk \/ ChunkAnswered
  <2>1. pc \in {"send", "sent"} /\ answers = <<>> /\ inbox = <<>> /\ inbox' = inbox
    BY <1>1 DEF SendChunk, ChunkAnswered, NothingRead, VerdictInv
  <2>2. Send("chunk") \/ Send("close")
    BY <1>1 DEF SendChunk, ChunkAnswered
  <2> QED BY <2>1, <2>2, Sent DEF Commands
<1>2. CASE FileDone
  <2>1. pc = "filed" /\ answers' = answers /\ answers = <<>> /\ pc' \in {"ended", "file"}
    BY <1>2 DEF FileDone, VerdictInv, End, Goto, UnchangedDevice, deviceVars
  <2> QED BY <2>1 DEF VerdictInv
<1> QED BY <1>1, <1>2

(* Bytes of the acknowledgement before its code *)
LEMMA EarlyVerdict ==
  ASSUME VerdictInv, ReadLength \/ ReadChecksum \/ ReadZero
  PROVE  VerdictInv'
<1>1. UNCHANGED <<cmd, ruling, answers>>
  BY DEF ReadLength, ReadChecksum, ReadZero, UnchangedDevice, deviceVars
<1>2. CASE ReadLength
  <2>1. pc = "length" /\ Reads(2) /\ Reading({0})
    BY <1>2 DEF ReadLength, VerdictInv
  <2>2. Reading({0, 2})'
    BY <1>1, <2>1, ReadOn
  <2>3. pc' = "checksum" \/ (pc' = "connected" /\ cmd' = "hello" /\ ~ok')
    BY <1>2 DEF ReadLength, Goto
  <2> QED BY <2>2, <2>3 DEF VerdictInv
<1>3. CASE ReadChecksum
  <2>1. pc = "checksum" /\ pc' = "zero" /\ Reads(1) /\ Reading({0, 2})
    BY <1>3 DEF ReadChecksum, VerdictInv, Goto
  <2>2. Reading({0, 1, 3})'
    BY <1>1, <2>1, ReadOn
  <2> QED BY <2>1, <2>2 DEF VerdictInv
<1>4. CASE ReadZero
  <2>1. pc = "zero" /\ pc' = "code" /\ Reads(1) /\ Reading({0, 1, 3})
    BY <1>4 DEF ReadZero, VerdictInv, Goto
  <2>2. Reading({0, 1, 2, 4})'
    BY <1>1, <2>1, ReadOn
  <2> QED BY <2>1, <2>2 DEF VerdictInv
<1> QED BY <1>2, <1>3, <1>4

(* The code: a byte that is not one leaves the acknowledgement to be read  *)
(* on, and one that is one is the ruling.                                 *)
LEMMA CodeVerdict ==
  ASSUME VerdictInv, CancelInv, ReadCode
  PROVE  VerdictInv'
<1>1. /\ pc = "code" /\ Reads(1) /\ Reading({0, 1, 2, 4}) /\ cmd \in Commands /\ cmd' = cmd
  BY DEF ReadCode, VerdictInv, CancelInv, CommandAnswered, Answering
<1>2. ASSUME Goto("code"), UnchangedDevice, Reading({0, 1, 2, 4})'
      PROVE  VerdictInv'
  BY <1>2 DEF Goto, VerdictInv
<1>3. CASE inbox = <<>>
  <2>1. inbox' = <<>> /\ Got(1) = <<>>
    BY <1>1, <1>3, NothingThere
  <2>2. ~IsCode(Got(1)) /\ Got(1) # <<Ack>>
    BY <2>1 DEF IsCode
  <2>3. CASE cmd = "hello" /\ tries = HelloReads
    <3>1. AckKnown(Got(1))
      BY <2>3 DEF ReadCode
    <3>2. pc' = "connected" /\ ~ok'
      BY <2>2, <2>3, <3>1 DEF AckKnown, Goto, Answered
    <3> QED BY <1>1, <2>3, <3>2 DEF VerdictInv
  <2>4. CASE ~ (cmd = "hello" /\ tries = HelloReads)
    <3>1. Goto("code") /\ UnchangedDevice
      BY <2>2, <2>4 DEF ReadCode
    <3>2. UNCHANGED <<answers, ruling>>
      BY <3>1 DEF UnchangedDevice, deviceVars
    <3>3. answers = <<>> \/ \E s : answers = <<s>> /\ Rest(cmd, s, ruling, 0)
      BY <1>1, <1>3 DEF Reading
    <3>4. Reading({0, 1, 2, 4})'
      BY <1>1, <2>1, <3>2, <3>3 DEF Reading
    <3> QED BY <1>2, <3>1, <3>4
  <2> QED BY <2>3, <2>4
<1>4. CASE inbox # <<>>
  <2>1. PICK k \in {0, 1, 2, 4} : answers = <<>> /\ Rest(cmd, inbox, ruling, k)
    BY <1>1, <1>4 DEF Reading
  <2>2. ruling \in {Ack, Nack}
    BY <2>1 DEF Rest
  <2>3. /\ Rest(cmd, inbox', ruling, k + 1) /\ Len(Got(1)) = 1
        /\ Got(1)[1] = AckBytes(ruling)[k + 1]
    BY <1>1, <2>1, RestRead
  <2>4. Got(1) = <<AckBytes(ruling)[k + 1]>>
    <3>1. Got(1) \in Seq(Nat)
      BY <2>1, GotProperties DEF Rest
    <3> QED BY <2>3, <3>1
  <2>5. CASE k \in {0, 1}
    <3>1. AckBytes(ruling)[k + 1] \in {0, 4}
      BY <2>2, <2>5, AckShape
    <3>2. ~IsCode(Got(1)) /\ Got(1) # <<Ack>>
      BY <2>4, <3>1 DEF IsCode, Ack, Nack
    <3>3. CASE cmd = "hello" /\ tries = HelloReads
      <4>1. AckKnown(Got(1))
        BY <3>3 DEF ReadCode
      <4>2. pc' = "connected" /\ ~ok'
        BY <3>2, <3>3, <4>1 DEF AckKnown, Goto, Answered
      <4> QED BY <1>1, <3>3, <4>2 DEF VerdictInv
    <3>4. CASE ~ (cmd = "hello" /\ tries = HelloReads)
      <4>1. Goto("code") /\ UnchangedDevice
        BY <3>2, <3>4 DEF ReadCode
      <4>2. UNCHANGED <<answers, ruling>> /\ k + 1 \in {0, 1, 2, 4}
        BY <2>5, <4>1 DEF UnchangedDevice, deviceVars
      <4>3. Reading({0, 1, 2, 4})'
        BY <1>1, <2>1, <2>3, <4>2 DEF Reading
      <4> QED BY <1>2, <4>1, <4>3
    <3> QED BY <3>3, <3>4
  <2>6. CASE k \in {2, 4}
    <3>1. Got(1) = <<ruling>>
      <4>1. AckBytes(ruling)[k + 1] = ruling
        BY <2>2, <2>6, AckShape
      <4> QED BY <2>4, <4>1
    <3>2. IsCode(Got(1)) /\ AckKnown(Got(1))
      <4>1. IsCode(Got(1))
        BY <2>2, <3>1 DEF IsCode
      <4> QED BY <4>1 DEF ReadCode
    <3>3. ruling' = ruling /\ ok' = (ruling' = Ack) /\ k + 1 \in {3, 5}
      <4>1. ruling' = ruling
        BY <1>1, <3>2 DEF AckKnown, Commands
      <4>2. ok' = (ruling = Ack)
        BY <3>1, <3>2 DEF AckKnown
      <4> QED BY <2>6, <4>1, <4>2
    <3>4. CASE cmd \in Filing
      <4>1. pc' = "header" /\ answers' \in {<<>>, <<StatusBytes>>}
        <5>1. Goto("header") /\ answers' = IF alive THEN Append(answers, StatusBytes) ELSE answers
          BY <3>2, <3>4, Zenon DEF AckKnown, Filing
        <5> QED BY <2>1, <5>1 DEF Goto
      <4>2. answers' \in {<<>>, <<StatusBytes>>'}
        <5>1. job' = job
          BY DEF ReadCode, UnchangedButIO
        <5> QED BY <4>1, <5>1 DEF StatusBytes
      <4>3. HeaderAwaited'
        BY <1>1, <2>3, <3>3, <4>2 DEF HeaderAwaited
      <4> QED BY <1>1, <2>2, <3>3, <3>4, <4>1, <4>3 DEF VerdictInv
    <3>5. CASE cmd = "version"
      <4>1. /\ answers' = answers /\ (ok' => pc' = "vlength") /\ (~ok' => pc' = "versioned")
        BY <3>2, <3>5 DEF AckKnown, Goto
      <4> QED BY <2>1, <3>3, <4>1 DEF VerdictInv
    <3>6. CASE cmd \in {"hello", "erase"}
      <4>1. /\ answers' = answers /\ (cmd = "hello" => pc' = "connected") /\ (cmd = "erase" => pc' = "erased")
        BY <3>2, <3>6 DEF AckKnown, Goto, Answered
      <4> QED BY <1>1, <2>1, <3>3, <3>6, <4>1 DEF VerdictInv
    <3> QED BY <1>1, <3>4, <3>5, <3>6 DEF Commands, Filing
  <2> QED BY <2>5, <2>6
<1> QED BY <1>3, <1>4

(* The status: its header is read when it is there, and its payload is all *)
(* that is left.                                                           *)
LEMMA StatusVerdict ==
  ASSUME VerdictInv, ReadHeader \/ ReadPayload
  PROVE  VerdictInv'
<1>1. UNCHANGED <<cmd, ok, ruling, answers>>
  BY DEF ReadHeader, ReadPayload, UnchangedDevice, deviceVars
<1>2. CASE ReadHeader
  <2>1. pc = "header" /\ Reads(3) /\ HeaderAwaited
    BY <1>2 DEF ReadHeader, VerdictInv
  <2>2. CASE \E k \in {3, 5} : Rest(cmd, inbox, ruling, k)
    <3>1. inbox \in Seq(Nat) /\ Len(inbox) =< 2
      <4>1. cmd # "version"
        BY <2>1 DEF VerdictInv, Filing
      <4> QED BY <2>2, <4>1 DEF Rest
    <3>2. Len(Got(3)) < 3
      <4>1. Len(Got(3)) = (IF 3 < Len(inbox) THEN 3 ELSE Len(inbox)) /\ Len(inbox) \in Nat
        BY <3>1, LenProperties, GotProperties
      <4> QED BY <3>1, <4>1
    <3>3. pc' = "ended"
      BY <1>2, <3>2 DEF ReadHeader, End
    <3> QED BY <3>3 DEF VerdictInv
  <2>3. CASE /\ answers = <<>> /\ inbox \in Seq(Nat) /\ Len(inbox) >= 3
             /\ 256 * inbox[1] + inbox[2] - 2 >= Len(inbox) - 3
    <3>0. inbox \in Seq(Nat) /\ Len(inbox) >= 3 /\ Len(inbox) \in Nat
      BY <2>3, LenProperties
    <3>1. inbox[1] \in Nat /\ inbox[2] \in Nat
      <4>1. 1 \in 1 .. Len(inbox) /\ 2 \in 1 .. Len(inbox)
        BY <3>0
      <4> QED BY <3>0, <4>1, ElementOfSeq
    <3>2. Len(Got(3)) = 3 /\ Got(3)[1] = inbox[1] /\ Got(3)[2] = inbox[2]
      <4>1. Len(Got(3)) = (IF 3 < Len(inbox) THEN 3 ELSE Len(inbox))
        BY <3>0, GotProperties
      <4>2. \A i \in 1 .. Len(Got(3)) : Got(3)[i] = inbox[i]
        BY <3>0, GotProperties
      <4>3. Len(Got(3)) = 3
        <5>1. ASSUME NEW n \in Nat, n >= 3 PROVE (IF 3 < n THEN 3 ELSE n) = 3
          BY <5>1
        <5> QED BY <3>0, <4>1, <5>1
      <4>4. 1 \in 1 .. Len(Got(3)) /\ 2 \in 1 .. Len(Got(3))
        BY <4>3
      <4> QED BY <4>2, <4>3, <4>4
    <3>3. inbox' = SubSeq(inbox, 4, Len(inbox))
      <4>1. inbox' = SubSeq(inbox, Len(Got(3)) + 1, Len(inbox)) /\ 3 + 1 = 4
        BY <2>1 DEF Reads
      <4> QED BY <3>2, <4>1
    <3>4. \A i \in 4 .. Len(inbox) : inbox[i] \in Nat
      BY <3>0, ElementOfSeq
    <3>5. inbox' \in Seq(Nat) /\ Len(inbox') = Len(inbox) - 3
      <4>1. inbox' \in Seq(Nat) /\ Len(inbox') = (IF 4 <= Len(inbox) THEN Len(inbox) - 4 + 1 ELSE 0)
        BY <3>0, <3>3, <3>4, SubSeqProperties
      <4>2. ASSUME NEW n \in Nat, n >= 3 PROVE (IF 4 <= n THEN n - 4 + 1 ELSE 0) = n - 3
        BY <4>2
      <4> QED BY <3>0, <4>1, <4>2
    <3>6. pc' = "payload" /\ want' = 256 * inbox[1] + inbox[2] - 2
      <4>1. IF Len(Got(3)) < 3 THEN End("crashed") /\ UNCHANGED want
            ELSE Goto("payload") /\ want' = 256 * Got(3)[1] + Got(3)[2] - 2
        BY <1>2 DEF ReadHeader
      <4>2. Goto("payload") /\ want' = 256 * Got(3)[1] + Got(3)[2] - 2
        <5>1. Len(Got(3)) = 3 /\ ~ (3 < 3)
          BY <3>2
        <5>2. ~ (Len(Got(3)) < 3)
          BY <5>1, Zenon
        <5> QED BY <4>1, <5>2, Zenon
      <4> QED BY <3>2, <4>2 DEF Goto
    <3>7. want' \in Int /\ want' >= Len(inbox')
      BY <2>3, <3>0, <3>1, <3>5, <3>6
    <3>8. cmd \in Filing /\ ruling \in {Ack, Nack} /\ ok = (ruling = Ack)
      BY <2>1 DEF VerdictInv
    <3> QED BY <1>1, <2>3, <3>5, <3>6, <3>7, <3>8 DEF VerdictInv
  <2> QED BY <2>1, <2>2, <2>3 DEF HeaderAwaited
<1>3. CASE ReadPayload
  <2>1. /\ pc = "payload" /\ Reads(want) /\ cmd \in Filing /\ ok = (ruling = Ack)
        /\ answers = <<>> /\ inbox \in Seq(Nat) /\ want \in Int /\ want >= Len(inbox)
    BY <1>3 DEF ReadPayload, VerdictInv
  <2>2. Len(inbox) \in Nat /\ want \in Nat
    BY <2>1, LenProperties
  <2>3. Len(Got(want)) = Len(inbox)
    BY <2>1, <2>2, GotProperties
  <2>4. inbox' = <<>>
    BY <2>1, <2>2, <2>3, SubSeqEmpty DEF Reads
  <2>5. pc' \in {"send", "sent", "filed"}
    BY <1>3, <2>1 DEF ReadPayload, Goto, Answered, Filing
  <2> QED BY <1>1, <2>1, <2>4, <2>5 DEF VerdictInv
<1> QED BY <1>2, <1>3

LEMMA VersionVerdict ==
  ASSUME VerdictInv, ReadVersionLength \/ ReadVersionCrc \/ ReadVersion
  PROVE  VerdictInv'
<1>1. /\ pc \in {"vlength", "vcrc", "vbody"} /\ UNCHANGED <<ruling, answers>>
      /\ answers = <<>> /\ ok /\ ruling = Ack
  BY DEF ReadVersionLength, ReadVersionCrc, ReadVersion, UnchangedDevice, deviceVars, VerdictInv
<1>2. pc' = "versioned" \/ (pc' \in {"vcrc", "vbody"} /\ ok' = ok)
  BY DEF ReadVersionLength, ReadVersionCrc, ReadVersion, NoVersion, Goto
<1> QED BY <1>1, <1>2 DEF VerdictInv

(* What a residue of the acknowledgement makes the length of the status *)
LEMMA LongEnough ==
  ASSUME NEW a, NEW b, NEW n, NEW m, a = 0, b \in {204, 51}, n \in {7, 4}, m = 2 + n
  PROVE  m >= 3 /\ 256 * a + b - 2 >= m - 3
<1>1. CASE b = 204
  BY <1>1
<1>2. CASE b = 51
  BY <1>2
<1> QED BY <1>1, <1>2

(* An answer arrives where one is awaited *)
LEMMA DeliverVerdict ==
  ASSUME VerdictInv, Deliver
  PROVE  VerdictInv'
<1>1. answers # <<>> /\ answers' = Tail(answers) /\ UNCHANGED <<pc, cmd, ok, want, ruling, job>>
  BY DEF Deliver
<1>2. ASSUME NEW K \in SUBSET (0 .. 5), 0 \in K, Reading(K)
      PROVE  Reading(K)'
  <2>1. PICK s : inbox = <<>> /\ answers = <<s>> /\ Rest(cmd, s, ruling, 0)
    BY <1>1, <1>2 DEF Reading
  <2>2. answers' = <<>> /\ Head(answers) = s
    BY <1>1, <2>1
  <2>3. inbox' = s \/ inbox' = <<>>
    <3>1. s \in Seq(Nat)
      BY <2>1 DEF Rest
    <3>2. <<>> \o s = s
      BY <3>1, ConcatEmptySeq
    <3> QED BY <2>1, <2>2, <3>2 DEF Deliver
  <2> QED BY <1>1, <1>2, <2>1, <2>2, <2>3 DEF Reading
<1>3. CASE pc = "length"
  BY <1>1, <1>2, <1>3 DEF VerdictInv
<1>4. CASE pc = "checksum"
  BY <1>1, <1>2, <1>4 DEF VerdictInv
<1>5. CASE pc = "zero"
  BY <1>1, <1>2, <1>5 DEF VerdictInv
<1>6. CASE pc = "code"
  BY <1>1, <1>2, <1>6 DEF VerdictInv
<1>7. CASE pc = "header"
  <2>1. PICK k \in {3, 5} : answers = <<StatusBytes>> /\ Rest(cmd, inbox, ruling, k)
    BY <1>1, <1>7 DEF VerdictInv, HeaderAwaited
  <2>2. answers' = <<>> /\ Head(answers) = StatusBytes
    BY <1>1, <2>1
  <2>3. HeaderAwaited'
    <3>1. CASE inbox' = inbox
      BY <1>1, <2>1, <2>2, <3>1 DEF HeaderAwaited
    <3>2. CASE inbox' = inbox \o StatusBytes
      <4>1. inbox \in Seq(Nat) /\ ruling \in {Ack, Nack} /\ Len(inbox) = 5 - k
            /\ (k = 3 => inbox[1] = 0 /\ inbox[2] = ruling)
        <5>1. cmd # "version" /\ ruling \in {Ack, Nack}
          BY <1>7 DEF VerdictInv, Filing
        <5>2. ASSUME k = 3 PROVE inbox[1] = 0 /\ inbox[2] = ruling
          <6>1. inbox[1] = AckBytes(ruling)[4] /\ inbox[2] = AckBytes(ruling)[5]
            BY <2>1, <5>2 DEF Rest
          <6> QED BY <5>1, <6>1, AckShape
        <5> QED BY <2>1, <5>1, <5>2 DEF Rest
      <4>2. /\ inbox' \in Seq(Nat) /\ Len(inbox') = Len(inbox) + Len(StatusBytes)
            /\ \A i \in 1 .. Len(inbox) + Len(StatusBytes) :
                 inbox'[i] = IF i <= Len(inbox) THEN inbox[i] ELSE StatusBytes[i - Len(inbox)]
        BY <3>2, <4>1, StatusShape, ConcatProperties
      <4>3. CASE k = 5
        <5>1. Len(inbox) = 0
          BY <4>1, <4>3
        <5>2. inbox'[1] = StatusBytes[1] /\ inbox'[2] = StatusBytes[2] /\ Len(inbox') = Len(StatusBytes)
          BY <4>2, <5>1, StatusShape
        <5>3. Len(inbox') >= 3 /\ 256 * inbox'[1] + inbox'[2] - 2 >= Len(inbox') - 3
          <6>1. CASE Len(StatusBytes) = 7 /\ StatusBytes[2] = 6
            <7>1. inbox'[1] = 0 /\ inbox'[2] = 6 /\ Len(inbox') = 7
              BY <5>2, <6>1, StatusShape
            <7> QED BY <7>1
          <6>2. CASE Len(StatusBytes) = 4 /\ StatusBytes[2] = 3
            <7>1. inbox'[1] = 0 /\ inbox'[2] = 3 /\ Len(inbox') = 4
              BY <5>2, <6>2, StatusShape
            <7> QED BY <7>1
          <6> QED BY <6>1, <6>2, StatusShape
        <5> QED BY <2>2, <4>2, <5>3 DEF HeaderAwaited
      <4>4. CASE k = 3
        <5>1. Len(inbox) = 2
          BY <4>1, <4>4
        <5>2. inbox'[1] = 0 /\ inbox'[2] = ruling /\ Len(inbox') = 2 + Len(StatusBytes)
          BY <4>1, <4>2, <4>4, <5>1, StatusShape
        <5>3. Len(inbox') >= 3 /\ 256 * inbox'[1] + inbox'[2] - 2 >= Len(inbox') - 3
          <6>1. inbox'[1] = 0 /\ inbox'[2] \in {204, 51}
            BY <4>1, <5>2 DEF Ack, Nack
          <6>2. Len(StatusBytes) \in {7, 4}
            BY StatusShape
          <6> QED BY <5>2, <6>1, <6>2, LongEnough
        <5> QED BY <2>2, <4>2, <5>3 DEF HeaderAwaited
      <4> QED BY <4>3, <4>4
    <3> QED BY <2>2, <3>1, <3>2 DEF Deliver
  <2> QED BY <1>1, <1>7, <2>3 DEF VerdictInv
<1>8. CASE pc \notin {"length", "checksum", "zero", "code", "header"}
  BY <1>1, <1>8 DEF VerdictInv
<1> QED BY <1>3, <1>4, <1>5, <1>6, <1>7, <1>8

LEMMA QuietVerdict ==
  ASSUME VerdictInv, Finish \/ Cancel \/ Die \/ UNCHANGED vars
  PROVE  VerdictInv'
<1>1. UNCHANGED <<pc, cmd, ok, want, inbox, ruling, job>> /\ (answers' = answers \/ answers' = <<>>)
  BY DEF Finish, Cancel, Die, UnchangedDevice, vars, ioVars, deviceVars
<1>2. StatusBytes' = StatusBytes
  BY <1>1 DEF StatusBytes
<1> QED BY <1>1, <1>2 DEF VerdictInv, Reading, HeaderAwaited

LEMMA VerdictStep == CancelInv /\ VerdictInv /\ [Next]_vars => VerdictInv'
BY OutsideVerdict, FileVerdict, EarlyVerdict, CodeVerdict, StatusVerdict, VersionVerdict, DeliverVerdict,
   QuietVerdict DEF Next, Program

(* _read_ack, _send_command and their callers: however late the bytes come *)
(* and however far the reads of header, checksum and code are out of step  *)
(* with the packet, a command is held for accepted only if the bootloader  *)
(* has accepted that very one, and for refused only if it has not.         *)
THEOREM FlasherHearsVerdict == Spec => []VerdictIsDevices
<1>1. VerdictInv => VerdictIsDevices
  BY DEF VerdictInv, VerdictIsDevices, Ack, Nack
<1> QED BY <1>1, CancelInit, CancelStep, VerdictInit, VerdictStep, PTL DEF Spec

-----------------------------------------------------------------------------
(* The files that are stored *)

(* A file is being downloaded, or the files have begun to be *)
Current == pc \in {"send", "sent", "filed"} \/ (pc \in Answering /\ cmd \in Filing)
Begun == Current \/ pc \in {"file", "ended"}
Erasing == pc \in {"erase", "erased"} \/ (pc \in Answering /\ cmd = "erase")

(* The list that is gone through is that of the job, and not yet at its end *)
FilesKnown ==
  /\ pc = "versioned" /\ ok => pg3
  /\ Current \/ pc = "file" => Len(list) = Len(job.files)
  /\ Erasing /\ job.command # "Format" => Len(list) = Len(job.files)
  /\ Current => file =< Len(list)

(* While the result is good, what the bootloader holds of the file is what *)
(* has been sent of it, less the chunk it has not accepted.                *)
InTransfer ==
  /\ pc = "send" => cmd = "start"
  /\ pc = "sent" => cmd = "chunk"
  /\ pc = "filed" => cmd = "close"
  /\ Current /\ cmd = "start" => held[file] = 0 /\ chunk = 0
  /\ Current /\ cmd = "chunk" /\ result => held[file] = IF ruling = Ack THEN chunk ELSE chunk - 1
  /\ Current /\ cmd = "close" /\ result => held[file] = Chunks(list[file])

(* Files reported have been left behind, and those to come hold nothing yet *)
HeldOnly ==
  /\ reported \subseteq 1 .. file - 1
  /\ ~Begun => reported = {}
  /\ pc # "ended" => \A f \in 1 .. Len(job.files) : f > file \/ (f = file /\ ~Current) => held[f] = 0

(* What the bootloader holds of each file, next to where download_file is *)
StoredInv ==
  /\ job \in Jobs /\ held \in [1 .. Len(job.files) -> Nat] /\ file \in Nat \ {0} /\ chunk \in Nat
  /\ result \in BOOLEAN
  /\ HeldOnly /\ FilesKnown /\ InTransfer /\ StoredIfReported

-----------------------------------------------------------------------------
LEMMA StoredInit == Init => StoredInv
<1> SUFFICES ASSUME Init PROVE StoredInv
  OBVIOUS
<1>1. ~Current /\ pc = "begin" /\ ~Begun /\ ~Erasing
  BY DEF Init, Current, Begun, Erasing, Answering
<1>2. held \in [1 .. Len(job.files) -> Nat] /\ \A f \in 1 .. Len(job.files) : held[f] = 0
  BY DEF Init
<1>3. reported = {} /\ file = 1 /\ chunk = 0 /\ result = TRUE /\ job \in Jobs
  BY DEF Init
<1> QED BY <1>1, <1>2, <1>3 DEF StoredInv, HeldOnly, FilesKnown, InTransfer, StoredIfReported

(* The program ends *)
LEMMA EndsStored ==
  ASSUME StoredInv, pc' = "ended", UNCHANGED <<job, held, reported, file, chunk, result>>,
         reported # {} => list' = list
  PROVE  StoredInv'
<1>1. ~Current' /\ Begun' /\ ~Erasing'
  BY DEF Current, Begun, Erasing, Answering
<1> QED BY <1>1 DEF StoredInv, HeldOnly, FilesKnown, InTransfer, StoredIfReported

(* The answer to a command is read *)
LEMMA ReadStored ==
  ASSUME StoredInv, pc \in Answering,
         UNCHANGED <<job, list, file, chunk, result, held, reported, ruling, cmd>>,
         \/ pc' \in Answering
         \/ pc' = "send" /\ cmd = "start"
         \/ pc' = "sent" /\ cmd = "chunk"
         \/ pc' = "filed" /\ cmd = "close"
         \/ pc' = "erased" /\ cmd = "erase"
         \/ pc' \in {"connected", "vlength"} /\ cmd \notin Filing
         \/ pc' = "versioned" /\ ~ok' /\ cmd \notin Filing
  PROVE  StoredInv'
<1>1. Current' = Current /\ Begun' = Begun /\ (Erasing' => Erasing) /\ pc \notin {"ended", "file"} /\ pc' \notin {"ended", "file"}
  BY DEF Current, Begun, Erasing, Answering, Filing
<1>2. pc' = "versioned" => ~ok'
  BY DEF Answering
<1>3. HeldOnly' /\ StoredIfReported'
  BY <1>1 DEF StoredInv, HeldOnly, StoredIfReported
<1>4. FilesKnown'
  BY <1>1, <1>2 DEF StoredInv, FilesKnown
<1>5. InTransfer'
  BY <1>1 DEF StoredInv, InTransfer, Answering
<1> QED BY <1>3, <1>4, <1>5 DEF StoredInv

(* Steps between the commands, outside of a file *)
LEMMA BetweenStored ==
  ASSUME StoredInv, ~Current, ~Current', pc \notin {"ended"}, pc' # "ended", Begun => Begun',
         UNCHANGED <<job, file, chunk, result, held, reported>>,
         reported # {} => list' = list, FilesKnown'
  PROVE  StoredInv'
<1>1. HeldOnly' /\ StoredIfReported'
  BY DEF StoredInv, HeldOnly, StoredIfReported
<1>2. InTransfer'
  BY DEF InTransfer, Current
<1> QED BY <1>1, <1>2 DEF StoredInv

(* What a command changes of what the bootloader holds *)
LEMMA SendHeld ==
  ASSUME NEW c, Send(c)
  PROVE  /\ pc' = "length" /\ cmd' = c
         /\ held' = IF ruling' = Ack /\ c = "chunk" THEN [held EXCEPT ![file'] = @ + 1] ELSE held
<1>1. pc' = "length" /\ cmd' = c /\ Hears(c)
  BY DEF Send
<1>2. CASE ~alive
  BY <1>1, <1>2 DEF Hears, Ack
<1>3. CASE alive
  <2>1. \E v \in {Ack, Nack} :
          ruling' = v /\ held' = IF v = Ack /\ c = "chunk" THEN [held EXCEPT ![file'] = @ + 1] ELSE held
    BY <1>1, <1>3 DEF Hears
  <2> QED BY <1>1, <2>1
<1> QED BY <1>2, <1>3

(* Commands that are not about a file leave what is held as it was *)
LEMMA CommandStored ==
  ASSUME StoredInv, ~Current, pc # "ended", NEW c \in {"hello", "version", "erase"}, Send(c),
         Begun => FALSE, c = "erase" => Erasing,
         UNCHANGED <<job, list, file, chunk, result, reported>>
  PROVE  StoredInv'
<1>1. pc' = "length" /\ cmd' = c /\ held' = held
  BY SendHeld
<1>2. ~Current' /\ ~Begun' /\ (Erasing' => Erasing)
  BY <1>1 DEF Current, Begun, Erasing, Answering, Filing
<1>3. FilesKnown'
  BY <1>1, <1>2 DEF StoredInv, FilesKnown
<1> QED BY <1>1, <1>2, <1>3, BetweenStored

LEMMA OutsideStored ==
  ASSUME StoredInv,
         CopyMain \/ CliMain \/ UiMain \/ Connect \/ Connected \/ Aborting \/ Erase \/ Erased
  PROVE  StoredInv'
<1>1. CASE CopyMain \/ CliMain \/ UiMain
  <2>1. /\ pc = "begin" /\ pc' \in {"ended", "job"}
        /\ UNCHANGED <<job, list, file, chunk, result, held, reported>>
    BY <1>1 DEF CopyMain, CliMain, UiMain, End, Goto, UnchangedDevice, deviceVars, UnchangedFile, fileVars
  <2>2. CASE pc' = "job"
    <3>1. ~Current /\ ~Begun /\ ~Current' /\ ~Erasing'
      BY <2>1, <2>2 DEF Current, Begun, Erasing, Answering
    <3>2. FilesKnown'
      BY <2>2, <3>1 DEF FilesKnown
    <3> QED BY <2>1, <2>2, <3>1, <3>2, BetweenStored
  <2> QED BY <2>1, <2>2, EndsStored
<1>2. CASE Connect
  <2>1. pc = "job" /\ UNCHANGED <<job, list, file, chunk, result, reported>>
    BY <1>2 DEF Connect, fileVars
  <2>2. Send("hello") \/ (pc' = "ended" /\ held' = held)
    BY <1>2 DEF Connect, End, UnchangedDevice, deviceVars
  <2>3. ~Current /\ ~Begun
    BY <2>1 DEF Current, Begun, Answering
  <2> QED BY <2>1, <2>2, <2>3, CommandStored, EndsStored
<1>3. CASE Connected
  <2>1. pc = "connected" /\ UNCHANGED <<job, list, file, chunk, result, reported>>
    BY <1>3 DEF Connected, fileVars, UnchangedFile
  <2>2. \/ Send("version")
        \/ pc' = "ended" /\ held' = held
        \/ pc' = "erase" /\ held' = held /\ job.command = "Format"
    BY <1>3 DEF Connected, End, Goto, UnchangedDevice, deviceVars
  <2>3. ~Current /\ ~Begun
    BY <2>1 DEF Current, Begun, Answering
  <2>4. CASE pc' = "erase" /\ held' = held /\ job.command = "Format"
    <3>1. ~Current'
      BY <2>4 DEF Current, Answering
    <3>2. FilesKnown'
      BY <2>1, <2>4, <3>1 DEF FilesKnown
    <3> QED BY <2>1, <2>3, <2>4, <3>1, <3>2, BetweenStored
  <2> QED BY <2>1, <2>2, <2>3, <2>4, CommandStored, EndsStored
<1>4. CASE Aborting
  <2>1. pc' = "ended" /\ UNCHANGED <<job, list, file, chunk, result, held, reported>>
    BY <1>4 DEF Aborting, End, UnchangedDevice, deviceVars, fileVars
  <2> QED BY <2>1, EndsStored
<1>5. CASE Erase
  <2>1. pc = "erase" /\ UNCHANGED <<job, list, file, chunk, result, reported>>
    BY <1>5 DEF Erase, fileVars, UnchangedFile
  <2>2. Send("erase") \/ (pc' = "erased" /\ held' = held)
    BY <1>5 DEF Erase, Goto, UnchangedDevice, deviceVars
  <2>3. ~Current /\ ~Begun /\ Erasing
    BY <2>1 DEF Current, Begun, Erasing, Answering
  <2>4. CASE pc' = "erased" /\ held' = held
    <3>1. ~Current'
      BY <2>4 DEF Current, Answering
    <3>2. FilesKnown'
      BY <2>1, <2>3, <2>4, <3>1 DEF StoredInv, FilesKnown
    <3> QED BY <2>1, <2>3, <2>4, <3>1, <3>2, BetweenStored
  <2> QED BY <2>1, <2>2, <2>3, <2>4, CommandStored
<1>6. CASE Erased
  <2>1. /\ pc = "erased" /\ UNCHANGED <<job, list, file, chunk, result, held, reported>>
        /\ pc' = "ended" \/ (pc' = "file" /\ job.command # "Format")
    BY <1>6 DEF Erased, End, Goto, UnchangedFile, UnchangedDevice, deviceVars, fileVars
  <2>2. CASE pc' = "file" /\ job.command # "Format"
    <3>1. ~Current /\ ~Begun /\ Erasing /\ ~Current' /\ Begun' /\ ~Erasing'
      BY <2>1, <2>2 DEF Current, Begun, Erasing, Answering
    <3>2. FilesKnown'
      BY <2>1, <2>2, <3>1 DEF StoredInv, FilesKnown
    <3> QED BY <2>1, <2>2, <3>1, <3>2, BetweenStored
  <2> QED BY <2>1, <2>2, EndsStored
<1> QED BY <1>1, <1>2, <1>3, <1>4, <1>5, <1>6

(* With the version known, the list is the files given: the version is     *)
(* never found in the table, so addAutomaticDownload adds nothing.         *)
LEMMA VersionedStored ==
  ASSUME StoredInv, Versioned
  PROVE  StoredInv'
<1> DEFINE files == WithConfig(job.files, pg3)
           typed == [i \in 1 .. Len(files) |->
                       [size |-> files[i].size, type |-> FileType(job.part, pg3, files[i])]]
<1>1. /\ pc = "versioned" /\ UNCHANGED <<job, file, chunk, result, held, reported, ok>>
  BY DEF Versioned, UnchangedFile, UnchangedDevice, deviceVars, NothingRead
<1>2. ~Current /\ ~Begun /\ ~Erasing /\ reported = {}
  BY <1>1 DEF Current, Begun, Erasing, Answering, StoredInv, HeldOnly
<1>3. \/ pc' \in {"ended", "aborting"}
      \/ pc' \in {"erase", "file"} /\ ok /\ list' = typed
  BY DEF Versioned, End, Goto
<1>4. CASE pc' = "ended"
  BY <1>1, <1>2, <1>4, EndsStored
<1>5. CASE pc' # "ended"
  <2>1. ~Current'
    BY <1>3, <1>5 DEF Current, Answering
  <2>2. CASE pc' \in {"erase", "file"} /\ ok /\ list' = typed
    <3>1. pg3 /\ files = job.files
      BY <1>1, <2>2 DEF StoredInv, FilesKnown, WithConfig
    <3>2. Len(job.files) \in Nat
      BY FlasherAssumption DEF StoredInv
    <3>3. list' = [i \in 1 .. Len(job.files) |->
                     [size |-> job.files[i].size, type |-> FileType(job.part, pg3, job.files[i])]]
      BY <2>2, <3>1
    <3>4. Len(list') = Len(job.files)
      BY <3>2, <3>3
    <3>5. FilesKnown'
      BY <1>1, <2>1, <2>2, <3>4 DEF FilesKnown
    <3> QED BY <1>1, <1>2, <1>5, <2>1, <3>5, BetweenStored
  <2>3. CASE pc' = "aborting"
    <3>1. ~Erasing'
      BY <2>3 DEF Erasing, Answering
    <3>2. FilesKnown'
      BY <2>1, <2>3, <3>1 DEF FilesKnown
    <3> QED BY <1>1, <1>2, <1>5, <2>1, <3>2, BetweenStored
  <2> QED BY <1>3, <1>5, <2>2, <2>3
<1> QED BY <1>4, <1>5

LEMMA StartStored ==
  ASSUME StoredInv, StartFile
  PROVE  StoredInv'
<1>1. pc = "file" /\ UNCHANGED <<job, list, file, reported>>
  BY DEF StartFile, UnchangedFile
<1>2. \/ pc' = "ended" /\ UNCHANGED <<chunk, result, held>>
      \/ file =< Len(list) /\ chunk' = 0 /\ result' = TRUE /\ Send("start")
  <2>1. Len(list) \in Nat /\ file \in Nat
    BY <1>1, FlasherAssumption DEF StoredInv, FilesKnown
  <2>2. file > Len(list) \/ file =< Len(list)
    BY <2>1
  <2> QED BY <2>2 DEF StartFile, End, UnchangedDevice, deviceVars
<1>3. CASE pc' = "ended" /\ UNCHANGED <<chunk, result, held>>
  BY <1>1, <1>3, EndsStored
<1>4. CASE file =< Len(list) /\ chunk' = 0 /\ result' = TRUE /\ Send("start")
  <2>1. pc' = "length" /\ cmd' = "start" /\ held' = held
    BY <1>4, SendHeld
  <2>2. ~Current /\ Begun /\ Current' /\ Begun' /\ ~Erasing'
    BY <1>1, <2>1 DEF Current, Begun, Erasing, Answering, Filing
  <2>3. FilesKnown'
    BY <1>1, <1>4, <2>1, <2>2 DEF StoredInv, FilesKnown
  <2>4. held[file] = 0
    <3>1. file \in 1 .. Len(job.files)
      <4>1. Len(list) = Len(job.files) /\ Len(job.files) \in Nat /\ file \in Nat \ {0}
        BY <1>1, FlasherAssumption DEF StoredInv, FilesKnown
      <4> QED BY <1>4, <4>1
    <3> QED BY <1>1, <2>2, <3>1 DEF StoredInv, HeldOnly
  <2>5. InTransfer'
    BY <1>1, <1>4, <2>1, <2>4 DEF InTransfer
  <2>6. HeldOnly' /\ StoredIfReported'
    BY <1>1, <2>1, <2>2 DEF StoredInv, HeldOnly, StoredIfReported
  <2> QED BY <1>1, <1>4, <2>1, <2>3, <2>5, <2>6 DEF StoredInv
<1> QED BY <1>2, <1>3, <1>4

(* A chunk goes out, with all that went before it accepted while the       *)
(* result is good                                                          *)
LEMMA ChunkStored ==
  ASSUME StoredInv, Current, Send("chunk"), chunk' = chunk + 1, result' => result /\ held[file] = chunk,
         result' \in BOOLEAN, UNCHANGED <<job, list, file, reported>>
  PROVE  StoredInv'
<1>1. /\ pc' = "length" /\ cmd' = "chunk"
      /\ held' = IF ruling' = Ack THEN [held EXCEPT ![file] = @ + 1] ELSE held
  BY SendHeld
<1>2. Current' /\ Begun /\ Begun' /\ ~Erasing' /\ pc # "ended"
  BY <1>1 DEF Current, Begun, Erasing, Answering, Filing
<1>3. file \in 1 .. Len(job.files) /\ held[file] \in Nat /\ chunk \in Nat
  <2>1. Len(list) = Len(job.files) /\ Len(job.files) \in Nat /\ file \in Nat \ {0} /\ file =< Len(list)
    BY FlasherAssumption DEF StoredInv, FilesKnown
  <2>2. file \in 1 .. Len(job.files)
    BY <2>1
  <2> QED BY <2>2 DEF StoredInv
<1>4. /\ held' \in [1 .. Len(job.files) -> Nat]
      /\ held'[file] = IF ruling' = Ack THEN held[file] + 1 ELSE held[file]
      /\ \A f \in 1 .. Len(job.files) : f # file => held'[f] = held[f]
  BY <1>1, <1>3 DEF StoredInv
<1>5. FilesKnown'
  BY <1>1, <1>2 DEF StoredInv, FilesKnown
<1>6. InTransfer'
  BY <1>1, <1>3, <1>4 DEF InTransfer
<1>7. HeldOnly'
  <2>1. ASSUME NEW f \in 1 .. Len(job.files), f > file PROVE held'[f] = 0
    <3>1. f # file /\ held[f] = 0
      BY <1>2, <1>3, <2>1 DEF StoredInv, HeldOnly
    <3> QED BY <1>4, <3>1
  <2> QED BY <1>2, <2>1 DEF StoredInv, HeldOnly
<1>8. StoredIfReported'
  <2>1. ASSUME NEW f \in reported PROVE held'[f] = held[f]
    <3>1. f # file
      BY <1>3 DEF StoredInv, HeldOnly
    <3> QED BY <1>1, <3>1 DEF StoredInv
  <2> QED BY <2>1 DEF StoredInv, StoredIfReported
<1> QED BY <1>3, <1>4, <1>5, <1>6, <1>7, <1>8 DEF StoredInv

LEMMA FileStored ==
  ASSUME VerdictInv, StoredInv, SendChunk \/ ChunkAnswered \/ FileDone
  PROVE  StoredInv'
<1>1. CASE SendChunk
  <2>1. /\ pc = "send" /\ Send("chunk") /\ chunk' = chunk + 1 /\ UNCHANGED <<job, list, file, reported, result>>
    BY <1>1 DEF SendChunk, UnchangedFile
  <2>2. Current /\ held[file] = chunk
    BY <2>1 DEF Current, StoredInv, InTransfer
  <2> QED BY <2>1, <2>2, ChunkStored DEF StoredInv
<1>2. CASE ChunkAnswered
  <2>1. /\ pc = "sent" /\ UNCHANGED <<job, list, file, reported>>
        /\ result' = (result /\ ok /\ ~cancelled) /\ ok = (ruling = Ack)
    BY <1>2 DEF ChunkAnswered, UnchangedFile, Refused, CancelSeen, VerdictInv
  <2>2. \/ Send("chunk") /\ chunk' = chunk + 1
        \/ Send("close") /\ chunk' = chunk /\ (result' => chunk = Chunks(list[file]))
    BY <1>2, <2>1 DEF ChunkAnswered, Refused, CancelSeen
  <2>3. Current /\ cmd = "chunk" /\ (result' => result /\ held[file] = chunk)
    <3>1. Current /\ cmd = "chunk"
      BY <2>1 DEF Current, StoredInv, InTransfer
    <3> QED BY <2>1, <3>1 DEF StoredInv, InTransfer
  <2>4. result' \in BOOLEAN
    BY <2>1
  <2>5. CASE Send("chunk") /\ chunk' = chunk + 1
    BY <2>1, <2>3, <2>4, <2>5, ChunkStored
  <2>6. CASE Send("close") /\ chunk' = chunk /\ (result' => chunk = Chunks(list[file]))
    <3>1. pc' = "length" /\ cmd' = "close" /\ held' = held
      BY <2>6, SendHeld
    <3>2. Current' /\ Begun /\ Begun' /\ ~Erasing' /\ pc # "ended"
      BY <2>1, <3>1 DEF Current, Begun, Erasing, Answering, Filing
    <3>3. FilesKnown'
      BY <2>1, <2>3, <3>1, <3>2 DEF StoredInv, FilesKnown
    <3>4. InTransfer'
      BY <2>1, <2>3, <2>6, <3>1 DEF InTransfer
    <3>5. HeldOnly' /\ StoredIfReported'
      BY <2>1, <2>3, <3>1, <3>2 DEF StoredInv, HeldOnly, StoredIfReported
    <3> QED BY <2>1, <2>4, <2>6, <3>1, <3>3, <3>4, <3>5 DEF StoredInv
  <2> QED BY <2>2, <2>5, <2>6
<1>3. CASE FileDone
  <2>1. pc = "filed" /\ UNCHANGED <<job, list, chunk, result, held>>
    BY <1>3 DEF FileDone, UnchangedFile, UnchangedDevice, deviceVars
  <2>2. Current /\ cmd = "close" /\ (result => held[file] = Chunks(list[file]))
    BY <2>1 DEF Current, StoredInv, InTransfer
  <2>3. \/ pc' = "ended" /\ UNCHANGED <<reported, file>>
        \/ pc' \in {"ended", "file"} /\ result /\ reported' = reported \cup {file} /\ file' = file + 1
    BY <1>3 DEF FileDone, End, Goto
  <2>4. CASE pc' = "ended" /\ UNCHANGED <<reported, file>>
    BY <2>1, <2>4, EndsStored
  <2>5. CASE pc' \in {"ended", "file"} /\ result /\ reported' = reported \cup {file} /\ file' = file + 1
    <3>1. ~Current' /\ Begun' /\ ~Erasing' /\ Begun
      BY <2>1, <2>5 DEF Current, Begun, Erasing, Answering
    <3>2. FilesKnown'
      BY <2>1, <2>2, <2>5, <3>1 DEF StoredInv, FilesKnown
    <3>3. InTransfer'
      BY <2>5, <3>1 DEF InTransfer
    <3>4. HeldOnly'
      <4>1. file' \in Nat \ {0} /\ file \in Nat \ {0} /\ reported' \subseteq 1 .. file' - 1
        BY <2>5 DEF StoredInv, HeldOnly
      <4>2. ASSUME NEW f \in 1 .. Len(job.files), f > file' \/ f = file' PROVE held[f] = 0
        <5>1. f > file
          <6>1. Len(job.files) \in Nat
            BY FlasherAssumption DEF StoredInv
          <6> QED BY <2>5, <4>1, <4>2, <6>1
        <5> QED BY <2>1, <5>1 DEF StoredInv, HeldOnly
      <4> QED BY <2>1, <3>1, <4>1, <4>2 DEF HeldOnly
    <3>5. StoredIfReported'
      BY <2>1, <2>2, <2>5 DEF StoredInv, StoredIfReported
    <3>6. file' \in Nat \ {0}
      BY <2>5 DEF StoredInv
    <3> QED BY <2>1, <3>2, <3>3, <3>4, <3>5, <3>6 DEF StoredInv
  <2> QED BY <2>3, <2>4, <2>5
<1> QED BY <1>1, <1>2, <1>3

LEMMA ReadingStored ==
  ASSUME CancelInv, VerdictInv, StoredInv,
         ReadLength \/ ReadChecksum \/ ReadZero \/ ReadCode \/ ReadHeader \/ ReadPayload
           \/ ReadVersionLength \/ ReadVersionCrc \/ ReadVersion
  PROVE  StoredInv'
<1>1. CASE ReadLength \/ ReadChecksum \/ ReadZero \/ ReadHeader \/ ReadPayload
  <2>1. UNCHANGED <<job, list, file, chunk, result, held, reported, ruling, cmd>>
    BY <1>1 DEF ReadLength, ReadChecksum, ReadZero, ReadHeader, ReadPayload, UnchangedButIO, UnchangedDevice,
                fileVars, deviceVars
  <2>2. /\ pc \in Answering
        /\ \/ pc' \in Answering
           \/ pc' = "ended"
           \/ pc' = "connected" /\ cmd = "hello"
           \/ pc' = "send" /\ cmd = "start"
           \/ pc' = "sent" /\ cmd = "chunk"
           \/ pc' = "filed" /\ cmd = "close"
    <3>1. CASE ReadLength \/ ReadChecksum \/ ReadZero \/ ReadHeader
      BY <3>1 DEF ReadLength, ReadChecksum, ReadZero, ReadHeader, Goto, End, Answering
    <3>2. CASE ReadPayload
      BY <3>2 DEF ReadPayload, Goto, Answered, Answering, VerdictInv, Filing
    <3> QED BY <1>1, <3>1, <3>2
  <2> QED BY <2>1, <2>2, ReadStored, EndsStored DEF Filing
<1>2. CASE ReadCode
  <2>1. pc = "code" /\ UNCHANGED <<job, list, file, chunk, result, reported, cmd>> /\ cmd \in Commands
    BY <1>2 DEF ReadCode, UnchangedButIO, fileVars, CancelInv, CommandAnswered, Answering
  <2>2. /\ UNCHANGED <<held, ruling>>
        /\ \/ pc' \in Answering
           \/ pc' = "connected" /\ cmd = "hello"
           \/ pc' = "erased" /\ cmd = "erase"
           \/ pc' = "vlength" /\ cmd = "version"
           \/ pc' = "versioned" /\ cmd = "version" /\ ~ok'
    <3>1. CASE AckKnown(Got(1))
      <4>1. CASE cmd \in Filing
        BY <3>1, <4>1 DEF AckKnown, Goto, Answering, Filing
      <4>2. CASE cmd = "version"
        BY <3>1, <4>2 DEF AckKnown, Goto
      <4>3. CASE cmd \in {"hello", "erase"}
        BY <3>1, <4>3 DEF AckKnown, Goto, Answered
      <4> QED BY <2>1, <4>1, <4>2, <4>3 DEF Commands, Filing
    <3>2. CASE Goto("code") /\ UnchangedDevice
      BY <3>2 DEF Goto, UnchangedDevice, deviceVars, Answering
    <3> QED BY <1>2, <3>1, <3>2 DEF ReadCode
  <2> QED BY <2>1, <2>2, ReadStored DEF Filing, Answering
<1>3. CASE ReadVersionLength \/ ReadVersionCrc \/ ReadVersion
  <2>1. UNCHANGED <<job, list, file, chunk, result, held, reported>>
    BY <1>3 DEF ReadVersionLength, ReadVersionCrc, ReadVersion, UnchangedButIO, UnchangedDevice, fileVars, deviceVars
  <2>2. /\ pc \in {"vlength", "vcrc", "vbody"} /\ pc' \in {"vcrc", "vbody", "versioned"}
        /\ (pc' = "versioned" /\ ok' => pg3')
    <3>1. CASE ReadVersionLength \/ ReadVersionCrc
      BY <3>1 DEF ReadVersionLength, ReadVersionCrc, NoVersion, Goto
    <3>2. CASE ReadVersion
      BY <3>2 DEF ReadVersion, NoVersion, Goto, InBootloaderVerPrePG3
    <3> QED BY <1>3, <3>1, <3>2
  <2>3. ~Current /\ ~Begun /\ ~Current' /\ ~Erasing'
    BY <2>2 DEF Current, Begun, Erasing, Answering
  <2>4. FilesKnown'
    BY <2>2, <2>3 DEF FilesKnown
  <2> QED BY <2>1, <2>2, <2>3, <2>4, BetweenStored
<1> QED BY <1>1, <1>2, <1>3

LEMMA QuietStored ==
  ASSUME StoredInv, Finish \/ Cancel \/ Deliver \/ Die \/ UNCHANGED vars
  PROVE  StoredInv'
<1>1. UNCHANGED <<pc, cmd, ok, ruling, pg3, job, list, file, chunk, result, held, reported>>
  BY DEF Finish, Cancel, Deliver, Die, UnchangedDevice, vars, ioVars, fileVars, deviceVars
<1>2. Current' = Current /\ Begun' = Begun /\ Erasing' = Erasing
  BY <1>1 DEF Current, Begun, Erasing
<1> QED BY <1>1, <1>2 DEF StoredInv, HeldOnly, FilesKnown, InTransfer, StoredIfReported

LEMMA StoredStep == CancelInv /\ VerdictInv /\ StoredInv /\ [Next]_vars => StoredInv'
BY OutsideStored, VersionedStored, StartStored, FileStored, ReadingStored, QuietStored DEF Next, Program

(* download_files reports a file as done only when the bootloader has      *)
(* accepted every one of its chunks, whatever was refused, lost or         *)
(* cancelled on the way and however many files were downloaded before.     *)
THEOREM FlasherStores == Spec => []StoredIfReported
<1>1. StoredInv => StoredIfReported
  BY DEF StoredInv
<1> QED BY <1>1, CancelInit, CancelStep, VerdictInit, VerdictStep, StoredInit, StoredStep, PTL DEF Spec
=============================================================================
