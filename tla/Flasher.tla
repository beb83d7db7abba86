------------------------------ MODULE Flasher ------------------------------
(***************************************************************************)
(* The flasher: mmWaveProgFlash.py speaks to the radar's bootloader over a *)
(* serial port for one of three programs: flasher.py ("cli"),              *)
(* FlashPython.py ("ui", whose user may cancel) and flasher_copy.py        *)
(* ("copy").  A command is answered with an acknowledgement of five bytes, *)
(* then its status is asked for and answered; read() returns fewer bytes   *)
(* than asked for when it times out, so answers may be read late and out   *)
(* of step.  The bytes of a file are a number of chunks.                   *)
(***************************************************************************)
EXTENDS Integers, Sequences

CONSTANTS
  Jobs,        \* what the programs are asked to do
  ChunkSize,   \* DEFAULT_CHUNK_SIZE
  MaxFileSize, \* MAX_FILE_SIZE
  HelloReads,  \* how often the answer to the break is read again: 10
  Versions     \* what the bootloader may say its version is

ASSUME FlasherAssumption ==
  /\ ChunkSize \in Nat \ {0} /\ MaxFileSize \in Nat /\ HelloReads \in Nat
  /\ Versions \subseteq Nat
  /\ \A j \in Jobs : Len(j.files) \in Nat /\ \A i \in 1 .. Len(j.files) : j.files[i].size \in Nat

Ack    == 204 \* AWR_BOOTLDR_OPCODE_ACK
Nack   == 51
Status == 64  \* AWR_BOOTLDR_OPCODE_RET_SUCCESS

IndicatorRange == 82 \* UNIFLASH_PROG_INDICATOR_RANGE
BeforeShutdown == 98 \* UNIFLASH_PROG_INDICATOR_B4_SHUTDOWN
EraseProgress  == 4  \* ERASE_PROG_VALUE

VARIABLES
  job,       \* what this program was asked to do
  pc,        \* where it is
  cmd,       \* the command being answered
  ok,        \* what the last acknowledgement was read to be
  tries,     \* reads of the code of the answer to the break
  want,      \* the length of the packet being received
  crc,       \* its checksum
  pg3,       \* PG3OrLater
  list,      \* filesList, with the type found for each file
  file,      \* the file being downloaded
  chunk,     \* chunks of it sent
  spacing,   \* spacingCnt
  result,    \* result of download_file
  percent,   \* progPercentage
  shown,     \* the percentage last shown
  pin,       \* the boot pin of flasher.py
  port,      \* "closed" or "open"
  inbox,     \* bytes the port has received
  cancelled, \* the user's flag
  reported,  \* files reported as downloaded
  outcome

(* The bootloader, and the commands' history: its ruling on the command    *)
(* being answered, the chunks it has accepted of each file; the chunks     *)
(* sent after the user cancelled.                                          *)
VARIABLES alive, answers, receiving, ruling, held, late

ioVars     == <<cmd, ok, tries, want, crc, inbox>>
fileVars   == <<list, file, chunk, spacing, result>>
deviceVars == <<alive, answers, receiving, ruling, held>>
vars == <<job, pc, ioVars, pg3, fileVars, percent, shown, pin, port, cancelled, reported,
          outcome, deviceVars, late>>

-----------------------------------------------------------------------------
(* The tables and the checks of files *)

OldTypes == <<"RadarSS_BUILD", "MSS_BUILD", "CALIB_DATA", "CONFIG_INFO">>
NewTypes == <<"META_IMAGE1", "META_IMAGE2", "META_IMAGE3", "META_IMAGE4">>

(* Part numbers as <<family, model>>: PartNumSupported, CONFIGFileParts *)
OlderModels == {"WR12", "WR14"}
Supported(p) == p \in {"AWR", "IWR"} \X {"WR12", "WR14", "WR16", "WR68", "WR18"}
ConfigPart(p) == Supported(p) /\ p[2] \in OlderModels

(* FileHeaders: the headers of the older parts are known by their type's   *)
(* name, and the one of the newer parts is "RTSM".                         *)
IsOld(p, new) == p[2] \in OlderModels /\ ~new
HeaderList(p, new) == IF IsOld(p, new) THEN OldTypes ELSE <<"RTSM">>
TypeList(p, new) == IF IsOld(p, new) THEN OldTypes ELSE NewTypes

IndexOf(s, e) == CHOOSE i \in 1 .. Len(s) : s[i] = e
InList(s, e) == \E i \in 1 .. Len(s) : s[i] = e

(* checkFileHeader: the type of a file, or "" when it is refused.  The     *)
(* order number is that of the place in the user interface.                *)
FileType(p, new, f) ==
  LET headers == HeaderList(p, new)  types == TypeList(p, new) IN
  CASE ~f.exists \/ f.size < 4 -> ""
    [] f.exists /\ f.size >= 4 /\ InList(headers, f.header) ->
         IF p[2] = "WR16" \/ new
         THEN IF f.order \in 1 .. 4 THEN types[f.order] ELSE ""
         ELSE types[IndexOf(headers, f.header)]
    [] f.exists /\ f.size >= 4 /\ ~InList(headers, f.header) ->
         IF ConfigPart(p) /\ InList(headers, f.masked) /\ f.masked \in {"RadarSS_BUILD", "MSS_BUILD"}
         THEN types[IndexOf(headers, f.masked)] ELSE ""

(* determinePGVersion: the version is a bytes object and                   *)
(* BootloaderVerPrePG3 holds strings, so it is never found there.          *)
InBootloaderVerPrePG3(version) == FALSE

(* addAutomaticDownload, which flasher.py does not call *)
ConfigFile == [exists |-> TRUE, size |-> 4, header |-> "CONFIG_INFO", masked |-> "CONFIG_INFO", order |-> 0]
WithConfig(files, new) ==
  IF job.program = "ui" /\ ~new /\ ConfigPart(job.part)
  THEN Append(files, [ConfigFile EXCEPT !.order = Len(files)]) ELSE files

(* calcProgressValues for a file, with its quotients as fractions *)
Sizes[s \in Seq(Nat)] == IF s = <<>> THEN 0 ELSE Head(s) + Sizes[Tail(s)]
AtLeastOne(a, b) == IF a < b THEN <<1, 1>> ELSE <<a, b>>
ProgressValues(files, f) ==
  LET sum    == Sizes[[i \in 1 .. Len(files) |-> files[i].size]]
      range  == AtLeastOne(files[f].size * (IndicatorRange - IF job.format THEN EraseProgress ELSE 0), sum)
      chunks == AtLeastOne(files[f].size, ChunkSize)
  IN IF chunks[1] * range[2] > range[1] * chunks[2]
     THEN [spacing |-> (chunks[1] * range[2]) \div (range[1] * chunks[2]), increment |-> 1]
     ELSE [spacing |-> 1, increment |-> (range[1] * chunks[2]) \div (chunks[1] * range[2])]

Chunks(f) == (f.size + ChunkSize - 1) \div ChunkSize

-----------------------------------------------------------------------------
(* _update_prog_msg *)
Advance(p, n) == IF p + n > BeforeShutdown THEN BeforeShutdown ELSE p + n

Shows(p) == percent' = p /\ shown' = p

(* An acknowledgement as the bootloader sends it: length, checksum, 0 and  *)
(* the code, which is then the checksum too.                               *)
AckBytes(v) == <<0, 4, v, 0, v>>
StatusBytes == IF job.storage = "SRAM" THEN <<0, 6, Status, Status, 0, 0, 0>> ELSE <<0, 3, Status, Status>>
VersionBytes(v) == <<0, 3, v, v>>

(* What the bootloader may do with command c: it refuses a chunk or a      *)
(* close of a file it is not receiving.                                    *)
Hears(c) ==
  IF ~alive THEN ruling' = 0 /\ UNCHANGED <<answers, receiving, held>>
  ELSE \E v \in {Ack, Nack} :
    /\ c \in {"chunk", "close"} /\ receiving # file' => v = Nack
    /\ ruling' = v
    /\ \E n \in Versions :
         answers' = Append(answers, IF c = "version" /\ v = Ack THEN AckBytes(v) \o VersionBytes(n)
                                    ELSE AckBytes(v))
    /\ receiving' = IF v = Nack THEN receiving
                    ELSE IF c = "start" THEN file' ELSE IF c = "close" THEN 0 ELSE receiving
    /\ held' = IF v = Ack /\ c = "chunk" THEN [held EXCEPT ![file'] = @ + 1] ELSE held

(* _send_packet(c), of which the acknowledgement is to be read *)
Send(c) ==
  /\ cmd' = c /\ pc' = "length" /\ Hears(c)
  /\ late' = IF cancelled /\ c = "chunk" THEN late + 1 ELSE late

(* _comm_open: the input is flushed *)
Opens == port' = "open" /\ inbox' = <<>>
CloseComm == port' = "closed"

End(how) == pc' = "ended" /\ outcome' = how
Goto(where) == pc' = where /\ UNCHANGED outcome

UnchangedDevice == UNCHANGED <<deviceVars, late>>

-----------------------------------------------------------------------------
(* read(): what is there, up to n bytes, when they are there or the time   *)
(* is up.                                                                  *)
Got(n) == SubSeq(inbox, 1, IF n < Len(inbox) THEN n ELSE Len(inbox))
Reads(n) == inbox' = SubSeq(inbox, Len(Got(n)) + 1, Len(inbox))

(* Where a command goes on when it has been answered *)
Answered(c) ==
  CASE c = "hello" -> "connected" [] c = "version" -> "versioned" [] c = "erase" -> "erased"
    [] c = "start" -> "send" [] c = "chunk" -> "sent" [] c = "close" -> "filed"

UnchangedButIO ==
  UNCHANGED <<job, pg3, fileVars, percent, shown, pin, cancelled, reported>>

(* The length of an acknowledgement is read once: b'' is not ''.  The      *)
(* answer to the break is followed by a look at the cancel flag.           *)
ReadLength ==
  /\ pc = "length" /\ Reads(2)
  /\ IF cmd = "hello" /\ cancelled THEN ok' = FALSE /\ Goto("connected")
     ELSE Goto("checksum") /\ UNCHANGED ok
  /\ UnchangedButIO /\ UnchangedDevice /\ UNCHANGED <<cmd, tries, want, crc, port>>

ReadChecksum ==
  /\ pc = "checksum" /\ Reads(1) /\ Goto("zero")
  /\ UnchangedButIO /\ UnchangedDevice /\ UNCHANGED <<cmd, ok, tries, want, crc, port>>

ReadZero ==
  /\ pc = "zero" /\ Reads(1) /\ Goto("code") /\ tries' = 0
  /\ UnchangedButIO /\ UnchangedDevice /\ UNCHANGED <<cmd, ok, want, crc, port>>

(* Mutants: any byte is taken for the code; a refusal is not seen *)
AnyByte(b) == b # <<>>
OnlyAck(b) == b = <<Ack>>

IsCode(b) == b = <<Ack>> \/ b = <<Nack>>

(* The acknowledgement is known.  _send_command goes on to ask for the     *)
(* status, GetVersion to read the version or closes the port.              *)
AckKnown(b) ==
  /\ ok' = (b = <<Ack>>)
  /\ CASE cmd \in {"start", "chunk", "close"} ->
            /\ Goto("header") /\ UNCHANGED <<port, receiving, held, ruling, late>>
            /\ answers' = IF alive THEN Append(answers, StatusBytes) ELSE answers
       [] cmd = "version" ->
            /\ Goto(IF ok' THEN "vlength" ELSE "versioned")
            /\ port' = IF ok' THEN port ELSE "closed"
            /\ UNCHANGED <<answers, receiving, held, ruling, late>>
       [] cmd \in {"hello", "erase"} ->
            Goto(Answered(cmd)) /\ UNCHANGED <<port, answers, receiving, held, ruling, late>>

(* _read_ack reads on until a code comes; for the break it gives up *)
ReadCode ==
  /\ pc = "code" /\ Reads(1)
  /\ IF IsCode(Got(1)) \/ (cmd = "hello" /\ tries = HelloReads)
     THEN AckKnown(Got(1)) /\ UNCHANGED <<tries, alive>>
     ELSE /\ Goto("code") /\ tries' = IF cmd = "hello" THEN tries + 1 ELSE tries
          /\ UnchangedDevice /\ UNCHANGED <<ok, port>>
  /\ UnchangedButIO /\ UNCHANGED <<cmd, want, crc>>

(* _receive_packet: unpack refuses a header that is cut short; otherwise   *)
(* errors are only reported.                                               *)
ReadHeader ==
  /\ pc = "header" /\ Reads(3)
  /\ IF Len(Got(3)) < 3 THEN End("crashed") /\ UNCHANGED want
     ELSE Goto("payload") /\ want' = 256 * Got(3)[1] + Got(3)[2] - 2
  /\ UnchangedButIO /\ UnchangedDevice /\ UNCHANGED <<cmd, ok, tries, crc, port>>

ReadPayload ==
  /\ pc = "payload" /\ Reads(want) /\ Goto(Answered(cmd))
  /\ UnchangedButIO /\ UnchangedDevice /\ UNCHANGED <<cmd, ok, tries, want, crc, port>>

(* GetVersion: what fails here leaves the version empty, and the port is   *)
(* closed in every case.                                                   *)
NoVersion == ok' = FALSE /\ CloseComm /\ Goto("versioned")

ReadVersionLength ==
  /\ pc = "vlength" /\ Reads(2)
  /\ IF Len(Got(2)) < 2 THEN NoVersion /\ UNCHANGED want
     ELSE Goto("vcrc") /\ want' = 256 * Got(2)[1] + Got(2)[2] - 2 /\ UNCHANGED <<ok, port>>
  /\ UnchangedButIO /\ UnchangedDevice /\ UNCHANGED <<cmd, tries, crc>>

ReadVersionCrc ==
  /\ pc = "vcrc" /\ Reads(1)
  /\ IF Got(1) = <<>> THEN NoVersion /\ UNCHANGED crc
     ELSE Goto("vbody") /\ crc' = Got(1)[1] /\ UNCHANGED <<ok, port>>
  /\ UnchangedButIO /\ UnchangedDevice /\ UNCHANGED <<cmd, tries, want>>

ReadVersion ==
  /\ pc = "vbody" /\ Reads(want)
  /\ IF Sizes[Got(want)] % 256 # crc THEN NoVersion /\ UNCHANGED pg3
     ELSE /\ CloseComm /\ Goto("versioned") /\ UNCHANGED ok
          /\ pg3' = ~InBootloaderVerPrePG3(Got(want))
  /\ UnchangedDevice
  /\ UNCHANGED <<cmd, tries, want, crc, job, fileVars, percent, shown, pin, cancelled, reported>>

-----------------------------------------------------------------------------
(* Mutant: what _send_command returns is not looked at, as it is not for   *)
(* the start and the close of a file                                       *)
NotLookedAt(good) == FALSE

(* sendStatus == False *)
Refused(good) == ~good

(* Mutant: the flag is not looked at between two chunks *)
NotAsked == FALSE

CancelSeen == cancelled

NothingRead == UNCHANGED <<ok, tries, want, crc, inbox>>
UnchangedFile == UNCHANGED <<job, pg3, pin, cancelled>>

(* The main program of flasher_copy.py calls connect with an argument too  *)
(* many, before its try.                                                   *)
CopyMain ==
  /\ pc = "begin" /\ job.program = "copy" /\ End("crashed")
  /\ UnchangedFile /\ UnchangedDevice
  /\ UNCHANGED <<ioVars, fileVars, percent, shown, port, reported>>

(* The main program of flasher.py asks for the pin, and leaves when the    *)
(* firmware is not there.                                                  *)
CliMain ==
  /\ pc = "begin" /\ job.program = "cli"
  /\ IF job.files[1].exists THEN pin' = "active" /\ Goto("job")
     ELSE pin' = "inactive" /\ End("missing")
  /\ UnchangedDevice
  /\ UNCHANGED <<job, pg3, cancelled, ioVars, fileVars, percent, shown, port, reported>>

UiMain ==
  /\ pc = "begin" /\ job.program = "ui" /\ Goto("job")
  /\ UnchangedFile /\ UnchangedDevice
  /\ UNCHANGED <<ioVars, fileVars, percent, shown, port, reported>>

Keys == {"COMPort", "MemSelectRadio", "partnum", "DownloadFormat"}

(* load_image up to connect, which makes the loader anew, and exec_command *)
Connect ==
  /\ pc = "job"
  /\ IF job.command = "load" /\ (~(Keys \subseteq job.keys) \/ cancelled)
     THEN End("refused") /\ UNCHANGED <<percent, shown, port, cmd, inbox, pg3>> /\ UnchangedDevice
     ELSE \/ /\ Opens /\ Shows(1) /\ pg3' = FALSE /\ Send("hello") /\ UNCHANGED <<outcome, alive>>
          \/ /\ End("noDevice") /\ percent' = 0 /\ pg3' = FALSE
             /\ UNCHANGED <<shown, port, cmd, inbox>> /\ UnchangedDevice
  /\ UNCHANGED <<job, pin, cancelled, ok, tries, want, crc, fileVars, reported>>

(* connect has returned, with the port closed: exec_command erases unless  *)
(* cancelled, load_image asks for the version.  A port that cannot be      *)
(* opened again leaves GetVersion without a value to return.               *)
Connected ==
  /\ pc = "connected"
  /\ LET p == IF ok THEN Advance(percent, 1) ELSE percent IN
     CASE ~ok -> End("noDevice") /\ Shows(p) /\ CloseComm /\ UNCHANGED <<cmd, inbox>> /\ UnchangedDevice
       [] ok /\ job.command = "Format" ->
            /\ CloseComm
            /\ IF cancelled THEN Shows(Advance(p, 1)) /\ End("cancelled")
               ELSE Shows(25) /\ Goto("erase")
            /\ UNCHANGED <<cmd, inbox>> /\ UnchangedDevice
       [] ok /\ job.command # "Format" ->
            IF ~Supported(job.part)
            THEN /\ End("aborted") /\ percent' = p /\ shown' = 90 /\ CloseComm
                 /\ UNCHANGED <<cmd, inbox>> /\ UnchangedDevice
            ELSE /\ Shows(p)
                 /\ \/ Opens /\ Send("version") /\ UNCHANGED <<outcome, alive>>
                    \/ CloseComm /\ End("crashed") /\ UNCHANGED <<cmd, inbox>> /\ UnchangedDevice
  /\ UnchangedFile /\ UNCHANGED <<ok, tries, want, crc, fileVars, reported>>

(* The files are checked and their progress values computed *)
Versioned ==
  /\ pc = "versioned"
  /\ LET files == WithConfig(job.files, pg3)
         typed == [i \in 1 .. Len(files) |->
                     [size |-> files[i].size, type |-> FileType(job.part, pg3, files[i])]]
         good  == \A i \in 1 .. Len(files) : typed[i].type # ""
         p     == Advance(percent, 3 * Len(files))
     IN CASE ~ok -> End("noVersion") /\ Shows(Advance(percent, 1)) /\ UNCHANGED list
          [] ok /\ ~good -> /\ UNCHANGED list /\ Goto("aborting")
                            /\ \E n \in 0 .. 3 * Len(files) : percent' = Advance(percent, n)
                            /\ shown' = 90
          [] ok /\ good -> /\ list' = typed
                           /\ IF CancelSeen THEN Shows(Advance(p, 1)) /\ End("cancelled")
                              ELSE /\ Shows(IF job.format THEN p + 1 ELSE p)
                                   /\ Goto(IF job.format THEN "erase" ELSE "file")
  /\ NothingRead /\ UnchangedFile /\ UnchangedDevice
  /\ UNCHANGED <<cmd, file, chunk, spacing, result, port, reported>>

Aborting ==
  /\ pc = "aborting" /\ End("aborted") /\ Shows(Advance(percent, 1)) /\ CloseComm
  /\ UNCHANGED <<ioVars, job, pg3, pin, cancelled, fileVars, reported>> /\ UnchangedDevice

(* erase_storage: a port that cannot be opened and a refusal are both      *)
(* passed over.                                                            *)
Erase ==
  /\ pc = "erase"
  /\ \/ Opens /\ Shows(Advance(percent, 1)) /\ Send("erase") /\ UNCHANGED <<outcome, alive>>
     \/ Goto("erased") /\ UNCHANGED <<inbox, port, cmd, percent, shown>> /\ UnchangedDevice
  /\ UnchangedFile /\ UNCHANGED <<ok, tries, want, crc, fileVars, reported>>

Erased ==
  /\ pc = "erased" /\ CloseComm
  /\ IF job.command = "Format" THEN Shows(76) /\ End("done")
     ELSE Shows(Advance(percent, 1) + 1) /\ Goto("file")
  /\ NothingRead /\ UnchangedFile /\ UnchangedDevice /\ UNCHANGED <<cmd, fileVars, reported>>

(* download_file, up to the start command, whose answer is not looked at *)
StartFile ==
  /\ pc = "file"
  /\ IF file > Len(list) THEN
       /\ End("done") /\ Shows(Advance(percent, 1))
       /\ UNCHANGED <<chunk, spacing, result, port, inbox, cmd>> /\ UnchangedDevice
     ELSE \/ /\ list[file].size \in 1 .. MaxFileSize - 1
             /\ Opens /\ Shows(Advance(percent, 1)) /\ chunk' = 0 /\ spacing' = 0 /\ result' = TRUE
             /\ file' = file /\ Send("start") /\ UNCHANGED <<outcome, alive>>
          \/ /\ End("failed") /\ Shows(Advance(percent, 1))
             /\ UNCHANGED <<chunk, spacing, result, port, inbox, cmd>> /\ UnchangedDevice
  /\ UnchangedFile /\ UNCHANGED <<ok, tries, want, crc, list, file, reported>>

SendChunk ==
  /\ pc = "send" /\ file' = file /\ chunk' = chunk + 1 /\ Send("chunk")
  /\ NothingRead /\ UnchangedFile
  /\ UNCHANGED <<list, file, spacing, result, percent, shown, port, reported, outcome, alive>>

(* A chunk has been answered: the indicator moves, the cancel flag is      *)
(* looked at, and the next chunk or the close follows.                     *)
ChunkAnswered ==
  /\ pc = "sent" /\ file' = file
  /\ LET v == ProgressValues(list, file)
         full == spacing + 1 = v.spacing
     IN IF Refused(ok) THEN UNCHANGED <<spacing, percent, shown>>
        ELSE /\ spacing' = IF full THEN 0 ELSE spacing + 1
             /\ IF full THEN Shows(Advance(percent, v.increment)) ELSE UNCHANGED <<percent, shown>>
  /\ result' = (result /\ ~Refused(ok) /\ ~CancelSeen)
  /\ IF Refused(ok) \/ CancelSeen \/ chunk = Chunks(list[file]) THEN Send("close") /\ UNCHANGED chunk
     ELSE Send("chunk") /\ chunk' = chunk + 1
  /\ NothingRead /\ UnchangedFile /\ UNCHANGED <<list, port, reported, outcome, alive>>

(* The file is closed whatever the bootloader says of it; load_image       *)
(* reports, looks at the flag and goes on with the next file.              *)
FileDone ==
  /\ pc = "filed" /\ CloseComm
  /\ IF ~result THEN End("failed") /\ Shows(Advance(percent, 1)) /\ UNCHANGED <<reported, file>>
     ELSE /\ reported' = reported \cup {file} /\ file' = file + 1
          /\ IF cancelled THEN End("cancelled") /\ Shows(Advance(percent, 2))
             ELSE Goto("file") /\ UNCHANGED <<percent, shown>>
  /\ NothingRead /\ UnchangedFile /\ UnchangedDevice
  /\ UNCHANGED <<cmd, list, chunk, spacing, result>>

(* flasher.py releases its pin unless it has crashed or left early;        *)
(* FlashPython.py is shut down.                                            *)
Finish ==
  /\ pc = "ended"
  /\ \/ job.program = "cli" /\ outcome \notin {"crashed", "missing"} /\ pin # "released"
        /\ pin' = "released" /\ UNCHANGED shown
     \/ job.program = "ui" /\ shown # 100 /\ shown' = 100 /\ UNCHANGED pin
  /\ UNCHANGED <<job, pc, ioVars, pg3, fileVars, percent, port, cancelled, reported, outcome>>
  /\ UnchangedDevice

-----------------------------------------------------------------------------
(* The user cancels; the bootloader's next answer arrives, at a port that  *)
(* may be closed; the bootloader falls silent.                             *)
Cancel ==
  /\ job.program = "ui" /\ ~cancelled /\ pc # "ended" /\ cancelled' = TRUE
  /\ UNCHANGED <<job, pc, ioVars, pg3, fileVars, percent, shown, pin, port, reported, outcome>>
  /\ UnchangedDevice

Deliver ==
  /\ answers # <<>> /\ answers' = Tail(answers)
  /\ inbox' = IF port = "open" THEN inbox \o Head(answers) ELSE inbox
  /\ UNCHANGED <<job, pc, cmd, ok, tries, want, crc, pg3, fileVars, percent, shown, pin, port,
                 cancelled, reported, outcome, alive, receiving, ruling, held, late>>

Die ==
  /\ alive /\ alive' = FALSE /\ answers' = <<>>
  /\ UNCHANGED <<job, pc, ioVars, pg3, fileVars, percent, shown, pin, port, cancelled, reported,
                 outcome, receiving, ruling, held, late>>

-----------------------------------------------------------------------------
Init ==
  /\ job \in Jobs /\ pc = "begin" /\ cmd = "" /\ ok = FALSE /\ tries = 0 /\ want = 0 /\ crc = 0
  /\ pg3 = FALSE /\ list = <<>> /\ file = 1 /\ chunk = 0 /\ spacing = 0 /\ result = TRUE
  /\ percent = 1 /\ shown = 1 /\ pin = "none" /\ port = "closed" /\ inbox = <<>>
  /\ cancelled = FALSE /\ reported = {} /\ outcome = ""
  /\ alive = TRUE /\ answers = <<>> /\ receiving = 0 /\ ruling = 0
  /\ held = [f \in 1 .. Len(job.files) |-> 0] /\ late = 0

Program ==
  \/ CopyMain \/ CliMain \/ UiMain \/ Connect \/ Connected \/ Versioned \/ Aborting
  \/ Erase \/ Erased \/ StartFile \/ SendChunk \/ ChunkAnswered \/ FileDone \/ Finish
  \/ ReadLength \/ ReadChecksum \/ ReadZero \/ ReadCode \/ ReadHeader \/ ReadPayload
  \/ ReadVersionLength \/ ReadVersionCrc \/ ReadVersion

Next == Program \/ Cancel \/ Deliver \/ Die

(* A read returns in the end, and an answer sent arrives. *)
Spec == Init /\ [][Next]_vars /\ WF_vars(Program) /\ WF_vars(Deliver)

-----------------------------------------------------------------------------
(* However late the answers come and however far the reads are out of      *)
(* step, the acknowledgement read is the bootloader's ruling on that very  *)
(* command: no refusal is read as consent, and none of another command.    *)
VerdictIsDevices ==
  pc \in {"connected", "header", "payload", "vlength", "send", "sent", "filed", "erased"}
    => /\ ok => ruling = Ack
       /\ (~ok /\ cmd # "hello") => ruling # Ack

(* A file reported as downloaded has had every chunk accepted *)
StoredIfReported == \A f \in reported : held[f] = Chunks(list[f])

(* After the user has cancelled at most one more chunk goes out *)
CancelStops == late =< 1

(* While the bootloader is alive the program comes to its end.  A          *)
(* bootloader that falls silent leaves _read_ack in its loop.              *)
FlashEnds == <>(pc = "ended" \/ ~alive)

=============================================================================
