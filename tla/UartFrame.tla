----------------------------- MODULE UartFrame -----------------------------
(***************************************************************************)
(* The reader of the visualizer: one pass of parseUartThread hunts for the *)
(* magic word on the serial port, reads version, length and rest with      *)
(* reads that time out, takes the TLVs out of the frame and hands the      *)
(* result to the window (gui_parser.py, parseFrame.py, parseTLVs.py).  The *)
(* reads from both kinds of port are the same.  Lengths are scaled down:   *)
(* the header is the magic word, the version, a length of two units, the   *)
(* number of the frame, of objects and of TLVs; records are of one or two  *)
(* units.                                                                  *)
(***************************************************************************)
EXTENDS Integers, SequencesExt

CONSTANTS
  UartStreams, \* what the radar may send: [demo, frames], a frame [before, bytes, result]
  ChunkSizes,  \* what the UART delivers at once
  MaxStalls,   \* bound: reads that time out
  MaxLost      \* bound: bytes the UART loses

MagicWord == <<91, 92>>  \* UART_MAGIC_WORD
Base      == 100         \* a unit of the length is a digit
ReadSoFar == 5           \* magic, version and length, 16
TlvHeader == 2
Padding   == 4           \* 32
MaxObj    == 9           \* 10000
NoByte    == -1
FrameHeaderLen(demo) == IF demo = "3DPT" THEN 9 ELSE 8

ASSUME UartAssumption ==
  /\ ChunkSizes \subseteq Nat \ {0}
  /\ MaxStalls \in Nat /\ MaxLost \in Nat

-----------------------------------------------------------------------------
(* The decoders of parseTLVs.py.  Each has the length of the units and of  *)
(* a record, the key it sets and a kind, which says what it does with a    *)
(* slice that is shorter than the TLV says:                                *)
(*   cloud   fills the point cloud of the frame, stops at a missing record *)
(*   minor   the same for the second cloud of the 3DPT demo                *)
(*   own     replaces the cloud by one of its own, stops likewise          *)
(*   fall    logs, and carries on with the record before                   *)
(*   must    raises        drop     leaves the key unset                   *)
(*   blank   sets the key to nothing                                       *)
(*   words   takes the records that are there                              *)
(*   strict  raises        counted  the same, the count is in the data     *)
(*   exact   raises when the slice has another length at all               *)
(*   zones   two bits each, four to a unit, stops at the end               *)
(*   none    does nothing                                                  *)
D(kind, unit, record, key) == [kind |-> kind, unit |-> unit, record |-> record, key |-> key]

PointDecoders ==
  1 :> D("cloud", 0, 1, "xyz") @@ 316 :> D("words", 0, 1, "adc") @@ 320 :> D("none", 0, 1, "symbols")
  @@ 301 :> D("cloud", 1, 1, "xyz") @@ 315 :> D("zones", 1, 1, "presence") @@ 7 :> D("cloud", 0, 1, "snr")

MapDecoders ==
  2 :> D("words", 0, 1, "range") @@ 302 :> D("words", 0, 1, "range") @@ 303 :> D("words", 0, 1, "range")
  @@ 304 :> D("words", 0, 1, "major") @@ 305 :> D("words", 0, 1, "minorHeat") @@ 5 :> D("words", 0, 1, "doppler")
  @@ 1030 :> D("drop", 0, 1, "occupancy") @@ 1000 :> D("cloud", 0, 1, "sph")

CompressedDecoders == 1020 :> D("cloud", 1, 1, "sph") @@ 3001 :> D("cloud", 1, 1, "sph")

TrackDecoders ==
  1010 :> D("fall", 0, 2, "tracks") @@ 308 :> D("fall", 0, 2, "tracks") @@ 1035 :> D("fall", 0, 2, "tracks")
  @@ 1012 :> D("fall", 0, 2, "heights") @@ 3000 :> D("exact", 0, 2, "cam")
  @@ 1011 :> D("fall", 0, 1, "indexes") @@ 309 :> D("fall", 0, 1, "indexes")

VitalDecoders ==
  1040 :> D("must", 0, 2, "vitals") @@ 317 :> D("fall", 0, 1, "classifier") @@ 1031 :> D("exact", 0, 2, "class")

GestureDecoders ==
  1050 :> D("drop", 0, 2, "features") @@ 1051 :> D("drop", 0, 2, "probabilities")
  @@ 350 :> D("drop", 0, 2, "features6432") @@ 351 :> D("drop", 0, 1, "gesture") @@ 352 :> D("drop", 0, 1, "mode")
  @@ 353 :> D("drop", 0, 1, "threshold") @@ 1060 :> D("drop", 0, 1, "modeState") @@ 1061 :> D("drop", 0, 1, "cameraOn")

SurfaceDecoders ==
  10312 :> D("drop", 0, 1, "surface") @@ 1033 :> D("blank", 0, 2, "velocity")
  @@ 362 :> D("own", 0, 1, "xyz") @@ 318 :> D("blank", 0, 2, "channels")

StatsDecoders ==
  306 :> D("drop", 0, 2, "stats") @@ 1034 :> D("drop", 0, 2, "stats") @@ 1062 :> D("counted", 1, 1, "clusters")
  @@ 14 :> D("none", 0, 1, "none") @@ 13 :> D("none", 0, 1, "none") @@ 12 :> D("counted", 1, 2, "boxes")

OccupancyDecoders ==
  6 :> D("must", 0, 2, "power") @@ 3002 :> D("strict", 0, 1, "occFeatures") @@ 1041 :> D("strict", 0, 1, "predictions")
  @@ 1042 :> D("strict", 0, 1, "occHeights") @@ 1070 :> D("own", 0, 1, "xyz") @@ 1080 :> D("drop", 0, 2, "sleep")

DebugDecoders ==
  2008 :> D("counted", 1, 1, "none") @@ 2009 :> D("none", 0, 1, "none") @@ 2010 :> D("none", 0, 1, "none")
  @@ 368 :> D("must", 0, 2, "point") @@ 410 :> D("drop", 0, 1, "flag") @@ 3001 :> D("minor", 1, 1, "sph")

(* The later of two entries with the same key wins: 3001 is both           *)
(* MSG_POINT_CLOUD and MSG_3DPT_6844_MINOR_PC.                             *)
ParserFunctions ==
  DebugDecoders @@ PointDecoders @@ MapDecoders @@ CompressedDecoders @@ TrackDecoders @@ VitalDecoders
  @@ GestureDecoders @@ SurfaceDecoders @@ StatsDecoders @@ OccupancyDecoders

UnusedTLVs == {3, 4, 8, 9, 1021, 310, 311, 319, 363, 360, 361, 364}

-----------------------------------------------------------------------------
(* A point of a cloud: its coordinates, how often they were taken for      *)
(* spherical and converted, and its strength.                              *)
NoPoint == [raw |-> 0, conv |-> 0, snr |-> 0]

Convert(cloud) == [i \in DOMAIN cloud |->
  IF cloud[i].raw = 0 THEN cloud[i] ELSE [cloud[i] EXCEPT !.conv = @ + 1]]

Fail == [raised |-> TRUE]
Give(out) == [raised |-> FALSE, out |-> out]
Set(out, key, value) == Give([out EXCEPT !.lists = (key :> value) @@ @])

(* How many records the TLV says it has, and how many the slice has *)
Declared(d, len) == IF len < d.unit THEN 0 ELSE (len - d.unit) \div d.record
Present(d, s) == Declared(d, Len(s))
Record(d, s, i) == SubSeq(s, d.unit + (i - 1) * d.record + 1, d.unit + i * d.record)
Records(d, s, n) == [i \in 1..n |-> Record(d, s, i)]
Least(a, b) == IF a < b THEN a ELSE b

Fill(d, s, cloud, n) ==
  LET one(i) == IF d.key = "snr" THEN [cloud[i] EXCEPT !.snr = Record(d, s, i)[1]]
                ELSE [cloud[i] EXCEPT !.raw = Record(d, s, i)[1], !.conv = 0]
      all == [i \in DOMAIN cloud |-> IF i <= n THEN one(i) ELSE cloud[i]]
  IN  IF d.key = "sph" THEN Convert(all) ELSE all

Cloud(d, s, len, out) ==
  LET n == Least(Declared(d, len), Present(d, s))
  IN  IF n > Len(out.cloud) THEN Fail ELSE Give([out EXCEPT !.cloud = Fill(d, s, @, n)])

Minor(d, s, len, out) ==
  LET n == Least(Declared(d, len), Present(d, s))
  IN  IF out.demo # "3DPT" THEN Fail
      ELSE IF n > Len(out.minor) THEN Fail ELSE Give([out EXCEPT !.minor = Fill(d, s, @, n)])

Own(d, s, len, out) ==
  LET n == Least(Declared(d, len), Present(d, s))
  IN  Give([out EXCEPT !.cloud = Fill(d, s, [i \in 1..Declared(d, len) |-> NoPoint], n)])

Fall(d, s, len, out) ==
  LET n == Declared(d, len)  m == Present(d, s)
  IN  IF n > 0 /\ m = 0 THEN Fail
      ELSE Set(out, d.key, [i \in 1..n |-> Record(d, s, Least(i, m))])

Must(d, s, out) == IF Present(d, s) = 0 THEN Fail ELSE Set(out, d.key, Records(d, s, 1))
Drop(d, s, out) == IF Present(d, s) = 0 THEN Give(out) ELSE Set(out, d.key, Records(d, s, 1))
Blank(d, s, out) == Set(out, d.key, Records(d, s, Least(1, Present(d, s))))
Words(d, s, out) == Set(out, d.key, Records(d, s, Present(d, s)))
Strict(d, s, len, out) ==
  IF Present(d, s) < Declared(d, len) THEN Fail ELSE Set(out, d.key, Records(d, s, Declared(d, len)))
Counted(d, s, out) ==
  IF s = <<>> \/ s[1] > Present(d, s) THEN Fail
  ELSE IF d.key = "none" THEN Give(out) ELSE Set(out, d.key, Records(d, s, s[1]))
Exact(d, s, out) == IF Len(s) # d.record THEN Fail ELSE Set(out, d.key, <<s>>)
Zones(d, s, out) ==
  IF s = <<>> THEN Fail
  ELSE Set(out, d.key, [z \in 1..Least(s[1], 4 * (Len(s) - 1)) |-> s[2 + (z - 1) \div 4]])

Decode(d, s, len, out) ==
  CASE d.kind = "cloud"   -> Cloud(d, s, len, out)
    [] d.kind = "minor"   -> Minor(d, s, len, out)
    [] d.kind = "own"     -> Own(d, s, len, out)
    [] d.kind = "fall"    -> Fall(d, s, len, out)
    [] d.kind = "must"    -> Must(d, s, out)
    [] d.kind = "drop"    -> Drop(d, s, out)
    [] d.kind = "blank"   -> Blank(d, s, out)
    [] d.kind = "words"   -> Words(d, s, out)
    [] d.kind = "strict"  -> Strict(d, s, len, out)
    [] d.kind = "counted" -> Counted(d, s, out)
    [] d.kind = "exact"   -> Exact(d, s, out)
    [] d.kind = "zones"   -> Zones(d, s, out)
    [] d.kind = "none"    -> Give(out)

-----------------------------------------------------------------------------
Behind(b, k) == SubSeq(b, k + 1, Len(b))
FirstOf(b, k) == SubSeq(b, 1, Least(k, Len(b)))
Pad(n) == ((n + Padding - 1) \div Padding) * Padding

(* One turn of the loop over the TLVs, on what is left of the frame, the   *)
(* sum of the lengths and the output.  A header that is cut drops the      *)
(* whole output, an unknown type ends the loop, an exception of a decoder  *)
(* ends the pass.                                                          *)
(* Mutant: the headers of the TLVs are left out of the sum *)
HeaderUncounted(at, len) == [at EXCEPT !.data = Behind(@, TlvHeader + len), !.total = @ + len]
Past(at, len) == [at EXCEPT !.data = Behind(@, TlvHeader + len), !.total = @ + TlvHeader + len]

OneTlv(at) ==
  LET type == at.data[1]  len == at.data[2]
      got  == Decode(ParserFunctions[type], FirstOf(Behind(at.data, TlvHeader), len), len, at.out)
  IN  IF at.end # "more" THEN at
      ELSE IF Len(at.data) < TlvHeader THEN [at EXCEPT !.end = "empty"]
      ELSE IF type \notin DOMAIN ParserFunctions \cup UnusedTLVs
           THEN [at EXCEPT !.end = "all", !.total = @ + TlvHeader]
      ELSE IF type \notin DOMAIN ParserFunctions THEN Past(at, len)
      ELSE IF got.raised THEN [at EXCEPT !.end = "raised"]
      ELSE [Past(at, len) EXCEPT !.out = got.out]

(* numTLVs turns; a header that is cut ends them first when that is noise *)
Tlvs(start, numTLVs) ==
  LET n == Least(numTLVs, Len(start.data) + 1)
      after[i \in 0..n] == IF i = 0 THEN start ELSE OneTlv(after[i - 1])
      last == after[n]
  IN  IF last.end = "more" THEN [last EXCEPT !.end = "all"] ELSE last

Sized(frame) == frame[4] + Base * frame[5]
Checked(total, frame, out) == IF Pad(total) = Sized(frame) THEN out ELSE [out EXCEPT !.error = 3]

(* parseStandardFrame: a header that is cut is logged, and then used *)
ParseStandardFrame(frame, demo) ==
  LET h == FrameHeaderLen(demo)
      minor == IF demo = "3DPT" THEN frame[8] ELSE 0
      blank(n) == [i \in 1..n |-> NoPoint]
      start == [demo |-> demo, error |-> 0, num |-> frame[6], cloud |-> blank(frame[7]),
                minor |-> blank(minor), lists |-> [k \in {} |-> <<>>]]
      got == Tlvs([end |-> "more", data |-> Behind(frame, h), total |-> h, out |-> start], frame[h])
  IN  IF Len(frame) < h THEN [end |-> "raised"]
      ELSE IF frame[7] > MaxObj THEN [end |-> "early"]
      ELSE IF got.end = "all" THEN [end |-> "all", out |-> Checked(got.total, frame, got.out)]
      ELSE [end |-> got.end]

-----------------------------------------------------------------------------
VARIABLES
  uartStream, \* what the radar sends
  toSend,     \* what it has not sent
  port,       \* what the port has received
  pc,         \* where the thread is: "idle" until the timer starts it
  index, held, frame, \* locals of the read
  passes, \* history: the passes that ended, [frame, cut, result]
  cut,    \* history: a read of this pass was short
  stalls, lost

uartVars == <<uartStream, toSend, port, pc, index, held, frame, passes, cut, stalls, lost>>
reader == <<pc, index, held, frame, passes, cut>>
sender  == <<toSend, lost>>

Sent(s) == FlattenSeq([i \in DOMAIN s.frames |-> s.frames[i].before \o s.frames[i].bytes])

UartInit ==
  /\ uartStream \in UartStreams
  /\ toSend = Sent(uartStream) /\ port = <<>>
  /\ pc = "idle" /\ index = 0 /\ held = NoByte /\ frame = <<>>
  /\ passes = <<>> /\ cut = FALSE /\ stalls = 0 /\ lost = 0

(* parseTimer starts the thread, unless it runs *)
Start ==
  /\ pc = "idle"
  /\ pc' = "magic" /\ index' = 0 /\ held' = NoByte /\ frame' = <<>> /\ cut' = FALSE
  /\ UNCHANGED <<uartStream, toSend, port, passes, stalls, lost>>

(* One turn of the loop that looks for the magic word.  A byte that breaks *)
(* a match is looked at again as the first of a new one; a read that times *)
(* out leaves the loop where it is.                                        *)
(* Mutant: a new byte is read whatever the match was broken by *)
AnotherByte(b) == NoByte
Missed(b) == IF index = 0 THEN NoByte ELSE b

Hunt ==
  /\ pc = "magic" /\ (held # NoByte \/ port # <<>>)
  /\ LET b == IF held = NoByte THEN Head(port) ELSE held
     IN  IF b = MagicWord[index + 1]
         THEN /\ held' = NoByte /\ index' = index + 1 /\ frame' = Append(frame, b)
              /\ pc' = IF index + 1 = Len(MagicWord) THEN "version" ELSE "magic"
         ELSE held' = Missed(b) /\ index' = 0 /\ frame' = <<>> /\ pc' = "magic"
  /\ port' = IF held = NoByte THEN Tail(port) ELSE port
  /\ UNCHANGED <<uartStream, sender, stalls, passes, cut>>

(* read(n): n bytes, or after the time-out what has come until then.  A    *)
(* negative n, from a length below the bytes read, reads nothing.          *)
Read(n, next) ==
  /\ \/ Len(port) >= n /\ stalls' = stalls /\ cut' = cut
     \/ Len(port) < n /\ stalls < MaxStalls /\ stalls' = stalls + 1 /\ cut' = TRUE
  /\ frame' = frame \o FirstOf(port, n) /\ port' = Behind(port, Least(n, Len(port)))
  /\ pc' = next
  /\ UNCHANGED <<uartStream, sender, index, held, passes>>

NotNegative(n) == IF n < 0 THEN 0 ELSE n
(* int.from_bytes of what was read of the length *)
Length(f) == LET l == Behind(f, Len(MagicWord) + 1)
             IN  IF l = <<>> THEN 0 ELSE l[1] + (IF Len(l) = 2 THEN Base * l[2] ELSE 0)

ReadVersion == pc = "version" /\ Read(1, "length")
ReadLength  == pc = "length" /\ Read(2, "rest")
ReadRest    == pc = "rest" /\ Read(NotNegative(Length(frame) - ReadSoFar), "parse")

(* The frame is parsed, and the result emitted unless an exception ended   *)
(* the pass.                                                               *)
ParseFrame ==
  /\ pc = "parse"
  /\ passes' = Append(passes, [frame |-> frame, cut |-> cut, result |-> ParseStandardFrame(frame, uartStream.demo)])
  /\ pc' = "idle"
  /\ UNCHANGED <<uartStream, sender, port, index, held, frame, cut, stalls>>

-----------------------------------------------------------------------------
(* The UART: chunks of what the radar sends, and an overrun now and then *)
Deliver ==
  /\ \E n \in ChunkSizes \cup {Len(toSend)} :
       /\ n \in 1..Len(toSend)
       /\ port' = port \o SubSeq(toSend, 1, n) /\ toSend' = Behind(toSend, n)
  /\ UNCHANGED <<uartStream, reader, stalls, lost>>

Lose ==
  /\ lost < MaxLost /\ toSend # <<>>
  /\ lost' = lost + 1 /\ toSend' = Tail(toSend)
  /\ UNCHANGED <<uartStream, reader, port, stalls>>

Thread == Hunt \/ ReadVersion \/ ReadLength \/ ReadRest \/ ParseFrame
UartNext == Start \/ Thread \/ Deliver \/ Lose
UartSpec == UartInit /\ [][UartNext]_uartVars

-----------------------------------------------------------------------------
(* A frame that was read as the radar sent it is decoded as the radar      *)
(* meant it, whatever was lost or timed out before it: no decoder carries  *)
(* over a record, a position or a sum of lengths, and no byte of padding   *)
(* is taken for a TLV (parseStandardFrame and the decoders).               *)
WholeFramesDecode ==
  \A i \in DOMAIN passes : \A j \in DOMAIN uartStream.frames :
    passes[i].frame = uartStream.frames[j].bytes => passes[i].result = uartStream.frames[j].result

(* A stream as a radar sends it: each frame begins with the magic word and *)
(* states its length, and what lies before it neither holds that word nor  *)
(* makes one with the frame.                                               *)
Framed(s) ==
  /\ \E S \in {{s.frames[i] : i \in DOMAIN s.frames}} : s.frames \in Seq(S)
  /\ \A i \in DOMAIN s.frames :
       LET f == s.frames[i]  line == f.before \o f.bytes
       IN  /\ f.before \in Seq(Nat) /\ f.bytes \in Seq(Nat)
           /\ Len(f.bytes) >= ReadSoFar /\ Len(f.bytes) = Sized(f.bytes)
           /\ f.bytes[1] = MagicWord[1] /\ f.bytes[2] = MagicWord[2]
           /\ \A d \in 1..Len(f.before) : ~(line[d] = MagicWord[1] /\ line[d + 1] = MagicWord[2])

(* As long as the UART loses nothing and no read times out, the passes     *)
(* take every frame, in order and in full, whatever bytes lie between them *)
(* and however the stream was cut (the hunt and the three reads).          *)
NothingSkipped ==
  stalls = 0 /\ lost = 0 =>
    \A i \in DOMAIN passes : i <= Len(uartStream.frames) /\ passes[i].frame = uartStream.frames[i].bytes
=============================================================================
