------------------------------- MODULE Port2 -------------------------------
(***************************************************************************)
(* server-parser/serial.c, the radar data port: port2_feed cuts the byte   *)
(* stream read from the serial line into frames (magic word, header with   *)
(* the packet length, payload) and _process_radar_frame walks the TLVs of  *)
(* each.  A call runs to its end in the main loop, so it is one action;    *)
(* its loop is the function Drain.  Lengths are scaled down, and every     *)
(* field of a header is one byte.                                          *)
(***************************************************************************)
EXTENDS Integers, Sequences

CONSTANTS
  Magic,        \* RADAR_MAGIC_WORD
  HeaderLen,    \* sizeof(RadarFrameHeader)
  TlvHeaderLen, \* sizeof(RadarTLVHeader): the type, then the length
  Align,        \* TLVs start at multiples of it
  AccumSize,    \* PORT2_ACCUM_SIZE
  ReadMax,      \* BUFFER_SIZE: what one read returns at most
  MaxHeatmap,   \* MAX_HEATMAP_ELEMENTS
  MaxRange,     \* MAX_RANGE_PROFILE_ELEMENTS
  Frames,       \* frames the radar may send
  Noises,       \* what may precede them: the port is opened in mid-stream
  LineMax,      \* bound: bytes on their way
  MaxLosses     \* bound: bytes lost on the line

MagicLen == Len(Magic)

ASSUME Port2Assumption ==
  /\ Magic \in Seq(Nat) /\ MagicLen > 0 /\ HeaderLen \in Nat /\ HeaderLen >= MagicLen + 2
  /\ AccumSize \in Nat \ {0} /\ ReadMax \in Nat \ {0} /\ Align \in Nat \ {0}
  /\ TlvHeaderLen \in Nat /\ TlvHeaderLen >= 2 /\ MaxHeatmap \in Nat /\ MaxRange \in Nat
  /\ \A f \in Frames : f \in Seq(Nat)
  /\ Noises \subseteq Seq(Nat)
  /\ LineMax \in Nat /\ MaxLosses \in Nat

VARIABLES
  accum,    \* port2_accum, its first port2_accum_len bytes
  line,     \* bytes the radar has sent and read() has not returned
  out,      \* frames the last call of port2_feed handed on
  losses

(* History, while no byte was lost: the frames sent and not handed on, and *)
(* whether something else was ever handed on.                              *)
VARIABLES owed, missed

vars == <<accum, line, out, losses, owed, missed>>

-----------------------------------------------------------------------------
From(b, k) == SubSeq(b, k + 1, Len(b))
Take(b, k) == SubSeq(b, 1, k)

StartsWithMagic(b, k) == SubSeq(b, k + 1, k + MagicLen) = Magic

(* Offsets at which the memcmp of port2_feed finds the magic word *)
MagicAt(b) == {k \in 0 .. Len(b) - MagicLen : StartsWithMagic(b, k)}

(* totalPacketLen and numTLVs *)
TotalLen(b) == b[MagicLen + 1]
NumTlvs(b)  == b[MagicLen + 2]

(* Mutant: nothing is kept when no magic word is found *)
KeepNothing == 0

(* preserve: a magic word cut in two must not be thrown away *)
Preserve == MagicLen - 1

(* Packet lengths that are not believed: the magic word is skipped *)
BadLength(n) == n < HeaderLen \/ n > AccumSize

(* A pass of the while loop of port2_feed when the bytes r are left: where *)
(* the first magic word is and what stands there; whether its length is    *)
(* skipped with it; whether the pass is the last, and what then stays; and *)
(* otherwise how far the loop goes on, and the frame it hands on.          *)
MagicFirst(r) == CHOOSE i \in MagicAt(r) : \A j \in MagicAt(r) : i =< j
Here(r) == From(r, MagicFirst(r))
Skips(r) == BadLength(TotalLen(Here(r)))
Stops(r) ==
  \/ Len(r) < HeaderLen
  \/ MagicAt(r) = {}
  \/ Len(Here(r)) < HeaderLen
  \/ ~Skips(r) /\ Len(Here(r)) < TotalLen(Here(r))
Remains(r) ==
  IF Len(r) < HeaderLen THEN r ELSE IF MagicAt(r) = {} THEN From(r, Len(r) - Preserve) ELSE Here(r)
Advance(r) == MagicFirst(r) + (IF Skips(r) THEN MagicLen ELSE TotalLen(Here(r)))
Cut(r) == Take(Here(r), TotalLen(Here(r)))

(* That pass at offset k of b, when w gives the outcome at later offsets   *)
Pass(b, w, k) ==
  LET r == From(b, k) IN
  IF Stops(r) THEN [frames |-> <<>>, left |-> Remains(r)]
  ELSE IF Skips(r) THEN w[k + Advance(r)]
  ELSE [w[k + Advance(r)] EXCEPT !.frames = <<Cut(r)>> \o @]

(* The loop over b: the frames handed on and the bytes that stay           *)
Drain(b) ==
  LET walk[k \in 0 .. Len(b)] == Pass(b, walk, k) IN walk[0]

Saturated(a, c) == Len(a) + Len(c) >= AccumSize

(* How far the memcpy of a chunk reaches into port2_accum *)
WriteExtent(a, c) == IF Saturated(a, c) THEN 0 ELSE Len(a) + Len(c)

(* Mutant: a saturated buffer refuses the chunk but is not cleared *)
FeedRefusing(a, c) ==
  IF Saturated(a, c) THEN [frames |-> <<>>, left |-> a] ELSE Drain(a \o c)

(* port2_feed *)
Feed(a, c) ==
  IF Saturated(a, c) THEN [frames |-> <<>>, left |-> <<>>]
  ELSE Drain(a \o c)

-----------------------------------------------------------------------------
Padded(o) == IF o % Align = 0 THEN o ELSE o + (Align - (o % Align))

(* Mutant: the bound of the payload is not tested *)
HeaderOnly(f, o) == o + TlvHeaderLen =< Len(f)

(* The two tests of the TLV loop at offset o: the header, then the payload *)
TlvFits(f, o) ==
  /\ o + TlvHeaderLen =< Len(f)
  /\ o + TlvHeaderLen + f[o + 2] =< Len(f)

(* _process_radar_frame: the payloads handed to _parse_radar_tlv, each as  *)
(* its type, offset and length.                                            *)
Tlvs(f) ==
  LET walk[i \in 1 .. NumTlvs(f) + 1] ==
        \* <<offset of the i-th TLV, those parsed so far, still going>>
        IF i = 1 THEN [at |-> HeaderLen, done |-> <<>>, going |-> TRUE]
        ELSE LET w == walk[i - 1] IN
             IF w.going /\ TlvFits(f, w.at)
             THEN LET start == w.at + TlvHeaderLen
                      n == f[w.at + 2]
                  IN [at |-> Padded(start + n), going |-> TRUE,
                      done |-> Append(w.done,
                                 [type |-> f[w.at + 1], at |-> start, len |-> n])]
             ELSE [w EXCEPT !.going = FALSE]
  IN walk[NumTlvs(f) + 1].done

(* The handlers copy a payload into an array of their own before they      *)
(* print it: range profiles are clipped, heatmaps must have the one size.  *)
(* The number of bytes copied, and the size of the array:                  *)
Copied(t) ==
  CASE t.type = 2 -> 2 * (IF t.len \div 2 > MaxRange THEN MaxRange ELSE t.len \div 2)
    [] t.type = 5 -> IF t.len \div 2 = MaxHeatmap THEN t.len ELSE 0
    [] OTHER -> 0

Room(t) == 2 * (CASE t.type = 2 -> MaxRange [] t.type = 5 -> MaxHeatmap [] OTHER -> 0)

-----------------------------------------------------------------------------
Init ==
  /\ accum = <<>> /\ out = <<>>
  /\ line \in Noises
  /\ losses = 0 /\ owed = <<>> /\ missed = FALSE

(* The radar sends a frame *)
Send(f) ==
  /\ Len(line) + Len(f) =< LineMax
  /\ line' = line \o f
  /\ owed' = IF losses = 0 THEN Append(owed, f) ELSE owed
  /\ UNCHANGED <<accum, out, losses, missed>>

(* The UART loses a byte *)
Lose(i) ==
  /\ losses < MaxLosses
  /\ line' = Take(line, i - 1) \o From(line, i)
  /\ losses' = losses + 1
  /\ owed' = <<>>
  /\ UNCHANGED <<accum, out, missed>>

(* main: read(fd2) returns n bytes, port2_feed takes them *)
Read(n) ==
  /\ n =< Len(line)
  /\ LET r == Feed(accum, Take(line, n)) IN
     /\ accum' = r.left
     /\ out' = r.frames
     /\ line' = From(line, n)
     /\ IF losses = 0
        THEN LET k == Len(r.frames) IN
             /\ missed' = (missed \/ k > Len(owed) \/ r.frames # Take(owed, k))
             /\ owed' = IF k > Len(owed) THEN <<>> ELSE From(owed, k)
        ELSE UNCHANGED <<owed, missed>>
  /\ UNCHANGED losses

Reads == \E n \in 1 .. ReadMax : Read(n)
Sends == \E f \in Frames : Send(f)

Next == Reads \/ Sends \/ (\E i \in DOMAIN line : Lose(i))

(* poll returns while bytes wait, and the radar keeps sending *)
Spec == Init /\ [][Next]_vars /\ WF_vars(Reads) /\ WF_vars(Sends)

-----------------------------------------------------------------------------
(* The types, and the bounds of the memory behind them: port2_accum is      *)
(* never written past its end, and never full between calls, although      *)
(* lengths up to its whole size are believed.                              *)
TypeOK ==
  /\ \A n \in 1 .. ReadMax :
       n =< Len(line) => WriteExtent(accum, Take(line, n)) =< AccumSize
  /\ Len(accum) < AccumSize
  /\ accum \in Seq(Nat) /\ line \in Seq(Nat)
  /\ out \in Seq(Seq(Nat)) /\ owed \in Seq(Seq(Nat))
  /\ losses \in 0 .. MaxLosses /\ missed \in BOOLEAN

(* Whatever the line did to the bytes, a frame handed on starts with the   *)
(* magic word and is as long as its own header says, which is what         *)
(* _process_radar_frame tests again.                                       *)
WellFormed ==
  \A i \in DOMAIN out :
    /\ Len(out[i]) >= HeaderLen
    /\ StartsWithMagic(out[i], 0)
    /\ TotalLen(out[i]) = Len(out[i])

(* The TLV payloads handed on lie inside the frame, behind the header, one *)
(* after the other, whatever lengths the TLV headers hold.                 *)
TlvsInFrame ==
  \A i \in DOMAIN out : LET ts == Tlvs(out[i]) IN
    \A j \in DOMAIN ts :
      /\ HeaderLen =< ts[j].at - TlvHeaderLen
      /\ ts[j].at + ts[j].len =< Len(out[i])
      /\ j > 1 => ts[j - 1].at + ts[j - 1].len =< ts[j].at - TlvHeaderLen

(* What a handler copies fits in its array, which serial.h:15 sizes for    *)
(* "static memory safety allocation" - but for a heatmap of an odd length, *)
(* one byte of which is copied past the end (serial.c:93 tests elements).  *)
CopiesBounded ==
  \A i \in DOMAIN out : LET ts == Tlvs(out[i]) IN
    \A j \in DOMAIN ts :
      \/ Copied(ts[j]) =< Room(ts[j])
      \/ /\ ts[j].type = 5 /\ ts[j].len % 2 = 1
         /\ Copied(ts[j]) = Room(ts[j]) + 1

(* What is handed on, whole or in parts, is sound, and so is what is made  *)
(* of it.                                                                  *)
FramesSound == WellFormed /\ TlvsInFrame /\ CopiesBounded

(* However long the line goes on misbehaving, once it stops the parser is  *)
(* back in step: it goes on handing on frames for ever.                    *)
Recovers == []<>(out # <<>>)
=============================================================================
