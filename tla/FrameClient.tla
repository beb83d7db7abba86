---------------------------- MODULE FrameClient ----------------------------
(***************************************************************************)
(* The Python plotters of visualizer/: a network thread takes packets out  *)
(* of what the server sends, frames out of the packets of type radar, and  *)
(* TLVs out of the frames, and emits what a window then draws.  Four       *)
(* programs share the design and differ in how they cut the buffers, in    *)
(* what an exception does and in how a connection ends: "claude"           *)
(* (claude_tcp_client.py), "client" (client.py), "tcp" (clienttcp.py) and  *)
(* "udp" (client_udp.py).  Lengths are scaled down: a packet header is a   *)
(* type and a length, a frame header is the magic word, the total length   *)
(* and the number of TLVs, a TLV header a type and a length.               *)
(***************************************************************************)
EXTENDS Integers, SequencesExt

CONSTANTS
  Kinds,       \* the programs that are run
  Streams,     \* what the radar may send: sequences of [bytes, plots]
  PacketSizes, \* payloads the server cuts it into
  ReadSizes,   \* what one recv may return
  Configs,     \* configuration files: sequences of [command, arguments]
  MaxConnects, \* bound: connections accepted
  MaxFaults    \* bound: datagrams lost or overtaken

Magic        == <<91, 92>>
HeaderLen    == 4   \* struct.calcsize('<QIIIIIIII')
TlvHeaderLen == 2
NetHeaderLen == 2   \* header_struct.size
MinScan      == HeaderLen + TlvHeaderLen   \* 48
LengthAt     == 2   \* offset of total_packet_len, 12
Align        == 2
SampleLen    == 2   \* a uint16
DopplerBins  == 2   \* NUM_DOPPLER_BINS
HeatmapLen   == 4   \* NUM_RANGE_BINS * NUM_DOPPLER_BINS samples

ASSUME ClientAssumption ==
  /\ Kinds \subseteq {"claude", "client", "tcp", "udp"}
  /\ \A s \in Streams : s \in Seq([bytes : Seq(Nat), plots : Seq([type : Nat, data : Seq(Nat)])])
  /\ PacketSizes \subseteq Nat \ {0} /\ ReadSizes \subseteq Nat \ {0}
  /\ MaxConnects \in Nat /\ MaxFaults \in Nat

VARIABLES
  kind,    \* which program this is
  thread,  \* where the network thread is
  running, \* the flag stop() takes down
  net,     \* net_buffer, network_buffer
  data,    \* data_buffer
  window,  \* the window
  scale,   \* whether distance_bins is known
  queue,   \* plots emitted and not yet drawn
  drawn    \* plots drawn

(* The server, the radar and the network *)
VARIABLES
  radar,   \* bytes the radar has yet to send
  link,    \* "none", "up", or "broken" when the server has closed
  resets,  \* RESET lines the server has not answered
  wire,    \* TCP: the bytes under way; UDP: the packets under way
  connects, faults

(* History: the packets sent on this connection and not yet handled, was a *)
(* packet handled that the server did not send, is everything of one       *)
(* unbroken stream, the radar bytes handled and the plots emitted since    *)
(* the last SYSTEM packet, was an exception raised since.                  *)
VARIABLES due, foreign, intact, heard, shown, raised, stream

threadVars == <<thread, running, net, data>>
guiVars    == <<window, scale, drawn>>
envVars    == <<radar, link, resets, wire, connects, faults>>
history    == <<due, foreign, intact, heard, shown, raised>>
vars == <<kind, threadVars, guiVars, queue, envVars, history, stream>>

-----------------------------------------------------------------------------
Bytes == Seq(Nat)
Plots == Seq([type : Nat, data : Bytes])

From(b, k) == SubSeq(b, k + 1, Len(b))

(* The bytes of b from offset i up to offset j, of those there are *)
Slice(b, i, j) == SubSeq(b, i + 1, IF j < Len(b) THEN j ELSE Len(b))

(* bytearray.find(MAGIC_WORD): the offset, or -1 *)
MagicAt(b) == {i \in 0 .. Len(b) - Len(Magic) : \A j \in 1 .. Len(Magic) : b[i + j] = Magic[j]}
Find(b) ==
  IF MagicAt(b) = {} THEN -1 ELSE CHOOSE i \in MagicAt(b) : \A j \in MagicAt(b) : i =< j

Nothing   == [plots |-> <<>>, raised |-> FALSE, stay |-> FALSE]
Raise     == [Nothing EXCEPT !.raised = TRUE]
Plot(t, p) == [Nothing EXCEPT !.plots = <<[type |-> t, data |-> p]>>]

(* np.frombuffer of 16-bit samples refuses an odd number of bytes *)
Samples(t, p) == IF Len(p) % SampleLen # 0 THEN Raise ELSE Plot(t, p)

(* A heatmap in claude_tcp_client.py: the number of range bins follows     *)
(* from the payload; when it is zero the loop goes on without moving its   *)
(* pointer.                                                                *)
HeatmapClaude(p) ==
  LET bins == (Len(p) \div SampleLen) \div DopplerBins IN
  IF bins = 0 THEN [Nothing EXCEPT !.stay = TRUE]
  ELSE IF Samples(5, p).raised THEN Raise
  ELSE IF Len(p) \div SampleLen = bins * DopplerBins THEN Plot(5, p) ELSE Nothing

Padded(p) == [i \in 1 .. HeatmapLen |-> IF i <= Len(p) THEN p[i] ELSE 0]

(* The other programs cut a heatmap to the expected size or pad it *)
HeatmapClient(p) ==
  LET cut == Slice(p, 0, HeatmapLen) IN
  IF Samples(5, cut).raised THEN Raise ELSE Plot(5, Padded(cut))

Heatmap(c, p) == IF c = "claude" THEN HeatmapClaude(p) ELSE HeatmapClient(p)

(* What extract_tlvs does with one TLV *)
Tlv(c, t, p) ==
  CASE t = 2 -> Samples(2, p)
    [] t = 5 -> Heatmap(c, p)
    [] t \notin {2, 5} -> Nothing

(* Where the next TLV is looked for: clienttcp.py and client_udp.py do not *)
(* pad.                                                                    *)
Aligned(c, o) ==
  IF c \in {"claude", "client"} /\ o % Align # 0 THEN o + (Align - (o % Align)) ELSE o

(* The turns of the loop of extract_tlvs over frame f: where it stands,    *)
(* what it has emitted, and whether an exception has ended it              *)
TlvWalk == [at : Nat, plots : Plots, raised : BOOLEAN]
NextTlv(c, f) ==
  [w \in TlvWalk |->
     IF w.raised \/ w.at + TlvHeaderLen > Len(f) THEN w
     ELSE LET end == w.at + TlvHeaderLen + f[w.at + 2]
              one == Tlv(c, f[w.at + 1], Slice(f, w.at + TlvHeaderLen, end))
          IN [at     |-> IF one.stay THEN w.at ELSE Aligned(c, end),
              plots  |-> w.plots \o one.plots,
              raised |-> one.raised]]

(* extract_tlvs *)
ExtractTlvs(c) ==
  [f \in Bytes |->
     LET walk[i \in 0 .. f[4]] ==
           IF i = 0 THEN [at |-> HeaderLen, plots |-> <<>>, raised |-> FALSE]
           ELSE NextTlv(c, f)[walk[i - 1]]
     IN IF Len(f) < HeaderLen THEN Nothing ELSE walk[f[4]]]

-----------------------------------------------------------------------------
(* Mutant: nothing is kept of a buffer without a magic word *)
KeepNothing == 0

(* What is kept of a buffer that holds no magic word *)
Keep == Len(Magic) - 1

(* What parse_buffer leaves and has emitted, and how it ended *)
Outcome == [data : Bytes, plots : Plots, end : {"ok", "raise", "spin"}]
Done(b, end) == [data |-> b, plots |-> <<>>, end |-> end]

(* The frame at offset m of b, and whether all of it is there *)
Total(b, m) == b[m + LengthAt + 1]
Complete(b, m) == Len(b) - m > LengthAt /\ Len(b) - m >= Total(b, m)

(* When the bytes r are left the loop of parse_buffer ends to wait for     *)
(* more, and this is what it keeps: claude_tcp_client.py and client.py     *)
(* leave what is before a magic word in the buffer.                        *)
InPlace == {"claude", "client"}
Waits(r) == Len(r) < MinScan \/ Find(r) = -1 \/ ~Complete(r, Find(r))
Kept(c, r) ==
  IF Len(r) < MinScan THEN r
  ELSE IF Find(r) = -1 THEN From(r, Len(r) - Keep)
  ELSE IF c \in InPlace THEN r ELSE From(r, Find(r))

(* A turn of the loop at offset k of b, when w gives the outcome at later  *)
(* offsets.  A length of zero leaves the loop where it is, for ever.       *)
Turn(c, b, w, k) ==
  LET r    == From(b, k)
      next == Find(r) + Total(r, Find(r))
      one  == ExtractTlvs(c)[Slice(r, Find(r), next)]
  IN IF Waits(r) THEN Done(Kept(c, r), "ok")
     ELSE IF Total(r, Find(r)) = 0 THEN Done(From(r, next), "spin")
     ELSE IF one.raised THEN [Done(From(r, next), "raise") EXCEPT !.plots = one.plots]
     ELSE [w[k + next] EXCEPT !.plots = one.plots \o @]

(* Mutant: what was read stays in the buffer *)
CutNothing(c, b) == [r \in Outcome |-> [r EXCEPT !.data = b]]

(* An exception leaves the buffer as it was in claude_tcp_client.py and    *)
(* client.py, which cut it at the end only.                                *)
Cut(c, b) == [r \in Outcome |-> IF c \in InPlace /\ r.end # "ok" THEN [r EXCEPT !.data = b] ELSE r]

(* parse_buffer *)
Parse(c) ==
  [b \in Bytes |->
     LET walk[k \in 0 .. Len(b)] == Turn(c, b, walk, k)
     IN Cut(c, b)[walk[0]]]

-----------------------------------------------------------------------------
(* A packet as the server sends it *)
Packet(t, p) == <<t, Len(p)>> \o p
System == Packet(99, <<>>)

Work == [data : Bytes, queue : Plots, heard : Bytes, shown : Plots,
         raised : BOOLEAN, end : {"ok", "raise", "spin"}]

(* The thread's buffers and history as one record, for the loops *)
Here == [data |-> data, queue |-> queue, heard |-> heard, shown |-> shown,
         raised |-> raised, end |-> "ok"]

(* The radar bytes p were handed to parse_buffer, and r came of it *)
Parsed(s, p) ==
  [r \in Outcome |->
     [data   |-> r.data,
      queue  |-> s.queue \o r.plots,
      heard  |-> s.heard \o p,
      shown  |-> s.shown \o r.plots,
      raised |-> s.raised \/ r.end = "raise",
      end    |-> r.end]]

(* handle_message; the branches on p_type of the other two programs *)
Handle(c, s, p) ==
  LET payload == From(p, NetHeaderLen) IN
  CASE p[1] = 99 -> [s EXCEPT !.data = <<>>, !.heard = <<>>, !.shown = <<>>, !.raised = FALSE]
       [] p[1] = 2  -> Parsed(s, payload)[Parse(c)[s.data \o payload]]
       [] p[1] \notin {2, 99} -> s

(* Mutant: a packet is taken before all of it has arrived *)
HeaderOnly(b) == Len(b) >= NetHeaderLen

(* Is the packet at the head of the buffer complete? *)
Whole(b) == Len(b) >= NetHeaderLen /\ Len(b) >= NetHeaderLen + b[2]

(* The turns of process_net_buffer, and of the loop in run of clienttcp.py *)
PacketWalk == [net : Bytes, s : Work, handled : Seq(Bytes)]
NextPacket(c) ==
  [w \in PacketWalk |->
     IF w.s.end # "ok" \/ ~Whole(w.net) THEN w
     ELSE LET size == NetHeaderLen + w.net[2]
              p == Slice(w.net, 0, size)
          IN [net |-> From(w.net, size), s |-> Handle(c, w.s, p), handled |-> Append(w.handled, p)]]

(* All of them: each takes a header at least *)
Process(c) ==
  [w \in PacketWalk |->
     LET turns == Len(w.net) \div NetHeaderLen
         walk[i \in 0 .. turns] == IF i = 0 THEN w ELSE NextPacket(c)[walk[i - 1]]
     IN walk[turns]]

(* Mutant: the flag is not looked at *)
AfterAlways(c, end) == IF end = "spin" THEN "spinning" ELSE "receiving"

(* The end of a pass of run's loop: exceptions in claude_tcp_client.py and *)
(* client.py are caught outside the reading and end the loop, in           *)
(* clienttcp.py they end the thread, in client_udp.py they are reported.   *)
After(c, end) ==
  CASE end = "spin" -> "spinning"
    [] end = "raise" /\ c # "udp" -> "ended"
    [] end = "ok" \/ (end = "raise" /\ c = "udp") -> IF running THEN "receiving" ELSE "ended"

Became(s) ==
  /\ data' = s.data /\ queue' = s.queue /\ heard' = s.heard
  /\ shown' = s.shown /\ raised' = s.raised

(* recv returns n bytes *)
Receive(n) ==
  /\ kind # "udp" /\ thread = "receiving" /\ n =< Len(wire)
  /\ n \in ReadSizes \/ n = Len(wire)
  /\ \E r \in {Process(kind)[[net |-> net \o SubSeq(wire, 1, n), s |-> Here, handled |-> <<>>]]} :
       /\ net' = r.net /\ Became(r.s)
       /\ foreign' = (foreign \/ ~IsPrefix(r.handled, due))
       /\ due' = From(due, Len(r.handled))
       /\ thread' = After(kind, r.s.end)
  /\ wire' = From(wire, n)
  /\ UNCHANGED <<kind, running, guiVars, radar, link, resets, connects, faults, intact, stream>>

(* recvfrom returns a datagram: the first, or one that has overtaken it *)
ReceiveDatagram(i) ==
  /\ kind = "udp" /\ thread = "receiving" /\ i \in 1 .. Len(wire)
  /\ i = 1 \/ faults < MaxFaults
  /\ \E s \in {Handle(kind, Here, wire[i])} :
       Became(s) /\ thread' = After(kind, s.end)
  /\ wire' = SubSeq(wire, 1, i - 1) \o From(wire, i)
  /\ due' = wire'
  /\ faults' = IF i = 1 THEN faults ELSE faults + 1
  /\ intact' = (intact /\ i = 1)
  /\ UNCHANGED <<kind, running, net, guiVars, radar, link, resets, connects, foreign, stream>>

(* recv times out and a keepalive is sent *)
Timeout ==
  /\ thread = "receiving" /\ wire = <<>> /\ link = "up"
  /\ thread' = After(kind, "ok")
  /\ UNCHANGED <<kind, running, net, data, guiVars, queue, envVars, history, stream>>

(* The keepalive fails: this ends the loop of claude_tcp_client.py and     *)
(* client.py and the thread of client_udp.py; clienttcp.py ignores it.     *)
KeepaliveFails ==
  /\ thread = "receiving" /\ wire = <<>> /\ link = "up"
  /\ kind # "tcp" /\ thread' = "ended"
  /\ UNCHANGED <<kind, running, net, data, guiVars, queue, envVars, history, stream>>

(* recv returns no byte, or fails: clienttcp.py closes and connects again, *)
(* keeping what its buffers hold.                                          *)
Lost ==
  /\ thread = "receiving" /\ kind # "udp"
  /\ (link = "broken" /\ wire = <<>>) \/ ~running
  /\ thread' = IF kind = "tcp" THEN "connecting" ELSE "ended"
  /\ link' = "none" /\ wire' = <<>>
  /\ UNCHANGED <<kind, running, net, data, guiVars, queue, radar, resets, connects,
                 faults, history, stream>>

(* The connection is made and RESET sent.  For UDP it is only the RESET.   *)
Connected ==
  /\ thread = "connecting" /\ connects < MaxConnects
  /\ link' = "up" /\ resets' = 1 /\ connects' = connects + 1
  /\ thread' = IF running THEN "receiving" ELSE "ended"
  /\ intact' = (intact /\ net = <<>> /\ data = <<>>)
  /\ wire' = <<>> /\ due' = <<>>
  /\ UNCHANGED <<kind, running, net, data, guiVars, queue, radar, faults, foreign, heard,
                 shown, raised, stream>>

(* It is not: clienttcp.py tries again while it runs *)
Refused ==
  /\ thread = "connecting"
  /\ thread' = IF kind = "tcp" /\ running THEN "connecting" ELSE "ended"
  /\ UNCHANGED <<kind, running, net, data, guiVars, queue, envVars, history, stream>>

-----------------------------------------------------------------------------
(* read_cfg_mmwave_web keeps the last line of each command.                 *)
Dictionary(file) ==
  [c \in {file[i].command : i \in 1 .. Len(file)} |->
     LET Lines == {i \in 1 .. Len(file) : file[i].command = c}
     IN file[CHOOSE i \in Lines : \A j \in Lines : j =< i].arguments]

(* convert_range_bin_meters needs the arguments of profileCfg up to the    *)
(* sampling rate.                                                          *)
Converts(d) == "profileCfg" \in DOMAIN d /\ d["profileCfg"] > 10

(* In claude_tcp_client.py the thread already runs while the window is     *)
(* built, until the radar's configuration has been downloaded; when that   *)
(* fails the program ends with its thread.                                 *)
Open ==
  /\ window = "building"
  /\ \E file \in Configs :
       \/ /\ Converts(Dictionary(file))
          /\ window' = "open" /\ scale' = TRUE /\ UNCHANGED <<thread, running>>
       \/ window' = "failed" /\ thread' = "ended" /\ running' = FALSE /\ UNCHANGED scale
  /\ UNCHANGED <<kind, net, data, queue, drawn, envVars, history, stream>>

(* The signals waiting reach their slots in the window's event loop *)
Draw ==
  /\ window = "open" /\ queue # <<>>
  /\ drawn' = drawn \o queue /\ queue' = <<>>
  /\ UNCHANGED <<kind, threadVars, window, scale, envVars, history, stream>>

(* closeEvent calls stop: the flag is taken down, the socket shut or       *)
(* closed, and the thread waited for.                                      *)
Close ==
  /\ window = "open"
  /\ window' = "closing" /\ running' = FALSE
  /\ UNCHANGED <<kind, thread, net, data, scale, queue, drawn, envVars, history, stream>>

Joined ==
  /\ window = "closing" /\ thread = "ended"
  /\ window' = "closed"
  /\ UNCHANGED <<kind, threadVars, scale, queue, drawn, envVars, history, stream>>

-----------------------------------------------------------------------------
(* The server: a piece of the radar's stream as a packet to the client, or *)
(* to nobody.                                                              *)
OnWire(p) == IF kind = "udp" THEN Append(wire, p) ELSE wire \o p

ServerSends(n) ==
  /\ n =< Len(radar) /\ (n \in PacketSizes \/ n = Len(radar)) /\ n > 0
  /\ radar' = From(radar, n)
  /\ \/ link = "up" /\ wire' = OnWire(Packet(2, SubSeq(radar, 1, n)))
        /\ due' = Append(due, Packet(2, SubSeq(radar, 1, n)))
     \/ link # "up" /\ UNCHANGED <<wire, due>>
  /\ UNCHANGED <<kind, threadVars, guiVars, queue, link, resets, connects, faults, foreign,
                 intact, heard, shown, raised, stream>>

(* Its answer to RESET, and a response of the radar's command line *)
ServerAcks ==
  /\ link = "up" /\ resets > 0
  /\ resets' = resets - 1
  /\ \E p \in {System, Packet(1, <<7>>) \o System} :
       /\ kind = "udp" => p = System
       /\ wire' = OnWire(p)
       /\ due' = due \o (IF p = System THEN <<System>> ELSE <<Packet(1, <<7>>), System>>)
  /\ UNCHANGED <<kind, threadVars, guiVars, queue, radar, link, connects, faults, foreign,
                 intact, heard, shown, raised, stream>>

(* Bound: where a breaking connection may cut what is under way *)
Cuts(n) == {n \div 2, n}

(* The connection breaks: what was under way is cut anywhere *)
Break(n) ==
  /\ link = "up" /\ kind # "udp" /\ n \in Cuts(Len(wire))
  /\ link' = "broken" /\ wire' = SubSeq(wire, 1, n)
  /\ resets' = 0
  /\ UNCHANGED <<kind, threadVars, guiVars, queue, radar, connects, faults, history, stream>>

LoseDatagram ==
  /\ kind = "udp" /\ wire # <<>> /\ faults < MaxFaults
  /\ wire' = Tail(wire) /\ due' = wire' /\ faults' = faults + 1 /\ intact' = FALSE
  /\ UNCHANGED <<kind, threadVars, guiVars, queue, radar, link, resets, connects, foreign,
                 heard, shown, raised, stream>>

-----------------------------------------------------------------------------
BytesOf(s) == FlattenSeq([i \in 1 .. Len(s) |-> s[i].bytes])
PlotsOf(s) == FlattenSeq([i \in 1 .. Len(s) |-> s[i].plots])

Init ==
  /\ kind \in Kinds /\ stream \in Streams
  /\ thread = "connecting" /\ running = TRUE /\ net = <<>> /\ data = <<>>
  /\ window = (IF kind = "claude" THEN "building" ELSE "open") /\ scale = FALSE /\ queue = <<>> /\ drawn = <<>>
  /\ radar = BytesOf(stream) /\ link = "none" /\ resets = 0 /\ wire = <<>>
  /\ connects = 0 /\ faults = 0
  /\ due = <<>> /\ foreign = FALSE /\ intact = TRUE
  /\ heard = <<>> /\ shown = <<>> /\ raised = FALSE

Worker ==
  \/ \E n \in 1 .. Len(wire) : Receive(n)
  \/ \E i \in 1 .. Len(wire) : ReceiveDatagram(i)
  \/ Timeout \/ Lost \/ Connected \/ Refused

Network ==
  \/ \E n \in 1 .. Len(radar) : ServerSends(n)
  \/ ServerAcks \/ LoseDatagram \/ KeepaliveFails
  \/ \E n \in Cuts(Len(wire)) : Break(n)

Next == Worker \/ Network \/ Open \/ Draw \/ Close \/ Joined

(* A socket call of the thread returns: it is ready or times out.  The     *)
(* window waits for its thread.                                            *)
Spec == Init /\ [][Next]_vars /\ WF_vars(Worker) /\ WF_vars(Joined)

-----------------------------------------------------------------------------
(* Once a window is closed its thread ends and the window goes away: from  *)
(* any point of any of the four loops stop() is noticed.  It is not while  *)
(* parse_buffer turns on a length of zero.                                 *)
StopEnds == (window = "closing") ~> (window = "closed" \/ thread = "spinning")

(* On one connection the packets handled are the packets the server sent,  *)
(* in their order and none of them later than its last byte: what is in    *)
(* the buffer and on the wire is exactly the packets due.                  *)
InStep ==
  /\ intact => ~foreign
  /\ (intact /\ kind # "udp" /\ thread \in {"receiving"} /\ link = "up") =>
       /\ due # <<>> => Len(net) < Len(due[1])
       /\ due = <<>> => net = <<>>

(* Wherever the server and recv cut the stream, the plots emitted since    *)
(* the last SYSTEM packet are those of all the radar bytes read at once.   *)
ReadAtOnce ==
  ~raised => shown = Parse(kind)[heard].plots

(* The plots of the stream: where p is among them, and whether the plots g *)
(* are some of them in their order                                         *)
PlotAt(s, p) == CHOOSE i \in 1 .. Len(PlotsOf(s)) : PlotsOf(s)[i] = p
InOrder(s, g) ==
  /\ \A i \in 1 .. Len(g) : \E j \in 1 .. Len(PlotsOf(s)) : PlotsOf(s)[j] = g[i]
  /\ \A i, j \in 1 .. Len(g) : i < j => PlotAt(s, g[i]) < PlotAt(s, g[j])
AllBefore(s, g, h) == \A i \in 1 .. Len(g), j \in 1 .. Len(h) : PlotAt(s, g[i]) < PlotAt(s, h[j])

(* The plots of the frame at offset m of b *)
FrameRead(c, b, m) == ExtractTlvs(c)[Slice(b, m, m + Total(b, m))].plots

(* The plots g, and after them those of the frames that lie whole in b,    *)
(* wherever a magic word is: all in the order of the stream                *)
Fits(c, s, g, b) ==
  /\ InOrder(s, g)
  /\ \A m \in MagicAt(b) : Complete(b, m) =>
       /\ InOrder(s, FrameRead(c, b, m)) /\ AllBefore(s, g, FrameRead(c, b, m))
       /\ \A n \in MagicAt(b) :
            m < n /\ Complete(b, n) => AllBefore(s, FrameRead(c, b, m), FrameRead(c, b, n))

(* The bytes the radar sends are read as the plots it sends *)
Readable(s) == \A c \in Kinds : Fits(c, s, <<>>, BytesOf(s))

(* On an unbroken stream every plot is one the radar sent, in the radar's  *)
(* order: nothing is put together from the pieces of two frames.           *)
PlotsAreRadars == intact => InOrder(stream, drawn \o queue)
=============================================================================
