---------------------------- MODULE MCUartFrame ----------------------------
(* Streams of a few frames for UartFrame.  Each frame is built from what   *)
(* the radar means: the bytes, and the output that says the same.          *)
EXTENDS UartFrame

Fill0(n) == [i \in 1..n |-> 0]
Point(raw, conv, snr) == [raw |-> raw, conv |-> conv, snr |-> snr]
T(type, data) == <<type, Len(data)>> \o data
NoLists == [k \in {} |-> <<>>]

(* The bytes of a frame: header, TLVs, padding *)
Bytes(demo, num, obj, minor, ntlv, body) ==
  LET h == <<num, obj>> \o (IF demo = "3DPT" THEN <<minor>> ELSE <<>>) \o <<ntlv>>
      n == Pad(ReadSoFar + Len(h) + Len(body))
  IN  MagicWord \o <<7, n, 0>> \o h \o body \o Fill0(n - ReadSoFar - Len(h) - Len(body))

Out(demo, num, cloud, minor, lists) ==
  [end |-> "all", out |-> [demo |-> demo, error |-> 0, num |-> num, cloud |-> cloud, minor |-> minor, lists |-> lists]]

Frame(before, bytes, result) == [before |-> before, bytes |-> bytes, result |-> result]

(* Points and their side information, a heat map and a list of tracks *)
OutOfBox(before, num) ==
  Frame(before, Bytes("OOB", num, 2, 0, 2, T(1, <<41, 42>>) \o T(7, <<51, 52>>)),
        Out("OOB", num, <<Point(41, 0, 51), Point(42, 0, 52)>>, <<>>, NoLists))

Tracks(num) ==
  Frame(<<>>, Bytes("OOB", num, 1, 0, 3, T(1000, <<44>>) \o T(1010, <<1, 11, 2, 12>>) \o T(1011, <<255>>)),
        Out("OOB", num, <<Point(44, 1, 0)>>, <<>>, "tracks" :> <<<<1, 11>>, <<2, 12>>>> @@ "indexes" :> <<<<255>>>>))

(* A clash of units, a cut count and an empty list, and an unused type *)
Sensing(num) ==
  Frame(<<91>>, Bytes("OOB", num, 2, 0, 4, T(301, <<9, 45>>) \o T(4, <<3>>) \o T(315, <<2, 6>>) \o T(2, <<91, 92>>)),
        Out("OOB", num, <<Point(45, 0, 0), NoPoint>>, <<>>, "presence" :> <<6, 6>> @@ "range" :> <<<<91>>, <<92>>>>))

Vitals(num) ==
  Frame(<<>>, Bytes("OOB", num, 0, 0, 3, T(1040, <<1, 60>>) \o T(317, <<90>>) \o T(1070, <<47>>)),
        Out("OOB", num, <<Point(47, 0, 0)>>, <<>>, "vitals" :> <<<<1, 60>>>> @@ "classifier" :> <<<<90>>>>))

Boxes(num) ==
  Frame(<<>>, Bytes("OOB", num, 0, 0, 5, T(12, <<1, 71, 1>>) \o T(3002, <<72>>) \o T(3000, <<1, 1>>) \o T(410, <<1>>) \o T(320, <<>>)),
        Out("OOB", num, <<>>, <<>>, "boxes" :> <<<<71, 1>>>> @@ "occFeatures" :> <<<<72>>>> @@ "cam" :> <<<<1, 1>>>> @@ "flag" :> <<<<1>>>>))

Indoor(num) ==
  Frame(<<91, 91>>, Bytes("3DPT", num, 1, 1, 2, T(1020, <<9, 43>>) \o T(3001, <<9, 46>>)),
        Out("3DPT", num, <<Point(43, 1, 0)>>, <<Point(46, 1, 0)>>, NoLists))

S(demo, frames) == [demo |-> demo, frames |-> frames]
MCStreams ==
  { S("OOB", <<OutOfBox(<<91>>, 1), Tracks(2), OutOfBox(<<91, 33>>, 3)>>),
    S("OOB", <<Sensing(1), Vitals(2)>>),
    S("OOB", <<Boxes(1), Sensing(2), Tracks(3)>>),
    S("3DPT", <<Indoor(1), Indoor(2)>>) }

(* They are streams as a radar sends them. *)
ASSUME MCFramed == \A s \in MCStreams : Framed(s)
=============================================================================
