--------------------------- MODULE MCFrameClient ---------------------------
(* FrameClient on a small instance: two radar frames, noise before them,   *)
(* and the frames a program reads in a way of its own.                     *)
EXTENDS FrameClient

R(d) == [type |-> 2, data |-> d]
H(d) == [type |-> 5, data |-> d]

RangeFrame(i) == [bytes |-> <<91, 92, 8, 1, 2, 2, 50 + i, 60 + i>>, plots |-> <<R(<<50 + i, 60 + i>>)>>]
BothFrame == [bytes |-> <<91, 92, 14, 2, 5, 4, 71, 72, 73, 74, 2, 2, 75, 76>>,
              plots |-> <<H(<<71, 72, 73, 74>>), R(<<75, 76>>)>>]
PaddedFrame == [bytes |-> <<91, 92, 12, 2, 7, 1, 81, 0, 2, 2, 82, 83>>, plots |-> <<R(<<82, 83>>)>>]
ShortMap == [bytes |-> <<91, 92, 12, 2, 5, 2, 84, 85, 2, 2, 86, 87>>,
             plots |-> <<H(<<84, 85>>), H(<<84, 85, 0, 0>>), R(<<86, 87>>)>>]
OddFrame == [bytes |-> <<91, 92, 7, 1, 2, 1, 88>>, plots |-> <<>>]
ZeroFrame == [bytes |-> <<91, 92, 0, 1, 2, 1>>, plots |-> <<>>]
Noise == [bytes |-> <<8, 1, 92, 91, 0>>, plots |-> <<>>]

MCStreams == {<<Noise, RangeFrame(1)>>, <<RangeFrame(1), RangeFrame(2)>>,
              <<PaddedFrame>>, <<ShortMap>>, <<OddFrame, Noise>>, <<ZeroFrame>>,
              <<BothFrame>>}
MCConfigs == {<<[command |-> "profileCfg", arguments |-> 14], [command |-> "frameCfg", arguments |-> 7]>>,
              <<[command |-> "profileCfg", arguments |-> 14], [command |-> "profileCfg", arguments |-> 2]>>}

(* The streams are read as the plots beside them *)
ASSUME MCReadable == \A s \in MCStreams : Readable(s)
=============================================================================
