------------------------------ MODULE MCPort2 ------------------------------
(* Port2 on a small instance, and the properties that compare it with the  *)
(* frames as they were sent.                                               *)
EXTENDS Port2, SequencesExt

Pending == accum \o line

(* As long as no byte is lost, wherever the reads cut the stream: exactly  *)
(* the frames sent are handed on, in order, and each as soon as its last   *)
(* byte is in.  The bytes not yet handed on are the frames owed, behind    *)
(* what is left of the noise.                                              *)
InStep ==
  losses = 0 =>
    /\ ~missed
    /\ IsSuffix(FlattenSeq(owed), Pending)
    /\ owed # <<>> => Len(Pending) - Len(FlattenSeq(owed)) + Len(owed[1]) > Len(accum)

(* The bytes that still matter: from the first magic word on, or from      *)
(* where one may begin that is cut.                                        *)
Significant(b) ==
  IF MagicAt(b) # {} THEN Here(b)
  ELSE IF Len(b) > MagicLen - 1 THEN From(b, Len(b) - (MagicLen - 1)) ELSE b

(* Feeding two chunks one after the other, or as one, hands on the same    *)
(* frames and leaves the same bytes, unless the buffer saturates.          *)
ChunkIndependence ==
  \A n \in 2 .. ReadMax : \A k \in 1 .. n - 1 :
    n =< Len(line) /\ ~Saturated(accum, Take(line, n)) =>
      LET one == Feed(accum, Take(line, n))
          fst == Feed(accum, Take(line, k))
          snd == Feed(fst.left, SubSeq(line, k + 1, n))
      IN /\ fst.frames \o snd.frames = one.frames
         /\ Significant(snd.left) = Significant(one.left)

MCMagic == <<1, 2>>

(* Header only; a magic word in the payload; a TLV longer than its frame;  *)
(* and the longest that leaves room for a read, a heatmap of odd length in *)
(* a frame whose length, when that byte is lost, reads as the whole buffer.*)
MCFrames == {<<1, 2, 4, 0>>, <<1, 2, 8, 1, 2, 2, 1, 2>>, <<1, 2, 7, 3, 0, 9, 1>>,
             <<1, 2, 9, 13, 5, 3, 0, 0, 0>>}
MCNoises == {<<>>, <<0, 1>>, <<2, 0, 1, 1>>, <<0, 7, 1, 0, 2>>}
=============================================================================
