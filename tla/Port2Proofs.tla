---------------------------- MODULE Port2Proofs ----------------------------
(***************************************************************************)
(* Module Port2 for any magic word, lengths, frames and noise: the buffer  *)
(* is kept, what is handed on is sound, it does not matter how the reads   *)
(* cut the stream, and without a loss it is the frames sent.               *)
(***************************************************************************)
EXTENDS MCPort2, SequenceTheorems, WellFoundedInduction, TLAPS

-----------------------------------------------------------------------------
(* Induction, for sets of numbers *)

LEMMA NatMin ==
  ASSUME NEW T, T \subseteq Nat, T # {}
  PROVE  \E x \in T : \A y \in T : x =< y
<1> DEFINE R == OpToRel(<, Nat)
<1>1. IsWellFoundedOn(R, Nat)
  BY NatLessThanWellFounded
<1>2. R = {ss \in Nat \X Nat : ss[1] < ss[2]}
  BY DEF OpToRel
<1> HIDE DEF R
<1>3. PICK x \in T : \A y \in T : ~ (<<y, x>> \in R)
  BY <1>1, WFMin
<1>4. ASSUME NEW y \in T PROVE x =< y
  <2>1. x \in Nat /\ y \in Nat /\ <<y, x>> \notin R
    BY <1>3
  <2>2. ~ (y < x)
    BY <1>2, <2>1
  <2> QED BY <2>1, <2>2
<1> QED BY <1>4

LEMMA SetInduction ==
  ASSUME NEW T, 0 \in T, \A k \in Nat : k \in T => k + 1 \in T
  PROVE  Nat \subseteq T
<1> SUFFICES ASSUME Nat \ T # {} PROVE FALSE
  OBVIOUS
<1>1. PICK x \in Nat \ T : \A y \in Nat \ T : x =< y
  BY NatMin
<1>2. x # 0 /\ x - 1 \in Nat /\ (x - 1) + 1 = x
  BY <1>1
<1>3. x - 1 \notin T
  BY <1>2
<1>4. ~ (x =< x - 1)
  BY <1>2
<1> QED BY <1>1, <1>2, <1>3, <1>4

-----------------------------------------------------------------------------
(* The end and the beginning of a sequence of bytes *)

LEMMA FromProperties ==
  ASSUME NEW b \in Seq(Nat), NEW k \in 0 .. Len(b)
  PROVE  /\ From(b, k) \in Seq(Nat) /\ Len(From(b, k)) = Len(b) - k
         /\ \A i \in 1 .. Len(b) - k : From(b, k)[i] = b[k + i]
<1>1. Len(b) \in Nat /\ \A i \in 1 .. Len(b) : b[i] \in Nat
  BY LenProperties, ElementOfSeq
<1>2. k + 1 \in Int /\ Len(b) \in Int /\ \A i \in k + 1 .. Len(b) : b[i] \in Nat
  BY <1>1
<1>3. /\ From(b, k) \in Seq(Nat)
      /\ Len(From(b, k)) = IF k + 1 <= Len(b) THEN Len(b) - (k + 1) + 1 ELSE 0
      /\ \A i \in 1 .. Len(b) - (k + 1) + 1 : From(b, k)[i] = b[k + 1 + i - 1]
  BY <1>2, SubSeqProperties DEF From
<1>4. \A n \in Nat : k \in 0 .. n => (IF k + 1 <= n THEN n - (k + 1) + 1 ELSE 0) = n - k /\ n - (k + 1) + 1 = n - k
  OBVIOUS
<1>5. \A i \in Int : k + 1 + i - 1 = k + i
  OBVIOUS
<1> QED BY <1>1, <1>3, <1>4, <1>5

LEMMA TakeProperties ==
  ASSUME NEW b \in Seq(Nat), NEW k \in 0 .. Len(b)
  PROVE  /\ Take(b, k) \in Seq(Nat) /\ Len(Take(b, k)) = k
         /\ \A i \in 1 .. k : Take(b, k)[i] = b[i]
<1>1. Len(b) \in Nat /\ \A i \in 1 .. Len(b) : b[i] \in Nat
  BY LenProperties, ElementOfSeq
<1>2. 1 \in Int /\ k \in Int /\ \A i \in 1 .. k : b[i] \in Nat
  BY <1>1
<1>3. /\ Take(b, k) \in Seq(Nat)
      /\ Len(Take(b, k)) = IF 1 <= k THEN k - 1 + 1 ELSE 0
      /\ \A i \in 1 .. k - 1 + 1 : Take(b, k)[i] = b[1 + i - 1]
  BY <1>2, SubSeqProperties DEF Take
<1>4. (IF 1 <= k THEN k - 1 + 1 ELSE 0) = k /\ k - 1 + 1 = k
  BY <1>1
<1>5. \A i \in Int : 1 + i - 1 = i
  OBVIOUS
<1> QED BY <1>3, <1>4, <1>5

(* Two sequences of bytes are the same *)
LEMMA SameBytes ==
  ASSUME NEW s \in Seq(Nat), NEW t \in Seq(Nat), Len(s) = Len(t), \A i \in 1 .. Len(s) : s[i] = t[i]
  PROVE  s = t
BY SeqEqual

LEMMA FromZero == ASSUME NEW b \in Seq(Nat) PROVE From(b, 0) = b
<1>1. Len(b) \in Nat /\ 0 \in 0 .. Len(b)
  BY LenProperties
<1>2. From(b, 0) \in Seq(Nat) /\ Len(From(b, 0)) = Len(b) - 0 /\ \A i \in 1 .. Len(b) - 0 : From(b, 0)[i] = b[0 + i]
  BY <1>1, FromProperties
<1>3. Len(b) - 0 = Len(b) /\ \A i \in 1 .. Len(b) : 0 + i = i
  BY <1>1
<1> QED BY <1>2, <1>3, SameBytes

LEMMA FromFrom ==
  ASSUME NEW b \in Seq(Nat), NEW k \in 0 .. Len(b), NEW j \in 0 .. Len(b) - k
  PROVE  /\ k + j \in 0 .. Len(b) /\ From(From(b, k), j) = From(b, k + j)
<1>0. Len(b) \in Nat
  BY LenProperties
<1>1. k + j \in 0 .. Len(b) /\ Len(b) - (k + j) = (Len(b) - k) - j
  BY <1>0
<1>2. /\ From(b, k) \in Seq(Nat) /\ Len(From(b, k)) = Len(b) - k
      /\ \A i \in 1 .. Len(b) - k : From(b, k)[i] = b[k + i]
  BY FromProperties
<1>3. /\ From(From(b, k), j) \in Seq(Nat) /\ Len(From(From(b, k), j)) = (Len(b) - k) - j
      /\ \A i \in 1 .. (Len(b) - k) - j : From(From(b, k), j)[i] = From(b, k)[j + i]
  <2>1. j \in 0 .. Len(From(b, k))
    BY <1>2
  <2> QED BY <1>2, <2>1, FromProperties
<1>4. /\ From(b, k + j) \in Seq(Nat) /\ Len(From(b, k + j)) = Len(b) - (k + j)
      /\ \A i \in 1 .. Len(b) - (k + j) : From(b, k + j)[i] = b[(k + j) + i]
  BY <1>1, FromProperties
<1>5. ASSUME NEW i \in 1 .. (Len(b) - k) - j
      PROVE  From(From(b, k), j)[i] = From(b, k + j)[i]
  <2>1. j + i \in 1 .. Len(b) - k /\ k + (j + i) = (k + j) + i
    BY <1>0
  <2> QED BY <1>1, <1>2, <1>3, <1>4, <2>1
<1> QED BY <1>1, <1>3, <1>4, <1>5, SameBytes

LEMMA TakeAndFrom ==
  ASSUME NEW b \in Seq(Nat), NEW k \in 0 .. Len(b)
  PROVE  Take(b, k) \o From(b, k) = b
<1>0. Len(b) \in Nat
  BY LenProperties
<1>1. /\ Take(b, k) \in Seq(Nat) /\ Len(Take(b, k)) = k /\ From(b, k) \in Seq(Nat) /\ Len(From(b, k)) = Len(b) - k
      /\ \A i \in 1 .. k : Take(b, k)[i] = b[i]
      /\ \A i \in 1 .. Len(b) - k : From(b, k)[i] = b[k + i]
  BY FromProperties, TakeProperties
<1> DEFINE t == Take(b, k) \o From(b, k)
<1>2. /\ t \in Seq(Nat) /\ Len(t) = Len(Take(b, k)) + Len(From(b, k))
      /\ \A i \in 1 .. Len(Take(b, k)) + Len(From(b, k)) :
           t[i] = IF i <= Len(Take(b, k)) THEN Take(b, k)[i] ELSE From(b, k)[i - Len(Take(b, k))]
  BY <1>1, ConcatProperties
<1> HIDE DEF t
<1>3. k + (Len(b) - k) = Len(b)
  BY <1>0
<1>4. /\ Len(t) = Len(b)
      /\ \A i \in 1 .. Len(b) : t[i] = IF i <= k THEN Take(b, k)[i] ELSE From(b, k)[i - k]
  BY <1>1, <1>2, <1>3
<1>5. ASSUME NEW i \in 1 .. Len(b) PROVE t[i] = b[i]
  <2>1. CASE i <= k
    BY <1>0, <1>1, <1>4, <2>1
  <2>2. CASE ~(i <= k)
    <3>1. i - k \in 1 .. Len(b) - k /\ k + (i - k) = i
      BY <1>0, <2>2
    <3> QED BY <1>1, <1>4, <2>2, <3>1
  <2> QED BY <2>1, <2>2
<1>6. t = b
  BY <1>2, <1>4, <1>5, SameBytes
<1> QED BY <1>6 DEF t

-----------------------------------------------------------------------------
LEMMA Lengths ==
  /\ MagicLen \in Nat /\ MagicLen > 0 /\ HeaderLen \in Nat /\ HeaderLen >= MagicLen + 2 /\ AccumSize \in Nat
  /\ Preserve \in Nat /\ Preserve = MagicLen - 1
<1>1. Magic \in Seq(Nat)
  BY Port2Assumption
<1>2. MagicLen \in Nat
  BY <1>1, LenProperties DEF MagicLen
<1>3. MagicLen > 0 /\ HeaderLen \in Nat /\ HeaderLen >= MagicLen + 2 /\ AccumSize \in Nat
  BY Port2Assumption
<1> HIDE DEF MagicLen
<1> QED BY <1>2, <1>3 DEF Preserve

(* The first magic word, when there is one *)
LEMMA FirstFound ==
  ASSUME NEW r \in Seq(Nat), MagicAt(r) # {}
  PROVE  /\ MagicFirst(r) \in MagicAt(r) /\ \A j \in MagicAt(r) : MagicFirst(r) =< j
         /\ MagicFirst(r) \in 0 .. Len(r) - MagicLen /\ MagicFirst(r) \in 0 .. Len(r)
         /\ StartsWithMagic(r, MagicFirst(r))
<1>1. Len(r) \in Nat /\ MagicLen \in Nat
  BY LenProperties, Lengths
<1>2. MagicAt(r) \subseteq Nat /\ \A j \in MagicAt(r) : j \in 0 .. Len(r) - MagicLen /\ StartsWithMagic(r, j)
  BY <1>1 DEF MagicAt
<1>3. PICK x \in MagicAt(r) : \A j \in MagicAt(r) : x =< j
  BY <1>2, NatMin
<1>4. MagicFirst(r) \in MagicAt(r) /\ \A j \in MagicAt(r) : MagicFirst(r) =< j
  BY <1>3 DEF MagicFirst
<1>5. ASSUME NEW m \in 0 .. Len(r) - MagicLen PROVE m \in 0 .. Len(r)
  BY <1>1
<1> QED BY <1>2, <1>4, <1>5

(* What stands there *)
LEMMA HereProperties ==
  ASSUME NEW r \in Seq(Nat), MagicAt(r) # {}
  PROVE  /\ Here(r) \in Seq(Nat) /\ Len(Here(r)) = Len(r) - MagicFirst(r)
         /\ Len(Here(r)) \in Nat /\ Len(Here(r)) <= Len(r)
         /\ Len(Here(r)) >= HeaderLen => TotalLen(Here(r)) \in Nat
<1>1. MagicFirst(r) \in 0 .. Len(r)
  BY FirstFound
<1>2. Here(r) \in Seq(Nat) /\ Len(Here(r)) = Len(r) - MagicFirst(r)
  BY <1>1, FromProperties DEF Here
<1>3. Len(r) \in Nat /\ Len(Here(r)) \in Nat
  BY <1>2, LenProperties
<1>4. Len(Here(r)) <= Len(r)
  BY <1>1, <1>2, <1>3
<1>5. ASSUME Len(Here(r)) >= HeaderLen PROVE TotalLen(Here(r)) \in Nat
  <2>1. MagicLen + 1 \in 1 .. Len(Here(r))
    BY <1>3, <1>5, Lengths
  <2> QED BY <1>2, <2>1, ElementOfSeq DEF TotalLen
<1> QED BY <1>2, <1>3, <1>4, <1>5

(* The loop goes on, and forwards *)
LEMMA Advances ==
  ASSUME NEW r \in Seq(Nat), ~Stops(r)
  PROVE  /\ MagicAt(r) # {} /\ Len(Here(r)) >= HeaderLen /\ TotalLen(Here(r)) \in Nat
         /\ ~Skips(r) => TotalLen(Here(r)) \in HeaderLen .. Len(Here(r)) /\ TotalLen(Here(r)) =< AccumSize
         /\ Advance(r) \in 1 .. Len(r)
<1>1. MagicAt(r) # {} /\ ~(Len(Here(r)) < HeaderLen)
  BY DEF Stops
<1>2. Len(Here(r)) \in Nat /\ Len(r) \in Nat /\ HeaderLen \in Nat /\ MagicFirst(r) \in 0 .. Len(r)
      /\ Len(Here(r)) = Len(r) - MagicFirst(r)
  BY <1>1, HereProperties, FirstFound, Lengths, LenProperties
<1>3. Len(Here(r)) >= HeaderLen
  BY <1>1, <1>2
<1>4. TotalLen(Here(r)) \in Nat
  BY <1>1, <1>3, HereProperties
<1>5. ~Skips(r) => TotalLen(Here(r)) \in HeaderLen .. Len(Here(r)) /\ TotalLen(Here(r)) =< AccumSize
  <2>1. ~Skips(r) => ~(Len(Here(r)) < TotalLen(Here(r)))
    BY DEF Stops
  <2>2. ~Skips(r) => ~(TotalLen(Here(r)) < HeaderLen) /\ ~(TotalLen(Here(r)) > AccumSize)
    BY DEF Skips, BadLength
  <2> QED BY <1>2, <1>4, <2>1, <2>2, Lengths
<1>6. Advance(r) \in 1 .. Len(r)
  <2>1. CASE Skips(r)
    <3>1. Advance(r) = MagicFirst(r) + MagicLen
      BY <2>1 DEF Advance
    <3> QED BY <1>2, <1>3, <3>1, Lengths
  <2>2. CASE ~Skips(r)
    <3>1. Advance(r) = MagicFirst(r) + TotalLen(Here(r))
      BY <2>2 DEF Advance
    <3> QED BY <1>2, <1>4, <1>5, <2>2, <3>1, Lengths
  <2> QED BY <2>1, <2>2
<1> QED BY <1>1, <1>3, <1>4, <1>5, <1>6

(* A pass looks at later offsets only *)
LEMMA PassLooksAhead ==
  ASSUME NEW b \in Seq(Nat), NEW k \in 0 .. Len(b), NEW v, NEW w, \A j \in k + 1 .. Len(b) : v[j] = w[j]
  PROVE  Pass(b, v, k) = Pass(b, w, k)
<1>1. From(b, k) \in Seq(Nat) /\ Len(From(b, k)) = Len(b) - k /\ Len(b) \in Nat
  BY FromProperties, LenProperties
<1>2. CASE Stops(From(b, k))
  BY <1>2 DEF Pass
<1>3. CASE ~Stops(From(b, k))
  <2>1. Advance(From(b, k)) \in 1 .. Len(b) - k
    BY <1>1, <1>3, Advances
  <2>2. k + Advance(From(b, k)) \in k + 1 .. Len(b)
    BY <1>1, <2>1
  <2>3. v[k + Advance(From(b, k))] = w[k + Advance(From(b, k))]
    BY <2>2
  <2> QED BY <1>3, <2>3 DEF Pass
<1> QED BY <1>2, <1>3

(* The loop ends: there is a function that follows it from every offset    *)
LEMMA WalkExists ==
  ASSUME NEW b \in Seq(Nat)
  PROVE  \E w : w = [k \in 0 .. Len(b) |-> Pass(b, w, k)]
<1>0. Len(b) \in Nat
  BY LenProperties
<1> DEFINE n == Len(b)
           T == {m \in Nat : m =< n => \E w : w = [k \in n - m .. n |-> Pass(b, w, k)]}
<1> HIDE DEF n
<1>1. n \in Nat /\ n = Len(b)
  BY <1>0 DEF n
<1>2. 0 \in T
  <2> DEFINE w == [k \in n .. n |-> Pass(b, <<>>, k)]
  <2>1. ASSUME NEW k \in n .. n PROVE Pass(b, <<>>, k) = Pass(b, w, k)
    <3>1. k \in 0 .. Len(b) /\ k + 1 .. Len(b) = {}
      BY <1>1
    <3> HIDE DEF w
    <3> QED BY <3>1, PassLooksAhead
  <2>2. w = [k \in n .. n |-> Pass(b, w, k)]
    BY <2>1
  <2>3. n - 0 = n
    BY <1>1
  <2> QED BY <2>2, <2>3
<1>3. ASSUME NEW m \in Nat, m \in T PROVE m + 1 \in T
  <2> SUFFICES ASSUME m + 1 =< n PROVE \E w : w = [k \in n - (m + 1) .. n |-> Pass(b, w, k)]
    OBVIOUS
  <2>1. m =< n
    BY <1>1
  <2>2. PICK v : v = [k \in n - m .. n |-> Pass(b, v, k)]
    BY <1>3, <2>1
  <2> DEFINE w == [k \in n - (m + 1) .. n |-> Pass(b, v, k)]
  <2>3. \A j \in n - m .. n : j \in n - (m + 1) .. n
    BY <1>1
  <2>4. \A j \in n - m .. n : v[j] = Pass(b, v, j)
    BY <2>2
  <2>5. \A j \in n - m .. n : v[j] = w[j]
    BY <2>3, <2>4
  <2>6. ASSUME NEW k \in n - (m + 1) .. n PROVE Pass(b, v, k) = Pass(b, w, k)
    <3>1. k \in 0 .. Len(b) /\ \A j \in k + 1 .. Len(b) : j \in n - m .. n
      BY <1>1
    <3>2. \A j \in k + 1 .. Len(b) : v[j] = w[j]
      BY <2>5, <3>1
    <3> HIDE DEF w
    <3> QED BY <3>1, <3>2, PassLooksAhead
  <2>7. w = [k \in n - (m + 1) .. n |-> Pass(b, w, k)]
    BY <2>6
  <2> QED BY <2>7
<1> HIDE DEF T
<1>4. n \in T
  BY <1>1, <1>2, <1>3, SetInduction
<1>5. \E w : w = [k \in n - n .. n |-> Pass(b, w, k)]
  BY <1>1, <1>4 DEF T
<1>6. n - n = 0
  BY <1>1
<1> QED BY <1>5, <1>6 DEF n

(* Two such functions of sequences of which one is the end of the other    *)
(* are the same, behind what the other has before it.                      *)
Walks(w, b) == w = [k \in 0 .. Len(b) |-> Pass(b, w, k)]

LEMMA WalkOfTheRest ==
  ASSUME NEW b \in Seq(Nat), NEW d \in 0 .. Len(b), NEW w, Walks(w, b), NEW v, Walks(v, From(b, d))
  PROVE  v[0] = w[d]
<1> DEFINE c == From(b, d)
           n == Len(b) - d
           T == {m \in Nat : \A k \in 0 .. n : n - k =< m => v[k] = w[d + k]}
<1>1. c \in Seq(Nat) /\ Len(c) = n /\ Len(b) \in Nat /\ n \in Nat /\ d \in Nat /\ d + n = Len(b)
  BY FromProperties, LenProperties
<1>2. \A k \in 0 .. n : v[k] = Pass(c, v, k)
  <2>1. v = [k \in 0 .. Len(c) |-> Pass(c, v, k)]
    BY DEF Walks
  <2> QED BY <1>1, <2>1
<1>3. \A k \in 0 .. Len(b) : w[k] = Pass(b, w, k)
  <2>1. w = [k \in 0 .. Len(b) |-> Pass(b, w, k)]
    BY DEF Walks
  <2> QED BY <2>1
<1>4. ASSUME NEW k \in 0 .. n PROVE From(c, k) = From(b, d + k) /\ d + k \in 0 .. Len(b)
  BY <1>4, FromFrom
<1> HIDE DEF c, n
<1>5. ASSUME NEW k \in 0 .. n, \A j \in k + 1 .. n : v[j] = w[d + j]
      PROVE  v[k] = w[d + k]
  <2> DEFINE r == From(c, k)
  <2>1. r = From(b, d + k) /\ d + k \in 0 .. Len(b) /\ r \in Seq(Nat) /\ Len(r) = n - k
    <3>1. k \in 0 .. Len(c)
      BY <1>1
    <3>2. From(c, k) \in Seq(Nat) /\ Len(From(c, k)) = Len(c) - k
      BY <1>1, <3>1, FromProperties
    <3> QED BY <1>1, <1>4, <3>2
  <2>2. v[k] = Pass(c, v, k) /\ w[d + k] = Pass(b, w, d + k)
    BY <1>2, <1>3, <2>1
  <2>3. CASE Stops(r)
    <3>1. Pass(c, v, k) = [frames |-> <<>>, left |-> Remains(r)] /\ Pass(b, w, d + k) = [frames |-> <<>>, left |-> Remains(r)]
      BY <2>1, <2>3 DEF Pass
    <3> QED BY <2>2, <3>1
  <2>4. CASE ~Stops(r)
    <3> DEFINE a == Advance(r)
    <3>1. a \in 1 .. n - k
      BY <2>1, <2>4, Advances
    <3> HIDE DEF a
    <3>2. k + a \in k + 1 .. n /\ d + (k + a) = (d + k) + a
      <4>1. a \in Int /\ a >= 1 /\ a <= n - k /\ k \in Int /\ n \in Int /\ d \in Int
        BY <1>1, <3>1
      <4> QED BY <4>1
    <3>3. v[k + a] = w[(d + k) + a]
      BY <1>5, <3>2
    <3>4. /\ Pass(c, v, k) = IF Skips(r) THEN v[k + a] ELSE [v[k + a] EXCEPT !.frames = <<Cut(r)>> \o @]
          /\ Pass(b, w, d + k) = IF Skips(r) THEN w[(d + k) + a] ELSE [w[(d + k) + a] EXCEPT !.frames = <<Cut(r)>> \o @]
      BY <2>1, <2>4 DEF Pass, a
    <3> QED BY <2>2, <3>3, <3>4
  <2> QED BY <2>3, <2>4
<1>6. 0 \in T
  <2>1. ASSUME NEW k \in 0 .. n, n - k =< 0 PROVE v[k] = w[d + k]
    <3>1. k + 1 .. n = {}
      BY <1>1, <2>1
    <3> QED BY <1>5, <3>1
  <2> QED BY <2>1
<1>7. ASSUME NEW m \in Nat, m \in T PROVE m + 1 \in T
  <2>1. ASSUME NEW k \in 0 .. n, n - k =< m + 1 PROVE v[k] = w[d + k]
    <3>1. ASSUME NEW j \in k + 1 .. n PROVE v[j] = w[d + j]
      <4>1. j \in 0 .. n /\ n - j =< m
        BY <1>1, <2>1
      <4> QED BY <1>7, <4>1
    <3> QED BY <1>5, <3>1
  <2>2. m + 1 \in Nat
    OBVIOUS
  <2> QED BY <2>1, <2>2, Zenon
<1> HIDE DEF T
<1>8. n \in T
  BY <1>1, <1>6, <1>7, SetInduction
<1>9. 0 \in 0 .. n /\ n - 0 =< n /\ d + 0 = d
  BY <1>1
<1>10. v[0] = w[d + 0]
  BY <1>8, <1>9 DEF T
<1> QED BY <1>9, <1>10

(* port2_feed, pass by pass *)
LEMMA DrainUnfolds ==
  ASSUME NEW b \in Seq(Nat)
  PROVE  Drain(b) = IF Stops(b) THEN [frames |-> <<>>, left |-> Remains(b)]
                    ELSE IF Skips(b) THEN Drain(From(b, Advance(b)))
                    ELSE [Drain(From(b, Advance(b))) EXCEPT !.frames = <<Cut(b)>> \o @]
<1> DEFINE Walk(c) == CHOOSE w : w = [k \in 0 .. Len(c) |-> Pass(c, w, k)]
<1>1. ASSUME NEW c \in Seq(Nat)
      PROVE  Walk(c) = [k \in 0 .. Len(c) |-> Pass(c, Walk(c), k)] /\ Drain(c) = Walk(c)[0]
  <2>1. Walk(c) = [k \in 0 .. Len(c) |-> Pass(c, Walk(c), k)]
    BY <1>1, WalkExists
  <2>2. Drain(c) = Walk(c)[0]
    BY DEF Drain
  <2> QED BY <2>1, <2>2
<1> HIDE DEF Walk
<1>2. Len(b) \in Nat /\ 0 \in 0 .. Len(b)
  BY LenProperties
<1>3. From(b, 0) = b
  BY FromZero
<1>4. Drain(b) = Pass(b, Walk(b), 0)
  BY <1>1, <1>2
<1>5. CASE Stops(b)
  BY <1>3, <1>4, <1>5 DEF Pass
<1>6. CASE ~Stops(b)
  <2> DEFINE d == Advance(b)
  <2>1. d \in 1 .. Len(b)
    BY <1>6, Advances
  <2>2. d \in 0 .. Len(b) /\ 0 + d = d
    BY <1>2, <2>1
  <2>3. From(b, d) \in Seq(Nat)
    BY <2>2, FromProperties
  <2>4. Walk(From(b, d))[0] = Walk(b)[d]
    <3>1. Walks(Walk(b), b) /\ Walks(Walk(From(b, d)), From(b, d))
      BY <1>1, <2>3 DEF Walks
    <3>2. b \in Seq(Nat) /\ d \in 0 .. Len(b)
      BY <2>2
    <3> HIDE DEF d
    <3> QED BY <3>1, <3>2, WalkOfTheRest
  <2>5. Drain(From(b, d)) = Walk(b)[d]
    BY <1>1, <2>3, <2>4
  <2>6. Pass(b, Walk(b), 0) = IF Skips(b) THEN Walk(b)[0 + d] ELSE [Walk(b)[0 + d] EXCEPT !.frames = <<Cut(b)>> \o @]
    BY <1>3, <1>6 DEF Pass
  <2> QED BY <1>4, <1>6, <2>2, <2>5, <2>6
<1> QED BY <1>5, <1>6

-----------------------------------------------------------------------------
(* What is handed on *)

GoodFrame(f) == f \in Seq(Nat) /\ Len(f) >= HeaderLen /\ StartsWithMagic(f, 0) /\ TotalLen(f) = Len(f)
GoodFrames == {f \in Seq(Nat) : GoodFrame(f)}
Result == [frames : Seq(GoodFrames), left : Seq(Nat)]

(* The bytes memcmp looks at *)
LEMMA WordAt ==
  ASSUME NEW b \in Seq(Nat), NEW k \in 0 .. Len(b) - MagicLen
  PROVE  LET x == SubSeq(b, k + 1, k + MagicLen) IN
         x \in Seq(Nat) /\ Len(x) = MagicLen /\ \A i \in 1 .. MagicLen : x[i] = b[k + i]
<1> DEFINE x == SubSeq(b, k + 1, k + MagicLen)
<1>0. Len(b) \in Nat /\ MagicLen \in Nat /\ MagicLen > 0
  BY LenProperties, Lengths
<1>1. k \in Nat /\ k + 1 \in Int /\ k + MagicLen \in Int /\ k + MagicLen <= Len(b)
  BY <1>0
<1>2. ASSUME NEW i \in k + 1 .. k + MagicLen PROVE b[i] \in Nat
  <2>1. i \in 1 .. Len(b)
    BY <1>0, <1>1
  <2> QED BY <2>1, ElementOfSeq
<1>3. /\ x \in Seq(Nat) /\ Len(x) = IF k + 1 <= k + MagicLen THEN (k + MagicLen) - (k + 1) + 1 ELSE 0
      /\ \A i \in 1 .. (k + MagicLen) - (k + 1) + 1 : x[i] = b[(k + 1) + i - 1]
  BY <1>1, <1>2, SubSeqProperties
<1> HIDE DEF x
<1>4. (k + MagicLen) - (k + 1) + 1 = MagicLen /\ k + 1 <= k + MagicLen
  BY <1>0, <1>1
<1>5. \A i \in 1 .. MagicLen : (k + 1) + i - 1 = k + i
  BY <1>0, <1>1
<1>6. x \in Seq(Nat) /\ Len(x) = MagicLen
  BY <1>3, <1>4
<1>7. \A i \in 1 .. MagicLen : x[i] = b[k + i]
  BY <1>3, <1>4, <1>5
<1> QED BY <1>6, <1>7 DEF x

(* The magic word is at the beginning of what stands where it is found *)
LEMMA MagicIsHere ==
  ASSUME NEW r \in Seq(Nat), MagicAt(r) # {}, NEW n \in MagicLen .. Len(Here(r))
  PROVE  StartsWithMagic(Take(Here(r), n), 0)
<1> DEFINE f == MagicFirst(r)
           h == Here(r)
           t == Take(h, n)
<1>1. /\ h \in Seq(Nat) /\ Len(h) = Len(r) - f /\ Len(h) \in Nat /\ Len(r) \in Nat /\ MagicLen \in Nat
      /\ f \in 0 .. Len(r) - MagicLen /\ f \in 0 .. Len(r) /\ StartsWithMagic(r, f)
  BY HereProperties, FirstFound, Lengths, LenProperties
<1>2. \A i \in 1 .. Len(r) - f : h[i] = r[f + i]
  BY <1>1, FromProperties DEF Here
<1> HIDE DEF f, h
<1>4. n \in Nat /\ n >= MagicLen /\ n <= Len(h) /\ n \in 0 .. Len(h)
  BY <1>1 DEF h
<1>3. t \in Seq(Nat) /\ Len(t) = n /\ \A i \in 1 .. n : t[i] = h[i]
  BY <1>1, <1>4, TakeProperties
<1> HIDE DEF t
<1> DEFINE x == SubSeq(r, f + 1, f + MagicLen)
           y == SubSeq(t, 0 + 1, 0 + MagicLen)
<1>5. /\ x \in Seq(Nat) /\ Len(x) = MagicLen /\ \A i \in 1 .. MagicLen : x[i] = r[f + i]
  BY <1>1, WordAt
<1>6. /\ y \in Seq(Nat) /\ Len(y) = MagicLen /\ \A i \in 1 .. MagicLen : y[i] = t[i]
  <2>1. 0 + 1 = 1 /\ 0 + MagicLen = MagicLen /\ MagicLen \in 0 .. Len(t)
    BY <1>1, <1>3, <1>4
  <2>2. y = Take(t, MagicLen)
    BY <2>1 DEF Take
  <2> QED BY <1>3, <2>1, <2>2, TakeProperties
<1> HIDE DEF x, y
<1>7. \A i \in 1 .. MagicLen : y[i] = x[i]
  <2>1. \A i \in 1 .. MagicLen : i \in 1 .. n /\ i \in 1 .. Len(r) - f
    BY <1>1, <1>4
  <2> QED BY <1>2, <1>3, <1>5, <1>6, <2>1
<1>8. y = x
  BY <1>5, <1>6, <1>7, SameBytes
<1>9. x = Magic
  BY <1>1 DEF x, StartsWithMagic
<1> QED BY <1>8, <1>9 DEF y, t, StartsWithMagic, h

(* The frame that is cut off is whole *)
LEMMA CutIsGood ==
  ASSUME NEW r \in Seq(Nat), ~Stops(r), ~Skips(r)
  PROVE  Cut(r) \in GoodFrames
<1> DEFINE h == Here(r)
           n == TotalLen(h)
           t == Take(h, n)
<1>1. /\ MagicAt(r) # {} /\ n \in HeaderLen .. Len(h) /\ h \in Seq(Nat) /\ Len(h) \in Nat
  BY Advances, HereProperties
<1>2. n \in 0 .. Len(h) /\ n \in MagicLen .. Len(h) /\ MagicLen + 1 \in 1 .. n /\ n >= HeaderLen /\ n \in Nat
  BY <1>1, Lengths
<1>3. t \in Seq(Nat) /\ Len(t) = n /\ \A i \in 1 .. n : t[i] = h[i]
  BY <1>1, <1>2, TakeProperties
<1>4. TotalLen(t) = n
  BY <1>2, <1>3 DEF TotalLen
<1>5. StartsWithMagic(t, 0)
  BY <1>1, <1>2, MagicIsHere
<1>6. Cut(r) = t
  BY DEF Cut
<1> HIDE DEF t, n
<1> QED BY <1>2, <1>3, <1>4, <1>5, <1>6 DEF GoodFrames, GoodFrame

LEMMA RemainsProperties ==
  ASSUME NEW r \in Seq(Nat), Stops(r)
  PROVE  Remains(r) \in Seq(Nat) /\ Len(Remains(r)) <= Len(r)
<1>1. Len(r) \in Nat
  BY LenProperties
<1>2. CASE Len(r) < HeaderLen
  BY <1>1, <1>2 DEF Remains
<1>3. CASE ~(Len(r) < HeaderLen) /\ MagicAt(r) = {}
  <2>1. Len(r) - Preserve \in 0 .. Len(r)
    BY <1>1, <1>3, Lengths
  <2>2. From(r, Len(r) - Preserve) \in Seq(Nat) /\ Len(From(r, Len(r) - Preserve)) = Len(r) - (Len(r) - Preserve)
    BY <2>1, FromProperties
  <2>3. Len(r) - (Len(r) - Preserve) <= Len(r)
    BY <1>1, <2>1
  <2> QED BY <1>3, <2>2, <2>3 DEF Remains
<1>4. CASE ~(Len(r) < HeaderLen) /\ MagicAt(r) # {}
  BY <1>4, HereProperties DEF Remains
<1> QED BY <1>2, <1>3, <1>4

(* Whatever the bytes, whole frames are handed on, and no more bytes stay  *)
(* than there were.                                                        *)
LEMMA DrainProperties ==
  ASSUME NEW b \in Seq(Nat)
  PROVE  Drain(b) \in Result /\ Len(Drain(b).left) <= Len(b)
<1> DEFINE T == {m \in Nat : \A c \in Seq(Nat) : Len(c) =< m => Drain(c) \in Result /\ Len(Drain(c).left) <= Len(c)}
<1>1. ASSUME NEW c \in Seq(Nat), Stops(c)
      PROVE  Drain(c) \in Result /\ Len(Drain(c).left) <= Len(c)
  <2>1. Drain(c) = [frames |-> <<>>, left |-> Remains(c)]
    BY <1>1, DrainUnfolds
  <2>2. <<>> \in Seq(GoodFrames) /\ Remains(c) \in Seq(Nat) /\ Len(Remains(c)) <= Len(c)
    BY <1>1, EmptySeq, RemainsProperties
  <2> QED BY <2>1, <2>2 DEF Result
<1>2. 0 \in T
  <2> SUFFICES ASSUME NEW c \in Seq(Nat), Len(c) =< 0
               PROVE  Drain(c) \in Result /\ Len(Drain(c).left) <= Len(c)
    OBVIOUS
  <2>1. Len(c) < HeaderLen
    BY LenProperties, Lengths
  <2> QED BY <1>1, <2>1 DEF Stops
<1>3. ASSUME NEW m \in Nat, m \in T PROVE m + 1 \in T
  <2> SUFFICES ASSUME NEW c \in Seq(Nat), Len(c) =< m + 1
               PROVE  Drain(c) \in Result /\ Len(Drain(c).left) <= Len(c)
    OBVIOUS
  <2>1. CASE Stops(c)
    BY <1>1, <2>1
  <2>2. CASE ~Stops(c)
    <3> DEFINE a == Advance(c)
               d == From(c, a)
    <3>1. a \in 1 .. Len(c) /\ Len(c) \in Nat
      BY <2>2, Advances, LenProperties
    <3>2. a \in 0 .. Len(c)
      BY <3>1
    <3>3. d \in Seq(Nat) /\ Len(d) = Len(c) - a
      BY <3>2, FromProperties
    <3>4. Len(d) =< m /\ Len(d) <= Len(c) /\ Len(d) \in Nat
      BY <3>1, <3>3
    <3> HIDE DEF d
    <3>5. Drain(d) \in Result /\ Len(Drain(d).left) <= Len(d)
      BY <1>3, <3>3, <3>4
    <3>6. Drain(d).left \in Seq(Nat) /\ Drain(d).frames \in Seq(GoodFrames)
      BY <3>5 DEF Result
    <3>7. Len(Drain(d).left) <= Len(c)
      BY <3>1, <3>4, <3>5, <3>6, LenProperties
    <3>8. CASE Skips(c)
      <4>1. Drain(c) = Drain(d)
        BY <2>2, <3>8, DrainUnfolds DEF d
      <4> QED BY <3>5, <3>7, <4>1
    <3>9. CASE ~Skips(c)
      <4>1. Drain(c) = [Drain(d) EXCEPT !.frames = <<Cut(c)>> \o @]
        BY <2>2, <3>9, DrainUnfolds DEF d
      <4>2. <<Cut(c)>> \o Drain(d).frames \in Seq(GoodFrames)
        <5>1. <<Cut(c)>> \in Seq(GoodFrames)
          BY <2>2, <3>9, CutIsGood
        <5> QED BY <3>6, <5>1, ConcatProperties
      <4>3. Drain(c) \in Result /\ Drain(c).left = Drain(d).left
        BY <3>5, <4>1, <4>2 DEF Result
      <4> QED BY <3>7, <4>3
    <3> QED BY <3>8, <3>9
  <2> QED BY <2>1, <2>2
<1> HIDE DEF T
<1>4. Len(b) \in Nat /\ Len(b) \in T
  BY <1>2, <1>3, SetInduction, LenProperties
<1> QED BY <1>4 DEF T

-----------------------------------------------------------------------------
(* The walk over the TLVs of a frame *)

Tlv == [type : Nat, at : Nat, len : Nat]

(* TLVs lie behind the header, one after the other, and before n *)
InOrder(ts, n) ==
  \A j \in DOMAIN ts :
    /\ HeaderLen =< ts[j].at - TlvHeaderLen
    /\ ts[j].at + ts[j].len =< n
    /\ j > 1 => ts[j - 1].at + ts[j - 1].len =< ts[j].at - TlvHeaderLen

(* What the walk has come to: it stands behind the last TLV *)
TlvWalk(f) ==
  {w \in [at : Nat, done : Seq(Tlv), going : BOOLEAN] :
     /\ w.at >= HeaderLen /\ InOrder(w.done, Len(f))
     /\ w.done # <<>> => w.done[Len(w.done)].at + w.done[Len(w.done)].len =< w.at}

NextTlv(f, w) ==
  IF w.going /\ TlvFits(f, w.at)
  THEN LET start == w.at + TlvHeaderLen
           n == f[w.at + 2]
       IN [at |-> Padded(start + n), going |-> TRUE,
           done |-> Append(w.done, [type |-> f[w.at + 1], at |-> start, len |-> n])]
  ELSE [w EXCEPT !.going = FALSE]

LEMMA PaddedGrows ==
  ASSUME NEW o \in Nat
  PROVE  Padded(o) \in Nat /\ Padded(o) >= o
<1>1. Align \in Nat \ {0}
  BY Port2Assumption
<1>2. o % Align \in 0 .. Align - 1
  BY <1>1
<1>3. Align - (o % Align) \in Nat
  BY <1>1, <1>2
<1> QED BY <1>3 DEF Padded

LEMMA NextTlvKeeps ==
  ASSUME NEW f \in Seq(Nat), NEW w \in TlvWalk(f)
  PROVE  NextTlv(f, w) \in TlvWalk(f)
<1>0. /\ w.at \in Nat /\ w.done \in Seq(Tlv) /\ w.going \in BOOLEAN /\ w.at >= HeaderLen /\ InOrder(w.done, Len(f))
      /\ w.done # <<>> => w.done[Len(w.done)].at + w.done[Len(w.done)].len =< w.at
  BY DEF TlvWalk
<1>1. CASE ~(w.going /\ TlvFits(f, w.at))
  <2>1. NextTlv(f, w) = [w EXCEPT !.going = FALSE]
    BY <1>1 DEF NextTlv
  <2> QED BY <2>1 DEF TlvWalk
<1>2. CASE w.going /\ TlvFits(f, w.at)
  <2> DEFINE start == w.at + TlvHeaderLen
             n == f[w.at + 2]
             t == [type |-> f[w.at + 1], at |-> start, len |-> n]
             p == Padded(start + n)
  <2>1. TlvHeaderLen \in Nat /\ TlvHeaderLen >= 2 /\ HeaderLen \in Nat
    BY Port2Assumption
  <2>2. w.at + TlvHeaderLen =< Len(f) /\ start + n =< Len(f)
    BY <1>2 DEF TlvFits
  <2>3. w.at + 1 \in 1 .. Len(f) /\ w.at + 2 \in 1 .. Len(f) /\ Len(f) \in Nat
    <3>1. Len(f) \in Nat /\ w.at \in Nat
      BY <1>0, LenProperties
    <3>2. ASSUME NEW q \in Nat, NEW l \in Nat, q + TlvHeaderLen =< l PROVE q + 1 \in 1 .. l /\ q + 2 \in 1 .. l
      BY <2>1, <3>2
    <3> QED BY <2>2, <3>1, <3>2
  <2>4. n \in Nat /\ f[w.at + 1] \in Nat /\ start \in Nat /\ start + n \in Nat
    <3>1. n \in Nat /\ f[w.at + 1] \in Nat
      BY <2>3, ElementOfSeq
    <3>2. start \in Nat
      BY <1>0, <2>1
    <3> HIDE DEF n, start
    <3> QED BY <3>1, <3>2
  <2>5. t \in Tlv /\ t.at = start /\ t.len = n
    BY <2>4 DEF Tlv
  <2>6. p \in Nat /\ p >= start + n
    BY <2>4, PaddedGrows
  <2>7. NextTlv(f, w) = [at |-> p, going |-> TRUE, done |-> Append(w.done, t)]
    BY <1>2 DEF NextTlv
  <2> HIDE DEF t, p
  <2> DEFINE ts == Append(w.done, t)
  <2>8. /\ ts \in Seq(Tlv) /\ Len(ts) = Len(w.done) + 1 /\ ts[Len(w.done) + 1] = t /\ Len(w.done) \in Nat
        /\ \A i \in 1 .. Len(w.done) : ts[i] = w.done[i]
        /\ DOMAIN ts = 1 .. Len(ts) /\ DOMAIN w.done = 1 .. Len(w.done)
    BY <1>0, <2>5, AppendProperties, LenProperties
  <2>9. p >= HeaderLen
    <3>1. w.at \in Nat /\ w.at >= HeaderLen
      BY <1>0
    <3>2. ASSUME NEW q \in Nat, NEW e \in Nat, q >= HeaderLen, p >= (q + TlvHeaderLen) + e PROVE p >= HeaderLen
      BY <2>1, <2>6, <3>2
    <3> QED BY <2>4, <2>6, <3>1, <3>2
  <2> HIDE DEF ts
  <2>10. ASSUME NEW j \in DOMAIN ts
         PROVE  /\ HeaderLen =< ts[j].at - TlvHeaderLen
                /\ ts[j].at + ts[j].len =< Len(f)
                /\ j > 1 => ts[j - 1].at + ts[j - 1].len =< ts[j].at - TlvHeaderLen
    <3>1. CASE j \in 1 .. Len(w.done)
      <4>1. ts[j] = w.done[j] /\ (j > 1 => ts[j - 1] = w.done[j - 1])
        BY <2>8, <3>1
      <4> QED BY <1>0, <2>8, <3>1, <4>1 DEF InOrder
    <3>2. CASE j = Len(w.done) + 1
      <4>1. ts[j] = t
        BY <2>8, <3>2
      <4>2. HeaderLen =< start - TlvHeaderLen /\ start - TlvHeaderLen = w.at
        BY <1>0, <2>1
      <4>3. j > 1 => ts[j - 1].at + ts[j - 1].len =< w.at
        <5> SUFFICES ASSUME j > 1 PROVE ts[j - 1].at + ts[j - 1].len =< w.at
          OBVIOUS
        <5>1. j - 1 = Len(w.done) /\ Len(w.done) \in 1 .. Len(w.done)
          BY <2>8, <3>2
        <5>2. w.done # <<>>
          BY <1>0, <5>1, EmptySeq
        <5> QED BY <1>0, <2>8, <5>1, <5>2
      <4> QED BY <2>2, <2>5, <4>1, <4>2, <4>3
    <3> QED BY <2>8, <3>1, <3>2
  <2>11. InOrder(ts, Len(f))
    BY <2>10 DEF InOrder
  <2>12. ts[Len(ts)].at + ts[Len(ts)].len =< p
    BY <2>4, <2>5, <2>6, <2>8
  <2>13. NextTlv(f, w) = [at |-> p, going |-> TRUE, done |-> ts]
    BY <2>7 DEF ts
  <2> QED BY <2>6, <2>8, <2>9, <2>11, <2>12, <2>13 DEF TlvWalk
<1> QED BY <1>1, <1>2

(* A step taken again and again from a start *)
Iteration(g, a, s, n) == g = [i \in 1 .. n |-> IF i = 1 THEN a ELSE s[g[i - 1]]]

LEMMA Iterates ==
  ASSUME NEW W, NEW a \in W, NEW s \in [W -> W], NEW n \in Nat \ {0}
  PROVE  \E g : Iteration(g, a, s, n)
<1> DEFINE T == {m \in Nat : m >= 1 => \E g : g \in [1 .. m -> W] /\ \A i \in 1 .. m : g[i] = IF i = 1 THEN a ELSE s[g[i - 1]]}
<1>1. 0 \in T
  OBVIOUS
<1>2. ASSUME NEW m \in Nat, m \in T PROVE m + 1 \in T
  <2>1. CASE m = 0
    <3> DEFINE g == [i \in 1 .. 1 |-> a]
    <3>1. g \in [1 .. 1 -> W] /\ \A i \in 1 .. 1 : g[i] = IF i = 1 THEN a ELSE s[g[i - 1]]
      OBVIOUS
    <3>2. m + 1 = 1
      BY <2>1
    <3> HIDE DEF g
    <3>3. g \in [1 .. m + 1 -> W] /\ \A i \in 1 .. m + 1 : g[i] = IF i = 1 THEN a ELSE s[g[i - 1]]
      <4> HIDE <2>1
      <4> QED BY <3>1, <3>2, Zenon
    <3> QED BY <3>3
  <2>2. CASE m # 0
    <3>1. m >= 1 /\ m \in 1 .. m
      BY <2>2
    <3>2. PICK g : g \in [1 .. m -> W] /\ \A i \in 1 .. m : g[i] = IF i = 1 THEN a ELSE s[g[i - 1]]
      BY <1>2, <3>1
    <3> DEFINE h == [i \in 1 .. m + 1 |-> IF i = m + 1 THEN s[g[m]] ELSE g[i]]
    <3>3. g[m] \in W /\ s[g[m]] \in W
      BY <3>1, <3>2
    <3>4. \A i \in 1 .. m + 1 : i # m + 1 => i \in 1 .. m /\ g[i] \in W
      BY <3>2
    <3>5. h \in [1 .. m + 1 -> W]
      BY <3>3, <3>4
    <3>6. ASSUME NEW i \in 1 .. m + 1 PROVE h[i] = IF i = 1 THEN a ELSE s[h[i - 1]]
      <4>1. CASE i = m + 1
        <5>1. i # 1 /\ i - 1 = m /\ m \in 1 .. m + 1 /\ m # m + 1
          BY <3>1, <4>1
        <5>2. h[m] = g[m] /\ h[i] = s[g[m]]
          BY <4>1, <5>1
        <5> HIDE DEF h
        <5> QED BY <5>1, <5>2
      <4>2. CASE i # m + 1
        <5>1. i \in 1 .. m /\ h[i] = g[i]
          BY <4>2
        <5>2. i # 1 => i - 1 \in 1 .. m /\ i - 1 # m + 1 /\ i - 1 \in 1 .. m + 1
          BY <5>1
        <5>3. i # 1 => h[i - 1] = g[i - 1]
          BY <5>2
        <5> HIDE DEF h
        <5> QED BY <3>2, <5>1, <5>3
      <4> QED BY <4>1, <4>2
    <3> HIDE DEF h
    <3> QED BY <3>5, <3>6
  <2> QED BY <2>1, <2>2
<1> HIDE DEF T
<1>3. n \in T /\ n >= 1
  BY <1>1, <1>2, SetInduction
<1>4. PICK g : g \in [1 .. n -> W] /\ \A i \in 1 .. n : g[i] = IF i = 1 THEN a ELSE s[g[i - 1]]
  BY <1>3 DEF T
<1>5. g = [i \in 1 .. n |-> IF i = 1 THEN a ELSE s[g[i - 1]]]
  BY <1>4
<1> QED BY <1>5 DEF Iteration

(* Whatever the bytes, the TLVs handed on are in order and in the frame *)
LEMMA TlvsProperties ==
  ASSUME NEW f \in GoodFrames
  PROVE  Tlvs(f) \in Seq(Tlv) /\ InOrder(Tlvs(f), Len(f))
<1> DEFINE n == NumTlvs(f) + 1
           a == [at |-> HeaderLen, done |-> <<>>, going |-> TRUE]
           s == [w \in TlvWalk(f) |-> NextTlv(f, w)]
           F(w) == [i \in 1 .. n |-> IF i = 1 THEN a ELSE NextTlv(f, w[i - 1])]
           walk == CHOOSE w : w = F(w)
<1>1. f \in Seq(Nat) /\ n \in Nat \ {0}
  <2>1. f \in Seq(Nat) /\ Len(f) >= HeaderLen /\ Len(f) \in Nat
    BY LenProperties DEF GoodFrames, GoodFrame
  <2>2. MagicLen + 2 \in 1 .. Len(f)
    BY <2>1, Lengths
  <2>3. NumTlvs(f) \in Nat
    BY <2>1, <2>2, ElementOfSeq DEF NumTlvs
  <2> QED BY <2>1, <2>3
<1>2. Tlvs(f) = walk[n].done
  BY DEF Tlvs, NextTlv
<1>3. a \in TlvWalk(f)
  <2>1. <<>> \in Seq(Tlv) /\ DOMAIN <<>> = {}
    BY EmptySeq
  <2>2. HeaderLen \in Nat /\ a.at = HeaderLen /\ a.done = <<>> /\ a.going = TRUE /\ HeaderLen >= HeaderLen
    BY Lengths
  <2>3. a \in [at : Nat, done : Seq(Tlv), going : BOOLEAN]
    BY <2>1, <2>2
  <2>4. InOrder(a.done, Len(f))
    BY <2>1, <2>2 DEF InOrder
  <2> HIDE DEF a
  <2> QED BY <2>2, <2>3, <2>4 DEF TlvWalk
<1>4. s \in [TlvWalk(f) -> TlvWalk(f)]
  BY <1>1, NextTlvKeeps
<1> HIDE DEF n, a
<1> HIDE DEF s
<1>5. PICK g : Iteration(g, a, s, n)
  BY <1>1, <1>3, <1>4, Iterates
<1>6. g = [i \in 1 .. n |-> IF i = 1 THEN a ELSE s[g[i - 1]]] /\ \A i \in 1 .. n : g[i] = IF i = 1 THEN a ELSE s[g[i - 1]]
  <2>1. g = [i \in 1 .. n |-> IF i = 1 THEN a ELSE s[g[i - 1]]]
    BY <1>5 DEF Iteration
  <2> QED BY <2>1
<1>7. \A i \in 1 .. n : g[i] \in TlvWalk(f)
  <2> DEFINE T == {m \in Nat : m + 1 \in 1 .. n => g[m + 1] \in TlvWalk(f)}
  <2>1. 0 \in T
    <3>1. 0 + 1 = 1 /\ 1 \in 1 .. n
      BY <1>1
    <3> QED BY <1>3, <1>6, <3>1
  <2>2. ASSUME NEW m \in Nat, m \in T PROVE m + 1 \in T
    <3> SUFFICES ASSUME (m + 1) + 1 \in 1 .. n PROVE g[(m + 1) + 1] \in TlvWalk(f)
      OBVIOUS
    <3>1. m + 1 \in 1 .. n /\ (m + 1) + 1 # 1 /\ ((m + 1) + 1) - 1 = m + 1
      BY <1>1
    <3>2. g[m + 1] \in TlvWalk(f)
      BY <2>2, <3>1
    <3>3. g[(m + 1) + 1] = s[g[m + 1]]
      BY <1>6, <3>1
    <3> QED BY <1>4, <3>2, <3>3
  <2> HIDE DEF T
  <2>3. Nat \subseteq T
    BY <2>1, <2>2, SetInduction
  <2>4. ASSUME NEW i \in 1 .. n PROVE g[i] \in TlvWalk(f)
    <3>1. i - 1 \in T /\ (i - 1) + 1 = i
      BY <1>1, <2>3
    <3> QED BY <3>1 DEF T
  <2> QED BY <2>4
<1>8. g = F(g)
  <2>1. ASSUME NEW i \in 1 .. n PROVE (IF i = 1 THEN a ELSE s[g[i - 1]]) = (IF i = 1 THEN a ELSE NextTlv(f, g[i - 1]))
    <3>1. i # 1 => i - 1 \in 1 .. n
      BY <1>1
    <3> QED BY <1>7, <3>1 DEF s
  <2> QED BY <1>6, <2>1
<1>9. walk = F(walk)
  BY <1>8
<1> HIDE DEF walk
<1>10. \A i \in 1 .. n : walk[i] = IF i = 1 THEN a ELSE NextTlv(f, walk[i - 1])
  BY <1>9
<1> HIDE DEF s, F
<1>11. n \in 1 .. n /\ walk[n] \in TlvWalk(f)
  <2> DEFINE T == {m \in Nat : m + 1 \in 1 .. n => walk[m + 1] \in TlvWalk(f)}
  <2>1. 0 \in T
    <3>1. 0 + 1 = 1 /\ 1 \in 1 .. n
      BY <1>1
    <3> QED BY <1>3, <1>10, <3>1
  <2>2. ASSUME NEW m \in Nat, m \in T PROVE m + 1 \in T
    <3> SUFFICES ASSUME (m + 1) + 1 \in 1 .. n PROVE walk[(m + 1) + 1] \in TlvWalk(f)
      OBVIOUS
    <3>1. m + 1 \in 1 .. n /\ (m + 1) + 1 # 1 /\ ((m + 1) + 1) - 1 = m + 1
      BY <1>1
    <3>2. walk[m + 1] \in TlvWalk(f)
      BY <2>2, <3>1
    <3>3. walk[(m + 1) + 1] = NextTlv(f, walk[m + 1])
      BY <1>10, <3>1
    <3> QED BY <1>1, <3>2, <3>3, NextTlvKeeps
  <2> HIDE DEF T
  <2>3. n - 1 \in T /\ (n - 1) + 1 = n /\ n \in 1 .. n
    BY <1>1, <2>1, <2>2, SetInduction
  <2> QED BY <2>3 DEF T
<1> QED BY <1>2, <1>11 DEF TlvWalk

-----------------------------------------------------------------------------
(* The invariant: types, and whole frames *)
Port2Inv == TypeOK /\ out \in Seq(GoodFrames)

LEMMA GoodAreBytes == GoodFrames \subseteq Seq(Nat) /\ Seq(GoodFrames) \subseteq Seq(Seq(Nat))
<1>1. GoodFrames \subseteq Seq(Nat)
  BY DEF GoodFrames
<1> QED BY <1>1, SeqMonotonic

(* port2_feed leaves room in its buffer *)
LEMMA FeedProperties ==
  ASSUME NEW a \in Seq(Nat), NEW c \in Seq(Nat)
  PROVE  Feed(a, c) \in Result /\ Len(Feed(a, c).left) < AccumSize
<1>0. AccumSize \in Nat \ {0} /\ Len(a) \in Nat /\ Len(c) \in Nat
  BY Port2Assumption, LenProperties
<1>1. CASE Saturated(a, c)
  <2>1. Feed(a, c) = [frames |-> <<>>, left |-> <<>>]
    BY <1>1 DEF Feed
  <2>2. <<>> \in Seq(GoodFrames) /\ <<>> \in Seq(Nat) /\ Len(<<>>) = 0
    BY EmptySeq
  <2> QED BY <1>0, <2>1, <2>2 DEF Result
<1>2. CASE ~Saturated(a, c)
  <2>1. Feed(a, c) = Drain(a \o c) /\ ~(Len(a) + Len(c) >= AccumSize)
    BY <1>2 DEF Feed, Saturated
  <2>2. a \o c \in Seq(Nat) /\ Len(a \o c) = Len(a) + Len(c)
    BY ConcatProperties
  <2>3. Drain(a \o c) \in Result /\ Len(Drain(a \o c).left) <= Len(a \o c)
    BY <2>2, DrainProperties
  <2>4. Drain(a \o c).left \in Seq(Nat)
    BY <2>3 DEF Result
  <2>5. Len(Drain(a \o c).left) \in Nat
    BY <2>4, LenProperties
  <2>6. Len(Drain(a \o c).left) < AccumSize
    BY <1>0, <2>1, <2>2, <2>3, <2>5
  <2> QED BY <2>1, <2>3, <2>6
<1> QED BY <1>1, <1>2

LEMMA WritesFit ==
  ASSUME NEW a, NEW c, Len(a) \in Nat, Len(c) \in Nat
  PROVE  WriteExtent(a, c) =< AccumSize
<1>1. AccumSize \in Nat
  BY Lengths
<1> QED BY <1>1 DEF WriteExtent, Saturated

LEMMA Port2TypeInit == Init => Port2Inv
<1> SUFFICES ASSUME Init PROVE Port2Inv
  OBVIOUS
<1>1. /\ accum = <<>> /\ out = <<>> /\ line \in Seq(Nat) /\ losses = 0 /\ owed = <<>> /\ missed = FALSE
  BY Port2Assumption DEF Init
<1>2. /\ <<>> \in Seq(Nat) /\ <<>> \in Seq(Seq(Nat)) /\ <<>> \in Seq(GoodFrames) /\ Len(<<>>) = 0
  BY EmptySeq
<1>3. AccumSize \in Nat \ {0} /\ MaxLosses \in Nat /\ ReadMax \in Nat
  BY Port2Assumption
<1>4. ASSUME NEW n \in 1 .. ReadMax, n =< Len(line)
      PROVE  WriteExtent(accum, Take(line, n)) =< AccumSize
  <2>1. n \in 0 .. Len(line)
    BY <1>1, <1>3, <1>4, LenProperties
  <2>2. Len(Take(line, n)) \in Nat
    BY <1>1, <2>1, TakeProperties
  <2> QED BY <1>1, <1>2, <2>2, WritesFit
<1>5. Len(accum) < AccumSize /\ losses \in 0 .. MaxLosses
  BY <1>1, <1>2, <1>3
<1> QED BY <1>1, <1>2, <1>4, <1>5 DEF Port2Inv, TypeOK

(* The first conjunct of TypeOK follows from the others *)
LEMMA TypesFit ==
  ASSUME NEW a \in Seq(Nat), NEW l \in Seq(Nat), NEW n \in 1 .. ReadMax, n =< Len(l)
  PROVE  WriteExtent(a, Take(l, n)) =< AccumSize
<1>1. n \in 0 .. Len(l)
  BY Port2Assumption, LenProperties
<1>2. Len(Take(l, n)) \in Nat /\ Len(a) \in Nat
  BY <1>1, TakeProperties, LenProperties
<1> QED BY <1>2, WritesFit

LEMMA Port2Step == Port2Inv /\ [Next]_vars => Port2Inv'
<1> SUFFICES ASSUME Port2Inv, [Next]_vars PROVE Port2Inv'
  OBVIOUS
<1>0. /\ accum \in Seq(Nat) /\ line \in Seq(Nat) /\ Len(accum) < AccumSize
      /\ out \in Seq(GoodFrames) /\ owed \in Seq(Seq(Nat)) /\ losses \in 0 .. MaxLosses /\ missed \in BOOLEAN
      /\ MaxLosses \in Nat /\ ReadMax \in Nat /\ Len(line) \in Nat
  BY Port2Assumption, LenProperties DEF Port2Inv, TypeOK
<1>1. ASSUME /\ accum' \in Seq(Nat) /\ line' \in Seq(Nat) /\ Len(accum') < AccumSize
             /\ out' \in Seq(GoodFrames) /\ owed' \in Seq(Seq(Nat)) /\ losses' \in 0 .. MaxLosses /\ missed' \in BOOLEAN
      PROVE  Port2Inv'
  <2>1. \A n \in 1 .. ReadMax : n =< Len(line') => WriteExtent(accum', Take(line', n)) =< AccumSize
    BY <1>1, TypesFit
  <2>2. out' \in Seq(Seq(Nat))
    BY <1>1, GoodAreBytes
  <2>3. TypeOK'
    BY <1>1, <2>1, <2>2 DEF TypeOK
  <2> QED BY <1>1, <2>3 DEF Port2Inv
<1>2. ASSUME NEW n \in 1 .. ReadMax, Read(n) PROVE Port2Inv'
  <2> DEFINE r == Feed(accum, Take(line, n))
  <2>1. /\ n =< Len(line) /\ accum' = r.left /\ out' = r.frames /\ line' = From(line, n) /\ losses' = losses
        /\ IF losses = 0
           THEN /\ missed' = (missed \/ Len(r.frames) > Len(owed) \/ r.frames # Take(owed, Len(r.frames)))
                /\ owed' = IF Len(r.frames) > Len(owed) THEN <<>> ELSE From(owed, Len(r.frames))
           ELSE UNCHANGED <<owed, missed>>
    BY <1>2 DEF Read
  <2>2. n \in 0 .. Len(line)
    BY <1>0, <2>1
  <2>3. Take(line, n) \in Seq(Nat) /\ From(line, n) \in Seq(Nat)
    BY <1>0, <2>2, TakeProperties, FromProperties
  <2>4. r \in Result /\ Len(r.left) < AccumSize
    BY <1>0, <2>3, FeedProperties
  <2> HIDE DEF r
  <2>5. r.left \in Seq(Nat) /\ r.frames \in Seq(GoodFrames)
    BY <2>4 DEF Result
  <2>6. owed' \in Seq(Seq(Nat)) /\ missed' \in BOOLEAN
    <3>1. CASE losses # 0
      BY <1>0, <2>1, <3>1
    <3>2. CASE losses = 0
      <4>1. Len(r.frames) \in Nat /\ Len(owed) \in Nat
        BY <1>0, <2>5, LenProperties
      <4>2. \A i \in 1 .. Len(owed) : owed[i] \in Seq(Nat)
        BY <1>0, ElementOfSeq
      <4>3. From(owed, Len(r.frames)) \in Seq(Seq(Nat))
        <5>1. Len(r.frames) + 1 \in Int /\ Len(owed) \in Int /\ \A i \in Len(r.frames) + 1 .. Len(owed) : owed[i] \in Seq(Nat)
          BY <4>1, <4>2
        <5> QED BY <5>1, SubSeqProperties DEF From
      <4>4. <<>> \in Seq(Seq(Nat))
        BY EmptySeq
      <4>5. missed' = (missed \/ Len(r.frames) > Len(owed) \/ r.frames # Take(owed, Len(r.frames)))
        BY <2>1, <3>2
      <4>6. missed' \in BOOLEAN
        BY <4>5
      <4> QED BY <2>1, <3>2, <4>3, <4>4, <4>6
    <3> QED BY <3>1, <3>2
  <2> QED BY <1>0, <1>1, <2>1, <2>3, <2>4, <2>5, <2>6
<1>3. ASSUME NEW f \in Frames, Send(f) PROVE Port2Inv'
  <2>1. f \in Seq(Nat)
    BY Port2Assumption
  <2>2. line' = line \o f /\ owed' = (IF losses = 0 THEN Append(owed, f) ELSE owed) /\ UNCHANGED <<accum, out, losses, missed>>
    BY <1>3 DEF Send
  <2>3. line \o f \in Seq(Nat) /\ Append(owed, f) \in Seq(Seq(Nat))
    BY <1>0, <2>1, ConcatProperties, AppendProperties
  <2> QED BY <1>0, <1>1, <2>2, <2>3
<1>4. ASSUME NEW i \in DOMAIN line, Lose(i) PROVE Port2Inv'
  <2>1. losses < MaxLosses /\ line' = Take(line, i - 1) \o From(line, i) /\ losses' = losses + 1 /\ owed' = <<>> /\ UNCHANGED <<accum, out, missed>>
    BY <1>4 DEF Lose
  <2>2. i \in 0 .. Len(line) /\ i - 1 \in 0 .. Len(line)
    BY <1>0, <1>4, LenProperties
  <2>3. Take(line, i - 1) \o From(line, i) \in Seq(Nat)
    BY <1>0, <2>2, TakeProperties, FromProperties, ConcatProperties
  <2>4. losses + 1 \in 0 .. MaxLosses /\ <<>> \in Seq(Seq(Nat))
    BY <1>0, <2>1, EmptySeq
  <2> QED BY <1>0, <1>1, <2>1, <2>3, <2>4
<1>5. CASE UNCHANGED vars
  BY <1>0, <1>1, <1>5 DEF vars
<1> QED BY <1>2, <1>3, <1>4, <1>5 DEF Next, Reads, Sends

LEMMA Port2Invariant == Spec => []Port2Inv
BY Port2TypeInit, Port2Step, PTL DEF Spec

(* The buffer keeps its type and is never written past its end: the test   *)
(* of port2_feed leaves room for what a read returns.                      *)
THEOREM Port2TypeCorrect == Spec => []TypeOK
<1>1. Port2Inv => TypeOK
  BY DEF Port2Inv
<1> QED BY <1>1, Port2Invariant, PTL

(* The copy of one TLV: clipped for a range profile, and of a heatmap of   *)
(* the one size in elements, which an odd byte may follow.                 *)
LEMMA CopyBounded ==
  ASSUME NEW t \in Tlv
  PROVE  \/ Copied(t) =< Room(t)
         \/ t.type = 5 /\ t.len % 2 = 1 /\ Copied(t) = Room(t) + 1
<1>1. t.len \in Nat /\ MaxRange \in Nat /\ MaxHeatmap \in Nat
  BY Port2Assumption DEF Tlv
<1>2. t.len \div 2 \in Nat
  BY <1>1
<1>3. CASE t.type = 2
  BY <1>1, <1>2, <1>3 DEF Copied, Room
<1>4. CASE t.type = 5
  <2>1. CASE t.len \div 2 # MaxHeatmap
    BY <1>1, <1>4, <2>1 DEF Copied, Room
  <2>2. CASE t.len \div 2 = MaxHeatmap
    <3>1. t.len = 2 * MaxHeatmap \/ (t.len = 2 * MaxHeatmap + 1 /\ t.len % 2 = 1)
      BY <1>1, <2>2
    <3> QED BY <1>1, <1>4, <2>2, <3>1 DEF Copied, Room
  <2> QED BY <2>1, <2>2
<1>5. CASE t.type # 2 /\ t.type # 5
  BY <1>5 DEF Copied, Room
<1> QED BY <1>3, <1>4, <1>5

(* Whatever bytes are sent, lost or left over from before the port was     *)
(* opened, _process_radar_frame gets whole frames, which begin with the    *)
(* magic word and are as long as they say, and its handlers get TLVs that  *)
(* lie in them, one after the other, and no copy of one exceeds its array  *)
(* but by the odd byte of a heatmap.                                       *)
THEOREM Port2HandsOnSound == Spec => []FramesSound
<1>1. Port2Inv => FramesSound
  <2> SUFFICES ASSUME Port2Inv PROVE FramesSound
    OBVIOUS
  <2>1. \A i \in DOMAIN out : out[i] \in GoodFrames
    BY ElementOfSeq, LenProperties DEF Port2Inv
  <2>2. WellFormed
    BY <2>1 DEF WellFormed, GoodFrames, GoodFrame
  <2>3. TlvsInFrame
    BY <2>1, TlvsProperties DEF TlvsInFrame, InOrder
  <2>4. CopiesBounded
    <3> SUFFICES ASSUME NEW i \in DOMAIN out, NEW j \in DOMAIN Tlvs(out[i])
                 PROVE  LET t == Tlvs(out[i])[j] IN
                        \/ Copied(t) =< Room(t)
                        \/ t.type = 5 /\ t.len % 2 = 1 /\ Copied(t) = Room(t) + 1
      BY DEF CopiesBounded
    <3>1. Tlvs(out[i])[j] \in Tlv
      BY <2>1, TlvsProperties, ElementOfSeq
    <3> QED BY <3>1, CopyBounded
  <2> QED BY <2>2, <2>3, <2>4 DEF FramesSound
<1> QED BY <1>1, Port2Invariant, PTL

-----------------------------------------------------------------------------
(* Chunks: how a magic word is found in a part of the bytes *)

(* The memcmp of port2_feed, byte by byte *)
LEMMA MagicBytes ==
  ASSUME NEW b \in Seq(Nat), NEW k \in 0 .. Len(b) - MagicLen
  PROVE  StartsWithMagic(b, k) <=> \A i \in 1 .. MagicLen : b[k + i] = Magic[i]
<1> DEFINE x == SubSeq(b, k + 1, k + MagicLen)
<1>1. Len(b) \in Nat /\ MagicLen \in Nat /\ MagicLen > 0 /\ Magic \in Seq(Nat) /\ Len(Magic) = MagicLen
  BY LenProperties, Lengths, Port2Assumption DEF MagicLen
<1>2. x \in Seq(Nat) /\ Len(x) = MagicLen /\ \A i \in 1 .. MagicLen : x[i] = b[k + i]
  BY WordAt
<1> HIDE DEF x
<1>3. StartsWithMagic(b, k) <=> x = Magic
  BY DEF StartsWithMagic, x
<1>4. (\A i \in 1 .. MagicLen : x[i] = Magic[i]) => x = Magic
  BY <1>1, <1>2, SameBytes
<1> QED BY <1>2, <1>3, <1>4

LEMMA MagicIn ==
  ASSUME NEW b \in Seq(Nat), NEW k
  PROVE  k \in MagicAt(b) <=> k \in 0 .. Len(b) - MagicLen /\ \A i \in 1 .. MagicLen : b[k + i] = Magic[i]
BY MagicBytes DEF MagicAt

(* What is behind the first d bytes *)
LEMMA MagicBehind ==
  ASSUME NEW b \in Seq(Nat), NEW d \in 0 .. Len(b), NEW k \in Int
  PROVE  k \in MagicAt(From(b, d)) <=> k >= 0 /\ d + k \in MagicAt(b)
<1>1. /\ From(b, d) \in Seq(Nat) /\ Len(From(b, d)) = Len(b) - d /\ Len(b) \in Nat /\ MagicLen \in Nat /\ MagicLen > 0
      /\ \A i \in 1 .. Len(b) - d : From(b, d)[i] = b[d + i]
  BY FromProperties, LenProperties, Lengths
<1>2. k \in 0 .. (Len(b) - d) - MagicLen <=> k >= 0 /\ d + k \in 0 .. Len(b) - MagicLen
  BY <1>1
<1>3. ASSUME k \in 0 .. (Len(b) - d) - MagicLen, NEW i \in 1 .. MagicLen
      PROVE  From(b, d)[k + i] = b[(d + k) + i]
  <2>1. k + i \in 1 .. Len(b) - d /\ d + (k + i) = (d + k) + i
    BY <1>1, <1>3
  <2> QED BY <1>1, <2>1
<1>4. k \in MagicAt(From(b, d)) <=> k \in 0 .. (Len(b) - d) - MagicLen /\ \A i \in 1 .. MagicLen : From(b, d)[k + i] = Magic[i]
  BY <1>1, MagicIn
<1>5. d + k \in MagicAt(b) <=> d + k \in 0 .. Len(b) - MagicLen /\ \A i \in 1 .. MagicLen : b[(d + k) + i] = Magic[i]
  BY MagicIn
<1> QED BY <1>2, <1>3, <1>4, <1>5

(* What comes before bytes that follow *)
LEMMA MagicBefore ==
  ASSUME NEW s \in Seq(Nat), NEW c \in Seq(Nat), NEW k \in Int
  PROVE  k \in MagicAt(s) <=> k \in MagicAt(s \o c) /\ k <= Len(s) - MagicLen
<1> DEFINE u == s \o c
<1>1. /\ u \in Seq(Nat) /\ Len(u) = Len(s) + Len(c) /\ Len(s) \in Nat /\ Len(c) \in Nat /\ MagicLen \in Nat
      /\ \A i \in 1 .. Len(s) + Len(c) : u[i] = IF i <= Len(s) THEN s[i] ELSE c[i - Len(s)]
  BY ConcatProperties, LenProperties, Lengths
<1> HIDE DEF u
<1>2. k \in 0 .. Len(s) - MagicLen <=> k \in 0 .. Len(u) - MagicLen /\ k <= Len(s) - MagicLen
  BY <1>1
<1>3. ASSUME k \in 0 .. Len(s) - MagicLen, NEW i \in 1 .. MagicLen
      PROVE  u[k + i] = s[k + i]
  <2>1. k + i \in 1 .. Len(s) + Len(c) /\ k + i <= Len(s)
    BY <1>1, <1>3
  <2> QED BY <1>1, <2>1
<1>4. k \in MagicAt(s) <=> k \in 0 .. Len(s) - MagicLen /\ \A i \in 1 .. MagicLen : s[k + i] = Magic[i]
  BY MagicIn
<1>5. k \in MagicAt(u) <=> k \in 0 .. Len(u) - MagicLen /\ \A i \in 1 .. MagicLen : u[k + i] = Magic[i]
  BY <1>1, MagicIn
<1> QED BY <1>2, <1>3, <1>4, <1>5 DEF u

(* The first of them is what is at the least offset *)
LEMMA FirstIs ==
  ASSUME NEW r \in Seq(Nat), NEW f \in MagicAt(r), \A j \in MagicAt(r) : f =< j
  PROVE  MagicFirst(r) = f
<1>1. MagicFirst(r) \in MagicAt(r) /\ \A j \in MagicAt(r) : MagicFirst(r) =< j
  BY FirstFound
<1>2. MagicAt(r) \subseteq Nat
  BY DEF MagicAt
<1>3. f =< MagicFirst(r) /\ MagicFirst(r) =< f /\ f \in Nat /\ MagicFirst(r) \in Nat
  BY <1>1, <1>2
<1> QED BY <1>3

(* Bytes that follow move with the end *)
LEMMA FromConcat ==
  ASSUME NEW s \in Seq(Nat), NEW c \in Seq(Nat), NEW k \in 0 .. Len(s)
  PROVE  From(s \o c, k) = From(s, k) \o c
<1> DEFINE u == s \o c
           v == From(s, k) \o c
<1>1. /\ u \in Seq(Nat) /\ Len(u) = Len(s) + Len(c) /\ Len(s) \in Nat /\ Len(c) \in Nat
      /\ \A i \in 1 .. Len(s) + Len(c) : u[i] = IF i <= Len(s) THEN s[i] ELSE c[i - Len(s)]
  BY ConcatProperties, LenProperties
<1>2. From(s, k) \in Seq(Nat) /\ Len(From(s, k)) = Len(s) - k /\ \A i \in 1 .. Len(s) - k : From(s, k)[i] = s[k + i]
  BY FromProperties
<1>3. /\ v \in Seq(Nat) /\ Len(v) = (Len(s) - k) + Len(c)
      /\ \A i \in 1 .. (Len(s) - k) + Len(c) : v[i] = IF i <= Len(s) - k THEN From(s, k)[i] ELSE c[i - (Len(s) - k)]
  <2> DEFINE r == From(s, k)
  <2>1. r \in Seq(Nat) /\ Len(r) = Len(s) - k
    BY <1>2
  <2> HIDE DEF r
  <2>2. /\ r \o c \in Seq(Nat) /\ Len(r \o c) = Len(r) + Len(c)
        /\ \A i \in 1 .. Len(r) + Len(c) : (r \o c)[i] = IF i <= Len(r) THEN r[i] ELSE c[i - Len(r)]
    BY <2>1, ConcatProperties
  <2> QED BY <2>1, <2>2 DEF r
<1> HIDE DEF u, v
<1>4. k \in 0 .. Len(u) /\ Len(u) - k = (Len(s) - k) + Len(c)
  BY <1>1
<1>5. From(u, k) \in Seq(Nat) /\ Len(From(u, k)) = Len(u) - k /\ \A i \in 1 .. Len(u) - k : From(u, k)[i] = u[k + i]
  BY <1>1, <1>4, FromProperties
<1>6. ASSUME NEW i \in 1 .. (Len(s) - k) + Len(c) PROVE From(u, k)[i] = v[i]
  <2>1. k + i \in 1 .. Len(s) + Len(c) /\ From(u, k)[i] = u[k + i]
    <3>1. Len(s) \in Nat /\ Len(c) \in Nat
      BY <1>1
    <3>2. k + i \in 1 .. Len(s) + Len(c)
      BY <3>1
    <3>3. i \in 1 .. Len(u) - k
      BY <1>4
    <3> QED BY <1>5, <3>2, <3>3
  <2>2. CASE i <= Len(s) - k
    <3>1. k + i <= Len(s) /\ i \in 1 .. Len(s) - k
      BY <1>1, <2>2
    <3> QED BY <1>1, <1>2, <1>3, <2>1, <2>2, <3>1
  <2>3. CASE ~(i <= Len(s) - k)
    <3>1. ~(k + i <= Len(s)) /\ (k + i) - Len(s) = i - (Len(s) - k)
      BY <1>1, <2>3
    <3> QED BY <1>1, <1>3, <2>1, <2>3, <3>1
  <2> QED BY <2>2, <2>3
<1>7. From(u, k) = v
  BY <1>3, <1>4, <1>5, <1>6, SameBytes
<1> QED BY <1>7 DEF u, v

LEMMA TakeConcat ==
  ASSUME NEW s \in Seq(Nat), NEW c \in Seq(Nat), NEW k \in 0 .. Len(s)
  PROVE  Take(s \o c, k) = Take(s, k)
<1> DEFINE u == s \o c
<1>1. /\ u \in Seq(Nat) /\ Len(u) = Len(s) + Len(c) /\ Len(s) \in Nat /\ Len(c) \in Nat
      /\ \A i \in 1 .. Len(s) + Len(c) : u[i] = IF i <= Len(s) THEN s[i] ELSE c[i - Len(s)]
  BY ConcatProperties, LenProperties
<1> HIDE DEF u
<1>2. k \in 0 .. Len(u) /\ \A i \in 1 .. k : i \in 1 .. Len(s) + Len(c) /\ i <= Len(s)
  BY <1>1
<1>3. /\ Take(s, k) \in Seq(Nat) /\ Len(Take(s, k)) = k /\ \A i \in 1 .. k : Take(s, k)[i] = s[i]
      /\ Take(u, k) \in Seq(Nat) /\ Len(Take(u, k)) = k /\ \A i \in 1 .. k : Take(u, k)[i] = u[i]
  BY <1>1, <1>2, TakeProperties
<1>4. \A i \in 1 .. k : Take(u, k)[i] = Take(s, k)[i]
  BY <1>1, <1>2, <1>3
<1>5. Take(u, k) = Take(s, k)
  BY <1>3, <1>4, SameBytes
<1> QED BY <1>5 DEF u

(* Bytes before the first magic word, or before where one may begin that   *)
(* is cut, change neither what matters of a sequence ...                   *)
LEMMA NoiseDoesNotMatter ==
  ASSUME NEW u \in Seq(Nat), NEW d \in 0 .. Len(u), \A i \in MagicAt(u) : i >= d, Len(u) - d >= Preserve
  PROVE  Significant(u) = Significant(From(u, d))
<1> DEFINE v == From(u, d)
           P == MagicLen - 1
<1>1. v \in Seq(Nat) /\ Len(v) = Len(u) - d /\ Len(u) \in Nat /\ Len(v) \in Nat /\ d \in Nat /\ d <= Len(u)
  BY FromProperties, LenProperties
<1>2. P = Preserve /\ P \in Nat /\ Len(v) >= P
  BY <1>1, Lengths
<1>3. \A k \in Int : k \in MagicAt(v) <=> k >= 0 /\ d + k \in MagicAt(u)
  BY MagicBehind
<1> HIDE DEF v
<1>4. CASE MagicAt(u) # {}
  <2> DEFINE f == MagicFirst(u)
             e == f - d
  <2>1. f \in MagicAt(u) /\ f >= d /\ f \in Nat /\ f <= Len(u) /\ (\A j \in MagicAt(u) : f =< j)
    BY <1>1, <1>4, FirstFound
  <2> HIDE DEF f
  <2>2. e \in Nat /\ d + e = f /\ e \in 0 .. Len(u) - d
    BY <1>1, <2>1
  <2>3. e \in MagicAt(v)
    BY <1>3, <2>1, <2>2
  <2>4. ASSUME NEW j \in MagicAt(v) PROVE e =< j
    <3>1. j \in Int
      BY DEF MagicAt
    <3>2. d + j \in MagicAt(u)
      BY <1>3, <3>1
    <3>3. f =< d + j
      BY <2>1, <3>2
    <3> QED BY <1>1, <2>1, <3>1, <3>3
  <2>5. MagicFirst(v) = e
    BY <1>1, <2>3, <2>4, FirstIs
  <2>6. From(v, e) = From(u, d + e)
    BY <2>2, FromFrom DEF v
  <2>7. Here(v) = Here(u)
    BY <2>2, <2>5, <2>6 DEF Here, f
  <2>8. MagicAt(v) # {}
    BY <2>3
  <2> QED BY <1>4, <2>7, <2>8 DEF Significant, v
<1>5. CASE MagicAt(u) = {}
  <2>1. MagicAt(v) = {}
    <3>1. ASSUME NEW j \in MagicAt(v) PROVE FALSE
      <4>1. j \in Int
        BY DEF MagicAt
      <4> QED BY <1>3, <1>5, <4>1
    <3> QED BY <3>1
  <2> DEFINE last(b) == IF Len(b) > P THEN From(b, Len(b) - P) ELSE b
  <2>2. Significant(u) = last(u) /\ Significant(v) = last(v)
    BY <1>5, <2>1 DEF Significant
  <2>3. CASE Len(v) > P
    <3> DEFINE e == Len(v) - P
    <3>1. e \in 0 .. Len(u) - d /\ d + e = Len(u) - P /\ Len(u) > P
      BY <1>1, <1>2, <2>3
    <3>2. From(v, e) = From(u, d + e)
      BY <3>1, FromFrom DEF v
    <3> QED BY <2>2, <2>3, <3>1, <3>2 DEF v
  <2>4. CASE ~(Len(v) > P)
    <3>1. Len(v) = P /\ d = Len(u) - P /\ Len(u) >= P
      <4> HIDE DEF P
      <4>1. ASSUME NEW x \in Nat, NEW y \in Nat, NEW p \in Nat, NEW e \in Nat, x = y - e, x >= p, ~(x > p)
            PROVE  x = p /\ e = y - p /\ y >= p
        BY <4>1
      <4>2. P \in Nat /\ Len(v) >= P
        BY <1>2
      <4> QED BY <1>1, <2>4, <4>1, <4>2
    <3>2. CASE Len(u) > P
      BY <2>2, <2>4, <3>1, <3>2 DEF v
    <3>3. CASE ~(Len(u) > P)
      <4>1. d = 0
        BY <1>1, <1>2, <3>1, <3>3
      <4>2. From(u, 0) = u
        BY FromZero
      <4> QED BY <2>2, <2>4, <3>3, <4>1, <4>2 DEF v
    <3> QED BY <3>2, <3>3
  <2> QED BY <2>3, <2>4 DEF v
<1> QED BY <1>4, <1>5

(* ... nor what is handed on *)
LEMMA NoiseIsDropped ==
  ASSUME NEW u \in Seq(Nat), NEW d \in 0 .. Len(u), \A i \in MagicAt(u) : i >= d, Len(u) - d >= Preserve
  PROVE  /\ Drain(u).frames = Drain(From(u, d)).frames
         /\ Significant(Drain(u).left) = Significant(Drain(From(u, d)).left)
<1> DEFINE v == From(u, d)
<1>1. v \in Seq(Nat) /\ Len(v) = Len(u) - d /\ Len(u) \in Nat /\ Len(v) \in Nat /\ d \in Nat /\ d <= Len(u)
  BY FromProperties, LenProperties
<1>2. \A k \in Int : k \in MagicAt(v) <=> k >= 0 /\ d + k \in MagicAt(u)
  BY MagicBehind
<1>3. Significant(u) = Significant(v)
  BY NoiseDoesNotMatter
<1>4. v = From(u, d)
  OBVIOUS
<1> HIDE DEF v
<1>5. Len(v) < HeaderLen => Drain(v) = [frames |-> <<>>, left |-> v]
  BY <1>1, DrainUnfolds DEF Stops, Remains
<1>6. CASE Len(u) < HeaderLen
  <2>1. Drain(u) = [frames |-> <<>>, left |-> u]
    BY <1>6, DrainUnfolds DEF Stops, Remains
  <2>2. Len(v) < HeaderLen
    BY <1>1, <1>6, Lengths
  <2> QED BY <1>3, <1>4, <1>5, <2>1, <2>2
<1>7. CASE ~(Len(u) < HeaderLen) /\ MagicAt(u) = {}
  <2> DEFINE e == Len(v) - Preserve
             p == From(v, e)
  <2>1. MagicAt(v) = {}
    <3>1. ASSUME NEW j \in MagicAt(v) PROVE FALSE
      <4>1. j \in Int
        BY DEF MagicAt
      <4> QED BY <1>2, <1>7, <4>1
    <3> QED BY <3>1
  <2>2. e \in 0 .. Len(v) /\ d + e = Len(u) - Preserve /\ Len(v) - e >= Preserve
    BY <1>1, Lengths
  <2>3. p = From(u, Len(u) - Preserve)
    <3>1. e \in 0 .. Len(u) - d
      BY <1>1, <2>2
    <3> HIDE DEF e
    <3>2. From(From(u, d), e) = From(u, d + e)
      BY <3>1, FromFrom
    <3> QED BY <1>4, <2>2, <3>2
  <2>4. Drain(u) = [frames |-> <<>>, left |-> p]
    BY <1>7, <2>3, DrainUnfolds DEF Stops, Remains
  <2>5. Significant(v) = Significant(p)
    <3> HIDE DEF e
    <3> QED BY <1>1, <2>1, <2>2, NoiseDoesNotMatter
  <2>6. ~(Len(v) < HeaderLen) => Drain(v) = [frames |-> <<>>, left |-> p]
    BY <1>1, <2>1, DrainUnfolds DEF Stops, Remains
  <2> HIDE DEF p, e
  <2>7. CASE Len(v) < HeaderLen
    BY <1>4, <1>5, <2>4, <2>5, <2>7
  <2>8. CASE ~(Len(v) < HeaderLen)
    BY <1>4, <2>4, <2>6, <2>8
  <2> QED BY <2>7, <2>8
<1>8. CASE ~(Len(u) < HeaderLen) /\ MagicAt(u) # {}
  <2> DEFINE f == MagicFirst(u)
             e == f - d
             h == Here(u)
  <2>1. f \in MagicAt(u) /\ f >= d /\ f \in Nat /\ f <= Len(u) - MagicLen /\ (\A j \in MagicAt(u) : f =< j)
    BY <1>1, <1>8, FirstFound, Lengths
  <2>2. h = From(u, f) /\ h \in Seq(Nat) /\ Len(h) = Len(u) - f /\ Len(h) \in Nat
    BY <1>8, HereProperties DEF Here
  <2> HIDE DEF f
  <2>3. e \in Nat /\ d + e = f /\ e \in 0 .. Len(u) - d /\ e \in 0 .. Len(v)
    BY <1>1, <2>1, Lengths
  <2>4. e \in MagicAt(v)
    BY <1>2, <2>1, <2>3
  <2>5. \A j \in MagicAt(v) : e =< j
    <3> SUFFICES ASSUME NEW j \in MagicAt(v) PROVE e =< j
      OBVIOUS
    <3>1. j \in Int
      BY DEF MagicAt
    <3>2. d + j \in MagicAt(u)
      BY <1>2, <3>1
    <3>3. f =< d + j
      BY <2>1, <3>2
    <3> QED BY <1>1, <2>1, <3>1, <3>3
  <2>6. MagicFirst(v) = e /\ MagicAt(v) # {}
    BY <1>1, <2>4, <2>5, FirstIs
  <2>7. From(v, e) = h
    <3> HIDE DEF e
    <3>1. From(From(u, d), e) = From(u, d + e)
      BY <2>3, FromFrom
    <3> QED BY <1>4, <2>2, <2>3, <3>1
  <2>8. Here(v) = h
    BY <2>6, <2>7 DEF Here
  <2> HIDE DEF h
  <2>9. Here(u) = h
    BY DEF h
  <2>10. Len(v) - e >= Preserve /\ Len(v) >= Len(h) /\ Len(h) >= MagicLen
    BY <1>1, <2>1, <2>2, <2>3, Lengths
  <2>11. Significant(v) = Significant(h)
    <3> HIDE DEF e
    <3>1. \A j \in MagicAt(v) : j >= e
      BY <2>3, <2>5 DEF MagicAt
    <3> QED BY <1>1, <2>3, <2>7, <2>10, <3>1, NoiseDoesNotMatter
  <2>12. Skips(u) <=> Skips(v)
    BY <2>8, <2>9 DEF Skips
  <2>13. CASE Stops(u)
    <3>1. Drain(u) = [frames |-> <<>>, left |-> h]
      BY <1>8, <2>9, <2>13, DrainUnfolds DEF Remains
    <3>2. Len(h) < HeaderLen \/ (~Skips(v) /\ Len(h) < TotalLen(h))
      BY <1>8, <2>9, <2>12, <2>13 DEF Stops
    <3>3. CASE Len(v) < HeaderLen
      BY <1>4, <1>5, <2>11, <3>1, <3>3
    <3>4. CASE ~(Len(v) < HeaderLen)
      <4>1. Stops(v) /\ Remains(v) = h
        BY <2>6, <2>8, <3>2, <3>4 DEF Stops, Remains
      <4>2. Drain(v) = [frames |-> <<>>, left |-> h]
        BY <1>1, <4>1, DrainUnfolds
      <4> QED BY <1>4, <3>1, <4>2
    <3> QED BY <3>3, <3>4
  <2>14. CASE ~Stops(u)
    <3> DEFINE a == Advance(v)
    <3>1. ~(Len(h) < HeaderLen) /\ ~(~Skips(v) /\ Len(h) < TotalLen(h)) /\ TotalLen(h) \in Nat
      BY <2>9, <2>12, <2>14, Advances DEF Stops
    <3>2. ~(Len(v) < HeaderLen)
      BY <1>1, <2>2, <2>10, <3>1, Lengths
    <3>3. ~Stops(v)
      BY <2>6, <2>8, <3>1, <3>2 DEF Stops
    <3>4. a \in 1 .. Len(v)
      BY <1>1, <3>3, Advances
    <3>5. Advance(u) = d + a
      <4>1. Advance(u) = f + (IF Skips(v) THEN MagicLen ELSE TotalLen(h))
        BY <2>9, <2>12 DEF Advance, f
      <4>2. Advance(v) = e + (IF Skips(v) THEN MagicLen ELSE TotalLen(h))
        BY <2>6, <2>8 DEF Advance
      <4>3. (IF Skips(v) THEN MagicLen ELSE TotalLen(h)) \in Nat
        BY <3>1, Lengths
      <4>4. ASSUME NEW g \in Nat PROVE f + g = d + (e + g)
        BY <1>1, <2>1, <2>3
      <4> QED BY <4>1, <4>2, <4>3, <4>4
    <3> HIDE DEF a
    <3>6. From(u, Advance(u)) = From(v, a)
      <4>1. a \in 0 .. Len(u) - d
        BY <1>1, <3>4
      <4>2. From(From(u, d), a) = From(u, d + a)
        BY <4>1, FromFrom
      <4> QED BY <1>4, <3>5, <4>2
    <3>7. Cut(u) = Cut(v)
      BY <2>8, <2>9 DEF Cut
    <3>8. Drain(u) = Drain(v)
      <4>1. Drain(u) = IF Skips(u) THEN Drain(From(u, Advance(u))) ELSE [Drain(From(u, Advance(u))) EXCEPT !.frames = <<Cut(u)>> \o @]
        BY <2>14, DrainUnfolds
      <4>2. Drain(v) = IF Skips(v) THEN Drain(From(v, a)) ELSE [Drain(From(v, a)) EXCEPT !.frames = <<Cut(v)>> \o @]
        BY <1>1, <3>3, DrainUnfolds DEF a
      <4> QED BY <2>12, <3>6, <3>7, <4>1, <4>2
    <3> QED BY <1>4, <3>8
  <2> QED BY <2>13, <2>14
<1> QED BY <1>6, <1>7, <1>8

(* What is handed on of s and c does not depend on where they are cut *)
LEMMA DrainInTwo ==
  ASSUME NEW s \in Seq(Nat), NEW c \in Seq(Nat)
  PROVE  /\ Drain(s \o c).frames = Drain(s).frames \o Drain(Drain(s).left \o c).frames
         /\ Significant(Drain(s \o c).left) = Significant(Drain(Drain(s).left \o c).left)
<1> DEFINE Agree(b) ==
             /\ Drain(b \o c).frames = Drain(b).frames \o Drain(Drain(b).left \o c).frames
             /\ Significant(Drain(b \o c).left) = Significant(Drain(Drain(b).left \o c).left)
           T == {m \in Nat : \A b \in Seq(Nat) : Len(b) =< m => Agree(b)}
<1>1. ASSUME NEW b \in Seq(Nat) PROVE Drain(b) \in Result /\ Drain(b).frames \in Seq(Seq(Nat)) /\ Drain(b).left \in Seq(Nat)
  BY DrainProperties, GoodAreBytes DEF Result
<1>2. ASSUME NEW b \in Seq(Nat), NEW d \in 0 .. Len(b), Drain(b) = [frames |-> <<>>, left |-> From(b, d)],
             Len(b) - d >= Preserve, \A i \in MagicAt(b) : i >= d, \A i \in MagicAt(b \o c) : i > Len(b) - MagicLen => i >= d
      PROVE  Agree(b)
  <2> DEFINE u == b \o c
  <2>1. u \in Seq(Nat) /\ Len(u) = Len(b) + Len(c) /\ Len(b) \in Nat /\ Len(c) \in Nat
    BY ConcatProperties, LenProperties
  <2>2. d \in 0 .. Len(u) /\ Len(u) - d >= Preserve
    BY <1>2, <2>1, Lengths
  <2>3. ASSUME NEW i \in MagicAt(u) PROVE i >= d
    <3>1. i \in Int
      BY DEF MagicAt
    <3>2. CASE i > Len(b) - MagicLen
      BY <1>2, <3>2
    <3>3. CASE ~(i > Len(b) - MagicLen)
      <4>1. i =< Len(b) - MagicLen
        BY <2>1, <3>1, <3>3, Lengths
      <4>2. i \in MagicAt(b)
        BY <3>1, <4>1, MagicBefore
      <4> QED BY <1>2, <4>2
    <3> QED BY <3>2, <3>3
  <2>4. From(u, d) = From(b, d) \o c
    BY FromConcat
  <2> HIDE DEF u
  <2>5. /\ Drain(u).frames = Drain(From(u, d)).frames
        /\ Significant(Drain(u).left) = Significant(Drain(From(u, d)).left)
    BY <2>1, <2>2, <2>3, NoiseIsDropped
  <2>6. Drain(b).left = From(b, d) /\ Drain(b).frames = <<>>
    BY <1>2
  <2>7. <<>> \o Drain(u).frames = Drain(u).frames
    BY <1>1, <2>1, ConcatEmptySeq
  <2> QED BY <2>4, <2>5, <2>6, <2>7 DEF u
<1>3. ASSUME NEW b \in Seq(Nat), Stops(b) PROVE Agree(b)
  <2>1. Drain(b) = [frames |-> <<>>, left |-> Remains(b)]
    BY <1>3, DrainUnfolds
  <2>2. Len(b) \in Nat
    BY LenProperties
  <2>3. CASE Len(b) < HeaderLen
    <3>1. Drain(b).frames = <<>> /\ Drain(b).left = b
      BY <2>1, <2>3 DEF Remains
    <3>2. b \o c \in Seq(Nat)
      BY ConcatProperties
    <3>3. <<>> \o Drain(b \o c).frames = Drain(b \o c).frames
      BY <1>1, <3>2, ConcatEmptySeq
    <3> QED BY <3>1, <3>3
  <2>4. CASE ~(Len(b) < HeaderLen) /\ MagicAt(b) = {}
    <3> DEFINE d == Len(b) - Preserve
    <3>1. d \in 0 .. Len(b) /\ Len(b) - d >= Preserve
      BY <2>2, <2>4, Lengths
    <3>2. Drain(b) = [frames |-> <<>>, left |-> From(b, d)]
      BY <2>1, <2>4 DEF Remains
    <3>3. ASSUME NEW i \in MagicAt(b \o c), i > Len(b) - MagicLen PROVE i >= d
      <4>1. i \in Int
        BY DEF MagicAt
      <4> QED BY <2>2, <3>3, <4>1, Lengths
    <3> HIDE DEF d, Agree
    <3> QED BY <1>2, <2>4, <3>1, <3>2, <3>3
  <2>5. CASE ~(Len(b) < HeaderLen) /\ MagicAt(b) # {}
    <3> DEFINE d == MagicFirst(b)
    <3>1. d \in 0 .. Len(b) /\ d <= Len(b) - MagicLen /\ d \in Nat /\ \A i \in MagicAt(b) : d =< i
      BY <2>2, <2>5, FirstFound, Lengths
    <3>2. Drain(b) = [frames |-> <<>>, left |-> From(b, d)]
      BY <2>1, <2>5 DEF Remains, Here
    <3> HIDE DEF d
    <3>3. Len(b) - d >= Preserve
      BY <2>2, <3>1, Lengths
    <3>4. \A i \in MagicAt(b) : i >= d
      BY <3>1 DEF MagicAt
    <3>5. ASSUME NEW i \in MagicAt(b \o c), i > Len(b) - MagicLen PROVE i >= d
      <4>1. i \in Int
        BY DEF MagicAt
      <4> QED BY <2>2, <3>1, <3>5, <4>1, Lengths
    <3> HIDE DEF Agree
    <3> QED BY <1>2, <3>1, <3>2, <3>3, <3>4, <3>5
  <2> QED BY <2>3, <2>4, <2>5
<1>4. ASSUME NEW b \in Seq(Nat), ~Stops(b), Agree(From(b, Advance(b))) PROVE Agree(b)
  <2> DEFINE u == b \o c
             h == Here(b)
             f == MagicFirst(b)
             a == Advance(b)
             r == From(b, a)
             n == TotalLen(h)
  <2>1. /\ MagicAt(b) # {} /\ Len(h) >= HeaderLen /\ n \in Nat /\ a \in 1 .. Len(b) /\ Len(b) \in Nat
        /\ ~Skips(b) => n \in HeaderLen .. Len(h)
    BY <1>4, Advances, LenProperties
  <2>2. f \in MagicAt(b) /\ (\A j \in MagicAt(b) : f =< j) /\ f \in 0 .. Len(b) - MagicLen /\ f \in 0 .. Len(b)
        /\ h = From(b, f) /\ h \in Seq(Nat) /\ Len(h) \in Nat
    BY <2>1, FirstFound, HereProperties DEF Here
  <2>3. u \in Seq(Nat) /\ Len(u) = Len(b) + Len(c) /\ Len(c) \in Nat
    BY ConcatProperties, LenProperties
  <2>4. MagicFirst(u) = f /\ MagicAt(u) # {}
    <3>1. f \in MagicAt(u)
      <4>1. f \in Int
        BY <2>2
      <4> HIDE DEF f
      <4> QED BY <2>2, <4>1, MagicBefore
    <3>2. ASSUME NEW j \in MagicAt(u) PROVE f =< j
      <4>1. j \in Int
        BY DEF MagicAt
      <4>2. CASE j <= Len(b) - MagicLen
        <5>1. j \in MagicAt(b)
          BY <4>1, <4>2, MagicBefore
        <5> QED BY <2>2, <5>1
      <4>3. CASE ~(j <= Len(b) - MagicLen)
        <5> HIDE DEF f
        <5> QED BY <2>1, <2>2, <4>1, <4>3, Lengths
      <4> QED BY <4>2, <4>3
    <3> HIDE DEF f, u
    <3> QED BY <2>3, <3>1, <3>2, FirstIs
  <2>5. Here(u) = h \o c
    <3>1. From(u, f) = From(b, f) \o c
      BY <2>2, FromConcat
    <3> QED BY <2>2, <2>4, <3>1 DEF Here
  <2> HIDE DEF h
  <2>6. /\ h \o c \in Seq(Nat) /\ Len(h \o c) = Len(h) + Len(c)
        /\ \A i \in 1 .. Len(h) + Len(c) : (h \o c)[i] = IF i <= Len(h) THEN h[i] ELSE c[i - Len(h)]
    BY <2>2, ConcatProperties
  <2>7. TotalLen(Here(u)) = n
    <3>1. MagicLen + 1 \in 1 .. Len(h) + Len(c) /\ MagicLen + 1 <= Len(h)
      BY <2>1, <2>2, <2>3, Lengths
    <3> QED BY <2>5, <2>6, <3>1 DEF TotalLen
  <2> HIDE DEF n
  <2>8. n = TotalLen(Here(b)) /\ h = Here(b)
    BY DEF n, h
  <2>9. Skips(u) <=> Skips(b)
    BY <2>7, <2>8 DEF Skips
  <2>10. ~Stops(u)
    <3>1. ~(Len(b) < HeaderLen) /\ ~(~Skips(b) /\ Len(h) < n)
      BY <1>4, <2>8 DEF Stops
    <3>2. ~(Len(u) < HeaderLen) /\ ~(Len(h) + Len(c) < HeaderLen)
      BY <2>1, <2>2, <2>3, <3>1, Lengths
    <3>3. ~(~Skips(b) /\ Len(h) + Len(c) < n)
      BY <2>1, <2>2, <2>3, <3>1
    <3> QED BY <2>4, <2>5, <2>6, <2>7, <2>9, <3>2, <3>3 DEF Stops
  <2>11. Advance(u) = a
    BY <2>4, <2>7, <2>8, <2>9 DEF Advance
  <2>12. a \in 0 .. Len(b)
    BY <2>1
  <2>13. From(u, a) = r \o c /\ r \in Seq(Nat)
    <3> HIDE DEF a
    <3> QED BY <2>12, FromConcat, FromProperties
  <2>14. ~Skips(b) => Cut(u) = Cut(b) /\ Cut(b) \in Seq(Nat)
    <3> SUFFICES ASSUME ~Skips(b) PROVE Cut(u) = Cut(b) /\ Cut(b) \in Seq(Nat)
      OBVIOUS
    <3>1. n \in 0 .. Len(h)
      BY <2>1, <2>2, Lengths
    <3>2. Take(h \o c, n) = Take(h, n) /\ Take(h, n) \in Seq(Nat)
      BY <2>2, <3>1, TakeConcat, TakeProperties
    <3> QED BY <2>5, <2>7, <2>8, <3>2 DEF Cut
  <2> HIDE DEF a, f, r, u
  <2>15. Agree(r)
    BY <1>4 DEF r, a
  <2>16. /\ Drain(u) = IF Skips(b) THEN Drain(r \o c) ELSE [Drain(r \o c) EXCEPT !.frames = <<Cut(u)>> \o @]
         /\ Drain(b) = IF Skips(b) THEN Drain(r) ELSE [Drain(r) EXCEPT !.frames = <<Cut(b)>> \o @]
    <3>1. Drain(u) = IF Skips(u) THEN Drain(From(u, Advance(u))) ELSE [Drain(From(u, Advance(u))) EXCEPT !.frames = <<Cut(u)>> \o @]
      BY <2>3, <2>10, DrainUnfolds
    <3>2. Drain(b) = IF Skips(b) THEN Drain(From(b, a)) ELSE [Drain(From(b, a)) EXCEPT !.frames = <<Cut(b)>> \o @]
      BY <1>4, DrainUnfolds DEF a
    <3> QED BY <2>9, <2>11, <2>13, <3>1, <3>2 DEF r
  <2>17. CASE Skips(b)
    BY <2>15, <2>16, <2>17 DEF u
  <2>18. CASE ~Skips(b)
    <3> DEFINE x == Drain(r)
               y == Drain(r \o c)
               z == Drain(x.left \o c)
               k == <<Cut(b)>>
    <3>1. r \o c \in Seq(Nat)
      BY <2>13, ConcatProperties
    <3>2. x \in Result /\ y \in Result /\ x.frames \in Seq(Seq(Nat)) /\ x.left \in Seq(Nat)
      BY <1>1, <2>13, <3>1
    <3>3. x.left \o c \in Seq(Nat)
      BY <3>2, ConcatProperties
    <3>4. z.frames \in Seq(Seq(Nat))
      BY <1>1, <3>3
    <3>5. k \in Seq(Seq(Nat))
      BY <2>14, <2>18
    <3>6. y.frames = x.frames \o z.frames /\ Significant(y.left) = Significant(z.left)
      BY <2>15
    <3>7. Drain(u) = [y EXCEPT !.frames = k \o @] /\ Drain(b) = [x EXCEPT !.frames = k \o @]
      BY <2>14, <2>16, <2>18
    <3> HIDE DEF x, y, z, k
    <3>8. Drain(u).frames = k \o y.frames /\ Drain(u).left = y.left /\ Drain(b).frames = k \o x.frames /\ Drain(b).left = x.left
      BY <3>2, <3>7 DEF Result
    <3>9. (k \o x.frames) \o z.frames = k \o (x.frames \o z.frames)
      <4>1. \A p, q, w \in Seq(Seq(Nat)) : (p \o q) \o w = p \o (q \o w)
        OBVIOUS
      <4> QED BY <3>2, <3>4, <3>5, <4>1
    <3>10. z = Drain(Drain(b).left \o c)
      BY <3>8 DEF z
    <3> QED BY <3>6, <3>8, <3>9, <3>10 DEF u
  <2> QED BY <2>17, <2>18
<1>5. 0 \in T
  <2> SUFFICES ASSUME NEW b \in Seq(Nat), Len(b) =< 0 PROVE Agree(b)
    BY Zenon
  <2>1. Len(b) < HeaderLen
    BY LenProperties, Lengths
  <2> HIDE DEF Agree
  <2> QED BY <1>3, <2>1 DEF Stops
<1> HIDE DEF Agree
<1>6. ASSUME NEW m \in Nat, m \in T PROVE m + 1 \in T
  <2> SUFFICES ASSUME NEW b \in Seq(Nat), Len(b) =< m + 1 PROVE Agree(b)
    OBVIOUS
  <2>1. CASE Stops(b)
    BY <1>3, <2>1
  <2>2. CASE ~Stops(b)
    <3> DEFINE a == Advance(b)
    <3>1. a \in 1 .. Len(b) /\ Len(b) \in Nat
      BY <2>2, Advances, LenProperties
    <3>2. a \in 0 .. Len(b)
      BY <3>1
    <3>3. From(b, a) \in Seq(Nat) /\ Len(From(b, a)) = Len(b) - a
      BY <3>2, FromProperties
    <3>4. Len(b) - a =< m
      BY <3>1
    <3>5. Agree(From(b, a))
      BY <1>6, <3>3, <3>4
    <3> QED BY <1>4, <2>2, <3>5
  <2> QED BY <2>1, <2>2
<1> HIDE DEF T
<1>7. Len(s) \in Nat /\ Len(s) \in T
  BY <1>5, <1>6, SetInduction, LenProperties
<1>8. Agree(s)
  BY <1>7 DEF T
<1> QED BY <1>8 DEF Agree

(* Wherever the reads cut the stream, the same frames are handed on and    *)
(* the bytes that matter stay, as long as the buffer has room for both.    *)
THEOREM Port2ChunksDoNotMatter == Spec => []ChunkIndependence
<1>1. TypeOK => ChunkIndependence
  <2> SUFFICES ASSUME TypeOK, NEW n \in 2 .. ReadMax, NEW k \in 1 .. n - 1,
                      n =< Len(line), ~Saturated(accum, Take(line, n))
               PROVE  LET one == Feed(accum, Take(line, n))
                          fst == Feed(accum, Take(line, k))
                          snd == Feed(fst.left, SubSeq(line, k + 1, n))
                      IN /\ fst.frames \o snd.frames = one.frames
                         /\ Significant(snd.left) = Significant(one.left)
    BY DEF ChunkIndependence
  <2> DEFINE a == accum
             l == line
             c == SubSeq(l, k + 1, n)
             s == a \o Take(l, k)
             t == Drain(s).left
  <2>1. a \in Seq(Nat) /\ l \in Seq(Nat) /\ Len(a) \in Nat /\ Len(l) \in Nat /\ AccumSize \in Nat /\ ReadMax \in Nat
    BY LenProperties, Lengths, Port2Assumption DEF TypeOK
  <2>2. n \in 0 .. Len(l) /\ k \in 0 .. Len(l) /\ k \in Nat /\ n \in Nat /\ k < n
    BY <2>1
  <2>3. Take(l, n) \in Seq(Nat) /\ Len(Take(l, n)) = n /\ Take(l, k) \in Seq(Nat) /\ Len(Take(l, k)) = k
    BY <2>1, <2>2, TakeProperties
  <2>4. c \in Seq(Nat) /\ Len(c) = n - k /\ Take(l, k) \o c = Take(l, n)
    <3>1. 1 \in 1 .. Len(l) + 1 /\ k \in 1 - 1 .. Len(l) /\ n \in k .. Len(l)
      BY <2>1, <2>2
    <3>2. Take(l, k) \o c = Take(l, n)
      BY <2>1, <3>1, ConcatAdjacentSubSeq DEF Take
    <3>3. k + 1 \in Int /\ n \in Int /\ \A i \in k + 1 .. n : i \in 1 .. Len(l)
      BY <2>1, <2>2
    <3>4. \A i \in k + 1 .. n : l[i] \in Nat
      BY <2>1, <3>3, ElementOfSeq
    <3>5. c \in Seq(Nat) /\ Len(c) = IF k + 1 <= n THEN n - (k + 1) + 1 ELSE 0
      BY <3>3, <3>4, SubSeqProperties
    <3> HIDE DEF c
    <3>6. k + 1 <= n /\ n - (k + 1) + 1 = n - k
      BY <2>2
    <3> QED BY <3>2, <3>5, <3>6
  <2>5. s \in Seq(Nat) /\ Len(s) = Len(a) + k
    <3>1. \A p, q \in Seq(Nat) : p \o q \in Seq(Nat) /\ Len(p \o q) = Len(p) + Len(q)
      BY ConcatProperties
    <3> QED BY <2>1, <2>3, <3>1
  <2>6. a \o Take(l, n) = s \o c
    <3>1. (a \o Take(l, k)) \o c = a \o (Take(l, k) \o c)
      <4>1. \A p, q, w \in Seq(Nat) : (p \o q) \o w = p \o (q \o w)
        OBVIOUS
      <4> QED BY <2>1, <2>3, <2>4, <4>1
    <3> QED BY <2>4, <3>1
  <2>7. t \in Seq(Nat) /\ Len(t) <= Len(s) /\ Len(t) \in Nat
    <3> HIDE DEF s
    <3> QED BY <2>5, DrainProperties, LenProperties DEF Result
  <2>8. Len(a) + n < AccumSize
    BY <2>1, <2>2, <2>3 DEF Saturated
  <2> HIDE DEF c, t
  <2>9. ~Saturated(a, Take(l, k)) /\ ~Saturated(t, c)
    <3>1. Len(a) + k < AccumSize /\ Len(t) + (n - k) < AccumSize
      <4> HIDE DEF s
      <4> QED BY <2>1, <2>2, <2>5, <2>7, <2>8
    <3>2. Len(a) + Len(Take(l, k)) < AccumSize /\ Len(t) + Len(c) < AccumSize
      BY <2>3, <2>4, <3>1
    <3>3. \A x \in Int : x < AccumSize => ~(x >= AccumSize)
      BY <2>1
    <3>4. Len(a) + Len(Take(l, k)) \in Int /\ Len(t) + Len(c) \in Int
      BY <2>1, <2>2, <2>3, <2>4, <2>7
    <3> QED BY <3>2, <3>3, <3>4 DEF Saturated
  <2>10. Feed(a, Take(l, n)) = Drain(s \o c) /\ Feed(a, Take(l, k)) = Drain(s) /\ Feed(t, c) = Drain(t \o c)
    BY <2>6, <2>9 DEF Feed
  <2> HIDE DEF s
  <2>11. /\ Drain(s \o c).frames = Drain(s).frames \o Drain(t \o c).frames
         /\ Significant(Drain(s \o c).left) = Significant(Drain(t \o c).left)
    BY <2>4, <2>5, DrainInTwo DEF t
  <2> QED BY <2>10, <2>11 DEF t, c
<1> QED BY <1>1, Port2TypeCorrect, PTL

-----------------------------------------------------------------------------
(* The bytes of several frames *)

(* Induction, for sets of sequences *)
LEMMA SequenceInduction ==
  ASSUME NEW S, NEW T, <<>> \in T, \A s \in Seq(S), e \in S : s \in T => Append(s, e) \in T
  PROVE  Seq(S) \subseteq T
<1> DEFINE N == {n \in Nat : \A s \in Seq(S) : Len(s) = n => s \in T}
<1>1. 0 \in N
  <2>1. \A s \in Seq(S) : Len(s) = 0 => s = <<>>
    BY EmptySeq
  <2> QED BY <2>1
<1>2. ASSUME NEW n \in Nat, n \in N PROVE n + 1 \in N
  <2> SUFFICES ASSUME NEW s \in Seq(S), Len(s) = n + 1 PROVE s \in T
    OBVIOUS
  <2>1. s # <<>>
    BY EmptySeq
  <2>2. PICK q \in Seq(S), e \in S : s = Append(q, e)
    BY <2>1, SequenceEmptyOrAppend
  <2>3. Len(s) = Len(q) + 1 /\ Len(q) \in Nat
    BY <2>2, AppendProperties, LenProperties
  <2>4. Len(q) = n
    BY <2>3
  <2> QED BY <1>2, <2>2, <2>4
<1> HIDE DEF N
<1>3. Nat \subseteq N
  BY <1>1, <1>2, SetInduction
<1> QED BY <1>3, LenProperties DEF N

Joins(g, s, n) == g = [i \in 1 .. n |-> IF i = 1 THEN s[i] ELSE g[i - 1] \o s[i]]

LEMMA JoinsExist ==
  ASSUME NEW s, NEW n \in Nat
  PROVE  \E g : Joins(g, s, n)
<1> DEFINE T == {m \in Nat : \E g : Joins(g, s, m)}
<1>1. 0 \in T
  <2>1. \A g : (g = [i \in 1 .. 0 |-> 0]) => g = [i \in 1 .. 0 |-> IF i = 1 THEN s[i] ELSE g[i - 1] \o s[i]]
    OBVIOUS
  <2> QED BY <2>1 DEF Joins
<1>2. ASSUME NEW m \in Nat, m \in T PROVE m + 1 \in T
  <2>1. PICK g : g = [i \in 1 .. m |-> IF i = 1 THEN s[i] ELSE g[i - 1] \o s[i]]
    BY <1>2 DEF Joins
  <2> DEFINE h == [i \in 1 .. m + 1 |-> IF i = m + 1 THEN (IF i = 1 THEN s[i] ELSE g[m] \o s[i]) ELSE g[i]]
  <2>2. \A i \in 1 .. m : h[i] = g[i]
    OBVIOUS
  <2>3. ASSUME NEW i \in 1 .. m + 1 PROVE h[i] = IF i = 1 THEN s[i] ELSE h[i - 1] \o s[i]
    <3>1. CASE i = m + 1
      <4>1. i # 1 => i - 1 = m /\ m \in 1 .. m
        BY <3>1
      <4>2. h[i] = IF i = 1 THEN s[i] ELSE g[m] \o s[i]
        BY <3>1
      <4> HIDE DEF h
      <4> QED BY <2>2, <4>1, <4>2
    <3>2. CASE i # m + 1
      <4>1. i \in 1 .. m /\ (i # 1 => i - 1 \in 1 .. m)
        BY <3>2
      <4>2. g[i] = IF i = 1 THEN s[i] ELSE g[i - 1] \o s[i]
        BY <2>1, <4>1
      <4> HIDE DEF h
      <4> QED BY <2>2, <4>1, <4>2
    <3> QED BY <3>1, <3>2
  <2>4. h = [i \in 1 .. m + 1 |-> h[i]]
    OBVIOUS
  <2> HIDE DEF h
  <2>5. h = [i \in 1 .. m + 1 |-> IF i = 1 THEN s[i] ELSE h[i - 1] \o s[i]]
    BY <2>3, <2>4
  <2>6. Joins(h, s, m + 1)
    BY <2>5 DEF Joins
  <2> QED BY <2>6
<1> HIDE DEF T
<1>3. n \in T
  BY <1>1, <1>2, SetInduction
<1> QED BY <1>3 DEF T

Alike(s, t, m) == \A i \in 1 .. m : s[i] = t[i]

LEMMA JoinsAgree ==
  ASSUME NEW s, NEW t, NEW m \in Nat \ {0}, NEW n \in Nat, m =< n,
         Alike(s, t, m),
         NEW g, Joins(g, s, m), NEW h, Joins(h, t, n)
  PROVE  h[m] = g[m]
<1> DEFINE T == {k \in Nat : k \in 1 .. m => h[k] = g[k]}
<1>1. \A i \in 1 .. m : g[i] = IF i = 1 THEN s[i] ELSE g[i - 1] \o s[i]
  BY DEF Joins
<1>2. \A i \in 1 .. n : h[i] = IF i = 1 THEN t[i] ELSE h[i - 1] \o t[i]
  BY DEF Joins
<1>3. 0 \in T
  OBVIOUS
<1>4. ASSUME NEW k \in Nat, k \in T PROVE k + 1 \in T
  <2> SUFFICES ASSUME k + 1 \in 1 .. m PROVE h[k + 1] = g[k + 1]
    OBVIOUS
  <2>1. k + 1 \in 1 .. n /\ (k + 1) - 1 = k /\ (k + 1 # 1 => k \in 1 .. m)
    OBVIOUS
  <2>2. s[k + 1] = t[k + 1] /\ (k + 1 # 1 => h[k] = g[k])
    BY <1>4, <2>1 DEF Alike
  <2>3. h[k + 1] = IF k + 1 = 1 THEN t[k + 1] ELSE h[k] \o t[k + 1]
    BY <1>2, <2>1
  <2>4. g[k + 1] = IF k + 1 = 1 THEN s[k + 1] ELSE g[k] \o s[k + 1]
    BY <1>1, <2>1
  <2> QED BY <2>2, <2>3, <2>4
<1> HIDE DEF T
<1>5. m \in T
  BY <1>3, <1>4, SetInduction
<1> QED BY <1>5 DEF T

LEMMA FlattenIsJoin ==
  ASSUME NEW s, Len(s) \in Nat \ {0}
  PROVE  \E g : Joins(g, s, Len(s)) /\ FlattenSeq(s) = g[Len(s)]
<1> DEFINE g == CHOOSE f : Joins(f, s, Len(s))
<1>1. FlattenSeq(s) = g[Len(s)]
  BY DEF FlattenSeq, Joins
<1>2. Joins(g, s, Len(s))
  BY JoinsExist
<1> HIDE DEF g
<1> QED BY <1>1, <1>2

(* One frame more is its bytes more *)
LEMMA FlattenAppend ==
  ASSUME NEW s \in Seq(Seq(Nat)), NEW f \in Seq(Nat), FlattenSeq(s) \in Seq(Nat)
  PROVE  FlattenSeq(Append(s, f)) = FlattenSeq(s) \o f /\ FlattenSeq(Append(s, f)) \in Seq(Nat)
<1>0. PICK n, t : n = Len(s) /\ t = Append(s, f)
  OBVIOUS
<1>1. n \in Nat /\ Len(t) = n + 1 /\ t[n + 1] = f /\ \A i \in 1 .. n : s[i] = t[i]
  BY <1>0, AppendProperties, LenProperties
<1>2. n + 1 \in Nat \ {0} /\ n =< n + 1 /\ n + 1 \in 1 .. n + 1 /\ (n + 1) - 1 = n
  BY <1>1
<1>3. PICK h : Joins(h, t, n + 1) /\ FlattenSeq(t) = h[n + 1]
  BY <1>1, <1>2, FlattenIsJoin
<1>4. \A i \in 1 .. n + 1 : h[i] = IF i = 1 THEN t[i] ELSE h[i - 1] \o t[i]
  BY <1>3 DEF Joins
<1>5. h[n + 1] = IF n + 1 = 1 THEN f ELSE h[n] \o f
  BY <1>1, <1>2, <1>4
<1>6. CASE n = 0
  <2>1. s = <<>>
    BY <1>0, <1>6, EmptySeq
  <2>2. FlattenSeq(<<>>) = <<>>
    BY DEF FlattenSeq
  <2>3. FlattenSeq(t) = f
    BY <1>3, <1>5, <1>6
  <2>4. <<>> \o f = f
    BY ConcatEmptySeq
  <2> QED BY <1>0, <2>1, <2>2, <2>3, <2>4
<1>7. CASE n # 0
  <2>1. PICK g : Joins(g, s, n) /\ FlattenSeq(s) = g[n]
    BY <1>0, <1>1, <1>7, FlattenIsJoin
  <2>2. h[n] = g[n]
    <3>0. PICK m : m = n + 1
      OBVIOUS
    <3>1. n \in Nat \ {0} /\ m \in Nat /\ n =< m /\ Joins(g, s, n) /\ Joins(h, t, m)
      BY <1>1, <1>2, <1>3, <1>7, <2>1, <3>0
    <3>2. Alike(s, t, n)
      BY <1>1 DEF Alike
    <3> QED BY <3>1, <3>2, JoinsAgree
  <2>3. FlattenSeq(t) = FlattenSeq(s) \o f
    BY <1>1, <1>3, <1>5, <1>7, <2>1, <2>2
  <2>4. FlattenSeq(s) \o f \in Seq(Nat)
    BY ConcatProperties
  <2> QED BY <1>0, <2>3, <2>4
<1> QED BY <1>6, <1>7

LEMMA BytesAssociate ==
  ASSUME NEW x \in Seq(Nat), NEW y \in Seq(Nat), NEW z \in Seq(Nat)
  PROVE  (x \o y) \o z = x \o (y \o z)
<1>1. ASSUME NEW S, x \in Seq(S), y \in Seq(S), z \in Seq(S)
      PROVE  (x \o y) \o z = x \o (y \o z)
  BY <1>1, ConcatAssociative
<1> QED BY <1>1

LEMMA FlattenEmpty == FlattenSeq(<<>>) = <<>> /\ <<>> \in Seq(Nat) /\ <<>> \in Seq(Seq(Nat)) /\ Len(<<>>) = 0
BY EmptySeq DEF FlattenSeq

LEMMA FlattenType ==
  ASSUME NEW s \in Seq(Seq(Nat))
  PROVE  FlattenSeq(s) \in Seq(Nat)
<1> DEFINE T == {q \in Seq(Seq(Nat)) : FlattenSeq(q) \in Seq(Nat)}
<1>1. <<>> \in T
  BY FlattenEmpty
<1>2. ASSUME NEW q \in Seq(Seq(Nat)), NEW e \in Seq(Nat), q \in T PROVE Append(q, e) \in T
  <2>1. FlattenSeq(Append(q, e)) \in Seq(Nat)
    BY <1>2, FlattenAppend
  <2>2. Append(q, e) \in Seq(Seq(Nat))
    BY AppendProperties
  <2> QED BY <2>1, <2>2
<1> HIDE DEF T
<1>3. Seq(Seq(Nat)) \subseteq T
  BY <1>1, <1>2, SequenceInduction
<1> QED BY <1>3 DEF T

(* The first frame's bytes come first *)
LEMMA FlattenFirst ==
  ASSUME NEW f \in Seq(Nat), NEW s \in Seq(Seq(Nat))
  PROVE  FlattenSeq(<<f>> \o s) = f \o FlattenSeq(s) /\ <<f>> \o s \in Seq(Seq(Nat))
<1> DEFINE T == {q \in Seq(Seq(Nat)) : FlattenSeq(<<f>> \o q) = f \o FlattenSeq(q)}
<1>0. <<f>> \in Seq(Seq(Nat)) /\ <<f>> = Append(<<>>, f)
  OBVIOUS
<1>1. <<>> \in T
  <2>1. <<f>> \o <<>> = <<f>> /\ f \o <<>> = f /\ <<>> \o f = f
    BY <1>0, ConcatEmptySeq
  <2>2. FlattenSeq(<<f>>) = <<>> \o f
    BY <1>0, FlattenEmpty, FlattenAppend
  <2> QED BY <2>1, <2>2, FlattenEmpty
<1>2. ASSUME NEW q \in Seq(Seq(Nat)), NEW e \in Seq(Nat), q \in T PROVE Append(q, e) \in T
  <2>1. <<f>> \o q \in Seq(Seq(Nat))
    BY <1>0, ConcatProperties
  <2>2. <<f>> \o Append(q, e) = Append(<<f>> \o q, e)
    <3>1. <<e>> \in Seq(Seq(Nat))
      OBVIOUS
    <3>2. (<<f>> \o q) \o <<e>> = <<f>> \o (q \o <<e>>)
      BY <1>0, <3>1, ConcatAssociative
    <3>3. Append(q, e) = q \o <<e>> /\ Append(<<f>> \o q, e) = (<<f>> \o q) \o <<e>>
      BY <2>1, AppendIsConcat
    <3> QED BY <3>2, <3>3
  <2>3. FlattenSeq(Append(<<f>> \o q, e)) = FlattenSeq(<<f>> \o q) \o e
    BY <2>1, FlattenAppend, FlattenType
  <2>4. FlattenSeq(Append(q, e)) = FlattenSeq(q) \o e
    BY FlattenAppend, FlattenType
  <2>5. FlattenSeq(<<f>> \o q) = f \o FlattenSeq(q)
    BY <1>2
  <2>6. (f \o FlattenSeq(q)) \o e = f \o (FlattenSeq(q) \o e)
    BY FlattenType, BytesAssociate
  <2>7. Append(q, e) \in Seq(Seq(Nat))
    BY AppendProperties
  <2> QED BY <2>2, <2>3, <2>4, <2>5, <2>6, <2>7
<1> HIDE DEF T
<1>3. Seq(Seq(Nat)) \subseteq T
  BY <1>1, <1>2, SequenceInduction
<1>4. FlattenSeq(<<f>> \o s) = f \o FlattenSeq(s)
  BY <1>3 DEF T
<1> QED BY <1>0, <1>4, ConcatProperties

-----------------------------------------------------------------------------
(* In step: the radar behaves.  Its frames are good ones, and leave room   *)
(* for a read in the buffer; what it was sending before the port was       *)
(* opened neither holds a magic word nor makes one with a frame behind it. *)
Clean(z) == /\ MagicAt(z) = {}
            /\ \A f \in Frames : \A k \in MagicAt(z \o f) : k >= Len(z)

Fitting ==
  /\ Frames \subseteq GoodFrames /\ \A f \in Frames : Len(f) + ReadMax <= AccumSize
  /\ HeaderLen + ReadMax <= AccumSize
  /\ \A z \in Noises : Clean(z)

(* The bytes left over and the bytes to come are the frames c, behind what *)
(* is left of the noise; a whole frame is not among those left over.       *)
Standing(left, rest, c) ==
  \E z \in Seq(Nat) :
    /\ Clean(z) /\ left \o rest = z \o FlattenSeq(c)
    /\ \/ Len(left) < HeaderLen
       \/ z = <<>> /\ c # <<>> /\ Len(left) < Len(c[1])

(* Of the frames o some were handed on, and the others stand *)
Handed(frames, left, rest, o) ==
  \E c \in Seq(Frames) : o = frames \o c /\ frames \in Seq(Frames) /\ Standing(left, rest, c)

LEMMA FrameProperties ==
  ASSUME Fitting, NEW f \in Frames
  PROVE  /\ f \in Seq(Nat) /\ Len(f) \in Nat /\ Len(f) >= HeaderLen /\ Len(f) >= MagicLen + 2
         /\ 0 \in MagicAt(f) /\ TotalLen(f) = Len(f) /\ Len(f) <= AccumSize /\ Len(f) + ReadMax <= AccumSize
<1>1. f \in Seq(Nat) /\ Len(f) >= HeaderLen /\ StartsWithMagic(f, 0) /\ TotalLen(f) = Len(f) /\ Len(f) + ReadMax <= AccumSize
  BY DEF Fitting, GoodFrames, GoodFrame
<1>2. Len(f) \in Nat /\ ReadMax \in Nat /\ AccumSize \in Nat /\ MagicLen \in Nat /\ HeaderLen \in Nat /\ HeaderLen >= MagicLen + 2
  BY <1>1, LenProperties, Lengths, Port2Assumption
<1>3. 0 \in 0 .. Len(f) - MagicLen
  BY <1>1, <1>2
<1>4. Len(f) >= MagicLen + 2 /\ Len(f) <= AccumSize
  BY <1>1, <1>2
<1> QED BY <1>1, <1>2, <1>3, <1>4 DEF MagicAt

LEMMA FramesType ==
  ASSUME Fitting, NEW o \in Seq(Frames)
  PROVE  /\ o \in Seq(Seq(Nat)) /\ FlattenSeq(o) \in Seq(Nat)
         /\ o # <<>> => \E f \in Frames, t \in Seq(Frames) : o = <<f>> \o t
<1>1. Frames \subseteq Seq(Nat)
  BY FrameProperties
<1>2. o \in Seq(Seq(Nat))
  BY <1>1, SeqMonotonic
<1>3. ASSUME o # <<>> PROVE \E f \in Frames, t \in Seq(Frames) : o = <<f>> \o t
  <2>1. Len(o) \in Nat \ {0}
    BY <1>3, EmptySeq
  <2>2. o = SubSeq(o, 1, Len(o))
    BY SubSeqFull
  <2>3. 1 \in 1 .. Len(o) /\ Len(o) \in 1 .. Len(o)
    BY <2>1
  <2>4. SubSeq(o, 1, Len(o)) = <<o[1]>> \o SubSeq(o, 1 + 1, Len(o))
    BY <2>3, SubSeqRecursiveFirst
  <2>5. o[1] \in Frames
    BY <2>3, ElementOfSeq
  <2>6. \A i \in 2 .. Len(o) : o[i] \in Frames
    <3>1. \A i \in 2 .. Len(o) : i \in 1 .. Len(o)
      BY <2>1
    <3> QED BY <3>1, ElementOfSeq
  <2>7. SubSeq(o, 2, Len(o)) \in Seq(Frames)
    <3>1. 2 \in Int /\ Len(o) \in Int
      BY <2>1
    <3> QED BY <2>6, <3>1, SubSeqProperties
  <2>8. o = <<o[1]>> \o SubSeq(o, 2, Len(o))
    BY <2>2, <2>4
  <2> QED BY <2>5, <2>7, <2>8
<1> QED BY <1>2, <1>3, FlattenType

(* What stands behind a beginning *)
LEMMA FromBehind ==
  ASSUME NEW z \in Seq(Nat), NEW x \in Seq(Nat)
  PROVE  From(z \o x, Len(z)) = x
<1>1. Len(z) \in Nat /\ Len(z) \in 0 .. Len(z) /\ Len(z) - Len(z) = 0
  BY LenProperties
<1>2. From(z \o x, Len(z)) = From(z, Len(z)) \o x
  BY <1>1, FromConcat
<1>3. From(z, Len(z)) \in Seq(Nat) /\ Len(From(z, Len(z))) = 0
  BY <1>1, FromProperties
<1>4. From(z, Len(z)) = <<>>
  BY <1>3, EmptySeq
<1>5. <<>> \o x = x
  BY ConcatEmptySeq
<1> QED BY <1>2, <1>4, <1>5

LEMMA TakeBefore ==
  ASSUME NEW z \in Seq(Nat), NEW x \in Seq(Nat)
  PROVE  Take(z \o x, Len(z)) = z
<1>1. Len(z) \in Nat /\ Len(z) \in 0 .. Len(z)
  BY LenProperties
<1>2. Take(z \o x, Len(z)) = Take(z, Len(z))
  BY <1>1, TakeConcat
<1>3. Take(z, Len(z)) = z
  BY SubSeqFull DEF Take
<1> QED BY <1>2, <1>3

LEMMA CleanEmpty == Clean(<<>>)
<1>1. <<>> \in Seq(Nat) /\ Len(<<>>) = 0 /\ MagicLen \in Nat /\ MagicLen > 0
  BY EmptySeq, Lengths
<1>2. 0 .. Len(<<>>) - MagicLen = {}
  BY <1>1
<1>3. \A f \in Frames : \A k \in MagicAt(<<>> \o f) : k >= Len(<<>>)
  BY <1>1 DEF MagicAt
<1>4. MagicAt(<<>>) = {}
  BY <1>2 DEF MagicAt
<1> QED BY <1>3, <1>4 DEF Clean

LEMMA CleanFrom ==
  ASSUME Fitting, NEW z \in Seq(Nat), Clean(z), NEW d \in 0 .. Len(z)
  PROVE  Clean(From(z, d))
<1>1. Len(z) \in Nat /\ From(z, d) \in Seq(Nat) /\ Len(From(z, d)) = Len(z) - d
  BY LenProperties, FromProperties
<1>2. ASSUME NEW k \in MagicAt(From(z, d)) PROVE FALSE
  <2>1. k \in Int
    BY DEF MagicAt
  <2>2. d + k \in MagicAt(z)
    BY <2>1, MagicBehind
  <2> QED BY <2>2 DEF Clean
<1>3. ASSUME NEW f \in Frames, NEW k \in MagicAt(From(z, d) \o f) PROVE k >= Len(From(z, d))
  <2>1. k \in Int
    BY DEF MagicAt
  <2>2. f \in Seq(Nat)
    BY FrameProperties
  <2>3. From(z, d) \o f = From(z \o f, d)
    BY <2>2, FromConcat
  <2>4. z \o f \in Seq(Nat) /\ d \in 0 .. Len(z \o f)
    BY <1>1, <2>2, ConcatProperties, LenProperties
  <2>5. d + k \in MagicAt(z \o f)
    BY <1>3, <2>1, <2>3, <2>4, MagicBehind
  <2>6. d + k >= Len(z)
    BY <2>5 DEF Clean
  <2> QED BY <1>1, <2>1, <2>6
<1> QED BY <1>2, <1>3 DEF Clean

(* The first magic word is that of the first frame *)
LEMMA MagicOfFrame ==
  ASSUME Fitting, NEW b \in Seq(Nat), NEW rest \in Seq(Nat), NEW o \in Seq(Frames),
         NEW z \in Seq(Nat), Clean(z), b \o rest = z \o FlattenSeq(o)
  PROVE  /\ \A k \in MagicAt(b) : k >= Len(z) /\ o # <<>>
         /\ o # <<>> /\ Len(z) <= Len(b) - MagicLen => Len(z) \in MagicAt(b)
         /\ o = <<>> => Len(b) <= Len(z)
<1> DEFINE x == b \o rest
<1>0. /\ Len(z) \in Nat /\ Len(b) \in Nat /\ Len(rest) \in Nat /\ MagicLen \in Nat /\ MagicLen > 0
      /\ x \in Seq(Nat) /\ Len(x) = Len(b) + Len(rest)
  BY LenProperties, Lengths, ConcatProperties
<1>1. \A k \in Int : k \in MagicAt(b) <=> k \in MagicAt(x) /\ k <= Len(b) - MagicLen
  BY MagicBefore
<1>2. MagicAt(b) \subseteq Int
  BY DEF MagicAt
<1>3. CASE o = <<>>
  <2>1. x = z
    <3>1. z \o <<>> = z
      BY ConcatEmptySeq
    <3> QED BY <1>3, <3>1, FlattenEmpty
  <2>2. MagicAt(x) = {}
    BY <2>1 DEF Clean
  <2>3. MagicAt(b) = {}
    BY <1>1, <1>2, <2>2
  <2>4. Len(b) <= Len(z)
    <3>1. Len(z) = Len(b) + Len(rest)
      BY <1>0, <2>1
    <3> QED BY <1>0, <3>1
  <2> QED BY <1>3, <2>3, <2>4
<1>4. CASE o # <<>>
  <2>1. PICK f \in Frames, t \in Seq(Frames) : o = <<f>> \o t
    BY <1>4, FramesType
  <2>2. t \in Seq(Seq(Nat)) /\ FlattenSeq(t) \in Seq(Nat)
    BY FramesType
  <2>3. /\ f \in Seq(Nat) /\ Len(f) \in Nat /\ Len(f) >= MagicLen + 2 /\ 0 \in MagicAt(f)
    BY FrameProperties
  <2> DEFINE y == f \o FlattenSeq(t)
  <2>4. FlattenSeq(o) = y /\ y \in Seq(Nat) /\ z \o f \in Seq(Nat) /\ Len(z \o f) = Len(z) + Len(f)
    <3>1. FlattenSeq(<<f>> \o t) = f \o FlattenSeq(t)
      BY <2>2, <2>3, FlattenFirst
    <3>2. f \o FlattenSeq(t) \in Seq(Nat) /\ z \o f \in Seq(Nat) /\ Len(z \o f) = Len(z) + Len(f)
      BY <2>2, <2>3, ConcatProperties
    <3> QED BY <2>1, <3>1, <3>2
  <2>5. x = (z \o f) \o FlattenSeq(t)
    <3>1. (z \o f) \o FlattenSeq(t) = z \o y
      BY <2>2, <2>3, BytesAssociate
    <3> QED BY <2>4, <3>1
  <2>6. ASSUME NEW k \in MagicAt(b) PROVE k >= Len(z)
    <3>1. k \in Int /\ k \in MagicAt(x)
      BY <1>1, <1>2
    <3> SUFFICES ASSUME ~(k >= Len(z)) PROVE FALSE
      OBVIOUS
    <3>2. k <= Len(z \o f) - MagicLen
      BY <1>0, <2>3, <2>4, <3>1
    <3>3. k \in MagicAt(z \o f)
      <4>1. k \in MagicAt(z \o f) <=> k \in MagicAt((z \o f) \o FlattenSeq(t)) /\ k <= Len(z \o f) - MagicLen
        BY <2>2, <2>4, <3>1, MagicBefore
      <4> QED BY <2>5, <3>1, <3>2, <4>1
    <3> QED BY <3>3 DEF Clean
  <2>7. ASSUME Len(z) <= Len(b) - MagicLen PROVE Len(z) \in MagicAt(b)
    <3>1. 0 \in MagicAt(y)
      <4>1. 0 \in MagicAt(f) <=> 0 \in MagicAt(f \o FlattenSeq(t)) /\ 0 <= Len(f) - MagicLen
        BY <2>2, <2>3, MagicBefore
      <4> QED BY <2>3, <4>1
    <3>2. From(x, Len(z)) = y
      BY <2>4, FromBehind
    <3>3. Len(z) \in 0 .. Len(x)
      BY <1>0, <2>7
    <3> HIDE DEF x, y
    <3>4. 0 \in MagicAt(From(x, Len(z))) <=> 0 >= 0 /\ Len(z) + 0 \in MagicAt(x)
      BY <1>0, <3>3, MagicBehind
    <3>5. Len(z) + 0 = Len(z) /\ Len(z) \in Int
      BY <1>0
    <3> QED BY <1>1, <2>7, <3>1, <3>2, <3>4, <3>5
  <2> QED BY <1>4, <2>6, <2>7
<1> QED BY <1>3, <1>4

(* A pass of the loop of port2_feed: it is the last, or hands on the first *)
(* frame                                                                   *)
LEMMA PassOnNoise ==
  ASSUME Fitting, NEW b \in Seq(Nat), NEW rest \in Seq(Nat), NEW o \in Seq(Frames),
         NEW z \in Seq(Nat), Clean(z), b \o rest = z \o FlattenSeq(o),
         MagicAt(b) = {} \/ Len(b) < HeaderLen
  PROVE  Stops(b) /\ Standing(Remains(b), rest, o)
<1>0. /\ Len(z) \in Nat /\ Len(b) \in Nat /\ MagicLen \in Nat /\ MagicLen > 0 /\ Preserve \in Nat
      /\ Preserve = MagicLen - 1 /\ HeaderLen \in Nat /\ HeaderLen >= MagicLen + 2 /\ FlattenSeq(o) \in Seq(Nat)
  BY LenProperties, Lengths, FramesType
<1>1. CASE Len(b) < HeaderLen
  BY <1>1 DEF Stops, Remains, Standing
<1>2. CASE ~(Len(b) < HeaderLen) /\ MagicAt(b) = {}
  <2> DEFINE d == Len(b) - Preserve
  <2>1. d \in 0 .. Len(b) /\ Len(b) - d = Preserve /\ Preserve < HeaderLen
    BY <1>0, <1>2
  <2>2. d <= Len(z)
    <3> SUFFICES ASSUME ~(d <= Len(z)) PROVE FALSE
      OBVIOUS
    <3>1. Len(z) <= Len(b) - MagicLen
      BY <1>0
    <3>2. ~(Len(b) <= Len(z))
      BY <1>0, <3>1
    <3>3. o # <<>>
      BY <3>2, MagicOfFrame
    <3>4. Len(z) \in MagicAt(b)
      BY <3>1, <3>3, MagicOfFrame
    <3> QED BY <1>2, <3>4
  <2>3. d \in 0 .. Len(z)
    BY <1>0, <2>1, <2>2
  <2>4. Stops(b) /\ Remains(b) = From(b, d)
    BY <1>2 DEF Stops, Remains
  <2> HIDE DEF d
  <2>5. From(b, d) \o rest = From(z, d) \o FlattenSeq(o)
    <3>1. From(b, d) \o rest = From(b \o rest, d)
      BY <2>1, FromConcat
    <3>2. From(z, d) \o FlattenSeq(o) = From(z \o FlattenSeq(o), d)
      BY <1>0, <2>3, FromConcat
    <3> QED BY <3>1, <3>2
  <2>6. From(z, d) \in Seq(Nat) /\ Clean(From(z, d)) /\ Len(From(b, d)) < HeaderLen
    <3>1. From(z, d) \in Seq(Nat) /\ Len(From(b, d)) = Len(b) - d
      BY <2>1, <2>3, FromProperties
    <3> QED BY <2>1, <2>3, <3>1, CleanFrom
  <2> QED BY <2>4, <2>5, <2>6 DEF Standing
<1> QED BY <1>1, <1>2

LEMMA PassOnFrame ==
  ASSUME Fitting, NEW b \in Seq(Nat), NEW rest \in Seq(Nat), NEW o \in Seq(Frames),
         NEW z \in Seq(Nat), Clean(z), b \o rest = z \o FlattenSeq(o),
         MagicAt(b) # {}, ~(Len(b) < HeaderLen)
  PROVE  \/ Stops(b) /\ Standing(Remains(b), rest, o)
         \/ /\ ~Stops(b) /\ ~Skips(b)
            /\ \E t \in Seq(Frames) : /\ Cut(b) \in Frames /\ o = <<Cut(b)>> \o t
                                      /\ From(b, Advance(b)) \o rest = <<>> \o FlattenSeq(t)
<1> DEFINE m == MagicFirst(b)
           h == Here(b)
<1>0. /\ Len(z) \in Nat /\ Len(b) \in Nat /\ MagicLen \in Nat /\ MagicLen > 0
      /\ HeaderLen \in Nat /\ HeaderLen >= MagicLen + 2
  BY LenProperties, Lengths
<1>1. m \in MagicAt(b) /\ (\A j \in MagicAt(b) : m =< j) /\ m \in 0 .. Len(b) - MagicLen /\ m \in 0 .. Len(b)
  BY FirstFound
<1>2. m >= Len(z) /\ o # <<>>
  BY <1>1, MagicOfFrame
<1>3. Len(z) \in MagicAt(b)
  <2>1. Len(z) <= Len(b) - MagicLen
    BY <1>0, <1>1, <1>2
  <2> QED BY <1>2, <2>1, MagicOfFrame
<1>4. m = Len(z)
  BY <1>0, <1>1, <1>2, <1>3
<1>5. PICK f \in Frames, t \in Seq(Frames) : o = <<f>> \o t
  BY <1>2, FramesType
<1>6. /\ f \in Seq(Nat) /\ Len(f) \in Nat /\ Len(f) >= HeaderLen /\ TotalLen(f) = Len(f) /\ Len(f) <= AccumSize
      /\ t \in Seq(Seq(Nat)) /\ FlattenSeq(t) \in Seq(Nat)
  BY FrameProperties, FramesType
<1> DEFINE y == f \o FlattenSeq(t)
<1>7. y \in Seq(Nat) /\ FlattenSeq(o) = y /\ o[1] = f
  <2>1. FlattenSeq(<<f>> \o t) = f \o FlattenSeq(t)
    BY <1>6, FlattenFirst
  <2>2. f \o FlattenSeq(t) \in Seq(Nat)
    BY <1>6, ConcatProperties
  <2>3. (<<f>> \o t)[1] = f
    <3>1. <<f>> \in Seq(Seq(Nat)) /\ Len(<<f>>) = 1 /\ <<f>>[1] = f /\ Len(t) \in Nat
      BY <1>6, LenProperties
    <3>2. 1 \in 1 .. Len(<<f>>) + Len(t)
      BY <3>1
    <3>3. (<<f>> \o t)[1] = IF 1 <= Len(<<f>>) THEN <<f>>[1] ELSE t[1 - Len(<<f>>)]
      BY <1>6, <3>1, <3>2, ConcatProperties
    <3> QED BY <3>1, <3>3
  <2> QED BY <1>5, <2>1, <2>2, <2>3
<1>8. /\ h \in Seq(Nat) /\ Len(h) = Len(b) - Len(z) /\ Len(h) \in Nat /\ h = From(b, Len(z))
  BY <1>4, HereProperties DEF Here
<1>9. h \o rest = y
  <2>1. Len(z) \in 0 .. Len(b)
    BY <1>1, <1>4
  <2>2. From(b, Len(z)) \o rest = From(b \o rest, Len(z))
    BY <2>1, FromConcat
  <2>3. From(z \o y, Len(z)) = y
    BY <1>7, FromBehind
  <2> QED BY <1>7, <1>8, <2>2, <2>3
<1>10. h \o rest = <<>> \o FlattenSeq(o)
  <2>1. <<>> \o y = y
    BY <1>7, ConcatEmptySeq
  <2> QED BY <1>7, <1>9, <2>1
<1>11. Len(b) - MagicFirst(b) = Len(h) /\ ~(Len(b) < HeaderLen)
  BY <1>4, <1>8
<1> HIDE DEF m, h, y
<1>12. CASE Len(h) < HeaderLen
  <2>1. Stops(b) /\ Remains(b) = h
    BY <1>12 DEF Stops, Remains, h
  <2> QED BY <1>10, <1>12, <2>1, CleanEmpty, FlattenEmpty DEF Standing
<1>13. CASE ~(Len(h) < HeaderLen)
  <2>1. TotalLen(h) = Len(f)
    <3>1. MagicLen + 1 \in 1 .. Len(h) /\ MagicLen + 1 \in 1 .. Len(f)
      <4>1. /\ MagicLen \in Nat /\ HeaderLen \in Nat /\ HeaderLen >= MagicLen + 2
            /\ Len(f) \in Nat /\ Len(f) >= HeaderLen
        BY <1>0, <1>6
      <4>2. PICK ml, hl, lh, lf : ml = MagicLen /\ hl = HeaderLen /\ lh = Len(h) /\ lf = Len(f)
        OBVIOUS
      <4>3. ml \in Nat /\ hl \in Nat /\ lh \in Nat /\ lf \in Nat /\ hl >= ml + 2 /\ lf >= hl /\ ~(lh < hl)
        BY <1>8, <1>13, <4>1, <4>2
      <4>4. ml + 1 \in 1 .. lh /\ ml + 1 \in 1 .. lf
        BY <4>3
      <4> QED BY <4>2, <4>4
    <3>2. (h \o rest)[MagicLen + 1] = h[MagicLen + 1]
      <4>1. MagicLen + 1 \in 1 .. Len(h) + Len(rest) /\ MagicLen + 1 <= Len(h)
        BY <1>0, <1>8, <3>1, LenProperties
      <4> QED BY <1>8, <4>1, ConcatProperties
    <3>3. (f \o FlattenSeq(t))[MagicLen + 1] = f[MagicLen + 1]
      <4>1. MagicLen + 1 \in 1 .. Len(f) + Len(FlattenSeq(t)) /\ MagicLen + 1 <= Len(f)
        BY <1>0, <1>6, <3>1, LenProperties
      <4> QED BY <1>6, <4>1, ConcatProperties
    <3> QED BY <1>6, <1>9, <3>2, <3>3 DEF TotalLen, y
  <2>2. ~Skips(b)
    <3>1. ~BadLength(Len(f))
      BY <1>0, <1>6, Lengths DEF BadLength
    <3> QED BY <2>1, <3>1 DEF Skips, h
  <2>3. CASE Len(h) < Len(f)
    <3>1. Stops(b) /\ Remains(b) = h
      BY <1>11, <2>1, <2>2, <2>3 DEF Stops, Remains, h
    <3> QED BY <1>2, <1>7, <1>10, <2>3, <3>1, CleanEmpty, FlattenEmpty DEF Standing
  <2>4. CASE ~(Len(h) < Len(f))
    <3>1. ~Stops(b)
      BY <1>11, <1>13, <2>1, <2>4 DEF Stops, h
    <3>2. Len(f) \in 0 .. Len(h)
      BY <1>6, <1>8, <2>4
    <3>3. Cut(b) = f
      <4>1. Take(h \o rest, Len(f)) = Take(h, Len(f))
        BY <1>8, <3>2, TakeConcat
      <4>2. Take(f \o FlattenSeq(t), Len(f)) = f
        BY <1>6, TakeBefore
      <4> QED BY <1>9, <2>1, <4>1, <4>2 DEF Cut, h, y
    <3>4. From(b, Advance(b)) = From(h, Len(f))
      <4>1. Advance(b) = Len(z) + Len(f)
        BY <1>4, <2>1, <2>2 DEF Advance, m, h
      <4>2. Len(z) \in 0 .. Len(b) /\ Len(f) \in 0 .. Len(b) - Len(z)
        BY <1>1, <1>4, <1>8, <3>2
      <4>3. From(From(b, Len(z)), Len(f)) = From(b, Len(z) + Len(f))
        BY <4>2, FromFrom
      <4> QED BY <1>8, <4>1, <4>3
    <3>5. From(h, Len(f)) \o rest = <<>> \o FlattenSeq(t)
      <4>1. From(h, Len(f)) \o rest = From(h \o rest, Len(f))
        BY <1>8, <3>2, FromConcat
      <4>2. From(f \o FlattenSeq(t), Len(f)) = FlattenSeq(t)
        BY <1>6, FromBehind
      <4>3. <<>> \o FlattenSeq(t) = FlattenSeq(t)
        BY <1>6, ConcatEmptySeq
      <4> QED BY <1>9, <4>1, <4>2, <4>3 DEF y
    <3> QED BY <1>5, <2>2, <3>1, <3>3, <3>4, <3>5
  <2> QED BY <2>3, <2>4
<1> QED BY <1>12, <1>13

LEMMA FramesAssociate ==
  ASSUME NEW x \in Seq(Frames), NEW y \in Seq(Frames), NEW z \in Seq(Frames)
  PROVE  (x \o y) \o z = x \o (y \o z)
<1>1. ASSUME NEW S, x \in Seq(S), y \in Seq(S), z \in Seq(S)
      PROVE  (x \o y) \o z = x \o (y \o z)
  BY <1>1, ConcatAssociative
<1> QED BY <1>1

LEMMA FramesAppend ==
  ASSUME NEW s \in Seq(Frames), NEW f \in Frames
  PROVE  /\ Append(s, f) \in Seq(Frames) /\ Append(s, f) # <<>>
         /\ \A i \in 1 .. Len(s) : Append(s, f)[i] = s[i]
<1>1. ASSUME NEW S, s \in Seq(S), f \in S
      PROVE  /\ Append(s, f) \in Seq(S) /\ Append(s, f) # <<>>
             /\ \A i \in 1 .. Len(s) : Append(s, f)[i] = s[i]
  BY <1>1, AppendProperties
<1> QED BY <1>1

(* The loop: the frames that came whole are handed on, the others stand *)
LEMMA DrainHands ==
  ASSUME Fitting, NEW rest \in Seq(Nat), NEW o \in Seq(Frames), NEW b \in Seq(Nat), NEW z \in Seq(Nat),
         Clean(z), b \o rest = z \o FlattenSeq(o)
  PROVE  Handed(Drain(b).frames, Drain(b).left, rest, o)
<1> DEFINE T == {n \in Nat : \A p \in Seq(Frames), c \in Seq(Nat), x \in Seq(Nat) :
                   Len(p) = n /\ Clean(x) /\ c \o rest = x \o FlattenSeq(p)
                     => Handed(Drain(c).frames, Drain(c).left, rest, p)}
<1>1. ASSUME NEW p \in Seq(Frames), NEW c \in Seq(Nat), Stops(c), Standing(Remains(c), rest, p)
      PROVE  Handed(Drain(c).frames, Drain(c).left, rest, p)
  <2>1. Drain(c) = [frames |-> <<>>, left |-> Remains(c)]
    BY <1>1, DrainUnfolds
  <2>2. p = <<>> \o p /\ <<>> \in Seq(Frames)
    BY ConcatEmptySeq, EmptySeq
  <2> QED BY <1>1, <2>1, <2>2 DEF Handed
<1>2. ASSUME NEW p \in Seq(Frames), NEW c \in Seq(Nat), NEW x \in Seq(Nat), Clean(x), c \o rest = x \o FlattenSeq(p)
      PROVE  \/ Stops(c) /\ Standing(Remains(c), rest, p)
             \/ /\ ~Stops(c) /\ ~Skips(c)
                /\ \E t \in Seq(Frames) : /\ Cut(c) \in Frames /\ p = <<Cut(c)>> \o t
                                          /\ From(c, Advance(c)) \o rest = <<>> \o FlattenSeq(t)
  BY <1>2, PassOnNoise, PassOnFrame
<1>3. 0 \in T
  <2> SUFFICES ASSUME NEW p \in Seq(Frames), NEW c \in Seq(Nat), NEW x \in Seq(Nat),
                      Len(p) = 0, Clean(x), c \o rest = x \o FlattenSeq(p)
               PROVE  Handed(Drain(c).frames, Drain(c).left, rest, p)
    OBVIOUS
  <2>1. p = <<>>
    BY EmptySeq
  <2>2. ASSUME NEW f, NEW t \in Seq(Frames), f \in Frames PROVE p # <<f>> \o t
    <3>1. <<f>> \in Seq(Frames) /\ <<f>> # <<>>
      BY <2>2
    <3>2. <<f>> \o t = <<>> => <<f>> = <<>>
      BY <3>1, ConcatEqualIffEmpty
    <3> QED BY <2>1, <3>1, <3>2
  <2>3. CASE Stops(c) /\ Standing(Remains(c), rest, p)
    BY <1>1, <2>3
  <2>4. CASE \E t \in Seq(Frames) : Cut(c) \in Frames /\ p = <<Cut(c)>> \o t
    BY <2>2, <2>4
  <2> QED BY <1>2, <2>3, <2>4
<1>4. ASSUME NEW n \in Nat, n \in T PROVE n + 1 \in T
  <2>0. n + 1 \in Nat
    OBVIOUS
  <2> SUFFICES ASSUME NEW p \in Seq(Frames), NEW c \in Seq(Nat), NEW x \in Seq(Nat),
                      Len(p) = n + 1, Clean(x), c \o rest = x \o FlattenSeq(p)
               PROVE  Handed(Drain(c).frames, Drain(c).left, rest, p)
    BY <2>0
  <2>1. CASE Stops(c) /\ Standing(Remains(c), rest, p)
    BY <1>1, <2>1
  <2>2. CASE /\ ~Stops(c) /\ ~Skips(c)
             /\ \E t \in Seq(Frames) : /\ Cut(c) \in Frames /\ p = <<Cut(c)>> \o t
                                       /\ From(c, Advance(c)) \o rest = <<>> \o FlattenSeq(t)
    <3>1. PICK t \in Seq(Frames) : /\ Cut(c) \in Frames /\ p = <<Cut(c)>> \o t
                                   /\ From(c, Advance(c)) \o rest = <<>> \o FlattenSeq(t)
      BY <2>2
    <3>2. PICK f, v : f = Cut(c) /\ f \in Frames /\ v = From(c, Advance(c))
      BY <3>1
    <3>3. <<f>> \in Seq(Frames) /\ Len(<<f>>) = 1
      BY <3>2
    <3>4. Len(t) = n
      <4>1. Len(<<f>> \o t) = Len(<<f>>) + Len(t) /\ Len(t) \in Nat
        BY <3>3, ConcatProperties, LenProperties
      <4> QED BY <3>1, <3>2, <3>3, <4>1
    <3>5. v \in Seq(Nat)
      <4>1. Advance(c) \in 1 .. Len(c) /\ Len(c) \in Nat
        BY <2>2, Advances, LenProperties
      <4>2. Advance(c) \in 0 .. Len(c)
        BY <4>1
      <4> QED BY <3>2, <4>2, FromProperties
    <3>6. Handed(Drain(v).frames, Drain(v).left, rest, t)
      BY <1>4, <3>1, <3>2, <3>4, <3>5, CleanEmpty, FlattenEmpty
    <3>7. PICK d \in Seq(Frames) : t = Drain(v).frames \o d /\ Drain(v).frames \in Seq(Frames) /\ Standing(Drain(v).left, rest, d)
      BY <3>6 DEF Handed
    <3>8. Drain(c).frames = <<f>> \o Drain(v).frames /\ Drain(c).left = Drain(v).left
      <4>1. Drain(c) = [Drain(v) EXCEPT !.frames = <<f>> \o @]
        BY <2>2, <3>2, DrainUnfolds
      <4>2. Drain(v) \in Result
        BY <3>5, DrainProperties
      <4> QED BY <4>1, <4>2 DEF Result
    <3>9. p = Drain(c).frames \o d /\ Drain(c).frames \in Seq(Frames)
      <4>1. (<<f>> \o Drain(v).frames) \o d = <<f>> \o (Drain(v).frames \o d)
        <5>2. PICK fr : fr = Drain(v).frames
          OBVIOUS
        <5>3. <<f>> \in Seq(Frames) /\ fr \in Seq(Frames) /\ d \in Seq(Frames)
          BY <3>3, <3>7, <5>2
        <5>4. (<<f>> \o fr) \o d = <<f>> \o (fr \o d)
          BY <5>3, FramesAssociate
        <5> QED BY <5>2, <5>4
      <4>2. <<f>> \o Drain(v).frames \in Seq(Frames)
        BY <3>3, <3>7, ConcatProperties
      <4> QED BY <3>1, <3>2, <3>7, <3>8, <4>1, <4>2
    <3> QED BY <3>7, <3>8, <3>9 DEF Handed
  <2> QED BY <1>2, <2>1, <2>2
<1> HIDE DEF T
<1>5. Nat \subseteq T
  BY <1>3, <1>4, SetInduction
<1> QED BY <1>5, LenProperties DEF T

(* Of frames joined, the first and the others *)
LEMMA FramesSplit ==
  ASSUME NEW S, NEW a \in Seq(S), NEW c \in Seq(S)
  PROVE  Take(a \o c, Len(a)) = a /\ From(a \o c, Len(a)) = c /\ Len(a) <= Len(a \o c) /\ Len(a) \in Nat
<1> DEFINE u == a \o c
<1>1. /\ u \in Seq(S) /\ Len(u) = Len(a) + Len(c) /\ Len(a) \in Nat /\ Len(c) \in Nat
      /\ \A i \in 1 .. Len(a) + Len(c) : u[i] = IF i <= Len(a) THEN a[i] ELSE c[i - Len(a)]
  BY ConcatProperties, LenProperties
<1> HIDE DEF u
<1>2. \A i \in 1 .. Len(a) : i \in 1 .. Len(a) + Len(c) /\ i <= Len(a)
  BY <1>1
<1>3. \A i \in 1 .. Len(c) : Len(a) + i \in 1 .. Len(a) + Len(c) /\ ~(Len(a) + i <= Len(a)) /\ (Len(a) + i) - Len(a) = i
  BY <1>1
<1>4. Take(u, Len(a)) = a
  <2>1. \A i \in 1 .. Len(a) : u[i] \in S
    BY <1>1, <1>2, ElementOfSeq
  <2>2. /\ SubSeq(u, 1, Len(a)) \in Seq(S)
        /\ Len(SubSeq(u, 1, Len(a))) = IF 1 <= Len(a) THEN Len(a) - 1 + 1 ELSE 0
        /\ \A i \in 1 .. Len(a) - 1 + 1 : SubSeq(u, 1, Len(a))[i] = u[1 + i - 1]
    BY <1>1, <2>1, SubSeqProperties
  <2>3. Len(SubSeq(u, 1, Len(a))) = Len(a)
    BY <1>1, <2>2
  <2>4. \A i \in 1 .. Len(a) : i \in 1 .. Len(a) - 1 + 1 /\ 1 + i - 1 = i
    BY <1>1
  <2>5. \A i \in 1 .. Len(a) : SubSeq(u, 1, Len(a))[i] = a[i]
    BY <1>1, <1>2, <2>2, <2>4
  <2>6. SubSeq(u, 1, Len(a)) = a
    BY <2>2, <2>3, <2>5, SeqEqual
  <2> QED BY <2>6 DEF Take
<1>5. From(u, Len(a)) = c
  <2>1. \A i \in Len(a) + 1 .. Len(u) : u[i] \in S
    <3>1. \A i \in Len(a) + 1 .. Len(u) : i \in 1 .. Len(u)
      BY <1>1
    <3> QED BY <1>1, <3>1, ElementOfSeq
  <2> DEFINE l == Len(a)
             n == Len(u)
             w == SubSeq(u, l + 1, n)
  <2>2. /\ w \in Seq(S)
        /\ Len(w) = IF l + 1 <= n THEN n - (l + 1) + 1 ELSE 0
        /\ \A i \in 1 .. n - (l + 1) + 1 : w[i] = u[(l + 1) + i - 1]
    <3>1. l + 1 \in Int /\ n \in Int
      BY <1>1
    <3> QED BY <2>1, <3>1, SubSeqProperties
  <2> HIDE DEF w
  <2>3. Len(w) = Len(c)
    BY <1>1, <2>2
  <2>4. \A i \in 1 .. Len(c) : i \in 1 .. n - (l + 1) + 1 /\ (l + 1) + i - 1 = l + i
    BY <1>1
  <2>5. \A i \in 1 .. Len(c) : w[i] = u[l + i]
    BY <2>2, <2>4
  <2>6. \A i \in 1 .. Len(c) : w[i] = c[i]
    BY <1>1, <1>3, <2>5
  <2>7. w = c
    BY <2>2, <2>3, <2>6, SeqEqual
  <2> QED BY <2>7 DEF From, w
<1>6. Len(a) <= Len(u)
  BY <1>1
<1> QED BY <1>1, <1>4, <1>5, <1>6 DEF u

StepInv == losses = 0 => ~missed /\ owed \in Seq(Frames) /\ Standing(accum, line, owed)

LEMMA StepInit == ASSUME Fitting PROVE Init => StepInv
<1> SUFFICES ASSUME Init PROVE StepInv
  OBVIOUS
<1>1. accum = <<>> /\ line \in Noises /\ owed = <<>> /\ missed = FALSE
  BY DEF Init
<1>2. line \in Seq(Nat) /\ Clean(line) /\ HeaderLen > 0
  BY <1>1, Port2Assumption, Lengths DEF Fitting
<1>3. <<>> \o line = line /\ line \o <<>> = line /\ <<>> \in Seq(Frames)
  BY <1>2, ConcatEmptySeq, EmptySeq
<1>4. Standing(accum, line, owed)
  BY <1>1, <1>2, <1>3, FlattenEmpty DEF Standing
<1> QED BY <1>1, <1>3, <1>4 DEF StepInv

LEMMA StepSend == ASSUME Fitting, Port2Inv, StepInv, NEW f \in Frames, Send(f) PROVE StepInv'
<1> SUFFICES ASSUME losses = 0 PROVE ~missed' /\ owed' \in Seq(Frames) /\ Standing(accum, line, owed)'
  BY DEF Send, StepInv
<1>1. line' = line \o f /\ owed' = Append(owed, f) /\ accum' = accum /\ missed' = missed
  BY DEF Send
<1>2. /\ f \in Seq(Nat) /\ accum \in Seq(Nat) /\ line \in Seq(Nat) /\ owed \in Seq(Frames)
      /\ owed \in Seq(Seq(Nat)) /\ FlattenSeq(owed) \in Seq(Nat) /\ ~missed
  BY FrameProperties, FramesType DEF Port2Inv, TypeOK, StepInv
<1>3. PICK z \in Seq(Nat) :
        /\ Clean(z) /\ accum \o line = z \o FlattenSeq(owed)
        /\ \/ Len(accum) < HeaderLen
           \/ z = <<>> /\ owed # <<>> /\ Len(accum) < Len(owed[1])
  BY DEF StepInv, Standing
<1>4. accum \o (line \o f) = z \o FlattenSeq(Append(owed, f))
  <2>1. accum \o (line \o f) = (accum \o line) \o f
    BY <1>2, BytesAssociate
  <2>2. z \o (FlattenSeq(owed) \o f) = (z \o FlattenSeq(owed)) \o f
    BY <1>2, BytesAssociate
  <2>3. FlattenSeq(Append(owed, f)) = FlattenSeq(owed) \o f
    BY <1>2, FlattenAppend
  <2> QED BY <1>3, <2>1, <2>2, <2>3
<1>5. Append(owed, f) \in Seq(Frames) /\ Append(owed, f) # <<>> /\ (owed # <<>> => Append(owed, f)[1] = owed[1])
  <2>1. owed # <<>> => 1 \in 1 .. Len(owed)
    BY <1>2, EmptySeq
  <2>2. /\ Append(owed, f) \in Seq(Frames) /\ Append(owed, f) # <<>>
        /\ \A i \in 1 .. Len(owed) : Append(owed, f)[i] = owed[i]
    BY <1>2, FramesAppend
  <2> QED BY <2>1, <2>2
<1>6. Standing(accum, line, owed)'
  BY <1>1, <1>3, <1>4, <1>5 DEF Standing
<1> QED BY <1>1, <1>2, <1>5, <1>6

LEMMA StepRead == ASSUME Fitting, Port2Inv, StepInv, NEW n \in 1 .. ReadMax, Read(n) PROVE StepInv'
<1> SUFFICES ASSUME losses = 0 PROVE ~missed' /\ owed' \in Seq(Frames) /\ Standing(accum, line, owed)'
  BY DEF Read, StepInv
<1>0. PICK chunk, r : chunk = Take(line, n) /\ r = Feed(accum, chunk)
  OBVIOUS
<1>1. /\ n =< Len(line) /\ accum' = r.left /\ line' = From(line, n)
      /\ missed' = (missed \/ Len(r.frames) > Len(owed) \/ r.frames # Take(owed, Len(r.frames)))
      /\ owed' = IF Len(r.frames) > Len(owed) THEN <<>> ELSE From(owed, Len(r.frames))
  BY <1>0 DEF Read
<1>2. /\ accum \in Seq(Nat) /\ line \in Seq(Nat) /\ owed \in Seq(Frames) /\ ~missed
      /\ Len(accum) \in Nat /\ Len(line) \in Nat /\ ReadMax \in Nat /\ AccumSize \in Nat /\ HeaderLen \in Nat
  BY Port2Assumption, LenProperties DEF Port2Inv, TypeOK, StepInv
<1>3. /\ chunk \in Seq(Nat) /\ Len(chunk) = n /\ From(line, n) \in Seq(Nat) /\ chunk \o From(line, n) = line
  <2>1. n \in 0 .. Len(line)
    BY <1>1, <1>2
  <2> QED BY <1>0, <1>2, <2>1, TakeProperties, FromProperties, TakeAndFrom
<1>4. PICK z \in Seq(Nat) :
        /\ Clean(z) /\ accum \o line = z \o FlattenSeq(owed)
        /\ \/ Len(accum) < HeaderLen
           \/ z = <<>> /\ owed # <<>> /\ Len(accum) < Len(owed[1])
  BY DEF StepInv, Standing
<1>5. ~Saturated(accum, chunk)
  <2>1. CASE Len(accum) < HeaderLen
    <3>1. HeaderLen + ReadMax <= AccumSize
      BY DEF Fitting
    <3> QED BY <1>2, <1>3, <2>1, <3>1 DEF Saturated
  <2>2. CASE owed # <<>> /\ Len(accum) < Len(owed[1])
    <3>1. 1 \in 1 .. Len(owed)
      BY <1>2, <2>2, EmptySeq
    <3>2. owed[1] \in Frames
      BY <1>2, <3>1, ElementOfSeq
    <3>3. Len(owed[1]) \in Nat /\ Len(owed[1]) + ReadMax <= AccumSize
      BY <3>2, FrameProperties
    <3> QED BY <1>2, <1>3, <2>2, <3>3 DEF Saturated
  <2> QED BY <1>4, <2>1, <2>2
<1>6. r = Drain(accum \o chunk)
  BY <1>0, <1>5 DEF Feed
<1>7. accum \o chunk \in Seq(Nat) /\ (accum \o chunk) \o From(line, n) = z \o FlattenSeq(owed)
  <2>1. (accum \o chunk) \o From(line, n) = accum \o (chunk \o From(line, n))
    BY <1>2, <1>3, BytesAssociate
  <2> QED BY <1>2, <1>3, <1>4, <2>1, ConcatProperties
<1>8. Handed(r.frames, r.left, From(line, n), owed)
  BY <1>2, <1>3, <1>4, <1>6, <1>7, DrainHands
<1>9. PICK c \in Seq(Frames) : owed = r.frames \o c /\ r.frames \in Seq(Frames) /\ Standing(r.left, From(line, n), c)
  BY <1>8 DEF Handed
<1>10. Take(owed, Len(r.frames)) = r.frames /\ From(owed, Len(r.frames)) = c /\ Len(r.frames) <= Len(owed)
       /\ Len(r.frames) \in Nat /\ Len(owed) \in Nat
  BY <1>2, <1>9, FramesSplit, LenProperties
<1>11. ~(Len(r.frames) > Len(owed))
  BY <1>10
<1>12. owed' = c /\ ~missed'
  BY <1>1, <1>2, <1>10, <1>11
<1> QED BY <1>1, <1>9, <1>12 DEF Standing

LEMMA StepKeeps == ASSUME Fitting PROVE Port2Inv /\ StepInv /\ [Next]_vars => StepInv'
<1> SUFFICES ASSUME Port2Inv, StepInv, [Next]_vars PROVE StepInv'
  OBVIOUS
<1>1. ASSUME NEW i \in DOMAIN line, Lose(i) PROVE StepInv'
  <2>1. losses' = losses + 1 /\ losses \in Nat
    BY <1>1, Port2Assumption DEF Lose, Port2Inv, TypeOK
  <2> QED BY <2>1 DEF StepInv
<1>2. CASE UNCHANGED vars
  BY <1>2 DEF vars, StepInv, Standing
<1> QED BY <1>1, <1>2, StepSend, StepRead DEF Next, Reads, Sends

LEMMA SuffixBehind ==
  ASSUME NEW z \in Seq(Nat), NEW s \in Seq(Nat)
  PROVE  IsSuffix(s, z \o s)
<1> DEFINE t == z \o s
           p == Reverse(s)
           q == Reverse(t)
<1>1. /\ Len(z) \in Nat /\ Len(s) \in Nat /\ t \in Seq(Nat) /\ Len(t) = Len(z) + Len(s)
      /\ \A i \in 1 .. Len(z) + Len(s) : t[i] = IF i <= Len(z) THEN z[i] ELSE s[i - Len(z)]
  BY LenProperties, ConcatProperties
<1> HIDE DEF t
<1>2. p = [i \in 1 .. Len(s) |-> s[(Len(s) - i) + 1]] /\ q = [i \in 1 .. Len(t) |-> t[(Len(t) - i) + 1]]
  BY DEF Reverse
<1> HIDE DEF p, q
<1>3. Len(p) = Len(s) /\ Len(q) = Len(t) /\ p \in Seq(Nat) /\ q \in Seq(Nat)
  <2>1. \A i \in 1 .. Len(s) : s[(Len(s) - i) + 1] \in Nat
    <3>1. \A i \in 1 .. Len(s) : (Len(s) - i) + 1 \in 1 .. Len(s)
      BY <1>1
    <3> QED BY <3>1, ElementOfSeq
  <2>2. \A i \in 1 .. Len(t) : t[(Len(t) - i) + 1] \in Nat
    <3>1. Len(t) \in Nat
      BY <1>1
    <3>2. \A i \in 1 .. Len(t) : (Len(t) - i) + 1 \in 1 .. Len(t)
      BY <3>1
    <3> QED BY <1>1, <3>2, ElementOfSeq
  <2> QED BY <1>1, <1>2, <2>1, <2>2
<1>4. ASSUME NEW i \in 1 .. Len(p) PROVE p[i] = q[i]
  <2>0. PICK j, l, m : j = (Len(t) - i) + 1 /\ l = Len(z) /\ m = Len(s)
    OBVIOUS
  <2>1. i \in 1 .. Len(s) /\ i \in 1 .. Len(t) /\ j \in 1 .. Len(z) + Len(s) /\ ~(j <= Len(z)) /\ j - Len(z) = (Len(s) - i) + 1
    <3>1. l \in Nat /\ m \in Nat /\ i \in 1 .. m /\ Len(t) = l + m
      BY <1>1, <1>3, <2>0
    <3>2. j = ((l + m) - i) + 1
      BY <2>0, <3>1
    <3>3. i \in 1 .. l + m /\ j \in 1 .. l + m /\ ~(j <= l) /\ j - l = (m - i) + 1
      BY <3>1, <3>2
    <3> QED BY <2>0, <3>1, <3>3
  <2>2. q[i] = t[j] /\ p[i] = s[(Len(s) - i) + 1]
    BY <1>2, <2>0, <2>1
  <2> QED BY <1>1, <2>1, <2>2
<1>5. Len(p) <= Len(q)
  BY <1>1, <1>3
<1>6. SubSeq(p, 1, Len(p)) = SubSeq(q, 1, Len(p))
  <2>1. \A i \in 1 .. Len(p) : p[i] \in Nat /\ q[i] \in Nat
    BY <1>3, <1>4, ElementOfSeq
  <2> DEFINE n == Len(p)
  <2>2. 1 \in Int /\ n \in Int
    BY <1>1, <1>3
  <2> HIDE DEF n
  <2>3. /\ SubSeq(p, 1, n) \in Seq(Nat)
        /\ Len(SubSeq(p, 1, n)) = IF 1 <= n THEN n - 1 + 1 ELSE 0
        /\ \A i \in 1 .. n - 1 + 1 : SubSeq(p, 1, n)[i] = p[1 + i - 1]
    BY <2>1, <2>2, SubSeqProperties DEF n
  <2>4. /\ SubSeq(q, 1, n) \in Seq(Nat)
        /\ Len(SubSeq(q, 1, n)) = IF 1 <= n THEN n - 1 + 1 ELSE 0
        /\ \A i \in 1 .. n - 1 + 1 : SubSeq(q, 1, n)[i] = q[1 + i - 1]
    BY <2>1, <2>2, SubSeqProperties DEF n
  <2>5. \A i \in 1 .. n - 1 + 1 : i \in 1 .. Len(p) /\ 1 + i - 1 = i
    BY <2>2 DEF n
  <2>6. \A i \in 1 .. n - 1 + 1 : SubSeq(p, 1, n)[i] = SubSeq(q, 1, n)[i]
    BY <1>4, <2>3, <2>4, <2>5
  <2>7. Len(SubSeq(p, 1, n)) \in Nat /\ \A i \in 1 .. Len(SubSeq(p, 1, n)) : i \in 1 .. n - 1 + 1
    BY <2>2, <2>3
  <2>8. SubSeq(p, 1, n) = SubSeq(q, 1, n)
    BY <2>3, <2>4, <2>6, <2>7, SameBytes
  <2> QED BY <2>8 DEF n
<1> QED BY <1>5, <1>6 DEF IsSuffix, IsPrefix, p, q, t

(* Whatever the reads return at a time: as long as no byte is lost, the    *)
(* frames that the radar sent are what is handed on, all of them, in       *)
(* order, each with the read that brings its last byte - of a radar whose  *)
(* frames leave room for a read in the buffer, and of a line whose noise   *)
(* does not look like a frame.                                             *)
THEOREM Port2KeepsInStep == ASSUME Fitting PROVE Spec => []InStep
<1>1. Port2Inv /\ StepInv => InStep
  <2> SUFFICES ASSUME Port2Inv, StepInv, losses = 0
               PROVE  /\ ~missed /\ IsSuffix(FlattenSeq(owed), Pending)
                      /\ owed # <<>> => Len(Pending) - Len(FlattenSeq(owed)) + Len(owed[1]) > Len(accum)
    BY DEF InStep
  <2>1. PICK z \in Seq(Nat) :
          /\ Clean(z) /\ accum \o line = z \o FlattenSeq(owed)
          /\ \/ Len(accum) < HeaderLen
             \/ z = <<>> /\ owed # <<>> /\ Len(accum) < Len(owed[1])
    BY DEF StepInv, Standing
  <2>2. /\ owed \in Seq(Frames) /\ FlattenSeq(owed) \in Seq(Nat) /\ ~missed /\ accum \in Seq(Nat)
    BY FramesType DEF StepInv, Port2Inv, TypeOK
  <2>3. IsSuffix(FlattenSeq(owed), Pending)
    BY <2>1, <2>2, SuffixBehind DEF Pending
  <2>4. Len(Pending) = Len(z) + Len(FlattenSeq(owed)) /\ Len(z) \in Nat /\ Len(FlattenSeq(owed)) \in Nat
        /\ Len(accum) \in Nat
    BY <2>1, <2>2, ConcatProperties, LenProperties DEF Pending
  <2>5. ASSUME owed # <<>> PROVE Len(Pending) - Len(FlattenSeq(owed)) + Len(owed[1]) > Len(accum)
    <3>1. 1 \in 1 .. Len(owed)
      BY <2>2, <2>5, EmptySeq
    <3>2. owed[1] \in Frames
      BY <2>2, <3>1, ElementOfSeq
    <3>3. Len(owed[1]) \in Nat /\ Len(owed[1]) >= HeaderLen /\ HeaderLen \in Nat
      BY <3>2, FrameProperties, Lengths
    <3>4. Len(accum) < Len(owed[1])
      BY <2>1, <2>4, <3>3
    <3> QED BY <2>4, <3>3, <3>4
  <2> QED BY <2>2, <2>3, <2>5
<1>2. Spec => []StepInv
  BY Port2Invariant, StepInit, StepKeeps, PTL DEF Spec
<1> QED BY <1>1, <1>2, Port2Invariant, PTL
=============================================================================
