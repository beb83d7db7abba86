-------------------------- MODULE FrameClientProofs --------------------------
(***************************************************************************)
(* The readers of the radar's stream.  Module FrameClient for any streams, *)
(* packets, reads and faults: what is emitted does not depend on where the *)
(* stream is cut, the packets handled are those the server sent, and the   *)
(* plots drawn are the radar's.  At the end, module UartFrame: the reader  *)
(* of the GUI skips no frame.                                              *)
(***************************************************************************)
EXTENDS FrameClient, UartFrame, SequenceTheorems, WellFoundedInduction, TLAPS

-----------------------------------------------------------------------------
(* Induction, for sets of numbers *)

LEMMA NatMin ==
  ASSUME NEW T, T \subseteq Nat, T # {}
  PROVE  \E x \in T : \A y \in T : x =< y
<1> DEFINE R == OpToRel(<, Nat)
<1>1. IsWellFoundedOn(R, Nat)
  BY NatLessThanWellFounded
<1>2. R = {ss \in Nat \X Nat : ss[1] < ss[2]}
  BY DEF OpToRel
<1> HIDE DEF R
<1>3. PICK x \in T : \A y \in T : ~ (<<y, x>> \in R)
  BY <1>1, WFMin
<1>4. ASSUME NEW y \in T PROVE x =< y
  <2>1. x \in Nat /\ y \in Nat /\ <<y, x>> \notin R
    BY <1>3
  <2>2. ~ (y < x)
    BY <1>2, <2>1
  <2> QED BY <2>1, <2>2
<1> QED BY <1>4

LEMMA SetInduction ==
  ASSUME NEW T, 0 \in T, \A k \in Nat : k \in T => k + 1 \in T
  PROVE  Nat \subseteq T
<1> SUFFICES ASSUME Nat \ T # {} PROVE FALSE
  OBVIOUS
<1>1. PICK x \in Nat \ T : \A y \in Nat \ T : x =< y
  BY NatMin
<1>2. x # 0 /\ x - 1 \in Nat /\ (x - 1) + 1 = x
  BY <1>1
<1>3. x - 1 \notin T
  BY <1>2
<1>4. ~ (x =< x - 1)
  BY <1>2
<1> QED BY <1>1, <1>2, <1>3, <1>4

-----------------------------------------------------------------------------
(* The end and the beginning of a sequence of bytes *)

Take(b, k) == SubSeq(b, 1, k)

LEMMA FromProperties ==
  ASSUME NEW b \in Seq(Nat), NEW k \in 0 .. Len(b)
  PROVE  /\ From(b, k) \in Seq(Nat) /\ Len(From(b, k)) = Len(b) - k
         /\ \A i \in 1 .. Len(b) - k : From(b, k)[i] = b[k + i]
<1>1. Len(b) \in Nat /\ \A i \in 1 .. Len(b) : b[i] \in Nat
  BY LenProperties, ElementOfSeq
<1>2. k + 1 \in Int /\ Len(b) \in Int /\ \A i \in k + 1 .. Len(b) : b[i] \in Nat
  BY <1>1
<1>3. /\ From(b, k) \in Seq(Nat)
      /\ Len(From(b, k)) = IF k + 1 <= Len(b) THEN Len(b) - (k + 1) + 1 ELSE 0
      /\ \A i \in 1 .. Len(b) - (k + 1) + 1 : From(b, k)[i] = b[k + 1 + i - 1]
  BY <1>2, SubSeqProperties DEF From
<1>4. \A n \in Nat : k \in 0 .. n => (IF k + 1 <= n THEN n - (k + 1) + 1 ELSE 0) = n - k /\ n - (k + 1) + 1 = n - k
  OBVIOUS
<1>5. \A i \in Int : k + 1 + i - 1 = k + i
  OBVIOUS
<1> QED BY <1>1, <1>3, <1>4, <1>5

LEMMA TakeProperties ==
  ASSUME NEW b \in Seq(Nat), NEW k \in 0 .. Len(b)
  PROVE  /\ Take(b, k) \in Seq(Nat) /\ Len(Take(b, k)) = k
         /\ \A i \in 1 .. k : Take(b, k)[i] = b[i]
<1>1. Len(b) \in Nat /\ \A i \in 1 .. Len(b) : b[i] \in Nat
  BY LenProperties, ElementOfSeq
<1>2. 1 \in Int /\ k \in Int /\ \A i \in 1 .. k : b[i] \in Nat
  BY <1>1
<1>3. /\ Take(b, k) \in Seq(Nat)
      /\ Len(Take(b, k)) = IF 1 <= k THEN k - 1 + 1 ELSE 0
      /\ \A i \in 1 .. k - 1 + 1 : Take(b, k)[i] = b[1 + i - 1]
  BY <1>2, SubSeqProperties DEF Take
<1>4. (IF 1 <= k THEN k - 1 + 1 ELSE 0) = k /\ k - 1 + 1 = k
  BY <1>1
<1>5. \A i \in Int : 1 + i - 1 = i
  OBVIOUS
<1> QED BY <1>3, <1>4, <1>5

(* Two sequences of bytes are the same *)
LEMMA SameBytes ==
  ASSUME NEW s \in Seq(Nat), NEW t \in Seq(Nat), Len(s) = Len(t), \A i \in 1 .. Len(s) : s[i] = t[i]
  PROVE  s = t
BY SeqEqual

LEMMA FromZero == ASSUME NEW b \in Seq(Nat) PROVE From(b, 0) = b
<1>1. Len(b) \in Nat /\ 0 \in 0 .. Len(b)
  BY LenProperties
<1>2. From(b, 0) \in Seq(Nat) /\ Len(From(b, 0)) = Len(b) - 0 /\ \A i \in 1 .. Len(b) - 0 : From(b, 0)[i] = b[0 + i]
  BY <1>1, FromProperties
<1>3. Len(b) - 0 = Len(b) /\ \A i \in 1 .. Len(b) : 0 + i = i
  BY <1>1
<1> QED BY <1>2, <1>3, SameBytes

LEMMA FromFrom ==
  ASSUME NEW b \in Seq(Nat), NEW k \in 0 .. Len(b), NEW j \in 0 .. Len(b) - k
  PROVE  /\ k + j \in 0 .. Len(b) /\ From(From(b, k), j) = From(b, k + j)
<1>0. Len(b) \in Nat
  BY LenProperties
<1>1. k + j \in 0 .. Len(b) /\ Len(b) - (k + j) = (Len(b) - k) - j
  BY <1>0
<1>2. /\ From(b, k) \in Seq(Nat) /\ Len(From(b, k)) = Len(b) - k
      /\ \A i \in 1 .. Len(b) - k : From(b, k)[i] = b[k + i]
  BY FromProperties
<1>3. /\ From(From(b, k), j) \in Seq(Nat) /\ Len(From(From(b, k), j)) = (Len(b) - k) - j
      /\ \A i \in 1 .. (Len(b) - k) - j : From(From(b, k), j)[i] = From(b, k)[j + i]
  <2>1. j \in 0 .. Len(From(b, k))
    BY <1>2
  <2> QED BY <1>2, <2>1, FromProperties
<1>4. /\ From(b, k + j) \in Seq(Nat) /\ Len(From(b, k + j)) = Len(b) - (k + j)
      /\ \A i \in 1 .. Len(b) - (k + j) : From(b, k + j)[i] = b[(k + j) + i]
  BY <1>1, FromProperties
<1>5. ASSUME NEW i \in 1 .. (Len(b) - k) - j
      PROVE  From(From(b, k), j)[i] = From(b, k + j)[i]
  <2>1. j + i \in 1 .. Len(b) - k /\ k + (j + i) = (k + j) + i
    BY <1>0
  <2> QED BY <1>1, <1>2, <1>3, <1>4, <2>1
<1> QED BY <1>1, <1>3, <1>4, <1>5, SameBytes

LEMMA TakeAndFrom ==
  ASSUME NEW b \in Seq(Nat), NEW k \in 0 .. Len(b)
  PROVE  Take(b, k) \o From(b, k) = b
<1>0. Len(b) \in Nat
  BY LenProperties
<1>1. /\ Take(b, k) \in Seq(Nat) /\ Len(Take(b, k)) = k /\ From(b, k) \in Seq(Nat) /\ Len(From(b, k)) = Len(b) - k
      /\ \A i \in 1 .. k : Take(b, k)[i] = b[i]
      /\ \A i \in 1 .. Len(b) - k : From(b, k)[i] = b[k + i]
  BY FromProperties, TakeProperties
<1> DEFINE t == Take(b, k) \o From(b, k)
<1>2. /\ t \in Seq(Nat) /\ Len(t) = Len(Take(b, k)) + Len(From(b, k))
      /\ \A i \in 1 .. Len(Take(b, k)) + Len(From(b, k)) :
           t[i] = IF i <= Len(Take(b, k)) THEN Take(b, k)[i] ELSE From(b, k)[i - Len(Take(b, k))]
  BY <1>1, ConcatProperties
<1> HIDE DEF t
<1>3. k + (Len(b) - k) = Len(b)
  BY <1>0
<1>4. /\ Len(t) = Len(b)
      /\ \A i \in 1 .. Len(b) : t[i] = IF i <= k THEN Take(b, k)[i] ELSE From(b, k)[i - k]
  BY <1>1, <1>2, <1>3
<1>5. ASSUME NEW i \in 1 .. Len(b) PROVE t[i] = b[i]
  <2>1. CASE i <= k
    <3>1. i \in 1 .. k
      BY <1>0, <2>1
    <3>2. t[i] = Take(b, k)[i]
      BY <1>4, <2>1
    <3> QED BY <1>1, <3>1, <3>2
  <2>2. CASE ~(i <= k)
    <3>1. i - k \in 1 .. Len(b) - k /\ k + (i - k) = i
      BY <1>0, <2>2
    <3> QED BY <1>1, <1>4, <2>2, <3>1
  <2> QED BY <2>1, <2>2
<1>6. t = b
  BY <1>2, <1>4, <1>5, SameBytes
<1> QED BY <1>6 DEF t

(* Bytes that follow move with the end *)
LEMMA FromConcat ==
  ASSUME NEW s \in Seq(Nat), NEW c \in Seq(Nat), NEW k \in 0 .. Len(s)
  PROVE  From(s \o c, k) = From(s, k) \o c
<1> DEFINE u == s \o c
           v == From(s, k) \o c
<1>1. /\ u \in Seq(Nat) /\ Len(u) = Len(s) + Len(c) /\ Len(s) \in Nat /\ Len(c) \in Nat
      /\ \A i \in 1 .. Len(s) + Len(c) : u[i] = IF i <= Len(s) THEN s[i] ELSE c[i - Len(s)]
  BY ConcatProperties, LenProperties
<1>2. From(s, k) \in Seq(Nat) /\ Len(From(s, k)) = Len(s) - k /\ \A i \in 1 .. Len(s) - k : From(s, k)[i] = s[k + i]
  BY FromProperties
<1>3. /\ v \in Seq(Nat) /\ Len(v) = (Len(s) - k) + Len(c)
      /\ \A i \in 1 .. (Len(s) - k) + Len(c) : v[i] = IF i <= Len(s) - k THEN From(s, k)[i] ELSE c[i - (Len(s) - k)]
  <2> DEFINE r == From(s, k)
  <2>1. r \in Seq(Nat) /\ Len(r) = Len(s) - k
    BY <1>2
  <2> HIDE DEF r
  <2>2. /\ r \o c \in Seq(Nat) /\ Len(r \o c) = Len(r) + Len(c)
        /\ \A i \in 1 .. Len(r) + Len(c) : (r \o c)[i] = IF i <= Len(r) THEN r[i] ELSE c[i - Len(r)]
    BY <2>1, ConcatProperties
  <2> QED BY <2>1, <2>2 DEF r
<1> HIDE DEF u, v
<1>4. k \in 0 .. Len(u) /\ Len(u) - k = (Len(s) - k) + Len(c)
  BY <1>1
<1>5. From(u, k) \in Seq(Nat) /\ Len(From(u, k)) = Len(u) - k /\ \A i \in 1 .. Len(u) - k : From(u, k)[i] = u[k + i]
  BY <1>1, <1>4, FromProperties
<1>6. ASSUME NEW i \in 1 .. (Len(s) - k) + Len(c) PROVE From(u, k)[i] = v[i]
  <2>1. k + i \in 1 .. Len(s) + Len(c) /\ From(u, k)[i] = u[k + i]
    <3>1. Len(s) \in Nat /\ Len(c) \in Nat
      BY <1>1
    <3>2. k + i \in 1 .. Len(s) + Len(c)
      BY <3>1
    <3>3. i \in 1 .. Len(u) - k
      BY <1>4
    <3> QED BY <1>5, <3>2, <3>3
  <2>2. CASE i <= Len(s) - k
    <3>1. k + i <= Len(s) /\ i \in 1 .. Len(s) - k
      BY <1>1, <2>2
    <3> QED BY <1>1, <1>2, <1>3, <2>1, <2>2, <3>1
  <2>3. CASE ~(i <= Len(s) - k)
    <3>1. ~(k + i <= Len(s)) /\ (k + i) - Len(s) = i - (Len(s) - k)
      BY <1>1, <2>3
    <3> QED BY <1>1, <1>3, <2>1, <2>3, <3>1
  <2> QED BY <2>2, <2>3
<1>7. From(u, k) = v
  BY <1>3, <1>4, <1>5, <1>6, SameBytes
<1> QED BY <1>7 DEF u, v

LEMMA TakeConcat ==
  ASSUME NEW s \in Seq(Nat), NEW c \in Seq(Nat), NEW k \in 0 .. Len(s)
  PROVE  Take(s \o c, k) = Take(s, k)
<1> DEFINE u == s \o c
<1>1. /\ u \in Seq(Nat) /\ Len(u) = Len(s) + Len(c) /\ Len(s) \in Nat /\ Len(c) \in Nat
      /\ \A i \in 1 .. Len(s) + Len(c) : u[i] = IF i <= Len(s) THEN s[i] ELSE c[i - Len(s)]
  BY ConcatProperties, LenProperties
<1> HIDE DEF u
<1>2. k \in 0 .. Len(u) /\ \A i \in 1 .. k : i \in 1 .. Len(s) + Len(c) /\ i <= Len(s)
  BY <1>1
<1>3. /\ Take(s, k) \in Seq(Nat) /\ Len(Take(s, k)) = k /\ \A i \in 1 .. k : Take(s, k)[i] = s[i]
      /\ Take(u, k) \in Seq(Nat) /\ Len(Take(u, k)) = k /\ \A i \in 1 .. k : Take(u, k)[i] = u[i]
  BY <1>1, <1>2, TakeProperties
<1>4. \A i \in 1 .. k : Take(u, k)[i] = Take(s, k)[i]
  BY <1>1, <1>2, <1>3
<1>5. Take(u, k) = Take(s, k)
  BY <1>3, <1>4, SameBytes
<1> QED BY <1>5 DEF u

LEMMA BytesAssociate ==
  ASSUME NEW x \in Seq(Nat), NEW y \in Seq(Nat), NEW z \in Seq(Nat)
  PROVE  (x \o y) \o z = x \o (y \o z)
<1>1. ASSUME NEW S, x \in Seq(S), y \in Seq(S), z \in Seq(S)
      PROVE  (x \o y) \o z = x \o (y \o z)
  BY <1>1, ConcatAssociative
<1> QED BY <1>1

(* What stands behind a beginning *)
LEMMA FromBehind ==
  ASSUME NEW z \in Seq(Nat), NEW x \in Seq(Nat)
  PROVE  From(z \o x, Len(z)) = x
<1>1. Len(z) \in Nat /\ Len(z) \in 0 .. Len(z) /\ Len(z) - Len(z) = 0
  BY LenProperties
<1>2. From(z \o x, Len(z)) = From(z, Len(z)) \o x
  BY <1>1, FromConcat
<1>3. From(z, Len(z)) \in Seq(Nat) /\ Len(From(z, Len(z))) = 0
  BY <1>1, FromProperties
<1>4. From(z, Len(z)) = <<>>
  BY <1>3, EmptySeq
<1>5. <<>> \o x = x
  BY ConcatEmptySeq
<1> QED BY <1>2, <1>4, <1>5

LEMMA TakeBefore ==
  ASSUME NEW z \in Seq(Nat), NEW x \in Seq(Nat)
  PROVE  Take(z \o x, Len(z)) = z
<1>1. Len(z) \in Nat /\ Len(z) \in 0 .. Len(z)
  BY LenProperties
<1>2. Take(z \o x, Len(z)) = Take(z, Len(z))
  BY <1>1, TakeConcat
<1>3. Take(z, Len(z)) = z
  BY SubSeqFull DEF Take
<1> QED BY <1>2, <1>3

-----------------------------------------------------------------------------
(* Where a magic word is *)

Word(b, k) == b[k + 1] = 91 /\ b[k + 2] = 92

LEMMA MagicIn ==
  ASSUME NEW b \in Seq(Nat), NEW k
  PROVE  k \in MagicAt(b) <=> k \in 0 .. Len(b) - 2 /\ Word(b, k)
<1>1. Len(Magic) = 2 /\ Magic[1] = 91 /\ Magic[2] = 92
  BY DEF Magic
<1>2. 1 .. 2 = {1, 2}
  OBVIOUS
<1>3. k \in MagicAt(b) <=> k \in 0 .. Len(b) - 2 /\ \A j \in {1, 2} : b[k + j] = Magic[j]
  BY <1>1, <1>2 DEF MagicAt
<1> QED BY <1>1, <1>3 DEF Word

LEMMA MagicOffsets ==
  ASSUME NEW b \in Seq(Nat)
  PROVE  MagicAt(b) \subseteq 0 .. Len(b) - 2 /\ MagicAt(b) \subseteq Nat
BY MagicIn

(* What is behind the first d bytes *)
LEMMA MagicBehind ==
  ASSUME NEW b \in Seq(Nat), NEW d \in 0 .. Len(b), NEW k \in Int
  PROVE  k \in MagicAt(From(b, d)) <=> k >= 0 /\ d + k \in MagicAt(b)
<1>1. /\ From(b, d) \in Seq(Nat) /\ Len(From(b, d)) = Len(b) - d /\ Len(b) \in Nat
      /\ \A i \in 1 .. Len(b) - d : From(b, d)[i] = b[d + i]
  BY FromProperties, LenProperties
<1>2. k \in 0 .. (Len(b) - d) - 2 <=> k >= 0 /\ d + k \in 0 .. Len(b) - 2
  BY <1>1
<1>3. ASSUME k \in 0 .. (Len(b) - d) - 2, NEW i \in {1, 2}
      PROVE  From(b, d)[k + i] = b[(d + k) + i]
  <2>1. k + i \in 1 .. Len(b) - d /\ d + (k + i) = (d + k) + i
    BY <1>1, <1>3
  <2> QED BY <1>1, <2>1
<1>4. k \in MagicAt(From(b, d)) <=> k \in 0 .. (Len(b) - d) - 2 /\ Word(From(b, d), k)
  BY <1>1, MagicIn
<1>5. d + k \in MagicAt(b) <=> d + k \in 0 .. Len(b) - 2 /\ Word(b, d + k)
  BY MagicIn
<1> QED BY <1>2, <1>3, <1>4, <1>5 DEF Word

(* What comes before bytes that follow *)
LEMMA MagicBefore ==
  ASSUME NEW s \in Seq(Nat), NEW c \in Seq(Nat), NEW k \in Int
  PROVE  k \in MagicAt(s) <=> k \in MagicAt(s \o c) /\ k <= Len(s) - 2
<1> DEFINE u == s \o c
<1>1. /\ u \in Seq(Nat) /\ Len(u) = Len(s) + Len(c) /\ Len(s) \in Nat /\ Len(c) \in Nat
      /\ \A i \in 1 .. Len(s) + Len(c) : u[i] = IF i <= Len(s) THEN s[i] ELSE c[i - Len(s)]
  BY ConcatProperties, LenProperties
<1> HIDE DEF u
<1>2. k \in 0 .. Len(s) - 2 <=> k \in 0 .. Len(u) - 2 /\ k <= Len(s) - 2
  BY <1>1
<1>3. ASSUME k \in 0 .. Len(s) - 2, NEW i \in {1, 2}
      PROVE  u[k + i] = s[k + i]
  <2>1. k + i \in 1 .. Len(s) + Len(c) /\ k + i <= Len(s)
    BY <1>1, <1>3
  <2> QED BY <1>1, <2>1
<1>4. k \in MagicAt(s) <=> k \in 0 .. Len(s) - 2 /\ Word(s, k)
  BY <1>1, MagicIn
<1>5. k \in MagicAt(u) <=> k \in 0 .. Len(u) - 2 /\ Word(u, k)
  BY <1>1, MagicIn
<1> QED BY <1>2, <1>3, <1>4, <1>5 DEF u, Word

(* The first magic word, when there is one *)
LEMMA FirstFound ==
  ASSUME NEW r \in Seq(Nat)
  PROVE  /\ MagicAt(r) = {} => Find(r) = -1
         /\ MagicAt(r) # {} => /\ Find(r) \in MagicAt(r) /\ Find(r) \in 0 .. Len(r) - 2 /\ Find(r) # -1
                               /\ \A j \in MagicAt(r) : Find(r) =< j
<1>1. MagicAt(r) = {} => Find(r) = -1
  BY DEF Find
<1>2. ASSUME MagicAt(r) # {}
      PROVE  /\ Find(r) \in MagicAt(r) /\ Find(r) \in 0 .. Len(r) - 2 /\ Find(r) # -1
             /\ \A j \in MagicAt(r) : Find(r) =< j
  <2>1. PICK x \in MagicAt(r) : \A j \in MagicAt(r) : x =< j
    BY <1>2, NatMin, MagicOffsets
  <2>2. Find(r) \in MagicAt(r) /\ \A j \in MagicAt(r) : Find(r) =< j
    BY <1>2, <2>1 DEF Find
  <2> QED BY <2>2, MagicOffsets
<1> QED BY <1>1, <1>2

(* The first of them is what is at the least offset *)
LEMMA FirstIs ==
  ASSUME NEW r \in Seq(Nat), NEW f \in MagicAt(r), \A j \in MagicAt(r) : f =< j
  PROVE  Find(r) = f
<1>1. Find(r) \in MagicAt(r) /\ \A j \in MagicAt(r) : Find(r) =< j
  BY FirstFound
<1>2. f =< Find(r) /\ Find(r) =< f /\ f \in Nat /\ Find(r) \in Nat
  BY <1>1, MagicOffsets
<1> QED BY <1>2

LEMMA SubSeqOfBytes ==
  ASSUME NEW b, NEW m \in Int, NEW n \in Int, \A k \in m .. n : b[k] \in Nat
  PROVE  /\ SubSeq(b, m, n) \in Seq(Nat) /\ Len(SubSeq(b, m, n)) = IF m <= n THEN n - m + 1 ELSE 0
         /\ \A k \in 1 .. n - m + 1 : SubSeq(b, m, n)[k] = b[m + k - 1]
BY SubSeqProperties

(* A slice is the beginning of what stands behind its start *)
LEMMA SliceIsTake ==
  ASSUME NEW b \in Seq(Nat), NEW i \in Nat, NEW j \in Nat
  PROVE  /\ Slice(b, i, j) \in Seq(Nat)
         /\ i =< j /\ j =< Len(b) => Slice(b, i, j) = Take(From(b, i), j - i) /\ Len(Slice(b, i, j)) = j - i
<1> DEFINE e == IF j < Len(b) THEN j ELSE Len(b)
           a == i + 1
           s == SubSeq(b, a, e)
<1>0. Len(b) \in Nat /\ e \in Nat /\ e <= Len(b) /\ a \in Nat /\ a >= 1 /\ a \in Int /\ e \in Int
  BY LenProperties
<1>1. Slice(b, i, j) = s
  BY DEF Slice
<1> HIDE DEF e, a
<1>2. \A k \in a .. e : b[k] \in Nat
  <2>1. \A k \in a .. e : k \in 1 .. Len(b)
    BY <1>0
  <2> QED BY <2>1, ElementOfSeq
<1>3. /\ s \in Seq(Nat) /\ Len(s) = IF a <= e THEN e - a + 1 ELSE 0
      /\ \A k \in 1 .. e - a + 1 : s[k] = b[a + k - 1]
  BY <1>0, <1>2, SubSeqOfBytes
<1> HIDE DEF s
<1>4. ASSUME i =< j, j =< Len(b)
      PROVE  s = Take(From(b, i), j - i) /\ Len(s) = j - i
  <2>1. e = j /\ i \in 0 .. Len(b) /\ j - i \in 0 .. Len(b) - i
    BY <1>0, <1>4 DEF e
  <2>2. Len(s) = j - i /\ \A k \in 1 .. j - i : s[k] = b[i + k]
    <3>1. \A k \in 1 .. j - i : k \in 1 .. e - a + 1 /\ a + k - 1 = i + k
      BY <1>4, <2>1 DEF a
    <3>2. Len(s) = j - i
      BY <1>3, <1>4, <2>1 DEF a
    <3> QED BY <1>3, <3>1, <3>2
  <2>3. /\ From(b, i) \in Seq(Nat) /\ Len(From(b, i)) = Len(b) - i
        /\ \A k \in 1 .. Len(b) - i : From(b, i)[k] = b[i + k]
    BY <2>1, FromProperties
  <2>4. PICK u : u = From(b, i)
    OBVIOUS
  <2>5. Take(u, j - i) \in Seq(Nat) /\ Len(Take(u, j - i)) = j - i /\ \A k \in 1 .. j - i : Take(u, j - i)[k] = u[k]
    BY <2>1, <2>3, <2>4, TakeProperties
  <2>6. \A k \in 1 .. j - i : Take(u, j - i)[k] = s[k]
    <3>1. \A k \in 1 .. j - i : k \in 1 .. Len(b) - i
      BY <1>0, <2>1
    <3> QED BY <2>2, <2>3, <2>4, <2>5, <3>1
  <2>7. s = Take(u, j - i)
    BY <1>3, <2>2, <2>5, <2>6, SameBytes
  <2> QED BY <2>2, <2>4, <2>7
<1> QED BY <1>1, <1>3, <1>4

(* A slice of bytes that others follow, and of bytes that others precede *)
LEMMA SliceBefore ==
  ASSUME NEW b \in Seq(Nat), NEW y \in Seq(Nat), NEW i \in Nat, NEW j \in Nat, i =< j, j =< Len(b)
  PROVE  Slice(b \o y, i, j) = Slice(b, i, j)
<1>1. b \o y \in Seq(Nat) /\ Len(b \o y) = Len(b) + Len(y) /\ Len(b) \in Nat /\ Len(y) \in Nat
  BY ConcatProperties, LenProperties
<1>2. j =< Len(b \o y) /\ i \in 0 .. Len(b) /\ j - i \in 0 .. Len(b) - i
  BY <1>1
<1>3. Slice(b \o y, i, j) = Take(From(b \o y, i), j - i) /\ Slice(b, i, j) = Take(From(b, i), j - i)
  BY <1>1, <1>2, SliceIsTake
<1>4. From(b \o y, i) = From(b, i) \o y
  BY <1>2, FromConcat
<1>5. From(b, i) \in Seq(Nat) /\ Len(From(b, i)) = Len(b) - i
  BY <1>2, FromProperties
<1>6. Take(From(b, i) \o y, j - i) = Take(From(b, i), j - i)
  BY <1>2, <1>5, TakeConcat
<1> QED BY <1>3, <1>4, <1>6

LEMMA SliceBehind ==
  ASSUME NEW b \in Seq(Nat), NEW d \in 0 .. Len(b), NEW i \in Nat, NEW j \in Nat, i =< j, j =< Len(b) - d
  PROVE  Slice(From(b, d), i, j) = Slice(b, d + i, d + j)
<1>1. From(b, d) \in Seq(Nat) /\ Len(From(b, d)) = Len(b) - d /\ Len(b) \in Nat
  BY FromProperties, LenProperties
<1>2. i \in 0 .. Len(b) - d /\ d + i \in Nat /\ d + j \in Nat /\ d + i =< d + j /\ d + j =< Len(b) /\ (d + j) - (d + i) = j - i
  BY <1>1
<1>3. Slice(From(b, d), i, j) = Take(From(From(b, d), i), j - i)
  BY <1>1, SliceIsTake
<1>4. Slice(b, d + i, d + j) = Take(From(b, d + i), j - i)
  BY <1>2, SliceIsTake
<1>5. From(From(b, d), i) = From(b, d + i)
  BY <1>2, FromFrom
<1> QED BY <1>3, <1>4, <1>5

-----------------------------------------------------------------------------
(* A step taken again and again from a start *)
Iteration(g, a, s, n) == g = [i \in 0 .. n |-> IF i = 0 THEN a ELSE s[g[i - 1]]]

LEMMA Iterates ==
  ASSUME NEW W, NEW a \in W, NEW s \in [W -> W], NEW n \in Nat
  PROVE  \E g : Iteration(g, a, s, n)
<1> DEFINE T == {m \in Nat : \E g : Iteration(g, a, s, m)}
<1>1. 0 \in T
  <2> DEFINE g == [i \in 0 .. 0 |-> a]
  <2>1. \A i \in 0 .. 0 : i = 0
    OBVIOUS
  <2>2. g = [i \in 0 .. 0 |-> IF i = 0 THEN a ELSE s[g[i - 1]]]
    BY <2>1
  <2> HIDE DEF g
  <2> QED BY <2>2 DEF Iteration
<1>2. ASSUME NEW m \in Nat, m \in T PROVE m + 1 \in T
  <2>1. PICK g : Iteration(g, a, s, m)
    BY <1>2
  <2>2. g = [i \in 0 .. m |-> IF i = 0 THEN a ELSE s[g[i - 1]]] /\ \A i \in 0 .. m : g[i] = IF i = 0 THEN a ELSE s[g[i - 1]]
    <3>1. g = [i \in 0 .. m |-> IF i = 0 THEN a ELSE s[g[i - 1]]]
      BY <2>1 DEF Iteration
    <3> QED BY <3>1
  <2> DEFINE h == [i \in 0 .. m + 1 |-> IF i = m + 1 THEN s[g[m]] ELSE g[i]]
  <2>3. m + 1 \in Nat /\ m + 1 # 0 /\ (m + 1) - 1 = m /\ m \in 0 .. m + 1 /\ m # m + 1
    OBVIOUS
  <2>4. ASSUME NEW i \in 0 .. m + 1 PROVE h[i] = IF i = 0 THEN a ELSE s[h[i - 1]]
    <3>1. CASE i = m + 1
      <4>1. h[i] = s[g[m]] /\ h[m] = g[m]
        BY <2>3, <3>1
      <4> HIDE DEF h
      <4> QED BY <2>3, <3>1, <4>1
    <3>2. CASE i # m + 1
      <4>1. i \in 0 .. m /\ h[i] = g[i]
        BY <3>2
      <4>2. i # 0 => i - 1 \in 0 .. m + 1 /\ i - 1 # m + 1
        BY <4>1
      <4>3. i # 0 => h[i - 1] = g[i - 1]
        BY <4>2
      <4> HIDE DEF h
      <4> QED BY <2>2, <4>1, <4>3
    <3> QED BY <3>1, <3>2
  <2>5. h = [i \in 0 .. m + 1 |-> h[i]]
    OBVIOUS
  <2> HIDE DEF h
  <2>6. h = [i \in 0 .. m + 1 |-> IF i = 0 THEN a ELSE s[h[i - 1]]]
    BY <2>4, <2>5
  <2> QED BY <2>3, <2>6 DEF Iteration
<1> HIDE DEF T
<1>3. n \in T
  BY <1>1, <1>2, SetInduction
<1> QED BY <1>3 DEF T

(* Its values, and a set it does not leave *)
IsCourse(g, W, a, s, n) ==
  /\ g[0] = a /\ \A i \in 0 .. n : g[i] \in W
  /\ \A i \in 0 .. n : i # 0 => g[i] = s[g[i - 1]]

LEMMA Iterated ==
  ASSUME NEW W, NEW a \in W, NEW s \in [W -> W], NEW n \in Nat
  PROVE  IsCourse(CHOOSE g : Iteration(g, a, s, n), W, a, s, n)
<1> DEFINE g == CHOOSE g : Iteration(g, a, s, n)
<1>1. Iteration(g, a, s, n)
  BY Iterates
<1> HIDE DEF g
<1>2. \A i \in 0 .. n : g[i] = IF i = 0 THEN a ELSE s[g[i - 1]]
  <2>1. g = [i \in 0 .. n |-> IF i = 0 THEN a ELSE s[g[i - 1]]]
    BY <1>1 DEF Iteration
  <2> QED BY <2>1
<1> DEFINE T == {m \in Nat : m =< n => g[m] \in W}
<1>3. 0 \in T
  <2>1. 0 \in 0 .. n
    OBVIOUS
  <2> QED BY <1>2, <2>1
<1>4. ASSUME NEW m \in Nat, m \in T PROVE m + 1 \in T
  <2> SUFFICES ASSUME m + 1 =< n PROVE g[m + 1] \in W
    OBVIOUS
  <2>1. m + 1 \in 0 .. n /\ m + 1 # 0 /\ (m + 1) - 1 = m /\ m =< n
    OBVIOUS
  <2>2. g[m] \in W
    BY <1>4, <2>1
  <2>3. g[m + 1] = s[g[m]]
    BY <1>2, <2>1
  <2> QED BY <2>2, <2>3
<1> HIDE DEF T
<1>5. Nat \subseteq T
  BY <1>3, <1>4, SetInduction
<1>6. \A i \in 0 .. n : g[i] \in W
  <2>1. ASSUME NEW i \in 0 .. n PROVE g[i] \in W
    <3>1. i \in Nat /\ i =< n
      OBVIOUS
    <3> QED BY <1>5, <3>1 DEF T
  <2> QED BY <2>1
<1>7. g[0] = a
  <2>1. 0 \in 0 .. n
    OBVIOUS
  <2> QED BY <1>2, <2>1
<1>8. IsCourse(g, W, a, s, n)
  BY <1>2, <1>6, <1>7 DEF IsCourse
<1> QED BY <1>8 DEF g

-----------------------------------------------------------------------------
(* What extract_tlvs emits *)

TlvResult == [plots : Plots, raised : BOOLEAN, stay : BOOLEAN]

LEMMA OnePlot ==
  ASSUME NEW t \in Nat, NEW p \in Bytes
  PROVE  Plot(t, p) \in TlvResult /\ Nothing \in TlvResult /\ Raise \in TlvResult
         /\ [Nothing EXCEPT !.stay = TRUE] \in TlvResult
<1>1. <<>> \in Plots
  BY EmptySeq DEF Plots
<1>2. Nothing \in TlvResult
  BY <1>1 DEF Nothing, TlvResult
<1>3. <<[type |-> t, data |-> p]>> \in Plots
  <2>1. [type |-> t, data |-> p] \in [type : Nat, data : Bytes]
    OBVIOUS
  <2> QED BY <2>1 DEF Plots
<1>4. Plot(t, p) \in TlvResult
  BY <1>2, <1>3 DEF Plot, TlvResult
<1> QED BY <1>2, <1>4 DEF Raise, TlvResult

LEMMA SamplesType ==
  ASSUME NEW t \in Nat, NEW p \in Bytes
  PROVE  Samples(t, p) \in TlvResult
<1>1. Samples(t, p) = Raise \/ Samples(t, p) = Plot(t, p)
  BY DEF Samples
<1> QED BY <1>1, OnePlot

LEMMA PaddedType == ASSUME NEW p \in Bytes PROVE Padded(p) \in Bytes
<1>1. Len(p) \in Nat /\ \A i \in 1 .. Len(p) : p[i] \in Nat
  BY LenProperties, ElementOfSeq DEF Bytes
<1>2. ASSUME NEW i \in 1 .. 4 PROVE (IF i <= Len(p) THEN p[i] ELSE 0) \in Nat
  <2>1. CASE i <= Len(p)
    <3>1. i \in 1 .. Len(p)
      BY <1>1, <2>1
    <3> QED BY <1>1, <2>1, <3>1
  <2>2. CASE ~(i <= Len(p))
    BY <2>2
  <2> QED BY <2>1, <2>2
<1>3. Padded(p) \in [1 .. 4 -> Nat]
  BY <1>2 DEF Padded, HeatmapLen
<1> PICK n \in Nat : n = 4
  OBVIOUS
<1>4. Padded(p) \in UNION {[1 .. m -> Nat] : m \in Nat}
  <2>1. Padded(p) \in [1 .. n -> Nat]
    BY <1>3
  <2> QED BY <2>1
<1>5. Seq(Nat) = UNION {[1 .. m -> Nat] : m \in Nat}
  BY SeqDef, Zenon
<1> QED BY <1>4, <1>5 DEF Bytes

LEMMA TlvType ==
  ASSUME NEW c, NEW t \in Nat, NEW p \in Bytes
  PROVE  Tlv(c, t, p) \in TlvResult
<1>1. Slice(p, 0, HeatmapLen) \in Bytes
  BY SliceIsTake DEF Bytes, HeatmapLen
<1>2. HeatmapClient(p) \in TlvResult
  <2>1. HeatmapClient(p) = Raise \/ HeatmapClient(p) = Plot(5, Padded(Slice(p, 0, HeatmapLen)))
    BY DEF HeatmapClient
  <2> QED BY <1>1, <2>1, OnePlot, PaddedType
<1>3. HeatmapClaude(p) \in TlvResult
  <2>1. HeatmapClaude(p) \in {Raise, Plot(5, p), Nothing, [Nothing EXCEPT !.stay = TRUE]}
    BY DEF HeatmapClaude
  <2> QED BY <2>1, OnePlot
<1>4. Heatmap(c, p) \in TlvResult
  BY <1>2, <1>3 DEF Heatmap
<1>5. Samples(2, p) \in TlvResult
  BY SamplesType
<1> QED BY <1>4, <1>5, OnePlot DEF Tlv

LEMMA AlignedType == ASSUME NEW c, NEW o \in Nat PROVE Aligned(c, o) \in Nat
<1>1. o % 2 \in 0 .. 1
  OBVIOUS
<1>2. 2 - (o % 2) \in Nat
  BY <1>1
<1>3. o + (2 - (o % 2)) \in Nat
  BY <1>2
<1> QED BY <1>3 DEF Aligned, Align

LEMMA PlotsJoin ==
  ASSUME NEW x \in Plots, NEW y \in Plots
  PROVE  x \o y \in Plots
BY ConcatProperties DEF Plots

LEMMA PlotsAssociate ==
  ASSUME NEW x \in Plots, NEW y \in Plots, NEW z \in Plots
  PROVE  (x \o y) \o z = x \o (y \o z) /\ <<>> \o x = x /\ x \o <<>> = x /\ <<>> \in Plots
<1>1. ASSUME NEW S, x \in Seq(S), y \in Seq(S), z \in Seq(S)
      PROVE  (x \o y) \o z = x \o (y \o z) /\ <<>> \o x = x /\ x \o <<>> = x /\ <<>> \in Seq(S)
  BY <1>1, ConcatAssociative, ConcatEmptySeq, EmptySeq
<1> QED BY <1>1 DEF Plots

LEMMA NextTlvType ==
  ASSUME NEW c, NEW f \in Bytes
  PROVE  NextTlv(c, f) \in [TlvWalk -> TlvWalk]
<1> DEFINE after(w) == LET end == w.at + TlvHeaderLen + f[w.at + 2]
                           one == Tlv(c, f[w.at + 1], Slice(f, w.at + TlvHeaderLen, end))
                       IN [at     |-> IF one.stay THEN w.at ELSE Aligned(c, end),
                           plots  |-> w.plots \o one.plots,
                           raised |-> one.raised]
           next(w) == IF w.raised \/ w.at + TlvHeaderLen > Len(f) THEN w ELSE after(w)
<1>1. NextTlv(c, f) = [w \in TlvWalk |-> next(w)]
  BY DEF NextTlv
<1>2. ASSUME NEW w \in TlvWalk, ~(w.at + TlvHeaderLen > Len(f)) PROVE after(w) \in TlvWalk
  <2>1. w.at \in Nat /\ w.plots \in Plots /\ Len(f) \in Nat
    BY LenProperties DEF TlvWalk, Bytes
  <2>2. w.at + 1 \in 1 .. Len(f) /\ w.at + 2 \in 1 .. Len(f) /\ w.at + TlvHeaderLen \in Nat
    BY <1>2, <2>1 DEF TlvHeaderLen
  <2>3. f[w.at + 1] \in Nat /\ f[w.at + 2] \in Nat
    BY <2>2, ElementOfSeq DEF Bytes
  <2>4. PICK end : end = w.at + TlvHeaderLen + f[w.at + 2]
    OBVIOUS
  <2>5. end \in Nat
    <3>1. ASSUME NEW x \in Nat, NEW y \in Nat PROVE x + y \in Nat
      OBVIOUS
    <3> QED BY <2>2, <2>3, <2>4, <3>1
  <2>6. Slice(f, w.at + TlvHeaderLen, end) \in Bytes
    BY <2>2, <2>5, SliceIsTake DEF Bytes
  <2>7. PICK one \in TlvResult : one = Tlv(c, f[w.at + 1], Slice(f, w.at + TlvHeaderLen, end))
    BY <2>3, <2>6, TlvType
  <2>8. one.plots \in Plots /\ one.raised \in BOOLEAN
    BY DEF TlvResult
  <2>9. w.plots \o one.plots \in Plots
    BY <2>1, <2>8, PlotsJoin
  <2>10. (IF one.stay THEN w.at ELSE Aligned(c, end)) \in Nat
    BY <2>1, <2>5, AlignedType
  <2>11. after(w) = [at |-> IF one.stay THEN w.at ELSE Aligned(c, end), plots |-> w.plots \o one.plots, raised |-> one.raised]
    BY <2>4, <2>7
  <2> HIDE DEF after
  <2> QED BY <2>8, <2>9, <2>10, <2>11 DEF TlvWalk
<1> HIDE DEF after
<1>3. \A w \in TlvWalk : next(w) \in TlvWalk
  BY <1>2
<1> QED BY <1>1, <1>3

TlvStart == [at |-> HeaderLen, plots |-> <<>>, raised |-> FALSE]

(* extract_tlvs, turn by turn *)
LEMMA ExtractIs ==
  ASSUME NEW c, NEW f \in Bytes, ~(Len(f) < HeaderLen)
  PROVE  ExtractTlvs(c)[f] = (CHOOSE g : Iteration(g, TlvStart, NextTlv(c, f), f[4]))[f[4]]
BY DEF ExtractTlvs, TlvStart, Iteration

LEMMA ExtractProperties ==
  ASSUME NEW c, NEW f \in Bytes
  PROVE  /\ ExtractTlvs(c)[f].plots \in Plots /\ ExtractTlvs(c)[f].raised \in BOOLEAN
         /\ Len(f) < MinScan => ExtractTlvs(c)[f].plots = <<>> /\ ExtractTlvs(c)[f].raised = FALSE
<1>1. CASE Len(f) < HeaderLen
  <2>1. ExtractTlvs(c)[f] = Nothing
    BY <1>1 DEF ExtractTlvs
  <2>2. <<>> \in Plots
    BY EmptySeq DEF Plots
  <2> QED BY <2>1, <2>2 DEF Nothing
<1>2. CASE ~(Len(f) < HeaderLen)
  <2> DEFINE n == f[4]
             s == NextTlv(c, f)
             g == CHOOSE g : Iteration(g, TlvStart, s, n)
  <2>0. Len(f) \in Nat /\ 4 \in 1 .. Len(f)
    BY <1>2, LenProperties DEF Bytes, HeaderLen
  <2>1. n \in Nat
    BY <2>0, ElementOfSeq DEF Bytes
  <2>2. s \in [TlvWalk -> TlvWalk]
    BY NextTlvType
  <2>3. TlvStart \in TlvWalk
    BY EmptySeq DEF TlvStart, TlvWalk, HeaderLen, Plots
  <2>4. ExtractTlvs(c)[f] = g[n]
    BY <1>2, ExtractIs
  <2> HIDE DEF n, s
  <2>5. /\ g[0] = TlvStart /\ \A i \in 0 .. n : g[i] \in TlvWalk
        /\ \A i \in 0 .. n : i # 0 => g[i] = s[g[i - 1]]
    <3>1. IsCourse(g, TlvWalk, TlvStart, s, n)
      BY <2>1, <2>2, <2>3, Iterated
    <3> HIDE DEF g
    <3> QED BY <3>1 DEF IsCourse
  <2> HIDE DEF g
  <2>6. n \in 0 .. n
    BY <2>1
  <2>7. g[n] \in TlvWalk
    BY <2>5, <2>6
  <2>8. ASSUME Len(f) < MinScan PROVE g[n] = TlvStart
    <3>1. s[TlvStart] = TlvStart
      <4>1. TlvStart.at + TlvHeaderLen > Len(f)
        BY <2>0, <2>8 DEF TlvStart, TlvHeaderLen, HeaderLen, MinScan
      <4> QED BY <2>3, <4>1 DEF s, NextTlv
    <3> DEFINE T == {m \in Nat : m =< n => g[m] = TlvStart}
    <3>2. 0 \in T
      BY <2>5
    <3>3. ASSUME NEW m \in Nat, m \in T PROVE m + 1 \in T
      <4> SUFFICES ASSUME m + 1 =< n PROVE g[m + 1] = TlvStart
        OBVIOUS
      <4>1. m + 1 \in 0 .. n /\ m + 1 # 0 /\ (m + 1) - 1 = m /\ m =< n
        BY <2>1
      <4>2. g[m] = TlvStart /\ g[m + 1] = s[g[m]]
        BY <2>5, <3>3, <4>1
      <4> QED BY <3>1, <4>2
    <3> HIDE DEF T
    <3>4. n \in T
      BY <2>1, <3>2, <3>3, SetInduction
    <3> QED BY <2>1, <3>4 DEF T
  <2>9. g[n].plots \in Plots /\ g[n].raised \in BOOLEAN
    BY <2>7 DEF TlvWalk
  <2>10. TlvStart.plots = <<>> /\ TlvStart.raised = FALSE
    BY DEF TlvStart
  <2> QED BY <2>4, <2>8, <2>9, <2>10
<1> QED BY <1>1, <1>2

-----------------------------------------------------------------------------
(* parse_buffer *)

Next1(b) == Find(b) + Total(b, Find(b))
One(c, b) == ExtractTlvs(c)[Slice(b, Find(b), Next1(b))]

(* A frame that is there lies in the buffer *)
LEMMA FrameLies ==
  ASSUME NEW c, NEW b \in Bytes, ~Waits(b)
  PROVE  /\ MagicAt(b) # {} /\ Find(b) \in MagicAt(b) /\ Find(b) \in Nat /\ Find(b) =< Len(b)
         /\ Len(b) >= MinScan /\ Len(b) - Find(b) > LengthAt
         /\ Total(b, Find(b)) \in Nat /\ Total(b, Find(b)) =< Len(b) - Find(b)
         /\ Next1(b) \in 0 .. Len(b) /\ Find(b) =< Next1(b)
         /\ Slice(b, Find(b), Next1(b)) \in Bytes /\ Len(Slice(b, Find(b), Next1(b))) = Total(b, Find(b))
         /\ One(c, b).plots \in Plots /\ One(c, b).raised \in BOOLEAN
         /\ Total(b, Find(b)) < MinScan => One(c, b).plots = <<>> /\ One(c, b).raised = FALSE
<1> PICK m : m = Find(b)
  OBVIOUS
<1>0. b \in Seq(Nat) /\ Len(b) \in Nat
  BY LenProperties DEF Bytes
<1>1. ~(Len(b) < MinScan) /\ m # -1 /\ Complete(b, m)
  BY DEF Waits
<1>2. MagicAt(b) # {} /\ m \in MagicAt(b) /\ m \in 0 .. Len(b) - 2
  BY <1>0, <1>1, FirstFound
<1>3. m \in Nat /\ m =< Len(b) /\ Len(b) >= MinScan /\ Len(b) - m > LengthAt
  BY <1>0, <1>1, <1>2 DEF MinScan, HeaderLen, TlvHeaderLen, Complete
<1>4. m + LengthAt + 1 \in 1 .. Len(b)
  BY <1>0, <1>3 DEF LengthAt
<1>5. Total(b, m) \in Nat
  BY <1>0, <1>4, ElementOfSeq DEF Total
<1>6. Total(b, m) =< Len(b) - m
  BY <1>0, <1>1, <1>3, <1>5 DEF Complete
<1> PICK t \in Nat : t = Total(b, m)
  BY <1>5
<1>7. Next1(b) = m + t
  BY DEF Next1
<1>8. m + t \in 0 .. Len(b) /\ m =< m + t /\ m + t \in Nat /\ m + t =< Len(b) /\ (m + t) - m = t
  BY <1>0, <1>3, <1>6
<1>9. Slice(b, m, m + t) \in Bytes /\ Len(Slice(b, m, m + t)) = t
  BY <1>0, <1>3, <1>8, SliceIsTake DEF Bytes
<1>10. One(c, b) = ExtractTlvs(c)[Slice(b, m, m + t)]
  BY <1>7 DEF One
<1>11. One(c, b).plots \in Plots /\ One(c, b).raised \in BOOLEAN /\ (t < MinScan => One(c, b).plots = <<>> /\ One(c, b).raised = FALSE)
  BY <1>9, <1>10, ExtractProperties
<1> QED BY <1>2, <1>3, <1>5, <1>6, <1>7, <1>8, <1>9, <1>11

(* A turn at offset k, from what is left there *)
Turned(c, r, then) ==
  IF Waits(r) THEN Done(Kept(c, r), "ok")
  ELSE IF Total(r, Find(r)) = 0 THEN Done(From(r, Next1(r)), "spin")
  ELSE IF One(c, r).raised THEN [Done(From(r, Next1(r)), "raise") EXCEPT !.plots = One(c, r).plots]
  ELSE [then EXCEPT !.plots = One(c, r).plots \o @]

LEMMA TurnIs ==
  ASSUME NEW c, NEW b, NEW w, NEW k
  PROVE  Turn(c, b, w, k) = Turned(c, From(b, k), w[k + Next1(From(b, k))])
BY DEF Turn, Turned, One, Next1

(* Does a turn at what is left go on? *)
Goes(r) == ~Waits(r) /\ Total(r, Find(r)) # 0

LEMMA GoesOn ==
  ASSUME NEW r \in Bytes, Goes(r)
  PROVE  Next1(r) \in 1 .. Len(r)
<1>1. ~Waits(r) /\ Total(r, Find(r)) # 0
  BY DEF Goes
<1>2. Find(r) \in Nat /\ Total(r, Find(r)) \in Nat /\ Next1(r) \in 0 .. Len(r)
  BY <1>1, FrameLies
<1>3. Next1(r) = Find(r) + Total(r, Find(r))
  BY DEF Next1
<1>4. ASSUME NEW x \in Nat, NEW y \in Nat, y # 0 PROVE x + y >= 1
  BY <1>4
<1>5. Next1(r) >= 1
  BY <1>1, <1>2, <1>3, <1>4
<1> QED BY <1>2, <1>5

LEMMA TurnStops ==
  ASSUME NEW c, NEW r, NEW x, NEW y, Goes(r) => x = y
  PROVE  Turned(c, r, x) = Turned(c, r, y)
<1>1. CASE Goes(r)
  BY <1>1
<1>2. CASE Waits(r)
  BY <1>2 DEF Turned
<1>3. CASE ~Waits(r) /\ Total(r, Find(r)) = 0
  BY <1>3 DEF Turned
<1> QED BY <1>1, <1>2, <1>3 DEF Goes

(* A turn looks at later offsets only *)
LEMMA TurnLooksAhead ==
  ASSUME NEW c, NEW b \in Bytes, NEW k \in 0 .. Len(b), NEW v, NEW w, \A j \in k + 1 .. Len(b) : v[j] = w[j]
  PROVE  Turn(c, b, v, k) = Turn(c, b, w, k)
<1> PICK r : r = From(b, k)
  OBVIOUS
<1>1. r \in Bytes /\ Len(r) = Len(b) - k /\ Len(b) \in Nat
  BY FromProperties, LenProperties DEF Bytes
<1>2. ASSUME Goes(r) PROVE v[k + Next1(r)] = w[k + Next1(r)]
  <2>1. Next1(r) \in 1 .. Len(b) - k
    BY <1>1, <1>2, GoesOn
  <2>2. k + Next1(r) \in k + 1 .. Len(b)
    BY <1>1, <2>1
  <2> QED BY <2>2
<1>3. Turned(c, r, v[k + Next1(r)]) = Turned(c, r, w[k + Next1(r)])
  BY <1>2, TurnStops
<1> QED BY <1>3, TurnIs

(* The loop ends: there is a function that follows it from every offset    *)
Walks(w, c, b) == w = [k \in 0 .. Len(b) |-> Turn(c, b, w, k)]

LEMMA WalkExists ==
  ASSUME NEW c, NEW b \in Bytes
  PROVE  \E w : Walks(w, c, b)
<1> DEFINE n == Len(b)
           Part(w, m) == w = [k \in n - m .. n |-> Turn(c, b, w, k)]
           T == {m \in Nat : m =< n => \E w : Part(w, m)}
<1>0. n \in Nat /\ n = Len(b)
  BY LenProperties DEF Bytes
<1> HIDE DEF n
<1>2. 0 \in T
  <2> DEFINE w == [k \in n .. n |-> Turn(c, b, <<>>, k)]
  <2>1. ASSUME NEW k \in n .. n PROVE Turn(c, b, <<>>, k) = Turn(c, b, w, k)
    <3>1. k \in 0 .. Len(b) /\ k + 1 .. Len(b) = {}
      BY <1>0
    <3> HIDE DEF w
    <3> QED BY <3>1, TurnLooksAhead
  <2>2. w = [k \in n .. n |-> Turn(c, b, w, k)]
    BY <2>1
  <2>3. n - 0 = n
    BY <1>0
  <2> QED BY <2>2, <2>3
<1>3. ASSUME NEW m \in Nat, m \in T PROVE m + 1 \in T
  <2> SUFFICES ASSUME m + 1 =< n PROVE \E w : Part(w, m + 1)
    OBVIOUS
  <2>1. m =< n
    BY <1>0
  <2>2. PICK v : Part(v, m)
    BY <1>3, <2>1
  <2> DEFINE w == [k \in n - (m + 1) .. n |-> Turn(c, b, v, k)]
  <2>3. \A j \in n - m .. n : j \in n - (m + 1) .. n
    BY <1>0
  <2>4. \A j \in n - m .. n : v[j] = Turn(c, b, v, j)
    <3>1. v = [k \in n - m .. n |-> Turn(c, b, v, k)]
      BY <2>2
    <3> QED BY <3>1
  <2>5. \A j \in n - m .. n : v[j] = w[j]
    BY <2>3, <2>4
  <2>6. ASSUME NEW k \in n - (m + 1) .. n PROVE Turn(c, b, v, k) = Turn(c, b, w, k)
    <3>1. k \in 0 .. Len(b) /\ \A j \in k + 1 .. Len(b) : j \in n - m .. n
      BY <1>0
    <3>2. \A j \in k + 1 .. Len(b) : v[j] = w[j]
      BY <2>5, <3>1
    <3> HIDE DEF w
    <3> QED BY <3>1, <3>2, TurnLooksAhead
  <2>7. w = [k \in n - (m + 1) .. n |-> Turn(c, b, w, k)]
    BY <2>6
  <2> QED BY <2>7
<1> HIDE DEF T
<1>4. n \in T
  BY <1>0, <1>2, <1>3, SetInduction
<1>5. \E w : Part(w, n)
  BY <1>0, <1>4 DEF T
<1>6. n - n = 0
  BY <1>0
<1> QED BY <1>5, <1>6 DEF n, Walks

(* Two such functions of sequences of which one is the end of the other    *)
(* are the same, behind what the other has before it.                      *)
LEMMA WalkOfTheRest ==
  ASSUME NEW c, NEW b \in Bytes, NEW d \in 0 .. Len(b), NEW w, Walks(w, c, b), NEW v, Walks(v, c, From(b, d))
  PROVE  v[0] = w[d]
<1> PICK e, n : e = From(b, d) /\ n = Len(b) - d
  OBVIOUS
<1>1. e \in Bytes /\ Len(e) = n /\ Len(b) \in Nat /\ n \in Nat /\ d \in Nat /\ d + n = Len(b)
  BY FromProperties, LenProperties DEF Bytes
<1>2. \A k \in 0 .. n : v[k] = Turn(c, e, v, k)
  <2>1. v = [k \in 0 .. Len(e) |-> Turn(c, e, v, k)]
    BY DEF Walks
  <2> QED BY <1>1, <2>1
<1>3. \A k \in 0 .. Len(b) : w[k] = Turn(c, b, w, k)
  <2>1. w = [k \in 0 .. Len(b) |-> Turn(c, b, w, k)]
    BY DEF Walks
  <2> QED BY <2>1
<1>4. ASSUME NEW k \in 0 .. n PROVE From(e, k) = From(b, d + k) /\ d + k \in 0 .. Len(b)
  BY <1>4, FromFrom DEF Bytes
<1>5. ASSUME NEW k \in 0 .. n, \A j \in k + 1 .. n : v[j] = w[d + j]
      PROVE  v[k] = w[d + k]
  <2> PICK r : r = From(e, k)
    OBVIOUS
  <2>1. r = From(b, d + k) /\ d + k \in 0 .. Len(b) /\ r \in Bytes /\ Len(r) = n - k
    <3>1. k \in 0 .. Len(e)
      BY <1>1
    <3>2. From(e, k) \in Seq(Nat) /\ Len(From(e, k)) = Len(e) - k
      BY <1>1, <3>1, FromProperties DEF Bytes
    <3> QED BY <1>1, <1>4, <3>2 DEF Bytes
  <2>2. v[k] = Turned(c, r, v[k + Next1(r)]) /\ w[d + k] = Turned(c, r, w[(d + k) + Next1(r)])
    BY <1>2, <1>3, <2>1, TurnIs
  <2>3. ASSUME Goes(r) PROVE v[k + Next1(r)] = w[(d + k) + Next1(r)]
    <3> PICK a : a = Next1(r)
      OBVIOUS
    <3>1. a \in 1 .. n - k
      BY <2>1, <2>3, GoesOn
    <3>2. k + a \in k + 1 .. n /\ d + (k + a) = (d + k) + a
      <4>1. a \in Int /\ a >= 1 /\ a <= n - k /\ k \in Int /\ n \in Int /\ d \in Int
        BY <1>1, <3>1
      <4> QED BY <4>1
    <3> QED BY <1>5, <3>2
  <2> QED BY <2>2, <2>3, TurnStops
<1> DEFINE T == {m \in Nat : \A k \in 0 .. n : n - k =< m => v[k] = w[d + k]}
<1>6. 0 \in T
  <2>1. ASSUME NEW k \in 0 .. n, n - k =< 0 PROVE v[k] = w[d + k]
    <3>1. k + 1 .. n = {}
      BY <1>1, <2>1
    <3> QED BY <1>5, <3>1
  <2> QED BY <2>1
<1>7. ASSUME NEW m \in Nat, m \in T PROVE m + 1 \in T
  <2>1. ASSUME NEW k \in 0 .. n, n - k =< m + 1 PROVE v[k] = w[d + k]
    <3>1. ASSUME NEW j \in k + 1 .. n PROVE v[j] = w[d + j]
      <4>1. j \in 0 .. n /\ n - j =< m
        BY <1>1, <2>1
      <4> QED BY <1>7, <4>1
    <3> QED BY <1>5, <3>1
  <2>2. m + 1 \in Nat
    OBVIOUS
  <2> QED BY <2>1, <2>2, Zenon
<1> HIDE DEF T
<1>8. n \in T
  BY <1>1, <1>6, <1>7, SetInduction
<1>9. 0 \in 0 .. n /\ n - 0 =< n /\ d + 0 = d
  BY <1>1
<1>10. v[0] = w[d + 0]
  BY <1>8, <1>9 DEF T
<1> QED BY <1>9, <1>10

(* The loop, before what an exception leaves is looked at *)
Scan(c, b) == (CHOOSE w : Walks(w, c, b))[0]

LEMMA ScanUnfolds ==
  ASSUME NEW c, NEW b \in Bytes
  PROVE  Scan(c, b) = Turned(c, b, Scan(c, From(b, Next1(b))))
<1> DEFINE Walk(e) == CHOOSE w : Walks(w, c, e)
<1>1. ASSUME NEW e \in Bytes PROVE Walks(Walk(e), c, e)
  BY WalkExists
<1>2. ASSUME NEW e PROVE Scan(c, e) = Walk(e)[0]
  BY DEF Scan
<1> HIDE DEF Walk
<1>3. Len(b) \in Nat /\ 0 \in 0 .. Len(b)
  BY LenProperties DEF Bytes
<1>4. From(b, 0) = b
  BY FromZero DEF Bytes
<1> PICK w : w = Walk(b)
  OBVIOUS
<1>5. Walks(w, c, b)
  BY <1>1
<1>6. w[0] = Turned(c, b, w[0 + Next1(b)])
  <2>1. w = [k \in 0 .. Len(b) |-> Turn(c, b, w, k)]
    BY <1>5 DEF Walks
  <2>2. w[0] = Turn(c, b, w, 0)
    BY <1>3, <2>1
  <2> QED BY <1>4, <2>2, TurnIs
<1>7. ASSUME Goes(b) PROVE w[0 + Next1(b)] = Scan(c, From(b, Next1(b)))
  <2> PICK d : d = Next1(b)
    OBVIOUS
  <2>1. d \in 0 .. Len(b) /\ 0 + d = d
    BY <1>3, <1>7, GoesOn
  <2>2. From(b, d) \in Bytes
    BY <2>1, FromProperties DEF Bytes
  <2>3. Walks(Walk(From(b, d)), c, From(b, d))
    BY <1>1, <2>2
  <2>4. Walk(From(b, d))[0] = w[d]
    BY <1>5, <2>1, <2>3, WalkOfTheRest
  <2> QED BY <1>2, <2>1, <2>4
<1>8. Turned(c, b, w[0 + Next1(b)]) = Turned(c, b, Scan(c, From(b, Next1(b))))
  BY <1>7, TurnStops
<1> QED BY <1>2, <1>6, <1>8

(* What parse_buffer gives is an outcome, whatever the bytes *)
LEMMA KeptType == ASSUME NEW c, NEW r \in Bytes, Waits(r) PROVE Kept(c, r) \in Bytes
<1>0. r \in Seq(Nat) /\ Len(r) \in Nat
  BY LenProperties DEF Bytes
<1>1. CASE Len(r) < MinScan
  BY <1>1 DEF Kept
<1>2. CASE ~(Len(r) < MinScan) /\ Find(r) = -1
  <2>1. Len(Magic) - 1 = 1
    BY DEF Magic
  <2>2. Len(r) - Keep \in 0 .. Len(r)
    <3>1. Keep = 1 /\ MinScan = 6
      BY <2>1 DEF Keep, MinScan, HeaderLen, TlvHeaderLen
    <3> QED BY <1>0, <1>2, <3>1
  <2>3. From(r, Len(r) - Keep) \in Bytes
    BY <1>0, <2>2, FromProperties DEF Bytes
  <2> QED BY <1>2, <2>3 DEF Kept
<1>3. CASE ~(Len(r) < MinScan) /\ Find(r) # -1
  <2>1. Find(r) \in 0 .. Len(r)
    <3>1. Find(r) \in 0 .. Len(r) - 2
      BY <1>0, <1>3, FirstFound
    <3> QED BY <1>0, <3>1
  <2>2. From(r, Find(r)) \in Bytes
    BY <1>0, <2>1, FromProperties DEF Bytes
  <2> QED BY <1>3, <2>2 DEF Kept
<1> QED BY <1>1, <1>2, <1>3

LEMMA DoneType ==
  ASSUME NEW b \in Bytes, NEW end \in {"ok", "raise", "spin"}
  PROVE  /\ Done(b, end) \in Outcome /\ Done(b, end).plots = <<>> /\ Done(b, end).data = b /\ Done(b, end).end = end
         /\ \A p \in Plots : [Done(b, end) EXCEPT !.plots = p] \in Outcome
<1>1. <<>> \in Plots
  BY EmptySeq DEF Plots
<1> QED BY <1>1 DEF Done, Outcome

LEMMA ScanType ==
  ASSUME NEW c, NEW b \in Bytes
  PROVE  Scan(c, b) \in Outcome
<1> DEFINE T == {m \in Nat : \A r \in Bytes : Len(r) =< m => Scan(c, r) \in Outcome}
<1>1. ASSUME NEW r \in Bytes, Goes(r) => Scan(c, From(r, Next1(r))) \in Outcome
      PROVE  Scan(c, r) \in Outcome
  <2>0. Scan(c, r) = Turned(c, r, Scan(c, From(r, Next1(r))))
    BY ScanUnfolds
  <2>1. CASE Waits(r)
    <3>1. Scan(c, r) = Done(Kept(c, r), "ok")
      BY <2>0, <2>1 DEF Turned
    <3> QED BY <2>1, <3>1, KeptType, DoneType
  <2>2. CASE ~Waits(r)
    <3>1. One(c, r).plots \in Plots /\ Next1(r) \in 0 .. Len(r)
      BY <2>2, FrameLies
    <3>2. From(r, Next1(r)) \in Bytes
      BY <3>1, FromProperties DEF Bytes
    <3>3. CASE Total(r, Find(r)) = 0
      <4>1. Scan(c, r) = Done(From(r, Next1(r)), "spin")
        BY <2>0, <2>2, <3>3 DEF Turned
      <4> QED BY <3>2, <4>1, DoneType
    <3>4. CASE Total(r, Find(r)) # 0 /\ One(c, r).raised
      <4>1. Scan(c, r) = [Done(From(r, Next1(r)), "raise") EXCEPT !.plots = One(c, r).plots]
        BY <2>0, <2>2, <3>4 DEF Turned
      <4> QED BY <3>1, <3>2, <4>1, DoneType
    <3>5. CASE Total(r, Find(r)) # 0 /\ ~One(c, r).raised
      <4> PICK x : x = Scan(c, From(r, Next1(r)))
        OBVIOUS
      <4>1. Scan(c, r) = [x EXCEPT !.plots = One(c, r).plots \o @]
        BY <2>0, <2>2, <3>5 DEF Turned
      <4>2. x \in Outcome
        BY <1>1, <2>2, <3>5 DEF Goes
      <4>3. One(c, r).plots \o x.plots \in Plots
        BY <3>1, <4>2, PlotsJoin DEF Outcome
      <4> QED BY <4>1, <4>2, <4>3 DEF Outcome
    <3> QED BY <3>3, <3>4, <3>5
  <2> QED BY <2>1, <2>2
<1>2. 0 \in T
  <2> SUFFICES ASSUME NEW r \in Bytes, Len(r) =< 0 PROVE Scan(c, r) \in Outcome
    OBVIOUS
  <2>1. Len(r) \in Nat
    BY LenProperties DEF Bytes
  <2>2. ~Goes(r)
    <3> SUFFICES ASSUME Goes(r) PROVE FALSE
      OBVIOUS
    <3>1. Next1(r) \in 1 .. Len(r)
      BY GoesOn
    <3> QED BY <2>1, <3>1
  <2> QED BY <1>1, <2>2
<1>3. ASSUME NEW m \in Nat, m \in T PROVE m + 1 \in T
  <2>1. ASSUME NEW r \in Bytes, Len(r) =< m + 1 PROVE Scan(c, r) \in Outcome
    <3>1. ASSUME Goes(r) PROVE Scan(c, From(r, Next1(r))) \in Outcome
      <4> PICK a : a = Next1(r)
        OBVIOUS
      <4>1. a \in 1 .. Len(r) /\ Len(r) \in Nat
        BY <3>1, GoesOn, LenProperties DEF Bytes
      <4>2. a \in 0 .. Len(r)
        BY <4>1
      <4>3. From(r, a) \in Bytes /\ Len(From(r, a)) = Len(r) - a
        BY <4>2, FromProperties DEF Bytes
      <4>4. Len(From(r, a)) =< m
        BY <2>1, <4>1, <4>3
      <4> QED BY <1>3, <4>3, <4>4
    <3> QED BY <1>1, <3>1
  <2> QED BY <2>1
<1> HIDE DEF T
<1>4. Len(b) \in Nat /\ Len(b) \in T
  BY <1>2, <1>3, SetInduction, LenProperties DEF Bytes
<1> QED BY <1>4 DEF T

LEMMA ParseIs ==
  ASSUME NEW c, NEW b \in Bytes
  PROVE  /\ Parse(c)[b] \in Outcome /\ Parse(c)[b].plots = Scan(c, b).plots /\ Parse(c)[b].end = Scan(c, b).end
         /\ Parse(c)[b].end = "ok" => Parse(c)[b].data = Scan(c, b).data
<1>1. Parse(c)[b] = Cut(c, b)[Scan(c, b)]
  BY DEF Parse, Scan, Walks
<1>2. Scan(c, b) \in Outcome
  BY ScanType
<1> PICK x \in Outcome : x = Scan(c, b)
  BY <1>2
<1>3. Cut(c, b)[x] = IF c \in InPlace /\ x.end # "ok" THEN [x EXCEPT !.data = b] ELSE x
  BY DEF Cut
<1>4. [x EXCEPT !.data = b] \in Outcome /\ [x EXCEPT !.data = b].plots = x.plots /\ [x EXCEPT !.data = b].end = x.end
  BY DEF Outcome
<1> QED BY <1>1, <1>3, <1>4


-----------------------------------------------------------------------------
(* The stream in chunks *)

(* What the loop gives in each of the four ways a turn can go *)
LEMMA ScanCases ==
  ASSUME NEW c, NEW b \in Bytes, NEW s, s = Scan(c, b), NEW x, x = Scan(c, From(b, Next1(b)))
  PROVE  /\ s \in Outcome
         /\ Waits(b) => s.plots = <<>> /\ s.end = "ok" /\ s.data = Kept(c, b)
         /\ ~Waits(b) /\ ~Goes(b) => s.plots = <<>> /\ s.end = "spin"
         /\ Goes(b) /\ One(c, b).raised => s.plots = One(c, b).plots /\ s.end = "raise"
         /\ Goes(b) /\ ~One(c, b).raised =>
              /\ From(b, Next1(b)) \in Bytes /\ x \in Outcome
              /\ s.plots = One(c, b).plots \o x.plots /\ s.end = x.end /\ s.data = x.data
<1>1. s \in Outcome
  BY ScanType
<1>2. s = Turned(c, b, x)
  BY ScanUnfolds
<1>3. CASE Waits(b)
  BY <1>1, <1>2, <1>3 DEF Turned, Done, Goes
<1>4. CASE ~Waits(b)
  <2>1. One(c, b).plots \in Plots /\ Next1(b) \in 0 .. Len(b)
    BY <1>4, FrameLies
  <2>2. From(b, Next1(b)) \in Bytes
    BY <2>1, FromProperties DEF Bytes
  <2>3. x \in Outcome
    BY <2>2, ScanType
  <2>4. CASE Total(b, Find(b)) = 0
    BY <1>1, <1>2, <1>4, <2>4 DEF Turned, Done, Goes
  <2>5. CASE Total(b, Find(b)) # 0 /\ One(c, b).raised
    BY <1>1, <1>2, <1>4, <2>5 DEF Turned, Done, Goes
  <2>6. CASE Total(b, Find(b)) # 0 /\ ~One(c, b).raised
    <3>1. s = [x EXCEPT !.plots = One(c, b).plots \o @]
      BY <1>2, <1>4, <2>6 DEF Turned
    <3>2. s.plots = One(c, b).plots \o x.plots /\ s.end = x.end /\ s.data = x.data
      BY <2>3, <3>1 DEF Outcome
    <3> QED BY <1>1, <1>4, <2>2, <2>3, <2>6, <3>2 DEF Goes
  <2> QED BY <2>4, <2>5, <2>6
<1> QED BY <1>3, <1>4

LEMMA Waiting ==
  ASSUME NEW c, NEW b \in Bytes, Waits(b)
  PROVE  Scan(c, b).plots = <<>> /\ Scan(c, b).end = "ok" /\ Scan(c, b).data = Kept(c, b)
<1> PICK x : x = Scan(c, From(b, Next1(b)))
  OBVIOUS
<1>1. Scan(c, b) \in Outcome /\ Scan(c, b) = Turned(c, b, x)
  BY ScanType, ScanUnfolds
<1> QED BY <1>1 DEF Turned, Done

LEMMA Stopping ==
  ASSUME NEW c, NEW b \in Bytes, ~Waits(b), ~Goes(b) \/ One(c, b).raised
  PROVE  Scan(c, b).end # "ok" /\ (~Goes(b) => Scan(c, b).plots = <<>>)
<1> PICK s, x : s = Scan(c, b) /\ x = Scan(c, From(b, Next1(b)))
  OBVIOUS
<1> QED BY ScanCases

LEMMA GoingOn ==
  ASSUME NEW c, NEW b \in Bytes, Goes(b), ~One(c, b).raised, NEW r, r = From(b, Next1(b))
  PROVE  /\ Scan(c, b).plots = One(c, b).plots \o Scan(c, r).plots
         /\ Scan(c, b).end = Scan(c, r).end /\ Scan(c, b).data = Scan(c, r).data
<1>0. ~Waits(b) /\ Total(b, Find(b)) # 0
  BY DEF Goes
<1>1. Next1(b) \in 0 .. Len(b)
  BY <1>0, FrameLies
<1>2. r \in Bytes
  BY <1>1, FromProperties DEF Bytes
<1>3. Scan(c, r) \in Outcome
  BY <1>2, ScanType
<1>4. Scan(c, b) = Turned(c, b, Scan(c, r))
  BY ScanUnfolds
<1>5. Scan(c, b) = [Scan(c, r) EXCEPT !.plots = One(c, b).plots \o @]
  BY <1>0, <1>4 DEF Turned
<1> QED BY <1>3, <1>5 DEF Outcome

LEMMA PlotsGoOn ==
  ASSUME NEW c, NEW b \in Bytes, Goes(b), ~One(c, b).raised
  PROVE  Scan(c, b).plots = One(c, b).plots \o Scan(c, From(b, Next1(b))).plots
BY GoingOn

LEMMA ShortWaits ==
  ASSUME NEW c, NEW b \in Bytes, Len(b) < MinScan
  PROVE  Waits(b) /\ Scan(c, b).plots = <<>>
<1>1. Waits(b)
  BY DEF Waits
<1> QED BY <1>1, Waiting

(* Bytes before the first magic word make no difference to the plots *)
LEMMA DropBefore ==
  ASSUME NEW c, NEW b \in Bytes, NEW d \in 0 .. Len(b), \A i \in MagicAt(b) : i >= d
  PROVE  Scan(c, b).plots = Scan(c, From(b, d)).plots
<1> PICK e : e = From(b, d)
  OBVIOUS
<1>1. e \in Bytes /\ Len(e) = Len(b) - d /\ Len(b) \in Nat /\ b \in Seq(Nat) /\ e \in Seq(Nat)
  BY FromProperties, LenProperties DEF Bytes
<1>2. MagicAt(b) \subseteq Nat /\ MagicAt(e) \subseteq Nat
  BY <1>1, MagicOffsets
<1>3. ASSUME NEW k \in Int PROVE k \in MagicAt(e) <=> k >= 0 /\ d + k \in MagicAt(b)
  BY <1>1, MagicBehind
<1>4. CASE MagicAt(b) = {}
  <2>1. MagicAt(e) = {}
    <3> SUFFICES ASSUME NEW k \in MagicAt(e) PROVE FALSE
      OBVIOUS
    <3>1. k \in Int
      BY <1>2
    <3> QED BY <1>3, <1>4, <3>1
  <2>2. Find(b) = -1 /\ Find(e) = -1
    BY <1>1, <1>4, <2>1, FirstFound
  <2>3. Waits(b) /\ Waits(e)
    BY <2>2 DEF Waits
  <2>4. Scan(c, b).plots = <<>>
    BY <2>3, Waiting
  <2>5. Scan(c, e).plots = <<>>
    BY <1>1, <2>3, Waiting
  <2> QED BY <2>4, <2>5
<1>5. CASE MagicAt(b) # {}
  <2> PICK f : f = Find(b)
    OBVIOUS
  <2>1. f \in MagicAt(b) /\ f \in 0 .. Len(b) - 2 /\ f # -1 /\ \A j \in MagicAt(b) : f =< j
    BY <1>1, <1>5, FirstFound
  <2>2. f >= d /\ f \in Nat /\ f - d \in Nat /\ d + (f - d) = f /\ d \in Nat
    BY <1>1, <2>1
  <2> PICK g \in Nat : g = f - d
    BY <2>2
  <2>3. g \in MagicAt(e)
    BY <1>3, <2>1, <2>2
  <2>4. ASSUME NEW j \in MagicAt(e) PROVE g =< j
    <3>1. j \in Nat /\ d + j \in MagicAt(b)
      BY <1>2, <1>3
    <3>2. f =< d + j
      BY <2>1, <3>1
    <3> QED BY <2>2, <3>1, <3>2
  <2>5. Find(e) = g /\ g # -1
    BY <1>1, <2>3, <2>4, FirstIs
  <2>6. Len(e) - g = Len(b) - f
    BY <1>1, <2>2
  <2>7. ASSUME Len(b) - f > 2 PROVE Total(e, g) = Total(b, f)
    <3> PICK n \in Nat : n = Len(b)
      BY <1>1
    <3>1. g + 3 \in 1 .. n - d /\ d + (g + 3) = f + 3
      <4>1. n - f > 2
        BY <2>7
      <4> QED BY <2>2, <4>1, SMTT(40)
    <3> PICK k : k = g + 3
      OBVIOUS
    <3>2. e[g + 3] = b[f + 3]
      <4>1. e[k] = b[d + k]
        BY <1>1, <3>1, FromProperties
      <4> QED BY <3>1, <4>1
    <3>3. g + LengthAt + 1 = g + 3 /\ f + LengthAt + 1 = f + 3
      BY <2>2 DEF LengthAt
    <3> QED BY <3>2, <3>3 DEF Total
  <2>8. Complete(e, g) <=> Complete(b, f)
    BY <2>6, <2>7 DEF Complete, LengthAt
  <2>9. CASE ~Complete(b, f)
    <3>1. Waits(b) /\ Waits(e)
      BY <2>5, <2>8, <2>9 DEF Waits
    <3>2. Scan(c, b).plots = <<>>
      BY <3>1, Waiting
    <3>3. Scan(c, e).plots = <<>>
      BY <1>1, <3>1, Waiting
    <3> QED BY <3>2, <3>3
  <2>10. CASE Complete(b, f) /\ ~(Len(e) < MinScan)
    <3>1. MinScan = 6
      BY DEF MinScan, HeaderLen, TlvHeaderLen
    <3>2. ~(Len(b) < MinScan)
      <4> PICK n \in Nat : n = Len(b)
        BY <1>1
      <4>1. ~(n - d < 6)
        BY <1>1, <2>10, <3>1
      <4>2. ~(n < 6)
        BY <2>2, <4>1
      <4> QED BY <3>1, <4>2
    <3>3. ~Waits(b) /\ ~Waits(e)
      BY <2>1, <2>5, <2>8, <2>10, <3>2 DEF Waits
    <3>4. Total(b, f) \in Nat /\ Total(b, f) =< Len(b) - f /\ Len(b) - f > LengthAt
      BY <3>3, FrameLies
    <3> PICK t \in Nat : t = Total(b, f)
      BY <3>4
    <3>5. Total(e, g) = t
      BY <2>7, <3>4 DEF LengthAt
    <3>6. Next1(b) = f + t /\ Next1(e) = g + t
      BY <2>5, <3>5 DEF Next1
    <3> PICK n \in Nat : n = Len(b)
      BY <1>1
    <3> PICK h : h = g + t
      OBVIOUS
    <3>7. h \in 0 .. n - d /\ h \in Nat /\ g =< h /\ h =< n - d /\ d + h = f + t /\ d + g = f
      <4>1. ASSUME NEW u \in Nat, NEW v \in Nat, NEW w \in Nat, NEW l \in Nat, w =< l - (v + u)
            PROVE  /\ u + w \in 0 .. l - v /\ u + w \in Nat /\ u =< u + w /\ u + w =< l - v
                   /\ v + (u + w) = (v + u) + w
        BY <4>1
      <4>2. d + g = f /\ d \in Nat /\ t =< n - f
        BY <2>2, <3>4
      <4>3. t =< n - (d + g)
        BY <4>2
      <4> QED BY <4>1, <4>2, <4>3, SMTT(40)
    <3>8. From(e, g + t) = From(b, f + t)
      BY <1>1, <3>7, FromFrom
    <3>9. Slice(e, g, g + t) = Slice(b, f, f + t)
      <4>1. Slice(e, g, h) = Slice(b, d + g, d + h)
        <5>1. d \in 0 .. n /\ n = Len(b) /\ b \in Seq(Nat)
          BY <1>1
        <5>2. Slice(From(b, d), g, h) = Slice(b, d + g, d + h)
          BY <3>7, <5>1, SliceBehind, SMTT(40)
        <5> QED BY <5>2
      <4> QED BY <3>7, <4>1
    <3>10. One(c, e) = One(c, b)
      BY <2>5, <3>6, <3>9 DEF One
    <3>11. \A x : Turned(c, e, x) = Turned(c, b, x)
      BY <2>5, <3>3, <3>5, <3>6, <3>8, <3>10 DEF Turned
    <3>12. Scan(c, e) = Turned(c, e, Scan(c, From(e, g + t)))
      BY <1>1, <3>6, ScanUnfolds
    <3>13. Scan(c, b) = Turned(c, b, Scan(c, From(b, f + t)))
      BY <3>6, ScanUnfolds
    <3> QED BY <3>8, <3>11, <3>12, <3>13
  <2>11. CASE Complete(b, f) /\ Len(e) < MinScan
    <3>1. Scan(c, e).plots = <<>>
      BY <1>1, <2>11, ShortWaits
    <3>2. CASE Waits(b)
      BY <3>1, <3>2, Waiting
    <3>3. CASE ~Waits(b)
      <4>1. Total(b, f) \in Nat /\ Total(b, f) =< Len(b) - f /\ Next1(b) \in 0 .. Len(b) /\ Next1(b) = f + Total(b, f)
        BY <3>3, FrameLies DEF Next1
      <4>2. MinScan = 6
        BY DEF MinScan, HeaderLen, TlvHeaderLen
      <4>3. Total(b, f) < MinScan
        <5> PICK n \in Nat, t \in Nat : n = Len(b) /\ t = Total(b, f)
          BY <1>1, <4>1
        <5>1. t =< n - f /\ n - d < 6
          BY <1>1, <2>11, <4>1, <4>2
        <5>2. t < 6
          BY <2>2, <5>1, SMTT(40)
        <5> QED BY <4>2, <5>2
      <4>4. One(c, b).plots = <<>> /\ One(c, b).raised = FALSE
        BY <3>3, <4>3, FrameLies
      <4>5. CASE ~Goes(b)
        <5>1. Scan(c, b).plots = <<>>
          BY <3>3, <4>5, Stopping
        <5> QED BY <3>1, <5>1
      <4>6. CASE Goes(b)
        <5> PICK r, n : r = From(b, n) /\ n = Next1(b)
          OBVIOUS
        <5>1. r \in Bytes /\ Len(r) = Len(b) - n
          BY <4>1, FromProperties DEF Bytes
        <5>2. Len(r) < MinScan
          <6> PICK l \in Nat, t \in Nat : l = Len(b) /\ t = Total(b, f)
            BY <1>1, <4>1
          <6>1. l - d < 6 /\ n = f + t
            BY <1>1, <2>11, <4>1, <4>2
          <6>2. l - n < 6
            BY <2>2, <6>1, SMTT(40)
          <6> QED BY <4>2, <5>1, <6>2
        <5>3. Scan(c, r).plots = <<>>
          BY <5>1, <5>2, ShortWaits
        <5>4. Scan(c, b).plots = One(c, b).plots \o Scan(c, r).plots
          BY <4>4, <4>6, GoingOn
        <5>5. <<>> \in Plots
          BY EmptySeq DEF Plots
        <5>6. <<>> \o <<>> = <<>>
          BY <5>5, PlotsAssociate
        <5> QED BY <3>1, <4>4, <5>3, <5>4, <5>6
      <4> QED BY <4>5, <4>6
    <3> QED BY <3>2, <3>3
  <2> QED BY <2>9, <2>10, <2>11
<1> QED BY <1>4, <1>5

(* An equation kept from the provers until it is asked for *)
Is(x, y) == x = y

(* Parsed in two pieces a stream gives the plots it gives at once *)
LEMMA ChunkLemma ==
  ASSUME NEW c, NEW b \in Bytes, Scan(c, b).end = "ok", NEW y \in Bytes
  PROVE  Scan(c, b \o y).plots = Scan(c, b).plots \o Scan(c, Scan(c, b).data \o y).plots
<1> DEFINE Chunked(r) == Scan(c, r).end = "ok" => Scan(c, r \o y).plots = Scan(c, r).plots \o Scan(c, Scan(c, r).data \o y).plots
           T == {m \in Nat : \A r \in Bytes : Len(r) =< m => Chunked(r)}
<1>0. y \in Seq(Nat)
  BY DEF Bytes
<1>1. ASSUME NEW r \in Bytes, Waits(r), NEW d \in 0 .. Len(r), \A i \in MagicAt(r \o y) : i >= d, Kept(c, r) = From(r, d)
      PROVE  Chunked(r)
  <2> PICK u : u = r \o y
    OBVIOUS
  <2>1. r \in Seq(Nat) /\ u \in Bytes /\ d \in 0 .. Len(u) /\ From(r, d) \in Bytes
    BY <1>0, ConcatProperties, LenProperties, FromProperties DEF Bytes
  <2>2. Scan(c, u).plots = Scan(c, From(u, d)).plots
    BY <1>1, <2>1, DropBefore
  <2>3. From(u, d) = From(r, d) \o y
    BY <1>0, <2>1, FromConcat
  <2>4. Scan(c, r).plots = <<>> /\ Scan(c, r).data = From(r, d)
    BY <1>1, Waiting
  <2>5. From(r, d) \o y \in Bytes
    BY <1>0, <2>1, ConcatProperties DEF Bytes
  <2>6. Scan(c, From(r, d) \o y).plots \in Plots
    BY <2>5, ScanType DEF Outcome
  <2>7. <<>> \o Scan(c, From(r, d) \o y).plots = Scan(c, From(r, d) \o y).plots
    BY <2>6, PlotsAssociate
  <2> QED BY <2>2, <2>3, <2>4, <2>7
<1>2. ASSUME NEW r \in Bytes, Waits(r) PROVE Chunked(r)
  <2>0. r \in Seq(Nat) /\ Len(r) \in Nat /\ MagicAt(r \o y) \subseteq Nat /\ From(r, 0) = r /\ 0 \in 0 .. Len(r)
    <3>1. r \in Seq(Nat) /\ r \o y \in Seq(Nat)
      BY <1>0, ConcatProperties DEF Bytes
    <3>2. MagicAt(r \o y) \subseteq Nat
      BY <3>1, MagicOffsets
    <3>3. Len(r) \in Nat
      BY <3>1, LenProperties
    <3>4. From(r, 0) = r
      BY <3>1, FromZero
    <3> QED BY <3>1, <3>2, <3>3, <3>4
  <2>1. CASE Kept(c, r) = r
    <3>1. \A i \in MagicAt(r \o y) : i >= 0
      BY <2>0
    <3> QED BY <1>1, <1>2, <2>0, <2>1, <3>1
  <2>2. CASE ~(Len(r) < MinScan) /\ Find(r) = -1
    <3> PICK n \in Nat : n = Len(r)
      BY <2>0
    <3>1. MinScan = 6 /\ Keep = 1
      <4>1. Len(Magic) - 1 = 1
        BY DEF Magic
      <4> QED BY <4>1 DEF MinScan, HeaderLen, TlvHeaderLen, Keep
    <3>2. n - 1 \in 0 .. Len(r)
      BY <2>2, <3>1
    <3>3. Kept(c, r) = From(r, n - 1)
      BY <2>2, <3>1 DEF Kept
    <3>4. ASSUME NEW i \in MagicAt(r \o y) PROVE i >= n - 1
      <4> SUFFICES ASSUME i =< n - 2 PROVE FALSE
        BY <2>0
      <4>1. i \in Int
        BY <2>0
      <4>2. i \in MagicAt(r)
        BY <1>0, <2>0, <4>1, MagicBefore
      <4> QED BY <2>0, <2>2, <4>2, FirstFound
    <3> QED BY <1>1, <1>2, <3>2, <3>3, <3>4
  <2>3. CASE ~(Len(r) < MinScan) /\ Find(r) # -1 /\ c \notin InPlace
    <3> PICK f : f = Find(r)
      OBVIOUS
    <3> PICK n \in Nat : n = Len(r)
      BY <2>0
    <3>1. f \in 0 .. n - 2 /\ \A j \in MagicAt(r) : f =< j
      BY <2>0, <2>3, FirstFound
    <3>2. f \in 0 .. Len(r)
      BY <3>1
    <3>3. Kept(c, r) = From(r, f)
      BY <2>3 DEF Kept
    <3>4. ASSUME NEW i \in MagicAt(r \o y) PROVE i >= f
      <4> SUFFICES ASSUME i < f PROVE FALSE
        BY <2>0, <3>1
      <4>1. i \in Int /\ i =< n - 2
        BY <2>0, <3>1
      <4>2. i \in MagicAt(r)
        BY <1>0, <2>0, <4>1, MagicBefore
      <4> QED BY <3>1, <4>1, <4>2
    <3> QED BY <1>1, <1>2, <3>2, <3>3, <3>4
  <2> QED BY <2>1, <2>2, <2>3 DEF Kept
<1>3. ASSUME NEW r \in Bytes, Goes(r), ~One(c, r).raised, Chunked(From(r, Next1(r))) PROVE Chunked(r)
  <2> PICK u, f, n, m : u = r \o y /\ f = Find(r) /\ n = Next1(r) /\ m = Len(r)
    OBVIOUS
  <2>0. ~Waits(r) /\ Total(r, f) # 0
    BY <1>3 DEF Goes
  <2>1. /\ MagicAt(r) # {} /\ f \in MagicAt(r) /\ f \in Nat /\ m \in Nat /\ m >= MinScan /\ m - f > LengthAt
        /\ Total(r, f) \in Nat /\ Total(r, f) =< m - f /\ n \in 0 .. m /\ f =< n /\ One(c, r).plots \in Plots
    BY <2>0, FrameLies, LenProperties DEF Bytes
  <2>2. r \in Seq(Nat) /\ u \in Seq(Nat) /\ u \in Bytes /\ Len(u) = m + Len(y) /\ Len(y) \in Nat
    BY <1>0, ConcatProperties, LenProperties DEF Bytes
  <2>3. \A i \in 1 .. m : u[i] = r[i]
    <3>1. \A i \in 1 .. m + Len(y) : u[i] = IF i <= m THEN r[i] ELSE y[i - m]
      BY <1>0, <2>2, ConcatProperties
    <3>2. ASSUME NEW i \in 1 .. m PROVE i \in 1 .. m + Len(y) /\ i <= m
      BY <2>1, <2>2
    <3> QED BY <3>1, <3>2
  <2>4. f =< m - 2 /\ \A j \in MagicAt(r) : f =< j
    <3>1. f \in 0 .. m - 2 /\ \A j \in MagicAt(r) : f =< j
      BY <2>1, <2>2, FirstFound
    <3> QED BY <3>1
  <2>5. f \in MagicAt(u)
    BY <1>0, <2>1, <2>2, MagicBefore
  <2>6. ASSUME NEW j \in MagicAt(u) PROVE f =< j
    <3>1. j \in Nat
      BY <2>2, MagicOffsets
    <3> SUFFICES ASSUME j < f PROVE FALSE
      BY <2>1, <3>1
    <3>2. j =< m - 2
      BY <2>1, <2>4, <3>1
    <3>3. j \in MagicAt(r)
      BY <1>0, <2>2, <3>1, <3>2, MagicBefore
    <3> QED BY <2>1, <2>4, <3>1, <3>3
  <2>7. Find(u) = f
    BY <2>2, <2>5, <2>6, FirstIs
  <2>8. Total(u, f) = Total(r, f)
    <3>1. f + LengthAt + 1 \in 1 .. m
      BY <2>1 DEF LengthAt
    <3> QED BY <2>3, <3>1 DEF Total
  <2>9. ~Waits(u)
    <3> PICK t \in Nat, v \in Nat : t = Total(r, f) /\ v = Len(u)
      BY <2>1, <2>2
    <3>0. MinScan = 6 /\ LengthAt = 2
      BY DEF MinScan, HeaderLen, TlvHeaderLen, LengthAt
    <3>1. v - f > 2 /\ v - f >= t /\ v >= 6 /\ f # -1
      <4>1. v >= m
        BY <2>1, <2>2
      <4>2. m - f > 2 /\ m - f >= t /\ m >= 6
        BY <2>1, <3>0
      <4> QED BY <2>1, <4>1, <4>2
    <3>2. Complete(u, f)
      BY <2>8, <3>0, <3>1 DEF Complete
    <3> QED BY <2>7, <3>0, <3>1, <3>2 DEF Waits
  <2>10. Goes(u) /\ Next1(u) = n
    BY <2>0, <2>7, <2>8, <2>9 DEF Goes, Next1
  <2>11. One(c, u) = One(c, r)
    <3>1. n \in Nat /\ n =< Len(r)
      BY <2>1
    <3>2. Slice(u, f, n) = Slice(r, f, n)
      BY <1>0, <2>1, <2>2, <3>1, SliceBefore
    <3> QED BY <2>7, <2>10, <3>2 DEF One
  <2> PICK e : e = From(r, n)
    OBVIOUS
  <2>12. n \in 0 .. Len(r)
    BY <2>1
  <2>13. From(u, n) = e \o y
    BY <1>0, <2>2, <2>12, FromConcat
  <2>14. e \in Bytes
    BY <2>2, <2>12, FromProperties DEF Bytes
  <2>15. Scan(c, u).plots = One(c, r).plots \o Scan(c, e \o y).plots
    <3>1. ~One(c, u).raised
      BY <1>3, <2>11
    <3> PICK z : z = e \o y
      OBVIOUS
    <3>2. u \in Bytes /\ Goes(u) /\ z = From(u, Next1(u))
      BY <2>2, <2>10, <2>13
    <3> HIDE DEF Chunked, T
    <3>3. Scan(c, u).plots = One(c, u).plots \o Scan(c, From(u, Next1(u))).plots
      BY <3>1, <3>2, PlotsGoOn
    <3> QED BY <2>11, <3>2, <3>3
  <2>16. /\ Scan(c, r).plots = One(c, r).plots \o Scan(c, e).plots
         /\ Scan(c, r).end = Scan(c, e).end /\ Scan(c, r).data = Scan(c, e).data
    <3>1. e = From(r, Next1(r))
      OBVIOUS
    <3>2. r \in Bytes /\ Goes(r) /\ ~One(c, r).raised
      BY <1>3
    <3> HIDE DEF Chunked, T
    <3> QED BY <3>1, <3>2, GoingOn
  <2> SUFFICES ASSUME Scan(c, r).end = "ok"
               PROVE  Scan(c, u).plots = Scan(c, r).plots \o Scan(c, Scan(c, r).data \o y).plots
    OBVIOUS
  <2>17. Scan(c, e \o y).plots = Scan(c, e).plots \o Scan(c, Scan(c, e).data \o y).plots
    BY <1>3, <2>16
  <2>18. Scan(c, e) \in Outcome
    BY <2>14, ScanType
  <2>19. Scan(c, e).plots \in Plots /\ Scan(c, e).data \o y \in Bytes
    BY <1>0, <2>18, ConcatProperties DEF Outcome, Bytes
  <2>20. Scan(c, Scan(c, e).data \o y).plots \in Plots
    BY <2>19, ScanType DEF Outcome
  <2>21. PICK p, q, z : Is(p, One(c, r).plots) /\ Is(q, Scan(c, e).plots) /\ Is(z, Scan(c, Scan(c, e).data \o y).plots)
    BY DEF Is
  <2>22. p \in Plots /\ q \in Plots /\ z \in Plots
    BY <2>1, <2>19, <2>20, <2>21 DEF Is
  <2>23. (p \o q) \o z = p \o (q \o z)
    BY <2>22, PlotsAssociate, ZenonT(40)
  <2>24. Scan(c, u).plots = p \o (q \o z) /\ Scan(c, r).plots = p \o q /\ Scan(c, Scan(c, r).data \o y).plots = z
    BY <2>15, <2>16, <2>17, <2>21 DEF Is
  <2> QED BY <2>23, <2>24
<1> HIDE DEF Chunked
<1>4. ASSUME NEW r \in Bytes, Goes(r) => Chunked(From(r, Next1(r))) PROVE Chunked(r)
  <2>1. CASE ~Waits(r) /\ (~Goes(r) \/ One(c, r).raised)
    BY <2>1, Stopping DEF Chunked
  <2> QED BY <1>2, <1>3, <1>4, <2>1
<1>5. 0 \in T
  <2>1. ASSUME NEW r \in Bytes, Len(r) =< 0 PROVE Chunked(r)
    <3>1. Len(r) \in Nat
      BY LenProperties DEF Bytes
    <3>2. ~Goes(r)
      <4> SUFFICES ASSUME Goes(r) PROVE FALSE
        OBVIOUS
      <4>1. Next1(r) \in 1 .. Len(r)
        BY GoesOn
      <4> QED BY <2>1, <3>1, <4>1
    <3> QED BY <1>4, <3>2
  <2> QED BY <2>1
<1>6. ASSUME NEW m \in Nat, m \in T PROVE m + 1 \in T
  <2>1. ASSUME NEW r \in Bytes, Len(r) =< m + 1 PROVE Chunked(r)
    <3>1. ASSUME Goes(r) PROVE Chunked(From(r, Next1(r)))
      <4> PICK a : a = Next1(r)
        OBVIOUS
      <4>1. a \in 1 .. Len(r) /\ Len(r) \in Nat
        BY <3>1, GoesOn, LenProperties DEF Bytes
      <4>2. a \in 0 .. Len(r)
        BY <4>1
      <4>3. From(r, a) \in Bytes /\ Len(From(r, a)) = Len(r) - a
        BY <4>2, FromProperties DEF Bytes
      <4>4. Len(From(r, a)) =< m
        BY <2>1, <4>1, <4>3
      <4> QED BY <1>6, <4>3, <4>4
    <3> QED BY <1>4, <3>1
  <2> QED BY <2>1
<1> HIDE DEF T
<1>7. Len(b) \in Nat /\ Len(b) \in T
  BY <1>5, <1>6, SetInduction, LenProperties DEF Bytes
<1>8. Chunked(b)
  BY <1>7 DEF T
<1> QED BY <1>8 DEF Chunked
-----------------------------------------------------------------------------
(* The bytes of several packets *)

(* Induction, for sets of sequences *)
LEMMA SequenceInduction ==
  ASSUME NEW S, NEW T, <<>> \in T, \A s \in Seq(S), e \in S : s \in T => Append(s, e) \in T
  PROVE  Seq(S) \subseteq T
<1> DEFINE N == {n \in Nat : \A s \in Seq(S) : Len(s) = n => s \in T}
<1>1. 0 \in N
  <2>1. \A s \in Seq(S) : Len(s) = 0 => s = <<>>
    BY EmptySeq
  <2> QED BY <2>1
<1>2. ASSUME NEW n \in Nat, n \in N PROVE n + 1 \in N
  <2> SUFFICES ASSUME NEW s \in Seq(S), Len(s) = n + 1 PROVE s \in T
    OBVIOUS
  <2>1. s # <<>>
    BY EmptySeq
  <2>2. PICK q \in Seq(S), e \in S : s = Append(q, e)
    BY <2>1, SequenceEmptyOrAppend
  <2>3. Len(s) = Len(q) + 1 /\ Len(q) \in Nat
    BY <2>2, AppendProperties, LenProperties
  <2>4. Len(q) = n
    BY <2>3
  <2> QED BY <1>2, <2>2, <2>4
<1> HIDE DEF N
<1>3. Nat \subseteq N
  BY <1>1, <1>2, SetInduction
<1> QED BY <1>3, LenProperties DEF N

Joins(g, s, n) == g = [i \in 1 .. n |-> IF i = 1 THEN s[i] ELSE g[i - 1] \o s[i]]

LEMMA JoinsExist ==
  ASSUME NEW s, NEW n \in Nat
  PROVE  \E g : Joins(g, s, n)
<1> DEFINE T == {m \in Nat : \E g : Joins(g, s, m)}
<1>1. 0 \in T
  <2>1. \A g : (g = [i \in 1 .. 0 |-> 0]) => g = [i \in 1 .. 0 |-> IF i = 1 THEN s[i] ELSE g[i - 1] \o s[i]]
    OBVIOUS
  <2> QED BY <2>1 DEF Joins
<1>2. ASSUME NEW m \in Nat, m \in T PROVE m + 1 \in T
  <2>1. PICK g : g = [i \in 1 .. m |-> IF i = 1 THEN s[i] ELSE g[i - 1] \o s[i]]
    BY <1>2 DEF Joins
  <2> DEFINE h == [i \in 1 .. m + 1 |-> IF i = m + 1 THEN (IF i = 1 THEN s[i] ELSE g[m] \o s[i]) ELSE g[i]]
  <2>2. \A i \in 1 .. m : h[i] = g[i]
    OBVIOUS
  <2>3. ASSUME NEW i \in 1 .. m + 1 PROVE h[i] = IF i = 1 THEN s[i] ELSE h[i - 1] \o s[i]
    <3>1. CASE i = m + 1
      <4>1. i # 1 => i - 1 = m /\ m \in 1 .. m
        BY <3>1
      <4>2. h[i] = IF i = 1 THEN s[i] ELSE g[m] \o s[i]
        BY <3>1
      <4> HIDE DEF h
      <4> QED BY <2>2, <4>1, <4>2
    <3>2. CASE i # m + 1
      <4>1. i \in 1 .. m /\ (i # 1 => i - 1 \in 1 .. m)
        BY <3>2
      <4>2. g[i] = IF i = 1 THEN s[i] ELSE g[i - 1] \o s[i]
        BY <2>1, <4>1
      <4> HIDE DEF h
      <4> QED BY <2>2, <4>1, <4>2
    <3> QED BY <3>1, <3>2
  <2>4. h = [i \in 1 .. m + 1 |-> h[i]]
    OBVIOUS
  <2> HIDE DEF h
  <2>5. h = [i \in 1 .. m + 1 |-> IF i = 1 THEN s[i] ELSE h[i - 1] \o s[i]]
    BY <2>3, <2>4
  <2>6. Joins(h, s, m + 1)
    BY <2>5 DEF Joins
  <2> QED BY <2>6
<1> HIDE DEF T
<1>3. n \in T
  BY <1>1, <1>2, SetInduction
<1> QED BY <1>3 DEF T

Alike(s, t, m) == \A i \in 1 .. m : s[i] = t[i]

LEMMA JoinsAgree ==
  ASSUME NEW s, NEW t, NEW m \in Nat \ {0}, NEW n \in Nat, m =< n,
         Alike(s, t, m),
         NEW g, Joins(g, s, m), NEW h, Joins(h, t, n)
  PROVE  h[m] = g[m]
<1> DEFINE T == {k \in Nat : k \in 1 .. m => h[k] = g[k]}
<1>1. \A i \in 1 .. m : g[i] = IF i = 1 THEN s[i] ELSE g[i - 1] \o s[i]
  BY DEF Joins
<1>2. \A i \in 1 .. n : h[i] = IF i = 1 THEN t[i] ELSE h[i - 1] \o t[i]
  BY DEF Joins
<1>3. 0 \in T
  OBVIOUS
<1>4. ASSUME NEW k \in Nat, k \in T PROVE k + 1 \in T
  <2> SUFFICES ASSUME k + 1 \in 1 .. m PROVE h[k + 1] = g[k + 1]
    OBVIOUS
  <2>1. k + 1 \in 1 .. n /\ (k + 1) - 1 = k /\ (k + 1 # 1 => k \in 1 .. m)
    OBVIOUS
  <2>2. s[k + 1] = t[k + 1] /\ (k + 1 # 1 => h[k] = g[k])
    BY <1>4, <2>1 DEF Alike
  <2>3. h[k + 1] = IF k + 1 = 1 THEN t[k + 1] ELSE h[k] \o t[k + 1]
    BY <1>2, <2>1
  <2>4. g[k + 1] = IF k + 1 = 1 THEN s[k + 1] ELSE g[k] \o s[k + 1]
    BY <1>1, <2>1
  <2> QED BY <2>2, <2>3, <2>4
<1> HIDE DEF T
<1>5. m \in T
  BY <1>3, <1>4, SetInduction
<1> QED BY <1>5 DEF T

LEMMA FlattenIsJoin ==
  ASSUME NEW s, Len(s) \in Nat \ {0}
  PROVE  \E g : Joins(g, s, Len(s)) /\ FlattenSeq(s) = g[Len(s)]
<1> DEFINE g == CHOOSE f : Joins(f, s, Len(s))
<1>1. FlattenSeq(s) = g[Len(s)]
  BY DEF FlattenSeq, Joins
<1>2. Joins(g, s, Len(s))
  BY JoinsExist
<1> HIDE DEF g
<1> QED BY <1>1, <1>2

(* One frame more is its bytes more *)
LEMMA FlattenAppend ==
  ASSUME NEW s \in Seq(Seq(Nat)), NEW f \in Seq(Nat), FlattenSeq(s) \in Seq(Nat)
  PROVE  FlattenSeq(Append(s, f)) = FlattenSeq(s) \o f /\ FlattenSeq(Append(s, f)) \in Seq(Nat)
<1>0. PICK n, t : n = Len(s) /\ t = Append(s, f)
  OBVIOUS
<1>1. n \in Nat /\ Len(t) = n + 1 /\ t[n + 1] = f /\ \A i \in 1 .. n : s[i] = t[i]
  BY <1>0, AppendProperties, LenProperties
<1>2. n + 1 \in Nat \ {0} /\ n =< n + 1 /\ n + 1 \in 1 .. n + 1 /\ (n + 1) - 1 = n
  BY <1>1
<1>3. PICK h : Joins(h, t, n + 1) /\ FlattenSeq(t) = h[n + 1]
  BY <1>1, <1>2, FlattenIsJoin
<1>4. \A i \in 1 .. n + 1 : h[i] = IF i = 1 THEN t[i] ELSE h[i - 1] \o t[i]
  BY <1>3 DEF Joins
<1>5. h[n + 1] = IF n + 1 = 1 THEN f ELSE h[n] \o f
  BY <1>1, <1>2, <1>4
<1>6. CASE n = 0
  <2>1. s = <<>>
    BY <1>0, <1>6, EmptySeq
  <2>2. FlattenSeq(<<>>) = <<>>
    BY DEF FlattenSeq
  <2>3. FlattenSeq(t) = f
    BY <1>3, <1>5, <1>6
  <2>4. <<>> \o f = f
    BY ConcatEmptySeq
  <2> QED BY <1>0, <2>1, <2>2, <2>3, <2>4
<1>7. CASE n # 0
  <2>1. PICK g : Joins(g, s, n) /\ FlattenSeq(s) = g[n]
    BY <1>0, <1>1, <1>7, FlattenIsJoin
  <2>2. h[n] = g[n]
    <3>0. PICK m : m = n + 1
      OBVIOUS
    <3>1. n \in Nat \ {0} /\ m \in Nat /\ n =< m /\ Joins(g, s, n) /\ Joins(h, t, m)
      BY <1>1, <1>2, <1>3, <1>7, <2>1, <3>0
    <3>2. Alike(s, t, n)
      BY <1>1 DEF Alike
    <3> QED BY <3>1, <3>2, JoinsAgree
  <2>3. FlattenSeq(t) = FlattenSeq(s) \o f
    BY <1>1, <1>3, <1>5, <1>7, <2>1, <2>2, SMTT(40)
  <2>4. FlattenSeq(s) \o f \in Seq(Nat)
    BY ConcatProperties
  <2> QED BY <1>0, <2>3, <2>4
<1> QED BY <1>6, <1>7

LEMMA FlattenEmpty == FlattenSeq(<<>>) = <<>> /\ <<>> \in Seq(Nat) /\ <<>> \in Seq(Seq(Nat)) /\ Len(<<>>) = 0
BY EmptySeq DEF FlattenSeq

LEMMA FlattenType ==
  ASSUME NEW s \in Seq(Seq(Nat))
  PROVE  FlattenSeq(s) \in Seq(Nat)
<1> DEFINE T == {q \in Seq(Seq(Nat)) : FlattenSeq(q) \in Seq(Nat)}
<1>1. <<>> \in T
  BY FlattenEmpty
<1>2. ASSUME NEW q \in Seq(Seq(Nat)), NEW e \in Seq(Nat), q \in T PROVE Append(q, e) \in T
  <2>1. FlattenSeq(Append(q, e)) \in Seq(Nat)
    BY <1>2, FlattenAppend
  <2>2. Append(q, e) \in Seq(Seq(Nat))
    BY AppendProperties
  <2> QED BY <2>1, <2>2
<1> HIDE DEF T
<1>3. Seq(Seq(Nat)) \subseteq T
  BY <1>1, <1>2, SequenceInduction
<1> QED BY <1>3 DEF T

(* The first frame's bytes come first *)
LEMMA FlattenFirst ==
  ASSUME NEW f \in Seq(Nat), NEW s \in Seq(Seq(Nat))
  PROVE  FlattenSeq(<<f>> \o s) = f \o FlattenSeq(s) /\ <<f>> \o s \in Seq(Seq(Nat))
<1> DEFINE T == {q \in Seq(Seq(Nat)) : FlattenSeq(<<f>> \o q) = f \o FlattenSeq(q)}
<1>0. <<f>> \in Seq(Seq(Nat)) /\ <<f>> = Append(<<>>, f)
  OBVIOUS
<1>1. <<>> \in T
  <2>1. <<f>> \o <<>> = <<f>> /\ f \o <<>> = f /\ <<>> \o f = f
    BY <1>0, ConcatEmptySeq
  <2>2. FlattenSeq(<<f>>) = <<>> \o f
    BY <1>0, FlattenEmpty, FlattenAppend
  <2> QED BY <2>1, <2>2, FlattenEmpty
<1>2. ASSUME NEW q \in Seq(Seq(Nat)), NEW e \in Seq(Nat), q \in T PROVE Append(q, e) \in T
  <2>1. <<f>> \o q \in Seq(Seq(Nat))
    BY <1>0, ConcatProperties
  <2>2. <<f>> \o Append(q, e) = Append(<<f>> \o q, e)
    <3>1. <<e>> \in Seq(Seq(Nat))
      OBVIOUS
    <3>2. (<<f>> \o q) \o <<e>> = <<f>> \o (q \o <<e>>)
      BY <1>0, <3>1, ConcatAssociative
    <3>3. Append(q, e) = q \o <<e>> /\ Append(<<f>> \o q, e) = (<<f>> \o q) \o <<e>>
      BY <2>1, AppendIsConcat
    <3> QED BY <3>2, <3>3
  <2>3. FlattenSeq(Append(<<f>> \o q, e)) = FlattenSeq(<<f>> \o q) \o e
    BY <2>1, FlattenAppend, FlattenType
  <2>4. FlattenSeq(Append(q, e)) = FlattenSeq(q) \o e
    BY FlattenAppend, FlattenType
  <2>5. FlattenSeq(<<f>> \o q) = f \o FlattenSeq(q)
    BY <1>2
  <2>6. (f \o FlattenSeq(q)) \o e = f \o (FlattenSeq(q) \o e)
    BY FlattenType, BytesAssociate
  <2>7. Append(q, e) \in Seq(Seq(Nat))
    BY AppendProperties
  <2> QED BY <2>2, <2>3, <2>4, <2>5, <2>6, <2>7
<1> HIDE DEF T
<1>3. Seq(Seq(Nat)) \subseteq T
  BY <1>1, <1>2, SequenceInduction
<1>4. FlattenSeq(<<f>> \o s) = f \o FlattenSeq(s)
  BY <1>3 DEF T
<1> QED BY <1>0, <1>4, ConcatProperties


-----------------------------------------------------------------------------
(* The packets *)

(* Packets of bytes *)
PacketSet == {p \in Bytes : Len(p) >= NetHeaderLen /\ Len(p) = NetHeaderLen + p[2]}

LEMMA PacketIs ==
  ASSUME NEW t \in Nat, NEW p \in Bytes
  PROVE  Packet(t, p) \in PacketSet
<1>1. Len(p) \in Nat /\ p \in Seq(Nat)
  BY LenProperties DEF Bytes
<1>2. <<t, Len(p)>> \in Seq(Nat) /\ Len(<<t, Len(p)>>) = 2 /\ <<t, Len(p)>>[2] = Len(p)
  BY <1>1
<1> PICK h \in Seq(Nat) : h = <<t, Len(p)>>
  BY <1>2
<1>3. /\ h \o p \in Seq(Nat) /\ Len(h \o p) = 2 + Len(p)
      /\ \A i \in 1 .. 2 + Len(p) : (h \o p)[i] = IF i <= 2 THEN h[i] ELSE p[i - 2]
  BY <1>1, <1>2, ConcatProperties
<1>4. 2 \in 1 .. 2 + Len(p)
  BY <1>1
<1>5. (h \o p)[2] = Len(p)
  BY <1>2, <1>3, <1>4
<1>6. 2 + Len(p) >= 2
  BY <1>1
<1> QED BY <1>3, <1>5, <1>6 DEF Packet, PacketSet, Bytes, NetHeaderLen

LEMMA AnswersAre ==
  /\ System \in PacketSet /\ System \in Bytes /\ Packet(1, <<7>>) \in PacketSet /\ Packet(1, <<7>>) \in Bytes
  /\ Packet(1, <<7>>) \o System \in Bytes
<1>1. <<>> \in Bytes /\ <<7>> \in Bytes
  BY EmptySeq DEF Bytes
<1>2. Packet(99, <<>>) \in PacketSet /\ Packet(1, <<7>>) \in PacketSet
  BY <1>1, PacketIs
<1>3. PacketSet \subseteq Bytes
  BY DEF PacketSet
<1>4. ASSUME NEW x \in Bytes, NEW y \in Bytes PROVE x \o y \in Bytes
  BY ConcatProperties DEF Bytes
<1> QED BY <1>2, <1>3, <1>4 DEF System

(* A part of a sequence holds what it holds *)
LEMMA PartOf ==
  ASSUME NEW S, NEW s \in Seq(S), NEW k \in Nat
  PROVE  From(s, k) \in Seq(S) /\ (k =< Len(s) => Take(s, k) \in Seq(S))
<1>1. Len(s) \in Nat /\ \A i \in 1 .. Len(s) : s[i] \in S
  BY LenProperties, ElementOfSeq
<1>2. \A i \in k + 1 .. Len(s) : s[i] \in S
  BY <1>1
<1>3. From(s, k) \in Seq(S)
  <2>1. SubSeq(s, k + 1, Len(s)) \in Seq(S)
    BY <1>1, <1>2, SubSeqProperties
  <2> QED BY <2>1 DEF From
<1>4. ASSUME k =< Len(s) PROVE Take(s, k) \in Seq(S)
  <2>1. \A i \in 1 .. k : s[i] \in S
    BY <1>1, <1>4
  <2>2. SubSeq(s, 1, k) \in Seq(S)
    BY <2>1, SubSeqProperties
  <2> QED BY <2>2 DEF Take
<1> QED BY <1>3, <1>4

LEMMA HandleType ==
  ASSUME NEW c, NEW s \in Work, NEW p \in Bytes, Len(p) >= NetHeaderLen
  PROVE  /\ Handle(c, s, p) \in Work
         /\ p[1] = 2 => From(p, NetHeaderLen) \in Bytes /\ s.data \o From(p, NetHeaderLen) \in Bytes
                        /\ Parse(c)[s.data \o From(p, NetHeaderLen)] \in Outcome
<1>1. s.data \in Bytes /\ s.heard \in Bytes /\ s.shown \in Plots /\ s.queue \in Plots /\ s.raised \in BOOLEAN
  BY DEF Work
<1> PICK y : y = From(p, NetHeaderLen)
  OBVIOUS
<1>2. y \in Bytes
  <2>1. 2 \in Nat /\ p \in Seq(Nat)
    BY DEF Bytes
  <2>2. From(p, 2) \in Seq(Nat)
    BY <2>1, PartOf
  <2> QED BY <2>2 DEF NetHeaderLen, Bytes
<1>3. s.data \o y \in Bytes /\ s.heard \o y \in Bytes
  BY <1>1, <1>2, ConcatProperties DEF Bytes
<1> PICK r \in Outcome : r = Parse(c)[s.data \o y]
  BY <1>3, ParseIs
<1>4. r.data \in Bytes /\ r.plots \in Plots /\ r.end \in {"ok", "raise", "spin"}
  BY DEF Outcome
<1>5. s.queue \o r.plots \in Plots /\ s.shown \o r.plots \in Plots
  BY <1>1, <1>4, PlotsJoin
<1>6. CASE p[1] = 2
  <2>1. Handle(c, s, p) = [data |-> r.data, queue |-> s.queue \o r.plots, heard |-> s.heard \o y,
                           shown |-> s.shown \o r.plots, raised |-> s.raised \/ r.end = "raise", end |-> r.end]
    <3>1. Handle(c, s, p) = Parsed(s, y)[r]
      BY <1>6 DEF Handle
    <3> QED BY <3>1 DEF Parsed
  <2>2. (s.raised \/ r.end = "raise") \in BOOLEAN
    BY <1>1
  <2>3. Handle(c, s, p) \in Work
    BY <1>3, <1>4, <1>5, <2>1, <2>2 DEF Work
  <2>4. /\ From(p, NetHeaderLen) \in Bytes /\ s.data \o From(p, NetHeaderLen) \in Bytes
        /\ Parse(c)[s.data \o From(p, NetHeaderLen)] \in Outcome
    BY <1>2, <1>3, ParseIs
  <2> QED BY <2>3, <2>4
<1>7. CASE p[1] = 99
  <2>1. <<>> \in Bytes /\ <<>> \in Plots
    BY EmptySeq DEF Bytes, Plots
  <2>2. Handle(c, s, p) = [s EXCEPT !.data = <<>>, !.heard = <<>>, !.shown = <<>>, !.raised = FALSE]
    BY <1>7 DEF Handle
  <2>3. p[1] # 2
    BY <1>7
  <2>4. Handle(c, s, p) \in Work
    BY <2>1, <2>2 DEF Work
  <2> QED BY <2>3, <2>4
<1>8. CASE p[1] \notin {2, 99}
  BY <1>8 DEF Handle
<1> QED BY <1>6, <1>7, <1>8

(* A packet at the head of the buffer is taken whole *)
LEMMA PacketTaken ==
  ASSUME NEW b \in Bytes, Whole(b), NEW n, n = NetHeaderLen + b[2]
  PROVE  /\ n \in 0 .. Len(b) /\ n >= NetHeaderLen /\ n \in Nat
         /\ Slice(b, 0, n) = Take(b, n) /\ Take(b, n) \in PacketSet /\ From(b, n) \in Bytes
         /\ Len(From(b, n)) = Len(b) - n /\ Take(b, n) \o From(b, n) = b
<1>0. b \in Seq(Nat) /\ Len(b) \in Nat /\ NetHeaderLen = 2
  BY LenProperties DEF Bytes, NetHeaderLen
<1>1. Len(b) >= 2 /\ Len(b) >= n
  BY <1>0 DEF Whole
<1>2. 1 \in 1 .. Len(b) /\ 2 \in 1 .. Len(b)
  BY <1>0, <1>1
<1>3. b[2] \in Nat
  BY <1>0, <1>2, ElementOfSeq
<1>4. n = 2 + b[2]
  BY <1>0
<1>5. n \in 0 .. Len(b) /\ n >= 2 /\ n \in Nat /\ 0 =< n /\ n =< Len(b) /\ n - 0 = n
  BY <1>0, <1>1, <1>3, <1>4
<1>6. Slice(b, 0, n) = Take(From(b, 0), n)
  <2>1. Slice(b, 0, n) = Take(From(b, 0), n - 0)
    BY <1>0, <1>5, SliceIsTake
  <2> QED BY <1>5, <2>1
<1>7. Slice(b, 0, n) = Take(b, n)
  BY <1>0, <1>6, FromZero
<1>8. /\ Take(b, n) \in Seq(Nat) /\ Len(Take(b, n)) = n /\ \A i \in 1 .. n : Take(b, n)[i] = b[i]
      /\ From(b, n) \in Seq(Nat) /\ Len(From(b, n)) = Len(b) - n /\ Take(b, n) \o From(b, n) = b
  BY <1>0, <1>5, TakeProperties, FromProperties, TakeAndFrom
<1>9. 2 \in 1 .. n
  BY <1>5
<1>10. Take(b, n)[2] = b[2]
  BY <1>8, <1>9
<1> QED BY <1>0, <1>4, <1>5, <1>7, <1>8, <1>10 DEF PacketSet, Bytes

LEMMA NextPacketType ==
  ASSUME NEW c
  PROVE  NextPacket(c) \in [PacketWalk -> PacketWalk]
<1> DEFINE after(w) == LET size == NetHeaderLen + w.net[2]
                           p == Slice(w.net, 0, size)
                       IN [net |-> From(w.net, size), s |-> Handle(c, w.s, p), handled |-> Append(w.handled, p)]
           next(w) == IF w.s.end # "ok" \/ ~Whole(w.net) THEN w ELSE after(w)
<1>1. NextPacket(c) = [w \in PacketWalk |-> next(w)]
  BY DEF NextPacket
<1>2. ASSUME NEW w \in PacketWalk, Whole(w.net) PROVE after(w) \in PacketWalk
  <2>0. w.net \in Bytes /\ w.s \in Work /\ w.handled \in Seq(Bytes)
    BY DEF PacketWalk
  <2> PICK n, p : n = NetHeaderLen + w.net[2] /\ p = Slice(w.net, 0, n)
    OBVIOUS
  <2>1. p \in PacketSet /\ From(w.net, n) \in Bytes
    BY <1>2, <2>0, PacketTaken
  <2>2. p \in Bytes /\ Len(p) >= NetHeaderLen
    BY <2>1 DEF PacketSet
  <2>3. Handle(c, w.s, p) \in Work
    BY <2>0, <2>2, HandleType
  <2>4. Append(w.handled, p) \in Seq(Bytes)
    BY <2>0, <2>2, AppendProperties
  <2>5. after(w) = [net |-> From(w.net, n), s |-> Handle(c, w.s, p), handled |-> Append(w.handled, p)]
    OBVIOUS
  <2> HIDE DEF after
  <2> QED BY <2>1, <2>3, <2>4, <2>5 DEF PacketWalk
<1> HIDE DEF after
<1>3. \A w \in PacketWalk : next(w) \in PacketWalk
  BY <1>2
<1> QED BY <1>1, <1>3

Turns(w) == Len(w.net) \div NetHeaderLen

LEMMA TurnsOf ==
  ASSUME NEW w \in PacketWalk
  PROVE  /\ Len(w.net) \in Nat /\ Turns(w) \in Nat /\ Len(w.net) - 2 * Turns(w) =< 1
<1>1. Len(w.net) \in Nat
  BY LenProperties DEF PacketWalk, Bytes
<1>2. \A m \in Nat : m \div 2 \in Nat /\ m - 2 * (m \div 2) =< 1
  OBVIOUS
<1> QED BY <1>1, <1>2 DEF NetHeaderLen, Turns

Course(g, n, c, w) == IsCourse(g, PacketWalk, w, NextPacket(c), n)

(* process_net_buffer, turn by turn *)
LEMMA ProcessTurns ==
  ASSUME NEW c, NEW w \in PacketWalk
  PROVE  \E g : Course(g, Turns(w), c, w) /\ Process(c)[w] = g[Turns(w)]
<1>2. Turns(w) \in Nat
  BY TurnsOf
<1>3. NextPacket(c) \in [PacketWalk -> PacketWalk]
  BY NextPacketType
<1> DEFINE g == CHOOSE g : Iteration(g, w, NextPacket(c), Turns(w))
<1>4. Process(c)[w] = g[Turns(w)]
  BY DEF Process, Iteration, Turns
<1>5. IsCourse(g, PacketWalk, w, NextPacket(c), Turns(w))
  BY <1>2, <1>3, Iterated
<1> HIDE DEF g
<1> QED BY <1>4, <1>5 DEF Course

(* What a turn does not leave, the loop does not leave *)
LEMMA ProcessKeeps ==
  ASSUME NEW c, NEW w \in PacketWalk, NEW T, w \in T, \A v \in PacketWalk : v \in T => NextPacket(c)[v] \in T
  PROVE  Process(c)[w] \in T /\ Process(c)[w] \in PacketWalk
<1> PICK n \in Nat : n = Turns(w)
  BY TurnsOf
<1>4. PICK g : Course(g, n, c, w) /\ Process(c)[w] = g[n]
  BY ProcessTurns
<1>5. /\ g[0] = w /\ \A i \in 0 .. n : g[i] \in PacketWalk
      /\ \A i \in 0 .. n : i # 0 => g[i] = NextPacket(c)[g[i - 1]]
      /\ Process(c)[w] = g[n]
  BY <1>4 DEF Course, IsCourse
<1> DEFINE K == {m \in Nat : m =< n => g[m] \in T}
<1>6. 0 \in K
  BY <1>5
<1>7. ASSUME NEW m \in Nat, m \in K PROVE m + 1 \in K
  <2> SUFFICES ASSUME m + 1 =< n PROVE g[m + 1] \in T
    OBVIOUS
  <2>1. m + 1 \in 0 .. n /\ m \in 0 .. n /\ m + 1 # 0 /\ (m + 1) - 1 = m /\ m =< n
    OBVIOUS
  <2>2. g[m + 1] = NextPacket(c)[g[m]] /\ g[m] \in PacketWalk /\ g[m] \in T
    BY <1>5, <1>7, <2>1
  <2> QED BY <2>2
<1> HIDE DEF K
<1>8. n \in K
  BY <1>6, <1>7, SetInduction
<1>9. n \in 0 .. n
  OBVIOUS
<1> QED BY <1>5, <1>8, <1>9 DEF K

(* The turns are enough: what is left holds no whole packet *)
LEMMA ProcessEnds ==
  ASSUME NEW c, NEW w \in PacketWalk, Process(c)[w].s.end = "ok"
  PROVE  ~Whole(Process(c)[w].net)
<1> PICK n \in Nat : n = Turns(w)
  BY TurnsOf
<1> PICK l \in Nat : l = Len(w.net) /\ l - 2 * n =< 1
  BY TurnsOf
<1>0. PICK g : Course(g, n, c, w) /\ Process(c)[w] = g[n]
  BY ProcessTurns
<1>1. /\ g[0] = w /\ \A i \in 0 .. n : g[i] \in PacketWalk
      /\ \A i \in 0 .. n : i # 0 => g[i] = NextPacket(c)[g[i - 1]]
      /\ Process(c)[w] = g[n]
  BY <1>0 DEF Course, IsCourse
<1> DEFINE Stopped(v) == v.s.end # "ok" \/ ~Whole(v.net)
           Left(v, m) == Stopped(v) \/ Len(v.net) + 2 * m =< l
           K == {m \in Nat : m =< n => Left(g[m], m)}
<1>11. Left(g[0], 0)
  BY <1>1
<1> HIDE DEF Left
<1>2. 0 \in K
  BY <1>11
<1>3. ASSUME NEW m \in Nat, m \in K PROVE m + 1 \in K
  <2> SUFFICES ASSUME m + 1 =< n PROVE Left(g[m + 1], m + 1)
    OBVIOUS
  <2>1. m + 1 \in 0 .. n /\ m \in 0 .. n /\ m + 1 # 0 /\ (m + 1) - 1 = m /\ m =< n
    OBVIOUS
  <2>2. PICK v \in PacketWalk : v = g[m]
    BY <1>1, <2>1
  <2>3. g[m + 1] = NextPacket(c)[v]
    BY <1>1, <2>1, <2>2
  <2>4. Stopped(v) \/ Len(v.net) + 2 * m =< l
    <3>1. Left(v, m)
      BY <1>3, <2>1, <2>2
    <3> QED BY <3>1 DEF Left
  <2>5. CASE Stopped(v)
    <3>1. NextPacket(c)[v] = v
      BY <2>5 DEF NextPacket
    <3> QED BY <2>3, <2>5, <3>1 DEF Left
  <2>6. CASE ~Stopped(v)
    <3> PICK k : k = NetHeaderLen + v.net[2]
      OBVIOUS
    <3>1. v.net \in Bytes /\ Whole(v.net)
      BY <2>6 DEF PacketWalk
    <3>2. k \in Nat /\ k >= 2 /\ Len(From(v.net, k)) = Len(v.net) - k
      BY <3>1, PacketTaken DEF NetHeaderLen
    <3>3. NextPacket(c)[v].net = From(v.net, k)
      BY <2>6 DEF NextPacket
    <3>4. Len(v.net) \in Nat /\ Len(v.net) + 2 * m =< l
      BY <2>4, <2>6, <3>1, LenProperties DEF Bytes
    <3> PICK a \in Nat : a = Len(v.net)
      BY <3>4
    <3>5. (a - k) + 2 * (m + 1) =< l
      <4>1. ASSUME NEW x \in Nat, NEW y \in Nat, NEW z \in Nat, NEW q \in Nat, z >= 2, x + 2 * y =< q
            PROVE  (x - z) + 2 * (y + 1) =< q
        BY <4>1
      <4> QED BY <3>2, <3>4, <4>1
    <3> QED BY <2>3, <3>2, <3>3, <3>5 DEF Left
  <2> QED BY <2>5, <2>6
<1> HIDE DEF K
<1>4. n \in K
  BY <1>2, <1>3, SetInduction
<1>5. Stopped(g[n]) \/ Len(g[n].net) + 2 * n =< l
  BY <1>4 DEF K, Left
<1>6. CASE Stopped(g[n])
  BY <1>1, <1>6
<1>7. CASE Len(g[n].net) + 2 * n =< l
  <2>1. n \in 0 .. n
    OBVIOUS
  <2>2. Len(g[n].net) \in Nat
    BY <1>1, <2>1, LenProperties DEF PacketWalk, Bytes
  <2>3. Len(g[n].net) < 2
    BY <1>7, <2>2, SMTT(40)
  <2>4. ~Whole(g[n].net)
    BY <2>2, <2>3 DEF Whole, NetHeaderLen
  <2> QED BY <1>1, <2>4
<1> QED BY <1>5, <1>6, <1>7

LEMMA ProcessType ==
  ASSUME NEW c, NEW w \in PacketWalk
  PROVE  Process(c)[w] \in PacketWalk
<1>1. \A v \in PacketWalk : v \in PacketWalk => NextPacket(c)[v] \in PacketWalk
  BY NextPacketType
<1> QED BY <1>1, ProcessKeeps

-----------------------------------------------------------------------------
(* Types *)

ClientTypeInv ==
  /\ kind \in {"claude", "client", "tcp", "udp"}
  /\ thread \in {"connecting", "receiving", "ended", "spinning"} /\ running \in BOOLEAN
  /\ net \in Bytes /\ data \in Bytes /\ heard \in Bytes /\ radar \in Bytes
  /\ queue \in Plots /\ shown \in Plots /\ drawn \in Plots
  /\ raised \in BOOLEAN /\ foreign \in BOOLEAN /\ intact \in BOOLEAN
  /\ due \in Seq(PacketSet)
  /\ wire \in IF kind = "udp" THEN Seq(PacketSet) ELSE Bytes

LEMMA HereType ==
  ASSUME ClientTypeInv
  PROVE  Here \in Work
BY DEF ClientTypeInv, Here, Work

LEMMA BecameType ==
  ASSUME NEW s \in Work, Became(s)
  PROVE  data' \in Bytes /\ queue' \in Plots /\ heard' \in Bytes /\ shown' \in Plots /\ raised' \in BOOLEAN
BY DEF Work, Became

LEMMA AfterType ==
  ASSUME NEW c, NEW e \in {"ok", "raise", "spin"}
  PROVE  After(c, e) \in {"connecting", "receiving", "ended", "spinning"}
<1>1. CASE e = "spin"
  BY <1>1 DEF After
<1>2. CASE e = "ok"
  BY <1>2 DEF After
<1>3. CASE e = "raise" /\ c # "udp"
  BY <1>3 DEF After
<1>4. CASE e = "raise" /\ c = "udp"
  BY <1>4 DEF After
<1> QED BY <1>1, <1>2, <1>3, <1>4

LEMMA InitIsTyped == Init => ClientTypeInv
<1> SUFFICES ASSUME Init PROVE ClientTypeInv
  OBVIOUS
<1>1. stream \in Seq([bytes : Seq(Nat), plots : Seq([type : Nat, data : Seq(Nat)])])
  BY ClientAssumption DEF Init
<1> DEFINE b == [i \in 1 .. Len(stream) |-> stream[i].bytes]
<1>2. Len(stream) \in Nat /\ \A i \in 1 .. Len(stream) : stream[i] \in [bytes : Seq(Nat), plots : Seq([type : Nat, data : Seq(Nat)])]
  <2>1. ASSUME NEW S, stream \in Seq(S) PROVE Len(stream) \in Nat /\ \A i \in 1 .. Len(stream) : stream[i] \in S
    BY <2>1, LenProperties, ElementOfSeq
  <2> QED BY <1>1, <2>1
<1>3. ASSUME NEW i \in 1 .. Len(stream) PROVE stream[i].bytes \in Seq(Nat)
  BY <1>2
<1>4. b \in Seq(Seq(Nat))
  <2>1. b \in [1 .. Len(stream) -> Seq(Nat)]
    BY <1>3
  <2>2. \A S, n \in Nat : [1 .. n -> S] \subseteq Seq(S)
    BY SeqDef
  <2> QED BY <1>2, <2>1, <2>2
<1>5. radar = FlattenSeq(b)
  BY DEF Init, BytesOf
<1> HIDE DEF b
<1>6. radar \in Bytes
  BY <1>4, <1>5, FlattenType DEF Bytes
<1>7. <<>> \in Bytes /\ <<>> \in Plots /\ <<>> \in Seq(PacketSet)
  BY EmptySeq DEF Bytes, Plots
<1> QED BY <1>6, <1>7, ClientAssumption DEF Init, ClientTypeInv

LEMMA WireType ==
  ASSUME ClientTypeInv, NEW p \in PacketSet
  PROVE  OnWire(p) \in IF kind = "udp" THEN Seq(PacketSet) ELSE Bytes
<1>1. CASE kind = "udp"
  <2>1. wire \in Seq(PacketSet)
    BY <1>1 DEF ClientTypeInv
  <2>2. Append(wire, p) \in Seq(PacketSet)
    BY <2>1, AppendProperties
  <2> QED BY <1>1, <2>2 DEF OnWire
<1>2. CASE kind # "udp"
  <2>1. wire \in Bytes /\ p \in Bytes
    BY <1>2 DEF ClientTypeInv, PacketSet
  <2>2. wire \o p \in Bytes
    BY <2>1, ConcatProperties DEF Bytes
  <2> QED BY <1>2, <2>2 DEF OnWire
<1> QED BY <1>1, <1>2

LEMMA ReceiveIsTyped ==
  ASSUME ClientTypeInv, NEW n \in 1 .. Len(wire), Receive(n)
  PROVE  ClientTypeInv'
<1>1. kind # "udp" /\ n =< Len(wire) /\ wire \in Bytes /\ n \in Nat
  BY DEF Receive, ClientTypeInv
<1>2. wire' \in Bytes /\ SubSeq(wire, 1, n) \in Bytes
  <2>1. From(wire, n) \in Bytes /\ Take(wire, n) \in Bytes
    BY <1>1, PartOf DEF Bytes
  <2> QED BY <2>1 DEF Receive, Take
<1> DEFINE w == [net |-> net \o SubSeq(wire, 1, n), s |-> Here, handled |-> <<>>]
<1>3. w \in PacketWalk
  <2>1. net \o SubSeq(wire, 1, n) \in Bytes
    BY <1>2, ConcatProperties DEF ClientTypeInv, Bytes
  <2>2. <<>> \in Seq(Bytes)
    OBVIOUS
  <2> QED BY <2>1, <2>2, HereType DEF PacketWalk
<1> PICK r : r = Process(kind)[w]
  OBVIOUS
<1>4. r \in PacketWalk
  BY <1>3, ProcessType
<1>5. net' = r.net /\ Became(r.s) /\ due' = From(due, Len(r.handled)) /\ foreign' = (foreign \/ ~IsPrefix(r.handled, due))
      /\ thread' = After(kind, r.s.end)
  BY DEF Receive
<1>6. r.net \in Bytes /\ r.s \in Work /\ r.s.end \in {"ok", "raise", "spin"} /\ Len(r.handled) \in Nat
  BY <1>4, LenProperties DEF PacketWalk, Work
<1>7. due' \in Seq(PacketSet)
  BY <1>5, <1>6, PartOf DEF ClientTypeInv
<1>8. foreign' \in BOOLEAN
  BY <1>5 DEF ClientTypeInv
<1>9. thread' \in {"connecting", "receiving", "ended", "spinning"}
  BY <1>5, <1>6, AfterType
<1>10. data' \in Bytes /\ queue' \in Plots /\ heard' \in Bytes /\ shown' \in Plots /\ raised' \in BOOLEAN
  BY <1>5, <1>6, BecameType
<1>11. kind' = kind /\ running' = running /\ drawn' = drawn /\ radar' = radar /\ intact' = intact
  BY DEF Receive, guiVars
<1> QED BY <1>1, <1>2, <1>5, <1>6, <1>7, <1>8, <1>9, <1>10, <1>11 DEF ClientTypeInv

LEMMA DatagramIsTyped ==
  ASSUME ClientTypeInv, NEW i \in 1 .. Len(wire), ReceiveDatagram(i)
  PROVE  ClientTypeInv'
<1>1. kind = "udp" /\ wire \in Seq(PacketSet) /\ Len(wire) \in Nat
  BY LenProperties DEF ReceiveDatagram, ClientTypeInv
<1>2. wire[i] \in PacketSet
  BY <1>1, ElementOfSeq
<1> PICK s : s = Handle(kind, Here, wire[i])
  OBVIOUS
<1>3. s \in Work /\ s.end \in {"ok", "raise", "spin"}
  BY <1>2, HereType, HandleType DEF PacketSet, Work
<1>4. Became(s) /\ thread' = After(kind, s.end) /\ wire' = SubSeq(wire, 1, i - 1) \o From(wire, i) /\ due' = wire'
      /\ intact' = (intact /\ i = 1)
  BY DEF ReceiveDatagram
<1>5. wire' \in Seq(PacketSet)
  <2>1. i \in Nat /\ i - 1 \in Nat /\ i - 1 =< Len(wire)
    BY <1>1
  <2>2. From(wire, i) \in Seq(PacketSet) /\ Take(wire, i - 1) \in Seq(PacketSet)
    BY <1>1, <2>1, PartOf
  <2>3. Take(wire, i - 1) \o From(wire, i) \in Seq(PacketSet)
    BY <2>2, ConcatProperties
  <2> QED BY <1>4, <2>3 DEF Take
<1>6. thread' \in {"connecting", "receiving", "ended", "spinning"}
  BY <1>3, <1>4, AfterType
<1>7. data' \in Bytes /\ queue' \in Plots /\ heard' \in Bytes /\ shown' \in Plots /\ raised' \in BOOLEAN
  BY <1>3, <1>4, BecameType
<1>8. intact' \in BOOLEAN
  BY <1>4 DEF ClientTypeInv
<1>9. kind' = kind /\ running' = running /\ drawn' = drawn /\ radar' = radar /\ foreign' = foreign /\ net' = net
  BY DEF ReceiveDatagram, guiVars
<1> QED BY <1>1, <1>4, <1>5, <1>6, <1>7, <1>8, <1>9 DEF ClientTypeInv

LEMMA NetworkIsTyped ==
  ASSUME ClientTypeInv, Network
  PROVE  ClientTypeInv'
<1>1. ASSUME NEW n \in 1 .. Len(radar), ServerSends(n) PROVE ClientTypeInv'
  <2>1. radar \in Bytes /\ n \in Nat /\ n =< Len(radar)
    BY DEF ClientTypeInv
  <2>2. From(radar, n) \in Bytes /\ SubSeq(radar, 1, n) \in Bytes
    <3>1. From(radar, n) \in Bytes /\ Take(radar, n) \in Bytes
      BY <2>1, PartOf DEF Bytes
    <3> QED BY <3>1 DEF Take
  <2>3. Packet(2, SubSeq(radar, 1, n)) \in PacketSet
    BY <2>2, PacketIs
  <2>4. wire' \in IF kind = "udp" THEN Seq(PacketSet) ELSE Bytes
    <3>1. CASE link = "up"
      BY <1>1, <2>3, <3>1, WireType DEF ServerSends
    <3>2. CASE link # "up"
      BY <1>1, <3>2 DEF ServerSends, ClientTypeInv
    <3> QED BY <3>1, <3>2
  <2>5. due' \in Seq(PacketSet)
    <3>1. CASE link = "up"
      <4>1. Append(due, Packet(2, SubSeq(radar, 1, n))) \in Seq(PacketSet)
        BY <2>3, AppendProperties DEF ClientTypeInv
      <4> QED BY <1>1, <3>1, <4>1 DEF ServerSends
    <3>2. CASE link # "up"
      BY <1>1, <3>2 DEF ServerSends, ClientTypeInv
    <3> QED BY <3>1, <3>2
  <2>6. /\ kind' = kind /\ thread' = thread /\ running' = running /\ net' = net /\ data' = data /\ heard' = heard
        /\ queue' = queue /\ shown' = shown /\ drawn' = drawn /\ raised' = raised /\ foreign' = foreign /\ intact' = intact
        /\ radar' = From(radar, n)
    BY <1>1 DEF ServerSends, threadVars, guiVars
  <2> QED BY <2>2, <2>4, <2>5, <2>6 DEF ClientTypeInv
<1>2. CASE ServerAcks
  <2>1. wire' \in IF kind = "udp" THEN Seq(PacketSet) ELSE Bytes
    <3>1. PICK p \in {System, Packet(1, <<7>>) \o System} : (kind = "udp" => p = System) /\ wire' = OnWire(p)
      BY <1>2 DEF ServerAcks
    <3>2. CASE p = System
      BY <3>1, <3>2, AnswersAre, WireType
    <3>3. CASE p # System
      <4>1. kind # "udp" /\ p \in Bytes /\ wire \in Bytes
        BY <3>1, <3>3, AnswersAre DEF ClientTypeInv
      <4>2. wire \o p \in Bytes
        BY <4>1, ConcatProperties DEF Bytes
      <4> QED BY <3>1, <4>1, <4>2 DEF OnWire
    <3> QED BY <3>2, <3>3
  <2>2. due' \in Seq(PacketSet)
    <3>1. <<System>> \in Seq(PacketSet) /\ <<Packet(1, <<7>>), System>> \in Seq(PacketSet) /\ due \in Seq(PacketSet)
      BY AnswersAre DEF ClientTypeInv
    <3>2. due \o <<System>> \in Seq(PacketSet) /\ due \o <<Packet(1, <<7>>), System>> \in Seq(PacketSet)
      BY <3>1, ConcatProperties
    <3>3. due' = due \o <<System>> \/ due' = due \o <<Packet(1, <<7>>), System>>
      BY <1>2 DEF ServerAcks
    <3> QED BY <3>2, <3>3
  <2>3. /\ kind' = kind /\ thread' = thread /\ running' = running /\ net' = net /\ data' = data /\ heard' = heard
        /\ queue' = queue /\ shown' = shown /\ drawn' = drawn /\ raised' = raised /\ foreign' = foreign /\ intact' = intact
        /\ radar' = radar
    BY <1>2 DEF ServerAcks, threadVars, guiVars
  <2> QED BY <2>1, <2>2, <2>3 DEF ClientTypeInv
<1>3. CASE LoseDatagram
  <2>1. kind = "udp" /\ wire \in Seq(PacketSet) /\ wire # <<>>
    BY <1>3 DEF LoseDatagram, ClientTypeInv
  <2>2. wire' \in Seq(PacketSet) /\ due' = wire' /\ intact' = FALSE
    BY <1>3, <2>1, HeadTailProperties DEF LoseDatagram
  <2>3. /\ kind' = kind /\ thread' = thread /\ running' = running /\ net' = net /\ data' = data /\ heard' = heard
        /\ queue' = queue /\ shown' = shown /\ drawn' = drawn /\ raised' = raised /\ foreign' = foreign /\ radar' = radar
    BY <1>3 DEF LoseDatagram, threadVars, guiVars
  <2> QED BY <2>1, <2>2, <2>3 DEF ClientTypeInv
<1>4. CASE KeepaliveFails
  BY <1>4 DEF KeepaliveFails, ClientTypeInv, guiVars, envVars, history
<1>5. ASSUME NEW n \in Cuts(Len(wire)), Break(n) PROVE ClientTypeInv'
  <2>1. kind # "udp" /\ wire \in Bytes /\ Len(wire) \in Nat
    BY <1>5, LenProperties DEF Break, ClientTypeInv, Bytes
  <2>2. n \in Nat /\ n =< Len(wire)
    <3>1. \A m \in Nat : m \div 2 \in Nat /\ m \div 2 =< m /\ m =< m
      OBVIOUS
    <3> QED BY <2>1, <3>1 DEF Cuts
  <2>3. wire' \in Bytes
    <3>1. Take(wire, n) \in Bytes
      BY <2>1, <2>2, PartOf DEF Bytes
    <3> QED BY <1>5, <3>1 DEF Break, Take
  <2>4. /\ kind' = kind /\ thread' = thread /\ running' = running /\ net' = net /\ data' = data /\ heard' = heard
        /\ queue' = queue /\ shown' = shown /\ drawn' = drawn /\ raised' = raised /\ foreign' = foreign /\ radar' = radar
        /\ intact' = intact /\ due' = due
    BY <1>5 DEF Break, threadVars, guiVars, history
  <2> QED BY <2>1, <2>3, <2>4 DEF ClientTypeInv
<1> QED BY <1>1, <1>2, <1>3, <1>4, <1>5 DEF Network

LEMMA StepIsTyped == ClientTypeInv /\ [Next]_vars => ClientTypeInv'
<1> SUFFICES ASSUME ClientTypeInv, [Next]_vars PROVE ClientTypeInv'
  OBVIOUS
<1>1. CASE Timeout
  <2>1. thread' \in {"connecting", "receiving", "ended", "spinning"}
    BY <1>1, AfterType DEF Timeout
  <2> QED BY <1>1, <2>1 DEF Timeout, ClientTypeInv, guiVars, envVars, history
<1>2. CASE Lost
  <2>1. <<>> \in Bytes /\ kind # "udp" /\ wire' = <<>>
    BY <1>2, EmptySeq DEF Lost, Bytes
  <2> QED BY <1>2, <2>1 DEF Lost, ClientTypeInv, guiVars, history
<1>3. CASE Connected
  <2>1. <<>> \in Bytes /\ <<>> \in Seq(PacketSet) /\ wire' = <<>> /\ due' = <<>>
    BY <1>3, EmptySeq DEF Connected, Bytes
  <2>2. intact' \in BOOLEAN
    BY <1>3 DEF Connected, ClientTypeInv
  <2> QED BY <1>3, <2>1, <2>2 DEF Connected, ClientTypeInv, guiVars
<1>4. CASE Refused
  BY <1>4 DEF Refused, ClientTypeInv, guiVars, envVars, history
<1>5. CASE Open
  BY <1>5 DEF Open, ClientTypeInv, envVars, history
<1>6. CASE Draw
  <2>1. <<>> \in Plots /\ drawn \o queue \in Plots
    <3>1. drawn \in Plots /\ queue \in Plots
      BY DEF ClientTypeInv
    <3> QED BY <3>1, PlotsJoin, PlotsAssociate
  <2> QED BY <1>6, <2>1 DEF Draw, ClientTypeInv, threadVars, envVars, history
<1>7. CASE Close
  BY <1>7 DEF Close, ClientTypeInv, envVars, history
<1>8. CASE Joined
  BY <1>8 DEF Joined, ClientTypeInv, threadVars, envVars, history
<1>9. CASE UNCHANGED vars
  BY <1>9 DEF vars, ClientTypeInv, threadVars, guiVars, envVars, history
<1> QED BY <1>1, <1>2, <1>3, <1>4, <1>5, <1>6, <1>7, <1>8, <1>9, ReceiveIsTyped, DatagramIsTyped, NetworkIsTyped
       DEF Next, Worker

-----------------------------------------------------------------------------
(* The plots are those of the bytes read at once *)

(* After the bytes h and the plots s, keeping d does for whatever follows *)
Splits(c, h, s, d) ==
  \A x \in Bytes : Scan(c, h \o x).plots = s \o Scan(c, d \o x).plots

LEMMA SplitsMore ==
  ASSUME NEW c, NEW h \in Bytes, NEW s \in Plots, NEW d \in Bytes, Splits(c, h, s, d), NEW y \in Bytes,
         NEW r \in Outcome, Is(r, Parse(c)[d \o y])
  PROVE  /\ s \o r.plots = Scan(c, h \o y).plots
         /\ r.end = "ok" => Splits(c, h \o y, s \o r.plots, r.data)
<1>0. ASSUME NEW a \in Bytes, NEW b \in Bytes PROVE a \o b \in Bytes
  BY ConcatProperties DEF Bytes
<1>1. d \o y \in Bytes /\ h \o y \in Bytes
  BY <1>0
<1>2. r.plots = Scan(c, d \o y).plots /\ r.end = Scan(c, d \o y).end /\ (r.end = "ok" => r.data = Scan(c, d \o y).data)
  BY <1>1, ParseIs DEF Is
<1>3. s \o r.plots = Scan(c, h \o y).plots
  BY <1>2 DEF Splits
<1>4. r.plots \in Plots /\ r.data \in Bytes
  BY DEF Outcome
<1>5. ASSUME r.end = "ok", NEW x \in Bytes
      PROVE  Scan(c, (h \o y) \o x).plots = (s \o r.plots) \o Scan(c, r.data \o x).plots
  <2>1. (h \o y) \o x = h \o (y \o x) /\ (d \o y) \o x = d \o (y \o x)
    BY BytesAssociate, ZenonT(40) DEF Bytes
  <2>2. Scan(c, h \o (y \o x)).plots = s \o Scan(c, d \o (y \o x)).plots
    <3>1. y \o x \in Bytes
      BY <1>0
    <3> QED BY <3>1 DEF Splits
  <2>3. Scan(c, (d \o y) \o x).plots = Scan(c, d \o y).plots \o Scan(c, Scan(c, d \o y).data \o x).plots
    <3>1. \A b \in Bytes : Scan(c, b).end = "ok" =>
            Scan(c, b \o x).plots = Scan(c, b).plots \o Scan(c, Scan(c, b).data \o x).plots
      BY ChunkLemma, ZenonT(40)
    <3>2. Scan(c, d \o y).end = "ok"
      BY <1>2, <1>5
    <3> QED BY <1>1, <3>1, <3>2, Zenon
  <2>4. Scan(c, d \o y).data = r.data
    BY <1>2, <1>5
  <2>5. Scan(c, r.data \o x).plots \in Plots
    <3>1. r.data \o x \in Bytes
      BY <1>0, <1>4
    <3> QED BY <3>1, ScanType DEF Outcome
  <2>6. PICK q, z : Is(q, r.plots) /\ Is(z, Scan(c, r.data \o x).plots)
    BY DEF Is
  <2>7. q \in Plots /\ z \in Plots
    BY <1>4, <2>5, <2>6 DEF Is
  <2>8. (s \o q) \o z = s \o (q \o z)
    BY <2>7, PlotsAssociate
  <2>9. Scan(c, (d \o y) \o x).plots = q \o z
    BY <1>2, <2>3, <2>4, <2>6 DEF Is
  <2>10. Scan(c, (h \o y) \o x).plots = s \o (q \o z)
    BY <2>1, <2>2, <2>9
  <2> QED BY <2>6, <2>8, <2>10 DEF Is
<1> QED BY <1>3, <1>5 DEF Splits

LEMMA NothingSplits ==
  ASSUME NEW c
  PROVE  Splits(c, <<>>, <<>>, <<>>) /\ Scan(c, <<>>).plots = <<>>
<1>1. <<>> \in Bytes /\ Len(<<>>) = 0
  BY EmptySeq DEF Bytes
<1>2. 0 < MinScan
  BY DEF MinScan, HeaderLen, TlvHeaderLen
<1>3. Scan(c, <<>>).plots = <<>>
  BY <1>1, <1>2, ShortWaits
<1>4. ASSUME NEW x \in Bytes PROVE Scan(c, <<>> \o x).plots = <<>> \o Scan(c, <<>> \o x).plots
  <2>1. <<>> \o x \in Bytes
    BY <1>1, ConcatProperties DEF Bytes
  <2>2. Scan(c, <<>> \o x).plots \in Plots
    BY <2>1, ScanType DEF Outcome
  <2> QED BY <2>2, PlotsAssociate
<1> QED BY <1>3, <1>4 DEF Splits

(* The thread's buffers while they are read *)
Reading(c, s) ==
  /\ s.end = "raise" => s.raised
  /\ ~s.raised => /\ s.shown = Scan(c, s.heard).plots
                  /\ s.end = "ok" => Splits(c, s.heard, s.shown, s.data)

LEMMA ParsedReads ==
  ASSUME NEW c, NEW s \in Work, s.end = "ok", Reading(c, s), NEW y \in Bytes
  PROVE  \A r \in Outcome : Is(r, Parse(c)[s.data \o y]) => Reading(c, Parsed(s, y)[r])
<1> TAKE r \in Outcome
<1> HAVE Is(r, Parse(c)[s.data \o y])
<1>1. s.data \in Bytes /\ s.heard \in Bytes /\ s.shown \in Plots /\ s.queue \in Plots /\ s.raised \in BOOLEAN
  BY DEF Work
<1>2. PICK h : Is(h, Parsed(s, y)[r])
  BY DEF Is
<1>3. h = [data |-> r.data, queue |-> s.queue \o r.plots, heard |-> s.heard \o y,
           shown |-> s.shown \o r.plots, raised |-> s.raised \/ r.end = "raise", end |-> r.end]
  BY <1>2 DEF Parsed, Is
<1>4. h.data = r.data /\ h.heard = s.heard \o y /\ h.shown = s.shown \o r.plots /\ h.end = r.end
  BY <1>3
<1>5. h.raised = (s.raised \/ r.end = "raise")
  BY <1>3
<1>6. ASSUME ~h.raised
      PROVE  h.shown = Scan(c, h.heard).plots /\ (h.end = "ok" => Splits(c, h.heard, h.shown, h.data))
  <2>1. Splits(c, s.heard, s.shown, s.data)
    BY <1>1, <1>5, <1>6 DEF Reading
  <2>2. /\ s.shown \o r.plots = Scan(c, s.heard \o y).plots
        /\ r.end = "ok" => Splits(c, s.heard \o y, s.shown \o r.plots, r.data)
    BY <1>1, <2>1, SplitsMore
  <2> QED BY <1>4, <2>2
<1>7. Reading(c, h)
  BY <1>1, <1>4, <1>5, <1>6 DEF Reading
<1> QED BY <1>2, <1>7 DEF Is

LEMMA HandleReads ==
  ASSUME NEW c, NEW s \in Work, s.end = "ok", Reading(c, s), NEW p \in Bytes, Len(p) >= NetHeaderLen
  PROVE  Reading(c, Handle(c, s, p))
<1>2. CASE p[1] = 2
  <2>1. /\ From(p, NetHeaderLen) \in Bytes /\ s.data \o From(p, NetHeaderLen) \in Bytes
        /\ Parse(c)[s.data \o From(p, NetHeaderLen)] \in Outcome
    BY <1>2, HandleType
  <2>2. Handle(c, s, p) = Parsed(s, From(p, NetHeaderLen))[Parse(c)[s.data \o From(p, NetHeaderLen)]]
    BY <1>2 DEF Handle
  <2> QED BY <2>1, <2>2, ParsedReads DEF Is
<1>3. CASE p[1] = 99
  <2>1. Handle(c, s, p) = [s EXCEPT !.data = <<>>, !.heard = <<>>, !.shown = <<>>, !.raised = FALSE]
    BY <1>3 DEF Handle
  <2>2. PICK h : Is(h, Handle(c, s, p))
    BY DEF Is
  <2>3. h.data = <<>> /\ h.heard = <<>> /\ h.shown = <<>> /\ h.raised = FALSE /\ h.end = s.end
    BY <2>1, <2>2 DEF Work, Is
  <2>4. Reading(c, h)
    BY <2>3, NothingSplits DEF Reading
  <2> QED BY <2>2, <2>4 DEF Is
<1>4. CASE p[1] \notin {2, 99}
  BY <1>4 DEF Handle
<1> QED BY <1>2, <1>3, <1>4

LEMMA ProcessReads ==
  ASSUME NEW c, NEW w \in PacketWalk, Reading(c, w.s)
  PROVE  Reading(c, Process(c)[w].s) /\ Process(c)[w].s \in Work
<1> DEFINE T == {v \in PacketWalk : Reading(c, v.s)}
<1>1. ASSUME NEW v \in PacketWalk, v \in T PROVE NextPacket(c)[v] \in T
  <2> PICK u : u = NextPacket(c)[v]
    OBVIOUS
  <2>1. u \in PacketWalk
    BY NextPacketType
  <2>2. CASE v.s.end # "ok" \/ ~Whole(v.net)
    <3>1. u = v
      BY <2>2 DEF NextPacket
    <3> QED BY <1>1, <3>1
  <2>3. CASE ~(v.s.end # "ok" \/ ~Whole(v.net))
    <3> PICK n, p : n = NetHeaderLen + v.net[2] /\ p = Slice(v.net, 0, n)
      OBVIOUS
    <3>1. v.net \in Bytes /\ v.s \in Work
      BY DEF PacketWalk
    <3>2. p \in PacketSet
      BY <2>3, <3>1, PacketTaken
    <3>3. p \in Bytes /\ Len(p) >= NetHeaderLen
      BY <3>2 DEF PacketSet
    <3>4. u.s = Handle(c, v.s, p)
      BY <2>3 DEF NextPacket
    <3>5. Reading(c, Handle(c, v.s, p))
      BY <1>1, <2>3, <3>1, <3>3, HandleReads
    <3> QED BY <2>1, <3>4, <3>5
  <2> QED BY <2>2, <2>3
<1>2. w \in T
  OBVIOUS
<1> HIDE DEF T
<1>3. Process(c)[w] \in T /\ Process(c)[w] \in PacketWalk
  BY <1>1, <1>2, ProcessKeeps
<1> QED BY <1>3 DEF T, PacketWalk

ReadInv ==
  ~raised => /\ shown = Scan(kind, heard).plots
             /\ thread \in {"connecting", "receiving"} => Splits(kind, heard, shown, data)

LEMMA HereReads ==
  ASSUME ClientTypeInv, ReadInv, thread = "receiving"
  PROVE  Reading(kind, Here)
BY DEF ReadInv, Reading, Here

LEMMA BecameReads ==
  ASSUME NEW s \in Work, Reading(kind, s), Became(s), thread' = After(kind, s.end), kind' = kind
  PROVE  ReadInv'
<1>1. data' = s.data /\ heard' = s.heard /\ shown' = s.shown /\ raised' = s.raised
  BY DEF Became
<1> SUFFICES ASSUME ~s.raised
             PROVE  shown' = Scan(kind, heard').plots
                    /\ (thread' \in {"connecting", "receiving"} => Splits(kind, heard', shown', data'))
  BY <1>1 DEF ReadInv
<1>2. s.end # "raise" /\ s.shown = Scan(kind, s.heard).plots /\ (s.end = "ok" => Splits(kind, s.heard, s.shown, s.data))
  BY DEF Reading
<1>3. s.end = "spin" => thread' = "spinning"
  BY DEF After
<1>4. s.end \in {"ok", "raise", "spin"}
  BY DEF Work
<1> QED BY <1>1, <1>2, <1>3, <1>4

LEMMA StepReads == ClientTypeInv /\ ReadInv /\ [Next]_vars => ReadInv'
<1> SUFFICES ASSUME ClientTypeInv, ReadInv, [Next]_vars PROVE ReadInv'
  OBVIOUS
<1>1. ASSUME NEW n \in 1 .. Len(wire), Receive(n) PROVE ReadInv'
  <2>1. kind # "udp" /\ n =< Len(wire) /\ wire \in Bytes /\ n \in Nat /\ thread = "receiving" /\ kind' = kind
    BY <1>1 DEF Receive, ClientTypeInv
  <2> DEFINE w == [net |-> net \o SubSeq(wire, 1, n), s |-> Here, handled |-> <<>>]
  <2>2. w \in PacketWalk
    <3>1. Take(wire, n) \in Bytes
      BY <2>1, PartOf DEF Bytes
    <3>2. net \o SubSeq(wire, 1, n) \in Bytes
      BY <3>1, ConcatProperties DEF ClientTypeInv, Bytes, Take
    <3>3. <<>> \in Seq(Bytes)
      OBVIOUS
    <3> QED BY <3>2, <3>3, HereType DEF PacketWalk
  <2>3. Reading(kind, w.s)
    BY <2>1, HereReads
  <2> PICK r : r = Process(kind)[w]
    OBVIOUS
  <2>4. Reading(kind, r.s) /\ r.s \in Work
    BY <2>2, <2>3, ProcessReads
  <2>5. Became(r.s) /\ thread' = After(kind, r.s.end)
    BY <1>1 DEF Receive
  <2> QED BY <2>1, <2>4, <2>5, BecameReads
<1>2. ASSUME NEW i \in 1 .. Len(wire), ReceiveDatagram(i) PROVE ReadInv'
  <2>1. kind = "udp" /\ wire \in Seq(PacketSet) /\ thread = "receiving" /\ kind' = kind
    BY <1>2 DEF ReceiveDatagram, ClientTypeInv
  <2>2. wire[i] \in PacketSet
    BY <2>1, ElementOfSeq
  <2>3. wire[i] \in Bytes /\ Len(wire[i]) >= NetHeaderLen
    BY <2>2 DEF PacketSet
  <2> PICK s : s = Handle(kind, Here, wire[i])
    OBVIOUS
  <2>4. s \in Work
    BY <2>3, HereType, HandleType
  <2>5. Here.end = "ok" /\ Reading(kind, Here) /\ Here \in Work
    BY <2>1, HereReads, HereType DEF Here
  <2>6. Reading(kind, s)
    BY <2>3, <2>5, HandleReads
  <2>7. Became(s) /\ thread' = After(kind, s.end)
    BY <1>2 DEF ReceiveDatagram
  <2> QED BY <2>1, <2>4, <2>6, <2>7, BecameReads
<1>3. ASSUME UNCHANGED <<kind, data, heard, shown, raised>>,
             thread' \in {"connecting", "receiving"} => thread \in {"connecting", "receiving"}
      PROVE  ReadInv'
  BY <1>3 DEF ReadInv
<1>4. CASE Timeout
  BY <1>3, <1>4 DEF Timeout, history
<1>5. CASE Lost
  BY <1>3, <1>5 DEF Lost, history
<1>6. CASE Connected
  BY <1>3, <1>6 DEF Connected
<1>7. CASE Refused
  BY <1>3, <1>7 DEF Refused, history
<1>8. CASE Network
  <2>1. ASSUME NEW n \in 1 .. Len(radar), ServerSends(n) PROVE ReadInv'
    BY <1>3, <2>1 DEF ServerSends, threadVars
  <2>2. CASE ServerAcks
    BY <1>3, <2>2 DEF ServerAcks, threadVars
  <2>3. CASE LoseDatagram
    BY <1>3, <2>3 DEF LoseDatagram, threadVars
  <2>4. CASE KeepaliveFails
    BY <1>3, <2>4 DEF KeepaliveFails, history
  <2>5. ASSUME NEW n \in Cuts(Len(wire)), Break(n) PROVE ReadInv'
    BY <1>3, <2>5 DEF Break, threadVars, history
  <2> QED BY <1>8, <2>1, <2>2, <2>3, <2>4, <2>5 DEF Network
<1>9. CASE Open
  BY <1>3, <1>9 DEF Open, history
<1>10. CASE Draw
  BY <1>3, <1>10 DEF Draw, threadVars, history
<1>11. CASE Close
  BY <1>3, <1>11 DEF Close, history
<1>12. CASE Joined
  BY <1>3, <1>12 DEF Joined, threadVars, history
<1>13. CASE UNCHANGED vars
  BY <1>3, <1>13 DEF vars, threadVars, history
<1> QED BY <1>1, <1>2, <1>4, <1>5, <1>6, <1>7, <1>8, <1>9, <1>10, <1>11, <1>12, <1>13 DEF Next, Worker

(* The types, and what the plots emitted and the buffer kept are to the    *)
(* bytes handled, hold in every state.                                     *)
THEOREM ClientReads == Spec => [](ClientTypeInv /\ ReadInv)
<1>1. Init => ClientTypeInv /\ ReadInv
  <2>1. Init => ReadInv
    BY NothingSplits DEF Init, ReadInv
  <2> QED BY <2>1, InitIsTyped
<1>2. ClientTypeInv /\ ReadInv /\ [Next]_vars => (ClientTypeInv /\ ReadInv)'
  BY StepIsTyped, StepReads
<1> QED BY <1>1, <1>2, PTL DEF Spec

(* Wherever the server cuts the radar's stream into packets, wherever recv *)
(* cuts the packets, whatever buffers parse_buffer leaves between two      *)
(* calls and whatever datagrams are lost: the plots emitted since the last *)
(* SYSTEM packet are those that parse_buffer gives for the radar bytes     *)
(* handled since then, all at once.                                        *)
THEOREM ClientReadsAtOnce == Spec => []ReadAtOnce
<1>1. ClientTypeInv /\ ReadInv => ReadAtOnce
  BY ParseIs DEF ClientTypeInv, ReadInv, ReadAtOnce
<1> QED BY <1>1, ClientReads, PTL

(* Of packets joined, the first and the others *)
LEMMA PacketsSplit ==
  ASSUME NEW S, NEW a \in Seq(S), NEW c \in Seq(S)
  PROVE  Take(a \o c, Len(a)) = a /\ From(a \o c, Len(a)) = c /\ Len(a) <= Len(a \o c) /\ Len(a) \in Nat
<1> DEFINE u == a \o c
<1>1. /\ u \in Seq(S) /\ Len(u) = Len(a) + Len(c) /\ Len(a) \in Nat /\ Len(c) \in Nat
      /\ \A i \in 1 .. Len(a) + Len(c) : u[i] = IF i <= Len(a) THEN a[i] ELSE c[i - Len(a)]
  BY ConcatProperties, LenProperties
<1> HIDE DEF u
<1>2. \A i \in 1 .. Len(a) : i \in 1 .. Len(a) + Len(c) /\ i <= Len(a)
  BY <1>1
<1>3. \A i \in 1 .. Len(c) : Len(a) + i \in 1 .. Len(a) + Len(c) /\ ~(Len(a) + i <= Len(a)) /\ (Len(a) + i) - Len(a) = i
  BY <1>1
<1>4. Take(u, Len(a)) = a
  <2>1. \A i \in 1 .. Len(a) : u[i] \in S
    BY <1>1, <1>2, ElementOfSeq
  <2>2. /\ SubSeq(u, 1, Len(a)) \in Seq(S)
        /\ Len(SubSeq(u, 1, Len(a))) = IF 1 <= Len(a) THEN Len(a) - 1 + 1 ELSE 0
        /\ \A i \in 1 .. Len(a) - 1 + 1 : SubSeq(u, 1, Len(a))[i] = u[1 + i - 1]
    BY <1>1, <2>1, SubSeqProperties
  <2>3. Len(SubSeq(u, 1, Len(a))) = Len(a)
    BY <1>1, <2>2
  <2>4. \A i \in 1 .. Len(a) : i \in 1 .. Len(a) - 1 + 1 /\ 1 + i - 1 = i
    BY <1>1
  <2>5. \A i \in 1 .. Len(a) : SubSeq(u, 1, Len(a))[i] = a[i]
    BY <1>1, <1>2, <2>2, <2>4
  <2>6. SubSeq(u, 1, Len(a)) = a
    BY <2>2, <2>3, <2>5, SeqEqual
  <2> QED BY <2>6 DEF Take
<1>5. From(u, Len(a)) = c
  <2>1. \A i \in Len(a) + 1 .. Len(u) : u[i] \in S
    <3>1. \A i \in Len(a) + 1 .. Len(u) : i \in 1 .. Len(u)
      BY <1>1
    <3> QED BY <1>1, <3>1, ElementOfSeq
  <2> DEFINE l == Len(a)
             n == Len(u)
             w == SubSeq(u, l + 1, n)
  <2>2. /\ w \in Seq(S)
        /\ Len(w) = IF l + 1 <= n THEN n - (l + 1) + 1 ELSE 0
        /\ \A i \in 1 .. n - (l + 1) + 1 : w[i] = u[(l + 1) + i - 1]
    <3>1. l + 1 \in Int /\ n \in Int
      BY <1>1
    <3> QED BY <2>1, <3>1, SubSeqProperties
  <2> HIDE DEF w
  <2>3. Len(w) = Len(c)
    BY <1>1, <2>2
  <2>4. \A i \in 1 .. Len(c) : i \in 1 .. n - (l + 1) + 1 /\ (l + 1) + i - 1 = l + i
    BY <1>1
  <2>5. \A i \in 1 .. Len(c) : w[i] = u[l + i]
    BY <2>2, <2>4
  <2>6. \A i \in 1 .. Len(c) : w[i] = c[i]
    BY <1>1, <1>3, <2>5
  <2>7. w = c
    BY <2>2, <2>3, <2>6, SeqEqual
  <2> QED BY <2>7 DEF From, w
<1>6. Len(a) <= Len(u)
  BY <1>1
<1> QED BY <1>1, <1>4, <1>5, <1>6 DEF u

LEMMA TwoMore ==
  ASSUME NEW S, NEW d \in Seq(S), NEW a \in S, NEW b \in S
  PROVE  d \o <<a, b>> = Append(Append(d, a), b)
<1> PICK x, y : Is(x, <<a>>) /\ Is(y, <<b>>)
  BY DEF Is
<1>1. x \in Seq(S) /\ y \in Seq(S) /\ Len(x) = 1 /\ Len(y) = 1 /\ x[1] = a /\ y[1] = b
  BY DEF Is
<1>2. <<a, b>> = x \o y
  <2>1. <<a, b>> \in Seq(S) /\ Len(<<a, b>>) = 2 /\ <<a, b>>[1] = a /\ <<a, b>>[2] = b
    OBVIOUS
  <2>2. /\ x \o y \in Seq(S) /\ Len(x \o y) = Len(x) + Len(y)
        /\ \A i \in 1 .. Len(x) + Len(y) : (x \o y)[i] = IF i <= Len(x) THEN x[i] ELSE y[i - Len(x)]
    BY <1>1, ConcatProperties
  <2>3. Len(x \o y) = 2 /\ (x \o y)[1] = a /\ (x \o y)[2] = b
    BY <1>1, <2>2
  <2> PICK z, w : Is(z, <<a, b>>) /\ Is(w, x \o y)
    BY DEF Is
  <2>4. z \in Seq(S) /\ w \in Seq(S) /\ Len(z) = 2 /\ Len(w) = 2 /\ z[1] = w[1] /\ z[2] = w[2]
    BY <2>1, <2>2, <2>3 DEF Is
  <2>5. \A i \in 1 .. Len(z) : z[i] = w[i]
    BY <2>4
  <2>6. z = w
    BY <2>4, <2>5, SeqEqual
  <2> QED BY <2>6 DEF Is
<1>3. Append(d, a) = d \o x /\ d \o x \in Seq(S)
  BY <1>1, AppendIsConcat, ConcatProperties DEF Is
<1>4. Append(d \o x, b) = (d \o x) \o y
  BY <1>3, AppendIsConcat DEF Is
<1>5. (d \o x) \o y = d \o (x \o y)
  BY <1>1, ConcatAssociative
<1> QED BY <1>2, <1>3, <1>4, <1>5

-----------------------------------------------------------------------------
(* Packets cannot be read apart in two ways *)

LEMMA FirstPacket ==
  ASSUME NEW f \in PacketSet, NEW x \in Bytes, NEW g \in PacketSet, NEW y \in Bytes, Is(f \o x, g \o y)
  PROVE  f = g /\ x = y
<1>0. f \o x = g \o y
  BY DEF Is
<1>1. f \in Seq(Nat) /\ g \in Seq(Nat) /\ x \in Seq(Nat) /\ y \in Seq(Nat)
  BY DEF PacketSet, Bytes
<1>2. Len(f) \in Nat /\ Len(f) >= 2 /\ Len(f) = 2 + f[2] /\ Len(g) \in Nat /\ Len(g) >= 2 /\ Len(g) = 2 + g[2]
  BY LenProperties DEF PacketSet, Bytes, NetHeaderLen
<1>3. Take(f \o x, Len(f)) = f /\ Take(g \o y, Len(g)) = g /\ From(f \o x, Len(f)) = x /\ From(g \o y, Len(g)) = y
  BY <1>1, TakeBefore, FromBehind
<1>4. (f \o x)[2] = f[2] /\ (g \o y)[2] = g[2]
  <2>1. \A i \in 1 .. Len(f) + Len(x) : (f \o x)[i] = IF i <= Len(f) THEN f[i] ELSE x[i - Len(f)]
    BY <1>1, ConcatProperties
  <2>2. \A i \in 1 .. Len(g) + Len(y) : (g \o y)[i] = IF i <= Len(g) THEN g[i] ELSE y[i - Len(g)]
    BY <1>1, ConcatProperties
  <2>3. Len(x) \in Nat /\ Len(y) \in Nat
    BY <1>1, LenProperties
  <2>4. 2 \in 1 .. Len(f) + Len(x) /\ 2 \in 1 .. Len(g) + Len(y) /\ 2 <= Len(f) /\ 2 <= Len(g)
    BY <1>2, <2>3
  <2> QED BY <2>1, <2>2, <2>4
<1>5. Len(f) = Len(g)
  BY <1>0, <1>2, <1>4
<1> QED BY <1>0, <1>3, <1>5

LEMMA PacketsType ==
  ASSUME NEW s \in Seq(PacketSet)
  PROVE  /\ s \in Seq(Seq(Nat)) /\ FlattenSeq(s) \in Seq(Nat)
         /\ s # <<>> => \E f \in PacketSet, t \in Seq(PacketSet) : s = <<f>> \o t /\ s[1] = f
<1>1. PacketSet \subseteq Seq(Nat)
  BY DEF PacketSet, Bytes
<1>2. s \in Seq(Seq(Nat))
  BY <1>1, SeqMonotonic
<1>3. ASSUME s # <<>> PROVE \E f \in PacketSet, t \in Seq(PacketSet) : s = <<f>> \o t /\ s[1] = f
  <2>1. Len(s) \in Nat \ {0}
    BY <1>3, EmptySeq
  <2>2. s = SubSeq(s, 1, Len(s))
    BY SubSeqFull
  <2>3. 1 \in 1 .. Len(s) /\ Len(s) \in 1 .. Len(s)
    BY <2>1
  <2>4. s[1] \in PacketSet
    BY <2>3, ElementOfSeq
  <2>5. SubSeq(s, 2, Len(s)) \in Seq(PacketSet)
    <3>1. From(s, 1) \in Seq(PacketSet)
      BY PartOf
    <3> QED BY <3>1 DEF From
  <2>6. s = <<s[1]>> \o SubSeq(s, 2, Len(s))
    BY <1>3, HeadTailProperties
  <2> QED BY <2>4, <2>5, <2>6
<1>4. FlattenSeq(s) \in Seq(Nat)
  BY <1>2, FlattenType
<1> QED BY <1>2, <1>3, <1>4

LEMMA PacketsAssociate ==
  ASSUME NEW x \in Seq(PacketSet), NEW f \in PacketSet, NEW z \in Seq(PacketSet)
  PROVE  Append(x, f) \in Seq(PacketSet) /\ Append(x, f) \o z = x \o (<<f>> \o z)
<1>1. ASSUME NEW S, x \in Seq(S), f \in S, z \in Seq(S)
      PROVE  Append(x, f) \in Seq(S) /\ Append(x, f) \o z = x \o (<<f>> \o z)
  <2>1. <<f>> \in Seq(S) /\ Append(x, f) = x \o <<f>> /\ Append(x, f) \in Seq(S)
    BY <1>1, AppendIsConcat, AppendProperties
  <2>2. (x \o <<f>>) \o z = x \o (<<f>> \o z)
    BY <1>1, <2>1, ConcatAssociative
  <2> QED BY <2>1, <2>2
<1> QED BY <1>1

(* Of the bytes of packets, whole packets taken off leave whole packets *)
LEMMA Decodes ==
  ASSUME NEW h \in Seq(PacketSet), NEW d \in Seq(PacketSet), NEW z \in Bytes, FlattenSeq(h) \o z = FlattenSeq(d)
  PROVE  \E e \in Seq(PacketSet) : d = h \o e /\ z = FlattenSeq(e)
<1> DEFINE Apart(q) == \A v \in Bytes : FlattenSeq(q) \o v = FlattenSeq(d) =>
                         \E e \in Seq(PacketSet) : d = q \o e /\ v = FlattenSeq(e)
           T == {q \in Seq(PacketSet) : Apart(q)}
<1>1. <<>> \in T
  <2>1. \A v \in Bytes : <<>> \o v = v
    BY ConcatEmptySeq DEF Bytes
  <2>2. <<>> \o d = d /\ <<>> \in Seq(PacketSet)
    BY ConcatEmptySeq
  <2> QED BY <2>1, <2>2, FlattenEmpty
<1>2. ASSUME NEW q \in Seq(PacketSet), NEW f \in PacketSet, q \in T PROVE Append(q, f) \in T
  <2>1. f \in Seq(Nat) /\ FlattenSeq(q) \in Seq(Nat) /\ q \in Seq(Seq(Nat)) /\ Append(q, f) \in Seq(PacketSet)
    BY PacketsType, PacketsAssociate, EmptySeq DEF PacketSet, Bytes
  <2>2. FlattenSeq(Append(q, f)) = FlattenSeq(q) \o f
    BY <2>1, FlattenAppend
  <2>3. ASSUME NEW v \in Bytes, FlattenSeq(Append(q, f)) \o v = FlattenSeq(d)
        PROVE  \E e \in Seq(PacketSet) : d = Append(q, f) \o e /\ v = FlattenSeq(e)
    <3>1. v \in Seq(Nat) /\ f \o v \in Bytes
      BY <2>1, ConcatProperties DEF Bytes
    <3>2. FlattenSeq(q) \o (f \o v) = FlattenSeq(d)
      <4>1. (FlattenSeq(q) \o f) \o v = FlattenSeq(q) \o (f \o v)
        BY <2>1, <3>1, BytesAssociate
      <4> QED BY <2>2, <2>3, <4>1
    <3>3. Apart(q)
      BY <1>2
    <3>4. PICK e \in Seq(PacketSet) : d = q \o e /\ f \o v = FlattenSeq(e)
      BY <3>1, <3>2, <3>3
    <3>5. e # <<>>
      <4> SUFFICES ASSUME e = <<>> PROVE FALSE
        OBVIOUS
      <4>1. Len(f \o v) = 0
        BY <3>4, FlattenEmpty
      <4>2. Len(f \o v) = Len(f) + Len(v) /\ Len(v) \in Nat /\ Len(f) \in Nat
        BY <2>1, <3>1, ConcatProperties, LenProperties
      <4>3. Len(f) >= 2
        BY DEF PacketSet, NetHeaderLen
      <4> QED BY <4>1, <4>2, <4>3
    <3>6. PICK g \in PacketSet, t \in Seq(PacketSet) : e = <<g>> \o t
      BY <3>5, PacketsType
    <3>7. g \in Seq(Nat) /\ t \in Seq(Seq(Nat)) /\ FlattenSeq(t) \in Bytes
      BY PacketsType DEF PacketSet, Bytes
    <3>8. FlattenSeq(e) = g \o FlattenSeq(t)
      BY <3>6, <3>7, FlattenFirst
    <3>9. f = g /\ v = FlattenSeq(t)
      <4>1. Is(f \o v, g \o FlattenSeq(t))
        BY <3>4, <3>8 DEF Is
      <4> QED BY <3>6, <3>7, <4>1, FirstPacket
    <3>10. d = Append(q, f) \o t
      BY <3>4, <3>6, <3>9, PacketsAssociate, ZenonT(40)
    <3> QED BY <3>9, <3>10
  <2> QED BY <2>1, <2>3
<1> HIDE DEF T
<1>3. Seq(PacketSet) \subseteq T
  BY <1>1, <1>2, SequenceInduction
<1>4. h \in T
  BY <1>3
<1> QED BY <1>4 DEF T

(* The packets taken off and what is left are what was there *)
LEMMA ProcessHands ==
  ASSUME NEW c, NEW w \in PacketWalk, w.handled = <<>>, NEW r, r = Process(c)[w]
  PROVE  /\ r \in PacketWalk /\ r.handled \in Seq(PacketSet) /\ r.net \in Bytes /\ w.net \in Bytes
         /\ FlattenSeq(r.handled) \o r.net = w.net
<1> DEFINE T == {v \in PacketWalk : v.handled \in Seq(PacketSet) /\ FlattenSeq(v.handled) \o v.net = w.net}
<1>1. w \in T
  <2>1. w.net \in Seq(Nat)
    BY DEF PacketWalk, Bytes
  <2>2. <<>> \o w.net = w.net /\ <<>> \in Seq(PacketSet)
    BY <2>1, ConcatEmptySeq, EmptySeq
  <2> QED BY <2>2, FlattenEmpty
<1>2. ASSUME NEW v \in PacketWalk, v \in T PROVE NextPacket(c)[v] \in T
  <2> PICK u : u = NextPacket(c)[v]
    OBVIOUS
  <2>1. u \in PacketWalk
    BY NextPacketType
  <2>2. CASE v.s.end # "ok" \/ ~Whole(v.net)
    <3>1. u = v
      BY <2>2 DEF NextPacket
    <3> QED BY <1>2, <3>1
  <2>3. CASE ~(v.s.end # "ok" \/ ~Whole(v.net))
    <3> PICK n, p : n = NetHeaderLen + v.net[2] /\ p = Slice(v.net, 0, n)
      OBVIOUS
    <3>1. v.net \in Bytes /\ v.handled \in Seq(PacketSet) /\ FlattenSeq(v.handled) \o v.net = w.net
      BY <1>2 DEF PacketWalk
    <3>2. p \in PacketSet /\ From(v.net, n) \in Bytes /\ p \o From(v.net, n) = v.net
      BY <2>3, <3>1, PacketTaken
    <3>3. u.net = From(v.net, n) /\ u.handled = Append(v.handled, p)
      BY <2>3 DEF NextPacket
    <3>4. FlattenSeq(v.handled) \in Seq(Nat) /\ v.handled \in Seq(Seq(Nat)) /\ p \in Seq(Nat) /\ From(v.net, n) \in Seq(Nat)
      BY <3>1, <3>2, PacketsType DEF PacketSet, Bytes
    <3>5. u.handled \in Seq(PacketSet)
      BY <3>1, <3>2, <3>3, PacketsAssociate, EmptySeq
    <3>6. FlattenSeq(u.handled) = FlattenSeq(v.handled) \o p
      BY <3>3, <3>4, FlattenAppend
    <3>7. (FlattenSeq(v.handled) \o p) \o From(v.net, n) = FlattenSeq(v.handled) \o (p \o From(v.net, n))
      BY <3>4, BytesAssociate, ZenonT(40)
    <3>8. FlattenSeq(u.handled) \o u.net = w.net
      BY <3>1, <3>2, <3>3, <3>6, <3>7
    <3> QED BY <2>1, <3>5, <3>8
  <2> QED BY <2>2, <2>3
<1> HIDE DEF T
<1>3. r \in T /\ r \in PacketWalk
  BY <1>1, <1>2, ProcessKeeps
<1> QED BY <1>3 DEF T, PacketWalk

-----------------------------------------------------------------------------
(* In step with the server *)

(* The buffer holds no whole packet; with what is on the wire, and after a *)
(* break with what the break has cut off, it is the packets due.           *)
Due(rest) == (net \o wire) \o rest = FlattenSeq(due) /\ (link = "up" => rest = <<>>)

StepInv ==
  intact => /\ ~foreign
            /\ kind # "udp" /\ thread = "receiving" => ~Whole(net) /\ \E rest \in Bytes : Due(rest)

LEMMA Rejoined ==
  ASSUME NEW a \in Seq(Nat), NEW b \in Seq(Nat), NEW k \in 0 .. Len(b)
  PROVE  (a \o Take(b, k)) \o From(b, k) = a \o b
<1>1. Take(b, k) \in Seq(Nat) /\ From(b, k) \in Seq(Nat) /\ Take(b, k) \o From(b, k) = b
  BY TakeProperties, FromProperties, TakeAndFrom
<1>2. (a \o Take(b, k)) \o From(b, k) = a \o (Take(b, k) \o From(b, k))
  BY <1>1, BytesAssociate
<1> QED BY <1>1, <1>2

LEMMA TcpBytes ==
  ASSUME ClientTypeInv, kind # "udp"
  PROVE  net \in Seq(Nat) /\ wire \in Seq(Nat) /\ net \o wire \in Seq(Nat) /\ due \in Seq(PacketSet)
         /\ due \in Seq(Seq(Nat)) /\ FlattenSeq(due) \in Seq(Nat)
<1>1. net \in Seq(Nat) /\ wire \in Seq(Nat) /\ due \in Seq(PacketSet)
  BY DEF ClientTypeInv, Bytes
<1> QED BY <1>1, PacketsType, ConcatProperties

LEMMA ReceiveInStep ==
  ASSUME ClientTypeInv, StepInv, NEW n \in 1 .. Len(wire), Receive(n)
  PROVE  StepInv'
<1>1. /\ kind # "udp" /\ thread = "receiving" /\ n =< Len(wire) /\ n \in Nat /\ n \in 0 .. Len(wire)
      /\ kind' = kind /\ intact' = intact /\ link' = link /\ wire' = From(wire, n)
  BY LenProperties DEF Receive, ClientTypeInv, Bytes
<1> SUFFICES ASSUME intact
             PROVE  ~foreign' /\ (thread' = "receiving" => ~Whole(net') /\ \E rest \in Bytes : Due(rest)')
  BY <1>1 DEF StepInv
<1>2. net \in Seq(Nat) /\ wire \in Seq(Nat) /\ due \in Seq(PacketSet) /\ FlattenSeq(due) \in Seq(Nat)
  BY <1>1, TcpBytes
<1>3. /\ Take(wire, n) \in Seq(Nat) /\ From(wire, n) \in Seq(Nat) /\ Take(wire, n) \o From(wire, n) = wire
      /\ Take(wire, n) = SubSeq(wire, 1, n)
  BY <1>1, <1>2, TakeProperties, FromProperties, TakeAndFrom DEF Take
<1> DEFINE w == [net |-> net \o SubSeq(wire, 1, n), s |-> Here, handled |-> <<>>]
<1>4. w \in PacketWalk
  <2>1. net \o SubSeq(wire, 1, n) \in Bytes
    BY <1>2, <1>3, ConcatProperties DEF Bytes
  <2>2. <<>> \in Seq(Bytes)
    OBVIOUS
  <2> QED BY <2>1, <2>2, HereType DEF PacketWalk
<1> PICK r : r = Process(kind)[w]
  OBVIOUS
<1>5. /\ r \in PacketWalk /\ r.handled \in Seq(PacketSet) /\ r.net \in Seq(Nat)
      /\ FlattenSeq(r.handled) \o r.net = net \o Take(wire, n)
  <2>1. w.handled = <<>> /\ w.net = net \o Take(wire, n)
    BY <1>3
  <2> HIDE DEF w
  <2> QED BY <1>4, <2>1, ProcessHands DEF Bytes
<1>6. net' = r.net /\ foreign' = (foreign \/ ~IsPrefix(r.handled, due)) /\ due' = From(due, Len(r.handled))
      /\ thread' = After(kind, r.s.end)
  BY DEF Receive
<1>7. ~foreign
  BY DEF StepInv
<1>8. PICK rest \in Bytes : Due(rest)
  BY <1>1 DEF StepInv
<1>9. rest \in Seq(Nat) /\ From(wire, n) \o rest \in Seq(Nat) /\ FlattenSeq(r.handled) \in Seq(Nat)
      /\ r.net \o (From(wire, n) \o rest) \in Bytes
  BY <1>3, <1>5, <1>8, ConcatProperties, PacketsType, SMTT(40) DEF Bytes
<1>10. FlattenSeq(r.handled) \o (r.net \o (From(wire, n) \o rest)) = FlattenSeq(due)
  <2>1. (net \o wire) \o rest = FlattenSeq(due)
    BY <1>8 DEF Due
  <2>2. net \o wire = (net \o Take(wire, n)) \o From(wire, n)
    BY <1>1, <1>2, Rejoined
  <2>3. net \o Take(wire, n) \in Seq(Nat)
    BY <1>2, <1>3, ConcatProperties
  <2>4. ((net \o Take(wire, n)) \o From(wire, n)) \o rest = (net \o Take(wire, n)) \o (From(wire, n) \o rest)
    BY <1>3, <1>9, <2>3, BytesAssociate, ZenonT(40)
  <2>5. (FlattenSeq(r.handled) \o r.net) \o (From(wire, n) \o rest)
          = FlattenSeq(r.handled) \o (r.net \o (From(wire, n) \o rest))
    BY <1>5, <1>9, BytesAssociate, ZenonT(40)
  <2> QED BY <1>5, <2>1, <2>2, <2>4, <2>5
<1>11. PICK e \in Seq(PacketSet) : due = r.handled \o e /\ r.net \o (From(wire, n) \o rest) = FlattenSeq(e)
  BY <1>2, <1>5, <1>9, <1>10, Decodes
<1>12. /\ Take(due, Len(r.handled)) = r.handled /\ From(due, Len(r.handled)) = e /\ Len(r.handled) =< Len(due)
  BY <1>5, <1>11, PacketsSplit
<1>13. IsPrefix(r.handled, due)
  <2>1. SubSeq(r.handled, 1, Len(r.handled)) = r.handled
    BY <1>5, SubSeqFull
  <2> QED BY <1>12, <2>1 DEF IsPrefix, Take
<1>14. ASSUME thread' = "receiving" PROVE ~Whole(net')
  <2>1. r.s.end = "ok"
    <3>1. r.s.end \in {"ok", "raise", "spin"}
      BY <1>5 DEF PacketWalk, Work
    <3> QED BY <1>1, <1>6, <1>14, <3>1 DEF After
  <2> HIDE DEF w
  <2> QED BY <1>4, <1>6, <2>1, ProcessEnds
<1>15. Due(rest)'
  <2>1. (r.net \o From(wire, n)) \o rest = r.net \o (From(wire, n) \o rest)
    <3>1. \A x, y, z \in Seq(Nat) : (x \o y) \o z = x \o (y \o z)
      BY BytesAssociate
    <3>2. r.net \in Seq(Nat) /\ From(wire, n) \in Seq(Nat) /\ rest \in Seq(Nat)
      BY <1>3, <1>5, <1>9
    <3> QED BY <3>1, <3>2
  <2>2. link = "up" => rest = <<>>
    BY <1>8 DEF Due
  <2> QED BY <1>1, <1>6, <1>11, <1>12, <2>1, <2>2 DEF Due
<1> QED BY <1>6, <1>7, <1>8, <1>13, <1>14, <1>15

(* One more packet is sent *)
LEMMA SentInStep ==
  ASSUME NEW b \in Seq(Nat), NEW d \in Seq(PacketSet), b = FlattenSeq(d), NEW p \in PacketSet
  PROVE  /\ Append(d, p) \in Seq(PacketSet) /\ b \o p = FlattenSeq(Append(d, p)) /\ b \o p \in Seq(Nat)
<1>1. p \in Seq(Nat) /\ d \in Seq(Seq(Nat)) /\ FlattenSeq(d) \in Seq(Nat)
  BY PacketsType DEF PacketSet, Bytes
<1>2. FlattenSeq(Append(d, p)) = FlattenSeq(d) \o p
  BY <1>1, FlattenAppend
<1>3. Append(d, p) \in Seq(PacketSet)
  BY AppendProperties
<1> QED BY <1>1, <1>2, <1>3, ConcatProperties

LEMMA NetworkInStep ==
  ASSUME ClientTypeInv, StepInv, Network
  PROVE  StepInv'
<1>1. ASSUME NEW q \in Seq(Nat), link = "up", kind # "udp", intact, thread = "receiving", wire' = wire \o q, net' = net, link' = link,
             ~Whole(net) /\ \E rest \in Bytes : Due(rest), (net \o wire) \o q = FlattenSeq(due')
      PROVE  ~Whole(net') /\ \E rest \in Bytes : Due(rest)'
  <2>1. (net \o wire) \o q = net \o (wire \o q) /\ net \o (wire \o q) \in Seq(Nat)
    BY <1>1, TcpBytes, BytesAssociate, ConcatProperties, ZenonT(40)
  <2>2. (net \o (wire \o q)) \o <<>> = net \o (wire \o q) /\ <<>> \in Bytes
    BY <2>1, ConcatEmptySeq, EmptySeq DEF Bytes
  <2>3. Due(<<>>)'
    BY <1>1, <2>1, <2>2 DEF Due
  <2> QED BY <1>1, <2>2, <2>3
<1>2. ASSUME link = "up", kind # "udp", \E rest \in Bytes : Due(rest)
      PROVE  net \o wire = FlattenSeq(due) /\ net \o wire \in Seq(Nat) /\ due \in Seq(PacketSet)
  <2>1. (net \o wire) \o <<>> = FlattenSeq(due)
    BY <1>2 DEF Due
  <2>2. net \o wire \in Seq(Nat) /\ due \in Seq(PacketSet)
    BY <1>2, TcpBytes
  <2>3. (net \o wire) \o <<>> = net \o wire
    BY <2>2, ConcatEmptySeq
  <2> QED BY <2>1, <2>2, <2>3
<1>3. ASSUME NEW n \in 1 .. Len(radar), ServerSends(n) PROVE StepInv'
  <2>1. kind' = kind /\ thread' = thread /\ net' = net /\ link' = link /\ foreign' = foreign /\ intact' = intact
    BY <1>3 DEF ServerSends, threadVars
  <2> PICK p : p = Packet(2, SubSeq(radar, 1, n))
    OBVIOUS
  <2>2. p \in PacketSet
    <3>1. radar \in Bytes /\ n \in Nat /\ n =< Len(radar)
      BY DEF ClientTypeInv
    <3>2. Take(radar, n) \in Bytes
      BY <3>1, PartOf DEF Bytes
    <3> QED BY <3>2, PacketIs DEF Take
  <2>3. CASE link # "up"
    <3>1. wire' = wire /\ due' = due
      BY <1>3, <2>3 DEF ServerSends
    <3> QED BY <2>1, <3>1 DEF StepInv, Due
  <2>4. CASE link = "up"
    <3>1. wire' = OnWire(p) /\ due' = Append(due, p)
      BY <1>3, <2>4 DEF ServerSends
    <3> SUFFICES ASSUME intact, kind # "udp", thread = "receiving"
                 PROVE  ~Whole(net') /\ \E rest \in Bytes : Due(rest)'
      BY <2>1 DEF StepInv
    <3>2. ~Whole(net) /\ \E rest \in Bytes : Due(rest)
      BY DEF StepInv
    <3>3. net \o wire = FlattenSeq(due) /\ net \o wire \in Seq(Nat) /\ due \in Seq(PacketSet)
      BY <1>2, <2>4, <3>2
    <3>4. (net \o wire) \o p = FlattenSeq(due')
      BY <2>2, <3>1, <3>3, SentInStep
    <3>5. wire' = wire \o p
      BY <3>1 DEF OnWire
    <3>6. p \in Seq(Nat)
      BY <2>2 DEF PacketSet, Bytes
    <3> QED BY <1>1, <2>1, <2>4, <3>2, <3>4, <3>5, <3>6
  <2> QED BY <2>3, <2>4
<1>4. CASE ServerAcks
  <2>1. kind' = kind /\ thread' = thread /\ net' = net /\ link' = link /\ foreign' = foreign /\ intact' = intact /\ link = "up"
    BY <1>4 DEF ServerAcks, threadVars
  <2> PICK a : a = Packet(1, <<7>>)
    OBVIOUS
  <2>2. PICK p \in {System, a \o System} :
          /\ wire' = OnWire(p)
          /\ due' = due \o (IF p = System THEN <<System>> ELSE <<a, System>>)
    BY <1>4 DEF ServerAcks
  <2> SUFFICES ASSUME intact, kind # "udp", thread = "receiving"
               PROVE  ~Whole(net') /\ \E rest \in Bytes : Due(rest)'
    BY <2>1 DEF StepInv
  <2>3. ~Whole(net) /\ \E rest \in Bytes : Due(rest)
    BY DEF StepInv
  <2>4. net \o wire = FlattenSeq(due) /\ net \o wire \in Seq(Nat) /\ due \in Seq(PacketSet)
    BY <1>2, <2>1, <2>3
  <2>5. wire' = wire \o p
    BY <2>2 DEF OnWire
  <2>6. a \in PacketSet /\ System \in PacketSet /\ a \in Seq(Nat) /\ System \in Seq(Nat) /\ p \in Seq(Nat)
    BY <2>2, AnswersAre DEF Bytes
  <2>7. (net \o wire) \o p = FlattenSeq(due')
    <3>1. CASE p = System
      <4>1. due' = Append(due, System)
        BY <2>2, <2>4, <2>6, <3>1, AppendIsConcat
      <4> QED BY <2>4, <2>6, <3>1, <4>1, SentInStep
    <3>2. CASE p # System
      <4>1. /\ Append(due, a) \in Seq(PacketSet) /\ (net \o wire) \o a = FlattenSeq(Append(due, a))
            /\ (net \o wire) \o a \in Seq(Nat)
        BY <2>4, <2>6, SentInStep
      <4>2. ((net \o wire) \o a) \o System = FlattenSeq(Append(Append(due, a), System))
        BY <2>6, <4>1, SentInStep
      <4>3. ((net \o wire) \o a) \o System = (net \o wire) \o (a \o System)
        BY <2>4, <2>6, BytesAssociate
      <4>4. due' = Append(Append(due, a), System)
        <5>1. due' = due \o <<a, System>>
          BY <2>2, <3>2
        <5> QED BY <2>4, <2>6, <5>1, TwoMore
      <4> QED BY <2>2, <3>2, <4>2, <4>3, <4>4
    <3> QED BY <3>1, <3>2
  <2> QED BY <1>1, <2>1, <2>3, <2>5, <2>6, <2>7
<1>5. CASE LoseDatagram
  BY <1>5 DEF LoseDatagram, StepInv
<1>6. CASE KeepaliveFails
  BY <1>6 DEF KeepaliveFails, StepInv, history, envVars
<1>7. ASSUME NEW n \in Cuts(Len(wire)), Break(n) PROVE StepInv'
  <2>1. kind' = kind /\ thread' = thread /\ net' = net /\ foreign' = foreign /\ intact' = intact /\ due' = due
        /\ link = "up" /\ link' = "broken" /\ kind # "udp" /\ wire' = Take(wire, n)
    BY <1>7 DEF Break, threadVars, history, Take
  <2> SUFFICES ASSUME intact, thread = "receiving"
               PROVE  ~Whole(net') /\ \E rest \in Bytes : Due(rest)'
    BY <2>1 DEF StepInv
  <2>2. ~Whole(net) /\ \E rest \in Bytes : Due(rest)
    BY <2>1 DEF StepInv
  <2>3. net \o wire = FlattenSeq(due)
    BY <1>2, <2>1, <2>2
  <2>4. net \in Seq(Nat) /\ wire \in Seq(Nat)
    BY <2>1, TcpBytes
  <2>5. n \in 0 .. Len(wire)
    <3>1. Len(wire) \in Nat
      BY <2>4, LenProperties
    <3>2. \A m \in Nat : m \div 2 \in 0 .. m /\ m \in 0 .. m
      OBVIOUS
    <3> QED BY <3>1, <3>2 DEF Cuts
  <2>6. Take(wire, n) \in Seq(Nat) /\ From(wire, n) \in Seq(Nat) /\ Take(wire, n) \o From(wire, n) = wire
    BY <2>4, <2>5, TakeProperties, FromProperties, TakeAndFrom
  <2>7. (net \o Take(wire, n)) \o From(wire, n) = net \o wire
    BY <2>4, <2>5, Rejoined
  <2>8. PICK rest \in Bytes : rest = From(wire, n)
    BY <2>6 DEF Bytes
  <2>9. Due(rest)'
    BY <2>1, <2>3, <2>7, <2>8 DEF Due
  <2> QED BY <2>1, <2>2, <2>9
<1> QED BY <1>3, <1>4, <1>5, <1>6, <1>7 DEF Network

LEMMA StepsInStep == ClientTypeInv /\ StepInv /\ [Next]_vars => StepInv'
<1> SUFFICES ASSUME ClientTypeInv, StepInv, [Next]_vars PROVE StepInv'
  OBVIOUS
<1>1. ASSUME NEW i \in 1 .. Len(wire), ReceiveDatagram(i) PROVE StepInv'
  BY <1>1 DEF ReceiveDatagram, StepInv
<1>2. ASSUME UNCHANGED <<kind, net, wire, link, due, foreign, intact>>, thread' = "receiving" => thread = "receiving"
      PROVE  StepInv'
  BY <1>2 DEF StepInv, Due
<1>3. CASE Timeout
  BY <1>2, <1>3 DEF Timeout, envVars, history
<1>4. CASE Lost
  BY <1>4 DEF Lost, StepInv, history
<1>5. CASE Connected
  <2>1. wire' = <<>> /\ due' = <<>> /\ kind' = kind /\ net' = net /\ foreign' = foreign
        /\ intact' = (intact /\ net = <<>> /\ data = <<>>)
    BY <1>5 DEF Connected
  <2>2. (<<>> \o <<>>) \o <<>> = FlattenSeq(<<>>) /\ <<>> \in Bytes
    <3>1. <<>> \in Seq(Nat)
      BY EmptySeq
    <3>2. <<>> \o <<>> = <<>>
      BY <3>1, ConcatEmptySeq
    <3> QED BY <3>1, <3>2, FlattenEmpty DEF Bytes
  <2>3. ~Whole(<<>>)
    BY FlattenEmpty DEF Whole, NetHeaderLen
  <2> QED BY <2>1, <2>2, <2>3 DEF StepInv, Due
<1>6. CASE Refused
  BY <1>6 DEF Refused, StepInv, envVars, history
<1>7. CASE Open
  BY <1>2, <1>7 DEF Open, envVars, history
<1>8. CASE Draw
  BY <1>2, <1>8 DEF Draw, threadVars, envVars, history
<1>9. CASE Close
  BY <1>2, <1>9 DEF Close, envVars, history
<1>10. CASE Joined
  BY <1>2, <1>10 DEF Joined, threadVars, envVars, history
<1>11. CASE UNCHANGED vars
  BY <1>2, <1>11 DEF vars, threadVars, envVars, history
<1> QED BY <1>1, <1>3, <1>4, <1>5, <1>6, <1>7, <1>8, <1>9, <1>10, <1>11, ReceiveInStep, NetworkInStep DEF Next, Worker

LEMMA StepInvSuffices == ClientTypeInv /\ StepInv => InStep
<1> SUFFICES ASSUME ClientTypeInv, StepInv, intact
             PROVE  /\ ~foreign
                    /\ kind # "udp" /\ thread = "receiving" /\ link = "up" =>
                         (due # <<>> => Len(net) < Len(due[1])) /\ (due = <<>> => net = <<>>)
  BY DEF InStep
<1>1. ~foreign
  BY DEF StepInv
<1> SUFFICES ASSUME kind # "udp", thread = "receiving", link = "up"
             PROVE  (due # <<>> => Len(net) < Len(due[1])) /\ (due = <<>> => net = <<>>)
  BY <1>1
<1>2. net \in Seq(Nat) /\ wire \in Seq(Nat) /\ net \o wire \in Seq(Nat) /\ due \in Seq(PacketSet)
  BY TcpBytes
<1>3. ~Whole(net) /\ net \o wire = FlattenSeq(due)
  <2>1. ~Whole(net) /\ \E rest \in Bytes : Due(rest)
    BY DEF StepInv
  <2>2. (net \o wire) \o <<>> = FlattenSeq(due)
    BY <2>1 DEF Due
  <2>3. (net \o wire) \o <<>> = net \o wire
    BY <1>2, ConcatEmptySeq
  <2> QED BY <2>1, <2>2, <2>3
<1>4. /\ Len(net) \in Nat /\ Len(wire) \in Nat /\ Len(net \o wire) = Len(net) + Len(wire)
      /\ \A i \in 1 .. Len(net) + Len(wire) : (net \o wire)[i] = IF i <= Len(net) THEN net[i] ELSE wire[i - Len(net)]
  BY <1>2, LenProperties, ConcatProperties
<1>5. ASSUME due = <<>> PROVE net = <<>>
  <2>1. Len(net) + Len(wire) = 0
    BY <1>3, <1>4, <1>5, FlattenEmpty
  <2>2. Len(net) = 0
    BY <1>4, <2>1
  <2> QED BY <1>2, <2>2, EmptySeq
<1>6. ASSUME due # <<>> PROVE Len(net) < Len(due[1])
  <2>1. PICK f \in PacketSet, t \in Seq(PacketSet) : due = <<f>> \o t /\ due[1] = f
    BY <1>2, <1>6, PacketsType
  <2>2. f \in Seq(Nat) /\ t \in Seq(Seq(Nat)) /\ FlattenSeq(t) \in Seq(Nat)
    BY PacketsType DEF PacketSet, Bytes
  <2>3. FlattenSeq(due) = f \o FlattenSeq(t)
    BY <2>1, <2>2, FlattenFirst
  <2> PICK x, u : x = FlattenSeq(t) /\ u = net \o wire
    OBVIOUS
  <2>4. u = f \o x /\ x \in Seq(Nat)
    BY <1>3, <2>2, <2>3
  <2>5. Len(f) \in Nat /\ Len(f) >= 2 /\ Len(f) = 2 + f[2] /\ Len(x) \in Nat
    BY <2>2, <2>4, LenProperties DEF PacketSet, NetHeaderLen
  <2>6. u[2] = f[2]
    <3>1. \A i \in 1 .. Len(f) + Len(x) : (f \o x)[i] = IF i <= Len(f) THEN f[i] ELSE x[i - Len(f)]
      BY <2>2, <2>4, ConcatProperties
    <3>2. 2 \in 1 .. Len(f) + Len(x) /\ 2 <= Len(f)
      BY <2>5
    <3> QED BY <2>4, <3>1, <3>2
  <2> SUFFICES ASSUME ~(Len(net) < Len(f)) PROVE FALSE
    BY <2>1
  <2>7. Len(net) >= Len(f) /\ Len(net) >= 2
    BY <1>4, <2>5
  <2>8. u[2] = net[2]
    <3>1. 2 \in 1 .. Len(net) + Len(wire) /\ 2 <= Len(net)
      BY <1>4, <2>7
    <3> QED BY <1>4, <3>1
  <2>9. Whole(net)
    BY <2>5, <2>6, <2>7, <2>8 DEF Whole, NetHeaderLen
  <2> QED BY <1>3, <2>9
<1> QED BY <1>5, <1>6

(* On one connection no program loses its place in the packets: as long as *)
(* nothing was lost or overtaken and no connection began with bytes of an  *)
(* earlier one in the buffers, what is handled is what the server sent, in *)
(* order, and the buffer holds less than the next packet due, wherever     *)
(* recv cuts the bytes.                                                    *)
THEOREM ClientInStep == Spec => []InStep
<1>1. Init => ClientTypeInv /\ StepInv
  <2>1. Init => StepInv
    BY DEF Init, StepInv
  <2> QED BY <2>1, InitIsTyped
<1>2. ClientTypeInv /\ StepInv /\ [Next]_vars => (ClientTypeInv /\ StepInv)'
  BY StepIsTyped, StepsInStep
<1>3. Spec => [](ClientTypeInv /\ StepInv)
  BY <1>1, <1>2, PTL DEF Spec
<1> QED BY <1>3, StepInvSuffices, PTL

-----------------------------------------------------------------------------
(* The frames that lie whole in the bytes, before and after a cut *)

LEMMA FrameStands ==
  ASSUME NEW c, NEW b \in Bytes, NEW m \in MagicAt(b), Complete(b, m)
  PROVE  /\ m \in 0 .. Len(b) /\ m + LengthAt + 1 \in 1 .. Len(b)
         /\ Total(b, m) \in 0 .. Len(b) - m
         /\ Slice(b, m, m + Total(b, m)) = Take(From(b, m), Total(b, m))
         /\ FrameRead(c, b, m) = ExtractTlvs(c)[Take(From(b, m), Total(b, m))].plots
         /\ FrameRead(c, b, m) \in Plots
<1>1. b \in Seq(Nat) /\ Len(b) \in Nat /\ LengthAt = 2
  BY LenProperties DEF Bytes, LengthAt
<1>2. m \in 0 .. Len(b) - 2
  BY <1>1, MagicOffsets
<1>3. Len(b) - m > 2 /\ Len(b) - m >= Total(b, m)
  BY <1>1 DEF Complete
<1>4. m \in Nat /\ m \in 0 .. Len(b) /\ m + 2 + 1 \in 1 .. Len(b)
  BY <1>1, <1>2, <1>3
<1>5. Total(b, m) \in Nat
  BY <1>1, <1>4, ElementOfSeq DEF Total
<1> PICK t \in Nat : t = Total(b, m)
  BY <1>5
<1>6. t \in 0 .. Len(b) - m /\ m =< m + t /\ m + t =< Len(b) /\ m + t \in Nat /\ (m + t) - m = t
  <2>1. Len(b) - m >= t
    BY <1>3
  <2>2. \A l, i, j \in Nat : l - i >= j => j \in 0 .. l - i /\ i =< i + j /\ i + j =< l /\ i + j \in Nat /\ (i + j) - i = j
    OBVIOUS
  <2> QED BY <1>1, <1>4, <2>1, <2>2
<1> PICK e \in Nat : e = m + t
  BY <1>6
<1>7. Slice(b, m, m + t) = Take(From(b, m), t) /\ Slice(b, m, m + t) \in Bytes
  <2>1. m =< e /\ e =< Len(b) /\ e - m = t
    BY <1>6
  <2>2. Slice(b, m, e) \in Seq(Nat) /\ Slice(b, m, e) = Take(From(b, m), e - m)
    BY <1>1, <1>4, <2>1, SliceIsTake
  <2> QED BY <2>1, <2>2 DEF Bytes
<1>8. FrameRead(c, b, m) = ExtractTlvs(c)[Slice(b, m, m + t)].plots
  BY DEF FrameRead
<1>9. ExtractTlvs(c)[Slice(b, m, m + t)].plots \in Plots
  BY <1>7, ExtractProperties
<1> QED BY <1>1, <1>4, <1>6, <1>7, <1>8, <1>9

(* What is behind the first k bytes *)
LEMMA FrameBehind ==
  ASSUME NEW c, NEW b \in Bytes, NEW k \in 0 .. Len(b), NEW m \in MagicAt(From(b, k)), Complete(From(b, k), m)
  PROVE  k + m \in MagicAt(b) /\ Complete(b, k + m) /\ FrameRead(c, From(b, k), m) = FrameRead(c, b, k + m) /\ m \in Nat
<1>1. b \in Seq(Nat) /\ Len(b) \in Nat /\ LengthAt = 2 /\ k \in Nat
  BY LenProperties DEF Bytes, LengthAt
<1> PICK r : Is(r, From(b, k))
  BY DEF Is
<1>2. r \in Bytes /\ Len(r) = Len(b) - k /\ \A i \in 1 .. Len(b) - k : r[i] = b[k + i]
  BY <1>1, FromProperties DEF Is, Bytes
<1>3. m \in MagicAt(r) /\ Complete(r, m)
  BY DEF Is
<1>4. m \in 0 .. Len(r) /\ m + 2 + 1 \in 1 .. Len(r) /\ Total(r, m) \in 0 .. Len(r) - m
      /\ FrameRead(c, r, m) = ExtractTlvs(c)[Take(From(r, m), Total(r, m))].plots
  BY <1>1, <1>2, <1>3, FrameStands
<1>5. m \in Int /\ m \in Nat
  BY <1>4
<1>6. k + m \in MagicAt(b)
  BY <1>1, <1>3, <1>5, MagicBehind DEF Is
<1>7. Total(r, m) = Total(b, k + m)
  <2>1. k + (m + 2 + 1) = (k + m) + 2 + 1
    BY <1>1, <1>5
  <2>2. r[m + 2 + 1] = b[k + (m + 2 + 1)]
    BY <1>2, <1>4
  <2> QED BY <1>1, <2>1, <2>2 DEF Total
<1>8. Complete(b, k + m)
  <2>1. Len(r) - m > 2 /\ Len(r) - m >= Total(r, m)
    BY <1>1, <1>3 DEF Complete
  <2>2. Len(b) - (k + m) = Len(r) - m
    BY <1>1, <1>2, <1>5
  <2> QED BY <1>1, <1>7, <2>1, <2>2 DEF Complete
<1>9. From(r, m) = From(b, k + m)
  <2>1. m \in 0 .. Len(b) - k
    BY <1>2, <1>4
  <2> QED BY <1>1, <2>1, FromFrom DEF Is
<1>10. FrameRead(c, b, k + m) = ExtractTlvs(c)[Take(From(b, k + m), Total(b, k + m))].plots
  BY <1>6, <1>8, FrameStands
<1>11. FrameRead(c, r, m) = FrameRead(c, b, k + m)
  BY <1>4, <1>7, <1>9, <1>10
<1> QED BY <1>5, <1>6, <1>8, <1>11 DEF Is

(* What comes before bytes that follow *)
LEMMA FrameBefore ==
  ASSUME NEW c, NEW b \in Bytes, NEW y \in Bytes, NEW m \in MagicAt(b), Complete(b, m)
  PROVE  m \in MagicAt(b \o y) /\ Complete(b \o y, m) /\ FrameRead(c, b, m) = FrameRead(c, b \o y, m)
<1>1. b \in Seq(Nat) /\ y \in Seq(Nat) /\ Len(b) \in Nat /\ Len(y) \in Nat /\ LengthAt = 2
  BY LenProperties DEF Bytes, LengthAt
<1> PICK u : Is(u, b \o y)
  BY DEF Is
<1>2. /\ u \in Bytes /\ Len(u) = Len(b) + Len(y)
      /\ \A i \in 1 .. Len(b) + Len(y) : u[i] = IF i <= Len(b) THEN b[i] ELSE y[i - Len(b)]
  BY <1>1, ConcatProperties DEF Is, Bytes
<1>3. m \in 0 .. Len(b) /\ m + 2 + 1 \in 1 .. Len(b) /\ Total(b, m) \in 0 .. Len(b) - m
      /\ FrameRead(c, b, m) = ExtractTlvs(c)[Take(From(b, m), Total(b, m))].plots
  BY <1>1, FrameStands
<1>4. m \in MagicAt(u)
  <2>1. m \in Int
    BY <1>3
  <2> QED BY <1>1, <2>1, MagicBefore DEF Is
<1>5. Total(u, m) = Total(b, m)
  <2>1. m + 2 + 1 \in 1 .. Len(b) + Len(y) /\ m + 2 + 1 <= Len(b)
    BY <1>1, <1>3
  <2>2. u[m + 2 + 1] = b[m + 2 + 1]
    BY <1>2, <2>1
  <2> QED BY <1>1, <2>2 DEF Total
<1>6. Complete(u, m)
  <2>1. Len(b) - m > 2 /\ Len(b) - m >= Total(b, m)
    BY <1>1 DEF Complete
  <2>2. Len(u) - m > 2 /\ Len(u) - m >= Total(b, m)
    <3>1. m \in Nat /\ Total(b, m) \in Nat /\ Len(u) = Len(b) + Len(y)
      BY <1>1, <1>2, <1>3
    <3>2. \A l, n, i, j \in Nat : l - i > 2 /\ l - i >= j => (l + n) - i > 2 /\ (l + n) - i >= j
      OBVIOUS
    <3> QED BY <1>1, <2>1, <3>1, <3>2
  <2> QED BY <1>1, <1>5, <2>2 DEF Complete
<1>7. Take(From(u, m), Total(u, m)) = Take(From(b, m), Total(b, m))
  <2>1. From(u, m) = From(b, m) \o y
    BY <1>1, <1>3, FromConcat DEF Is
  <2>2. From(b, m) \in Seq(Nat) /\ Len(From(b, m)) = Len(b) - m
    BY <1>1, <1>3, FromProperties
  <2> PICK v, t : Is(v, From(b, m)) /\ Is(t, Total(b, m))
    BY DEF Is
  <2>3. v \in Seq(Nat) /\ t \in 0 .. Len(v)
    BY <1>3, <2>2 DEF Is
  <2>4. Take(v \o y, t) = Take(v, t)
    BY <1>1, <2>3, TakeConcat
  <2> QED BY <1>5, <2>1, <2>4 DEF Is
<1>8. FrameRead(c, u, m) = ExtractTlvs(c)[Take(From(u, m), Total(u, m))].plots
  BY <1>2, <1>4, <1>6, FrameStands
<1>9. FrameRead(c, b, m) = FrameRead(c, u, m)
  BY <1>3, <1>7, <1>8
<1> QED BY <1>4, <1>6, <1>9 DEF Is

-----------------------------------------------------------------------------
(* Plots in the order of the stream *)

LEMMA BeforeJoins ==
  ASSUME NEW s, NEW g \in Plots, NEW h \in Plots, NEW k \in Plots
  PROVE  /\ AllBefore(s, g, k) /\ AllBefore(s, h, k) => AllBefore(s, g \o h, k)
         /\ InOrder(s, g) /\ InOrder(s, h) /\ AllBefore(s, g, h) => InOrder(s, g \o h)
<1> PICK u : Is(u, g \o h)
  BY DEF Is
<1>1. /\ Len(g) \in Nat /\ Len(h) \in Nat /\ Len(u) = Len(g) + Len(h)
      /\ \A i \in 1 .. Len(g) + Len(h) : u[i] = IF i <= Len(g) THEN g[i] ELSE h[i - Len(g)]
  BY ConcatProperties, LenProperties DEF Is, Plots
<1>2. ASSUME NEW i \in 1 .. Len(u)
      PROVE  \/ i \in 1 .. Len(g) /\ u[i] = g[i]
             \/ i - Len(g) \in 1 .. Len(h) /\ u[i] = h[i - Len(g)] /\ i > Len(g)
  BY <1>1
<1>3. ASSUME AllBefore(s, g, k), AllBefore(s, h, k) PROVE AllBefore(s, u, k)
  BY <1>2, <1>3 DEF AllBefore
<1>4. ASSUME InOrder(s, g), InOrder(s, h), AllBefore(s, g, h) PROVE InOrder(s, u)
  <2>1. ASSUME NEW i \in 1 .. Len(u) PROVE \E j \in 1 .. Len(PlotsOf(s)) : PlotsOf(s)[j] = u[i]
    BY <1>2, <1>4 DEF InOrder
  <2>2. ASSUME NEW i \in 1 .. Len(u), NEW j \in 1 .. Len(u), i < j PROVE PlotAt(s, u[i]) < PlotAt(s, u[j])
    <3>1. CASE j \in 1 .. Len(g) /\ u[j] = g[j]
      <4>1. i \in 1 .. Len(g) /\ u[i] = g[i]
        BY <1>1, <2>2, <3>1
      <4> QED BY <1>4, <2>2, <3>1, <4>1 DEF InOrder
    <3>2. CASE j - Len(g) \in 1 .. Len(h) /\ u[j] = h[j - Len(g)] /\ j > Len(g)
      <4>1. CASE i \in 1 .. Len(g) /\ u[i] = g[i]
        BY <1>4, <3>2, <4>1 DEF AllBefore
      <4>2. CASE i - Len(g) \in 1 .. Len(h) /\ u[i] = h[i - Len(g)]
        <5>1. i - Len(g) < j - Len(g)
          BY <1>1, <2>2
        <5> QED BY <1>4, <3>2, <4>2, <5>1 DEF InOrder
      <4> QED BY <1>2, <4>1, <4>2
    <3> QED BY <1>2, <3>1, <3>2
  <2> QED BY <2>1, <2>2 DEF InOrder
<1> QED BY <1>3, <1>4 DEF Is

LEMMA NothingInOrder ==
  ASSUME NEW s
  PROVE  InOrder(s, <<>>) /\ <<>> \in Plots
<1>1. Len(<<>>) = 0 /\ 1 .. 0 = {}
  BY EmptySeq
<1>2. InOrder(s, <<>>)
  BY <1>1 DEF InOrder
<1> QED BY <1>2, EmptySeq DEF Plots
-----------------------------------------------------------------------------
(* Plots emitted and bytes not yet read *)

(* Bytes that are skipped or not yet there make no difference *)
LEMMA FitsBehind ==
  ASSUME NEW c, NEW s, NEW g \in Plots, NEW b \in Bytes, Fits(c, s, g, b), NEW k \in 0 .. Len(b)
  PROVE  Fits(c, s, g, From(b, k))
<1> PICK r : Is(r, From(b, k))
  BY DEF Is
<1>1. k \in Nat /\ InOrder(s, g)
  BY DEF Fits
<1>2. ASSUME NEW m \in MagicAt(r), Complete(r, m)
      PROVE  k + m \in MagicAt(b) /\ Complete(b, k + m) /\ FrameRead(c, r, m) = FrameRead(c, b, k + m) /\ m \in Nat
  BY <1>2, FrameBehind DEF Is
<1>3. ASSUME NEW m \in MagicAt(r), Complete(r, m)
      PROVE  /\ InOrder(s, FrameRead(c, r, m)) /\ AllBefore(s, g, FrameRead(c, r, m))
             /\ \A n \in MagicAt(r) : m < n /\ Complete(r, n) => AllBefore(s, FrameRead(c, r, m), FrameRead(c, r, n))
  <2>1. k + m \in MagicAt(b) /\ Complete(b, k + m) /\ FrameRead(c, r, m) = FrameRead(c, b, k + m) /\ m \in Nat
    BY <1>2, <1>3
  <2>2. InOrder(s, FrameRead(c, r, m)) /\ AllBefore(s, g, FrameRead(c, r, m))
    BY <2>1 DEF Fits
  <2>3. ASSUME NEW n \in MagicAt(r), m < n, Complete(r, n) PROVE AllBefore(s, FrameRead(c, r, m), FrameRead(c, r, n))
    <3>1. k + n \in MagicAt(b) /\ Complete(b, k + n) /\ FrameRead(c, r, n) = FrameRead(c, b, k + n) /\ n \in Nat
      BY <1>2, <2>3
    <3>2. k + m < k + n
      BY <1>1, <2>1, <2>3, <3>1
    <3> QED BY <2>1, <3>1, <3>2 DEF Fits
  <2> QED BY <2>2, <2>3
<1>4. Fits(c, s, g, r)
  BY <1>1, <1>3 DEF Fits
<1> QED BY <1>4 DEF Is

LEMMA FitsBefore ==
  ASSUME NEW c, NEW s, NEW g \in Plots, NEW b \in Bytes, NEW y \in Bytes, Fits(c, s, g, b \o y),
         NEW m \in MagicAt(b), Complete(b, m)
  PROVE  InOrder(s, FrameRead(c, b, m)) /\ AllBefore(s, g, FrameRead(c, b, m))
<1>1. m \in MagicAt(b \o y) /\ Complete(b \o y, m) /\ FrameRead(c, b, m) = FrameRead(c, b \o y, m)
  BY FrameBefore
<1> QED BY <1>1 DEF Fits

(* A frame is read, and the bytes go on behind its magic word *)
LEMMA FitsRead ==
  ASSUME NEW c, NEW s, NEW g \in Plots, NEW u \in Bytes, Fits(c, s, g, u),
         NEW m \in MagicAt(u), Complete(u, m), NEW k \in 0 .. Len(u), m < k
  PROVE  Fits(c, s, g \o FrameRead(c, u, m), From(u, k))
<1> PICK r, f : Is(r, From(u, k)) /\ Is(f, FrameRead(c, u, m))
  BY DEF Is
<1>1. f \in Plots /\ InOrder(s, f) /\ AllBefore(s, g, f) /\ InOrder(s, g) /\ m \in Nat /\ k \in Nat
  <2>1. f \in Plots /\ m \in 0 .. Len(u)
    BY FrameStands DEF Is
  <2>2. InOrder(s, f) /\ AllBefore(s, g, f) /\ InOrder(s, g)
    BY DEF Fits, Is
  <2> QED BY <2>1, <2>2
<1>2. r \in Bytes
  BY <1>1, PartOf DEF Is, Bytes
<1>3. Fits(c, s, g, r)
  BY FitsBehind DEF Is
<1>4. InOrder(s, g \o f)
  BY <1>1, BeforeJoins
<1>5. ASSUME NEW n \in MagicAt(r), Complete(r, n) PROVE AllBefore(s, g \o f, FrameRead(c, r, n))
  <2>1. k + n \in MagicAt(u) /\ Complete(u, k + n) /\ FrameRead(c, r, n) = FrameRead(c, u, k + n) /\ n \in Nat
    BY <1>5, FrameBehind DEF Is
  <2>2. m < k + n
    BY <1>1, <2>1
  <2>3. AllBefore(s, f, FrameRead(c, r, n))
    BY <2>1, <2>2 DEF Fits, Is
  <2>4. AllBefore(s, g, FrameRead(c, r, n)) /\ FrameRead(c, r, n) \in Plots
    BY <1>2, <1>3, <1>5, FrameStands DEF Fits
  <2> QED BY <1>1, <2>3, <2>4, BeforeJoins
<1>6. Fits(c, s, g \o f, r)
  BY <1>3, <1>4, <1>5 DEF Fits
<1> QED BY <1>6 DEF Is

-----------------------------------------------------------------------------
(* What parse_buffer emits and leaves *)

LEMMA KeptIs ==
  ASSUME NEW c, NEW r \in Bytes, Waits(r)
  PROVE  \E k \in 0 .. Len(r) : Kept(c, r) = From(r, k)
<1>0. r \in Seq(Nat) /\ Len(r) \in Nat
  BY LenProperties DEF Bytes
<1>1. r = From(r, 0) /\ 0 \in 0 .. Len(r)
  BY <1>0, FromZero
<1>2. CASE Len(r) < MinScan
  BY <1>1, <1>2 DEF Kept
<1>3. CASE ~(Len(r) < MinScan) /\ Find(r) = -1
  <2>1. Len(r) - Keep \in 0 .. Len(r)
    <3>1. Keep = 1 /\ MinScan = 6
      BY DEF Keep, Magic, MinScan, HeaderLen, TlvHeaderLen
    <3> QED BY <1>0, <1>3, <3>1
  <2>2. Kept(c, r) = From(r, Len(r) - Keep)
    BY <1>3 DEF Kept
  <2> QED BY <2>1, <2>2
<1>4. CASE ~(Len(r) < MinScan) /\ Find(r) # -1
  <2>1. Find(r) \in 0 .. Len(r)
    BY <1>0, <1>4, FirstFound
  <2>2. Kept(c, r) = r \/ Kept(c, r) = From(r, Find(r))
    BY <1>4 DEF Kept
  <2> QED BY <1>1, <2>1, <2>2
<1> QED BY <1>2, <1>3, <1>4

LEMMA FitsCut ==
  ASSUME NEW c, NEW s, NEW g \in Plots, NEW b \in Bytes, NEW y \in Bytes, Fits(c, s, g, b \o y), NEW k \in 0 .. Len(b)
  PROVE  Fits(c, s, g, From(b, k) \o y)
<1>1. b \in Seq(Nat) /\ y \in Seq(Nat) /\ Len(b) \in Nat /\ Len(y) \in Nat
  BY LenProperties DEF Bytes
<1> PICK u : Is(u, b \o y)
  BY DEF Is
<1>2. u \in Bytes /\ k \in 0 .. Len(u)
  BY <1>1, ConcatProperties DEF Is, Bytes
<1>3. Fits(c, s, g, From(u, k))
  BY <1>2, FitsBehind DEF Is
<1>4. From(b \o y, k) = From(b, k) \o y
  BY <1>1, FromConcat
<1> QED BY <1>3, <1>4 DEF Is

(* The frame that a turn reads *)
LEMMA TurnFits ==
  ASSUME NEW c, NEW s, NEW g \in Plots, NEW b \in Bytes, NEW y \in Bytes, Fits(c, s, g, b \o y), Goes(b)
  PROVE  /\ One(c, b).plots \in Plots /\ g \o One(c, b).plots \in Plots
         /\ Fits(c, s, g \o One(c, b).plots, From(b, Next1(b)) \o y)
<1>1. b \in Seq(Nat) /\ y \in Seq(Nat) /\ Len(b) \in Nat /\ Len(y) \in Nat
  BY LenProperties DEF Bytes
<1> PICK m, k : Is(m, Find(b)) /\ Is(k, Next1(b))
  BY DEF Is
<1>2. ~Waits(b) /\ Total(b, m) # 0
  BY DEF Goes, Is
<1>3. m \in MagicAt(b) /\ m \in Nat /\ Total(b, m) \in Nat /\ k \in 0 .. Len(b) /\ One(c, b).plots \in Plots
  BY <1>2, FrameLies DEF Is
<1>4. Complete(b, m)
  BY <1>2 DEF Waits, Is
<1>5. k = m + Total(b, m) /\ m < k
  <2>1. k = m + Total(b, m)
    BY DEF Next1, Is
  <2> QED BY <1>2, <1>3, <2>1
<1>6. One(c, b).plots = FrameRead(c, b, m)
  BY <1>5 DEF One, FrameRead, Is
<1> PICK u : Is(u, b \o y)
  BY DEF Is
<1>7. u \in Bytes /\ k \in 0 .. Len(u)
  BY <1>1, <1>3, ConcatProperties DEF Is, Bytes
<1>8. m \in MagicAt(u) /\ Complete(u, m) /\ FrameRead(c, b, m) = FrameRead(c, u, m)
  BY <1>3, <1>4, FrameBefore DEF Is
<1>9. Fits(c, s, g \o FrameRead(c, u, m), From(u, k))
  BY <1>5, <1>7, <1>8, FitsRead DEF Is
<1>10. From(u, k) = From(b, k) \o y
  BY <1>1, <1>3, FromConcat DEF Is
<1>11. g \o One(c, b).plots \in Plots
  BY <1>3, PlotsJoin
<1> QED BY <1>3, <1>6, <1>8, <1>9, <1>10, <1>11 DEF Is

(* The turn at the bytes b, when the turns behind it do *)
LEMMA TurnedFits ==
  ASSUME NEW c, NEW s, NEW y \in Bytes, NEW b \in Bytes, NEW x \in Outcome,
         Goes(b) /\ ~One(c, b).raised =>
           \A h \in Plots : Fits(c, s, h, From(b, Next1(b)) \o y) => Fits(c, s, h \o x.plots, x.data \o y),
         NEW g \in Plots, Fits(c, s, g, b \o y)
  PROVE  Fits(c, s, g \o Turned(c, b, x).plots, Turned(c, b, x).data \o y)
<1> PICK t : Is(t, Turned(c, b, x))
  BY DEF Is
<1> SUFFICES Fits(c, s, g \o t.plots, t.data \o y)
  BY DEF Is
<1>1. g \o <<>> = g
  BY PlotsAssociate
<1>2. CASE Waits(b)
  <2>1. PICK k \in 0 .. Len(b) : Kept(c, b) = From(b, k)
    BY <1>2, KeptIs
  <2>2. t.plots = <<>> /\ t.data = Kept(c, b)
    BY <1>2 DEF Turned, Done, Is
  <2> QED BY <1>1, <2>1, <2>2, FitsCut
<1>3. CASE ~Waits(b) /\ Total(b, Find(b)) = 0
  <2>1. Next1(b) \in 0 .. Len(b)
    BY <1>3, FrameLies
  <2>2. t.plots = <<>> /\ t.data = From(b, Next1(b))
    BY <1>3 DEF Turned, Done, Is
  <2> QED BY <1>1, <2>1, <2>2, FitsCut
<1>4. CASE Goes(b)
  <2>0. ~Waits(b) /\ Total(b, Find(b)) # 0
    BY <1>4 DEF Goes
  <2>1. /\ One(c, b).plots \in Plots /\ g \o One(c, b).plots \in Plots
        /\ Fits(c, s, g \o One(c, b).plots, From(b, Next1(b)) \o y)
    BY <1>4, TurnFits
  <2>2. CASE One(c, b).raised
    <3>1. t.plots = One(c, b).plots /\ t.data = From(b, Next1(b))
      BY <2>0, <2>2 DEF Turned, Done, Is
    <3> QED BY <2>1, <3>1
  <2>3. CASE ~One(c, b).raised
    <3>1. t.plots = One(c, b).plots \o x.plots /\ t.data = x.data
      BY <2>0, <2>3 DEF Turned, Outcome, Is
    <3>2. Fits(c, s, (g \o One(c, b).plots) \o x.plots, x.data \o y)
      BY <1>4, <2>1, <2>3
    <3>3. x.plots \in Plots
      BY DEF Outcome
    <3> PICK p, q : Is(p, One(c, b).plots) /\ Is(q, x.plots)
      BY DEF Is
    <3>4. p \in Plots /\ q \in Plots
      BY <2>1, <3>3 DEF Is
    <3>5. (g \o p) \o q = g \o (p \o q)
      BY <3>4, PlotsAssociate
    <3> QED BY <3>1, <3>2, <3>5 DEF Is
  <2> QED BY <2>2, <2>3
<1> QED BY <1>2, <1>3, <1>4 DEF Goes

(* All the turns *)
LEMMA ScanFits ==
  ASSUME NEW c, NEW s, NEW g \in Plots, NEW b \in Bytes, NEW y \in Bytes, Fits(c, s, g, b \o y)
  PROVE  Fits(c, s, g \o Scan(c, b).plots, Scan(c, b).data \o y)
<1> DEFINE Does(r) == \A h \in Plots : Fits(c, s, h, r \o y) => Fits(c, s, h \o Scan(c, r).plots, Scan(c, r).data \o y)
           T == {m \in Nat : \A r \in Bytes : Len(r) =< m => Does(r)}
<1>1. ASSUME NEW r \in Bytes, Goes(r) => Does(From(r, Next1(r))) PROVE Does(r)
  <2> PICK x, t : Is(x, Scan(c, From(r, Next1(r)))) /\ Is(t, Scan(c, r))
    BY DEF Is
  <2>1. t = Turned(c, r, x)
    BY ScanUnfolds DEF Is
  <2>2. CASE Goes(r)
    <3>1. Next1(r) \in 1 .. Len(r)
      BY <2>2, GoesOn
    <3>2. From(r, Next1(r)) \in Bytes
      <4>1. Next1(r) \in Nat /\ r \in Seq(Nat)
        BY <3>1 DEF Bytes
      <4> QED BY <4>1, PartOf DEF Bytes
    <3>3. x \in Outcome
      BY <3>2, ScanType DEF Is
    <3>4. \A h \in Plots : Fits(c, s, h, From(r, Next1(r)) \o y) => Fits(c, s, h \o x.plots, x.data \o y)
      BY <1>1, <2>2 DEF Is
    <3>5. ASSUME NEW h \in Plots, Fits(c, s, h, r \o y) PROVE Fits(c, s, h \o t.plots, t.data \o y)
      BY <2>1, <3>3, <3>4, <3>5, TurnedFits
    <3> QED BY <3>5 DEF Is
  <2>3. CASE ~Goes(r)
    <3>1. PICK z \in Outcome : TRUE
      BY ScanType
    <3>2. t = Turned(c, r, z)
      BY <2>1, <2>3, TurnStops
    <3>3. ASSUME NEW h \in Plots, Fits(c, s, h, r \o y) PROVE Fits(c, s, h \o t.plots, t.data \o y)
      BY <2>3, <3>2, <3>3, TurnedFits
    <3> QED BY <3>3 DEF Is
  <2> QED BY <2>2, <2>3
<1> HIDE DEF Does
<1>2. ASSUME NEW m \in Nat, \A r \in Bytes : Len(r) < m => Does(r), NEW r \in Bytes, Len(r) =< m
      PROVE  Does(r)
  <2>1. ASSUME Goes(r) PROVE Does(From(r, Next1(r)))
    <3>1. Next1(r) \in 1 .. Len(r) /\ Len(r) \in Nat /\ r \in Seq(Nat)
      BY <2>1, GoesOn, LenProperties DEF Bytes
    <3>2. Next1(r) \in 0 .. Len(r)
      BY <3>1
    <3>3. From(r, Next1(r)) \in Bytes /\ Len(From(r, Next1(r))) = Len(r) - Next1(r)
      BY <3>1, <3>2, FromProperties DEF Bytes
    <3>4. Len(r) - Next1(r) < m
      BY <1>2, <3>1
    <3> QED BY <1>2, <3>3, <3>4
  <2> QED BY <1>1, <2>1
<1>3. 0 \in T
  <2>1. ASSUME NEW r \in Bytes PROVE ~(Len(r) < 0)
    BY LenProperties DEF Bytes
  <2> QED BY <1>2, <2>1
<1>4. ASSUME NEW m \in Nat, m \in T PROVE m + 1 \in T
  <2>1. ASSUME NEW r \in Bytes, Len(r) < m + 1 PROVE Does(r)
    <3>1. Len(r) =< m
      BY <2>1, LenProperties DEF Bytes
    <3> QED BY <1>4, <3>1
  <2> QED BY <1>2, <2>1
<1> HIDE DEF T
<1>5. Nat \subseteq T
  BY <1>3, <1>4, SetInduction
<1>6. Len(b) \in Nat
  BY LenProperties DEF Bytes
<1>7. Does(b)
  BY <1>5, <1>6 DEF T
<1> QED BY <1>7 DEF Does

(* parse_buffer, whatever follows.  In claude_tcp_client.py and client.py  *)
(* an exception leaves bytes that have been read.                          *)
LEMMA ParseFits ==
  ASSUME NEW c, NEW s, NEW g \in Plots, NEW b \in Bytes, NEW y \in Bytes, Fits(c, s, g, b \o y),
         NEW r \in Outcome, Is(r, Parse(c)[b])
  PROVE  /\ InOrder(s, g \o r.plots)
         /\ r.end = "ok" \/ c \notin InPlace => Fits(c, s, g \o r.plots, r.data \o y)
<1> PICK t : Is(t, Scan(c, b))
  BY DEF Is
<1>1. Fits(c, s, g \o t.plots, t.data \o y)
  BY ScanFits DEF Is
<1>2. t \in Outcome
  BY ScanType DEF Is
<1>3. r = Cut(c, b)[t]
  BY DEF Parse, Scan, Walks, Is
<1>4. r = IF c \in InPlace /\ t.end # "ok" THEN [t EXCEPT !.data = b] ELSE t
  BY <1>2, <1>3 DEF Cut
<1>5. r.plots = t.plots /\ r.end = t.end
  BY <1>2, <1>4 DEF Outcome
<1>6. r.end = "ok" \/ c \notin InPlace => r = t
  BY <1>4, <1>5
<1>7. InOrder(s, g \o t.plots)
  BY <1>1 DEF Fits
<1> QED BY <1>1, <1>5, <1>6, <1>7
-----------------------------------------------------------------------------
(* The radar's bytes in packets *)

Load(p) == IF p[1] = 2 THEN From(p, NetHeaderLen) ELSE <<>>
LoadsOf(d) == [i \in 1 .. Len(d) |-> Load(d[i])]
Loads(d) == FlattenSeq(LoadsOf(d))

LEMMA LoadType ==
  ASSUME NEW p \in PacketSet
  PROVE  Load(p) \in Bytes
<1>1. p \in Seq(Nat) /\ NetHeaderLen \in Nat
  BY DEF PacketSet, Bytes, NetHeaderLen
<1>2. From(p, NetHeaderLen) \in Seq(Nat) /\ <<>> \in Seq(Nat)
  BY <1>1, PartOf, EmptySeq
<1> QED BY <1>2 DEF Load, Bytes

LEMMA LoadsOfType ==
  ASSUME NEW d \in Seq(PacketSet)
  PROVE  LoadsOf(d) \in Seq(Seq(Nat)) /\ Len(LoadsOf(d)) = Len(d) /\ Loads(d) \in Bytes
<1>1. Len(d) \in Nat /\ \A i \in 1 .. Len(d) : d[i] \in PacketSet
  BY LenProperties, ElementOfSeq
<1>2. \A i \in 1 .. Len(d) : Load(d[i]) \in Seq(Nat)
  BY <1>1, LoadType DEF Bytes
<1>3. LoadsOf(d) \in Seq(Seq(Nat)) /\ Len(LoadsOf(d)) = Len(d)
  BY <1>1, <1>2, IsASeq, LenProperties DEF LoadsOf
<1>4. FlattenSeq(LoadsOf(d)) \in Seq(Nat)
  BY <1>3, FlattenType
<1> QED BY <1>3, <1>4 DEF Loads, Bytes

LEMMA NoLoads == Loads(<<>>) = <<>>
<1>1. <<>> \in Seq(PacketSet) /\ Len(<<>>) = 0
  BY EmptySeq
<1>2. LoadsOf(<<>>) \in Seq(Seq(Nat)) /\ Len(LoadsOf(<<>>)) = 0
  BY <1>1, LoadsOfType
<1>3. LoadsOf(<<>>) = <<>>
  BY <1>2, EmptySeq
<1> QED BY <1>3, FlattenEmpty DEF Loads

(* One packet more, at the end or at the beginning *)
LEMMA LoadsMore ==
  ASSUME NEW d \in Seq(PacketSet), NEW p \in PacketSet
  PROVE  /\ Append(d, p) \in Seq(PacketSet) /\ Loads(Append(d, p)) = Loads(d) \o Load(p)
         /\ <<p>> \o d \in Seq(PacketSet) /\ Loads(<<p>> \o d) = Load(p) \o Loads(d)
<1>0. Len(d) \in Nat
  BY LenProperties
<1>1. /\ Len(d) \in Nat /\ Load(p) \in Seq(Nat) /\ LoadsOf(d) \in Seq(Seq(Nat)) /\ Len(LoadsOf(d)) = Len(d)
      /\ Loads(d) \in Seq(Nat)
  BY LenProperties, LoadType, LoadsOfType DEF Bytes
<1>2. \A i \in 1 .. Len(d) : LoadsOf(d)[i] = Load(d[i])
  BY DEF LoadsOf
<1> PICK f, l : Is(f, Load(p)) /\ Is(l, LoadsOf(d))
  BY DEF Is
<1>3. f \in Seq(Nat) /\ l \in Seq(Seq(Nat)) /\ Len(l) = Len(d) /\ \A i \in 1 .. Len(d) : l[i] = Load(d[i])
  BY <1>1, <1>2 DEF Is
<1>4. Append(d, p) \in Seq(PacketSet) /\ Loads(Append(d, p)) = Loads(d) \o Load(p)
  <2> PICK e : Is(e, Append(d, p))
    BY DEF Is
  <2>1. /\ e \in Seq(PacketSet) /\ Len(e) = Len(d) + 1
        /\ \A i \in 1 .. Len(d) : e[i] = d[i]
        /\ e[Len(d) + 1] = p
    BY AppendProperties DEF Is
  <2>2. LoadsOf(e) \in Seq(Seq(Nat)) /\ Len(LoadsOf(e)) = Len(d) + 1
    BY <2>1, LoadsOfType
  <2>3. /\ Append(l, f) \in Seq(Seq(Nat)) /\ Len(Append(l, f)) = Len(d) + 1
        /\ \A i \in 1 .. Len(d) : Append(l, f)[i] = l[i]
        /\ Append(l, f)[Len(d) + 1] = f
    BY <1>3, AppendProperties
  <2>4. ASSUME NEW i \in 1 .. Len(d) + 1 PROVE LoadsOf(e)[i] = Append(l, f)[i]
    <3>1. LoadsOf(e)[i] = Load(e[i])
      BY <2>1 DEF LoadsOf
    <3>2. CASE i \in 1 .. Len(d)
      BY <1>3, <2>1, <2>3, <3>1, <3>2
    <3>3. CASE i = Len(d) + 1
      BY <2>1, <2>3, <3>1, <3>3 DEF Is
    <3>4. i \in 1 .. Len(d) \/ i = Len(d) + 1
      BY <1>0
    <3> QED BY <3>2, <3>3, <3>4
  <2>5. LoadsOf(e) = Append(l, f)
    BY <2>2, <2>3, <2>4, SeqEqual
  <2>6. FlattenSeq(l) \in Seq(Nat)
    BY <1>3, FlattenType
  <2>7. FlattenSeq(Append(l, f)) = FlattenSeq(l) \o f
    BY <1>3, <2>6, FlattenAppend
  <2> QED BY <2>1, <2>5, <2>7 DEF Is, Loads
<1>5. <<p>> \o d \in Seq(PacketSet) /\ Loads(<<p>> \o d) = Load(p) \o Loads(d)
  <2> PICK e : Is(e, <<p>> \o d)
    BY DEF Is
  <2>1. <<p>> \in Seq(PacketSet) /\ Len(<<p>>) = 1 /\ <<p>>[1] = p
    OBVIOUS
  <2>2. /\ e \in Seq(PacketSet) /\ Len(e) = 1 + Len(d)
        /\ \A i \in 1 .. 1 + Len(d) : e[i] = IF i <= 1 THEN <<p>>[i] ELSE d[i - 1]
    BY <2>1, ConcatProperties DEF Is
  <2>3. LoadsOf(e) \in Seq(Seq(Nat)) /\ Len(LoadsOf(e)) = 1 + Len(d)
    BY <2>2, LoadsOfType
  <2>4. <<f>> \in Seq(Seq(Nat)) /\ Len(<<f>>) = 1 /\ <<f>>[1] = f
    BY <1>3
  <2>5. /\ <<f>> \o l \in Seq(Seq(Nat)) /\ Len(<<f>> \o l) = 1 + Len(d)
        /\ \A i \in 1 .. 1 + Len(d) : (<<f>> \o l)[i] = IF i <= 1 THEN <<f>>[i] ELSE l[i - 1]
    <3> PICK o : Is(o, <<f>>)
      BY DEF Is
    <3>1. o \in Seq(Seq(Nat)) /\ Len(o) = 1
      BY <2>4 DEF Is
    <3>2. /\ o \o l \in Seq(Seq(Nat)) /\ Len(o \o l) = Len(o) + Len(l)
          /\ \A i \in 1 .. Len(o) + Len(l) : (o \o l)[i] = IF i <= Len(o) THEN o[i] ELSE l[i - Len(o)]
      BY <1>3, <3>1, ConcatProperties
    <3> QED BY <1>3, <3>1, <3>2 DEF Is
  <2>6. ASSUME NEW i \in 1 .. 1 + Len(d) PROVE LoadsOf(e)[i] = (<<f>> \o l)[i]
    <3>1. LoadsOf(e)[i] = Load(e[i])
      BY <2>2 DEF LoadsOf
    <3>2. CASE i = 1
      <4>1. 1 \in 1 .. 1 + Len(d) /\ 1 <= 1
        BY <1>0
      <4>2. e[1] = p
        BY <2>1, <2>2, <4>1
      <4>3. (<<f>> \o l)[1] = f
        BY <2>4, <2>5, <4>1
      <4> QED BY <3>1, <3>2, <4>2, <4>3 DEF Is
    <3>3. CASE i # 1
      <4>1. ~(i <= 1) /\ i - 1 \in 1 .. Len(d)
        BY <1>1, <3>3
      <4> QED BY <1>3, <2>2, <2>5, <3>1, <4>1
    <3> QED BY <3>2, <3>3
  <2>7. LoadsOf(e) = <<f>> \o l
    BY <2>3, <2>5, <2>6, SeqEqual
  <2>8. FlattenSeq(<<f>> \o l) = f \o FlattenSeq(l)
    BY <1>3, FlattenFirst
  <2> QED BY <2>2, <2>7, <2>8 DEF Is, Loads
<1> QED BY <1>4, <1>5

-----------------------------------------------------------------------------
(* The buffers while they are read, when the plots g have been drawn and   *)
(* the bytes x follow                                                      *)

Orderly(c, s, g, v, x) ==
  /\ InOrder(s, g \o v.queue)
  /\ v.end = "ok" \/ c \notin InPlace => Fits(c, s, g \o v.queue, v.data \o x)

LEMMA HandleFits ==
  ASSUME NEW c, NEW s, NEW g \in Plots, NEW v \in Work, v.end = "ok", NEW p \in PacketSet, NEW x \in Bytes,
         Orderly(c, s, g, v, Load(p) \o x)
  PROVE  Orderly(c, s, g, Handle(c, v, p), x)
<1>1. v.data \in Bytes /\ v.queue \in Plots /\ g \o v.queue \in Plots
  BY PlotsJoin DEF Work
<1>2. p \in Bytes /\ Len(p) >= NetHeaderLen /\ Load(p) \in Bytes
  BY LoadType DEF PacketSet
<1> PICK y, d : Is(y, Load(p)) /\ Is(d, v.data)
  BY DEF Is
<1>3. y \in Bytes /\ d \in Bytes /\ Fits(c, s, g \o v.queue, d \o (y \o x))
  BY <1>1, <1>2 DEF Orderly, Is
<1>4. d \o (y \o x) = (d \o y) \o x /\ d \o y \in Bytes
  BY <1>3, BytesAssociate, ConcatProperties DEF Bytes
<1>5. CASE p[1] = 2
  <2>1. y = From(p, NetHeaderLen)
    BY <1>5 DEF Load, Is
  <2> PICK r : Is(r, Parse(c)[d \o y])
    BY DEF Is
  <2>2. r \in Outcome
    BY <1>4, ParseIs DEF Is
  <2>3. Handle(c, v, p) = Parsed(v, y)[r]
    BY <1>5, <2>1 DEF Handle, Is
  <2> PICK h : Is(h, Handle(c, v, p))
    BY DEF Is
  <2>4. h.queue = v.queue \o r.plots /\ h.data = r.data /\ h.end = r.end
    <3>1. h = [data |-> r.data, queue |-> v.queue \o r.plots, heard |-> v.heard \o y,
               shown |-> v.shown \o r.plots, raised |-> v.raised \/ r.end = "raise", end |-> r.end]
      BY <2>2, <2>3 DEF Parsed, Is
    <3> QED BY <3>1
  <2>5. /\ InOrder(s, (g \o v.queue) \o r.plots)
        /\ r.end = "ok" \/ c \notin InPlace => Fits(c, s, (g \o v.queue) \o r.plots, r.data \o x)
    BY <1>1, <1>3, <1>4, <2>2, ParseFits
  <2>6. (g \o v.queue) \o r.plots = g \o h.queue
    <3>1. r.plots \in Plots
      BY <2>2 DEF Outcome
    <3> PICK q, u : Is(q, v.queue) /\ Is(u, r.plots)
      BY DEF Is
    <3>2. q \in Plots /\ u \in Plots
      BY <1>1, <3>1 DEF Is
    <3>3. (g \o q) \o u = g \o (q \o u)
      BY <3>2, PlotsAssociate
    <3> QED BY <2>4, <3>3 DEF Is
  <2>7. Orderly(c, s, g, h, x)
    BY <2>4, <2>5, <2>6 DEF Orderly
  <2> QED BY <2>7 DEF Is
<1>6. CASE p[1] # 2
  <2>1. y = <<>>
    BY <1>6 DEF Load, Is
  <2>2. <<>> \o x = x
    BY ConcatEmptySeq DEF Bytes
  <2>3. Fits(c, s, g \o v.queue, d \o x)
    BY <1>3, <2>1, <2>2
  <2> PICK h : Is(h, Handle(c, v, p))
    BY DEF Is
  <2>4. CASE p[1] = 99
    <3>1. h = [v EXCEPT !.data = <<>>, !.heard = <<>>, !.shown = <<>>, !.raised = FALSE]
      BY <2>4 DEF Handle, Is
    <3>2. h.data = <<>> /\ h.queue = v.queue
      BY <3>1 DEF Work
    <3>3. Len(d) \in 0 .. Len(d) /\ From(d, Len(d)) = <<>>
      <4>1. d \in Seq(Nat) /\ Len(d) \in Nat
        BY <1>3, LenProperties DEF Bytes
      <4>2. Len(d) \in 0 .. Len(d)
        BY <4>1
      <4>3. From(d, Len(d)) \in Seq(Nat) /\ Len(From(d, Len(d))) = Len(d) - Len(d)
        BY <4>1, <4>2, FromProperties
      <4>4. Len(From(d, Len(d))) = 0
        BY <4>1, <4>3
      <4> QED BY <4>2, <4>3, <4>4, EmptySeq
    <3>4. Fits(c, s, g \o v.queue, <<>> \o x)
      BY <1>1, <1>3, <2>3, <3>3, FitsCut
    <3>5. Orderly(c, s, g, h, x)
      BY <3>2, <3>4 DEF Orderly, Fits
    <3> QED BY <3>5 DEF Is
  <2>5. CASE p[1] \notin {2, 99}
    <3>1. Handle(c, v, p) = v
      BY <2>5 DEF Handle
    <3>2. Orderly(c, s, g, v, x)
      BY <2>3 DEF Orderly, Fits, Is
    <3> QED BY <3>1, <3>2
  <2> QED BY <1>6, <2>4, <2>5
<1> QED BY <1>5, <1>6

(* As long as the packets handled are those of d, and z follows them *)
LEMMA ProcessFits ==
  ASSUME NEW c, NEW s, NEW g \in Plots, NEW w \in PacketWalk, w.handled = <<>>, NEW d \in Seq(PacketSet), NEW z \in Bytes,
         Orderly(c, s, g, w.s, Loads(d) \o z), NEW r \in PacketWalk, Is(r, Process(c)[w]),
         NEW e \in Seq(PacketSet), d = r.handled \o e
  PROVE  Orderly(c, s, g, r.s, Loads(e) \o z)
<1> DEFINE Follows(v) == /\ v.handled \in Seq(PacketSet)
                         /\ \A q \in Seq(PacketSet) : Is(d, v.handled \o q) => Orderly(c, s, g, v.s, Loads(q) \o z)
           T == {v \in PacketWalk : Follows(v)}
<1>1. w \in T
  <2>1. <<>> \in Seq(PacketSet)
    BY EmptySeq
  <2>2. ASSUME NEW q \in Seq(PacketSet), Is(d, <<>> \o q) PROVE d = q
    BY <2>2, ConcatEmptySeq DEF Is
  <2> QED BY <2>1, <2>2
<1>2. ASSUME NEW v \in PacketWalk, v \in T PROVE NextPacket(c)[v] \in T
  <2> PICK u : u = NextPacket(c)[v]
    OBVIOUS
  <2>0. Follows(v) /\ u \in PacketWalk
    BY <1>2, NextPacketType
  <2>1. CASE v.s.end # "ok" \/ ~Whole(v.net)
    <3>1. u = v
      BY <2>1 DEF NextPacket
    <3> QED BY <1>2, <3>1
  <2>2. CASE ~(v.s.end # "ok" \/ ~Whole(v.net))
    <3> PICK n, p : n = NetHeaderLen + v.net[2] /\ p = Slice(v.net, 0, n)
      OBVIOUS
    <3>1. v.net \in Bytes /\ v.s \in Work /\ v.s.end = "ok"
      BY <2>2 DEF PacketWalk
    <3>2. p \in PacketSet
      BY <2>2, <3>1, PacketTaken
    <3>3. u.s = Handle(c, v.s, p) /\ u.handled = Append(v.handled, p)
      BY <2>2 DEF NextPacket
    <3>4. u.handled \in Seq(PacketSet)
      BY <2>0, <3>2, <3>3, AppendProperties
    <3>5. ASSUME NEW q \in Seq(PacketSet), Is(d, u.handled \o q) PROVE Orderly(c, s, g, u.s, Loads(q) \o z)
      <4> PICK h : Is(h, v.handled)
        BY DEF Is
      <4>1. h \in Seq(PacketSet)
        BY <2>0 DEF Is
      <4>2. Append(h, p) \o q = h \o (<<p>> \o q)
        BY <3>2, <4>1, PacketsAssociate
      <4>3. <<p>> \o q \in Seq(PacketSet) /\ Loads(<<p>> \o q) = Load(p) \o Loads(q)
        BY <3>2, LoadsMore
      <4>4. Is(d, v.handled \o (<<p>> \o q))
        BY <3>3, <3>5, <4>2 DEF Is
      <4>5. Orderly(c, s, g, v.s, (Load(p) \o Loads(q)) \o z)
        BY <2>0, <4>3, <4>4
      <4>6. Load(p) \in Bytes /\ Loads(q) \in Bytes
        BY <3>2, LoadType, LoadsOfType
      <4> PICK a, b : Is(a, Load(p)) /\ Is(b, Loads(q))
        BY DEF Is
      <4>7. (a \o b) \o z = a \o (b \o z) /\ b \o z \in Bytes
        <5>1. a \in Seq(Nat) /\ b \in Seq(Nat) /\ z \in Seq(Nat)
          BY <4>6 DEF Is, Bytes
        <5> QED BY <5>1, BytesAssociate, ConcatProperties DEF Bytes
      <4>8. Orderly(c, s, g, v.s, Load(p) \o (b \o z))
        BY <4>5, <4>7 DEF Is
      <4>9. Orderly(c, s, g, u.s, b \o z)
        BY <3>1, <3>2, <3>3, <4>7, <4>8, HandleFits
      <4> QED BY <4>9 DEF Is
    <3> QED BY <2>0, <3>4, <3>5
  <2> QED BY <2>1, <2>2
<1> HIDE DEF T
<1>3. r \in T
  BY <1>1, <1>2, ProcessKeeps DEF Is
<1> HIDE DEF Follows
<1>4. Follows(r)
  BY <1>3 DEF T
<1> QED BY <1>4 DEF Follows, Is
LEMMA PacketLoad ==
  ASSUME NEW t \in Nat, NEW p \in Bytes
  PROVE  Load(Packet(t, p)) = IF t = 2 THEN p ELSE <<>>
<1>1. Len(p) \in Nat /\ p \in Seq(Nat)
  BY LenProperties DEF Bytes
<1>2. <<t, Len(p)>> \in Seq(Nat) /\ Len(<<t, Len(p)>>) = 2 /\ <<t, Len(p)>>[1] = t
  BY <1>1
<1> PICK h : Is(h, <<t, Len(p)>>)
  BY DEF Is
<1>3. h \in Seq(Nat) /\ Len(h) = 2 /\ h[1] = t
  BY <1>2 DEF Is
<1>4. Packet(t, p) = h \o p
  BY DEF Packet, Is
<1>5. /\ Len(h \o p) = 2 + Len(p)
      /\ \A i \in 1 .. 2 + Len(p) : (h \o p)[i] = IF i <= 2 THEN h[i] ELSE p[i - 2]
  <2>1. /\ Len(h \o p) = Len(h) + Len(p)
        /\ \A i \in 1 .. Len(h) + Len(p) : (h \o p)[i] = IF i <= Len(h) THEN h[i] ELSE p[i - Len(h)]
    BY <1>1, <1>3, ConcatProperties
  <2> QED BY <1>3, <2>1
<1>6. (h \o p)[1] = t
  <2>1. 1 \in 1 .. 2 + Len(p) /\ 1 <= 2
    BY <1>1
  <2> QED BY <1>3, <1>5, <2>1
<1>7. From(h \o p, NetHeaderLen) = p
  BY <1>1, <1>3, FromBehind DEF NetHeaderLen
<1> QED BY <1>4, <1>6, <1>7 DEF Load

LEMMA AnswersCarryNothing == Load(System) = <<>> /\ Load(Packet(1, <<7>>)) = <<>>
<1>1. <<>> \in Bytes /\ <<7>> \in Bytes
  BY EmptySeq DEF Bytes
<1>2. Load(Packet(99, <<>>)) = <<>> /\ Load(Packet(1, <<7>>)) = <<>>
  BY <1>1, PacketLoad
<1> QED BY <1>2 DEF System

(* What a sequence holds behind a prefix of it *)
LEMMA PrefixAndRest ==
  ASSUME NEW S, NEW d \in Seq(S), NEW h \in Seq(S), IsPrefix(h, d)
  PROVE  d = h \o From(d, Len(h)) /\ From(d, Len(h)) \in Seq(S)
<1>1. Len(h) \in Nat /\ Len(d) \in Nat /\ Len(h) <= Len(d)
  BY LenProperties DEF IsPrefix
<1>2. SubSeq(d, 1, Len(h)) = h
  BY SubSeqFull DEF IsPrefix
<1>3. 1 \in 1 .. Len(d) + 1 /\ Len(h) \in 1 - 1 .. Len(d) /\ Len(d) \in Len(h) .. Len(d)
  BY <1>1
<1>4. SubSeq(d, 1, Len(h)) \o SubSeq(d, Len(h) + 1, Len(d)) = SubSeq(d, 1, Len(d))
  BY <1>3, ConcatAdjacentSubSeq
<1>5. SubSeq(d, 1, Len(d)) = d
  BY SubSeqFull
<1>6. From(d, Len(h)) \in Seq(S)
  BY <1>1, PartOf
<1>7. h \o From(d, Len(h)) = d
  BY <1>2, <1>4, <1>5, Zenon DEF From
<1> QED BY <1>6, <1>7

-----------------------------------------------------------------------------
(* The plots are the radar's *)

(* The bytes that follow the packets due: those the radar has yet to send, *)
(* and before them those that a broken connection has missed.              *)
Awaits(z) ==
  /\ Fits(kind, stream, drawn \o queue, data \o (Loads(due) \o z))
  /\ link = "up" => z = radar
  /\ \E k \in 0 .. Len(z) : radar = From(z, k)

RadarInv ==
  /\ kind = "udp" => due = wire
  /\ intact => /\ InOrder(stream, drawn \o queue)
               /\ thread \in {"connecting", "receiving"} => \E z \in Bytes : Awaits(z)

(* The thread has read: its buffers are those of v, and the packets d are  *)
(* due                                                                     *)
LEMMA BecameFits ==
  ASSUME ClientTypeInv, NEW v \in Work, NEW d \in Seq(PacketSet), NEW z \in Bytes,
         Orderly(kind, stream, drawn, v, Loads(d) \o z),
         link = "up" => z = radar, \E k \in 0 .. Len(z) : radar = From(z, k),
         Became(v), due' = d, thread' = After(kind, v.end),
         UNCHANGED <<kind, stream, drawn, link, radar>>
  PROVE  /\ InOrder(stream, drawn \o queue)'
         /\ thread' \in {"connecting", "receiving"} => \E y \in Bytes : Awaits(y)'
<1>1. queue' = v.queue /\ data' = v.data /\ v.end \in {"ok", "raise", "spin"}
  BY DEF Became, Work
<1>2. InOrder(stream, drawn \o queue)'
  BY <1>1 DEF Orderly
<1>3. ASSUME thread' \in {"connecting", "receiving"} PROVE Awaits(z)'
  <2>1. v.end = "ok" \/ kind \notin InPlace
    BY <1>1, <1>3 DEF After, InPlace
  <2>2. Fits(kind, stream, drawn \o v.queue, v.data \o (Loads(d) \o z))
    BY <2>1 DEF Orderly
  <2> QED BY <1>1, <2>2 DEF Awaits
<1> QED BY <1>2, <1>3

LEMMA HereFits ==
  ASSUME ClientTypeInv, NEW z \in Bytes, Awaits(z)
  PROVE  Orderly(kind, stream, drawn, Here, Loads(due) \o z) /\ Here.end = "ok" /\ Here \in Work
<1>1. Here.queue = queue /\ Here.data = data /\ Here.end = "ok"
  BY DEF Here
<1>2. Fits(kind, stream, drawn \o queue, data \o (Loads(due) \o z))
  BY DEF Awaits
<1>3. InOrder(stream, drawn \o queue)
  BY <1>2 DEF Fits
<1> QED BY <1>1, <1>2, <1>3, HereType DEF Orderly

LEMMA ReceiveFits ==
  ASSUME ClientTypeInv, StepInv, RadarInv, NEW n \in 1 .. Len(wire), Receive(n)
  PROVE  RadarInv'
<1>1. /\ kind # "udp" /\ thread = "receiving" /\ n =< Len(wire) /\ n \in Nat /\ wire \in Bytes /\ net \in Bytes
      /\ UNCHANGED <<kind, stream, drawn, link, radar, intact>> /\ drawn \in Plots /\ due \in Seq(PacketSet)
  BY DEF Receive, ClientTypeInv, guiVars
<1> SUFFICES ASSUME intact
             PROVE  /\ InOrder(stream, drawn \o queue)'
                    /\ thread' \in {"connecting", "receiving"} => \E y \in Bytes : Awaits(y)'
  BY <1>1 DEF RadarInv
<1>2. PICK z \in Bytes : Awaits(z)
  BY <1>1 DEF RadarInv
<1> DEFINE w == [net |-> net \o SubSeq(wire, 1, n), s |-> Here, handled |-> <<>>]
<1>3. w \in PacketWalk
  <2>1. Take(wire, n) \in Bytes
    BY <1>1, PartOf DEF Bytes
  <2>2. net \o SubSeq(wire, 1, n) \in Bytes
    BY <1>1, <2>1, ConcatProperties DEF Bytes, Take
  <2>3. <<>> \in Seq(Bytes)
    OBVIOUS
  <2> QED BY <2>2, <2>3, HereType DEF PacketWalk
<1>4. w.handled = <<>> /\ w.s = Here
  OBVIOUS
<1> PICK r : Is(r, Process(kind)[w])
  BY DEF Is
<1>5. Became(r.s) /\ foreign' = (foreign \/ ~IsPrefix(r.handled, due))
      /\ due' = From(due, Len(r.handled)) /\ thread' = After(kind, r.s.end)
  BY DEF Receive, Is
<1> HIDE DEF w
<1>6. r \in PacketWalk /\ r.handled \in Seq(PacketSet) /\ r.s \in Work
  <2>1. r \in PacketWalk /\ r.handled \in Seq(PacketSet)
    BY <1>3, <1>4, ProcessHands DEF Is
  <2> QED BY <2>1 DEF PacketWalk
<1>7. ~foreign'
  <2>1. StepInv'
    BY ReceiveInStep
  <2> QED BY <1>1, <2>1 DEF StepInv
<1>8. due = r.handled \o due' /\ due' \in Seq(PacketSet)
  BY <1>1, <1>5, <1>6, <1>7, PrefixAndRest
<1>9. Orderly(kind, stream, drawn, w.s, Loads(due) \o z)
  BY <1>2, <1>4, HereFits
<1> PICK e : Is(e, due')
  BY DEF Is
<1>10. e \in Seq(PacketSet) /\ due = r.handled \o e
  BY <1>8 DEF Is
<1>11. Orderly(kind, stream, drawn, r.s, Loads(e) \o z)
  BY <1>1, <1>3, <1>4, <1>6, <1>9, <1>10, ProcessFits
<1>12. due' = e /\ (link = "up" => z = radar) /\ \E k \in 0 .. Len(z) : radar = From(z, k)
  BY <1>2 DEF Awaits, Is
<1> QED BY <1>1, <1>5, <1>6, <1>10, <1>11, <1>12, BecameFits

LEMMA DatagramFits ==
  ASSUME ClientTypeInv, RadarInv, NEW i \in 1 .. Len(wire), ReceiveDatagram(i)
  PROVE  RadarInv'
<1>1. /\ kind = "udp" /\ thread = "receiving" /\ due = wire /\ wire \in Seq(PacketSet) /\ due' = wire'
      /\ UNCHANGED <<kind, stream, drawn, link, radar>> /\ drawn \in Plots
      /\ intact' = (intact /\ i = 1) /\ wire' = SubSeq(wire, 1, i - 1) \o From(wire, i)
  BY DEF ReceiveDatagram, RadarInv, ClientTypeInv, guiVars
<1> SUFFICES ASSUME intact, i = 1
             PROVE  /\ InOrder(stream, drawn \o queue)'
                    /\ thread' \in {"connecting", "receiving"} => \E y \in Bytes : Awaits(y)'
  BY <1>1 DEF RadarInv
<1>2. PICK z \in Bytes : Awaits(z)
  BY <1>1 DEF RadarInv
<1> PICK p, e : Is(p, wire[1]) /\ Is(e, From(wire, 1))
  BY DEF Is
<1>3. p \in PacketSet /\ e \in Seq(PacketSet) /\ wire = <<p>> \o e
  <2>1. Len(wire) \in Nat /\ 1 \in 1 .. Len(wire) /\ Len(wire) \in 1 .. Len(wire)
    BY <1>1, LenProperties
  <2>2. wire[1] \in PacketSet /\ From(wire, 1) \in Seq(PacketSet)
    BY <1>1, <2>1, ElementOfSeq, PartOf
  <2>3. SubSeq(wire, 1, Len(wire)) = <<wire[1]>> \o SubSeq(wire, 1 + 1, Len(wire))
    BY <1>1, <2>1, SubSeqRecursiveFirst
  <2>4. SubSeq(wire, 1, Len(wire)) = wire
    BY <1>1, SubSeqFull
  <2> QED BY <2>2, <2>3, <2>4 DEF From, Is
<1>4. due' = e
  <2>1. SubSeq(wire, 1, 1 - 1) = <<>>
    BY SubSeqEmpty
  <2>2. <<>> \o e = e
    BY <1>3, ConcatEmptySeq
  <2> QED BY <1>1, <2>1, <2>2 DEF Is
<1> PICK v : Is(v, Handle(kind, Here, p))
  BY DEF Is
<1>5. Became(v) /\ thread' = After(kind, v.end)
  BY DEF ReceiveDatagram, Is
<1>6. Orderly(kind, stream, drawn, Here, Loads(due) \o z) /\ Here.end = "ok" /\ Here \in Work
  BY <1>2, HereFits
<1> PICK a, b : Is(a, Load(p)) /\ Is(b, Loads(e))
  BY DEF Is
<1>7. a \in Seq(Nat) /\ b \in Seq(Nat) /\ z \in Seq(Nat) /\ Loads(due) = a \o b
  <2>1. Loads(<<p>> \o e) = Load(p) \o Loads(e)
    BY <1>3, LoadsMore
  <2>2. Load(p) \in Bytes /\ Loads(e) \in Bytes
    BY <1>3, LoadType, LoadsOfType
  <2> QED BY <1>1, <1>3, <2>1, <2>2 DEF Is, Bytes
<1>8. (a \o b) \o z = a \o (b \o z) /\ b \o z \in Bytes
  BY <1>7, BytesAssociate, ConcatProperties DEF Bytes
<1>9. Orderly(kind, stream, drawn, Here, Load(p) \o (b \o z))
  BY <1>6, <1>7, <1>8 DEF Is
<1>10. Orderly(kind, stream, drawn, v, Loads(e) \o z)
  BY <1>1, <1>3, <1>6, <1>8, <1>9, HandleFits DEF Is
<1>11. v \in Work
  <2>1. p \in Bytes /\ Len(p) >= NetHeaderLen
    BY <1>3 DEF PacketSet
  <2> QED BY <1>6, <2>1, HandleType DEF Is
<1>12. (link = "up" => z = radar) /\ \E k \in 0 .. Len(z) : radar = From(z, k)
  BY <1>2 DEF Awaits
<1> QED BY <1>1, <1>3, <1>4, <1>5, <1>10, <1>11, <1>12, BecameFits

(* What the bytes under way become does not matter *)
LEMMA StaysFits ==
  ASSUME RadarInv, UNCHANGED <<kind, stream, data, due, radar, intact>>, drawn' \o queue' = drawn \o queue,
         kind = "udp" => wire' = wire, link' = "up" => link = "up",
         thread' \in {"connecting", "receiving"} => thread \in {"connecting", "receiving"}
  PROVE  RadarInv'
<1>1. ASSUME NEW z \in Bytes, Awaits(z) PROVE Awaits(z)'
  BY <1>1 DEF Awaits
<1> QED BY <1>1 DEF RadarInv

(* The server sends the packets q, with the bytes the radar still has to   *)
(* send behind them                                                        *)
LEMMA SentFits ==
  ASSUME ClientTypeInv, RadarInv, link = "up", NEW d \in Seq(PacketSet), NEW x \in Seq(Nat), NEW y \in Seq(Nat),
         Loads(d) = Loads(due) \o x, radar = x \o y, due' = d, radar' = y, kind = "udp" => wire' = d,
         UNCHANGED <<kind, thread, stream, data, drawn, queue, link, intact>>
  PROVE  RadarInv'
<1> SUFFICES ASSUME intact, thread \in {"connecting", "receiving"}
             PROVE  \E z \in Bytes : Awaits(z)'
  BY DEF RadarInv
<1>1. PICK z \in Bytes : Awaits(z)
  BY DEF RadarInv
<1>2. z = x \o y
  BY <1>1 DEF Awaits
<1> PICK l : Is(l, Loads(due))
  BY DEF Is
<1>3. l \in Seq(Nat)
  BY LoadsOfType DEF ClientTypeInv, Is, Bytes
<1>4. (l \o x) \o y = l \o (x \o y)
  BY <1>3, BytesAssociate
<1>5. Fits(kind, stream, drawn \o queue, data \o (Loads(d) \o y))
  BY <1>1, <1>2, <1>4 DEF Awaits, Is
<1>6. Len(y) \in Nat /\ 0 \in 0 .. Len(y) /\ y = From(y, 0)
  BY LenProperties, FromZero
<1>7. Awaits(y)'
  BY <1>5, <1>6 DEF Awaits
<1> QED BY <1>7 DEF Bytes

LEMMA ServerFits ==
  ASSUME ClientTypeInv, RadarInv, NEW n \in 1 .. Len(radar), ServerSends(n)
  PROVE  RadarInv'
<1>1. /\ radar \in Seq(Nat) /\ n \in Nat /\ n \in 0 .. Len(radar) /\ due \in Seq(PacketSet) /\ radar' = From(radar, n)
      /\ UNCHANGED <<kind, thread, stream, data, drawn, queue, link, intact>>
  BY LenProperties DEF ServerSends, threadVars, guiVars, ClientTypeInv, Bytes
<1>2. CASE link # "up"
  <2>1. due' = due /\ wire' = wire
    BY <1>2 DEF ServerSends
  <2>2. ASSUME NEW z \in Bytes, Awaits(z) PROVE Awaits(z)'
    <3>1. Fits(kind, stream, drawn \o queue, data \o (Loads(due) \o z))
      BY <2>2 DEF Awaits
    <3>2. PICK k \in 0 .. Len(z) : radar = From(z, k)
      BY <2>2 DEF Awaits
    <3>3. Len(radar) = Len(z) - k
      BY <3>2, FromProperties DEF Bytes
    <3>4. k + n \in 0 .. Len(z) /\ From(radar, n) = From(z, k + n)
      <4>1. n \in 0 .. Len(z) - k
        BY <1>1, <3>3
      <4> QED BY <3>2, <4>1, FromFrom DEF Bytes
    <3> QED BY <1>1, <1>2, <2>1, <3>1, <3>4 DEF Awaits
  <2> QED BY <1>1, <2>1, <2>2 DEF RadarInv
<1>3. CASE link = "up"
  <2> PICK x, p, y : Is(x, Take(radar, n)) /\ Is(p, Packet(2, x)) /\ Is(y, From(radar, n))
    BY DEF Is
  <2>1. x \in Bytes /\ y \in Bytes /\ x \o y = radar
    BY <1>1, TakeProperties, FromProperties, TakeAndFrom DEF Is, Bytes
  <2>2. p \in PacketSet /\ Load(p) = x
    BY <2>1, PacketIs, PacketLoad DEF Is
  <2>3. due' = Append(due, p) /\ wire' = OnWire(p) /\ radar' = y
    BY <1>1, <1>3 DEF ServerSends, Is, Take
  <2> PICK d : Is(d, Append(due, p))
    BY DEF Is
  <2>4. d \in Seq(PacketSet) /\ Loads(d) = Loads(due) \o x
    BY <1>1, <2>2, LoadsMore DEF Is
  <2>5. kind = "udp" => wire' = d
    BY <2>3 DEF OnWire, RadarInv, Is
  <2>6. due' = d /\ x \in Seq(Nat) /\ y \in Seq(Nat)
    BY <2>1, <2>3 DEF Is, Bytes
  <2> QED BY <1>1, <1>3, <2>1, <2>3, <2>4, <2>5, <2>6, SentFits
<1> QED BY <1>2, <1>3

LEMMA AnswerFits ==
  ASSUME ClientTypeInv, RadarInv, ServerAcks
  PROVE  RadarInv'
<1>1. /\ link = "up" /\ due \in Seq(PacketSet) /\ radar \in Seq(Nat)
      /\ UNCHANGED <<kind, thread, stream, data, drawn, queue, link, intact, radar>>
  BY DEF ServerAcks, threadVars, guiVars, ClientTypeInv, Bytes
<1> PICK a : Is(a, Packet(1, <<7>>))
  BY DEF Is
<1>2. a \in PacketSet /\ System \in PacketSet /\ Load(a) = <<>> /\ Load(System) = <<>>
  BY AnswersAre, AnswersCarryNothing DEF Is
<1>3. PICK p : /\ kind = "udp" => p = System
               /\ wire' = OnWire(p)
               /\ due' = due \o (IF p = System THEN <<System>> ELSE <<a, System>>)
  BY DEF ServerAcks, Is
<1> PICK d : Is(d, due')
  BY DEF Is
<1>4. \A e \in Seq(PacketSet) : Loads(e) \o <<>> = Loads(e)
  BY LoadsOfType, ConcatEmptySeq DEF Bytes
<1>5. d \in Seq(PacketSet) /\ Loads(d) = Loads(due)
  <2>1. CASE p = System
    <3>1. d = Append(due, System)
      BY <1>1, <1>2, <1>3, <2>1, AppendIsConcat DEF Is
    <3> QED BY <1>1, <1>2, <1>4, <3>1, LoadsMore
  <2>2. CASE p # System
    <3>1. d = Append(Append(due, a), System)
      BY <1>1, <1>2, <1>3, <2>2, TwoMore DEF Is
    <3>2. Append(due, a) \in Seq(PacketSet) /\ Loads(Append(due, a)) = Loads(due)
      BY <1>1, <1>2, <1>4, LoadsMore
    <3> QED BY <1>2, <1>4, <3>1, <3>2, LoadsMore
  <2> QED BY <2>1, <2>2
<1>6. kind = "udp" => wire' = d
  <2>1. ASSUME kind = "udp" PROVE wire' = d
    <3>1. wire' = Append(due, System) /\ due' = due \o <<System>>
      BY <1>3, <2>1 DEF OnWire, RadarInv
    <3>2. due \o <<System>> = Append(due, System)
      BY <1>1, <1>2, AppendIsConcat
    <3> QED BY <3>1, <3>2 DEF Is
  <2> QED BY <2>1
<1>7. <<>> \in Seq(Nat) /\ Loads(d) = Loads(due) \o <<>> /\ radar = <<>> \o radar /\ due' = d /\ radar' = radar
  BY <1>1, <1>4, <1>5, ConcatEmptySeq, EmptySeq DEF Is
<1> QED BY <1>1, <1>5, <1>6, <1>7, SentFits

LEMMA ConnectedFits ==
  ASSUME ClientTypeInv, RadarInv, Connected
  PROVE  RadarInv'
<1>1. /\ thread = "connecting" /\ wire' = <<>> /\ due' = <<>> /\ intact' = (intact /\ net = <<>> /\ data = <<>>)
      /\ UNCHANGED <<kind, stream, data, drawn, queue, radar>>
      /\ drawn \in Plots /\ queue \in Plots /\ due \in Seq(PacketSet) /\ radar \in Bytes
  BY DEF Connected, guiVars, ClientTypeInv
<1> SUFFICES ASSUME intact, data = <<>>
             PROVE  InOrder(stream, drawn \o queue) /\ \E z \in Bytes : Awaits(z)'
  BY <1>1 DEF RadarInv
<1>2. InOrder(stream, drawn \o queue)
  BY DEF RadarInv
<1>3. PICK z \in Bytes : Awaits(z)
  BY <1>1 DEF RadarInv
<1>4. PICK k \in 0 .. Len(z) : radar = From(z, k)
  BY <1>3 DEF Awaits
<1> PICK l, g : Is(l, Loads(due)) /\ Is(g, drawn \o queue)
  BY DEF Is
<1>5. l \in Seq(Nat) /\ z \in Seq(Nat) /\ g \in Plots
  BY <1>1, LoadsOfType, PlotsJoin DEF Is, Bytes
<1>6. l \o z \in Seq(Nat) /\ <<>> \o (l \o z) = l \o z
  BY <1>5, ConcatProperties, ConcatEmptySeq
<1>7. Fits(kind, stream, g, l \o z)
  BY <1>3, <1>6 DEF Awaits, Is
<1>8. Fits(kind, stream, g, From(l, Len(l)) \o z)
  <2>1. Len(l) \in 0 .. Len(l)
    BY <1>5, LenProperties
  <2> QED BY <1>5, <1>7, <2>1, FitsCut DEF Bytes
<1>9. From(l, Len(l)) \o z = z
  <2>1. From(l \o z, Len(l)) = z
    BY <1>5, FromBehind
  <2>2. Len(l) \in 0 .. Len(l)
    BY <1>5, LenProperties
  <2> QED BY <1>5, <2>1, <2>2, FromConcat
<1>10. Fits(kind, stream, g, radar)
  BY <1>4, <1>5, <1>8, <1>9, FitsBehind DEF Bytes
<1>11. <<>> \o (Loads(<<>>) \o radar) = radar
  BY <1>1, NoLoads, ConcatEmptySeq DEF Bytes
<1>12. 0 \in 0 .. Len(radar) /\ radar = From(radar, 0)
  BY <1>1, LenProperties, FromZero DEF Bytes
<1>13. Awaits(radar)'
  BY <1>1, <1>10, <1>11, <1>12 DEF Awaits, Is
<1> QED BY <1>1, <1>2, <1>13

LEMMA StepFits == ClientTypeInv /\ StepInv /\ RadarInv /\ [Next]_vars => RadarInv'
<1> SUFFICES ASSUME ClientTypeInv, StepInv, RadarInv, [Next]_vars PROVE RadarInv'
  OBVIOUS
<1>1. CASE Timeout
  BY <1>1, StaysFits DEF Timeout, guiVars, envVars, history
<1>2. CASE Lost
  BY <1>2, StaysFits DEF Lost, guiVars, history
<1>3. CASE Refused
  BY <1>3, StaysFits DEF Refused, guiVars, envVars, history
<1>4. CASE Network
  <2>1. CASE LoseDatagram
    BY <2>1 DEF LoseDatagram, RadarInv
  <2>2. CASE KeepaliveFails
    BY <2>2, StaysFits DEF KeepaliveFails, guiVars, envVars, history
  <2>3. ASSUME NEW n \in Cuts(Len(wire)), Break(n) PROVE RadarInv'
    BY <2>3, StaysFits DEF Break, threadVars, guiVars, history
  <2> QED BY <1>4, <2>1, <2>2, <2>3, ServerFits, AnswerFits DEF Network
<1>5. CASE Open
  BY <1>5, StaysFits DEF Open, envVars, history
<1>6. CASE Draw
  <2>1. drawn' = drawn \o queue /\ queue' = <<>> /\ drawn \in Plots /\ queue \in Plots
    BY <1>6 DEF Draw, ClientTypeInv
  <2>2. (drawn \o queue) \o <<>> = drawn \o queue
    BY <2>1, PlotsJoin, PlotsAssociate
  <2> QED BY <1>6, <2>1, <2>2, StaysFits DEF Draw, threadVars, envVars, history
<1>7. CASE Close
  BY <1>7, StaysFits DEF Close, envVars, history
<1>8. CASE Joined
  BY <1>8, StaysFits DEF Joined, threadVars, envVars, history
<1>9. CASE UNCHANGED vars
  BY <1>9, StaysFits DEF vars, threadVars, guiVars, envVars, history
<1> QED BY <1>1, <1>2, <1>3, <1>4, <1>5, <1>6, <1>7, <1>8, <1>9, ReceiveFits, DatagramFits, ConnectedFits
        DEF Next, Worker

AllReadable == \A s \in Streams : Readable(s)

LEMMA InitFits == ASSUME AllReadable, Init PROVE RadarInv
<1>1. /\ kind \in Kinds /\ stream \in Streams /\ drawn = <<>> /\ queue = <<>> /\ data = <<>> /\ due = <<>> /\ wire = <<>>
      /\ radar = BytesOf(stream) /\ link = "none" /\ radar \in Bytes
  BY InitIsTyped DEF Init, ClientTypeInv
<1>2. <<>> \o <<>> = <<>>
  BY PlotsAssociate, NothingInOrder
<1>3. Fits(kind, stream, <<>>, radar)
  BY <1>1 DEF AllReadable, Readable
<1>4. <<>> \o (Loads(<<>>) \o radar) = radar
  BY <1>1, NoLoads, ConcatEmptySeq DEF Bytes
<1>5. 0 \in 0 .. Len(radar) /\ radar = From(radar, 0)
  BY <1>1, LenProperties, FromZero DEF Bytes
<1>6. Awaits(radar)
  BY <1>1, <1>2, <1>3, <1>4, <1>5 DEF Awaits
<1>7. InOrder(stream, drawn \o queue)
  BY <1>1, <1>2, NothingInOrder
<1> QED BY <1>1, <1>6, <1>7 DEF RadarInv

(* When the streams are read as the plots beside them, every plot emitted  *)
(* on an unbroken stream is one that the radar sent, in the radar's order: *)
(* wherever the server and recv cut the stream, whatever answers come      *)
(* between its packets, and whether or not a frame raises an exception or  *)
(* the connection breaks and is made again, no plot is put together from   *)
(* the pieces of two frames, drawn twice or drawn late.                    *)
THEOREM ClientShowsRadars == ASSUME AllReadable PROVE Spec => []PlotsAreRadars
<1>1. Init => ClientTypeInv /\ StepInv /\ RadarInv
  <2>1. Init => StepInv
    BY DEF Init, StepInv
  <2> QED BY <2>1, InitIsTyped, InitFits
<1>2. ClientTypeInv /\ StepInv /\ RadarInv /\ [Next]_vars => (ClientTypeInv /\ StepInv /\ RadarInv)'
  BY StepIsTyped, StepsInStep, StepFits
<1>3. ClientTypeInv /\ StepInv /\ RadarInv => PlotsAreRadars
  BY DEF RadarInv, PlotsAreRadars
<1> QED BY <1>1, <1>2, <1>3, PTL DEF Spec
-----------------------------------------------------------------------------
(* The reader of the GUI: the same stream read from the UART itself, for   *)
(* any streams, chunks, losses and time-outs.                              *)

(* Every stream is as a radar sends it. *)
AllFramed == \A s \in UartStreams : Framed(s)

(* The frames the radar has to send, with what lies before each *)
Line(s, i) == s.frames[i].before \o s.frames[i].bytes
FrameLines(s) == [i \in DOMAIN s.frames |-> Line(s, i)]
Owed(s, k) == FlattenSeq(From(FrameLines(s), k))

(* The bytes the reader has yet to look at *)
Unread == (IF held = -1 THEN <<>> ELSE <<held>>) \o (port \o toSend)

(* The reader hunts for the next frame and is in what lies before it, or   *)
(* at its first byte; or there is no frame left.                           *)
Hunting(k) ==
  \/ k = Len(uartStream.frames) /\ Unread = <<>> /\ index = 0
  \/ /\ k + 1 \in DOMAIN uartStream.frames
     /\ \E d \in 0 .. Len(uartStream.frames[k + 1].before) :
          frame \o Unread = From(Line(uartStream, k + 1), d) \o Owed(uartStream, k + 1)
     /\ index \in {0, 1} /\ frame = (IF index = 0 THEN <<>> ELSE <<91>>)
     /\ held # -1 => index = 0

(* It is in the frame *)
InFrame(k) ==
  /\ k + 1 \in DOMAIN uartStream.frames /\ held = -1
  /\ frame \o Unread = uartStream.frames[k + 1].bytes \o Owed(uartStream, k + 1)
  /\ pc = "version" => Len(frame) = 2
  /\ pc = "length" => Len(frame) = 3
  /\ pc = "rest" => Len(frame) = 5
  /\ pc = "parse" => Len(frame) = Len(uartStream.frames[k + 1].bytes)

UartStands(k) ==
  /\ pc = "idle" => held = -1 /\ Unread = Owed(uartStream, k)
  /\ pc = "magic" => Hunting(k)
  /\ pc \in {"version", "length", "rest", "parse"} => InFrame(k)

UartInv ==
  /\ uartStream \in UartStreams
  /\ stalls \in Nat /\ lost \in Nat
  /\ port \in Seq(Nat) /\ toSend \in Seq(Nat) /\ frame \in Seq(Nat) /\ held \in Nat \cup {-1}
  /\ pc \in {"idle", "magic", "version", "length", "rest", "parse"}
  /\ \E P : passes \in Seq(P)
  /\ stalls = 0 /\ lost = 0 =>
       /\ Len(passes) =< Len(uartStream.frames)
       /\ \A i \in 1 .. Len(passes) : passes[i].frame = uartStream.frames[i].bytes
       /\ UartStands(Len(passes))

-----------------------------------------------------------------------------
(* What a frame is *)
FrameIs(s, i) ==
  /\ s.frames[i].before \in Seq(Nat) /\ s.frames[i].bytes \in Seq(Nat) /\ Line(s, i) \in Seq(Nat)
  /\ Len(s.frames[i].before) \in Nat /\ Len(s.frames[i].bytes) \in Nat /\ Len(s.frames[i].bytes) >= 5
  /\ Len(s.frames[i].bytes) = s.frames[i].bytes[4] + 100 * s.frames[i].bytes[5]
  /\ s.frames[i].bytes[1] = 91 /\ s.frames[i].bytes[2] = 92
  /\ Len(Line(s, i)) = Len(s.frames[i].before) + Len(s.frames[i].bytes)
  /\ \A d \in 1 .. Len(s.frames[i].before) : ~(Line(s, i)[d] = 91 /\ Line(s, i)[d + 1] = 92)

LEMMA FramesAre ==
  ASSUME AllFramed, NEW s \in UartStreams
  PROVE  /\ Len(s.frames) \in Nat /\ DOMAIN s.frames = 1 .. Len(s.frames)
         /\ FrameLines(s) \in Seq(Seq(Nat)) /\ Len(FrameLines(s)) = Len(s.frames)
         /\ \A i \in 1 .. Len(s.frames) : FrameLines(s)[i] = Line(s, i) /\ FrameIs(s, i)
<1>1. Framed(s)
  BY DEF AllFramed
<1>2. PICK S : s.frames \in Seq(S)
  BY <1>1 DEF Framed
<1>3. PICK n \in Nat : n = Len(s.frames) /\ DOMAIN s.frames = 1 .. n
  BY <1>2, LenProperties
<1>4. MagicWord[1] = 91 /\ MagicWord[2] = 92
  BY DEF MagicWord
<1>5. ASSUME NEW i \in 1 .. n PROVE FrameIs(s, i)
  <2> PICK b, y, l : b = s.frames[i].before /\ y = s.frames[i].bytes /\ l = Line(s, i)
    OBVIOUS
  <2>1. /\ b \in Seq(Nat) /\ y \in Seq(Nat) /\ Len(y) >= ReadSoFar /\ Len(y) = Sized(y)
        /\ y[1] = MagicWord[1] /\ y[2] = MagicWord[2]
        /\ \A d \in 1 .. Len(b) : ~((b \o y)[d] = MagicWord[1] /\ (b \o y)[d + 1] = MagicWord[2])
    <3> USE <1>1, <1>3 DEF Framed
    <3>1. b \in Seq(Nat)
      OBVIOUS
    <3>2. y \in Seq(Nat)
      OBVIOUS
    <3>3. Len(y) >= ReadSoFar
      OBVIOUS
    <3>4. Len(y) = Sized(y)
      OBVIOUS
    <3>5. y[1] = MagicWord[1] /\ y[2] = MagicWord[2]
      OBVIOUS
    <3>6. \A d \in 1 .. Len(b) : ~((b \o y)[d] = MagicWord[1] /\ (b \o y)[d + 1] = MagicWord[2])
      OBVIOUS
    <3> QED BY ONLY <3>1, <3>2, <3>3, <3>4, <3>5, <3>6
  <2>2. l = b \o y
    BY DEF Line
  <2>3. Len(y) >= 5 /\ Len(y) = y[4] + 100 * y[5]
    BY <2>1 DEF ReadSoFar, Sized, Base
  <2>4. l \in Seq(Nat) /\ Len(l) = Len(b) + Len(y) /\ Len(b) \in Nat /\ Len(y) \in Nat
    <3>1. b \in Seq(Nat) /\ y \in Seq(Nat)
      BY <2>1
    <3>2. b \o y \in Seq(Nat) /\ Len(b \o y) = Len(b) + Len(y)
      BY <3>1, ConcatProperties
    <3> QED BY <2>2, <3>1, <3>2, LenProperties
  <2>5. \A d \in 1 .. Len(b) : ~(l[d] = 91 /\ l[d + 1] = 92)
    <3> SUFFICES ASSUME NEW d \in 1 .. Len(b) PROVE ~(l[d] = 91 /\ l[d + 1] = 92)
      OBVIOUS
    <3>1. ~((b \o y)[d] = MagicWord[1] /\ (b \o y)[d + 1] = MagicWord[2])
      BY <2>1
    <3>2. ~(l[d] = MagicWord[1] /\ l[d + 1] = MagicWord[2])
      BY <2>2, <3>1
    <3> QED BY <1>4, <3>2
  <2> QED BY <1>4, <2>1, <2>3, <2>4, <2>5 DEF FrameIs
<1>6. FrameLines(s) = [i \in 1 .. n |-> Line(s, i)] /\ \A i \in 1 .. n : Line(s, i) \in Seq(Nat)
  BY <1>3, <1>5 DEF FrameLines, FrameIs
<1>7. FrameLines(s) \in Seq(Seq(Nat)) /\ Len(FrameLines(s)) = n
  BY <1>6
<1>8. \A i \in 1 .. n : FrameLines(s)[i] = Line(s, i)
  BY <1>6
<1> QED BY <1>3, <1>5, <1>7, <1>8

LEMMA HeadAndRest ==
  ASSUME NEW x \in Seq(Seq(Nat)), NEW k \in Nat, k < Len(x)
  PROVE  /\ From(x, k) = <<x[k + 1]>> \o From(x, k + 1) /\ From(x, k + 1) \in Seq(Seq(Nat)) /\ x[k + 1] \in Seq(Nat)
<1>0. PICK n \in Nat : n = Len(x)
  BY LenProperties
<1>1. k + 1 \in 1 .. n /\ (k + 1) + 1 = k + 2 /\ \A i \in 1 .. n : x[i] \in Seq(Nat)
  BY <1>0, ElementOfSeq
<1>2. /\ From(x, k) \in Seq(Seq(Nat)) /\ Len(From(x, k)) = n - k
      /\ \A i \in 1 .. n - k : From(x, k)[i] = x[k + i]
  <2>1. k + 1 \in Int /\ n \in Int /\ \A i \in k + 1 .. n : x[i] \in Seq(Nat)
    BY <1>1
  <2>2. /\ SubSeq(x, k + 1, n) \in Seq(Seq(Nat))
        /\ Len(SubSeq(x, k + 1, n)) = IF k + 1 <= n THEN n - (k + 1) + 1 ELSE 0
        /\ \A i \in 1 .. n - (k + 1) + 1 : SubSeq(x, k + 1, n)[i] = x[(k + 1) + i - 1]
    BY <2>1, SubSeqProperties
  <2>3. n - (k + 1) + 1 = n - k /\ \A i \in 1 .. n - k : (k + 1) + i - 1 = k + i
    BY <1>0
  <2>4. k + 1 <= n /\ From(x, k) = SubSeq(x, k + 1, n)
    BY <1>0 DEF From
  <2> HIDE DEF From
  <2> QED BY <2>2, <2>3, <2>4
<1>3. /\ From(x, k + 1) \in Seq(Seq(Nat)) /\ Len(From(x, k + 1)) = n - (k + 1)
      /\ \A i \in 1 .. n - (k + 1) : From(x, k + 1)[i] = x[(k + 1) + i]
  <2>1. k + 2 \in Int /\ n \in Int /\ \A i \in k + 2 .. n : x[i] \in Seq(Nat)
    BY <1>1
  <2>2. /\ SubSeq(x, k + 2, n) \in Seq(Seq(Nat))
        /\ Len(SubSeq(x, k + 2, n)) = IF k + 2 <= n THEN n - (k + 2) + 1 ELSE 0
        /\ \A i \in 1 .. n - (k + 2) + 1 : SubSeq(x, k + 2, n)[i] = x[(k + 2) + i - 1]
    BY <2>1, SubSeqProperties
  <2>3. n - (k + 2) + 1 = n - (k + 1) /\ \A i \in 1 .. n - (k + 1) : (k + 2) + i - 1 = (k + 1) + i
    BY <1>0
  <2>4. k + 2 <= n \/ n - (k + 1) = 0
    BY <1>0
  <2> QED BY <1>0, <1>1, <2>2, <2>3, <2>4 DEF From
<1> PICK h, t : h = x[k + 1] /\ t = From(x, k + 1)
  OBVIOUS
<1>4. <<h>> \in Seq(Seq(Nat)) /\ Len(<<h>>) = 1 /\ <<h>>[1] = h
  BY <1>1
<1>5. /\ <<h>> \o t \in Seq(Seq(Nat)) /\ Len(<<h>> \o t) = 1 + Len(t)
      /\ \A i \in 1 .. 1 + Len(t) : (<<h>> \o t)[i] = IF i <= 1 THEN h ELSE t[i - 1]
  <2>1. t \in Seq(Seq(Nat))
    BY <1>3
  <2> QED BY <1>4, <2>1, ConcatProperties
<1>6. Len(t) = n - (k + 1) /\ Len(<<h>> \o t) = n - k /\ 1 + Len(t) = n - k
  <2>1. Len(t) = n - (k + 1)
    BY <1>3
  <2>2. 1 + (n - (k + 1)) = n - k
    BY <1>0
  <2> QED BY <1>5, <2>1, <2>2
<1>7. ASSUME NEW i \in 1 .. n - k PROVE (<<h>> \o t)[i] = From(x, k)[i]
  <2>1. (<<h>> \o t)[i] = IF i <= 1 THEN h ELSE t[i - 1]
    BY <1>5, <1>6
  <2>2. From(x, k)[i] = x[k + i]
    BY <1>2
  <2>3. CASE i = 1
    BY <2>1, <2>2, <2>3
  <2>4. CASE i # 1
    <3>1. i - 1 \in 1 .. n - (k + 1) /\ (k + 1) + (i - 1) = k + i
      BY <1>0, <2>4
    <3>2. t[i - 1] = x[(k + 1) + (i - 1)]
      BY <1>3, <3>1
    <3>3. (<<h>> \o t)[i] = t[i - 1]
      <4>1. ~(i <= 1)
        BY <1>0, <2>4
      <4> QED BY <2>1, <4>1
    <3>4. x[(k + 1) + (i - 1)] = x[k + i]
      BY <3>1
    <3> QED BY <2>2, <3>2, <3>3, <3>4
  <2> QED BY <2>3, <2>4
<1>8. From(x, k) = <<h>> \o t
  BY <1>2, <1>5, <1>6, <1>7, SeqEqual
<1> QED BY <1>1, <1>3, <1>8

LEMMA OwedIs ==
  ASSUME AllFramed, NEW s \in UartStreams, NEW n, n = Len(s.frames)
  PROVE  /\ Owed(s, 0) = Sent(s) /\ Owed(s, n) = <<>>
         /\ \A k \in 0 .. n : Owed(s, k) \in Seq(Nat)
         /\ \A k \in 0 .. n : k # n => Owed(s, k) = Line(s, k + 1) \o Owed(s, k + 1)
<1> DEFINE x == FrameLines(s)
<1>1. n \in Nat /\ x \in Seq(Seq(Nat)) /\ Len(x) = n /\ \A i \in 1 .. n : x[i] = Line(s, i)
  BY FramesAre
<1>2. Owed(s, 0) = Sent(s)
  <2>1. From(x, 0) = x
    BY <1>1, SubSeqFull DEF From
  <2>2. x = [i \in DOMAIN s.frames |-> s.frames[i].before \o s.frames[i].bytes]
    BY DEF FrameLines, Line
  <2> QED BY <2>1, <2>2 DEF Owed, Sent
<1> HIDE DEF x
<1>3. From(x, n) = <<>>
  BY <1>1, SubSeqEmpty DEF From
<1>4. Owed(s, n) = <<>> /\ <<>> \in Seq(Nat)
  BY <1>3, FlattenEmpty DEF Owed, x
<1>5. ASSUME NEW k \in 0 .. n, k # n
      PROVE  Owed(s, k) = Line(s, k + 1) \o Owed(s, k + 1) /\ Owed(s, k) \in Seq(Nat)
  <2>0. k \in Nat /\ k < Len(x) /\ k + 1 \in 1 .. n
    BY <1>1, <1>5
  <2>1. From(x, k) = <<x[k + 1]>> \o From(x, k + 1) /\ From(x, k + 1) \in Seq(Seq(Nat)) /\ x[k + 1] \in Seq(Nat)
    BY <1>1, <2>0, HeadAndRest
  <2>2. FlattenSeq(From(x, k)) = x[k + 1] \o FlattenSeq(From(x, k + 1))
    BY <2>1, FlattenFirst
  <2>3. FlattenSeq(From(x, k + 1)) \in Seq(Nat)
    BY <2>1, FlattenType
  <2>4. x[k + 1] = Line(s, k + 1)
    BY <1>1, <2>0
  <2>5. x[k + 1] \o FlattenSeq(From(x, k + 1)) \in Seq(Nat)
    BY <2>1, <2>3, ConcatProperties
  <2> QED BY <2>2, <2>4, <2>5 DEF Owed, x
<1> QED BY <1>2, <1>4, <1>5

LEMMA UartStarts == ASSUME AllFramed, UartInit PROVE UartInv
<1>1. uartStream \in UartStreams /\ toSend = Sent(uartStream) /\ port = <<>> /\ pc = "idle" /\ held = -1
      /\ frame = <<>> /\ passes = <<>> /\ stalls = 0 /\ lost = 0
  BY DEF UartInit, NoByte
<1>2. PICK n : n = Len(uartStream.frames)
  OBVIOUS
<1>3. n \in Nat
  BY <1>1, <1>2, FramesAre
<1>4. Owed(uartStream, 0) = toSend /\ toSend \in Seq(Nat)
  <2>1. 0 \in 0 .. n
    BY <1>3
  <2> QED BY <1>1, <1>2, <2>1, OwedIs
<1>5. <<>> \in Seq(Nat) /\ <<>> \in Seq({}) /\ Len(<<>>) = 0
  BY EmptySeq
<1>6. Unread = toSend
  <2>1. <<>> \o toSend = toSend
    BY <1>4, ConcatEmptySeq
  <2> QED BY <1>1, <2>1 DEF Unread
<1>7. UartStands(0)
  BY <1>1, <1>4, <1>6 DEF UartStands
<1> QED BY <1>1, <1>2, <1>3, <1>4, <1>5, <1>7 DEF UartInv

(* Steps that leave the reader where it is *)
LEMMA UartQuiet ==
  ASSUME UartInv, uartStream' = uartStream, lost' \in Nat, stalls' \in Nat, lost' = 0 => lost = 0,
         stalls' = 0 => stalls = 0,
         port' \in Seq(Nat), toSend' \in Seq(Nat), port' \o toSend' = port \o toSend \/ lost' # 0,
         UNCHANGED <<pc, index, held, frame, passes, cut>>
  PROVE  UartInv'
<1>1. lost' = 0 => Unread' = Unread
  BY DEF Unread
<1>2. lost' = 0 /\ stalls' = 0 => UartStands(Len(passes))'
  <2> SUFFICES ASSUME lost' = 0, stalls' = 0 PROVE UartStands(Len(passes))'
    OBVIOUS
  <2>1. UartStands(Len(passes)) /\ Unread' = Unread
    BY <1>1 DEF UartInv
  <2>2. Hunting(Len(passes)) => Hunting(Len(passes))'
    BY <2>1 DEF Hunting
  <2>3. InFrame(Len(passes)) => InFrame(Len(passes))'
    BY <2>1 DEF InFrame
  <2> QED BY <2>1, <2>2, <2>3 DEF UartStands
<1> QED BY <1>2 DEF UartInv

LEMMA UartDeliver == ASSUME AllFramed, UartInv, Deliver PROVE UartInv'
<1>1. PICK n \in 1 .. Len(toSend) :
        port' = port \o SubSeq(toSend, 1, n) /\ toSend' = Behind(toSend, n)
  BY DEF Deliver
<1>2. toSend \in Seq(Nat) /\ port \in Seq(Nat) /\ lost \in Nat /\ stalls \in Nat
  BY DEF UartInv
<1>3. n \in 0 .. Len(toSend)
  BY <1>2, LenProperties
<1>4. toSend' = From(toSend, n) /\ port' = port \o Take(toSend, n)
  BY <1>1 DEF Behind, From, Take
<1>5. From(toSend, n) \in Seq(Nat) /\ Take(toSend, n) \in Seq(Nat) /\ Take(toSend, n) \o From(toSend, n) = toSend
  BY <1>2, <1>3, FromProperties, TakeProperties, TakeAndFrom
<1>6. port' \o toSend' = port \o toSend /\ port' \in Seq(Nat)
  <2>1. (port \o Take(toSend, n)) \o From(toSend, n) = port \o (Take(toSend, n) \o From(toSend, n))
    BY <1>2, <1>5, BytesAssociate
  <2>2. port \o Take(toSend, n) \in Seq(Nat)
    BY <1>2, <1>5, ConcatProperties
  <2> QED BY <1>4, <1>5, <2>1, <2>2
<1>7. UNCHANGED <<uartStream, pc, index, held, frame, passes, cut, stalls, lost>>
  BY DEF Deliver, reader
<1> QED BY <1>2, <1>4, <1>5, <1>6, <1>7, UartQuiet

LEMMA UartLose == ASSUME AllFramed, UartInv, Lose PROVE UartInv'
<1>1. lost' = lost + 1 /\ toSend' = Tail(toSend) /\ toSend # <<>>
      /\ UNCHANGED <<uartStream, pc, index, held, frame, passes, cut, stalls, port>>
  BY DEF Lose, reader
<1>2. toSend \in Seq(Nat) /\ lost \in Nat /\ stalls \in Nat /\ port \in Seq(Nat)
  BY DEF UartInv
<1>3. toSend' \in Seq(Nat) /\ lost' \in Nat /\ lost' # 0
  BY <1>1, <1>2
<1> QED BY <1>1, <1>2, <1>3, UartQuiet

LEMMA UartStart == ASSUME AllFramed, UartInv, Start PROVE UartInv'
<1>1. /\ pc = "idle" /\ pc' = "magic" /\ index' = 0 /\ held' = -1 /\ frame' = <<>>
      /\ UNCHANGED <<uartStream, toSend, port, passes, stalls, lost>>
  BY DEF Start, NoByte
<1>2. <<>> \in Seq(Nat)
  BY EmptySeq
<1>3. ASSUME stalls = 0, lost = 0 PROVE Hunting(Len(passes))'
  <2> PICK k, n : k = Len(passes) /\ n = Len(uartStream.frames)
    OBVIOUS
  <2>1. k =< n /\ held = -1 /\ Unread = Owed(uartStream, k) /\ uartStream \in UartStreams
    BY <1>1, <1>3 DEF UartInv, UartStands
  <2>2. k \in Nat
    BY LenProperties DEF UartInv
  <2>3. n \in Nat /\ DOMAIN uartStream.frames = 1 .. n
        /\ \A i \in 1 .. n : FrameIs(uartStream, i)
    BY <2>1, FramesAre
  <2>4. Unread' = Unread
    BY <1>1, <2>1 DEF Unread
  <2>5. CASE k = n
    <3>1. Unread = <<>>
      BY <2>1, <2>5, OwedIs
    <3> QED BY <1>1, <2>4, <2>5, <3>1 DEF Hunting
  <2>6. CASE k # n
    <3>1. k + 1 \in 1 .. n /\ k \in 0 .. n
      BY <2>1, <2>2, <2>3, <2>6
    <3>2. Unread = Line(uartStream, k + 1) \o Owed(uartStream, k + 1)
      BY <2>1, <2>6, <3>1, OwedIs
    <3>3. Line(uartStream, k + 1) \in Seq(Nat) /\ 0 \in 0 .. Len(uartStream.frames[k + 1].before)
      <4>1. FrameIs(uartStream, k + 1)
        BY <2>3, <3>1
      <4>2. Len(uartStream.frames[k + 1].before) \in Nat
        BY <4>1 DEF FrameIs
      <4> QED BY <4>1, <4>2 DEF FrameIs
    <3>4. From(Line(uartStream, k + 1), 0) = Line(uartStream, k + 1)
      BY <3>3, FromZero
    <3>5. Unread \in Seq(Nat)
      BY <2>1, <3>1, OwedIs
    <3>6. <<>> \o Unread = Unread
      BY <3>5, ConcatEmptySeq
    <3>7. frame' \o Unread' = From(Line(uartStream, k + 1), 0) \o Owed(uartStream, k + 1)
      BY <1>1, <2>4, <3>2, <3>4, <3>6
    <3> QED BY <1>1, <2>3, <3>1, <3>3, <3>7 DEF Hunting, Line, Owed, FrameLines
  <2> QED BY <2>5, <2>6
<1>4. stalls' = 0 /\ lost' = 0 => UartStands(Len(passes))'
  BY <1>1, <1>3 DEF UartStands
<1> QED BY <1>1, <1>2, <1>4 DEF UartInv

(* No magic word begins in the first n bytes *)
NoMagicIn(l, n) == \A d \in 1 .. n : ~(l[d] = 91 /\ l[d + 1] = 92)

(* A frame y behind the bytes z, of which d were looked at, and o behind it *)
Approach(z, y, l, o, d, g) ==
  /\ z \in Seq(Nat) /\ y \in Seq(Nat) /\ Len(y) >= 5 /\ y[1] = 91 /\ y[2] = 92
  /\ l = z \o y /\ NoMagicIn(l, Len(z))
  /\ o \in Seq(Nat) /\ d \in 0 .. Len(z) /\ g = From(l, d) \o o

(* What is seen of them *)
Seen(z, y, l, o, d, g) ==
  /\ g \in Seq(Nat)
  /\ d = Len(z) => g[1] = 91 /\ g[2] = 92 /\ g = y \o o
  /\ g[1] = 91 /\ g[2] = 92 => d = Len(z)
  /\ d # Len(z) => d + 1 \in 0 .. Len(z) /\ From(g, 1) = From(l, d + 1) \o o

LEMMA HuntAt ==
  ASSUME NEW z, NEW y, NEW l, NEW o, NEW d, NEW g, Approach(z, y, l, o, d, g)
  PROVE  Seen(z, y, l, o, d, g)
<1>0. /\ z \in Seq(Nat) /\ y \in Seq(Nat) /\ Len(y) >= 5 /\ y[1] = 91 /\ y[2] = 92
      /\ Is(l, z \o y) /\ o \in Seq(Nat) /\ d \in 0 .. Len(z) /\ Is(g, From(l, d) \o o)
  BY DEF Approach, Is
<1>1. PICK a \in Nat, n \in Nat : a = Len(z) /\ n = Len(y)
  BY <1>0, LenProperties
<1>2. l \in Seq(Nat) /\ Len(l) = a + n /\ \A i \in 1 .. a + n : l[i] = IF i <= a THEN z[i] ELSE y[i - a]
  BY <1>0, <1>1, ConcatProperties DEF Is
<1>3. d \in 0 .. Len(l) /\ d \in Nat /\ d =< a /\ n >= 5
  BY <1>0, <1>1, <1>2
<1> PICK e : Is(e, From(l, d))
  BY DEF Is
<1>4. e \in Seq(Nat) /\ Len(e) = (a + n) - d /\ \A i \in 1 .. (a + n) - d : e[i] = l[d + i]
  <2>1. l \in Seq(Nat) /\ d \in 0 .. Len(l)
    BY <1>2, <1>3
  <2>2. From(l, d) \in Seq(Nat) /\ Len(From(l, d)) = Len(l) - d /\ \A i \in 1 .. Len(l) - d : From(l, d)[i] = l[d + i]
    BY <2>1, FromProperties
  <2> QED BY <1>2, <2>2 DEF Is
<1>5. g \in Seq(Nat) /\ \A i \in 1 .. Len(e) + Len(o) : g[i] = IF i <= Len(e) THEN e[i] ELSE o[i - Len(e)]
  <2>1. g = e \o o /\ o \in Seq(Nat)
    BY <1>0 DEF Is
  <2>2. e \in Seq(Nat)
    BY <1>4
  <2> QED BY <2>1, <2>2, ConcatProperties
<1>6. g[1] = l[d + 1] /\ g[2] = l[d + 2]
  <2>1. 1 \in 1 .. (a + n) - d /\ 2 \in 1 .. (a + n) - d
    BY <1>1, <1>3
  <2>2. 1 <= Len(e) /\ 2 <= Len(e) /\ 1 \in 1 .. Len(e) + Len(o) /\ 2 \in 1 .. Len(e) + Len(o)
    <3>1. Len(e) >= 2 /\ Len(e) \in Nat /\ Len(o) \in Nat
      BY <1>0, <1>1, <1>3, <1>4, LenProperties
    <3> QED BY <3>1
  <2>3. g[1] = e[1] /\ g[2] = e[2]
    BY <1>5, <2>2
  <2>4. e[1] = l[d + 1] /\ e[2] = l[d + 2]
    BY <1>4, <2>1
  <2> QED BY <2>3, <2>4
<1>7. ASSUME d = Len(z) PROVE g[1] = 91 /\ g[2] = 92 /\ g = y \o o
  <2>1. e = y
    BY <1>0, <1>7, FromBehind DEF Is
  <2>2. l[d + 1] = y[1] /\ l[d + 2] = y[2]
    <3>1. d + 1 \in 1 .. a + n /\ d + 2 \in 1 .. a + n /\ ~(d + 1 <= a) /\ ~(d + 2 <= a)
      BY <1>1, <1>3, <1>7
    <3>2. (d + 1) - a = 1 /\ (d + 2) - a = 2
      BY <1>1, <1>7
    <3>3. l[d + 1] = y[(d + 1) - a] /\ l[d + 2] = y[(d + 2) - a]
      BY <1>2, <3>1
    <3> QED BY <3>2, <3>3
  <2>3. g = y \o o
    BY <1>0, <2>1 DEF Is
  <2> QED BY <1>0, <1>6, <2>2, <2>3
<1>8. ASSUME g[1] = 91, g[2] = 92 PROVE d = Len(z)
  <2>1. SUFFICES ASSUME d # a PROVE FALSE
    BY <1>1
  <2>2. d + 1 \in 1 .. Len(z) /\ (d + 1) + 1 = d + 2
    BY <1>1, <1>3, <2>1
  <2>3. ~(l[d + 1] = 91 /\ l[(d + 1) + 1] = 92)
    BY <2>2 DEF NoMagicIn, Approach
  <2> QED BY <1>6, <1>8, <2>2, <2>3
<1>9. ASSUME d # Len(z) PROVE d + 1 \in 0 .. Len(z) /\ From(g, 1) = From(l, d + 1) \o o
  <2>1. d + 1 \in 0 .. Len(z)
    BY <1>1, <1>3, <1>9
  <2>2. 1 \in 0 .. Len(e) /\ 1 \in 0 .. Len(l) - d
    <3>1. (a + n) - d >= 1
      BY <1>1, <1>3
    <3> QED BY <1>2, <1>4, <3>1
  <2>3. From(e \o o, 1) = From(e, 1) \o o
    <3>1. e \in Seq(Nat) /\ 1 \in 0 .. Len(e)
      BY <1>4, <2>2
    <3>2. \A k \in 0 .. Len(e) : From(e \o o, k) = From(e, k) \o o
      BY <1>0, <3>1, FromConcat
    <3> QED BY <3>1, <3>2
  <2>4. From(From(l, d), 1) = From(l, d + 1)
    <3>1. l \in Seq(Nat) /\ d \in 0 .. Len(l) /\ 1 \in 0 .. Len(l) - d
      BY <1>2, <1>3, <2>2
    <3> QED BY <3>1, FromFrom
  <2>5. g = e \o o /\ e = From(l, d)
    BY <1>0 DEF Is
  <2> QED BY <2>1, <2>3, <2>4, <2>5
<1> QED BY <1>5, <1>7, <1>8, <1>9 DEF Seen

(* The byte that is looked at, and the bytes behind it *)
LookedAt(b, r) ==
  /\ b = (IF held = -1 THEN Head(port) ELSE held)
  /\ r = (IF held = -1 THEN Tail(port) ELSE port) \o toSend

LEMMA Looks ==
  ASSUME UartInv, held # -1 \/ port # <<>>, NEW b, NEW r, LookedAt(b, r)
  PROVE  /\ b \in Nat /\ r \in Seq(Nat) /\ <<b>> \in Seq(Nat) /\ Unread = <<b>> \o r /\ Unread # <<>>
         /\ (IF held = -1 THEN Tail(port) ELSE port) \in Seq(Nat)
<1>1. port \in Seq(Nat) /\ toSend \in Seq(Nat) /\ held \in Nat \cup {-1}
  BY DEF UartInv
<1>2. CASE held = -1
  <2>1. Head(port) \in Nat /\ Tail(port) \in Seq(Nat) /\ port = <<Head(port)>> \o Tail(port)
    <3>1. Head(port) \in Nat /\ Tail(port) \in Seq(Nat)
      BY <1>1, <1>2, HeadTailProperties
    <3>2. port = <<Head(port)>> \o Tail(port)
      BY <1>1, <1>2, HeadTailProperties
    <3> QED BY <3>1, <3>2
  <2>2. b = Head(port) /\ r = Tail(port) \o toSend
    BY <1>2 DEF LookedAt
  <2>3. <<b>> \in Seq(Nat) /\ r \in Seq(Nat)
    BY <1>1, <2>1, <2>2, ConcatProperties
  <2>4. (<<b>> \o Tail(port)) \o toSend = <<b>> \o r
    BY <1>1, <2>1, <2>2, <2>3, BytesAssociate
  <2>5. Unread = port \o toSend
    <3>1. port \o toSend \in Seq(Nat)
      BY <1>1, ConcatProperties
    <3> QED BY <1>2, <3>1, ConcatEmptySeq DEF Unread
  <2>6. Unread = <<b>> \o r
    BY <2>1, <2>2, <2>4, <2>5
  <2>7. Len(<<b>> \o r) = 1 + Len(r) /\ Len(r) \in Nat
    BY <2>3, ConcatProperties, LenProperties
  <2>8. Unread # <<>>
    BY <2>6, <2>7
  <2> QED BY <1>2, <2>1, <2>2, <2>3, <2>6, <2>8
<1>3. CASE held # -1
  <2>1. b = held /\ r = port \o toSend /\ held \in Nat
    BY <1>1, <1>3 DEF LookedAt
  <2>2. <<b>> \in Seq(Nat) /\ r \in Seq(Nat)
    BY <1>1, <2>1, ConcatProperties
  <2>3. Unread = <<b>> \o r
    BY <1>3, <2>1 DEF Unread
  <2>4. Len(<<b>> \o r) = 1 + Len(r) /\ Len(r) \in Nat
    BY <2>2, ConcatProperties, LenProperties
  <2>5. Unread # <<>>
    BY <2>3, <2>4
  <2> QED BY <1>1, <1>3, <2>1, <2>2, <2>3, <2>5
<1> QED BY <1>2, <1>3

LEMMA LookFurther ==
  ASSUME NEW b \in Nat, NEW r \in Seq(Nat)
  PROVE  /\ From(<<b>> \o r, 1) = r /\ (<<b>> \o r)[1] = b /\ <<b>> \o r \in Seq(Nat)
         /\ \A x \in Nat : (<<x>> \o (<<b>> \o r))[2] = b
<1>1. <<b>> \in Seq(Nat) /\ Len(<<b>>) = 1 /\ <<b>>[1] = b
  OBVIOUS
<1>2. From(<<b>> \o r, 1) = r
  BY <1>1, FromBehind
<1> PICK u : Is(u, <<b>> \o r)
  BY DEF Is
<1>3. u \in Seq(Nat) /\ Len(u) = 1 + Len(r) /\ u[1] = b
  <2>1. Len(r) \in Nat
    BY LenProperties
  <2>2. <<b>> \o r \in Seq(Nat) /\ Len(<<b>> \o r) = 1 + Len(r) /\ (<<b>> \o r)[1] = b
    BY <1>1, <2>1, ConcatProperties
  <2> QED BY <2>2 DEF Is
<1>4. ASSUME NEW x \in Nat PROVE (<<x>> \o u)[2] = b
  <2>1. <<x>> \in Seq(Nat) /\ Len(<<x>>) = 1 /\ Len(u) \in Nat /\ Len(u) >= 1
    BY <1>3, LenProperties
  <2>2. 2 \in 1 .. 1 + Len(u)
    BY <2>1
  <2>3. (<<x>> \o u)[2] = u[2 - 1]
    BY <1>3, <2>1, <2>2, ConcatProperties
  <2> QED BY <1>3, <2>3
<1> QED BY <1>2, <1>3, <1>4 DEF Is

(* One more byte of the magic word, or none: how the hunt goes on *)
HuntGoesOn(k, b, r) ==
  /\ k + 1 \in 1 .. Len(uartStream.frames) /\ index \in {0, 1}
  /\ frame = (IF index = 0 THEN <<>> ELSE <<91>>) /\ (index = 1 => held = -1)
  /\ index = 0 /\ b = 91 => \E d \in 0 .. Len(uartStream.frames[k + 1].before) :
       <<91>> \o r = From(Line(uartStream, k + 1), d) \o Owed(uartStream, k + 1)
  /\ index = 1 /\ b = 92 => (<<91>> \o <<92>>) \o r = uartStream.frames[k + 1].bytes \o Owed(uartStream, k + 1)
  /\ index = 0 /\ b # 91 => \E d \in 0 .. Len(uartStream.frames[k + 1].before) :
       r = From(Line(uartStream, k + 1), d) \o Owed(uartStream, k + 1)
  /\ index = 1 /\ b # 92 => \E d \in 0 .. Len(uartStream.frames[k + 1].before) :
       Unread = From(Line(uartStream, k + 1), d) \o Owed(uartStream, k + 1)

LEMMA HuntsOn ==
  ASSUME AllFramed, UartInv, NEW k \in Nat, Hunting(k), NEW b \in Nat, NEW r \in Seq(Nat),
         Unread = <<b>> \o r, Unread # <<>>
  PROVE  HuntGoesOn(k, b, r)
<1> PICK n, z, y, l, o : Is(n, Len(uartStream.frames)) /\ Is(z, uartStream.frames[k + 1].before)
                         /\ Is(y, uartStream.frames[k + 1].bytes) /\ Is(l, Line(uartStream, k + 1)) /\ Is(o, Owed(uartStream, k + 1))
  BY DEF Is
<1>1. uartStream \in UartStreams
  BY DEF UartInv
<1>2. n \in Nat /\ DOMAIN uartStream.frames = 1 .. n /\ \A i \in 1 .. n : FrameIs(uartStream, i)
  BY <1>1, FramesAre DEF Is
<1>3. PICK d \in 0 .. Len(z) :
        /\ k + 1 \in 1 .. n /\ frame \o Unread = From(l, d) \o o
        /\ index \in {0, 1} /\ frame = (IF index = 0 THEN <<>> ELSE <<91>>) /\ (held # -1 => index = 0)
  BY <1>2 DEF Hunting, Is
<1>4. FrameIs(uartStream, k + 1)
  BY <1>2, <1>3
<1>5. /\ z \in Seq(Nat) /\ y \in Seq(Nat) /\ Len(y) >= 5 /\ y[1] = 91 /\ y[2] = 92 /\ NoMagicIn(l, Len(z))
      /\ l \in Seq(Nat) /\ Is(l, z \o y)
  BY <1>4 DEF FrameIs, NoMagicIn, Is, Line
<1>6. o \in Seq(Nat)
  <2>1. k + 1 \in 0 .. n
    BY <1>2, <1>3
  <2> QED BY <1>1, <2>1, OwedIs DEF Is
<1> PICK u : Is(u, <<b>> \o r)
  BY DEF Is
<1>7. /\ u \in Seq(Nat) /\ u[1] = b /\ From(u, 1) = r /\ Unread = u /\ <<91>> \in Seq(Nat) /\ (<<91>> \o u)[2] = b
      /\ From(<<91>> \o u, 1) = u /\ (<<91>> \o u)[1] = 91
  <2>1. From(<<b>> \o r, 1) = r /\ (<<b>> \o r)[1] = b /\ <<b>> \o r \in Seq(Nat) /\ (<<91>> \o (<<b>> \o r))[2] = b
    BY LookFurther
  <2>2. u \in Seq(Nat) /\ u[1] = b /\ From(u, 1) = r /\ Unread = u /\ (<<91>> \o u)[2] = b
    BY <2>1 DEF Is
  <2>3. From(<<91>> \o u, 1) = u /\ (<<91>> \o u)[1] = 91
    BY <2>2, LookFurther
  <2> QED BY <2>2, <2>3
<1> PICK g : Is(g, From(l, d) \o o)
  BY DEF Is
<1>8. /\ g \in Seq(Nat)
      /\ d = Len(z) => g[1] = 91 /\ g[2] = 92 /\ g = y \o o
      /\ g[1] = 91 /\ g[2] = 92 => d = Len(z)
      /\ d # Len(z) => d + 1 \in 0 .. Len(z) /\ From(g, 1) = From(l, d + 1) \o o
  <2>1. Approach(z, y, l, o, d, g)
    BY <1>5, <1>6 DEF Approach, Is
  <2>2. Seen(z, y, l, o, d, g)
    BY <2>1, HuntAt
  <2> QED BY <2>2 DEF Seen
<1>9. ASSUME index = 0 PROVE g = u
  <2>1. <<>> \o u = u
    BY <1>7, ConcatEmptySeq
  <2>2. <<>> \o u = g
    BY <1>3, <1>7, <1>9 DEF Is
  <2> QED BY <2>1, <2>2
<1>10. ASSUME index = 1 PROVE g = <<91>> \o u
  <2>1. frame = <<91>> /\ Unread = u
    BY <1>3, <1>7, <1>10
  <2> QED BY <1>3, <2>1 DEF Is
<1>11. ASSUME index = 0, b = 91 PROVE <<91>> \o r = From(l, d) \o o
  BY <1>9, <1>11 DEF Is
<1>12. ASSUME index = 0, b # 91 PROVE d + 1 \in 0 .. Len(z) /\ r = From(l, d + 1) \o o
  BY <1>7, <1>8, <1>9, <1>12
<1>13. ASSUME index = 1, b = 92 PROVE (<<91>> \o <<92>>) \o r = y \o o
  <2>1. <<91>> \o (<<92>> \o r) = (<<91>> \o <<92>>) \o r
    <3>1. <<91>> \in Seq(Nat) /\ <<92>> \in Seq(Nat)
      OBVIOUS
    <3> QED BY <3>1, BytesAssociate
  <2>2. g = (<<91>> \o <<92>>) \o r
    BY <1>10, <1>13, <2>1 DEF Is
  <2>3. g[1] = 91 /\ g[2] = 92
    BY <1>7, <1>10, <1>13
  <2> QED BY <1>8, <2>2, <2>3
<1>14. ASSUME index = 1, b # 92 PROVE d + 1 \in 0 .. Len(z) /\ u = From(l, d + 1) \o o
  <2>1. From(g, 1) = u
    BY <1>7, <1>10, <1>14
  <2>2. d # Len(z)
    <3>1. g[2] = b
      BY <1>7, <1>10, <1>14
    <3> QED BY <1>8, <1>14, <3>1
  <2> QED BY <1>8, <2>1, <2>2
<1>15. index = 1 => held = -1
  BY <1>3
<1>16. index = 0 /\ b # 91 => \E e \in 0 .. Len(z) : r = From(l, e) \o o
  BY <1>12
<1>17. index = 1 /\ b # 92 => \E e \in 0 .. Len(z) : Unread = From(l, e) \o o
  <2>1. Unread = u
    BY <1>7
  <2> QED BY <1>14, <2>1
<1>18. index = 0 /\ b = 91 => \E e \in 0 .. Len(z) : <<91>> \o r = From(l, e) \o o
  BY <1>11
<1> QED BY <1>3, <1>13, <1>15, <1>16, <1>17, <1>18 DEF Is, HuntGoesOn

LEMMA UartHunt == ASSUME AllFramed, UartInv, Hunt PROVE UartInv'
<1> PICK b, r : LookedAt(b, r)
  BY DEF LookedAt
<1>1. /\ pc = "magic" /\ (held # -1 \/ port # <<>>)
      /\ port' = (IF held = -1 THEN Tail(port) ELSE port)
      /\ UNCHANGED <<uartStream, toSend, lost, stalls, passes>>
  BY DEF Hunt, NoByte, sender
<1>2. b = (IF held = -1 THEN Head(port) ELSE held) /\ r = port' \o toSend'
  BY <1>1 DEF LookedAt
<1>3. /\ b = MagicWord[index + 1] =>
           /\ held' = -1 /\ index' = index + 1 /\ frame' = Append(frame, b)
           /\ pc' = (IF index + 1 = Len(MagicWord) THEN "version" ELSE "magic")
      /\ b # MagicWord[index + 1] =>
           /\ held' = (IF index = 0 THEN -1 ELSE b) /\ index' = 0 /\ frame' = <<>> /\ pc' = "magic"
  BY <1>2 DEF Hunt, NoByte, Missed
<1>4. /\ b \in Nat /\ r \in Seq(Nat) /\ <<b>> \in Seq(Nat) /\ Unread = <<b>> \o r /\ Unread # <<>> /\ port' \in Seq(Nat)
  BY <1>1, Looks
<1>5. MagicWord[1] = 91 /\ MagicWord[2] = 92 /\ Len(MagicWord) = 2
  BY DEF MagicWord
<1>6. held' \in Nat \cup {-1} /\ frame' \in Seq(Nat) /\ pc' \in {"magic", "version"}
  <2>1. frame \in Seq(Nat) /\ <<>> \in Seq(Nat)
    BY EmptySeq DEF UartInv
  <2>2. Append(frame, b) \in Seq(Nat)
    BY <1>4, <2>1, AppendProperties
  <2> QED BY <1>3, <1>4, <2>1, <2>2
<1>7. ASSUME stalls = 0, lost = 0 PROVE UartStands(Len(passes))'
  <2> PICK k : k = Len(passes)
    OBVIOUS
  <2>1. k \in Nat /\ Hunting(k) /\ k' = k
    <3>1. k \in Nat
      BY LenProperties DEF UartInv
    <3> QED BY <1>1, <1>7, <3>1 DEF UartInv, UartStands
  <2> PICK n, z, y, l, o : Is(n, Len(uartStream.frames)) /\ Is(z, uartStream.frames[k + 1].before)
                         /\ Is(y, uartStream.frames[k + 1].bytes) /\ Is(l, Line(uartStream, k + 1)) /\ Is(o, Owed(uartStream, k + 1))
    BY DEF Is
  <2>2. /\ k + 1 \in 1 .. n /\ index \in {0, 1}
        /\ frame = (IF index = 0 THEN <<>> ELSE <<91>>) /\ (index = 1 => held = -1)
        /\ index = 0 /\ b = 91 => \E d \in 0 .. Len(z) : <<91>> \o r = From(l, d) \o o
        /\ index = 1 /\ b = 92 => (<<91>> \o <<92>>) \o r = y \o o
        /\ index = 0 /\ b # 91 => \E d \in 0 .. Len(z) : r = From(l, d) \o o
        /\ index = 1 /\ b # 92 => \E d \in 0 .. Len(z) : Unread = From(l, d) \o o
    <3>1. Unread = <<b>> \o r /\ Unread # <<>> /\ b \in Nat /\ r \in Seq(Nat)
      BY <1>4
    <3>2. HuntGoesOn(k, b, r)
      BY <2>1, <3>1, HuntsOn
    <3> QED BY <3>2 DEF Is, HuntGoesOn
  <2>3. k + 1 \in DOMAIN uartStream.frames
    <3>1. DOMAIN uartStream.frames = 1 .. n
      BY FramesAre DEF UartInv, Is
    <3> QED BY <2>2, <3>1
  <2>4. /\ Is(z, uartStream.frames[k + 1].before)' /\ Is(y, uartStream.frames[k + 1].bytes)'
        /\ Is(l, Line(uartStream, k + 1))' /\ Is(o, Owed(uartStream, k + 1))'
        /\ (k + 1 \in DOMAIN uartStream.frames)'
    BY <1>1, <2>3 DEF Is, Line, FrameLines, Owed
  <2>5. <<>> \o r = r
    BY <1>4, ConcatEmptySeq
  <2>6. held' = -1 => Unread' = r
    BY <1>2, <2>5 DEF Unread
  <2>7. CASE index = 0 /\ b = 91
    <3>1. held' = -1 /\ index' = 1 /\ frame' = <<91>> /\ pc' = "magic"
      BY <1>3, <1>5, <2>2, <2>7
    <3>2. PICK d \in 0 .. Len(z) : <<91>> \o r = From(l, d) \o o
      BY <2>2, <2>7
    <3>3. frame' \o Unread' = From(l, d) \o o
      BY <2>6, <3>1, <3>2
    <3>4. Hunting(k)'
      <4>1. \E e \in 0 .. Len(z) : frame' \o Unread' = From(l, e) \o o
        BY <3>3
      <4>2. index' \in {0, 1} /\ frame' = (IF index' = 0 THEN <<>> ELSE <<91>>) /\ (held' # -1 => index' = 0)
        BY <3>1
      <4> QED BY <2>4, <4>1, <4>2 DEF Hunting, Is
    <3> QED BY <1>1, <3>1, <3>4 DEF UartStands
  <2>8. CASE index = 1 /\ b = 92
    <3>1. held' = -1 /\ frame' = Append(<<91>>, 92) /\ pc' = "version"
      BY <1>3, <1>5, <2>2, <2>8
    <3>2. <<91>> \in Seq(Nat) /\ Len(<<91>>) = 1 /\ 92 \in Nat
      OBVIOUS
    <3>3. frame' = <<91>> \o <<92>> /\ Len(frame') = 2
      <4>1. Append(<<91>>, 92) = <<91>> \o <<92>>
        BY <3>2, AppendIsConcat
      <4>2. Len(Append(<<91>>, 92)) = 1 + 1
        BY <3>2, AppendProperties
      <4> QED BY <3>1, <4>1, <4>2
    <3>4. frame' \o Unread' = y \o o
      BY <2>2, <2>6, <2>8, <3>1, <3>3
    <3>5. InFrame(k)'
      BY <2>4, <3>1, <3>3, <3>4 DEF InFrame, Is
    <3> QED BY <1>1, <3>1, <3>5 DEF UartStands
  <2>9. CASE index = 0 /\ b # 91
    <3>1. held' = -1 /\ index' = 0 /\ frame' = <<>> /\ pc' = "magic"
      BY <1>3, <1>5, <2>2, <2>9
    <3>2. PICK d \in 0 .. Len(z) : r = From(l, d) \o o
      BY <2>2, <2>9
    <3>3. frame' \o Unread' = From(l, d) \o o
      BY <2>5, <2>6, <3>1, <3>2
    <3>4. Hunting(k)'
      BY <2>4, <3>1, <3>3 DEF Hunting, Is
    <3> QED BY <1>1, <3>1, <3>4 DEF UartStands
  <2>10. CASE index = 1 /\ b # 92
    <3>1. held' = b /\ index' = 0 /\ frame' = <<>> /\ pc' = "magic"
      BY <1>3, <1>5, <2>2, <2>10
    <3>2. PICK d \in 0 .. Len(z) : Unread = From(l, d) \o o
      BY <2>2, <2>10
    <3>3. Unread' = <<b>> \o r
      <4>1. b # -1
        BY <1>4
      <4> QED BY <1>2, <3>1, <4>1 DEF Unread
    <3>4. frame' \o Unread' = From(l, d) \o o
      <4>1. <<b>> \o r \in Seq(Nat)
        BY <1>4, ConcatProperties
      <4>2. <<>> \o (<<b>> \o r) = <<b>> \o r
        BY <4>1, ConcatEmptySeq
      <4> QED BY <1>4, <3>1, <3>2, <3>3, <4>2
    <3>5. Hunting(k)'
      BY <2>4, <3>1, <3>4 DEF Hunting, Is
    <3> QED BY <1>1, <3>1, <3>5 DEF UartStands
  <2> QED BY <2>2, <2>7, <2>8, <2>9, <2>10
<1> QED BY <1>1, <1>4, <1>6, <1>7 DEF UartInv

(* read(n), when it does not time out: it moves n bytes into the frame *)
Took(n) ==
  /\ \/ Len(port) >= n /\ stalls' = stalls
     \/ Len(port) < n /\ stalls' = stalls + 1
  /\ frame' = frame \o Take(port, Least(n, Len(port)))
  /\ port' = From(port, Least(n, Len(port)))
  /\ UNCHANGED <<uartStream, toSend, lost, index, held, passes>>

LEMMA UartTakes ==
  ASSUME UartInv, NEW n \in Nat, Took(n)
  PROVE  /\ port' \in Seq(Nat) /\ frame' \in Seq(Nat) /\ stalls' \in Nat /\ (stalls' = 0 => stalls = 0)
         /\ stalls' = 0 /\ held = -1 => Len(frame') = Len(frame) + n /\ frame' \o Unread' = frame \o Unread
<1> PICK w, m, t, f : Is(w, port) /\ Is(m, Least(n, Len(port))) /\ Is(t, toSend) /\ Is(f, frame)
  BY DEF Is
<1>1. w \in Seq(Nat) /\ t \in Seq(Nat) /\ f \in Seq(Nat) /\ stalls \in Nat
  BY DEF UartInv, Is
<1>2. /\ (Len(w) >= n /\ stalls' = stalls) \/ (Len(w) < n /\ stalls' = stalls + 1)
      /\ frame' = f \o Take(w, m) /\ port' = From(w, m) /\ toSend' = t /\ held' = held
  BY DEF Took, Is
<1>3. Len(w) \in Nat /\ m = (IF n < Len(w) THEN n ELSE Len(w))
  BY <1>1, LenProperties DEF Is, Least
<1>4. m \in 0 .. Len(w) /\ (Len(w) >= n => m = n)
  BY <1>3
<1>5. /\ From(w, m) \in Seq(Nat) /\ Take(w, m) \in Seq(Nat) /\ Len(Take(w, m)) = m
      /\ Take(w, m) \o From(w, m) = w
  BY <1>1, <1>4, FromProperties, TakeProperties, TakeAndFrom
<1>6. f \o Take(w, m) \in Seq(Nat) /\ Len(f \o Take(w, m)) = Len(f) + m
  BY <1>1, <1>5, ConcatProperties
<1>7. stalls' \in Nat /\ (stalls' = 0 => stalls = 0 /\ m = n)
  BY <1>1, <1>2, <1>3, <1>4
<1>8. ASSUME held = -1 PROVE frame' \o Unread' = frame \o Unread
  <2>1. From(w, m) \o t \in Seq(Nat) /\ w \o t \in Seq(Nat)
    BY <1>1, <1>5, ConcatProperties
  <2>2. Unread' = From(w, m) \o t /\ Unread = w \o t
    <3>1. <<>> \o (From(w, m) \o t) = From(w, m) \o t /\ <<>> \o (w \o t) = w \o t
      BY <2>1, ConcatEmptySeq
    <3> QED BY <1>2, <1>8, <3>1 DEF Unread, Is
  <2>3. (f \o Take(w, m)) \o (From(w, m) \o t) = f \o (Take(w, m) \o (From(w, m) \o t))
    BY <1>1, <1>5, <2>1, BytesAssociate
  <2>4. Take(w, m) \o (From(w, m) \o t) = w \o t
    <3>1. (Take(w, m) \o From(w, m)) \o t = Take(w, m) \o (From(w, m) \o t)
      BY <1>1, <1>5, BytesAssociate
    <3> QED BY <1>5, <3>1
  <2> QED BY <1>2, <2>2, <2>3, <2>4 DEF Is
<1>9. stalls' = 0 => Len(frame') = Len(frame) + n
  BY <1>2, <1>6, <1>7 DEF Is
<1> QED BY <1>2, <1>5, <1>6, <1>7, <1>8, <1>9

(* Where a read leaves the reader *)
LEMMA UartReads ==
  ASSUME UartInv, NEW n \in Nat, Took(n), pc \in {"version", "length", "rest"}, pc' \in {"length", "rest", "parse"},
         stalls = 0 /\ lost = 0 /\ Len(frame') = Len(frame) + n =>
           /\ pc' = "length" => Len(frame') = 3
           /\ pc' = "rest" => Len(frame') = 5
           /\ pc' = "parse" => Len(frame') = Len(uartStream.frames[Len(passes) + 1].bytes)
  PROVE  UartInv'
<1>1. /\ port' \in Seq(Nat) /\ frame' \in Seq(Nat) /\ stalls' \in Nat /\ (stalls' = 0 => stalls = 0)
      /\ stalls' = 0 /\ held = -1 => Len(frame') = Len(frame) + n /\ frame' \o Unread' = frame \o Unread
  BY UartTakes
<1>2. UNCHANGED <<uartStream, toSend, lost, index, held, passes>>
  BY DEF Took
<1>3. ASSUME stalls' = 0, lost' = 0 PROVE UartStands(Len(passes))'
  <2> PICK k, y, o : Is(k, Len(passes)) /\ Is(y, uartStream.frames[k + 1].bytes) /\ Is(o, Owed(uartStream, k + 1))
    BY DEF Is
  <2>1. InFrame(Len(passes)) /\ stalls = 0 /\ lost = 0
    BY <1>1, <1>2, <1>3 DEF UartInv, UartStands
  <2>2. k + 1 \in DOMAIN uartStream.frames /\ held = -1 /\ frame \o Unread = y \o o
    BY <2>1 DEF InFrame, Is
  <2>3. Len(frame') = Len(frame) + n /\ frame' \o Unread' = y \o o
    BY <1>1, <1>3, <2>2
  <2>4. /\ Is(k, Len(passes))' /\ Is(y, uartStream.frames[k + 1].bytes)' /\ Is(o, Owed(uartStream, k + 1))'
        /\ (k + 1 \in DOMAIN uartStream.frames)' /\ held' = -1
    BY <1>2, <2>2 DEF Is, Owed, FrameLines, Line
  <2>5. /\ pc' = "length" => Len(frame') = 3
        /\ pc' = "rest" => Len(frame') = 5
        /\ pc' = "parse" => Len(frame') = Len(y)
    BY <2>1, <2>3 DEF Is
  <2>6. InFrame(Len(passes))'
    BY <2>3, <2>4, <2>5 DEF InFrame, Is
  <2> QED BY <2>6 DEF UartStands
<1> QED BY <1>1, <1>2, <1>3 DEF UartInv

LEMMA UartReadVersion == ASSUME UartInv, ReadVersion PROVE UartInv'
<1>1. pc = "version" /\ Read(1, "length")
  BY DEF ReadVersion
<1>2. Took(1) /\ pc' = "length"
  BY <1>1 DEF Took, Read, FirstOf, Behind, sender, Take, From
<1>3. ASSUME stalls = 0, lost = 0 PROVE Len(frame) = 2
  BY <1>1, <1>3 DEF UartInv, UartStands, InFrame
<1>4. stalls = 0 /\ lost = 0 /\ Len(frame') = Len(frame) + 1 => Len(frame') = 3
  <2> SUFFICES ASSUME stalls = 0, lost = 0, Len(frame') = Len(frame) + 1 PROVE Len(frame') = 3
    OBVIOUS
  <2>1. Len(frame) = 2
    BY <1>3
  <2> QED BY ONLY <2>1, Len(frame') = Len(frame) + 1
<1> QED BY <1>1, <1>2, <1>4, UartReads

LEMMA UartReadLength == ASSUME UartInv, ReadLength PROVE UartInv'
<1>1. pc = "length" /\ Read(2, "rest")
  BY DEF ReadLength
<1>2. Took(2) /\ pc' = "rest"
  BY <1>1 DEF Took, Read, FirstOf, Behind, sender, Take, From
<1>3. ASSUME stalls = 0, lost = 0 PROVE Len(frame) = 3
  BY <1>1, <1>3 DEF UartInv, UartStands, InFrame
<1>4. stalls = 0 /\ lost = 0 /\ Len(frame') = Len(frame) + 2 => Len(frame') = 5
  <2> SUFFICES ASSUME stalls = 0, lost = 0, Len(frame') = Len(frame) + 2 PROVE Len(frame') = 5
    OBVIOUS
  <2>1. Len(frame) = 3
    BY <1>3
  <2> QED BY ONLY <2>1, Len(frame') = Len(frame) + 2
<1> QED BY <1>1, <1>2, <1>4, UartReads

(* The length of a frame that is read as far as its length *)
LEMMA LengthIs ==
  ASSUME NEW f \in Seq(Nat), Len(f) = 5, NEW u \in Seq(Nat), NEW y \in Seq(Nat), Len(y) >= 5, NEW o \in Seq(Nat),
         Is(f \o u, y \o o)
  PROVE  Length(f) = y[4] + 100 * y[5]
<1>1. f[4] = y[4] /\ f[5] = y[5]
  <2>1. Len(y) \in Nat /\ Len(u) \in Nat /\ Len(o) \in Nat
    BY LenProperties
  <2>2. 4 \in 1 .. Len(f) + Len(u) /\ 5 \in 1 .. Len(f) + Len(u) /\ 4 \in 1 .. Len(y) + Len(o) /\ 5 \in 1 .. Len(y) + Len(o)
    BY <2>1
  <2>3. (f \o u)[4] = f[4] /\ (f \o u)[5] = f[5]
    <3>1. \A i \in 1 .. Len(f) + Len(u) : (f \o u)[i] = (IF i <= Len(f) THEN f[i] ELSE u[i - Len(f)])
      BY ConcatProperties
    <3>2. 4 <= Len(f) /\ 5 <= Len(f)
      OBVIOUS
    <3> QED BY <2>2, <3>1, <3>2
  <2>4. (y \o o)[4] = y[4] /\ (y \o o)[5] = y[5]
    BY <2>1, <2>2, ConcatProperties
  <2> QED BY <2>3, <2>4 DEF Is
<1>2. /\ From(f, 3) \in Seq(Nat) /\ Len(From(f, 3)) = 2 /\ From(f, 3)[1] = f[4] /\ From(f, 3)[2] = f[5]
  <2>1. 3 \in 0 .. Len(f) /\ Len(f) - 3 = 2
    OBVIOUS
  <2>2. From(f, 3) \in Seq(Nat) /\ Len(From(f, 3)) = 2 /\ \A i \in 1 .. 2 : From(f, 3)[i] = f[3 + i]
    BY <2>1, FromProperties
  <2> QED BY <2>2
<1>3. Behind(f, Len(MagicWord) + 1) = From(f, 3)
  BY DEF Behind, From, MagicWord
<1>4. From(f, 3) # <<>>
  BY <1>2
<1> QED BY <1>1, <1>2, <1>3, <1>4 DEF Length, Base

LEMMA LengthType == ASSUME NEW f \in Seq(Nat) PROVE Length(f) \in Nat
<1> PICK l, n : Is(l, SubSeq(f, 4, Len(f))) /\ Is(n, Len(f))
  BY DEF Is
<1>1. Is(l, Behind(f, Len(MagicWord) + 1))
  BY DEF Behind, MagicWord, Is
<1>2. l \in Seq(Nat)
  <2>1. 4 \in Int /\ n \in Int /\ \A i \in 4 .. n : f[i] \in Nat
    <3>1. n \in Nat /\ \A i \in 1 .. n : f[i] \in Nat
      BY LenProperties, ElementOfSeq DEF Is
    <3> QED BY <3>1
  <2>2. SubSeq(f, 4, n) \in Seq(Nat)
    BY <2>1, SubSeqProperties
  <2> QED BY <2>2 DEF Is
<1>3. CASE l = <<>>
  BY <1>1, <1>3 DEF Length, Is
<1>4. CASE l # <<>>
  <2>1. Len(l) \in Nat /\ Len(l) # 0
    BY <1>2, <1>4, EmptySeq, LenProperties
  <2>2. l[1] \in Nat /\ (Len(l) = 2 => l[2] \in Nat)
    BY <1>2, <2>1, ElementOfSeq
  <2>3. Length(f) = l[1] + (IF Len(l) = 2 THEN 100 * l[2] ELSE 0)
    BY <1>1, <1>4 DEF Length, Base, Is
  <2> QED BY <2>2, <2>3
<1> QED BY <1>3, <1>4

LEMMA UartReadRest == ASSUME AllFramed, UartInv, ReadRest PROVE UartInv'
<1> PICK n : Is(n, NotNegative(Length(frame) - ReadSoFar))
  BY DEF Is
<1>1. pc = "rest" /\ Read(NotNegative(Length(frame) - ReadSoFar), "parse")
  BY DEF ReadRest
<1>2. Took(n) /\ pc' = "parse"
  BY <1>1 DEF Is, Took, Read, FirstOf, Behind, sender, Take, From
<1>3. n \in Nat
  <2>1. Length(frame) \in Nat
    BY LengthType DEF UartInv
  <2> QED BY <2>1 DEF Is, NotNegative, ReadSoFar
<1>4. ASSUME stalls = 0, lost = 0
      PROVE  Len(frame) + n = Len(uartStream.frames[Len(passes) + 1].bytes)
  <2> PICK k, y, o : Is(k, Len(passes)) /\ Is(y, uartStream.frames[k + 1].bytes) /\ Is(o, Owed(uartStream, k + 1))
    BY DEF Is
  <2>1. InFrame(Len(passes)) /\ uartStream \in UartStreams
    BY <1>1, <1>4 DEF UartInv, UartStands
  <2>2. k + 1 \in DOMAIN uartStream.frames /\ held = -1 /\ frame \o Unread = y \o o /\ Len(frame) = 5
    BY <1>1, <2>1 DEF InFrame, Is
  <2> PICK m : Is(m, Len(uartStream.frames))
    BY DEF Is
  <2>3. m \in Nat /\ k + 1 \in 1 .. m /\ FrameIs(uartStream, k + 1)
    BY <2>1, <2>2, FramesAre DEF Is
  <2>4. y \in Seq(Nat) /\ Len(y) \in Nat /\ Len(y) >= 5 /\ Len(y) = y[4] + 100 * y[5]
    BY <2>3 DEF FrameIs, Is
  <2>5. o \in Seq(Nat)
    <3>1. k + 1 \in 0 .. m
      BY <2>3
    <3> QED BY <2>1, <3>1, OwedIs DEF Is
  <2>6. frame \in Seq(Nat) /\ Unread \in Seq(Nat)
    <3>1. port \in Seq(Nat) /\ toSend \in Seq(Nat) /\ frame \in Seq(Nat)
      BY DEF UartInv
    <3>2. port \o toSend \in Seq(Nat)
      BY <3>1, ConcatProperties
    <3>3. Unread = port \o toSend
      BY <2>2, <3>2, ConcatEmptySeq DEF Unread
    <3> QED BY <3>1, <3>2, <3>3
  <2>7. Length(frame) = y[4] + 100 * y[5]
    <3> PICK f, u : Is(f, frame) /\ Is(u, Unread)
      BY DEF Is
    <3>1. Is(f \o u, y \o o) /\ f \in Seq(Nat) /\ u \in Seq(Nat) /\ Len(f) = 5
      BY <2>2, <2>6 DEF Is
    <3>2. Length(f) = y[4] + 100 * y[5]
      BY <2>4, <2>5, <3>1, LengthIs
    <3> QED BY <3>2 DEF Is
  <2>8. n = Len(y) - 5
    BY <2>4, <2>7 DEF Is, NotNegative, ReadSoFar
  <2> QED BY <2>2, <2>4, <2>8 DEF Is
<1>5. stalls = 0 /\ lost = 0 /\ Len(frame') = Len(frame) + n =>
        Len(frame') = Len(uartStream.frames[Len(passes) + 1].bytes)
  BY <1>4
<1> QED BY <1>1, <1>2, <1>3, <1>5, UartReads

(* The frame is the one that is due *)
LEMMA UartParse == ASSUME AllFramed, UartInv, ParseFrame PROVE UartInv'
<1> PICK e : e = [frame |-> frame, cut |-> cut, result |-> ParseStandardFrame(frame, uartStream.demo)]
  OBVIOUS
<1>1. /\ pc = "parse" /\ passes' = Append(passes, e) /\ e.frame = frame /\ pc' = "idle"
      /\ UNCHANGED <<uartStream, toSend, lost, port, index, held, frame, cut, stalls>>
  BY DEF ParseFrame, sender
<1>2. PICK P : passes \in Seq(P)
  BY DEF UartInv
<1>3. passes \in Seq(P \cup {e}) /\ e \in P \cup {e}
  BY <1>2
<1>4. /\ passes' \in Seq(P \cup {e}) /\ Len(passes') = Len(passes) + 1 /\ Len(passes) \in Nat
      /\ passes'[Len(passes) + 1] = e /\ \A i \in 1 .. Len(passes) : passes'[i] = passes[i]
  BY <1>1, <1>3, AppendProperties, LenProperties
<1>5. ASSUME stalls = 0, lost = 0
      PROVE  /\ Len(passes') =< Len(uartStream.frames)
             /\ frame = uartStream.frames[Len(passes) + 1].bytes
             /\ held = -1 /\ Unread = Owed(uartStream, Len(passes) + 1)
  <2> PICK k, y, o, m : Is(k, Len(passes)) /\ Is(y, uartStream.frames[k + 1].bytes) /\ Is(o, Owed(uartStream, k + 1))
                        /\ Is(m, Len(uartStream.frames))
    BY DEF Is
  <2>1. InFrame(Len(passes)) /\ uartStream \in UartStreams
    BY <1>1, <1>5 DEF UartInv, UartStands
  <2>2. k + 1 \in DOMAIN uartStream.frames /\ held = -1 /\ frame \o Unread = y \o o /\ Len(frame) = Len(y)
    BY <1>1, <2>1 DEF InFrame, Is
  <2>3. m \in Nat /\ k + 1 \in 1 .. m /\ FrameIs(uartStream, k + 1)
    BY <2>1, <2>2, FramesAre DEF Is
  <2>4. y \in Seq(Nat)
    BY <2>3 DEF FrameIs, Is
  <2>5. o \in Seq(Nat)
    <3>1. k + 1 \in 0 .. m
      BY <2>3
    <3> QED BY <2>1, <3>1, OwedIs DEF Is
  <2>6. frame \in Seq(Nat) /\ Unread \in Seq(Nat)
    <3>1. port \in Seq(Nat) /\ toSend \in Seq(Nat) /\ frame \in Seq(Nat)
      BY DEF UartInv
    <3>2. port \o toSend \in Seq(Nat)
      BY <3>1, ConcatProperties
    <3>3. Unread = port \o toSend
      BY <2>2, <3>2, ConcatEmptySeq DEF Unread
    <3> QED BY <3>1, <3>2, <3>3
  <2> PICK f, u : Is(f, frame) /\ Is(u, Unread)
    BY DEF Is
  <2>7. f \in Seq(Nat) /\ u \in Seq(Nat) /\ Is(f \o u, y \o o) /\ Len(f) = Len(y)
    BY <2>2, <2>6 DEF Is
  <2>8. Take(f \o u, Len(f)) = f /\ From(f \o u, Len(f)) = u
    BY <2>7, TakeBefore, FromBehind
  <2>9. Take(y \o o, Len(y)) = y /\ From(y \o o, Len(y)) = o
    BY <2>4, <2>5, TakeBefore, FromBehind
  <2>10. f = y /\ u = o
    BY <2>7, <2>8, <2>9 DEF Is
  <2>11. Len(passes') =< Len(uartStream.frames)
    BY <1>4, <2>3 DEF Is
  <2> QED BY <2>2, <2>10, <2>11 DEF Is
<1>6. ASSUME stalls' = 0, lost' = 0
      PROVE  /\ Len(passes') =< Len(uartStream'.frames)
             /\ \A i \in 1 .. Len(passes') : passes'[i].frame = uartStream'.frames[i].bytes
             /\ UartStands(Len(passes))'
  <2>1. /\ Len(passes') =< Len(uartStream.frames) /\ frame = uartStream.frames[Len(passes) + 1].bytes
        /\ held = -1 /\ Unread = Owed(uartStream, Len(passes) + 1)
    BY <1>1, <1>5, <1>6
  <2>2. \A i \in 1 .. Len(passes) : passes[i].frame = uartStream.frames[i].bytes
    BY <1>1, <1>6 DEF UartInv
  <2>3. ASSUME NEW i \in 1 .. Len(passes') PROVE passes'[i].frame = uartStream.frames[i].bytes
    <3>1. CASE i = Len(passes) + 1
      BY <1>1, <1>4, <2>1, <3>1
    <3>2. CASE i # Len(passes) + 1
      <4>1. i \in 1 .. Len(passes)
        BY <1>4, <2>3, <3>2
      <4> QED BY <1>4, <2>2, <4>1
    <3> QED BY <3>1, <3>2
  <2>4. held' = -1 /\ (Unread = Owed(uartStream, Len(passes)))'
    <3>1. Unread' = Unread
      BY <1>1 DEF Unread
    <3>2. Unread' = Owed(uartStream', Len(passes'))
      BY <1>1, <1>4, <2>1, <3>1
    <3> QED BY <1>1, <2>1, <3>2
  <2>5. UartStands(Len(passes))'
    BY <1>1, <2>4 DEF UartStands
  <2> QED BY <1>1, <2>1, <2>3, <2>5
<1>7. \E Q : passes' \in Seq(Q)
  BY <1>4
<1>8. /\ uartStream' \in UartStreams /\ stalls' \in Nat /\ lost' \in Nat /\ port' \in Seq(Nat) /\ toSend' \in Seq(Nat)
      /\ frame' \in Seq(Nat) /\ held' \in Nat \cup {-1} /\ pc' \in {"idle", "magic", "version", "length", "rest", "parse"}
  BY <1>1 DEF UartInv
<1> QED BY <1>6, <1>7, <1>8 DEF UartInv

LEMMA UartStep == ASSUME AllFramed, UartInv, [UartNext]_uartVars PROVE UartInv'
<1>1. CASE UartNext
  <2>1. CASE Start BY <2>1, UartStart
  <2>2. CASE Hunt BY <2>2, UartHunt
  <2>3. CASE ReadVersion BY <2>3, UartReadVersion
  <2>4. CASE ReadLength BY <2>4, UartReadLength
  <2>5. CASE ReadRest BY <2>5, UartReadRest
  <2>6. CASE ParseFrame BY <2>6, UartParse
  <2>7. CASE Deliver BY <2>7, UartDeliver
  <2>8. CASE Lose BY <2>8, UartLose
  <2> QED BY <1>1, <2>1, <2>2, <2>3, <2>4, <2>5, <2>6, <2>7, <2>8 DEF UartNext, Thread
<1>2. CASE UNCHANGED uartVars
  <2>1. UNCHANGED <<uartStream, toSend, port, pc, index, held, frame, passes, cut, stalls, lost>>
    BY <1>2 DEF uartVars
  <2>2. lost \in Nat /\ stalls \in Nat /\ port \in Seq(Nat) /\ toSend \in Seq(Nat)
    BY DEF UartInv
  <2> QED BY <2>1, <2>2, UartQuiet
<1> QED BY <1>1, <1>2

(* While no byte is lost and no read times out, the reader takes the       *)
(* frames of any radar that frames what it sends, in order and in full,    *)
(* whatever lies between them and however the stream is cut.               *)
THEOREM ReaderSkipsNothing == ASSUME AllFramed PROVE UartSpec => []NothingSkipped
<1>1. UartInit => UartInv
  BY UartStarts
<1>2. UartInv /\ [UartNext]_uartVars => UartInv'
  BY UartStep
<1>3. UartInv => NothingSkipped
  <2> SUFFICES ASSUME UartInv, stalls = 0, lost = 0, NEW i \in DOMAIN passes
               PROVE  i <= Len(uartStream.frames) /\ passes[i].frame = uartStream.frames[i].bytes
    BY DEF NothingSkipped
  <2>1. /\ Len(passes) =< Len(uartStream.frames)
        /\ \A j \in 1 .. Len(passes) : passes[j].frame = uartStream.frames[j].bytes
    BY DEF UartInv
  <2>2. PICK n \in Nat : n = Len(passes) /\ DOMAIN passes = 1 .. n
    BY LenProperties DEF UartInv
  <2>3. Len(uartStream.frames) \in Nat
    BY FramesAre DEF UartInv
  <2> QED BY <2>1, <2>2, <2>3
<1> QED BY <1>1, <1>2, <1>3, PTL DEF UartSpec
=============================================================================
