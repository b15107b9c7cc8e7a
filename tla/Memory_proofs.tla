---------------------------- MODULE Memory_proofs ----------------------------
(***************************************************************************)
(* Proofs about the allocator, for a memory of any size, any set of tasks  *)
(* and any sizes that are asked for.                                       *)
(***************************************************************************)
EXTENDS Memory, WellFoundedInduction, TLAPS

-----------------------------------------------------------------------------
(* Natural numbers and sequences *)

LEMMA SetInduction ==
  ASSUME NEW S, 0 \in S, \A n \in Nat : n \in S => n + 1 \in S
  PROVE  Nat \subseteq S
  <1> SUFFICES ASSUME Nat \ S # {} PROVE FALSE
    OBVIOUS
  <1>1. PICK n \in Nat \ S : \A k \in Nat \ S : <<k, n>> \notin OpToRel(<, Nat)
    BY WFMin, NatLessThanWellFounded
  <1>2. \A k \in Nat : k < n => k \in S
    BY <1>1 DEF OpToRel
  <1>3. n # 0
    OBVIOUS
  <1>4. n - 1 \in Nat /\ n - 1 < n /\ (n - 1) + 1 = n
    BY <1>3
  <1> QED
    BY <1>2, <1>4

LEMMA SubSeqIs ==
  ASSUME NEW S, NEW s \in Seq(S), NEW m \in 1 .. Len(s) + 1, NEW n \in 0 .. Len(s),
         m <= n + 1
  PROVE  /\ SubSeq(s, m, n) \in Seq(S) /\ Len(SubSeq(s, m, n)) = n - m + 1
         /\ \A i \in 1 .. n - m + 1 : SubSeq(s, m, n)[i] = s[m + i - 1]
  <1>1. SubSeq(s, m, n) = [i \in 1 .. n - m + 1 |-> s[m + i - 1]]
    OBVIOUS
  <1>2. \A i \in 1 .. n - m + 1 : m + i - 1 \in 1 .. Len(s)
    OBVIOUS
  <1>3. \A i \in 1 .. n - m + 1 : s[m + i - 1] \in S
    BY <1>2
  <1> QED
    BY <1>1, <1>3

LEMMA ConcatIs ==
  ASSUME NEW S, NEW s \in Seq(S), NEW r \in Seq(S)
  PROVE  /\ s \o r \in Seq(S) /\ Len(s \o r) = Len(s) + Len(r)
         /\ \A i \in 1 .. Len(s) : (s \o r)[i] = s[i]
         /\ \A i \in 1 .. Len(r) : (s \o r)[Len(s) + i] = r[i]
  OBVIOUS

LEMMA SeqEqual ==
  ASSUME NEW S, NEW s \in Seq(S), NEW r \in Seq(S), Len(s) = Len(r),
         \A i \in 1 .. Len(s) : s[i] = r[i]
  PROVE  s = r
  <1>1. s = [i \in 1 .. Len(s) |-> s[i]] /\ r = [i \in 1 .. Len(s) |-> r[i]]
    OBVIOUS
  <1>2. [i \in 1 .. Len(s) |-> s[i]] = [i \in 1 .. Len(s) |-> r[i]]
    BY Zenon
  <1> QED
    BY <1>1, <1>2


-----------------------------------------------------------------------------
(* A list of blocks that covers the addresses from a up to b *)

Blk == [at : Nat, Chunks : Nat \ {0}, AllocatedSize : Nat]

Tiled(s, a, b) ==
  /\ s \in Seq(Blk) /\ a \in Nat
  /\ IF s = << >> THEN a = b
     ELSE s[1].at = a /\ s[Len(s)].at + s[Len(s)].Chunks = b
  /\ \A i \in 1 .. Len(s) - 1 : s[i + 1].at = s[i].at + s[i].Chunks

(* The allocated blocks *)
Busy(s) == {s[i] : i \in {j \in 1 .. Len(s) : ~IsFree(s[j])}}

LEMMA BlkType ==
  ASSUME NEW b \in Blk
  PROVE  /\ b.at \in Nat /\ b.Chunks \in Nat \ {0} /\ b.AllocatedSize \in Nat
         /\ b = [at |-> b.at, Chunks |-> b.Chunks, AllocatedSize |-> b.AllocatedSize]
  BY DEF Blk

LEMMA TiledEnd ==
  ASSUME NEW s, NEW a, NEW b, Tiled(s, a, b)
  PROVE  b \in Nat
  <1>1. CASE s = << >>
    BY <1>1 DEF Tiled
  <1>2. CASE s # << >>
    <2>1. s[Len(s)] \in Blk
      BY <1>2 DEF Tiled
    <2> QED
      BY <1>2, <2>1, BlkType DEF Tiled
  <1> QED
    BY <1>1, <1>2

LEMMA TiledConcat ==
  ASSUME NEW s, NEW r, NEW a, NEW b, NEW c, Tiled(s, a, b), Tiled(r, b, c)
  PROVE  Tiled(s \o r, a, c) /\ Busy(s \o r) = Busy(s) \cup Busy(r)
  <1> DEFINE q == s \o r
  <1>1. s \in Seq(Blk) /\ r \in Seq(Blk)
    BY DEF Tiled
  <1>2. /\ q \in Seq(Blk) /\ Len(q) = Len(s) + Len(r)
        /\ \A i \in 1 .. Len(s) : q[i] = s[i]
        /\ \A i \in 1 .. Len(r) : q[Len(s) + i] = r[i]
    BY <1>1, ConcatIs
  <1>3. \A i \in 1 .. Len(q) : \/ i \in 1 .. Len(s) /\ q[i] = s[i]
                               \/ i - Len(s) \in 1 .. Len(r) /\ q[i] = r[i - Len(s)]
    <2> TAKE i \in 1 .. Len(q)
    <2>1. CASE i <= Len(s)
      BY <2>1, <1>1, <1>2
    <2>2. CASE i > Len(s)
      <3>1. i - Len(s) \in 1 .. Len(r) /\ i = Len(s) + (i - Len(s))
        BY <2>2, <1>1, <1>2
      <3> QED
        BY <3>1, <1>2
    <2> QED
      BY <2>1, <2>2, <1>1
  <1> HIDE DEF q
  <1>4. Busy(q) = Busy(s) \cup Busy(r)
    <2>1. ASSUME NEW x \in Busy(q) PROVE x \in Busy(s) \cup Busy(r)
      BY <2>1, <1>3 DEF Busy
    <2>2. ASSUME NEW x \in Busy(s) PROVE x \in Busy(q)
      <3>1. PICK i \in 1 .. Len(s) : x = s[i] /\ ~IsFree(s[i])
        BY <2>2 DEF Busy
      <3>2. i \in 1 .. Len(q) /\ q[i] = s[i]
        BY <1>1, <1>2
      <3> QED
        BY <3>1, <3>2 DEF Busy
    <2>3. ASSUME NEW x \in Busy(r) PROVE x \in Busy(q)
      <3>1. PICK i \in 1 .. Len(r) : x = r[i] /\ ~IsFree(r[i])
        BY <2>3 DEF Busy
      <3>2. Len(s) + i \in 1 .. Len(q) /\ q[Len(s) + i] = r[i]
        BY <1>1, <1>2
      <3> QED
        BY <3>1, <3>2 DEF Busy
    <2> QED
      BY <2>1, <2>2, <2>3
  <1>5. CASE s = << >>
    <2>1. Len(s) = 0 /\ a = b
      BY <1>5 DEF Tiled
    <2>2. q = r
      BY <1>1, <1>5 DEF q
    <2> QED
      BY <2>1, <2>2, <1>4 DEF Tiled, q
  <1>6. CASE r = << >>
    <2>1. Len(r) = 0 /\ b = c
      BY <1>6 DEF Tiled
    <2>2. q = s
      BY <1>1, <1>6 DEF q
    <2> QED
      BY <2>1, <2>2, <1>4 DEF Tiled, q
  <1>7. CASE s # << >> /\ r # << >>
    <2>1. Len(s) \in Nat \ {0} /\ Len(r) \in Nat \ {0}
      BY <1>1, <1>7
    <2>2. q # << >> /\ q[1] = s[1] /\ q[Len(q)] = r[Len(r)] /\ q[Len(s)] = s[Len(s)]
          /\ q[Len(s) + 1] = r[1]
      BY <2>1, <1>2
    <2>3. q[1].at = a /\ q[Len(q)].at + q[Len(q)].Chunks = c
      BY <2>2, <1>7 DEF Tiled
    <2>4. ASSUME NEW i \in 1 .. Len(q) - 1 PROVE q[i + 1].at = q[i].at + q[i].Chunks
      <3>1. CASE i < Len(s)
        <4>1. i \in 1 .. Len(s) - 1 /\ q[i] = s[i] /\ q[i + 1] = s[i + 1]
          BY <3>1, <2>1, <1>2
        <4> QED
          BY <4>1 DEF Tiled
      <3>2. CASE i = Len(s)
        BY <3>2, <2>2, <1>7 DEF Tiled
      <3>3. CASE i > Len(s)
        <4>1. PICK j \in 1 .. Len(r) - 1 : i = Len(s) + j
          <5>1. i - Len(s) \in 1 .. Len(r) - 1 /\ i = Len(s) + (i - Len(s))
            BY <3>3, <2>1, <1>2
          <5> QED
            BY <5>1
        <4>2. q[i] = r[j] /\ q[i + 1] = r[j + 1]
          <5>1. j \in 1 .. Len(r) /\ j + 1 \in 1 .. Len(r) /\ i + 1 = Len(s) + (j + 1)
            BY <4>1, <2>1
          <5> QED
            BY <5>1, <4>1, <1>2
        <4> QED
          BY <4>1, <4>2 DEF Tiled
      <3> QED
        BY <3>1, <3>2, <3>3, <2>1
    <2>5. a \in Nat
      BY DEF Tiled
    <2> QED
      BY <1>2, <1>4, <2>2, <2>3, <2>4, <2>5 DEF Tiled, q
  <1> QED
    BY <1>5, <1>6, <1>7

LEMMA TiledSingle ==
  ASSUME NEW x \in Blk
  PROVE  /\ Tiled(<<x>>, x.at, x.at + x.Chunks)
         /\ Busy(<<x>>) = IF IsFree(x) THEN {} ELSE {x}
  <1>1. <<x>> \in Seq(Blk) /\ Len(<<x>>) = 1 /\ <<x>>[1] = x /\ <<x>> # << >>
    OBVIOUS
  <1> QED
    BY <1>1, BlkType DEF Tiled, Busy

LEMMA TiledEmpty ==
  ASSUME NEW a \in Nat
  PROVE  Tiled(<< >>, a, a) /\ Busy(<< >>) = {}
  BY DEF Tiled, Busy

(* The part before the block at i, and the part from it on *)
LEMMA TiledParts ==
  ASSUME NEW s, NEW a, NEW c, Tiled(s, a, c), NEW i \in 1 .. Len(s)
  PROVE  /\ s[i] \in Blk
         /\ Tiled(SubSeq(s, 1, i - 1), a, s[i].at)
         /\ Tiled(SubSeq(s, i + 1, Len(s)), s[i].at + s[i].Chunks, c)
         /\ s = SubSeq(s, 1, i - 1) \o <<s[i]>> \o SubSeq(s, i + 1, Len(s))
  <1>1. s \in Seq(Blk) /\ s # << >> /\ Len(s) \in Nat
    BY DEF Tiled
  <1>2. \A j \in 1 .. Len(s) : s[j] \in Blk
    BY <1>1
  <1> DEFINE l == SubSeq(s, 1, i - 1)
             r == SubSeq(s, i + 1, Len(s))
  <1>3. /\ l \in Seq(Blk) /\ Len(l) = i - 1
        /\ \A j \in 1 .. i - 1 : l[j] = s[j]
    BY <1>1, SubSeqIs
  <1>4. /\ r \in Seq(Blk) /\ Len(r) = Len(s) - i
        /\ \A j \in 1 .. Len(s) - i : r[j] = s[i + j]
    <2>1. i + 1 \in 1 .. Len(s) + 1 /\ Len(s) \in 0 .. Len(s)
      BY <1>1
    <2>2. /\ r \in Seq(Blk) /\ Len(r) = Len(s) - (i + 1) + 1
          /\ \A j \in 1 .. Len(s) - (i + 1) + 1 : r[j] = s[(i + 1) + j - 1]
      BY <1>1, <2>1, SubSeqIs
    <2>3. Len(s) - (i + 1) + 1 = Len(s) - i
      BY <1>1
    <2>4. \A j \in 1 .. Len(s) - i : (i + 1) + j - 1 = i + j
      BY <1>1
    <2> QED
      BY <2>2, <2>3, <2>4
  <1>5. \A j \in 1 .. Len(s) - 1 : s[j + 1].at = s[j].at + s[j].Chunks
    BY DEF Tiled
  <1>6. s[1].at = a /\ s[Len(s)].at + s[Len(s)].Chunks = c /\ a \in Nat
    BY <1>1 DEF Tiled
  <1>7. l \o <<s[i]>> \o r = s
    <2> DEFINE k == l \o <<s[i]>>
    <2> HIDE DEF l
    <2>1. k \in Seq(Blk) /\ Len(k) = i /\ \A j \in 1 .. i : k[j] = s[j]
      <3>1. <<s[i]>> \in Seq(Blk) /\ Len(<<s[i]>>) = 1 /\ <<s[i]>>[1] = s[i]
        BY <1>2
      <3> DEFINE one == <<s[i]>>
      <3> HIDE DEF one
      <3>2. /\ Len(l \o one) = i /\ l \o one \in Seq(Blk)
            /\ \A j \in 1 .. i - 1 : (l \o one)[j] = l[j]
            /\ (l \o one)[i - 1 + 1] = one[1]
        BY <3>1, <1>1, <1>3, ConcatIs DEF one
      <3>3. i - 1 + 1 = i /\ k = l \o one /\ one[1] = s[i]
        BY <1>1, <3>1 DEF one
      <3> HIDE DEF k
      <3>4. \A j \in 1 .. i : j \in 1 .. i - 1 \/ j = i
        BY <1>1
      <3> QED
        BY <3>2, <3>3, <3>4, <1>3
    <2> HIDE DEF l, r, k
    <2>2. /\ k \o r \in Seq(Blk) /\ Len(k \o r) = Len(s)
          /\ \A j \in 1 .. i : (k \o r)[j] = k[j]
          /\ \A j \in 1 .. Len(s) - i : (k \o r)[i + j] = r[j]
      <3>1. /\ k \o r \in Seq(Blk) /\ Len(k \o r) = Len(k) + Len(r)
            /\ \A j \in 1 .. Len(k) : (k \o r)[j] = k[j]
            /\ \A j \in 1 .. Len(r) : (k \o r)[Len(k) + j] = r[j]
        BY <2>1, <1>4, ConcatIs
      <3>2. Len(k) = i
        BY <2>1
      <3>3. i + (Len(s) - i) = Len(s)
        BY <1>1
      <3> QED
        BY <3>1, <3>2, <3>3, <1>4
    <2>3. ASSUME NEW j \in 1 .. Len(s) PROVE (k \o r)[j] = s[j]
      <3>1. CASE j <= i
        <4>1. j \in 1 .. i
          BY <3>1
        <4> QED
          BY <4>1, <2>1, <2>2
      <3>2. CASE j > i
        <4>1. j - i \in 1 .. Len(s) - i /\ i + (j - i) = j
          BY <3>2, <1>1
        <4>2. (k \o r)[i + (j - i)] = r[j - i] /\ r[j - i] = s[i + (j - i)]
          BY <4>1, <2>2, <1>4
        <4> QED
          BY <4>1, <4>2
      <3>3. j <= i \/ j > i
        OBVIOUS
      <3> QED
        BY <3>1, <3>2, <3>3
    <2>4. k \o r = s
      BY <2>2, <2>3, <1>1, SeqEqual
    <2> QED
      BY <2>4 DEF k
  <1>8. Tiled(l, a, s[i].at)
    <2>1. CASE i = 1
      BY <2>1, <1>3, <1>6 DEF Tiled
    <2>2. CASE i > 1
      <3>1. l # << >> /\ l[1] = s[1] /\ l[Len(l)] = s[i - 1]
        BY <2>2, <1>3
      <3>2. s[(i - 1) + 1].at = s[i - 1].at + s[i - 1].Chunks /\ (i - 1) + 1 = i
        BY <2>2, <1>5
      <3>3. ASSUME NEW j \in 1 .. Len(l) - 1 PROVE l[j + 1].at = l[j].at + l[j].Chunks
        <4>1. l[j + 1] = s[j + 1] /\ l[j] = s[j] /\ j \in 1 .. Len(s) - 1
          BY <1>3
        <4> QED
          BY <4>1, <1>5
      <3> HIDE DEF l
      <3> QED
        BY <3>1, <3>2, <3>3, <1>3, <1>6 DEF Tiled
    <2> QED
      BY <2>1, <2>2
  <1>9. Tiled(r, s[i].at + s[i].Chunks, c)
    <2>0. s[i].at + s[i].Chunks \in Nat
      BY <1>2, BlkType
    <2>1. CASE i = Len(s)
      <3>1. r = << >>
        BY <2>1, <1>4
      <3> QED
        BY <2>0, <2>1, <3>1, <1>6, <1>4 DEF Tiled
    <2>2. CASE i < Len(s)
      <3>1. r # << >> /\ r[1] = s[i + 1] /\ r[Len(r)] = s[Len(s)]
        <4> HIDE DEF r
        <4>1. Len(r) \in 1 .. Len(s) - i /\ 1 \in 1 .. Len(s) - i /\ i + Len(r) = Len(s)
          BY <2>2, <1>4, <1>1
        <4>2. r[1] = s[i + 1] /\ r[Len(r)] = s[i + Len(r)]
          BY <4>1, <1>4
        <4>3. r # << >>
          BY <4>1
        <4> QED
          BY <4>1, <4>2, <4>3
      <3>2. s[i + 1].at = s[i].at + s[i].Chunks
        BY <2>2, <1>5
      <3>3. ASSUME NEW j \in 1 .. Len(r) - 1 PROVE r[j + 1].at = r[j].at + r[j].Chunks
        <4>1. /\ j \in 1 .. Len(s) - i /\ j + 1 \in 1 .. Len(s) - i
              /\ i + j \in 1 .. Len(s) - 1 /\ i + (j + 1) = (i + j) + 1
          BY <1>4, <1>1
        <4> QED
          BY <4>1, <1>4, <1>5
      <3> HIDE DEF r
      <3> QED
        BY <2>0, <3>1, <3>2, <3>3, <1>4, <1>6 DEF Tiled
    <2> QED
      BY <2>1, <2>2
  <1> QED
    BY <1>2, <1>7, <1>8, <1>9

(* Blocks come in the order of their addresses and do not overlap. *)
LEMMA TiledOrder ==
  ASSUME NEW s, NEW a, NEW b, Tiled(s, a, b)
  PROVE  /\ \A i \in 1 .. Len(s) : s[i] \in Blk
         /\ \A i, j \in 1 .. Len(s) : i < j => s[i].at + s[i].Chunks <= s[j].at
         /\ \A i \in 1 .. Len(s) : a <= s[i].at /\ s[i].at + s[i].Chunks <= b
         /\ a <= b
  <1>1. s \in Seq(Blk) /\ Len(s) \in Nat /\ a \in Nat
    BY DEF Tiled
  <1>2. \A i \in 1 .. Len(s) : s[i] \in Blk
    BY <1>1
  <1>3. \A i \in 1 .. Len(s) : s[i].at \in Nat /\ s[i].Chunks \in Nat \ {0}
    BY <1>2, BlkType
  <1>4. \A i \in 1 .. Len(s) - 1 : s[i + 1].at = s[i].at + s[i].Chunks
    BY DEF Tiled
  <1>5. \A i, j \in 1 .. Len(s) : i < j => s[i].at + s[i].Chunks <= s[j].at
    <2> SUFFICES ASSUME NEW i \in 1 .. Len(s)
                 PROVE  \A j \in 1 .. Len(s) : i < j => s[i].at + s[i].Chunks <= s[j].at
      OBVIOUS
    <2> DEFINE S == {d \in Nat : i + d + 1 <= Len(s) =>
                                   s[i].at + s[i].Chunks <= s[i + d + 1].at}
    <2>1. 0 \in S
      <3>1. SUFFICES ASSUME i + 0 + 1 <= Len(s)
                     PROVE  s[i].at + s[i].Chunks <= s[i + 0 + 1].at
        OBVIOUS
      <3>2. i + 0 + 1 = i + 1 /\ i \in 1 .. Len(s) - 1 /\ i + 1 \in 1 .. Len(s)
        BY <3>1, <1>1
      <3> QED
        BY <3>2, <1>3, <1>4
    <2>2. ASSUME NEW d \in Nat, d \in S PROVE d + 1 \in S
      <3>1. SUFFICES ASSUME i + (d + 1) + 1 <= Len(s)
                     PROVE  s[i].at + s[i].Chunks <= s[i + (d + 1) + 1].at
        OBVIOUS
      <3> DEFINE k == i + d + 1
      <3>2. i + (d + 1) + 1 = k + 1 /\ k \in 1 .. Len(s) - 1 /\ k \in 1 .. Len(s)
            /\ k + 1 \in 1 .. Len(s)
        BY <3>1, <1>1
      <3>3. s[i].at + s[i].Chunks <= s[k].at
        BY <2>2, <3>2
      <3>4. s[k + 1].at = s[k].at + s[k].Chunks
        BY <3>2, <1>4
      <3>5. /\ s[i].at \in Nat /\ s[i].Chunks \in Nat
            /\ s[k].at \in Nat /\ s[k].Chunks \in Nat
        BY <3>2, <1>3
      <3>6. s[i].at + s[i].Chunks <= s[k + 1].at
        BY SMTT(60), <3>3, <3>4, <3>5
      <3> QED
        BY <3>2, <3>6
    <2>3. Nat \subseteq S
      <3> HIDE DEF S
      <3> QED
        BY <2>1, <2>2, SetInduction
    <2>4. ASSUME NEW j \in 1 .. Len(s), i < j PROVE s[i].at + s[i].Chunks <= s[j].at
      <3>1. j - i - 1 \in Nat /\ i + (j - i - 1) + 1 = j
        BY <2>4, <1>1
      <3>2. j - i - 1 \in S
        BY <3>1, <2>3
      <3> QED
        BY <3>1, <3>2, <1>1
    <2> QED
      BY <2>4
  <1>6. ASSUME NEW i \in 1 .. Len(s) PROVE a <= s[i].at /\ s[i].at + s[i].Chunks <= b
    <2>1. s[1].at = a /\ s[Len(s)].at + s[Len(s)].Chunks = b
      BY DEF Tiled
    <2>2. 1 \in 1 .. Len(s) /\ Len(s) \in 1 .. Len(s)
      BY <1>1
    <2>3. i = 1 \/ s[1].at + s[1].Chunks <= s[i].at
      BY <2>2, <1>5
    <2>4. i = Len(s) \/ s[i].at + s[i].Chunks <= s[Len(s)].at
      BY <2>2, <1>5
    <2> QED
      BY SMTT(60), <2>1, <2>2, <2>3, <2>4, <1>3
  <1>7. a <= b
    <2>1. CASE s = << >>
      BY <2>1, <1>1 DEF Tiled
    <2>2. CASE s # << >>
      <3>1. 1 \in 1 .. Len(s)
        BY <2>2, <1>1
      <3>2. b \in Nat
        BY TiledEnd
      <3> QED
        BY <3>1, <3>2, <1>1, <1>3, <1>6
    <2> QED
      BY <2>1, <2>2
  <1> QED
    BY <1>2, <1>5, <1>6, <1>7

(* An address lies in one block, and in one block only. *)
Covers(b, c) == b.at <= c /\ c < b.at + b.Chunks

LEMMA TiledDisjoint ==
  ASSUME NEW s, NEW a, NEW b, Tiled(s, a, b), NEW i \in 1 .. Len(s), NEW j \in 1 .. Len(s),
         NEW c \in Nat, Covers(s[i], c), Covers(s[j], c)
  PROVE  i = j
  <1>1. s[i] \in Blk /\ s[j] \in Blk
    BY TiledOrder
  <1>2. /\ i < j => s[i].at + s[i].Chunks <= s[j].at
        /\ j < i => s[j].at + s[j].Chunks <= s[i].at
    BY TiledOrder
  <1>3. i \in Int /\ j \in Int
    OBVIOUS
  <1> QED
    BY <1>1, <1>2, <1>3, BlkType DEF Covers

LEMMA TiledCovers ==
  ASSUME NEW s, NEW a, NEW b, Tiled(s, a, b), NEW c \in a .. b - 1
  PROVE  \E i \in 1 .. Len(s) : Covers(s[i], c)
  <1>1. s \in Seq(Blk) /\ Len(s) \in Nat /\ a \in Nat /\ b \in Nat
    <2>1. b \in Nat
      BY TiledEnd
    <2> QED
      BY <2>1 DEF Tiled
  <1>2. \A i \in 1 .. Len(s) : s[i].at \in Nat /\ s[i].Chunks \in Nat \ {0}
    <2>1. \A i \in 1 .. Len(s) : s[i] \in Blk
      BY <1>1
    <2> QED
      BY <2>1, BlkType
  <1>3. s # << >>
    BY <1>1 DEF Tiled
  <1>4. s[1].at = a /\ s[Len(s)].at + s[Len(s)].Chunks = b
    BY <1>3 DEF Tiled
  <1>5. \A i \in 1 .. Len(s) - 1 : s[i + 1].at = s[i].at + s[i].Chunks
    BY DEF Tiled
  <1> DEFINE P == \E i \in 1 .. Len(s) : Covers(s[i], c)
             S == {d \in Nat : d + 1 <= Len(s) => P \/ s[d + 1].at <= c}
  <1>6. 0 \in S
    BY <1>4
  <1>7. ASSUME NEW d \in Nat, d \in S PROVE d + 1 \in S
    <2> HIDE DEF P
    <2>1. SUFFICES ASSUME d + 1 + 1 <= Len(s), ~P PROVE s[d + 1 + 1].at <= c
      OBVIOUS
    <2>2. d + 1 \in 1 .. Len(s) - 1 /\ d + 1 \in 1 .. Len(s)
      BY <2>1, <1>1
    <2>3. s[d + 1].at <= c
      BY <1>7, <2>1, <2>2
    <2>4. ~Covers(s[d + 1], c)
      BY <2>1, <2>2 DEF P
    <2>5. s[d + 1 + 1].at = s[d + 1].at + s[d + 1].Chunks
      BY <2>2, <1>5
    <2>6. s[d + 1].at \in Nat /\ s[d + 1].Chunks \in Nat /\ c \in Nat
      BY <2>2, <1>2, <1>1
    <2> QED
      BY <2>3, <2>4, <2>5, <2>6 DEF Covers
  <1>8. Nat \subseteq S
    <2> HIDE DEF S
    <2> QED
      BY <1>6, <1>7, SetInduction
  <1>9. SUFFICES ASSUME ~P PROVE FALSE
    OBVIOUS
  <1> HIDE DEF P
  <1>10. Len(s) - 1 \in Nat /\ (Len(s) - 1) + 1 = Len(s) /\ Len(s) \in 1 .. Len(s)
    BY <1>1, <1>3
  <1>11. Len(s) - 1 \in S
    BY <1>8, <1>10
  <1>12. s[Len(s)].at <= c
    BY <1>9, <1>10, <1>11, <1>1
  <1>13. ~Covers(s[Len(s)], c)
    BY <1>9, <1>10 DEF P
  <1> QED
    BY <1>1, <1>2, <1>4, <1>10, <1>12, <1>13 DEF Covers

-----------------------------------------------------------------------------
(* Merging *)

LEMMA JoinTiled ==
  ASSUME NEW s, NEW a, NEW b, Tiled(s, a, b), NEW x \in Blk, x.at = b
  PROVE  /\ Tiled(Join(s, x), a, b + x.Chunks)
         /\ Busy(Join(s, x)) = Busy(s) \cup Busy(<<x>>)
  <1>1. s \in Seq(Blk) /\ Len(s) \in Nat
    BY DEF Tiled
  <1>2. Tiled(s \o <<x>>, a, b + x.Chunks) /\ Busy(s \o <<x>>) = Busy(s) \cup Busy(<<x>>)
    BY TiledSingle, TiledConcat
  <1>3. CASE ~(s # << >> /\ IsFree(Last(s)) /\ IsFree(x))
    <2>1. Join(s, x) = s \o <<x>>
      BY <1>3, <1>1 DEF Join
    <2> QED
      BY <2>1, <1>2
  <1>4. CASE s # << >> /\ IsFree(Last(s)) /\ IsFree(x)
    <2> DEFINE n == Len(s)
               l == SubSeq(s, 1, n - 1)
               y == s[n]
               z == [y EXCEPT !.Chunks = @ + x.Chunks]
    <2>1. n \in 1 .. Len(s) /\ Last(s) = y /\ Front(s) = l
      BY <1>1, <1>4 DEF Last, Front
    <2>2. /\ y \in Blk /\ Tiled(l, a, y.at)
          /\ Tiled(SubSeq(s, n + 1, Len(s)), y.at + y.Chunks, b)
          /\ s = l \o <<y>> \o SubSeq(s, n + 1, Len(s))
      BY <2>1, TiledParts
    <2>3. y.at + y.Chunks = b
      BY <1>4 DEF Tiled
    <2>4. z \in Blk /\ z.at = y.at /\ z.Chunks = y.Chunks + x.Chunks
          /\ z.AllocatedSize = y.AllocatedSize
      <3>1. y.at \in Nat /\ y.Chunks \in Nat \ {0} /\ y.AllocatedSize \in Nat
            /\ x.Chunks \in Nat \ {0}
        BY <2>2, BlkType
      <3>2. y = [at |-> y.at, Chunks |-> y.Chunks, AllocatedSize |-> y.AllocatedSize]
        BY <2>2, BlkType
      <3>3. z = [at |-> y.at, Chunks |-> y.Chunks + x.Chunks, AllocatedSize |-> y.AllocatedSize]
        BY <3>2
      <3>4. y.Chunks + x.Chunks \in Nat \ {0}
        BY <3>1
      <3> HIDE DEF y, z
      <3> QED
        BY <3>1, <3>3, <3>4 DEF Blk
    <2>5. Join(s, x) = l \o <<z>>
      BY <1>4, <2>1 DEF Join
    <2>6. z.at + z.Chunks = b + x.Chunks
      <3>1. y.at \in Nat /\ y.Chunks \in Nat \ {0} /\ x.Chunks \in Nat \ {0}
        BY <2>2, BlkType
      <3> HIDE DEF y, z
      <3> QED
        BY <2>3, <2>4, <3>1
    <2>7. IsFree(z) /\ IsFree(y) /\ IsFree(x)
      BY <1>4, <2>1, <2>4 DEF IsFree
    <2> HIDE DEF y, z, l, n
    <2>8. Tiled(<<z>>, y.at, b + x.Chunks) /\ Busy(<<z>>) = {}
      BY <2>4, <2>6, <2>7, TiledSingle
    <2>9. Tiled(l \o <<z>>, a, b + x.Chunks) /\ Busy(l \o <<z>>) = Busy(l)
      <3>1. Tiled(l, a, y.at)
        BY <2>2
      <3>2. Tiled(l \o <<z>>, a, b + x.Chunks) /\ Busy(l \o <<z>>) = Busy(l) \cup Busy(<<z>>)
        BY <3>1, <2>8, TiledConcat
      <3> QED
        BY <3>2, <2>8
    <2>10. Tiled(<<y>>, y.at, b) /\ Busy(<<y>>) = {} /\ Busy(<<x>>) = {}
      BY <2>2, <2>3, <2>7, TiledSingle
    <2>11. s = l \o <<y>>
      <3>1. SubSeq(s, n + 1, Len(s)) = << >>
        BY <1>1 DEF n
      <3>2. l \in Seq(Blk) /\ y \in Blk
        BY <2>2 DEF Tiled
      <3>3. l \o <<y>> \in Seq(Blk)
        BY <3>2
      <3>4. (l \o <<y>>) \o << >> = l \o <<y>>
        BY <3>3
      <3>5. s = (l \o <<y>>) \o SubSeq(s, n + 1, Len(s))
        BY <2>2
      <3> QED
        BY <3>1, <3>4, <3>5
    <2>12. Busy(s) = Busy(l)
      <3>1. Tiled(l, a, y.at)
        BY <2>2
      <3>2. Busy(l \o <<y>>) = Busy(l) \cup Busy(<<y>>)
        BY <3>1, <2>10, TiledConcat
      <3> QED
        BY <3>2, <2>10, <2>11
    <2> QED
      BY <2>5, <2>9, <2>10, <2>12
  <1> QED
    BY <1>3, <1>4

Merging(s, m) == /\ m[0] = << >>
                 /\ \A j \in 1 .. Len(s) : m[j] = Join(m[j - 1], s[j])

LEMMA MergingExists ==
  ASSUME NEW s, Len(s) \in Nat
  PROVE  \E m : m = [j \in 0 .. Len(s) |-> IF j = 0 THEN << >> ELSE Join(m[j - 1], s[j])]
  <1> DEFINE Q(n, m) == m = [j \in 0 .. n |-> IF j = 0 THEN << >> ELSE Join(m[j - 1], s[j])]
             S == {n \in Nat : \E m : Q(n, m)}
  <1>1. 0 \in S
    <2>1. Q(0, [j \in 0 .. 0 |-> << >>])
      OBVIOUS
    <2> QED
      BY <2>1
  <1>2. ASSUME NEW n \in Nat, n \in S PROVE n + 1 \in S
    <2>1. PICK m : Q(n, m)
      BY <1>2
    <2> DEFINE c == [j \in 0 .. n + 1 |-> IF j = n + 1 THEN Join(m[n], s[n + 1]) ELSE m[j]]
    <2>2. Q(n + 1, c)
      <3>1. ASSUME NEW j \in 0 .. n + 1
            PROVE  c[j] = IF j = 0 THEN << >> ELSE Join(c[j - 1], s[j])
        <4>1. CASE j = n + 1
          <5>1. c[j] = Join(m[n], s[n + 1]) /\ j - 1 = n /\ c[n] = m[n] /\ j # 0
            BY <4>1
          <5> QED
            BY <5>1, <4>1
        <4>2. CASE j # n + 1
          <5>1. j \in 0 .. n /\ c[j] = m[j]
            BY <4>2
          <5>2. m[j] = IF j = 0 THEN << >> ELSE Join(m[j - 1], s[j])
            BY <5>1, <2>1
          <5>3. j # 0 => c[j - 1] = m[j - 1]
            BY <5>1
          <5> QED
            BY <5>1, <5>2, <5>3
        <4> QED
          BY <4>1, <4>2
      <3>2. c = [j \in 0 .. n + 1 |-> c[j]]
        OBVIOUS
      <3> HIDE DEF c
      <3> QED
        BY <3>1, <3>2
    <2> HIDE DEF Q, c
    <2> QED
      BY <2>2
  <1>3. Len(s) \in S
    <2> HIDE DEF S
    <2> QED
      BY <1>1, <1>2, SetInduction
  <1> QED
    BY <1>3

LEMMA MergedIs ==
  ASSUME NEW s, Len(s) \in Nat
  PROVE  \E m : Merging(s, m) /\ Merged(s) = m[Len(s)]
  <1> DEFINE Q(m) == m = [j \in 0 .. Len(s) |-> IF j = 0 THEN << >> ELSE Join(m[j - 1], s[j])]
             c == CHOOSE m : Q(m)
  <1>1. \E m : Q(m)
    BY MergingExists
  <1>2. Q(c)
    <2> HIDE DEF Q
    <2> QED
      BY <1>1
  <1>3. Merged(s) = c[Len(s)]
    BY DEF Merged
  <1> HIDE DEF c
  <1>4. Merging(s, c)
    <2>1. c[0] = << >>
      BY <1>2
    <2>2. \A j \in 1 .. Len(s) : c[j] = Join(c[j - 1], s[j])
      BY <1>2
    <2> QED
      BY <2>1, <2>2 DEF Merging
  <1> QED
    BY <1>3, <1>4

LEMMA MergedTiled ==
  ASSUME NEW s, NEW a, NEW b, Tiled(s, a, b)
  PROVE  Tiled(Merged(s), a, b) /\ Busy(Merged(s)) = Busy(s)
  <1>1. s \in Seq(Blk) /\ Len(s) \in Nat /\ a \in Nat
    BY DEF Tiled
  <1>2. PICK m : Merging(s, m) /\ Merged(s) = m[Len(s)]
    BY <1>1, MergedIs
  <1> DEFINE End(n) == IF n = 0 THEN a ELSE s[n].at + s[n].Chunks
             P(n) == Tiled(m[n], a, End(n)) /\ Busy(m[n]) = Busy(SubSeq(s, 1, n))
             S == {n \in Nat : n <= Len(s) => P(n)}
  <1>3. 0 \in S
    <2>1. m[0] = << >> /\ SubSeq(s, 1, 0) = << >>
      BY <1>2 DEF Merging
    <2> QED
      BY <2>1, <1>1, TiledEmpty
  <1>4. ASSUME NEW n \in Nat, n \in S PROVE n + 1 \in S
    <2>1. SUFFICES ASSUME n + 1 <= Len(s) PROVE P(n + 1)
      OBVIOUS
    <2>2. P(n) /\ n + 1 \in 1 .. Len(s) /\ (n + 1) - 1 = n /\ n + 1 # 0
      BY <1>1, <1>4, <2>1
    <2> DEFINE x == s[n + 1]
    <2>3. x \in Blk /\ x.at = End(n) /\ Tiled(SubSeq(s, 1, n), a, x.at)
      <3>1. x \in Blk /\ Tiled(SubSeq(s, 1, n), a, x.at)
        BY <2>2, TiledParts
      <3>2. CASE n = 0
        BY <3>2, <2>2, <1>1 DEF Tiled
      <3>3. CASE n # 0
        <4>1. n \in 1 .. Len(s) - 1
          BY <3>3, <2>2, <1>1
        <4>2. s[n + 1].at = s[n].at + s[n].Chunks
          BY <4>1 DEF Tiled
        <4> QED
          BY <3>1, <3>3, <4>2
      <3> QED
        BY <3>1, <3>2, <3>3
    <2>4. m[n + 1] = Join(m[n], x)
      BY <1>2, <2>2 DEF Merging
    <2>5. Tiled(m[n + 1], a, End(n) + x.Chunks) /\ Busy(m[n + 1]) = Busy(m[n]) \cup Busy(<<x>>)
      <3> HIDE DEF x, End
      <3> QED
        BY <2>2, <2>3, <2>4, JoinTiled
    <2>6. End(n + 1) = End(n) + x.Chunks
      BY <2>2, <2>3
    <2>7. SubSeq(s, 1, n + 1) = SubSeq(s, 1, n) \o <<x>>
      <3> DEFINE k == SubSeq(s, 1, n)
      <3>1. /\ SubSeq(s, 1, n + 1) \in Seq(Blk) /\ Len(SubSeq(s, 1, n + 1)) = n + 1
            /\ \A i \in 1 .. n + 1 : SubSeq(s, 1, n + 1)[i] = s[i]
        <4>1. 1 \in 1 .. Len(s) + 1 /\ n + 1 \in 0 .. Len(s) /\ 1 <= (n + 1) + 1
              /\ (n + 1) - 1 + 1 = n + 1 /\ \A i \in 1 .. n + 1 : 1 + i - 1 = i
          BY <2>2, <1>1
        <4>2. /\ SubSeq(s, 1, n + 1) \in Seq(Blk) /\ Len(SubSeq(s, 1, n + 1)) = (n + 1) - 1 + 1
              /\ \A i \in 1 .. (n + 1) - 1 + 1 : SubSeq(s, 1, n + 1)[i] = s[1 + i - 1]
          BY <4>1, <1>1, SubSeqIs
        <4> QED
          BY <4>1, <4>2
      <3>2. /\ k \in Seq(Blk) /\ Len(k) = n /\ \A i \in 1 .. n : k[i] = s[i]
        <4>1. 1 \in 1 .. Len(s) + 1 /\ n \in 0 .. Len(s) /\ 1 <= n + 1
              /\ n - 1 + 1 = n /\ \A i \in 1 .. n : 1 + i - 1 = i
          BY <2>2, <1>1
        <4>2. /\ SubSeq(s, 1, n) \in Seq(Blk) /\ Len(SubSeq(s, 1, n)) = n - 1 + 1
              /\ \A i \in 1 .. n - 1 + 1 : SubSeq(s, 1, n)[i] = s[1 + i - 1]
          BY <4>1, <1>1, SubSeqIs
        <4> QED
          BY <4>1, <4>2
      <3> HIDE DEF k
      <3>3. <<x>> \in Seq(Blk) /\ Len(<<x>>) = 1 /\ <<x>>[1] = x
        BY <2>3
      <3>4. /\ k \o <<x>> \in Seq(Blk) /\ Len(k \o <<x>>) = n + 1
            /\ \A i \in 1 .. n : (k \o <<x>>)[i] = k[i]
            /\ (k \o <<x>>)[n + 1] = x
        <4>1. /\ k \o <<x>> \in Seq(Blk) /\ Len(k \o <<x>>) = Len(k) + Len(<<x>>)
              /\ \A i \in 1 .. Len(k) : (k \o <<x>>)[i] = k[i]
              /\ \A i \in 1 .. Len(<<x>>) : (k \o <<x>>)[Len(k) + i] = <<x>>[i]
          BY <3>2, <3>3, ConcatIs
        <4>2. 1 \in 1 .. Len(<<x>>)
          BY <3>3
        <4> QED
          BY <4>1, <4>2, <3>2, <3>3
      <3>5. \A i \in 1 .. n + 1 : SubSeq(s, 1, n + 1)[i] = (k \o <<x>>)[i]
        BY <3>1, <3>2, <3>4
      <3>6. SubSeq(s, 1, n + 1) = k \o <<x>>
        BY <3>1, <3>4, <3>5, SeqEqual
      <3> QED
        BY <3>6 DEF k
    <2>8. Busy(SubSeq(s, 1, n + 1)) = Busy(SubSeq(s, 1, n)) \cup Busy(<<x>>)
      <3>1. Tiled(<<x>>, x.at, x.at + x.Chunks)
        BY <2>3, TiledSingle
      <3> HIDE DEF x
      <3> QED
        BY <2>3, <2>7, <3>1, TiledConcat
    <2> HIDE DEF x, End
    <2> QED
      BY <2>2, <2>5, <2>6, <2>8
  <1>5. P(Len(s))
    <2>1. Nat \subseteq S
      <3> HIDE DEF S
      <3> QED
        BY <1>3, <1>4, SetInduction
    <2>2. Len(s) \in S /\ Len(s) <= Len(s)
      BY <2>1, <1>1
    <2> HIDE DEF P
    <2> QED
      BY <2>2
  <1>6. SubSeq(s, 1, Len(s)) = s
    <2>1. /\ SubSeq(s, 1, Len(s)) \in Seq(Blk) /\ Len(SubSeq(s, 1, Len(s))) = Len(s)
          /\ \A i \in 1 .. Len(s) : SubSeq(s, 1, Len(s))[i] = s[i]
      BY <1>1
    <2> QED
      BY <2>1, <1>1, SeqEqual
  <1>7. End(Len(s)) = b
    <2>1. CASE s = << >>
      BY <2>1, <1>1 DEF Tiled
    <2>2. CASE s # << >>
      BY <2>2, <1>1 DEF Tiled
    <2> QED
      BY <2>1, <2>2
  <1> HIDE DEF End
  <1> QED
    BY <1>2, <1>5, <1>6, <1>7

-----------------------------------------------------------------------------
(* Parts of a list *)

LEMMA LeastIn ==
  ASSUME NEW S \in SUBSET Nat, S # {}
  PROVE  \E n \in S : \A k \in S : n <= k
  <1>1. PICK n \in S : \A k \in S : <<k, n>> \notin OpToRel(<, Nat)
    BY WFMin, NatLessThanWellFounded
  <1>2. \A k \in S : k \in Nat /\ n \in Nat /\ ~(k < n)
    BY <1>1 DEF OpToRel
  <1> QED
    BY <1>2

LEMMA BusySubSeq ==
  ASSUME NEW s \in Seq(Blk), NEW m \in 1 .. Len(s) + 1, NEW n \in 0 .. Len(s), m <= n + 1
  PROVE  Busy(SubSeq(s, m, n)) = {s[j] : j \in {k \in m .. n : ~IsFree(s[k])}}
  <1> DEFINE q == SubSeq(s, m, n)
  <1>1. Len(q) = n - m + 1 /\ \A i \in 1 .. n - m + 1 : q[i] = s[m + i - 1]
    BY SubSeqIs
  <1> HIDE DEF q
  <1>2. ASSUME NEW x \in Busy(q) PROVE \E j \in m .. n : x = s[j] /\ ~IsFree(s[j])
    <2>1. PICK i \in 1 .. n - m + 1 : x = q[i] /\ ~IsFree(q[i])
      BY <1>1, <1>2 DEF Busy
    <2>2. m + i - 1 \in m .. n
      OBVIOUS
    <2> QED
      BY <1>1, <2>1, <2>2
  <1>3. ASSUME NEW j \in m .. n, ~IsFree(s[j]) PROVE s[j] \in Busy(q)
    <2>1. j - m + 1 \in 1 .. Len(q) /\ m + (j - m + 1) - 1 = j
      BY <1>1
    <2>2. q[j - m + 1] = s[j]
      BY <1>1, <2>1
    <2> QED
      BY <1>3, <2>1, <2>2 DEF Busy
  <1> QED
    BY <1>2, <1>3 DEF q

LEMMA TiledRange ==
  ASSUME NEW s, NEW a, NEW b, Tiled(s, a, b), NEW m \in 1 .. Len(s), NEW n \in m .. Len(s)
  PROVE  Tiled(SubSeq(s, m, n), s[m].at, s[n].at + s[n].Chunks)
  <1> DEFINE q == SubSeq(s, m, n)
  <1>1. s \in Seq(Blk) /\ Len(s) \in Nat /\ \A i \in 1 .. Len(s) - 1 : s[i + 1].at = s[i].at + s[i].Chunks
    BY DEF Tiled
  <1>2. q \in Seq(Blk) /\ Len(q) = n - m + 1 /\ \A i \in 1 .. n - m + 1 : q[i] = s[m + i - 1]
    <2>1. m \in 1 .. Len(s) + 1 /\ n \in 0 .. Len(s) /\ m <= n + 1
      BY <1>1
    <2> QED
      BY <1>1, <2>1, SubSeqIs
  <1> HIDE DEF q
  <1>3. s[m].at \in Nat
    <2>1. s[m] \in Blk
      BY <1>1
    <2> QED
      BY <2>1, BlkType
  <1>4. q # << >> /\ q[1] = s[m] /\ q[Len(q)] = s[n]
    <2>1. 1 \in 1 .. n - m + 1 /\ m + 1 - 1 = m /\ n - m + 1 \in 1 .. n - m + 1
          /\ m + (n - m + 1) - 1 = n
      OBVIOUS
    <2>2. Len(q) # 0
      BY <1>2
    <2>3. q[1] = s[m + 1 - 1] /\ q[n - m + 1] = s[m + (n - m + 1) - 1]
      BY <1>2, <2>1
    <2> QED
      BY <1>2, <2>1, <2>2, <2>3
  <1>5. ASSUME NEW i \in 1 .. Len(q) - 1 PROVE q[i + 1].at = q[i].at + q[i].Chunks
    <2>1. /\ i \in 1 .. n - m + 1 /\ i + 1 \in 1 .. n - m + 1
          /\ m + i - 1 \in 1 .. Len(s) - 1 /\ m + (i + 1) - 1 = (m + i - 1) + 1
      BY <1>1, <1>2
    <2>2. q[i] = s[m + i - 1] /\ q[i + 1] = s[(m + i - 1) + 1]
      BY <1>2, <2>1
    <2> QED
      BY <1>1, <2>1, <2>2
  <1> QED
    BY <1>2, <1>3, <1>4, <1>5 DEF Tiled, q

LEMMA EasyMergedTiled ==
  ASSUME NEW s, NEW a, NEW b, Tiled(s, a, b), NEW i \in 1 .. Len(s)
  PROVE  Tiled(EasyMerged(s, i), a, b) /\ Busy(EasyMerged(s, i)) = Busy(s)
  <1> DEFINE used == {j \in i + 1 .. Len(s) : ~IsFree(s[j])}
             end == IF used = {} THEN Len(s)
                    ELSE (CHOOSE j \in used : \A k \in used : j <= k) - 1
             l == SubSeq(s, 1, i - 1)
             q == SubSeq(s, i, end)
             r == SubSeq(s, end + 1, Len(s))
  <1>1. s \in Seq(Blk) /\ Len(s) \in Nat
    BY DEF Tiled
  <1>2. end \in i .. Len(s)
    <2>1. CASE used = {}
      BY <2>1, <1>1
    <2>2. CASE used # {}
      <3>1. used \in SUBSET Nat
        BY <1>1
      <3>2. \E j \in used : \A k \in used : j <= k
        BY <2>2, <3>1, LeastIn
      <3>3. PICK j \in used : end = j - 1
        <4> DEFINE c == CHOOSE j \in used : \A k \in used : j <= k
        <4>1. c \in used
          <5> HIDE DEF used
          <5> QED
            BY <3>2
        <4> QED
          BY <2>2, <4>1
      <3>4. j \in i + 1 .. Len(s)
        OBVIOUS
      <3> HIDE DEF used, end
      <3> QED
        BY <3>3, <3>4, <1>1
    <2> QED
      BY <2>1, <2>2
  <1>3. EasyMerged(s, i) = l \o Merged(q) \o r
    BY DEF EasyMerged
  <1> HIDE DEF end
  <1>4. Tiled(l, a, s[i].at) /\ Tiled(q, s[i].at, s[end].at + s[end].Chunks)
        /\ Tiled(r, s[end].at + s[end].Chunks, b)
    <2>1. Tiled(l, a, s[i].at)
      BY TiledParts
    <2>2. Tiled(q, s[i].at, s[end].at + s[end].Chunks)
      BY <1>2, TiledRange
    <2>3. end \in 1 .. Len(s)
      BY <1>2
    <2>4. Tiled(r, s[end].at + s[end].Chunks, b)
      BY <2>3, TiledParts
    <2> QED
      BY <2>1, <2>2, <2>4
  <1>5. Busy(s) = Busy(l) \cup Busy(q) \cup Busy(r)
    <2>1. Busy(l) = {s[j] : j \in {k \in 1 .. i - 1 : ~IsFree(s[k])}}
      <3>1. 1 \in 1 .. Len(s) + 1 /\ i - 1 \in 0 .. Len(s) /\ 1 <= (i - 1) + 1
        BY <1>1
      <3> QED
        BY <1>1, <3>1, BusySubSeq
    <2>2. Busy(q) = {s[j] : j \in {k \in i .. end : ~IsFree(s[k])}}
      <3>1. i \in 1 .. Len(s) + 1 /\ end \in 0 .. Len(s) /\ i <= end + 1
        BY <1>1, <1>2
      <3> QED
        BY <1>1, <3>1, BusySubSeq
    <2>3. Busy(r) = {s[j] : j \in {k \in end + 1 .. Len(s) : ~IsFree(s[k])}}
      <3>1. end + 1 \in 1 .. Len(s) + 1 /\ Len(s) \in 0 .. Len(s) /\ end + 1 <= Len(s) + 1
        BY <1>1, <1>2
      <3> QED
        BY <1>1, <3>1, BusySubSeq
    <2>4. \A j : j \in 1 .. Len(s) <=> j \in 1 .. i - 1 \/ j \in i .. end \/ j \in end + 1 .. Len(s)
      BY <1>1, <1>2
    <2> HIDE DEF l, q, r
    <2> QED
      BY <2>1, <2>2, <2>3, <2>4 DEF Busy
  <1> HIDE DEF l, q, r
  <1>6. Tiled(Merged(q), s[i].at, s[end].at + s[end].Chunks) /\ Busy(Merged(q)) = Busy(q)
    BY <1>4, MergedTiled
  <1>7. Tiled(l \o Merged(q), a, s[end].at + s[end].Chunks)
        /\ Busy(l \o Merged(q)) = Busy(l) \cup Busy(q)
    BY <1>4, <1>6, TiledConcat
  <1>8. Tiled(l \o Merged(q) \o r, a, b)
        /\ Busy(l \o Merged(q) \o r) = Busy(l) \cup Busy(q) \cup Busy(r)
    <2>1. Tiled(l \o Merged(q) \o r, a, b)
          /\ Busy(l \o Merged(q) \o r) = Busy(l \o Merged(q)) \cup Busy(r)
      <3> DEFINE lm == l \o Merged(q)
      <3>1. Tiled(lm, a, s[end].at + s[end].Chunks) /\ Tiled(r, s[end].at + s[end].Chunks, b)
        BY <1>4, <1>7
      <3>2. Tiled(lm \o r, a, b) /\ Busy(lm \o r) = Busy(lm) \cup Busy(r)
        <4> HIDE DEF lm
        <4> QED
          BY <3>1, TiledConcat
      <3> QED
        BY <3>2
    <2> QED
      BY <1>7, <2>1
  <1> QED
    BY <1>3, <1>5, <1>8

(* A free block from whose end k chunks are cut *)
LEMMA SplitTiled ==
  ASSUME NEW b, Tiled(list, 0, b), NEW i \in 1 .. Len(list), IsFree(list[i]),
         NEW k \in Nat \ {0}, list[i].Chunks > k, NEW n \in Nat \ {0},
         NEW new, new = [at |-> list[i].at + list[i].Chunks - k, Chunks |-> k, AllocatedSize |-> n]
  PROVE  /\ new \in Blk /\ Tiled(Split(i, k, n), 0, b)
         /\ Busy(Split(i, k, n)) = Busy(list) \cup {new}
         /\ \A c \in Nat : Covers(new, c) => Covers(list[i], c)
  <1> DEFINE x == list[i]
             y == [x EXCEPT !.Chunks = @ - k]
             l == SubSeq(list, 1, i - 1)
             r == SubSeq(list, i + 1, Len(list))
  <1>1. x \in Blk /\ Tiled(l, 0, x.at) /\ Tiled(r, x.at + x.Chunks, b) /\ list = l \o <<x>> \o r
    BY TiledParts
  <1>2. x.at \in Nat /\ x.Chunks \in Nat \ {0} /\ x.AllocatedSize \in Nat
        /\ x = [at |-> x.at, Chunks |-> x.Chunks, AllocatedSize |-> x.AllocatedSize]
    BY <1>1, BlkType
  <1>3. y = [at |-> x.at, Chunks |-> x.Chunks - k, AllocatedSize |-> x.AllocatedSize]
    BY <1>2
  <1>4. Split(i, k, n) = l \o <<y, new>> \o r
    BY DEF Split
  <1>5. x.Chunks - k \in Nat \ {0} /\ x.at + x.Chunks - k \in Nat
        /\ x.at + x.Chunks = (x.at + x.Chunks - k) + k
        /\ x.at + (x.Chunks - k) = x.at + x.Chunks - k
    BY <1>2
  <1>6. y \in Blk /\ new \in Blk
    <2> HIDE DEF x, y
    <2> QED
      BY <1>2, <1>3, <1>5 DEF Blk, x
  <1>7. /\ y.at = x.at /\ y.at + y.Chunks = new.at /\ IsFree(y) /\ ~IsFree(new) /\ IsFree(x)
        /\ new.at + new.Chunks = x.at + x.Chunks /\ x.at <= new.at
    <2>1. y.at = x.at /\ y.Chunks = x.Chunks - k /\ y.AllocatedSize = x.AllocatedSize
      BY <1>3
    <2>2. new.at = x.at + x.Chunks - k /\ new.Chunks = k /\ new.AllocatedSize = n
      OBVIOUS
    <2>3. IsFree(x)
      OBVIOUS
    <2> HIDE DEF x, y
    <2> QED
      BY <1>2, <1>5, <2>1, <2>2, <2>3 DEF IsFree
  <1> HIDE DEF x, y, l, r
  <1>8. Tiled(<<y>>, x.at, new.at) /\ Busy(<<y>>) = {}
    BY <1>6, <1>7, TiledSingle
  <1>9. Tiled(<<new>>, new.at, x.at + x.Chunks) /\ Busy(<<new>>) = {new}
    BY <1>6, <1>7, TiledSingle
  <1>10. Tiled(<<x>>, x.at, x.at + x.Chunks) /\ Busy(<<x>>) = {}
    BY <1>1, <1>7, TiledSingle
  <1>11. <<y>> \o <<new>> = <<y, new>>
    <2>1. /\ <<y>> \in Seq(Blk) /\ <<new>> \in Seq(Blk) /\ Len(<<y>>) = 1 /\ Len(<<new>>) = 1
          /\ <<y>>[1] = y /\ <<new>>[1] = new
      BY <1>6
    <2>2. /\ <<y, new>> \in Seq(Blk) /\ Len(<<y, new>>) = 2
          /\ <<y, new>>[1] = y /\ <<y, new>>[2] = new
      BY <1>6
    <2> DEFINE u == <<y>>  v == <<new>>  w == <<y, new>>
    <2>3. u \in Seq(Blk) /\ v \in Seq(Blk) /\ w \in Seq(Blk)
      BY <2>1, <2>2
    <2>4. Len(u) = 1 /\ Len(v) = 1 /\ Len(w) = 2 /\ u[1] = w[1] /\ v[1] = w[2]
      BY <2>1, <2>2
    <2> HIDE DEF u, v, w
    <2>5. /\ u \o v \in Seq(Blk) /\ Len(u \o v) = 1 + 1
          /\ \A j \in 1 .. 1 : (u \o v)[j] = u[j]
          /\ \A j \in 1 .. 1 : (u \o v)[1 + j] = v[j]
      <3>1. /\ u \o v \in Seq(Blk) /\ Len(u \o v) = Len(u) + Len(v)
            /\ \A j \in 1 .. Len(u) : (u \o v)[j] = u[j]
            /\ \A j \in 1 .. Len(v) : (u \o v)[Len(u) + j] = v[j]
        BY <2>3, ConcatIs
      <3> QED
        BY <2>4, <3>1
    <2>6. (u \o v)[1] = w[1] /\ (u \o v)[2] = w[2]
      <3>1. 1 \in 1 .. 1 /\ 1 + 1 = 2
        OBVIOUS
      <3> QED
        BY <2>4, <2>5, <3>1
    <2>7. \A j \in 1 .. Len(u \o v) : (u \o v)[j] = w[j]
      BY <2>5, <2>6
    <2>8. u \o v = w
      BY <2>3, <2>4, <2>5, <2>7, SeqEqual
    <2> QED
      BY <2>8 DEF u, v, w
  <1>12. Tiled(<<y, new>>, x.at, x.at + x.Chunks) /\ Busy(<<y, new>>) = {new}
    <2>1. Tiled(<<y>> \o <<new>>, x.at, x.at + x.Chunks)
          /\ Busy(<<y>> \o <<new>>) = Busy(<<y>>) \cup Busy(<<new>>)
      BY <1>8, <1>9, TiledConcat
    <2> QED
      BY <1>8, <1>9, <1>11, <2>1
  <1>13. Tiled(l \o <<y, new>> \o r, 0, b)
         /\ Busy(l \o <<y, new>> \o r) = Busy(l) \cup {new} \cup Busy(r)
    <2>1. Tiled(l \o <<y, new>>, 0, x.at + x.Chunks)
          /\ Busy(l \o <<y, new>>) = Busy(l) \cup Busy(<<y, new>>)
      BY <1>1, <1>12, TiledConcat
    <2>2. Tiled(l \o <<y, new>> \o r, 0, b)
          /\ Busy(l \o <<y, new>> \o r) = Busy(l \o <<y, new>>) \cup Busy(r)
      BY ZenonT(60), <1>1, <2>1, TiledConcat
    <2> QED
      BY <1>12, <2>1, <2>2
  <1>14. Busy(list) = Busy(l) \cup Busy(r)
    <2>1. Tiled(l \o <<x>>, 0, x.at + x.Chunks) /\ Busy(l \o <<x>>) = Busy(l) \cup {}
      BY <1>1, <1>10, TiledConcat
    <2>2. Busy(l \o <<x>> \o r) = Busy(l) \cup {} \cup Busy(r)
      BY <1>1, <2>1, TiledConcat
    <2> QED
      BY <1>1, <2>2
  <1>15. \A c \in Nat : Covers(new, c) => Covers(x, c)
    <2>1. new.at \in Nat /\ new.Chunks \in Nat
      BY <1>6, BlkType
    <2> QED
      BY <1>2, <1>7, <2>1 DEF Covers
  <1> QED
    BY <1>4, <1>6, <1>13, <1>14, <1>15 DEF x

-----------------------------------------------------------------------------
(* The invariant *)

ListOK == /\ Tiled(list, 0, MaxChunks)
          /\ \A b \in Busy(list) : b.AllocatedSize \in Size

(* A pointer that a task holds leads to an allocated block with room for   *)
(* what was asked for, and nobody else holds it.                           *)
HeldOK ==
  /\ held \in [Task -> SUBSET (Nat \X Size)]
  /\ \A t \in Task : \A h \in held[t] : \E b \in Busy(list) :
        b.at = h[1] /\ h[2] + HEADER_SIZE <= b.Chunks * CHUNK_SIZE
  /\ \A t, u \in Task : \A h \in held[t], g \in held[u] : h[1] = g[1] => t = u /\ h = g

(* Who is about to free a pointer still holds it. *)
CallOK ==
  /\ pc \in [Task -> {"user", "free", "reallocFree", "reallocAlloc"}]
  /\ arg \in [Task -> (Nat \X (Size \cup {0})) \cup {None}]
  /\ \A t \in Task :
       /\ pc[t] \in {"free", "reallocFree"} => \E h \in held[t] : h[1] = arg[t][1]
       /\ pc[t] \in {"reallocFree", "reallocAlloc"} => arg[t][2] \in Size

CountOK == AllocatedMemory \in 0 .. Word - 1 /\ TotalBlocks \in 0 .. Word - 1

IInv == ListOK /\ HeldOK /\ CallOK /\ CountOK

LEMMA SizeIs ==
  ASSUME NEW n \in Size
  PROVE  n \in Nat \ {0} /\ CHUNK_SIZE + n + HEADER_SIZE < Word
  BY MemoryAssumption

LEMMA ChunksForIs ==
  ASSUME NEW n \in Size
  PROVE  ChunksFor(n) \in Nat \ {0} /\ n + HEADER_SIZE <= ChunksFor(n) * CHUNK_SIZE
  <1> DEFINE x == CHUNK_SIZE + n + HEADER_SIZE
             k == x \div CHUNK_SIZE
  <1>1. x \in Nat /\ x < Word /\ Word \in Nat \ {0} /\ CHUNK_SIZE \in Nat \ {0}
        /\ n \in Nat /\ HEADER_SIZE \in Nat
    BY SizeIs, MemoryAssumption
  <1>2. x % Word = x
    <2> HIDE DEF x
    <2> QED
      BY <1>1
  <1>3. ChunksFor(n) = k
    BY <1>2 DEF ChunksFor
  <1>4. k \in Nat /\ k * CHUNK_SIZE <= x /\ x < k * CHUNK_SIZE + CHUNK_SIZE
    <2> HIDE DEF x
    <2> QED
      BY <1>1
  <1>5. k # 0
    <2>1. SUFFICES ASSUME k = 0 PROVE FALSE
      OBVIOUS
    <2>2. k * CHUNK_SIZE = 0
      BY <2>1, <1>1
    <2>3. x < CHUNK_SIZE
      <3> HIDE DEF k, x
      <3> QED
        BY <1>1, <1>4, <2>2
    <2> QED
      BY <1>1, <2>3
  <1> HIDE DEF k
  <1>6. n + HEADER_SIZE <= k * CHUNK_SIZE
    <2>1. k * CHUNK_SIZE \in Nat
      BY <1>1, <1>4
    <2> DEFINE z == k * CHUNK_SIZE
    <2>2. z \in Nat /\ x < z + CHUNK_SIZE
      BY <2>1, <1>4
    <2> HIDE DEF z
    <2>3. n + HEADER_SIZE <= z
      BY <1>1, <2>2
    <2> QED
      BY <2>3 DEF z
  <1> QED
    BY <1>3, <1>4, <1>5, <1>6

LEMMA ModWord ==
  ASSUME NEW x \in Int
  PROVE  x % Word \in 0 .. Word - 1
  <1>1. Word \in Nat \ {0}
    BY MemoryAssumption
  <1> QED
    BY <1>1

LEMMA DecIs ==
  ASSUME NEW x \in Int, NEW n \in Int
  PROVE  Dec(x, n) \in 0 .. Word - 1
  <1>1. n % Word \in Int
    BY ModWord
  <1>2. x + Word - (n % Word) \in Int
    BY <1>1, MemoryAssumption
  <1> QED
    BY <1>2, ModWord DEF Dec

(* The block a pointer leads to *)
LEMMA BlockIs ==
  ASSUME ListOK, NEW x \in Busy(list)
  PROVE  /\ Index(x.at) \in 1 .. Len(list) /\ list[Index(x.at)] = x /\ Block(x.at) = x
         /\ ~IsFree(x) /\ x \in Blk
  <1>1. Tiled(list, 0, MaxChunks) /\ DOMAIN list = 1 .. Len(list)
    BY DEF ListOK, Tiled
  <1>2. PICK i \in 1 .. Len(list) : x = list[i] /\ ~IsFree(list[i])
    BY DEF Busy
  <1> DEFINE j == Index(x.at)
  <1>3. j \in DOMAIN list /\ list[j].at = x.at
    <2>1. \E k \in DOMAIN list : list[k].at = x.at
      BY <1>1, <1>2
    <2> QED
      BY <2>1 DEF Index
  <1> HIDE DEF j
  <1>4. list[i] \in Blk /\ list[j] \in Blk
    BY <1>1, <1>3, TiledOrder
  <1>5. x.at \in Nat /\ Covers(list[i], x.at) /\ Covers(list[j], x.at)
    BY <1>2, <1>3, <1>4, BlkType DEF Covers
  <1>6. i = j
    BY <1>1, <1>3, <1>5, TiledDisjoint
  <1> QED
    BY <1>1, <1>2, <1>3, <1>4, <1>6 DEF Block, j

(* Two allocated blocks at one address are one. *)
LEMMA BusyDisjoint ==
  ASSUME ListOK, NEW x \in Busy(list), NEW y \in Busy(list),
         NEW c \in Nat, Covers(x, c), Covers(y, c)
  PROVE  x = y
  <1>1. PICK i \in 1 .. Len(list) : x = list[i]
    BY DEF Busy
  <1>2. PICK j \in 1 .. Len(list) : y = list[j]
    BY DEF Busy
  <1>3. i = j
    BY <1>1, <1>2, TiledDisjoint DEF ListOK
  <1> QED
    BY <1>1, <1>2, <1>3

LEMMA OwnAddress ==
  ASSUME NEW x \in Blk
  PROVE  x.at \in Nat /\ Covers(x, x.at)
  BY BlkType DEF Covers

-----------------------------------------------------------------------------
(* What the operations do to the allocated blocks *)

(* A block x of n bytes is new. *)
Allocated(t, n, x) ==
  /\ x \in Blk /\ x.AllocatedSize = n /\ n + HEADER_SIZE <= x.Chunks * CHUNK_SIZE
  /\ \A y \in Busy(list), c \in Nat : ~(Covers(y, c) /\ Covers(x, c))
  /\ Tiled(list', 0, MaxChunks) /\ Busy(list') = Busy(list) \cup {x}
  /\ held' = [held EXCEPT ![t] = @ \cup {<<x.at, n>>}]

(* The block x is gone. *)
Released(t, x) ==
  /\ x \in Busy(list)
  /\ Tiled(list', 0, MaxChunks) /\ Busy(list') = Busy(list) \ {x}
  /\ held' = [held EXCEPT ![t] = {h \in @ : h[1] # x.at}]

(* The allocated blocks are the same. *)
Kept == Tiled(list', 0, MaxChunks) /\ Busy(list') = Busy(list)

LEMMA GotAllocates ==
  ASSUME ListOK, CountOK, NEW t \in Task, NEW n \in Size, Got(t, n)
  PROVE  CountOK' /\ \E x : Allocated(t, n, x)
  <1> DEFINE k == ChunksFor(n)
             i == FirstFit(k)
             x == [at |-> list[i].at + list[i].Chunks - k, Chunks |-> k, AllocatedSize |-> n]
  <1>1. Tiled(list, 0, MaxChunks) /\ DOMAIN list = 1 .. Len(list) /\ Len(list) \in Nat
    BY DEF ListOK, Tiled
  <1>2. k \in Nat \ {0} /\ n + HEADER_SIZE <= k * CHUNK_SIZE /\ n \in Nat \ {0}
    BY ChunksForIs, SizeIs
  <1>3. i \in 1 .. Len(list) /\ IsFree(list[i]) /\ list[i].Chunks > k
    <2>1. Fits(k) # {} /\ Fits(k) \in SUBSET Nat
      BY <1>1 DEF Got, Fits
    <2>2. \E j \in Fits(k) : \A m \in Fits(k) : j <= m
      BY <2>1, LeastIn
    <2>3. i \in Fits(k)
      BY <2>2 DEF FirstFit
    <2> HIDE DEF i, k
    <2> QED
      BY <1>1, <2>3 DEF Fits
  <1>4. list' = Split(i, k, n) /\ held' = [held EXCEPT ![t] = @ \cup {<<x.at, n>>}]
    BY DEF Got
  <1>5. CountOK'
    <2>1. TotalBlocks' = (TotalBlocks + 1) % Word
          /\ AllocatedMemory' = (AllocatedMemory + k * CHUNK_SIZE) % Word
      BY DEF Got
    <2>2. TotalBlocks + 1 \in Int /\ AllocatedMemory + k * CHUNK_SIZE \in Int
      <3>1. k * CHUNK_SIZE \in Int
        BY <1>2, MemoryAssumption
      <3> HIDE DEF k
      <3> QED
        BY <3>1, MemoryAssumption DEF CountOK
    <2> HIDE DEF k
    <2> QED
      BY <2>1, <2>2, ModWord DEF CountOK
  <1> HIDE DEF k, i
  <1>6. /\ x \in Blk /\ Tiled(list', 0, MaxChunks) /\ Busy(list') = Busy(list) \cup {x}
        /\ \A c \in Nat : Covers(x, c) => Covers(list[i], c)
    <2>1. /\ x \in Blk /\ Tiled(Split(i, k, n), 0, MaxChunks)
          /\ Busy(Split(i, k, n)) = Busy(list) \cup {x}
          /\ \A c \in Nat : Covers(x, c) => Covers(list[i], c)
      <3> HIDE DEF x
      <3>1. x = [at |-> list[i].at + list[i].Chunks - k, Chunks |-> k, AllocatedSize |-> n]
        BY DEF x
      <3> QED
        BY <1>1, <1>2, <1>3, <3>1, SplitTiled
    <2> QED
      BY <1>4, <2>1
  <1>7. ASSUME NEW y \in Busy(list), NEW c \in Nat, Covers(y, c), Covers(x, c) PROVE FALSE
    <2> HIDE DEF x
    <2>1. PICK j \in 1 .. Len(list) : y = list[j] /\ ~IsFree(list[j])
      BY DEF Busy
    <2>2. Covers(list[i], c) /\ Covers(list[j], c)
      BY <1>6, <1>7, <2>1
    <2>3. i = j
      BY <1>1, <1>3, <2>2, TiledDisjoint
    <2> QED
      BY <1>3, <2>1, <2>3
  <1>8. x.AllocatedSize = n /\ x.Chunks = k
    OBVIOUS
  <1> HIDE DEF x
  <1>9. Allocated(t, n, x)
    BY <1>2, <1>4, <1>6, <1>7, <1>8 DEF Allocated
  <1> QED
    BY <1>5, <1>9

LEMMA FreedReleases ==
  ASSUME ListOK, CountOK, NEW t \in Task, NEW x \in Busy(list), Freed(t, x.at)
  PROVE  CountOK' /\ Released(t, x)
  <1> DEFINE i == Index(x.at)
             y == [x EXCEPT !.AllocatedSize = 0]
             s == [list EXCEPT ![i].AllocatedSize = 0]
             l == SubSeq(list, 1, i - 1)
             r == SubSeq(list, i + 1, Len(list))
  <1>1. Tiled(list, 0, MaxChunks) /\ list \in Seq(Blk) /\ Len(list) \in Nat
    BY DEF ListOK, Tiled
  <1>2. i \in 1 .. Len(list) /\ list[i] = x /\ x \in Blk
    BY BlockIs
  <1>3. list' = EasyMerged(s, i) /\ held' = [held EXCEPT ![t] = {h \in @ : h[1] # x.at}]
    BY DEF Freed
  <1>4. x.at \in Nat /\ x.Chunks \in Nat \ {0} /\ x.AllocatedSize \in Nat
        /\ x = [at |-> x.at, Chunks |-> x.Chunks, AllocatedSize |-> x.AllocatedSize]
    BY <1>2, BlkType
  <1>5. y \in Blk /\ y.at = x.at /\ y.Chunks = x.Chunks /\ IsFree(y)
    <2>1. y = [at |-> x.at, Chunks |-> x.Chunks, AllocatedSize |-> 0]
      BY <1>4
    <2> HIDE DEF y
    <2> QED
      BY <1>4, <2>1 DEF Blk, IsFree
  <1>6. s \in Seq(Blk) /\ Len(s) = Len(list) /\ s[i] = y
        /\ \A j \in 1 .. Len(list) : j # i => s[j] = list[j]
    <2> HIDE DEF i
    <2>1. s = [list EXCEPT ![i] = y]
      BY <1>1, <1>2
    <2> HIDE DEF y, s
    <2> QED
      BY <1>1, <1>2, <1>5, <2>1
  <1> HIDE DEF i, y, s
  <1>7. \A j \in 1 .. Len(list) : s[j].at = list[j].at /\ s[j].Chunks = list[j].Chunks
    BY <1>2, <1>5, <1>6
  <1>8. Tiled(s, 0, MaxChunks)
    <2>1. list # << >> /\ s # << >>
      BY <1>1, <1>2, <1>6
    <2>2. 1 \in 1 .. Len(list) /\ Len(list) \in 1 .. Len(list)
      BY <1>1, <1>2
    <2>3. s[1].at = 0 /\ s[Len(s)].at + s[Len(s)].Chunks = MaxChunks
      BY <1>1, <1>6, <1>7, <2>1, <2>2 DEF Tiled
    <2>4. \A j \in 1 .. Len(s) - 1 : s[j + 1].at = s[j].at + s[j].Chunks
      <3> TAKE j \in 1 .. Len(s) - 1
      <3>1. j \in 1 .. Len(list) - 1 /\ j \in 1 .. Len(list) /\ j + 1 \in 1 .. Len(list)
        BY <1>1, <1>6
      <3>2. list[j + 1].at = list[j].at + list[j].Chunks
        BY <1>1, <3>1 DEF Tiled
      <3> QED
        BY <1>7, <3>1, <3>2
    <2> QED
      BY <1>6, <2>1, <2>3, <2>4 DEF Tiled
  <1>9. Busy(s) = Busy(list) \ {x}
    <2>1. ASSUME NEW z \in Busy(s) PROVE z \in Busy(list) /\ z # x
      <3>1. PICK j \in 1 .. Len(list) : z = s[j] /\ ~IsFree(s[j])
        BY <1>6, <2>1 DEF Busy
      <3>2. j # i
        BY <1>5, <1>6, <3>1
      <3>3. z = list[j] /\ ~IsFree(list[j])
        BY <1>6, <3>1, <3>2
      <3>4. z = x => FALSE
        <4>1. SUFFICES ASSUME z = x PROVE FALSE
          OBVIOUS
        <4>2. Covers(list[i], x.at) /\ Covers(list[j], x.at) /\ x.at \in Nat
          BY <1>2, <3>3, <4>1, OwnAddress
        <4>3. i = j
          BY <1>1, <1>2, <4>2, TiledDisjoint
        <4> QED
          BY <3>2, <4>3
      <3> QED
        BY <3>3, <3>4 DEF Busy
    <2>2. ASSUME NEW z \in Busy(list), z # x PROVE z \in Busy(s)
      <3>1. PICK j \in 1 .. Len(list) : z = list[j] /\ ~IsFree(list[j])
        BY DEF Busy
      <3>2. s[j] = z /\ j \in 1 .. Len(s)
        BY <1>2, <1>6, <2>2, <3>1
      <3> QED
        BY <3>1, <3>2 DEF Busy
    <2> QED
      BY <2>1, <2>2
  <1>10. Tiled(list', 0, MaxChunks) /\ Busy(list') = Busy(s)
    <2>1. i \in 1 .. Len(s)
      BY <1>2, <1>6
    <2> QED
      BY <1>3, <1>8, <2>1, EasyMergedTiled
  <1>11. CountOK'
    <2>1. /\ AllocatedMemory' = Dec(AllocatedMemory, BytesOf(list[i]))
          /\ TotalBlocks' = Dec(TotalBlocks, 1 + Len(list) - Len(list'))
      BY <1>3 DEF Freed, i, s
    <2>2. BytesOf(list[i]) \in Int
      <3>1. x.Chunks * CHUNK_SIZE \in Int
        BY <1>4, MemoryAssumption
      <3> QED
        BY <1>2, <3>1 DEF BytesOf
    <2>3. 1 + Len(list) - Len(list') \in Int
      <3>1. Len(list') \in Nat
        BY <1>10 DEF Tiled
      <3> QED
        BY <1>1, <3>1
    <2>4. AllocatedMemory \in Int /\ TotalBlocks \in Int
      BY DEF CountOK
    <2> QED
      BY <2>1, <2>2, <2>3, <2>4, DecIs DEF CountOK
  <1> QED
    BY <1>3, <1>9, <1>10, <1>11 DEF Released

LEMMA NotGotKeeps ==
  ASSUME ListOK, CountOK, NEW n, NotGot(n)
  PROVE  CountOK' /\ Kept /\ held' = held
  <1>1. Tiled(list, 0, MaxChunks) /\ Len(list) \in Nat
    BY DEF ListOK, Tiled
  <1>2. Tiled(Merged(list), 0, MaxChunks) /\ Busy(Merged(list)) = Busy(list)
    BY <1>1, MergedTiled
  <1>3. Len(Merged(list)) \in Nat
    BY <1>2 DEF Tiled
  <1>4. /\ list' = Merged(list) /\ AllocatedMemory' = AllocatedMemory /\ held' = held
        /\ TotalBlocks' = Dec(TotalBlocks, Len(list) - Len(Merged(list)))
    BY DEF NotGot
  <1>5. Len(list) - Len(Merged(list)) \in Int /\ TotalBlocks \in Int
    BY <1>1, <1>3 DEF CountOK
  <1>6. CountOK'
    BY <1>4, <1>5, DecIs DEF CountOK
  <1> QED
    BY <1>2, <1>4, <1>6 DEF Kept

LEMMA AllocatedHeld ==
  ASSUME ListOK, HeldOK, NEW t \in Task, NEW n \in Size, NEW x, Allocated(t, n, x)
  PROVE  ListOK' /\ HeldOK'
  <1>1. ListOK'
    BY DEF ListOK, Allocated
  <1>2. x \in Blk /\ x.at \in Nat /\ Covers(x, x.at)
    BY OwnAddress DEF Allocated
  <1>3. held' \in [Task -> SUBSET (Nat \X Size)]
        /\ \A u \in Task : held'[u] = IF u = t THEN held[u] \cup {<<x.at, n>>} ELSE held[u]
    <2> DEFINE h == <<x.at, n>>
    <2>1. h \in Nat \X Size
      BY <1>2
    <2>2. held' = [held EXCEPT ![t] = held[t] \cup {h}] /\ held \in [Task -> SUBSET (Nat \X Size)]
      BY DEF HeldOK, Allocated
    <2> HIDE DEF h
    <2>3. held' \in [Task -> SUBSET (Nat \X Size)]
          /\ \A u \in Task : held'[u] = IF u = t THEN held[u] \cup {h} ELSE held[u]
      BY <2>1, <2>2
    <2> QED
      BY <2>3 DEF h
  <1>4. \A u \in Task : \A h \in held[u] : h[1] # x.at
    <2> TAKE u \in Task
    <2> TAKE h \in held[u]
    <2>1. PICK b \in Busy(list) : b.at = h[1]
      BY DEF HeldOK
    <2>2. b \in Blk
      BY BlockIs
    <2>3. b.at \in Nat /\ Covers(b, b.at)
      BY <2>2, OwnAddress
    <2> QED
      BY <1>2, <2>1, <2>3 DEF Allocated
  <1>5. \A u \in Task : \A h \in held'[u] : \E b \in Busy(list') :
           b.at = h[1] /\ h[2] + HEADER_SIZE <= b.Chunks * CHUNK_SIZE
    <2> TAKE u \in Task
    <2> TAKE h \in held'[u]
    <2>1. Busy(list') = Busy(list) \cup {x} /\ n + HEADER_SIZE <= x.Chunks * CHUNK_SIZE
      BY DEF Allocated
    <2>2. CASE h \in held[u]
      <3>1. PICK b \in Busy(list) : b.at = h[1] /\ h[2] + HEADER_SIZE <= b.Chunks * CHUNK_SIZE
        BY <2>2 DEF HeldOK
      <3> QED
        BY <2>1, <3>1
    <2>3. CASE h = <<x.at, n>>
      <3>1. h[1] = x.at /\ h[2] = n
        BY <2>3
      <3>2. x \in Busy(list') /\ x.at = h[1] /\ h[2] + HEADER_SIZE <= x.Chunks * CHUNK_SIZE
        BY <2>1, <3>1
      <3> QED
        BY <3>2
    <2> QED
      BY <1>3, <2>2, <2>3
  <1>6. \A u, v \in Task : \A h \in held'[u], g \in held'[v] : h[1] = g[1] => u = v /\ h = g
    <2> TAKE u, v \in Task
    <2> TAKE h \in held'[u], g \in held'[v]
    <2>1. h \in held[u] \/ (u = t /\ h = <<x.at, n>>)
      BY <1>3
    <2>2. g \in held[v] \/ (v = t /\ g = <<x.at, n>>)
      BY <1>3
    <2>3. h \in held[u] => h[1] # x.at
      BY <1>4
    <2>4. g \in held[v] => g[1] # x.at
      BY <1>4
    <2>5. h \in held[u] /\ g \in held[v] /\ h[1] = g[1] => u = v /\ h = g
      BY DEF HeldOK
    <2>6. <<x.at, n>>[1] = x.at
      OBVIOUS
    <2> QED
      BY <2>1, <2>2, <2>3, <2>4, <2>5, <2>6
  <1> QED
    BY <1>1, <1>3, <1>5, <1>6 DEF HeldOK

LEMMA ReleasedHeld ==
  ASSUME ListOK, HeldOK, NEW t \in Task, NEW x, Released(t, x),
         \E h \in held[t] : h[1] = x.at
  PROVE  ListOK' /\ HeldOK'
  <1>1. ListOK'
    BY DEF ListOK, Released
  <1>2. held' \in [Task -> SUBSET (Nat \X Size)]
        /\ \A u \in Task : held'[u] = IF u = t THEN {h \in held[u] : h[1] # x.at} ELSE held[u]
    BY DEF HeldOK, Released
  <1>3. \A u \in Task : \A h \in held'[u] : h \in held[u] /\ h[1] # x.at
    <2>1. PICK g \in held[t] : g[1] = x.at
      OBVIOUS
    <2> TAKE u \in Task
    <2> TAKE h \in held'[u]
    <2>2. CASE u = t
      BY <1>2, <2>2
    <2>3. CASE u # t
      <3>1. h \in held[u]
        BY <1>2, <2>3
      <3>2. h[1] = g[1] => u = t
        BY <3>1 DEF HeldOK
      <3> QED
        BY <2>1, <2>3, <3>1, <3>2
    <2> QED
      BY <2>2, <2>3
  <1>4. \A u \in Task : \A h \in held'[u] : \E b \in Busy(list') :
           b.at = h[1] /\ h[2] + HEADER_SIZE <= b.Chunks * CHUNK_SIZE
    <2> TAKE u \in Task
    <2> TAKE h \in held'[u]
    <2>1. h \in held[u] /\ h[1] # x.at
      BY <1>3
    <2>2. PICK b \in Busy(list) : b.at = h[1] /\ h[2] + HEADER_SIZE <= b.Chunks * CHUNK_SIZE
      BY <2>1 DEF HeldOK
    <2>3. b \in Busy(list')
      BY <2>1, <2>2 DEF Released
    <2> QED
      BY <2>2, <2>3
  <1>5. \A u, v \in Task : \A h \in held'[u], g \in held'[v] : h[1] = g[1] => u = v /\ h = g
    BY <1>3 DEF HeldOK
  <1> QED
    BY <1>1, <1>2, <1>4, <1>5 DEF HeldOK

-----------------------------------------------------------------------------
(* Each action preserves the invariant *)

(* The calls of the others keep their pointers. *)
LEMMA CallKept ==
  ASSUME CallOK, NEW t \in Task,
         \A u \in Task : u # t => held'[u] = held[u],
         pc' \in [Task -> {"user", "free", "reallocFree", "reallocAlloc"}],
         arg' \in [Task -> (Nat \X (Size \cup {0})) \cup {None}],
         \A u \in Task : u # t => pc'[u] = pc[u] /\ arg'[u] = arg[u],
         pc'[t] \in {"free", "reallocFree"} => \E h \in held'[t] : h[1] = arg'[t][1],
         pc'[t] \in {"reallocFree", "reallocAlloc"} => arg'[t][2] \in Size
  PROVE  CallOK'
  <1>1. ASSUME NEW u \in Task
        PROVE  /\ pc'[u] \in {"free", "reallocFree"} => \E h \in held'[u] : h[1] = arg'[u][1]
               /\ pc'[u] \in {"reallocFree", "reallocAlloc"} => arg'[u][2] \in Size
    <2>1. CASE u = t
      BY <2>1
    <2>2. CASE u # t
      BY <2>2 DEF CallOK
    <2> QED
      BY <2>1, <2>2
  <1> QED
    BY <1>1 DEF CallOK

LEMMA ReturnIs ==
  ASSUME CallOK, NEW t \in Task, Return(t)
  PROVE  /\ pc' \in [Task -> {"user", "free", "reallocFree", "reallocAlloc"}]
         /\ arg' \in [Task -> (Nat \X (Size \cup {0})) \cup {None}]
         /\ \A u \in Task : u # t => pc'[u] = pc[u] /\ arg'[u] = arg[u]
         /\ pc'[t] = "user"
  BY DEF CallOK, Return

LEMMA GotoIs ==
  ASSUME CallOK, NEW t \in Task, NEW label \in {"free", "reallocFree", "reallocAlloc"},
         NEW p \in Nat, NEW n \in Size \cup {0}, Goto(t, label, p, n)
  PROVE  /\ pc' \in [Task -> {"user", "free", "reallocFree", "reallocAlloc"}]
         /\ arg' \in [Task -> (Nat \X (Size \cup {0})) \cup {None}]
         /\ \A u \in Task : u # t => pc'[u] = pc[u] /\ arg'[u] = arg[u]
         /\ pc'[t] = label /\ arg'[t] = <<p, n>> /\ arg'[t][1] = p /\ arg'[t][2] = n
  <1> DEFINE v == <<p, n>>
  <1>1. v \in Nat \X (Size \cup {0}) /\ v[1] = p /\ v[2] = n
    OBVIOUS
  <1>2. arg' = [arg EXCEPT ![t] = v] /\ pc' = [pc EXCEPT ![t] = label]
    BY DEF Goto
  <1> HIDE DEF v
  <1>3. arg' \in [Task -> (Nat \X (Size \cup {0})) \cup {None}] /\ arg'[t] = v
        /\ \A u \in Task : u # t => arg'[u] = arg[u]
    BY <1>1, <1>2 DEF CallOK
  <1>4. pc' \in [Task -> {"user", "free", "reallocFree", "reallocAlloc"}] /\ pc'[t] = label
        /\ \A u \in Task : u # t => pc'[u] = pc[u]
    BY <1>2 DEF CallOK
  <1> QED
    BY <1>1, <1>3, <1>4 DEF v

(* What a step does to the allocated blocks: one is new, one is gone, or   *)
(* they are the same.                                                      *)
PoolStep == \/ \E t \in Task, n \in Size : \E x : Allocated(t, n, x)
            \/ \E t \in Task : \E x : Released(t, x)
            \/ Kept

LEMMA GotStep ==
  ASSUME ListOK, HeldOK, CountOK, NEW t \in Task, NEW n \in Size, Got(t, n) \/ NotGot(n)
  PROVE  /\ ListOK' /\ HeldOK' /\ CountOK' /\ PoolStep
         /\ \A u \in Task : u # t => held'[u] = held[u]
         /\ \A h \in held[t] : h \in held'[t]
  <1>1. CASE Got(t, n)
    <2>1. CountOK' /\ \E x : Allocated(t, n, x)
      BY <1>1, GotAllocates
    <2>2. PICK x : Allocated(t, n, x)
      BY <2>1
    <2>3. ListOK' /\ HeldOK'
      BY <2>2, AllocatedHeld
    <2>4. held' = [held EXCEPT ![t] = @ \cup {<<x.at, n>>}] /\ held \in [Task -> SUBSET (Nat \X Size)]
      BY <2>2 DEF Allocated, HeldOK
    <2> QED
      BY <2>1, <2>2, <2>3, <2>4 DEF PoolStep
  <1>2. CASE NotGot(n)
    <2>1. CountOK' /\ Kept /\ held' = held
      BY <1>2, NotGotKeeps
    <2>2. ListOK' /\ HeldOK'
      BY <2>1 DEF ListOK, HeldOK, Kept
    <2> QED
      BY <2>1, <2>2 DEF PoolStep
  <1> QED
    BY <1>1, <1>2

LEMMA FreedStep ==
  ASSUME ListOK, HeldOK, CountOK, NEW t \in Task, NEW p,
         \E h \in held[t] : h[1] = p, Freed(t, p)
  PROVE  /\ ListOK' /\ HeldOK' /\ CountOK' /\ PoolStep
         /\ \A u \in Task : u # t => held'[u] = held[u]
  <1>1. PICK x \in Busy(list) : x.at = p
    BY DEF HeldOK
  <1>2. CountOK' /\ Released(t, x)
    BY <1>1, FreedReleases
  <1>3. ListOK' /\ HeldOK'
    BY <1>1, <1>2, ReleasedHeld
  <1>4. held' = [held EXCEPT ![t] = {h \in @ : h[1] # x.at}] /\ held \in [Task -> SUBSET (Nat \X Size)]
    BY <1>2 DEF Released, HeldOK
  <1> QED
    BY <1>2, <1>3, <1>4 DEF PoolStep

LEMMA AllocMemoryStep ==
  ASSUME IInv, NEW t \in Task, NEW n \in Size, AllocMemory(t, n)
  PROVE  IInv' /\ PoolStep
  <1>1. /\ ListOK' /\ HeldOK' /\ CountOK' /\ PoolStep
        /\ \A u \in Task : u # t => held'[u] = held[u]
        /\ \A h \in held[t] : h \in held'[t]
    BY GotStep DEF AllocMemory, IInv
  <1>2. pc[t] = "user" /\ pc' = pc /\ arg' = arg
    BY DEF AllocMemory
  <1>3. CallOK'
    BY <1>1, <1>2, CallKept DEF IInv, CallOK
  <1> QED
    BY <1>1, <1>3 DEF IInv

LEMMA FreeCheckStep ==
  ASSUME IInv, NEW t \in Task, NEW p \in Pointers(t), FreeCheck(t, p)
  PROVE  IInv' /\ PoolStep
  <1>1. list' = list /\ held' = held /\ AllocatedMemory' = AllocatedMemory
        /\ TotalBlocks' = TotalBlocks /\ Goto(t, "free", p, 0)
    BY DEF FreeCheck
  <1>2. PICK h \in held[t] : h[1] = p
    BY DEF Pointers
  <1>3. p \in Nat
    BY <1>2 DEF IInv, HeldOK
  <1>4. /\ pc' \in [Task -> {"user", "free", "reallocFree", "reallocAlloc"}]
        /\ arg' \in [Task -> (Nat \X (Size \cup {0})) \cup {None}]
        /\ \A u \in Task : u # t => pc'[u] = pc[u] /\ arg'[u] = arg[u]
        /\ pc'[t] = "free" /\ arg'[t][1] = p
    BY <1>1, <1>3, GotoIs DEF IInv
  <1>5. CallOK'
    BY <1>1, <1>2, <1>4, CallKept DEF IInv
  <1>6. ListOK' /\ HeldOK' /\ CountOK' /\ Kept
    BY <1>1 DEF IInv, ListOK, HeldOK, CountOK, Kept
  <1> QED
    BY <1>5, <1>6 DEF IInv, PoolStep

LEMMA FreeMemoryStep ==
  ASSUME IInv, NEW t \in Task, FreeMemory(t)
  PROVE  IInv' /\ PoolStep
  <1>1. \E h \in held[t] : h[1] = arg[t][1]
    BY DEF FreeMemory, IInv, CallOK
  <1>2. Freed(t, arg[t][1]) /\ Return(t)
    BY DEF FreeMemory
  <1>3. /\ ListOK' /\ HeldOK' /\ CountOK' /\ PoolStep
        /\ \A u \in Task : u # t => held'[u] = held[u]
    BY <1>1, <1>2, FreedStep DEF IInv
  <1>4. CallOK'
    BY <1>2, <1>3, ReturnIs, CallKept DEF IInv
  <1> QED
    BY <1>3, <1>4 DEF IInv

LEMMA ReallocFreeStep ==
  ASSUME IInv, NEW t \in Task, ReallocFree(t)
  PROVE  IInv' /\ PoolStep
  <1>1. (\E h \in held[t] : h[1] = arg[t][1]) /\ arg[t][2] \in Size
    BY DEF ReallocFree, IInv, CallOK
  <1>2. Freed(t, arg[t][1]) /\ Goto(t, "reallocAlloc", arg[t][1], arg[t][2])
    BY DEF ReallocFree
  <1>3. /\ ListOK' /\ HeldOK' /\ CountOK' /\ PoolStep
        /\ \A u \in Task : u # t => held'[u] = held[u]
    BY <1>1, <1>2, FreedStep DEF IInv
  <1>4. arg[t][1] \in Nat
    BY <1>1 DEF IInv, HeldOK
  <1>5. /\ pc' \in [Task -> {"user", "free", "reallocFree", "reallocAlloc"}]
        /\ arg' \in [Task -> (Nat \X (Size \cup {0})) \cup {None}]
        /\ \A u \in Task : u # t => pc'[u] = pc[u] /\ arg'[u] = arg[u]
        /\ pc'[t] = "reallocAlloc" /\ arg'[t][2] = arg[t][2]
    BY <1>1, <1>2, <1>4, GotoIs DEF IInv
  <1>6. CallOK'
    BY <1>1, <1>3, <1>5, CallKept DEF IInv
  <1> QED
    BY <1>3, <1>6 DEF IInv

LEMMA ReallocAllocStep ==
  ASSUME IInv, NEW t \in Task, ReallocAlloc(t)
  PROVE  IInv' /\ PoolStep
  <1>1. arg[t][2] \in Size
    BY DEF ReallocAlloc, IInv, CallOK
  <1>2. (Got(t, arg[t][2]) \/ NotGot(arg[t][2])) /\ Return(t)
    BY DEF ReallocAlloc
  <1>3. /\ ListOK' /\ HeldOK' /\ CountOK' /\ PoolStep
        /\ \A u \in Task : u # t => held'[u] = held[u]
    BY <1>1, <1>2, GotStep DEF IInv
  <1>4. CallOK'
    BY <1>2, <1>3, ReturnIs, CallKept DEF IInv
  <1> QED
    BY <1>3, <1>4 DEF IInv

(* A reallocation in place: the pointer stays, with its new size. *)
LEMMA InPlaceHeld ==
  ASSUME ListOK, HeldOK, NEW t \in Task, NEW p \in Pointers(t), NEW n \in Size,
         InPlace(Block(p), n), list' = list,
         held' = [held EXCEPT ![t] = {h \in @ : h[1] # p} \cup {<<p, n>>}]
  PROVE  HeldOK' /\ \A u \in Task : u # t => held'[u] = held[u]
  <1> DEFINE g == <<p, n>>
  <1>1. PICK o \in held[t] : o[1] = p
    BY DEF Pointers
  <1>2. p \in Nat
    BY <1>1 DEF HeldOK
  <1>3. g \in Nat \X Size /\ g[1] = p /\ g[2] = n
    BY <1>2
  <1>4. held' = [held EXCEPT ![t] = {h \in held[t] : h[1] # p} \cup {g}]
        /\ held \in [Task -> SUBSET (Nat \X Size)]
    BY DEF HeldOK
  <1> HIDE DEF g
  <1>5. held' \in [Task -> SUBSET (Nat \X Size)]
        /\ held'[t] = {h \in held[t] : h[1] # p} \cup {g}
        /\ \A u \in Task : u # t => held'[u] = held[u]
    BY <1>3, <1>4
  <1>6. PICK b \in Busy(list) : b.at = p
    BY <1>1 DEF HeldOK
  <1>7. n + HEADER_SIZE <= b.Chunks * CHUNK_SIZE
    <2>1. Block(p) = b /\ b \in Blk
      BY <1>6, BlockIs
    <2>2. b.Chunks * CHUNK_SIZE \in Int
      <3>1. b.Chunks \in Nat
        BY <2>1, BlkType
      <3> QED
        BY <3>1, MemoryAssumption
    <2>3. n <= b.Chunks * CHUNK_SIZE - HEADER_SIZE
      BY <2>1 DEF InPlace
    <2>4. n \in Nat /\ HEADER_SIZE \in Nat
      BY SizeIs, MemoryAssumption
    <2> DEFINE z == b.Chunks * CHUNK_SIZE
    <2> HIDE DEF z
    <2>5. n + HEADER_SIZE <= z
      BY <2>2, <2>3, <2>4 DEF z
    <2> QED
      BY <2>5 DEF z
  <1>8. \A u \in Task : \A h \in held'[u] : \E x \in Busy(list') :
           x.at = h[1] /\ h[2] + HEADER_SIZE <= x.Chunks * CHUNK_SIZE
    <2> TAKE u \in Task
    <2> TAKE h \in held'[u]
    <2>1. CASE h \in held[u]
      BY <2>1 DEF HeldOK
    <2>2. CASE h = g
      BY <1>3, <1>6, <1>7, <2>2
    <2> QED
      BY <1>5, <2>1, <2>2
  <1>9. \A u, v \in Task : \A h \in held'[u], k \in held'[v] : h[1] = k[1] => u = v /\ h = k
    <2> TAKE u, v \in Task
    <2> TAKE h \in held'[u], k \in held'[v]
    <2>1. (h \in held[u] /\ (u = t => h[1] # p)) \/ (u = t /\ h = g)
      BY <1>5
    <2>2. (k \in held[v] /\ (v = t => k[1] # p)) \/ (v = t /\ k = g)
      BY <1>5
    <2>3. h \in held[u] /\ h[1] = p => u = t
      BY <1>1 DEF HeldOK
    <2>4. k \in held[v] /\ k[1] = p => v = t
      BY <1>1 DEF HeldOK
    <2>5. h \in held[u] /\ k \in held[v] /\ h[1] = k[1] => u = v /\ h = k
      BY DEF HeldOK
    <2> QED
      BY <1>3, <2>1, <2>2, <2>3, <2>4, <2>5
  <1> QED
    BY <1>5, <1>8, <1>9 DEF HeldOK

LEMMA ReallocMemoryStep ==
  ASSUME IInv, NEW t \in Task, NEW p \in Pointers(t), NEW n \in Size, ReallocMemory(t, p, n)
  PROVE  IInv' /\ PoolStep
  <1>1. list' = list /\ AllocatedMemory' = AllocatedMemory /\ TotalBlocks' = TotalBlocks
        /\ pc[t] = "user"
    BY DEF ReallocMemory
  <1>2. ListOK' /\ CountOK' /\ Kept
    BY <1>1 DEF IInv, ListOK, CountOK, Kept
  <1>3. CASE InPlace(Block(p), n) /\ pc' = pc /\ arg' = arg
             /\ held' = [held EXCEPT ![t] = {h \in @ : h[1] # p} \cup {<<p, n>>}]
    <2>1. HeldOK' /\ \A u \in Task : u # t => held'[u] = held[u]
      BY <1>1, <1>3, InPlaceHeld DEF IInv
    <2>2. CallOK'
      BY <1>1, <1>3, <2>1, CallKept DEF IInv, CallOK
    <2> QED
      BY <1>2, <2>1, <2>2 DEF IInv, PoolStep
  <1>4. CASE Goto(t, "reallocFree", p, n) /\ held' = held
    <2>1. PICK h \in held[t] : h[1] = p
      BY DEF Pointers
    <2>2. p \in Nat
      BY <2>1 DEF IInv, HeldOK
    <2>3. /\ pc' \in [Task -> {"user", "free", "reallocFree", "reallocAlloc"}]
          /\ arg' \in [Task -> (Nat \X (Size \cup {0})) \cup {None}]
          /\ \A u \in Task : u # t => pc'[u] = pc[u] /\ arg'[u] = arg[u]
          /\ pc'[t] = "reallocFree" /\ arg'[t][1] = p /\ arg'[t][2] = n
      BY <1>4, <2>2, GotoIs DEF IInv
    <2>4. CallOK'
      BY <1>4, <2>1, <2>3, CallKept DEF IInv
    <2>5. HeldOK'
      BY <1>1, <1>4 DEF IInv, HeldOK
    <2> QED
      BY <1>2, <2>4, <2>5 DEF IInv, PoolStep
  <1> QED
    BY <1>3, <1>4 DEF ReallocMemory

LEMMA InitInv == Init => IInv
  <1> SUFFICES ASSUME Init PROVE IInv
    OBVIOUS
  <1> DEFINE b == [at |-> 0, Chunks |-> MaxChunks, AllocatedSize |-> 0]
  <1>1. b \in Blk /\ IsFree(b) /\ b.at = 0 /\ b.Chunks = MaxChunks
    BY MemoryAssumption DEF Blk, IsFree
  <1>2. list = <<b>>
    BY DEF Init
  <1> HIDE DEF b
  <1>3. Len(list) = 1 /\ list[1] = b /\ list \in Seq(Blk) /\ list # << >>
    BY <1>1, <1>2
  <1>4. Tiled(list, 0, MaxChunks)
    BY <1>1, <1>3, MemoryAssumption DEF Tiled
  <1>5. Busy(list) = {}
    BY <1>1, <1>3 DEF Busy
  <1>6. ListOK
    BY <1>4, <1>5 DEF ListOK
  <1>7. HeldOK
    BY DEF Init, HeldOK
  <1>8. CallOK
    BY DEF Init, CallOK
  <1>9. CountOK
    <2>1. Word \in Nat /\ Word > 1
      BY MemoryAssumption
    <2> QED
      BY <2>1 DEF Init, CountOK
  <1> QED
    BY <1>6, <1>7, <1>8, <1>9 DEF IInv

LEMMA NextStep ==
  ASSUME IInv, [Next]_vars
  PROVE  IInv' /\ PoolStep
  <1>1. CASE Next
    <2> PICK t \in Task :
          \/ FreeMemory(t) \/ ReallocFree(t) \/ ReallocAlloc(t)
          \/ \E n \in Size : AllocMemory(t, n)
          \/ \E p \in Pointers(t) : FreeCheck(t, p) \/ \E n \in Size : ReallocMemory(t, p, n)
      BY <1>1 DEF Next
    <2>1. CASE FreeMemory(t)
      BY <2>1, FreeMemoryStep
    <2>2. CASE ReallocFree(t)
      BY <2>2, ReallocFreeStep
    <2>3. CASE ReallocAlloc(t)
      BY <2>3, ReallocAllocStep
    <2>4. ASSUME NEW n \in Size, AllocMemory(t, n) PROVE IInv' /\ PoolStep
      BY <2>4, AllocMemoryStep
    <2>5. ASSUME NEW p \in Pointers(t), FreeCheck(t, p) PROVE IInv' /\ PoolStep
      BY <2>5, FreeCheckStep
    <2>6. ASSUME NEW p \in Pointers(t), NEW n \in Size, ReallocMemory(t, p, n)
          PROVE  IInv' /\ PoolStep
      BY <2>6, ReallocMemoryStep
    <2> QED
      BY <2>1, <2>2, <2>3, <2>4, <2>5, <2>6
  <1>2. CASE UNCHANGED vars
    BY <1>2 DEF vars, IInv, ListOK, HeldOK, CallOK, CountOK, PoolStep, Kept
  <1> QED
    BY <1>1, <1>2

-----------------------------------------------------------------------------
(* The list as a pool *)

AllocationOf(s) ==
  [c \in 0 .. MaxChunks - 1 |->
     LET b == CHOOSE b \in Range(s) : b.at <= c /\ c < b.at + b.Chunks
     IN  IF IsFree(b) THEN None ELSE b.at]

LEMMA AllocationOfIs ==
  ASSUME NEW s, Tiled(s, 0, MaxChunks), NEW c \in 0 .. MaxChunks - 1
  PROVE  /\ \A x \in Busy(s) : Covers(x, c) => AllocationOf(s)[c] = x.at
         /\ (\A x \in Busy(s) : ~Covers(x, c)) => AllocationOf(s)[c] = None
  <1> DEFINE b == CHOOSE b \in Range(s) : b.at <= c /\ c < b.at + b.Chunks
  <1>1. DOMAIN s = 1 .. Len(s) /\ c \in Nat
    BY MemoryAssumption DEF Tiled
  <1>2. \E i \in 1 .. Len(s) : Covers(s[i], c)
    BY TiledCovers
  <1>3. \E y \in Range(s) : y.at <= c /\ c < y.at + y.Chunks
    BY <1>1, <1>2 DEF Range, Covers
  <1>4. b \in Range(s) /\ b.at <= c /\ c < b.at + b.Chunks
    BY <1>3
  <1>5. AllocationOf(s)[c] = IF IsFree(b) THEN None ELSE b.at
    BY DEF AllocationOf
  <1> HIDE DEF b
  <1>6. PICK i \in 1 .. Len(s) : b = s[i]
    BY <1>1, <1>4 DEF Range
  <1>7. Covers(s[i], c)
    BY <1>4, <1>6 DEF Covers
  <1>8. ASSUME NEW x \in Busy(s), Covers(x, c) PROVE AllocationOf(s)[c] = x.at
    <2>1. PICK j \in 1 .. Len(s) : x = s[j] /\ ~IsFree(s[j])
      BY DEF Busy
    <2>2. i = j
      BY <1>1, <1>7, <1>8, <2>1, TiledDisjoint
    <2> QED
      BY <1>5, <1>6, <2>1, <2>2
  <1>9. ASSUME \A x \in Busy(s) : ~Covers(x, c) PROVE AllocationOf(s)[c] = None
    <2>1. IsFree(b)
      BY <1>6, <1>7, <1>9 DEF Busy
    <2> QED
      BY <1>5, <2>1
  <1> QED
    BY <1>8, <1>9

LEMMA AllocationIs ==
  /\ Allocation = AllocationOf(list) /\ Allocation' = AllocationOf(list')
  /\ DOMAIN Allocation = 0 .. MaxChunks - 1
  BY DEF Allocation, AllocationOf, IsFree

(* An allocated block keeps to the memory. *)
LEMMA BlockBounds ==
  ASSUME NEW s, Tiled(s, 0, MaxChunks), NEW x \in Busy(s)
  PROVE  /\ x \in Blk /\ x.at \in 0 .. MaxChunks - 1 /\ x.at + x.Chunks - 1 \in 0 .. MaxChunks - 1
         /\ x.at <= x.at + x.Chunks - 1
         /\ \A c \in 0 .. MaxChunks - 1 : Covers(x, c) <=> c \in x.at .. x.at + x.Chunks - 1
  <1>1. PICK i \in 1 .. Len(s) : x = s[i]
    BY DEF Busy
  <1>2. x \in Blk /\ x.at + x.Chunks <= MaxChunks
    BY <1>1, TiledOrder
  <1>3. x.at \in Nat /\ x.Chunks \in Nat \ {0} /\ MaxChunks \in Nat \ {0}
    BY <1>2, BlkType, MemoryAssumption
  <1> QED
    BY <1>2, <1>3 DEF Covers

LEMMA AllocatesInPool ==
  ASSUME ListOK, NEW t \in Task, NEW n \in Size, NEW x, Allocated(t, n, x)
  PROVE  Pool!Next
  <1> DEFINE p == x.at
             q == x.at + x.Chunks - 1
             C == 0 .. MaxChunks - 1
  <1>1. Tiled(list, 0, MaxChunks) /\ Tiled(list', 0, MaxChunks)
        /\ Busy(list') = Busy(list) \cup {x}
    BY DEF ListOK, Allocated
  <1>2. /\ p \in C /\ q \in C /\ p <= q
        /\ \A c \in C : Covers(x, c) <=> c \in p .. q
    BY <1>1, BlockBounds
  <1>3. \A c \in C : c \in Nat
    BY MemoryAssumption
  <1>4. \A c \in C : c \in p .. q => \A y \in Busy(list) : ~Covers(y, c)
    BY <1>2, <1>3 DEF Allocated
  <1> HIDE DEF p, q
  <1>5. \A c \in p .. q : c \in C
    BY <1>2, MemoryAssumption
  <1>6. \A c \in p .. q : Allocation[c] = None
    BY <1>1, <1>4, <1>5, AllocationOfIs, AllocationIs
  <1>7. \A c \in C : Allocation'[c] = IF c \in p .. q THEN p ELSE Allocation[c]
    <2> TAKE c \in C
    <2>1. CASE c \in p .. q
      <3>1. x \in Busy(list') /\ Covers(x, c)
        BY <1>1, <1>2, <2>1
      <3>2. AllocationOf(list')[c] = x.at
        BY <1>1, <3>1, AllocationOfIs
      <3> QED
        BY <2>1, <3>2, AllocationIs DEF p
    <2>2. CASE c \notin p .. q
      <3>1. ~Covers(x, c)
        BY <1>2, <2>2
      <3>2. CASE \E y \in Busy(list) : Covers(y, c)
        <4>1. PICK y \in Busy(list) : Covers(y, c)
          BY <3>2
        <4>2. AllocationOf(list)[c] = y.at /\ AllocationOf(list')[c] = y.at
          BY <1>1, <4>1, AllocationOfIs
        <4> QED
          BY <2>2, <4>2, AllocationIs
      <3>3. CASE \A y \in Busy(list) : ~Covers(y, c)
        <4>1. \A y \in Busy(list') : ~Covers(y, c)
          BY <1>1, <3>1, <3>3
        <4>2. AllocationOf(list)[c] = None /\ AllocationOf(list')[c] = None
          BY <1>1, <3>3, <4>1, AllocationOfIs
        <4> QED
          BY <2>2, <4>2, AllocationIs
      <3> QED
        BY <3>2, <3>3
    <2> QED
      BY <2>1, <2>2
  <1>8. Allocation' = [c \in C |-> Allocation'[c]]
    BY AllocationIs DEF AllocationOf
  <1>9. Allocation' = [c \in C |-> IF c \in p .. q THEN p ELSE Allocation[c]]
    BY <1>7, <1>8
  <1>10. Pool!Allocate(p, q)
    BY <1>2, <1>6, <1>9 DEF Pool!Allocate
  <1> QED
    BY <1>2, <1>10 DEF Pool!Next

LEMMA ReleasesInPool ==
  ASSUME ListOK, NEW t \in Task, NEW x, Released(t, x)
  PROVE  Pool!Next
  <1> DEFINE p == x.at
             C == 0 .. MaxChunks - 1
  <1>1. Tiled(list, 0, MaxChunks) /\ Tiled(list', 0, MaxChunks)
        /\ x \in Busy(list) /\ Busy(list') = Busy(list) \ {x}
    BY DEF ListOK, Released
  <1>2. p \in C /\ x \in Blk /\ Covers(x, p)
    BY <1>1, BlockBounds, OwnAddress
  <1>3. Allocation[p] = p
    BY <1>1, <1>2, AllocationOfIs, AllocationIs
  <1>4. \A c \in C : Allocation'[c] = IF Allocation[c] = p THEN None ELSE Allocation[c]
    <2> TAKE c \in C
    <2>0. c \in Nat /\ p \in Nat
      BY <1>2, MemoryAssumption
    <2>1. CASE Covers(x, c)
      <3>1. Allocation[c] = p
        BY <1>1, <2>1, AllocationOfIs, AllocationIs
      <3>2. \A y \in Busy(list') : ~Covers(y, c)
        BY <1>1, <2>0, <2>1, BusyDisjoint
      <3>3. Allocation'[c] = None
        BY <1>1, <3>2, AllocationOfIs, AllocationIs
      <3> QED
        BY <3>1, <3>3
    <2>2. CASE ~Covers(x, c) /\ \E y \in Busy(list) : Covers(y, c)
      <3>1. PICK y \in Busy(list) : Covers(y, c)
        BY <2>2
      <3>2. y \in Busy(list') /\ y # x
        BY <1>1, <2>2, <3>1
      <3>3. AllocationOf(list)[c] = y.at /\ AllocationOf(list')[c] = y.at
        BY <1>1, <3>1, <3>2, AllocationOfIs
      <3>4. y.at # p
        <4>1. SUFFICES ASSUME y.at = p PROVE FALSE
          OBVIOUS
        <4>2. y \in Blk
          BY <1>1, BlockBounds
        <4>3. Covers(y, p)
          BY <4>1, <4>2, OwnAddress
        <4> QED
          BY <1>1, <1>2, <2>0, <3>2, <4>3, BusyDisjoint
      <3> QED
        BY <3>3, <3>4, AllocationIs
    <2>3. CASE \A y \in Busy(list) : ~Covers(y, c)
      <3>1. \A y \in Busy(list') : ~Covers(y, c)
        BY <1>1, <2>3
      <3>2. AllocationOf(list)[c] = None /\ AllocationOf(list')[c] = None
        BY <1>1, <2>3, <3>1, AllocationOfIs
      <3> QED
        BY <3>2, AllocationIs
    <2> QED
      BY <2>1, <2>2, <2>3
  <1> HIDE DEF p
  <1>5. Allocation' = [c \in C |-> Allocation'[c]]
    BY AllocationIs DEF AllocationOf
  <1>6. Allocation' = [c \in C |-> IF Allocation[c] = p THEN None ELSE Allocation[c]]
    BY <1>4, <1>5
  <1>7. Pool!Free(p)
    BY <1>3, <1>6 DEF Pool!Free
  <1> QED
    BY <1>2, <1>7 DEF Pool!Next

LEMMA KeptInPool ==
  ASSUME ListOK, Kept
  PROVE  Allocation' = Allocation
  <1> DEFINE C == 0 .. MaxChunks - 1
  <1>1. Tiled(list, 0, MaxChunks) /\ Tiled(list', 0, MaxChunks) /\ Busy(list') = Busy(list)
    BY DEF ListOK, Kept
  <1>2. \A c \in C : AllocationOf(list')[c] = AllocationOf(list)[c]
    <2> TAKE c \in C
    <2>1. CASE \E y \in Busy(list) : Covers(y, c)
      BY <1>1, <2>1, AllocationOfIs
    <2>2. CASE \A y \in Busy(list) : ~Covers(y, c)
      BY <1>1, <2>2, AllocationOfIs
    <2> QED
      BY <2>1, <2>2
  <1>3. AllocationOf(list') = [c \in C |-> AllocationOf(list')[c]]
        /\ AllocationOf(list) = [c \in C |-> AllocationOf(list)[c]]
    BY DEF AllocationOf
  <1>4. AllocationOf(list') = AllocationOf(list)
    BY <1>2, <1>3
  <1> QED
    BY <1>4, AllocationIs

LEMMA InitInPool == Init => Pool!Init
  <1> SUFFICES ASSUME Init PROVE Pool!Init
    OBVIOUS
  <1> DEFINE C == 0 .. MaxChunks - 1
             b == [at |-> 0, Chunks |-> MaxChunks, AllocatedSize |-> 0]
  <1>1. Tiled(list, 0, MaxChunks)
    BY InitInv DEF IInv, ListOK
  <1>2. Busy(list) = {}
    <2>1. list = <<b>> /\ IsFree(b)
      BY DEF Init, IsFree
    <2> HIDE DEF b
    <2>2. Len(list) = 1 /\ list[1] = b
      BY <2>1
    <2> QED
      BY <2>1, <2>2 DEF Busy
  <1>3. \A c \in C : AllocationOf(list)[c] = None
    BY <1>1, <1>2, AllocationOfIs
  <1>4. AllocationOf(list) = [c \in C |-> AllocationOf(list)[c]]
    BY DEF AllocationOf
  <1>5. Allocation = [c \in C |-> None]
    BY <1>3, <1>4, AllocationIs
  <1> QED
    BY <1>5 DEF Pool!Init

-----------------------------------------------------------------------------
(* The theorems *)

LEMMA InvRoom == IInv => RoomForRequest
  <1> SUFFICES ASSUME IInv PROVE RoomForRequest
    OBVIOUS
  <1>1. Tiled(list, 0, MaxChunks) /\ list \in Seq(Blk) /\ Len(list) \in Nat
    BY DEF IInv, ListOK, Tiled
  <1> DEFINE R == [at : 0 .. MaxChunks - 1, Chunks : 1 .. MaxChunks, AllocatedSize : Size \cup {0}]
  <1>2. \A i \in 1 .. Len(list) : list[i] \in R
    <2> TAKE i \in 1 .. Len(list)
    <2>1. list[i] \in Blk /\ list[i].at + list[i].Chunks <= MaxChunks
      BY <1>1, TiledOrder
    <2>2. list[i].at \in Nat /\ list[i].Chunks \in Nat \ {0} /\ MaxChunks \in Nat
          /\ list[i] = [at |-> list[i].at, Chunks |-> list[i].Chunks,
                        AllocatedSize |-> list[i].AllocatedSize]
      BY <2>1, BlkType, MemoryAssumption
    <2>3. list[i].at \in 0 .. MaxChunks - 1 /\ list[i].Chunks \in 1 .. MaxChunks
      BY <2>1, <2>2
    <2>4. list[i].AllocatedSize \in Size \cup {0}
      <3>1. CASE IsFree(list[i])
        BY <3>1 DEF IsFree
      <3>2. CASE ~IsFree(list[i])
        <4>1. list[i] \in Busy(list)
          BY <3>2 DEF Busy
        <4> QED
          BY <4>1 DEF IInv, ListOK
      <3> QED
        BY <3>1, <3>2
    <2> QED
      BY <2>2, <2>3, <2>4
  <1>3. list \in Seq(R)
    <2> HIDE DEF R
    <2> QED
      BY <1>1, <1>2
  <1>4. ASSUME NEW t \in Task, NEW h \in held[t]
        PROVE  /\ h \in (0 .. MaxChunks - 1) \X Size
               /\ h[2] + HEADER_SIZE <= Block(h[1]).Chunks * CHUNK_SIZE
    <2>1. PICK b \in Busy(list) : b.at = h[1] /\ h[2] + HEADER_SIZE <= b.Chunks * CHUNK_SIZE
      BY DEF IInv, HeldOK
    <2>2. b.at \in 0 .. MaxChunks - 1 /\ Block(b.at) = b
      BY <1>1, BlockBounds, BlockIs DEF IInv
    <2>3. h \in Nat \X Size
      BY DEF IInv, HeldOK
    <2> QED
      BY <2>1, <2>2, <2>3
  <1>5. held \in [Task -> SUBSET ((0 .. MaxChunks - 1) \X Size)]
    <2>1. \A t \in Task : held[t] \in SUBSET ((0 .. MaxChunks - 1) \X Size)
      BY <1>4
    <2>2. held \in [Task -> SUBSET (Nat \X Size)]
      BY DEF IInv, HeldOK
    <2> DEFINE H == SUBSET ((0 .. MaxChunks - 1) \X Size)
    <2> HIDE DEF H
    <2> QED
      BY <2>1, <2>2 DEF H
  <1>6. TypeOK
    BY <1>3, <1>5 DEF TypeOK, IInv, CountOK, CallOK
  <1> QED
    BY <1>4, <1>6 DEF RoomForRequest

(* The list covers the memory without a gap, every pointer that was given  *)
(* out has one allocated block and one owner, and who is inside a free or  *)
(* a realloc holds the pointer it frees.                                   *)
THEOREM AllocatorInvariant == Spec => []IInv
  <1>1. IInv /\ [Next]_vars => IInv'
    BY NextStep
  <1> QED
    BY <1>1, InitInv, PTL DEF Spec

(* malloc and realloc (memory.c AllocMemory, ReallocMemory): behind its    *)
(* header, the block of every pointer has the bytes that were asked for.   *)
THEOREM EveryRequestHasRoom == Spec => []RoomForRequest
  BY AllocatorInvariant, InvRoom, PTL

(* memory.c: whatever is split or merged, an allocation takes chunks that  *)
(* nobody has, and keeps them all until it is freed.                       *)
THEOREM AllocatorImplementsPool == Spec => ImplementsPool
  <1>1. IInv /\ [Next]_vars => [Pool!Next]_Allocation
    <2> SUFFICES ASSUME IInv, [Next]_vars PROVE [Pool!Next]_Allocation
      OBVIOUS
    <2>1. PoolStep /\ ListOK
      BY NextStep DEF IInv
    <2> QED
      BY <2>1, AllocatesInPool, ReleasesInPool, KeptInPool DEF PoolStep
  <1> QED
    BY <1>1, InitInPool, AllocatorInvariant, PTL DEF Spec, ImplementsPool, Pool!Spec
=============================================================================
