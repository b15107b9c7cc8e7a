-------------------------- MODULE SysTimeouts_proofs --------------------------
(***************************************************************************)
(* Proofs about the timeouts of lwIP, for any number of threads, any       *)
(* intervals and any interleaving of messages, signals and ticks.          *)
(*                                                                         *)
(* The first half is about the lists: what sys_timeout, sys_untimeout and  *)
(* the removal of the head do to the handlers in a list and to the sums of *)
(* its relative times.  The sums are defined by recursion; what is proved  *)
(* of them rests on SetInduction, the least counterexample in the place of *)
(* an induction.                                                           *)
(***************************************************************************)
EXTENDS SysTimeouts, FiniteSetTheorems, TLAPS

-----------------------------------------------------------------------------
(* Natural numbers and finite sets of them *)

LEMMA SetInduction ==
  ASSUME NEW S, 0 \in S, \A n \in Nat : n \in S => n + 1 \in S
  PROVE  Nat \subseteq S
  <1> SUFFICES ASSUME Nat \ S # {} PROVE FALSE
    OBVIOUS
  <1>1. PICK n \in Nat \ S : \A k \in Nat \ S : <<k, n>> \notin OpToRel(<, Nat)
    BY WFMin, NatLessThanWellFounded
  <1>2. \A k \in Nat : k < n => k \in S
    BY <1>1 DEF OpToRel
  <1>3. n # 0
    OBVIOUS
  <1>4. n - 1 \in Nat /\ n - 1 < n /\ (n - 1) + 1 = n
    BY <1>3
  <1> QED
    BY <1>2, <1>4

LEMMA MinIn ==
  ASSUME NEW S \in SUBSET Nat, S # {}
  PROVE  Min(S) \in S /\ \A y \in S : Min(S) <= y
  <1>1. PICK n \in S : \A k \in S : <<k, n>> \notin OpToRel(<, Nat)
    BY WFMin, NatLessThanWellFounded
  <1>2. \A k \in S : k \in Nat /\ n \in Nat /\ ~(k < n)
    BY <1>1 DEF OpToRel
  <1>3. \A k \in S : n <= k
    BY <1>2
  <1> QED
    BY <1>3 DEF Min

(* A finite set of naturals has a greatest element. *)
LEMMA MaxIn ==
  ASSUME NEW S \in SUBSET Nat, S # {}, IsFiniteSet(S)
  PROVE  Max(S) \in S /\ \A y \in S : Max(S) >= y
  <1> DEFINE Above(T) == {x \in Nat : \A y \in T : x >= y}
             Bounded == {n \in Nat : \A T \in SUBSET Nat :
                           (IsFiniteSet(T) /\ Cardinality(T) = n) => \E x \in Nat : \A y \in T : x >= y}
  <1>1. 0 \in Bounded
    BY FS_EmptySet
  <1>2. ASSUME NEW n \in Nat, n \in Bounded PROVE n + 1 \in Bounded
    <2> SUFFICES ASSUME NEW T \in SUBSET Nat, IsFiniteSet(T), Cardinality(T) = n + 1
                 PROVE  \E x \in Nat : \A y \in T : x >= y
      OBVIOUS
    <2>1. PICK z : z \in T
      BY FS_EmptySet
    <2>2. IsFiniteSet(T \ {z}) /\ Cardinality(T \ {z}) = n
      <3>1. Cardinality(T \ {z}) = Cardinality(T) - 1 /\ IsFiniteSet(T \ {z})
        BY <2>1, FS_RemoveElement
      <3> QED
        BY <3>1
    <2>3. PICK x \in Nat : \A y \in T \ {z} : x >= y
      BY <2>2, <1>2
    <2>4. x + z \in Nat /\ \A y \in T : x + z >= y
      BY <2>1, <2>3
    <2> QED
      BY <2>4
  <1>3. Nat \subseteq Bounded
    <2> HIDE DEF Bounded
    <2> QED
      BY <1>1, <1>2, SetInduction
  <1>4. PICK b \in Nat : \A y \in S : b >= y
    BY <1>3, FS_CardinalityType
  <1> DEFINE Gaps == {b - x : x \in S}
  <1>5. Gaps \in SUBSET Nat /\ Gaps # {}
    <2>1. \A x \in S : b \in Nat /\ x \in Nat /\ b >= x
      BY <1>4
    <2>2. \A x \in S : b - x \in Nat
      BY <2>1
    <2> QED
      BY <2>2
  <1>6. PICK g \in Gaps : \A k \in Gaps : g <= k
    BY <1>5, MinIn
  <1>7. PICK x \in S : g = b - x
    BY <1>6
  <1>8. \A y \in S : x >= y
    <2> TAKE y \in S
    <2>1. b - y \in Gaps
      OBVIOUS
    <2>2. b - x <= b - y
      BY <2>1, <1>6, <1>7
    <2> QED
      BY <2>2
  <1> QED
    BY <1>8 DEF Max

-----------------------------------------------------------------------------
(* Sums of relative times *)

Sums(list, b) ==
  /\ b[0] = 0
  /\ \A i \in 1 .. Len(list) : b[i] = b[i - 1] + list[i].time

LEMMA SumsExist ==
  ASSUME NEW list \in Seq(Entry)
  PROVE  \E b \in [0 .. Len(list) -> Nat] : Sums(list, b)
  <1> DEFINE Q(n, b) == b[0] = 0 /\ \A i \in 1 .. n : b[i] = b[i - 1] + list[i].time
             P(n) == n <= Len(list) => \E b \in [0 .. n -> Nat] : Q(n, b)
             S == {n \in Nat : P(n)}
  <1>1. P(0)
    <2>1. [i \in 0 .. 0 |-> 0] \in [0 .. 0 -> Nat] /\ Q(0, [i \in 0 .. 0 |-> 0])
      OBVIOUS
    <2> QED
      BY <2>1
  <1>2. ASSUME NEW n \in Nat, P(n) PROVE P(n + 1)
    <2> SUFFICES ASSUME n + 1 <= Len(list) PROVE \E b \in [0 .. n + 1 -> Nat] : Q(n + 1, b)
      OBVIOUS
    <2>1. PICK b \in [0 .. n -> Nat] : Q(n, b)
      <3>1. n <= Len(list)
        OBVIOUS
      <3> QED
        BY <3>1, <1>2
    <2> DEFINE c == [i \in 0 .. n + 1 |-> IF i = n + 1 THEN b[n] + list[n + 1].time ELSE b[i]]
    <2>2. list[n + 1].time \in Nat
      <3>1. n + 1 \in 1 .. Len(list)
        OBVIOUS
      <3>2. list[n + 1] \in Entry
        BY <3>1
      <3> QED
        BY <3>2 DEF Entry
    <2>3. c \in [0 .. n + 1 -> Nat]
      BY <2>2
    <2>4. Q(n + 1, c)
      BY <2>1
    <2> QED
      BY <2>3, <2>4
  <1>3. Nat \subseteq S
    <2> HIDE DEF P
    <2>1. 0 \in S /\ \A n \in Nat : n \in S => n + 1 \in S
      BY <1>1, <1>2
    <2> HIDE DEF S
    <2> QED
      BY <2>1, SetInduction
  <1>4. P(Len(list))
    <2> HIDE DEF P
    <2> QED
      BY <1>3
  <1> QED
    BY <1>4 DEF Sums

LEMMA SumsUnique ==
  ASSUME NEW list \in Seq(Entry), NEW b, NEW c, Sums(list, b), Sums(list, c)
  PROVE  \A i \in 0 .. Len(list) : b[i] = c[i]
  <1> DEFINE S == {n \in Nat : n <= Len(list) => b[n] = c[n]}
  <1>1. 0 \in S
    BY DEF Sums
  <1>2. ASSUME NEW n \in Nat, n \in S PROVE n + 1 \in S
    <2> SUFFICES ASSUME n + 1 <= Len(list) PROVE b[n + 1] = c[n + 1]
      OBVIOUS
    <2>1. b[n] = c[n] /\ (n + 1) - 1 = n /\ n + 1 \in 1 .. Len(list)
      BY <1>2
    <2> QED
      BY <2>1 DEF Sums
  <1>3. Nat \subseteq S
    <2> HIDE DEF S
    <2> QED
      BY <1>1, <1>2, SetInduction
  <1> QED
    BY <1>3

LEMMA BeforeSums ==
  ASSUME NEW list \in Seq(Entry)
  PROVE  Before(list) \in [0 .. Len(list) -> Nat] /\ Sums(list, Before(list))
  <1> DEFINE Q(c) == c = [i \in 0 .. Len(list) |->
                            IF i = 0 THEN 0 ELSE c[i - 1] + list[i].time]
  <1>1. PICK b \in [0 .. Len(list) -> Nat] : Sums(list, b)
    BY SumsExist
  <1>2. Q(b)
    BY <1>1 DEF Sums
  <1>3. Q(CHOOSE c : Q(c))
    <2> HIDE DEF Q
    <2> QED
      BY <1>2
  <1>4. Before(list) = CHOOSE c : Q(c)
    BY DEF Before
  <1>5. Q(Before(list))
    BY <1>3, <1>4
  <1>6. Sums(list, Before(list))
    BY <1>5 DEF Sums
  <1>7. \A i \in 0 .. Len(list) : Before(list)[i] = b[i]
    BY <1>1, <1>6, SumsUnique
  <1> QED
    BY <1>1, <1>5, <1>6, <1>7

(* A function that satisfies the recursion is the sums. *)
LEMMA BeforeIs ==
  ASSUME NEW list \in Seq(Entry), NEW b, Sums(list, b)
  PROVE  \A i \in 0 .. Len(list) : Before(list)[i] = b[i]
  BY BeforeSums, SumsUnique

-----------------------------------------------------------------------------
(* The operations on a list *)

Handlers(list) == {list[i].h : i \in 1 .. Len(list)}
Distinct(list) == \A i, j \in 1 .. Len(list) : list[i].h = list[j].h => i = j
Timers(t, list) ==
  {[task |-> t, h |-> list[i].h, left |-> list[i].left] : i \in 1 .. Len(list)}
Timer(t, h, ms) == [task |-> t, h |-> h, left |-> ms]

(* No timer has longer to go than the times up to its entry, corrected by d. *)
InTime(list, d) == \A i \in 1 .. Len(list) : list[i].left <= Before(list)[i] + d

Multiple(ms) == \E k \in Nat : ms = k * MsPerTick
Multiples(list) == \A i \in 1 .. Len(list) : Multiple(list[i].time)

LEMMA FunctionIsSeq ==
  ASSUME NEW S, NEW n \in Nat, NEW f, f = [j \in 1 .. n |-> f[j]],
         \A j \in 1 .. n : f[j] \in S
  PROVE  f \in Seq(S) /\ Len(f) = n
  OBVIOUS

LEMMA EntryType ==
  ASSUME NEW list \in Seq(Entry), NEW i \in 1 .. Len(list)
  PROVE  /\ list[i] \in Entry
         /\ list[i] = [time |-> list[i].time, h |-> list[i].h, left |-> list[i].left]
         /\ list[i].time \in Nat /\ list[i].left \in Nat /\ list[i].h \in Handler
  <1>1. list[i] \in Entry
    OBVIOUS
  <1> QED
    BY <1>1 DEF Entry

LEMMA ArmedHandlers ==
  ASSUME NEW list, NEW h
  PROVE  Armed(list, h) <=> h \in Handlers(list)
  BY DEF Armed, Handlers

(* The place of a new entry: the times before it add up to at most its own. *)
LEMMA PlaceIs ==
  ASSUME NEW list \in Seq(Entry), NEW ms \in Nat
  PROVE  /\ Place(list, ms) \in 0 .. Len(list)
         /\ Before(list)[Place(list, ms)] <= ms
         /\ Place(list, ms) < Len(list) => Before(list)[Place(list, ms) + 1] > ms
  <1> DEFINE S == {i \in 0 .. Len(list) : i = Len(list) \/ Before(list)[i + 1] > ms}
             p == Place(list, ms)
  <1>1. S \in SUBSET Nat /\ Len(list) \in S
    OBVIOUS
  <1>2. Min(S) \in S /\ \A y \in S : Min(S) <= y
    <2> HIDE DEF S
    <2> QED
      BY <1>1, MinIn
  <1>3. p = Min(S)
    BY DEF Place
  <1>4. p \in 0 .. Len(list) /\ (p = Len(list) \/ Before(list)[p + 1] > ms)
    <2> HIDE DEF p
    <2> QED
      BY <1>2, <1>3
  <1>5. Before(list)[p] <= ms
    <2> HIDE DEF p
    <2>1. CASE p = 0
      BY <2>1, BeforeSums DEF Sums
    <2>2. CASE p # 0
      <3>1. p - 1 \in 0 .. Len(list) /\ p - 1 # Len(list) /\ (p - 1) + 1 = p /\ ~(p <= p - 1)
        BY <2>2, <1>4
      <3>2. p - 1 \notin S
        <4> HIDE DEF S
        <4> QED
          BY <3>1, <1>2, <1>3
      <3>3. ~(Before(list)[p] > ms)
        BY <3>1, <3>2
      <3>4. Before(list)[p] \in Nat
        BY <1>4, BeforeSums
      <3> QED
        BY <3>3, <3>4
    <2> QED
      BY <2>1, <2>2
  <1> QED
    BY <1>4, <1>5

(* Every entry of the list with a new one is that one or an old one, the   *)
(* entry behind it with a smaller time.                                    *)
LEMMA PutIs ==
  ASSUME NEW list \in Seq(Entry), NEW h \in Handler, NEW ms \in Nat
  PROVE  LET p == Place(list, ms)
             new == Put(list, h, ms)
         IN  /\ p \in 0 .. Len(list)
             /\ Len(new) = Len(list) + 1 /\ new \in Seq(Entry)
             /\ \A j \in 1 .. p : new[j] = list[j]
             /\ new[p + 1] = [time |-> ms - Before(list)[p], h |-> h, left |-> ms]
             /\ p < Len(list) => new[p + 2] = [time |-> Before(list)[p + 1] - ms,
                                  h |-> list[p + 1].h, left |-> list[p + 1].left]
             /\ \A j \in p + 3 .. Len(list) + 1 : new[j] = list[j - 1]
  <1> DEFINE p == Place(list, ms)
             new == Put(list, h, ms)
             n == Len(list)
             rest == ms - Before(list)[p]
  <1>1. p \in 0 .. n /\ Before(list)[p] <= ms /\ (p < n => Before(list)[p + 1] > ms)
    BY PlaceIs
  <1>2. new = [j \in 1 .. n + 1 |->
            IF j <= p THEN list[j]
            ELSE IF j = p + 1 THEN [time |-> rest, h |-> h, left |-> ms]
            ELSE IF j = p + 2 THEN [list[p + 1] EXCEPT !.time = @ - rest]
            ELSE list[j - 1]]
    BY DEF Put
  <1> HIDE DEF p, new
  <1>3. Before(list) \in [0 .. n -> Nat] /\ \A i \in 1 .. n : Before(list)[i] = Before(list)[i - 1] + list[i].time
    BY BeforeSums DEF Sums
  <1>4. Before(list)[p] \in Nat /\ rest \in Nat
    BY <1>1, <1>3
  <1>5. \A j \in 1 .. p : new[j] = list[j]
    BY <1>1, <1>2
  <1>6. new[p + 1] = [time |-> rest, h |-> h, left |-> ms]
    BY <1>1, <1>2
  <1>7. \A j \in p + 3 .. n + 1 : new[j] = list[j - 1]
    BY <1>1, <1>2
  <1>8. ASSUME p < n
        PROVE  /\ new[p + 2] = [time |-> Before(list)[p + 1] - ms,
                                h |-> list[p + 1].h, left |-> list[p + 1].left]
               /\ Before(list)[p + 1] - ms \in Nat
    <2>1. p + 1 \in 1 .. n /\ (p + 1) - 1 = p /\ p + 2 \in 1 .. n + 1 /\ ~(p + 2 <= p) /\ p + 2 # p + 1
      BY <1>8, <1>1
    <2>2. new[p + 2] = [list[p + 1] EXCEPT !.time = @ - rest]
      BY <2>1, <1>2
    <2>3. /\ list[p + 1] = [time |-> list[p + 1].time, h |-> list[p + 1].h, left |-> list[p + 1].left]
          /\ list[p + 1].time \in Nat
      BY <2>1, EntryType
    <2>4. Before(list)[p + 1] = Before(list)[p] + list[p + 1].time /\ Before(list)[p + 1] \in Nat
      BY <2>1, <1>3
    <2>5. list[p + 1].time - rest = Before(list)[p + 1] - ms
      BY <2>3, <2>4, <1>4
    <2>6. Before(list)[p + 1] - ms \in Nat
      BY <2>4, <1>1, <1>8
    <2>7. [list[p + 1] EXCEPT !.time = @ - rest] =
             [time |-> list[p + 1].time - rest, h |-> list[p + 1].h, left |-> list[p + 1].left]
      BY <2>3
    <2> QED
      BY <2>2, <2>5, <2>6, <2>7
  <1>9. ASSUME NEW j \in 1 .. n + 1 PROVE new[j] \in Entry
    <2>1. CASE j <= p
      <3>1. j \in 1 .. n
        BY <2>1, <1>1
      <3> QED
        BY <3>1, <2>1, <1>5, EntryType
    <2>2. CASE j = p + 1
      BY <2>2, <1>6, <1>4 DEF Entry
    <2>3. CASE j = p + 2
      <3>1. p < n /\ p + 1 \in 1 .. n
        BY <2>3, <1>1
      <3> QED
        <4>1. list[p + 1].h \in Handler /\ list[p + 1].left \in Nat
          BY <3>1, EntryType
        <4>2. new[j] = [time |-> Before(list)[p + 1] - ms,
                        h |-> list[p + 1].h, left |-> list[p + 1].left]
          BY <3>1, <2>3, <1>8
        <4>3. Before(list)[p + 1] - ms \in Nat
          BY <3>1, <1>8
        <4> HIDE DEF rest
        <4> QED
          BY <4>1, <4>2, <4>3 DEF Entry
    <2>4. CASE j >= p + 3
      <3>1. j - 1 \in 1 .. n /\ j \in p + 3 .. n + 1
        BY <2>4, <1>1
      <3> QED
        BY <3>1, <1>7, EntryType
    <2> QED
      BY <2>1, <2>2, <2>3, <2>4, <1>1
  <1>10. new \in Seq(Entry) /\ Len(new) = n + 1
    <2>1. n + 1 \in Nat /\ DOMAIN new = 1 .. n + 1 /\ new = [j \in 1 .. n + 1 |-> new[j]]
      BY <1>2
    <2> QED
      BY <2>1, <1>9, FunctionIsSeq
  <1> QED
    BY <1>1, <1>5, <1>6, <1>7, <1>8, <1>10 DEF p, new

-----------------------------------------------------------------------------
(* B is A with one more entry, the q-th.  sys_timeout makes B of A, and    *)
(* sys_untimeout A of B, so that the other entries keep the time before    *)
(* them (Longer).                                                          *)

Spread(q, j) == IF j < q THEN j ELSE j + 1

Wider(A, B, q) ==
  /\ Len(B) = Len(A) + 1 /\ q \in 1 .. Len(B)
  /\ \A j \in 1 .. Len(A) :
        B[Spread(q, j)].h = A[j].h /\ B[Spread(q, j)].left = A[j].left

Longer(A, B, q) ==
  /\ Wider(A, B, q)
  /\ \A j \in 1 .. Len(A) : j # q => B[Spread(q, j)].time = A[j].time
  /\ q <= Len(A) => A[q].time = B[q].time + B[q + 1].time

LEMMA SpreadOnto ==
  ASSUME NEW n \in Nat, NEW q \in 1 .. n + 1
  PROVE  /\ \A j \in 1 .. n : Spread(q, j) \in 1 .. n + 1 /\ Spread(q, j) # q
         /\ \A k \in 1 .. n + 1 : k # q => \E j \in 1 .. n : Spread(q, j) = k
         /\ \A j, l \in 1 .. n : Spread(q, j) = Spread(q, l) => j = l
  <1>1. ASSUME NEW k \in 1 .. n + 1, k # q PROVE \E j \in 1 .. n : Spread(q, j) = k
    <2>1. CASE k < q
      <3>1. k \in 1 .. n /\ Spread(q, k) = k
        BY <2>1 DEF Spread
      <3> QED
        BY <3>1
    <2>2. CASE ~(k < q)
      <3>1. k - 1 \in 1 .. n /\ Spread(q, k - 1) = k
        BY <2>2, <1>1 DEF Spread
      <3> QED
        BY <3>1
    <2> QED
      BY <2>1, <2>2
  <1> QED
    BY <1>1 DEF Spread

LEMMA WiderSets ==
  ASSUME NEW A \in Seq(Entry), NEW B \in Seq(Entry), NEW q, Wider(A, B, q), NEW t
  PROVE  /\ Handlers(B) = Handlers(A) \cup {B[q].h}
         /\ Timers(t, B) = Timers(t, A) \cup {Timer(t, B[q].h, B[q].left)}
         /\ Distinct(B) <=> Distinct(A) /\ B[q].h \notin Handlers(A)
  <1> DEFINE N == 1 .. Len(B)
             M == 1 .. Len(A)
  <1>1. q \in N
    BY DEF Wider
  <1>2. \A j \in M : B[Spread(q, j)].h = A[j].h /\ B[Spread(q, j)].left = A[j].left
    BY DEF Wider
  <1>3. /\ \A j \in M : Spread(q, j) \in N /\ Spread(q, j) # q
        /\ \A k \in N : k # q => \E j \in M : Spread(q, j) = k
        /\ \A j, l \in M : Spread(q, j) = Spread(q, l) => j = l
    <2>1. Len(A) \in Nat /\ Len(B) = Len(A) + 1 /\ q \in 1 .. Len(A) + 1
      BY DEF Wider
    <2>2. /\ \A j \in 1 .. Len(A) : Spread(q, j) \in 1 .. Len(A) + 1 /\ Spread(q, j) # q
          /\ \A k \in 1 .. Len(A) + 1 : k # q => \E j \in 1 .. Len(A) : Spread(q, j) = k
          /\ \A j, l \in 1 .. Len(A) : Spread(q, j) = Spread(q, l) => j = l
      BY <2>1, SpreadOnto
    <2> QED
      BY <2>1, <2>2
  <1>4. /\ Handlers(B) = {B[k].h : k \in N} /\ Handlers(A) = {A[j].h : j \in M}
        /\ Timers(t, B) = {Timer(t, B[k].h, B[k].left) : k \in N}
        /\ Timers(t, A) = {Timer(t, A[j].h, A[j].left) : j \in M}
        /\ Distinct(B) <=> \A k, l \in N : B[k].h = B[l].h => k = l
        /\ Distinct(A) <=> \A k, l \in M : A[k].h = A[l].h => k = l
    BY DEF Handlers, Timers, Timer, Distinct
  <1> HIDE DEF N, M
  <1>5. Handlers(B) = Handlers(A) \cup {B[q].h}
    <2>1. \A x \in Handlers(B) : x \in Handlers(A) \cup {B[q].h}
      BY <1>2, <1>3, <1>4
    <2>2. \A x \in Handlers(A) : x \in Handlers(B)
      BY <1>2, <1>3, <1>4
    <2>3. B[q].h \in Handlers(B)
      BY <1>1, <1>4
    <2> QED
      BY <2>1, <2>2, <2>3
  <1>6. Timers(t, B) = Timers(t, A) \cup {Timer(t, B[q].h, B[q].left)}
    <2>1. \A x \in Timers(t, B) : x \in Timers(t, A) \cup {Timer(t, B[q].h, B[q].left)}
      BY <1>2, <1>3, <1>4
    <2>2. \A x \in Timers(t, A) : x \in Timers(t, B)
      BY <1>2, <1>3, <1>4
    <2>3. Timer(t, B[q].h, B[q].left) \in Timers(t, B)
      BY <1>1, <1>4
    <2> QED
      BY <2>1, <2>2, <2>3
  <1>7. ASSUME Distinct(A), B[q].h \notin Handlers(A) PROVE Distinct(B)
    <2> SUFFICES ASSUME NEW k \in N, NEW l \in N, B[k].h = B[l].h
                 PROVE  k = l
      BY <1>4
    <2>1. \A m \in N : m # q => B[m].h # B[q].h
      BY <1>2, <1>3, <1>4, <1>7
    <2>2. CASE k = q \/ l = q
      BY <2>1, <2>2
    <2>3. CASE k # q /\ l # q
      <3>1. PICK i \in M, j \in M : k = Spread(q, i) /\ l = Spread(q, j)
        BY <2>3, <1>3
      <3>2. i = j
        BY <3>1, <1>2, <1>4, <1>7
      <3> QED
        BY <3>1, <3>2
    <2> QED
      BY <2>2, <2>3
  <1>8. ASSUME Distinct(B) PROVE Distinct(A) /\ B[q].h \notin Handlers(A)
    <2>1. ASSUME NEW i \in M, NEW j \in M, A[i].h = A[j].h PROVE i = j
      BY <2>1, <1>2, <1>3, <1>4, <1>8
    <2>2. \A j \in M : A[j].h # B[q].h
      BY <1>1, <1>2, <1>3, <1>4, <1>8
    <2> QED
      BY <2>1, <2>2, <1>4
  <1> QED
    BY <1>5, <1>6, <1>7, <1>8

(* The times before the other entries stay as they were. *)
LEMMA LongerSums ==
  ASSUME NEW A \in Seq(Entry), NEW B \in Seq(Entry), NEW q, Longer(A, B, q)
  PROVE  /\ \A j \in 0 .. Len(A) : Before(B)[Spread(q, j)] = Before(A)[j]
         /\ Before(B)[q] = Before(A)[q - 1] + B[q].time
  <1> DEFINE b == Before(B)
             c == [j \in 0 .. Len(A) |-> b[Spread(q, j)]]
             n == Len(A)
  <1>1. /\ b \in [0 .. n + 1 -> Nat] /\ b[0] = 0
        /\ \A i \in 1 .. n + 1 : b[i] = b[i - 1] + B[i].time
        /\ q \in 1 .. n + 1 /\ n \in Nat
    BY BeforeSums DEF Sums, Longer, Wider
  <1> HIDE DEF b
  <1>2. c[0] = 0
    BY <1>1 DEF Spread
  <1>3. ASSUME NEW i \in 1 .. n PROVE c[i] = c[i - 1] + A[i].time
    <2>0. i - 1 \in 0 .. n /\ i \in 0 .. n
      OBVIOUS
    <2>1. CASE i < q
      <3>1. c[i] = b[i] /\ c[i - 1] = b[i - 1]
        BY <2>0, <2>1, <1>1 DEF Spread
      <3>2. B[i].time = A[i].time
        <4>1. Spread(q, i) = i /\ i # q /\ i \in 1 .. Len(A)
          BY <2>1, <1>1 DEF Spread
        <4> QED
          BY <4>1 DEF Longer, Wider
      <3> HIDE DEF c
      <3> QED
        BY <3>1, <3>2, <1>1
    <2>2. CASE i = q
      <3>1. c[i] = b[q + 1] /\ c[i - 1] = b[q - 1]
        BY <2>0, <2>2, <1>1 DEF Spread
      <3>2. A[q].time = B[q].time + B[q + 1].time
        BY <2>2, <1>1 DEF Longer, Wider
      <3>3. q + 1 \in 1 .. n + 1 /\ (q + 1) - 1 = q
        BY <2>2, <1>1
      <3>4. b[q + 1] = b[q] + B[q + 1].time /\ b[q] = b[q - 1] + B[q].time
        BY <3>3, <1>1
      <3>5. B[q].time \in Nat /\ B[q + 1].time \in Nat /\ b[q - 1] \in Nat
        <4>1. q \in 1 .. Len(B) /\ q + 1 \in 1 .. Len(B)
          BY <3>3, <1>1 DEF Longer, Wider
        <4>2. B[q].time \in Nat /\ B[q + 1].time \in Nat
          BY <4>1, EntryType
        <4> QED
          BY <4>2, <1>1
      <3> HIDE DEF c
      <3> QED
        BY <3>1, <3>2, <3>4, <3>5, <2>2
    <2>3. CASE i > q
      <3>1. c[i] = b[i + 1] /\ c[i - 1] = b[i]
        BY <2>0, <2>3, <1>1 DEF Spread
      <3>2. B[i + 1].time = A[i].time
        <4>1. Spread(q, i) = i + 1 /\ i # q /\ i \in 1 .. Len(A)
          BY <2>3, <1>1 DEF Spread
        <4> QED
          BY <4>1 DEF Longer
      <3>3. b[i + 1] = b[i] + B[i + 1].time
        <4>1. i + 1 \in 1 .. n + 1 /\ (i + 1) - 1 = i
          OBVIOUS
        <4> QED
          BY <4>1, <1>1
      <3> HIDE DEF c
      <3> QED
        BY <3>1, <3>2, <3>3
    <2> QED
      BY <2>1, <2>2, <2>3, <1>1
  <1>4. Sums(A, c)
    <2> HIDE DEF c
    <2> QED
      BY <1>2, <1>3 DEF Sums
  <1>5. \A j \in 0 .. n : Before(A)[j] = c[j]
    <2> HIDE DEF c
    <2> QED
      BY <1>4, BeforeIs
  <1>6. \A j \in 0 .. n : b[Spread(q, j)] = Before(A)[j]
    BY <1>5
  <1>7. b[q] = Before(A)[q - 1] + B[q].time
    <2>1. q - 1 \in 0 .. n /\ Spread(q, q - 1) = q - 1
      BY <1>1 DEF Spread
    <2>2. Before(A)[q - 1] = b[q - 1]
      BY <2>1, <1>6
    <2> QED
      BY <2>2, <1>1
  <1> QED
    BY <1>6, <1>7 DEF b

LEMMA LongerInTime ==
  ASSUME NEW A \in Seq(Entry), NEW B \in Seq(Entry), NEW q, Longer(A, B, q)
  PROVE  /\ InTime(B, 0) => InTime(A, 0)
         /\ (InTime(A, 0) /\ B[q].left <= Before(B)[q]) => InTime(B, 0)
  <1>1. /\ \A j \in 1 .. Len(A) : /\ Before(B)[Spread(q, j)] = Before(A)[j]
                                  /\ B[Spread(q, j)].left = A[j].left
        /\ q \in 1 .. Len(A) + 1 /\ Len(B) = Len(A) + 1 /\ Len(A) \in Nat
    <2>1. \A j \in 0 .. Len(A) : Before(B)[Spread(q, j)] = Before(A)[j]
      BY LongerSums
    <2>2. /\ \A j \in 1 .. Len(A) : B[Spread(q, j)].left = A[j].left
          /\ q \in 1 .. Len(A) + 1 /\ Len(B) = Len(A) + 1 /\ Len(A) \in Nat
      BY DEF Longer, Wider
    <2> QED
      BY <2>1, <2>2
  <1>2. /\ \A j \in 1 .. Len(A) : Spread(q, j) \in 1 .. Len(B)
        /\ \A k \in 1 .. Len(B) : k # q => \E j \in 1 .. Len(A) : Spread(q, j) = k
    <2>1. /\ \A j \in 1 .. Len(A) : Spread(q, j) \in 1 .. Len(A) + 1
          /\ \A k \in 1 .. Len(A) + 1 : k # q => \E j \in 1 .. Len(A) : Spread(q, j) = k
      BY <1>1, SpreadOnto
    <2> QED
      BY <2>1, <1>1
  <1>3. /\ \A j \in 0 .. Len(A) : Before(A)[j] \in Nat
        /\ \A j \in 0 .. Len(B) : Before(B)[j] \in Nat
    BY BeforeSums
  <1>4. ASSUME InTime(B, 0) PROVE InTime(A, 0)
    <2> SUFFICES ASSUME NEW j \in 1 .. Len(A) PROVE A[j].left <= Before(A)[j] + 0
      BY DEF InTime
    <2>1. B[Spread(q, j)].left <= Before(B)[Spread(q, j)] + 0
      BY <1>2, <1>4 DEF InTime
    <2> QED
      BY <2>1, <1>1
  <1>5. ASSUME InTime(A, 0), B[q].left <= Before(B)[q] PROVE InTime(B, 0)
    <2> SUFFICES ASSUME NEW k \in 1 .. Len(B) PROVE B[k].left <= Before(B)[k] + 0
      BY DEF InTime
    <2>1. CASE k = q
      BY <2>1, <1>3, <1>5
    <2>2. CASE k # q
      <3>1. PICK j \in 1 .. Len(A) : Spread(q, j) = k
        BY <2>2, <1>2
      <3>2. A[j].left <= Before(A)[j] + 0
        BY <1>5 DEF InTime
      <3> QED
        BY <3>1, <3>2, <1>1
    <2> QED
      BY <2>1, <2>2
  <1> QED
    BY <1>4, <1>5

LEMMA PutLonger ==
  ASSUME NEW list \in Seq(Entry), NEW h \in Handler, NEW ms \in Nat
  PROVE  LET q == Place(list, ms) + 1
             new == Put(list, h, ms)
         IN  /\ new \in Seq(Entry) /\ Longer(list, new, q)
             /\ new[q] = [time |-> ms - Before(list)[q - 1], h |-> h, left |-> ms]
             /\ Before(new)[q] = ms
  <1> DEFINE p == Place(list, ms)
             new == Put(list, h, ms)
             n == Len(list)
             b == Before(list)
  <1>1. /\ p \in 0 .. n
        /\ Len(new) = n + 1 /\ new \in Seq(Entry)
        /\ \A j \in 1 .. p : new[j] = list[j]
        /\ new[p + 1] = [time |-> ms - Before(list)[p], h |-> h, left |-> ms]
        /\ p < n => new[p + 2] = [time |-> Before(list)[p + 1] - ms,
                                  h |-> list[p + 1].h, left |-> list[p + 1].left]
        /\ \A j \in p + 3 .. n + 1 : new[j] = list[j - 1]
    BY PutIs
  <1>2. /\ b \in [0 .. n -> Nat]
        /\ \A i \in 1 .. n : b[i] = b[i - 1] + list[i].time
    BY BeforeSums DEF Sums
  <1> HIDE DEF p, new
  <1>3. ASSUME NEW j \in 1 .. n
        PROVE  /\ new[Spread(p + 1, j)].h = list[j].h /\ new[Spread(p + 1, j)].left = list[j].left
               /\ j # p + 1 => new[Spread(p + 1, j)].time = list[j].time
    <2>1. CASE j < p + 1
      <3>1. Spread(p + 1, j) = j /\ j \in 1 .. p
        BY <2>1, <1>1 DEF Spread
      <3> QED
        BY <3>1, <1>1
    <2>2. CASE j = p + 1
      <3>1. Spread(p + 1, j) = p + 2 /\ p < n
        BY <2>2, <1>1 DEF Spread
      <3> QED
        BY <3>1, <2>2, <1>1
    <2>3. CASE j > p + 1
      <3>1. Spread(p + 1, j) = j + 1 /\ j + 1 \in p + 3 .. n + 1 /\ (j + 1) - 1 = j
        BY <2>3, <1>1 DEF Spread
      <3> QED
        BY <3>1, <1>1
    <2> QED
      BY <2>1, <2>2, <2>3, <1>1
  <1>4. ASSUME p + 1 <= n PROVE list[p + 1].time = new[p + 1].time + new[(p + 1) + 1].time
    <2>1. p < n /\ (p + 1) + 1 = p + 2 /\ p + 1 \in 1 .. n /\ (p + 1) - 1 = p
      BY <1>4, <1>1
    <2>2. new[p + 1].time = ms - b[p] /\ new[p + 2].time = b[p + 1] - ms
      BY <2>1, <1>1
    <2>3. b[p + 1] = b[p] + list[p + 1].time /\ b[p] \in Nat /\ b[p + 1] \in Nat
      BY <2>1, <1>2
    <2>4. list[p + 1].time \in Nat
      BY <2>1, EntryType
    <2> HIDE DEF b
    <2> QED
      BY SMTT(60), <2>1, <2>2, <2>3, <2>4
  <1>5. Longer(list, new, p + 1)
    BY <1>1, <1>3, <1>4 DEF Longer, Wider
  <1>6. (p + 1) - 1 = p
    BY <1>1
  <1>7. Before(new)[p + 1] = Before(list)[p] + new[p + 1].time
    <2>1. Before(new)[p + 1] = Before(list)[(p + 1) - 1] + new[p + 1].time
      BY ZenonT(60), <1>1, <1>5, LongerSums
    <2> QED
      BY <2>1, <1>6
  <1>8. Before(new)[p + 1] = ms
    BY <1>1, <1>2, <1>7
  <1> QED
    BY <1>1, <1>5, <1>6, <1>8 DEF p, new

LEMMA MultipleSum ==
  ASSUME NEW x \in Nat, NEW y \in Nat, Multiple(x), Multiple(y)
  PROVE  Multiple(x + y) /\ (y <= x => Multiple(x - y))
  <1>1. PICK k \in Nat, l \in Nat : x = k * MsPerTick /\ y = l * MsPerTick
    BY DEF Multiple
  <1>2. MsPerTick \in Nat /\ MsPerTick > 0
    BY TimeoutAssumption
  <1>3. x + y = (k + l) * MsPerTick
    BY <1>1, <1>2
  <1>4. ASSUME y <= x PROVE Multiple(x - y)
    <2>1. x - y = (k - l) * MsPerTick
      BY <1>1, <1>2
    <2>2. k - l \in Nat
      <3>1. CASE k >= l
        BY <3>1
      <3>2. CASE k < l
        <4>1. l - k >= 1 /\ l - k \in Nat /\ y - x = (l - k) * MsPerTick
          BY <3>2, <1>1, <1>2
        <4>2. (l - k) * MsPerTick >= MsPerTick
          BY <4>1, <1>2
        <4> QED
          BY <4>1, <4>2, <1>2, <1>4
      <3> QED
        BY <3>1, <3>2
    <2> QED
      BY <2>1, <2>2 DEF Multiple
  <1> QED
    BY <1>3, <1>4 DEF Multiple

LEMMA BeforeMultiple ==
  ASSUME NEW list \in Seq(Entry), Multiples(list), NEW i \in 0 .. Len(list)
  PROVE  Multiple(Before(list)[i])
  <1> DEFINE b == Before(list)
             P(n) == n <= Len(list) => Multiple(b[n])
             S == {n \in Nat : P(n)}
  <1>1. b \in [0 .. Len(list) -> Nat] /\ b[0] = 0 /\ \A j \in 1 .. Len(list) : b[j] = b[j - 1] + list[j].time
    BY BeforeSums DEF Sums
  <1> HIDE DEF b
  <1>2. P(0)
    <2>1. 0 = 0 * MsPerTick
      BY TimeoutAssumption
    <2> QED
      BY <1>1, <2>1 DEF Multiple
  <1>3. ASSUME NEW n \in Nat, P(n) PROVE P(n + 1)
    <2> SUFFICES ASSUME n + 1 <= Len(list) PROVE Multiple(b[n + 1])
      OBVIOUS
    <2>1. n + 1 \in 1 .. Len(list) /\ (n + 1) - 1 = n /\ n \in 0 .. Len(list)
      OBVIOUS
    <2>2. b[n + 1] = b[n] + list[n + 1].time /\ b[n] \in Nat
      BY <2>1, <1>1
    <2>3. Multiple(b[n])
      BY <2>1, <1>3
    <2>4. Multiple(list[n + 1].time) /\ list[n + 1].time \in Nat
      BY <2>1, EntryType DEF Multiples
    <2> QED
      BY <2>2, <2>3, <2>4, MultipleSum
  <1>4. Nat \subseteq S
    <2> HIDE DEF P
    <2>1. 0 \in S /\ \A n \in Nat : n \in S => n + 1 \in S
      BY <1>2, <1>3
    <2> HIDE DEF S
    <2> QED
      BY <2>1, SetInduction
  <1>5. P(i)
    <2> HIDE DEF P
    <2> QED
      BY <1>4
  <1> QED
    BY <1>5 DEF b

LEMMA LongerMultiples ==
  ASSUME NEW A \in Seq(Entry), NEW B \in Seq(Entry), NEW q, Longer(A, B, q)
  PROVE  /\ Multiples(B) => Multiples(A)
         /\ (Multiples(A) /\ Multiple(B[q].time)) => Multiples(B)
  <1>1. /\ q \in 1 .. Len(A) + 1 /\ Len(B) = Len(A) + 1 /\ Len(A) \in Nat
        /\ \A j \in 1 .. Len(A) : j # q => B[Spread(q, j)].time = A[j].time
        /\ q <= Len(A) => A[q].time = B[q].time + B[q + 1].time
    BY DEF Longer, Wider
  <1>2. /\ \A j \in 1 .. Len(A) : Spread(q, j) \in 1 .. Len(B) /\ Spread(q, j) # q
        /\ \A k \in 1 .. Len(B) : k # q => \E j \in 1 .. Len(A) : Spread(q, j) = k
    <2>1. /\ \A j \in 1 .. Len(A) : Spread(q, j) \in 1 .. Len(A) + 1 /\ Spread(q, j) # q
          /\ \A k \in 1 .. Len(A) + 1 : k # q => \E j \in 1 .. Len(A) : Spread(q, j) = k
      BY <1>1, SpreadOnto
    <2> QED
      BY <2>1, <1>1
  <1>3. q <= Len(A) => /\ q \in 1 .. Len(A) /\ q \in 1 .. Len(B) /\ q + 1 \in 1 .. Len(B)
                       /\ Spread(q, q) = q + 1
    BY <1>1 DEF Spread
  <1>4. ASSUME q <= Len(A) PROVE /\ A[q].time \in Nat /\ B[q].time \in Nat /\ B[q + 1].time \in Nat
    BY <1>3, <1>4, EntryType
  <1>5. ASSUME Multiples(B) PROVE Multiples(A)
    <2> SUFFICES ASSUME NEW j \in 1 .. Len(A) PROVE Multiple(A[j].time)
      BY DEF Multiples
    <2>1. CASE j # q
      BY <2>1, <1>1, <1>2, <1>5 DEF Multiples
    <2>2. CASE j = q
      <3>1. q <= Len(A)
        BY <2>2
      <3>2. Multiple(B[q].time) /\ Multiple(B[q + 1].time)
        BY <3>1, <1>3, <1>5 DEF Multiples
      <3>3. Multiple(B[q].time + B[q + 1].time)
        BY <3>1, <3>2, <1>4, MultipleSum
      <3> QED
        BY <3>1, <3>3, <2>2, <1>1
    <2> QED
      BY <2>1, <2>2
  <1>6. ASSUME Multiples(A), Multiple(B[q].time) PROVE Multiples(B)
    <2> SUFFICES ASSUME NEW k \in 1 .. Len(B), k # q PROVE Multiple(B[k].time)
      BY <1>6 DEF Multiples
    <2>1. PICK j \in 1 .. Len(A) : Spread(q, j) = k
      BY <1>2
    <2>2. CASE j # q
      BY <2>1, <2>2, <1>1, <1>6 DEF Multiples
    <2>3. CASE j = q
      <3>1. q <= Len(A) /\ k = q + 1
        BY <2>1, <2>3, <1>3
      <3>2. Multiple(A[q].time)
        BY <2>3, <1>6 DEF Multiples
      <3>3. B[q].time <= A[q].time /\ B[q + 1].time = A[q].time - B[q].time
        BY <3>1, <1>1, <1>4
      <3>4. Multiple(A[q].time - B[q].time)
        BY <3>1, <3>2, <3>3, <1>4, <1>6, MultipleSum
      <3> QED
        BY <3>1, <3>3, <3>4
    <2> QED
      BY <2>2, <2>3
  <1> QED
    BY <1>5, <1>6

(* sys_timeout with an entry to spare *)
LEMMA Sets ==
  ASSUME NEW list \in Seq(Entry), NEW f \in Nat, f > 0, NEW h \in Handler, NEW ms \in Nat, NEW t
  PROVE  LET new == SysTimeout([list |-> list, free |-> f], h, ms)
         IN  /\ new.list \in Seq(Entry) /\ Len(new.list) = Len(list) + 1
             /\ new.free = f - 1
             /\ Handlers(new.list) = Handlers(list) \cup {h}
             /\ Timers(t, new.list) = Timers(t, list) \cup {Timer(t, h, ms)}
             /\ (Distinct(list) /\ h \notin Handlers(list)) => Distinct(new.list)
             /\ InTime(list, 0) => InTime(new.list, 0)
             /\ (Multiples(list) /\ Multiple(ms)) => Multiples(new.list)
  <1> DEFINE q == Place(list, ms) + 1
             new == Put(list, h, ms)
  <1>1. SysTimeout([list |-> list, free |-> f], h, ms) = [list |-> new, free |-> f - 1]
    BY DEF SysTimeout
  <1>2. /\ new \in Seq(Entry) /\ Longer(list, new, q)
        /\ new[q] = [time |-> ms - Before(list)[q - 1], h |-> h, left |-> ms]
        /\ Before(new)[q] = ms
    BY PutLonger
  <1>3. q - 1 \in 0 .. Len(list) /\ Before(list)[q - 1] <= ms /\ Before(list)[q - 1] \in Nat
    <2>1. Place(list, ms) \in 0 .. Len(list) /\ Before(list)[Place(list, ms)] <= ms
      BY PlaceIs
    <2>2. q - 1 = Place(list, ms)
      BY <2>1
    <2>3. Before(list) \in [0 .. Len(list) -> Nat]
      BY BeforeSums
    <2> HIDE DEF q
    <2> QED
      BY <2>1, <2>2, <2>3
  <1> HIDE DEF q, new
  <1>4. new[q].h = h /\ new[q].left = ms /\ new[q].time = ms - Before(list)[q - 1]
    BY <1>2
  <1>5. Wider(list, new, q) /\ Len(new) = Len(list) + 1
    BY <1>2 DEF Longer, Wider
  <1>6. /\ Handlers(new) = Handlers(list) \cup {h}
        /\ Timers(t, new) = Timers(t, list) \cup {Timer(t, h, ms)}
        /\ Distinct(new) <=> Distinct(list) /\ h \notin Handlers(list)
    <2>1. /\ Handlers(new) = Handlers(list) \cup {new[q].h}
          /\ Timers(t, new) = Timers(t, list) \cup {Timer(t, new[q].h, new[q].left)}
          /\ Distinct(new) <=> Distinct(list) /\ new[q].h \notin Handlers(list)
      BY <1>2, <1>5, WiderSets
    <2> QED
      BY <2>1, <1>4
  <1>7. InTime(list, 0) => InTime(new, 0)
    <2>1. new[q].left <= Before(new)[q]
      BY <1>2, <1>4
    <2> QED
      BY <2>1, <1>2, LongerInTime
  <1>8. (Multiples(list) /\ Multiple(ms)) => Multiples(new)
    <2> SUFFICES ASSUME Multiples(list), Multiple(ms) PROVE Multiples(new)
      OBVIOUS
    <2>1. Multiple(Before(list)[q - 1])
      BY <1>3, BeforeMultiple
    <2>2. Multiple(new[q].time)
      BY <2>1, <1>3, <1>4, MultipleSum
    <2> QED
      BY <2>2, <1>2, LongerMultiples
  <1> QED
    BY <1>1, <1>2, <1>5, <1>6, <1>7, <1>8 DEF new

(* The timer of h is gone, the others are the same. *)
Removes(t, list, new, h) ==
  \E x \in Timers(t, list) : x.h = h /\ Timers(t, new) = Timers(t, list) \ {x}

(* sys_untimeout of a timeout that is armed *)
LEMMA Cancels ==
  ASSUME NEW list \in Seq(Entry), NEW f, NEW h, h \in Handlers(list), Distinct(list), NEW t
  PROVE  LET new == SysUntimeout([list |-> list, free |-> f], h)
         IN  /\ new.list \in Seq(Entry) /\ Len(list) = Len(new.list) + 1
             /\ new.free = f + 1 /\ Distinct(new.list)
             /\ Handlers(new.list) = Handlers(list) \ {h}
             /\ Removes(t, list, new.list, h)
             /\ InTime(list, 0) => InTime(new.list, 0)
             /\ Multiples(list) => Multiples(new.list)
  <1> DEFINE S == {j \in 1 .. Len(list) : list[j].h = h}
             q == Min(S)
             n == Len(list)
             new == [j \in 1 .. n - 1 |-> IF j < q THEN list[j]
                            ELSE IF j > q THEN list[j + 1]
                            ELSE [list[q + 1] EXCEPT !.time = @ + list[q].time]]
  <1>1. SysUntimeout([list |-> list, free |-> f], h) = [list |-> new, free |-> f + 1]
    <2>1. Armed(list, h)
      BY ArmedHandlers
    <2> QED
      BY <2>1 DEF SysUntimeout
  <1>2. q \in 1 .. n /\ list[q].h = h
    <2>1. S \in SUBSET Nat /\ S # {}
      BY DEF Handlers
    <2>2. Min(S) \in S
      <3> HIDE DEF S
      <3> QED
        BY <2>1, MinIn
    <2> QED
      BY <2>2
  <1> HIDE DEF q
  <1>3. \A j \in 1 .. n - 1 : new[j] = IF j < q THEN list[j]
                            ELSE IF j > q THEN list[j + 1]
                            ELSE [list[q + 1] EXCEPT !.time = @ + list[q].time]
    OBVIOUS
  <1>4. q <= n - 1 => /\ q + 1 \in 1 .. n
                      /\ [list[q + 1] EXCEPT !.time = @ + list[q].time] =
                           [time |-> list[q].time + list[q + 1].time,
                            h |-> list[q + 1].h, left |-> list[q + 1].left]
    <2> SUFFICES ASSUME q <= n - 1
                 PROVE  /\ q + 1 \in 1 .. n
                        /\ [list[q + 1] EXCEPT !.time = @ + list[q].time] =
                             [time |-> list[q].time + list[q + 1].time,
                              h |-> list[q + 1].h, left |-> list[q + 1].left]
      OBVIOUS
    <2>1. q + 1 \in 1 .. n
      BY <1>2
    <2>2. /\ list[q + 1] = [time |-> list[q + 1].time, h |-> list[q + 1].h, left |-> list[q + 1].left]
          /\ list[q + 1].time \in Nat /\ list[q].time \in Nat
      BY <2>1, <1>2, EntryType
    <2>3. list[q + 1].time + list[q].time = list[q].time + list[q + 1].time
      BY <2>2
    <2>4. [list[q + 1] EXCEPT !.time = @ + list[q].time] =
             [time |-> list[q + 1].time + list[q].time, h |-> list[q + 1].h, left |-> list[q + 1].left]
      BY <2>2
    <2> QED
      BY <2>1, <2>3, <2>4
  <1>5. ASSUME NEW j \in 1 .. n - 1 PROVE new[j] \in Entry
    <2>1. CASE j # q
      <3>1. (j < q => j \in 1 .. n) /\ j + 1 \in 1 .. n
        OBVIOUS
      <3> QED
        BY <3>1, <2>1, <1>2, <1>3, EntryType
    <2>2. CASE j = q
      <3>1. q + 1 \in 1 .. n
        BY <2>2
      <3>2. /\ list[q].time \in Nat /\ list[q + 1].time \in Nat
            /\ list[q + 1].h \in Handler /\ list[q + 1].left \in Nat
        BY <3>1, <1>2, EntryType
      <3>3. list[q].time + list[q + 1].time \in Nat
        BY <3>2
      <3>4. new[j] = [time |-> list[q].time + list[q + 1].time,
                      h |-> list[q + 1].h, left |-> list[q + 1].left]
        BY <2>2, <1>3, <1>4
      <3> HIDE DEF new
      <3> QED
        BY <3>2, <3>3, <3>4 DEF Entry
    <2> QED
      BY <2>1, <2>2
  <1>6. new \in Seq(Entry) /\ Len(new) = n - 1
    <2>1. n - 1 \in Nat /\ new = [j \in 1 .. n - 1 |-> new[j]]
      BY <1>2
    <2> HIDE DEF new
    <2> QED
      BY <2>1, <1>5, FunctionIsSeq
  <1> HIDE DEF new
  <1>7. Longer(new, list, q)
    <2>1. ASSUME NEW j \in 1 .. n - 1
          PROVE  /\ list[Spread(q, j)].h = new[j].h /\ list[Spread(q, j)].left = new[j].left
                 /\ j # q => list[Spread(q, j)].time = new[j].time
      <3>1. CASE j < q
        BY <3>1, <1>3, <1>2 DEF Spread
      <3>2. CASE j = q
        <4>1. Spread(q, j) = q + 1
          BY <3>2, <1>2 DEF Spread
        <4> QED
          BY <4>1, <3>2, <1>3, <1>4
      <3>3. CASE j > q
        BY <3>3, <1>3, <1>2 DEF Spread
      <3> QED
        BY <3>1, <3>2, <3>3, <1>2
    <2>2. q <= n - 1 => new[q].time = list[q].time + list[q + 1].time
      BY <1>2, <1>3, <1>4
    <2> QED
      BY <2>1, <2>2, <1>2, <1>6 DEF Longer, Wider
  <1>8. Wider(new, list, q)
    BY <1>7 DEF Longer
  <1>9. /\ Handlers(list) = Handlers(new) \cup {h}
        /\ Timers(t, list) = Timers(t, new) \cup {Timer(t, h, list[q].left)}
        /\ Distinct(new) /\ h \notin Handlers(new)
    BY <1>2, <1>6, <1>8, WiderSets
  <1>10. Timer(t, h, list[q].left) \notin Timers(t, new)
    BY <1>9 DEF Timers, Timer, Handlers
  <1>11. Removes(t, list, new, h)
    <2>1. Timer(t, h, list[q].left).h = h
      BY DEF Timer
    <2> QED
      BY <2>1, <1>9, <1>10 DEF Removes
  <1>12. (InTime(list, 0) => InTime(new, 0)) /\ (Multiples(list) => Multiples(new))
    BY <1>6, <1>7, LongerInTime, LongerMultiples
  <1>13. Len(list) = Len(new) + 1
    BY <1>6, <1>2
  <1> DEFINE U == SysUntimeout([list |-> list, free |-> f], h)
  <1>14. U.list = new /\ U.free = f + 1
    BY <1>1
  <1>15. Handlers(new) = Handlers(list) \ {h}
    BY <1>9
  <1> HIDE DEF U
  <1>16. /\ U.list \in Seq(Entry) /\ Len(list) = Len(U.list) + 1
         /\ U.free = f + 1 /\ Distinct(U.list)
         /\ Handlers(U.list) = Handlers(list) \ {h}
         /\ Removes(t, list, U.list, h)
         /\ InTime(list, 0) => InTime(U.list, 0)
         /\ Multiples(list) => Multiples(U.list)
    BY <1>6, <1>9, <1>11, <1>12, <1>13, <1>14, <1>15
  <1> QED
    BY <1>16 DEF U

(* The head goes off. *)
LEMMA PopSums ==
  ASSUME NEW list \in Seq(Entry), list # <<>>
  PROVE  /\ Tail(list) \in Seq(Entry) /\ Len(list) = Len(Tail(list)) + 1
         /\ \A j \in 0 .. Len(Tail(list)) : Before(list)[j + 1] = Before(Tail(list))[j] + list[1].time
  <1> DEFINE b == Before(list)
             A == Tail(list)
             n == Len(A)
             c == [j \in 0 .. n |-> b[j + 1] - list[1].time]
  <1>1. A \in Seq(Entry) /\ Len(list) = n + 1 /\ n \in Nat /\ \A j \in 1 .. n : A[j] = list[j + 1]
    OBVIOUS
  <1>2. /\ b \in [0 .. n + 1 -> Nat] /\ b[0] = 0
        /\ \A i \in 1 .. n + 1 : b[i] = b[i - 1] + list[i].time
    BY <1>1, BeforeSums DEF Sums
  <1>3. \A i \in 1 .. n + 1 : list[i].time \in Nat
    BY <1>1, EntryType
  <1> HIDE DEF b, A
  <1>4. b[1] = list[1].time
    <2>1. 1 \in 1 .. n + 1 /\ 1 - 1 = 0
      BY <1>1
    <2>2. b[1] = b[1 - 1] + list[1].time
      BY <2>1, <1>2
    <2>3. list[1].time \in Nat
      BY <2>1, <1>3
    <2> QED
      BY <2>1, <2>2, <2>3, <1>2
  <1>5. c[0] = 0
    BY <1>1, <1>3, <1>4
  <1>6. ASSUME NEW i \in 1 .. n PROVE c[i] = c[i - 1] + A[i].time
    <2>1. /\ i + 1 \in 1 .. n + 1 /\ (i + 1) - 1 = i /\ i \in 1 .. n + 1 /\ 1 \in 1 .. n + 1
          /\ i - 1 \in 0 .. n /\ (i - 1) + 1 = i
      BY <1>1
    <2>2. b[i + 1] = b[i] + list[i + 1].time /\ b[i] \in Nat
      <3>1. b[i + 1] = b[(i + 1) - 1] + list[i + 1].time
        BY <2>1, <1>2
      <3>2. i \in 0 .. n + 1
        BY <1>1
      <3> QED
        BY <3>1, <3>2, <2>1, <1>2
    <2>3. c[i] = b[i + 1] - list[1].time /\ c[i - 1] = b[i] - list[1].time
      BY <2>1
    <2>4. list[i + 1].time \in Nat /\ list[1].time \in Nat /\ A[i] = list[i + 1]
      BY <2>1, <1>1, <1>3
    <2> HIDE DEF c
    <2> QED
      BY <2>2, <2>3, <2>4
  <1>7. Sums(A, c)
    <2> HIDE DEF c
    <2> QED
      BY <1>5, <1>6 DEF Sums
  <1>8. ASSUME NEW j \in 0 .. n PROVE b[j + 1] = Before(A)[j] + list[1].time
    <2>1. Before(A)[j] = c[j]
      <3> HIDE DEF c
      <3> QED
        BY <1>1, <1>7, BeforeIs
    <2>2. j + 1 \in 0 .. n + 1 /\ 1 \in 1 .. n + 1 /\ j \in 0 .. n
      BY <1>1
    <2>3. b[j + 1] \in Nat
      BY <2>2, <1>2
    <2>4. list[1].time \in Nat
      BY <2>2, <1>3
    <2>5. c[j] = b[j + 1] - list[1].time
      BY <2>2
    <2> HIDE DEF c
    <2> QED
      BY <2>1, <2>3, <2>4, <2>5
  <1> QED
    BY <1>1, <1>8 DEF A, b

LEMMA Pops ==
  ASSUME NEW list \in Seq(Entry), list # <<>>, Distinct(list), NEW t
  PROVE  /\ Tail(list) \in Seq(Entry) /\ Len(list) = Len(Tail(list)) + 1
         /\ Distinct(Tail(list)) /\ list[1].h \in Handlers(list)
         /\ Handlers(Tail(list)) = Handlers(list) \ {list[1].h}
         /\ Timer(t, list[1].h, list[1].left) \in Timers(t, list)
         /\ Timers(t, Tail(list)) = Timers(t, list) \ {Timer(t, list[1].h, list[1].left)}
         /\ InTime(list, -list[1].time) => InTime(Tail(list), 0)
         /\ Multiples(list) => Multiples(Tail(list))
  <1> DEFINE A == Tail(list)
  <1>1. /\ A \in Seq(Entry) /\ Len(list) = Len(A) + 1 /\ Len(A) \in Nat
        /\ \A j \in 1 .. Len(A) : A[j] = list[j + 1]
    OBVIOUS
  <1>2. \A j \in 0 .. Len(A) : Before(list)[j + 1] = Before(A)[j] + list[1].time
    BY PopSums
  <1> HIDE DEF A
  <1>3. Wider(A, list, 1)
    <2>1. \A j \in 1 .. Len(A) : Spread(1, j) = j + 1
      BY <1>1 DEF Spread
    <2> QED
      BY <2>1, <1>1 DEF Wider
  <1>4. /\ Handlers(list) = Handlers(A) \cup {list[1].h}
        /\ Timers(t, list) = Timers(t, A) \cup {Timer(t, list[1].h, list[1].left)}
        /\ Distinct(A) /\ list[1].h \notin Handlers(A)
    BY <1>1, <1>3, WiderSets
  <1>5. Timer(t, list[1].h, list[1].left) \notin Timers(t, A)
    BY <1>4 DEF Timers, Timer, Handlers
  <1>6. ASSUME InTime(list, -list[1].time) PROVE InTime(A, 0)
    <2> SUFFICES ASSUME NEW j \in 1 .. Len(A) PROVE A[j].left <= Before(A)[j] + 0
      BY DEF InTime
    <2>1. j + 1 \in 1 .. Len(list) /\ 1 \in 1 .. Len(list) /\ j \in 0 .. Len(A)
      BY <1>1
    <2>2. list[j + 1].left <= Before(list)[j + 1] + (-list[1].time)
      BY <2>1, <1>6 DEF InTime
    <2>3. list[j + 1].left \in Nat /\ list[1].time \in Nat /\ Before(A)[j] \in Nat
      BY <2>1, <1>1, EntryType, BeforeSums
    <2>4. Before(list)[j + 1] = Before(A)[j] + list[1].time /\ A[j] = list[j + 1]
      BY <2>1, <1>1, <1>2
    <2> QED
      BY <2>2, <2>3, <2>4
  <1>7. ASSUME Multiples(list) PROVE Multiples(A)
    BY SMTT(60), <1>1, <1>7 DEF Multiples
  <1> QED
    BY <1>1, <1>4, <1>5, <1>6, <1>7 DEF A

(* Only times count for the sums. *)
LEMMA SameSums ==
  ASSUME NEW A \in Seq(Entry), NEW B \in Seq(Entry), Len(A) = Len(B),
         \A i \in 1 .. Len(A) : A[i].time = B[i].time
  PROVE  \A i \in 0 .. Len(A) : Before(A)[i] = Before(B)[i]
  <1>1. Sums(A, Before(B))
    <2>1. Sums(B, Before(B))
      BY BeforeSums
    <2> QED
      BY <2>1 DEF Sums
  <1> QED
    BY <1>1, BeforeIs

-----------------------------------------------------------------------------
(* The pool *)

Entries(F) == UNION {{t} \X DOMAIN F[t] : t \in Task}

LEMMA UpTo ==
  ASSUME NEW n \in Nat
  PROVE  IsFiniteSet(1 .. n) /\ Cardinality(1 .. n) = n
  <1>1. /\ IsFiniteSet(1 .. n)
        /\ Cardinality(1 .. n) = IF 1 > n THEN 0 ELSE n - 1 + 1
    <2>1. 1 \in Int /\ n \in Int
      OBVIOUS
    <2> QED
      BY <2>1, FS_Interval
  <1>2. IF 1 > n THEN n = 0 ELSE n - 1 + 1 = n
    OBVIOUS
  <1> QED
    BY <1>1, <1>2

(* One thread's list changes. *)
LEMMA EntriesStep ==
  ASSUME NEW F \in [Task -> Seq(Entry)], NEW u \in Task, NEW list \in Seq(Entry),
         IsFiniteSet(Entries(F))
  PROVE  /\ IsFiniteSet(Entries([F EXCEPT ![u] = list]))
         /\ Cardinality(Entries([F EXCEPT ![u] = list])) + Len(F[u])
              = Cardinality(Entries(F)) + Len(list)
  <1> DEFINE G == [F EXCEPT ![u] = list]
             Others == UNION {{t} \X DOMAIN F[t] : t \in Task \ {u}}
  <1>1. ASSUME NEW H \in [Task -> Seq(Entry)], \A t \in Task \ {u} : H[t] = F[t]
        PROVE  /\ IsFiniteSet(Entries(H))
               /\ Cardinality(Entries(H)) = Cardinality(Others) + Len(H[u])
    <2> DEFINE Mine == {u} \X (1 .. Len(H[u]))
    <2>1. Entries(H) = Others \cup Mine
      BY <1>1 DEF Entries
    <2>2. Others \cap Mine = {}
      OBVIOUS
    <2>3. Others \subseteq Entries(F)
      BY DEF Entries
    <2>4. IsFiniteSet(Others)
      <3> HIDE DEF Others
      <3> QED
        BY <2>3, FS_Subset
    <2>5. IsFiniteSet(Mine) /\ Cardinality(Mine) = Len(H[u])
      <3>1. Len(H[u]) \in Nat
        BY <1>1
      <3>2. IsFiniteSet(1 .. Len(H[u])) /\ Cardinality(1 .. Len(H[u])) = Len(H[u])
        BY <3>1, UpTo
      <3>3. IsFiniteSet({u}) /\ Cardinality({u}) = 1
        BY FS_Singleton
      <3>4. IsFiniteSet(Mine) /\ Cardinality(Mine) = Cardinality({u}) * Cardinality(1 .. Len(H[u]))
        BY <3>2, <3>3, FS_Product
      <3> HIDE DEF Mine
      <3> QED
        BY <3>1, <3>2, <3>3, <3>4
    <2> HIDE DEF Others, Mine
    <2>6. /\ IsFiniteSet(Others \cup Mine)
          /\ Cardinality(Others \cup Mine) = Cardinality(Others) + Cardinality(Mine) - Cardinality(Others \cap Mine)
      BY <2>4, <2>5, FS_Union
    <2>7. Cardinality(Others \cap Mine) = 0 /\ Cardinality(Others) \in Nat /\ Cardinality(Mine) \in Nat
      BY <2>2, <2>4, <2>5, FS_EmptySet, FS_CardinalityType
    <2> QED
      BY <2>1, <2>5, <2>6, <2>7
  <1>2. /\ IsFiniteSet(Entries(G)) /\ Cardinality(Entries(G)) = Cardinality(Others) + Len(list)
    <2>1. G \in [Task -> Seq(Entry)] /\ (\A t \in Task \ {u} : G[t] = F[t]) /\ G[u] = list
      OBVIOUS
    <2> HIDE DEF G, Others
    <2> QED
      BY <2>1, <1>1
  <1>3. Cardinality(Entries(F)) = Cardinality(Others) + Len(F[u])
    <2> HIDE DEF Others
    <2> QED
      BY <1>1
  <1>4. IsFiniteSet(Others)
    <2>1. Others \subseteq Entries(F)
      BY DEF Entries
    <2> HIDE DEF Others
    <2> QED
      BY <2>1, FS_Subset
  <1> HIDE DEF G, Others
  <1>5. Cardinality(Others) \in Nat /\ Len(F[u]) \in Nat /\ Len(list) \in Nat
    BY <1>4, FS_CardinalityType
  <1> QED
    BY <1>2, <1>3, <1>5 DEF G

(* The timers there can be: at most one of each kind for its thread *)
Own(t) ==
  (IF t = Tcpip THEN {"tcpip_tcp_timer", "ip_reass_timer"} ELSE {"sswt_handler"})
    \cup (IF t = Starter THEN Startup ELSE {})

Slots == UNION {{t} \X Own(t) : t \in Task}

(* Enough entries for all of them *)
PoolSuffices == MEMP_NUM_SYS_TIMEOUT >= Cardinality(Sleeper) + 4

ListsOK(F) == \A t \in Task : Distinct(F[t]) /\ Handlers(F[t]) \subseteq Own(t)

LEMMA SlotsCount ==
  ASSUME Outsider = {}
  PROVE  IsFiniteSet(Slots) /\ Cardinality(Slots) <= Cardinality(Sleeper) + 4
  <1> DEFINE Waits == Sleeper \X {"sswt_handler"}
             A == <<Tcpip, "tcpip_tcp_timer">>
             B == <<Tcpip, "ip_reass_timer">>
             C == <<Starter, "arp_timer">>
             D == <<Starter, "tcp_timeout">>
             All == (((Waits \cup {A}) \cup {B}) \cup {C}) \cup {D}
  <1>1. Slots \subseteq All
    BY DEF Slots, Own, Task, Startup
  <1>2. IsFiniteSet(Waits) /\ Cardinality(Waits) = Cardinality(Sleeper)
    <2>1. IsFiniteSet(Sleeper) /\ IsFiniteSet({"sswt_handler"}) /\ Cardinality({"sswt_handler"}) = 1
      BY TimeoutAssumption, FS_Singleton
    <2>2. IsFiniteSet(Waits) /\ Cardinality(Waits) = Cardinality(Sleeper) * Cardinality({"sswt_handler"})
      BY <2>1, FS_Product
    <2>3. Cardinality(Sleeper) \in Nat
      BY <2>1, FS_CardinalityType
    <2> HIDE DEF Waits
    <2> QED
      BY <2>1, <2>2, <2>3
  <1> HIDE DEF Waits, A, B, C, D
  <1>3. ASSUME NEW S, NEW x, IsFiniteSet(S)
        PROVE  IsFiniteSet(S \cup {x}) /\ Cardinality(S \cup {x}) <= Cardinality(S) + 1
    <2>1. /\ IsFiniteSet(S \cup {x})
          /\ Cardinality(S \cup {x}) = IF x \in S THEN Cardinality(S) ELSE Cardinality(S) + 1
      BY <1>3, FS_AddElement
    <2>2. Cardinality(S) \in Nat
      BY <1>3, FS_CardinalityType
    <2> QED
      BY <2>1, <2>2
  <1>4. IsFiniteSet(Waits \cup {A}) /\ Cardinality(Waits \cup {A}) <= Cardinality(Waits) + 1
    BY <1>2, <1>3
  <1>5. /\ IsFiniteSet((Waits \cup {A}) \cup {B})
        /\ Cardinality((Waits \cup {A}) \cup {B}) <= Cardinality(Waits \cup {A}) + 1
    BY <1>4, <1>3
  <1>6. /\ IsFiniteSet(((Waits \cup {A}) \cup {B}) \cup {C})
        /\ Cardinality(((Waits \cup {A}) \cup {B}) \cup {C}) <= Cardinality((Waits \cup {A}) \cup {B}) + 1
    BY <1>5, <1>3
  <1>7. IsFiniteSet(All) /\ Cardinality(All) <= Cardinality(((Waits \cup {A}) \cup {B}) \cup {C}) + 1
    BY <1>6, <1>3
  <1>8. /\ Cardinality(Waits) \in Nat /\ Cardinality(Waits \cup {A}) \in Nat
        /\ Cardinality((Waits \cup {A}) \cup {B}) \in Nat
        /\ Cardinality(((Waits \cup {A}) \cup {B}) \cup {C}) \in Nat /\ Cardinality(All) \in Nat
    BY <1>2, <1>4, <1>5, <1>6, <1>7, FS_CardinalityType
  <1> HIDE DEF All
  <1>9. IsFiniteSet(Slots) /\ Cardinality(Slots) <= Cardinality(All)
    BY <1>1, <1>7, FS_Subset
  <1>10. Cardinality(Slots) \in Nat
    BY <1>9, FS_CardinalityType
  <1> QED
    BY <1>2, <1>4, <1>5, <1>6, <1>7, <1>8, <1>9, <1>10

(* As many entries are free as there are timers that are not armed. *)
LEMMA RoomForTimers ==
  ASSUME Outsider = {}, PoolSuffices, NEW F \in [Task -> Seq(Entry)], ListsOK(F),
         IsFiniteSet(Entries(F)), NEW S \in SUBSET Slots,
         \A s \in S : s[2] \notin Handlers(F[s[1]])
  PROVE  IsFiniteSet(S) /\ Cardinality(Entries(F)) + Cardinality(S) <= MEMP_NUM_SYS_TIMEOUT
  <1> DEFINE E == Entries(F)
             f == [e \in E |-> <<e[1], F[e[1]][e[2]].h>>]
             T == Slots \ S
  <1>1. \A e \in E : e[1] \in Task /\ e[2] \in 1 .. Len(F[e[1]]) /\ e = <<e[1], e[2]>>
    BY DEF Entries
  <1>2. \A e \in E : f[e] \in T
    <2> TAKE e \in E
    <2>1. f[e] = <<e[1], F[e[1]][e[2]].h>>
      OBVIOUS
    <2>2. F[e[1]][e[2]].h \in Handlers(F[e[1]]) /\ e[1] \in Task
      BY <1>1 DEF Handlers
    <2>3. F[e[1]][e[2]].h \in Own(e[1])
      BY <2>2 DEF ListsOK
    <2>4. f[e] \in Slots
      BY <2>1, <2>2, <2>3 DEF Slots
    <2>5. f[e][1] = e[1] /\ f[e][2] = F[e[1]][e[2]].h
      BY <2>1
    <2> HIDE DEF f
    <2> QED
      BY <2>2, <2>4, <2>5
  <1>3. \A d, e \in E : f[d] = f[e] => d = e
    <2> SUFFICES ASSUME NEW d \in E, NEW e \in E, f[d] = f[e] PROVE d = e
      OBVIOUS
    <2>1. d[1] = e[1] /\ F[d[1]][d[2]].h = F[e[1]][e[2]].h
      OBVIOUS
    <2>2. Distinct(F[e[1]])
      BY <1>1 DEF ListsOK
    <2>3. d[2] = e[2]
      BY <2>1, <2>2, <1>1 DEF Distinct
    <2> QED
      BY <2>1, <2>3, <1>1
  <1>4. f \in Injection(E, T)
    <2>1. f \in [E -> T]
      BY <1>2
    <2> QED
      BY <2>1, <1>3 DEF Injection, IsInjective
  <1>5. IsFiniteSet(Slots) /\ Cardinality(Slots) <= Cardinality(Sleeper) + 4
    BY SlotsCount
  <1>6. IsFiniteSet(S)
    BY <1>5, FS_Subset
  <1>7. IsFiniteSet(T) /\ Cardinality(T) = Cardinality(Slots) - Cardinality(S)
    <2>1. Slots \cap S = S
      OBVIOUS
    <2> QED
      BY <2>1, <1>5, FS_Difference
  <1> HIDE DEF E, f, T
  <1>8. Cardinality(E) <= Cardinality(T)
    BY <1>4, <1>7, FS_Injection
  <1>9. /\ Cardinality(E) \in Nat /\ Cardinality(T) \in Nat /\ Cardinality(S) \in Nat
        /\ Cardinality(Slots) \in Nat /\ Cardinality(Sleeper) \in Nat
    BY <1>5, <1>6, <1>7, FS_CardinalityType, TimeoutAssumption DEF E
  <1>10. Cardinality(E) + Cardinality(S) <= MEMP_NUM_SYS_TIMEOUT
    BY <1>5, <1>7, <1>8, <1>9, TimeoutAssumption DEF PoolSuffices
  <1> QED
    BY <1>6, <1>10 DEF E

-----------------------------------------------------------------------------
(* What a step does to the list of the thread that takes it *)

PoolOK(F, f) ==
  IsFiniteSet(Entries(F)) /\ f + Cardinality(Entries(F)) = MEMP_NUM_SYS_TIMEOUT

(* Entries move between the list and the pool, and none of them is lost. *)
Moves(t, list, f, L) ==
  /\ L.list \in Seq(Entry) /\ Distinct(L.list) /\ Handlers(L.list) \subseteq Own(t)
  /\ L.free \in Nat /\ L.free + Len(L.list) = f + Len(list)

AllMultiples == \A ms \in Interval : Multiple(ms)

LEMMA ListStep ==
  ASSUME NEW F \in [Task -> Seq(Entry)], NEW f \in Nat, ListsOK(F), PoolOK(F, f),
         NEW u \in Task, NEW L, Moves(u, F[u], f, L)
  PROVE  LET G == [F EXCEPT ![u] = L.list]
         IN  /\ G \in [Task -> Seq(Entry)] /\ ListsOK(G) /\ PoolOK(G, L.free)
             /\ L.free \in 0 .. MEMP_NUM_SYS_TIMEOUT
  <1> DEFINE G == [F EXCEPT ![u] = L.list]
  <1>1. L.list \in Seq(Entry) /\ L.free \in Nat /\ L.free + Len(L.list) = f + Len(F[u])
    BY DEF Moves
  <1>2. G \in [Task -> Seq(Entry)]
    BY <1>1
  <1>3. ListsOK(G)
    BY DEF ListsOK, Moves
  <1>4. /\ IsFiniteSet(Entries(G))
        /\ Cardinality(Entries(G)) + Len(F[u]) = Cardinality(Entries(F)) + Len(L.list)
    BY <1>1, EntriesStep DEF PoolOK
  <1>5. /\ Cardinality(Entries(G)) \in Nat /\ Cardinality(Entries(F)) \in Nat
        /\ Len(F[u]) \in Nat /\ Len(L.list) \in Nat
    BY <1>1, <1>4, FS_CardinalityType DEF PoolOK
  <1> HIDE DEF G
  <1>6. L.free + Cardinality(Entries(G)) = MEMP_NUM_SYS_TIMEOUT
    <2>1. f + Cardinality(Entries(F)) = MEMP_NUM_SYS_TIMEOUT
      BY DEF PoolOK
    <2> DEFINE a == Len(F[u])
               b == Len(L.list)
               c == Cardinality(Entries(G))
               d == Cardinality(Entries(F))
               l == L.free
    <2>2. /\ a \in Nat /\ b \in Nat /\ c \in Nat /\ d \in Nat /\ l \in Nat
          /\ l + b = f + a /\ c + a = d + b /\ f + d = MEMP_NUM_SYS_TIMEOUT
      BY <1>1, <1>4, <1>5, <2>1
    <2> HIDE DEF a, b, c, d, l
    <2>3. l + c = MEMP_NUM_SYS_TIMEOUT
      BY <2>2
    <2> QED
      BY <2>3 DEF c, l
  <1>7. PoolOK(G, L.free) /\ L.free \in 0 .. MEMP_NUM_SYS_TIMEOUT
    BY <1>1, <1>4, <1>5, <1>6, TimeoutAssumption DEF PoolOK
  <1> QED
    BY <1>2, <1>3, <1>7 DEF G

(* An entry is free for a timer that is not armed, and two for two. *)
LEMMA Room ==
  ASSUME Outsider = {}, PoolSuffices, NEW F \in [Task -> Seq(Entry)], NEW f \in Nat,
         ListsOK(F), PoolOK(F, f), NEW t \in Task, NEW h \in Own(t), h \notin Handlers(F[t])
  PROVE  /\ f > 0
         /\ \A g \in Own(t) : (g # h /\ g \notin Handlers(F[t])) => f > 1
  <1>1. Cardinality(Entries(F)) \in Nat
    BY FS_CardinalityType DEF PoolOK
  <1>2. <<t, h>> \in Slots
    BY DEF Slots
  <1>3. f > 0
    <2> DEFINE S == {<<t, h>>}
    <2>1. S \in SUBSET Slots /\ \A s \in S : s[2] \notin Handlers(F[s[1]])
      BY <1>2
    <2>2. Cardinality(S) = 1
      BY FS_Singleton
    <2> HIDE DEF S
    <2>3. Cardinality(Entries(F)) + Cardinality(S) <= MEMP_NUM_SYS_TIMEOUT
      BY <2>1, RoomForTimers DEF PoolOK
    <2> QED
      BY <1>1, <2>2, <2>3 DEF PoolOK
  <1>4. ASSUME NEW g \in Own(t), g # h, g \notin Handlers(F[t]) PROVE f > 1
    <2> DEFINE S == {<<t, h>>} \cup {<<t, g>>}
    <2>1. S \in SUBSET Slots /\ \A s \in S : s[2] \notin Handlers(F[s[1]])
      BY <1>2, <1>4 DEF Slots
    <2>2. Cardinality(S) = 2
      <3>1. IsFiniteSet({<<t, h>>}) /\ Cardinality({<<t, h>>}) = 1
        BY FS_Singleton
      <3>2. <<t, g>> \notin {<<t, h>>}
        BY <1>4
      <3>3. Cardinality({<<t, h>>} \cup {<<t, g>>}) =
              IF <<t, g>> \in {<<t, h>>} THEN Cardinality({<<t, h>>})
                                         ELSE Cardinality({<<t, h>>}) + 1
        BY <3>1, FS_AddElement
      <3> QED
        BY <3>1, <3>2, <3>3
    <2> HIDE DEF S
    <2>3. Cardinality(Entries(F)) + Cardinality(S) <= MEMP_NUM_SYS_TIMEOUT
      BY <2>1, RoomForTimers DEF PoolOK
    <2> QED
      BY <1>1, <2>2, <2>3 DEF PoolOK
  <1> QED
    BY <1>3, <1>4

LEMMA ArmIs ==
  ASSUME NEW t \in Task, NEW list \in Seq(Entry), Distinct(list), Handlers(list) \subseteq Own(t),
         NEW f \in Nat, f > 0, NEW h \in Handler, h \in Own(t), h \notin Handlers(list),
         NEW ms \in Interval
  PROVE  LET L == SysTimeout([list |-> list, free |-> f], h, ms)
         IN  /\ Moves(t, list, f, L) /\ L.free = f - 1
             /\ Handlers(L.list) = Handlers(list) \cup {h}
             /\ Timers(t, L.list) = Timers(t, list) \cup {Timer(t, h, ms)}
             /\ InTime(list, 0) => InTime(L.list, 0)
             /\ (AllMultiples /\ Multiples(list)) => Multiples(L.list)
  <1> DEFINE L == SysTimeout([list |-> list, free |-> f], h, ms)
  <1>1. ms \in Nat
    BY TimeoutAssumption
  <1>2. /\ L.list \in Seq(Entry) /\ Len(L.list) = Len(list) + 1
        /\ L.free = f - 1
        /\ Handlers(L.list) = Handlers(list) \cup {h}
        /\ Timers(t, L.list) = Timers(t, list) \cup {Timer(t, h, ms)}
        /\ (Distinct(list) /\ h \notin Handlers(list)) => Distinct(L.list)
        /\ InTime(list, 0) => InTime(L.list, 0)
        /\ (Multiples(list) /\ Multiple(ms)) => Multiples(L.list)
    BY SMTT(60), <1>1, Sets
  <1> HIDE DEF L
  <1>3. L.free \in Nat /\ L.free + Len(L.list) = f + Len(list)
    BY <1>2
  <1>4. Moves(t, list, f, L)
    BY <1>2, <1>3 DEF Moves
  <1> QED
    BY <1>2, <1>4 DEF AllMultiples, L

LEMMA PopIs ==
  ASSUME NEW t \in Task, NEW list \in Seq(Entry), list # <<>>, Distinct(list),
         Handlers(list) \subseteq Own(t), NEW f \in Nat
  PROVE  LET L == Pop([list |-> list, free |-> f])
         IN  /\ Moves(t, list, f, L) /\ L = [list |-> L.list, free |-> L.free]
             /\ L.free > 0 /\ list[1].h \in Handlers(list)
             /\ Handlers(L.list) = Handlers(list) \ {list[1].h}
             /\ Timer(t, list[1].h, list[1].left) \in Timers(t, list)
             /\ Timers(t, L.list) = Timers(t, list) \ {Timer(t, list[1].h, list[1].left)}
             /\ InTime(list, -list[1].time) => InTime(L.list, 0)
             /\ (AllMultiples /\ Multiples(list)) => Multiples(L.list)
  <1> DEFINE A == Tail(list)
  <1>1. Pop([list |-> list, free |-> f]) = [list |-> A, free |-> f + 1]
    BY DEF Pop
  <1>2. /\ A \in Seq(Entry) /\ Len(list) = Len(A) + 1
        /\ Distinct(A) /\ list[1].h \in Handlers(list)
        /\ Handlers(A) = Handlers(list) \ {list[1].h}
        /\ Timer(t, list[1].h, list[1].left) \in Timers(t, list)
        /\ Timers(t, A) = Timers(t, list) \ {Timer(t, list[1].h, list[1].left)}
        /\ InTime(list, -list[1].time) => InTime(A, 0)
        /\ Multiples(list) => Multiples(A)
    BY Pops
  <1> HIDE DEF A
  <1>3. f + 1 \in Nat /\ f + 1 > 0 /\ (f + 1) + Len(A) = f + Len(list)
    <2>1. Len(A) \in Nat
      BY <1>2
    <2> QED
      BY <2>1, <1>2
  <1>4. Moves(t, list, f, [list |-> A, free |-> f + 1])
    BY <1>2, <1>3 DEF Moves
  <1> QED
    BY <1>1, <1>2, <1>3, <1>4

(* A handler that sets its timeout again *)
LEMMA RearmIs ==
  ASSUME NEW t \in Task, NEW list \in Seq(Entry), list # <<>>, Distinct(list),
         Handlers(list) \subseteq Own(t), NEW f \in Nat, NEW ms \in Interval
  PROVE  LET L == SysTimeout(Pop([list |-> list, free |-> f]), list[1].h, ms)
         IN  /\ Moves(t, list, f, L)
             /\ Handlers(L.list) = Handlers(list)
             /\ Timers(t, L.list) = (Timers(t, list) \ {Timer(t, list[1].h, list[1].left)})
                                      \cup {Timer(t, list[1].h, ms)}
             /\ InTime(list, -list[1].time) => InTime(L.list, 0)
             /\ (AllMultiples /\ Multiples(list)) => Multiples(L.list)
  <1> DEFINE P == Pop([list |-> list, free |-> f])
             L == SysTimeout(P, list[1].h, ms)
             h == list[1].h
  <1>1. /\ Moves(t, list, f, P) /\ P = [list |-> P.list, free |-> P.free]
        /\ P.free > 0 /\ h \in Handlers(list)
        /\ Handlers(P.list) = Handlers(list) \ {h}
        /\ Timers(t, P.list) = Timers(t, list) \ {Timer(t, h, list[1].left)}
        /\ InTime(list, -list[1].time) => InTime(P.list, 0)
        /\ (AllMultiples /\ Multiples(list)) => Multiples(P.list)
    BY PopIs
  <1>2. h \in Own(t) /\ h \in Handler /\ h \notin Handlers(P.list)
    <2>1. 1 \in 1 .. Len(list)
      OBVIOUS
    <2>2. list[1].h \in Handler
      BY <2>1, EntryType
    <2> QED
      BY <2>2, <1>1
  <1>3. /\ P.list \in Seq(Entry) /\ Distinct(P.list) /\ Handlers(P.list) \subseteq Own(t)
        /\ P.free \in Nat /\ P.free + Len(P.list) = f + Len(list)
    BY <1>1 DEF Moves
  <1> HIDE DEF P, h
  <1>4. LET M == SysTimeout([list |-> P.list, free |-> P.free], h, ms)
        IN  /\ Moves(t, P.list, P.free, M) /\ M.free = P.free - 1
            /\ Handlers(M.list) = Handlers(P.list) \cup {h}
            /\ Timers(t, M.list) = Timers(t, P.list) \cup {Timer(t, h, ms)}
            /\ InTime(P.list, 0) => InTime(M.list, 0)
            /\ (AllMultiples /\ Multiples(P.list)) => Multiples(M.list)
    BY <1>1, <1>2, <1>3, ArmIs
  <1>5. L = SysTimeout([list |-> P.list, free |-> P.free], h, ms)
    BY <1>1 DEF h
  <1> HIDE DEF L
  <1>6. Moves(t, list, f, L)
    BY <1>3, <1>4, <1>5 DEF Moves
  <1>7. Handlers(L.list) = Handlers(list)
    BY <1>1, <1>4, <1>5
  <1>8. /\ Timers(t, L.list) = (Timers(t, list) \ {Timer(t, h, list[1].left)}) \cup {Timer(t, h, ms)}
        /\ InTime(list, -list[1].time) => InTime(L.list, 0)
        /\ (AllMultiples /\ Multiples(list)) => Multiples(L.list)
    BY <1>1, <1>4, <1>5
  <1> QED
    BY <1>6, <1>7, <1>8 DEF L, P, h

LEMMA CancelIs ==
  ASSUME NEW t \in Task, NEW list \in Seq(Entry), Distinct(list), Handlers(list) \subseteq Own(t),
         NEW f \in Nat, NEW h
  PROVE  LET L == SysUntimeout([list |-> list, free |-> f], h)
         IN  /\ Moves(t, list, f, L)
             /\ Handlers(L.list) = Handlers(list) \ {h}
             /\ h \notin Handlers(list) => L = [list |-> list, free |-> f]
             /\ h \in Handlers(list) =>
                  Removes(t, list, L.list, h)
             /\ InTime(list, 0) => InTime(L.list, 0)
             /\ Multiples(list) => Multiples(L.list)
  <1> DEFINE L == SysUntimeout([list |-> list, free |-> f], h)
  <1>1. CASE h \in Handlers(list)
    <2>1. /\ L.list \in Seq(Entry) /\ Len(list) = Len(L.list) + 1
          /\ L.free = f + 1 /\ Distinct(L.list)
          /\ Handlers(L.list) = Handlers(list) \ {h}
          /\ Removes(t, list, L.list, h)
          /\ InTime(list, 0) => InTime(L.list, 0)
          /\ Multiples(list) => Multiples(L.list)
      <3>1. LET new == SysUntimeout([list |-> list, free |-> f], h)
            IN  /\ new.list \in Seq(Entry) /\ Len(list) = Len(new.list) + 1
                /\ new.free = f + 1 /\ Distinct(new.list)
                /\ Handlers(new.list) = Handlers(list) \ {h}
                /\ Removes(t, list, new.list, h)
                /\ InTime(list, 0) => InTime(new.list, 0)
                /\ Multiples(list) => Multiples(new.list)
        <4> HIDE DEF L
        <4> QED
          BY <1>1, Cancels
      <3> QED
        BY <3>1
    <2> HIDE DEF L
    <2> DEFINE a == Len(list)
               b == Len(L.list)
               l == L.free
    <2>2. a \in Nat /\ b \in Nat /\ a = b + 1 /\ l = f + 1
      BY <2>1
    <2> HIDE DEF a, b, l
    <2>3. l \in Nat /\ l + b = f + a
      BY <2>2
    <2> USE DEF a, b, l
    <2>4. Moves(t, list, f, L)
      BY <2>1, <2>3 DEF Moves
    <2> QED
      BY <1>1, <2>1, <2>4 DEF L
  <1>2. CASE h \notin Handlers(list)
    <2>1. L = [list |-> list, free |-> f]
      BY <1>2, ArmedHandlers DEF SysUntimeout
    <2>2. Handlers(list) = Handlers(list) \ {h}
      BY <1>2
    <2> HIDE DEF L
    <2>3. L.list = list /\ L.free = f
      BY <2>1
    <2>4. Moves(t, list, f, L)
      BY <2>3 DEF Moves
    <2> QED
      BY <1>2, <2>1, <2>2, <2>3, <2>4 DEF L
  <1> QED
    BY <1>1, <1>2

-----------------------------------------------------------------------------
(* The inductive invariant *)

(* The flags and counters agree with the timers that are armed. *)
FlagsOK ==
  /\ pcbs => tcpip_tcp_timer_active
  /\ tcpip_tcp_timer_active <=> "tcpip_tcp_timer" \in Handlers(timeouts[Tcpip])
  /\ ip_reasstmr > 0 <=> "ip_reass_timer" \in Handlers(timeouts[Tcpip])
  /\ \A h \in Startup : started <=> h \in Handlers(timeouts[Starter])

One(b) == IF b THEN 1 ELSE 0

(* The semaphore of a call counts the event and the timeout, each once;    *)
(* outside of a call it is gone, and so is the timeout.                    *)
CallOK ==
  \A t \in Task :
    /\ "sswt_handler" \in Handlers(timeouts[t]) => pc[t] # "run" /\ ~timeflag[t]
    /\ t = Tcpip => cnt[t] = 0
    /\ cnt[t] <= One(signalled[t]) + One(timeflag[t])
    /\ pc[t] = "run" => cnt[t] = 0

(* A thread whose wait may end without a message has an entry to run. *)
WaitOK ==
  /\ pc[Tcpip] = "got" => mbox # <<>>
  /\ \A t \in Task :
       /\ dly[t] > 0 => pc[t] = "pend"
       /\ (pc[t] \in {"timedout", "expired"} \/ dly[t] > 0) => timeouts[t] # <<>>
       /\ pc[t] = "expired" => timeouts[t][1].time = 0
       /\ (pc[t] = "pend" /\ dly[t] = 0) => timeouts[t] = <<>>

ListOK == ListsOK(timeouts) /\ PoolOK(timeouts, free)

IInv == TypeOK /\ ListOK /\ FlagsOK /\ CallOK /\ WaitOK

LEMMA Threads ==
  ASSUME Outsider = {}
  PROVE  /\ Task = {Tcpip} \cup Sleeper /\ Tcpip \notin Sleeper
         /\ Starter \in Sleeper /\ Starter # Tcpip
         /\ \A t \in Task : List(t) = timeouts[t]
         /\ \A t \in Task : Of(t) = [list |-> timeouts[t], free |-> free]
  BY TimeoutAssumption DEF Task, List, Of

LEMMA Owns ==
  ASSUME Outsider = {}
  PROVE  /\ "tcpip_tcp_timer" \in Own(Tcpip) /\ "ip_reass_timer" \in Own(Tcpip)
         /\ "sswt_handler" \notin Own(Tcpip)
         /\ \A h \in Startup : h \in Own(Starter) /\ h \notin Own(Tcpip)
         /\ \A t \in Sleeper : /\ "sswt_handler" \in Own(t)
                               /\ "tcpip_tcp_timer" \notin Own(t) /\ "ip_reass_timer" \notin Own(t)
         /\ \A t \in Task : t # Starter => \A h \in Startup : h \notin Own(t)
  BY Threads DEF Own, Startup

LEMMA TheIntervals ==
  /\ TCP_TMR_INTERVAL \in Interval /\ IP_REASS_TMO \in Interval
  /\ StartupInterval \in Interval /\ SleepMs \subseteq Interval /\ Interval \subseteq Nat
  /\ \A h \in Startup \cup {"tcpip_tcp_timer", "ip_reass_timer", "sswt_handler"} : h \in Handler
  BY TimeoutAssumption DEF Interval, Handler

LEMMA InvInit ==
  ASSUME Outsider = {}
  PROVE  Init => IInv
  <1> SUFFICES ASSUME Init PROVE IInv
    OBVIOUS
  <1>1. TypeOK
    <2>1. <<>> \in Seq(Entry) /\ <<>> \in Seq(Message) /\ Len(<<>>) = 0
      OBVIOUS
    <2>2. timeouts \in [Task -> Seq(Entry)] /\ mbox \in Seq(Message) /\ Len(mbox) <= MaxMbox
      BY <2>1, TimeoutAssumption DEF Init
    <2>3. free \in 0 .. MEMP_NUM_SYS_TIMEOUT /\ ip_reasstmr \in 0 .. IP_REASS_MAXAGE
      BY TimeoutAssumption DEF Init
    <2>4. pc \in [Task -> {"run", "again", "pend", "timedout", "expired", "got"}]
      BY DEF Init
    <2>5. dly \in [Task -> Nat] /\ cnt \in [Task -> 0 .. 2]
      BY DEF Init
    <2>6. timeflag \in [Task -> BOOLEAN] /\ signalled \in [Task -> BOOLEAN]
      BY DEF Init
    <2>7. pcbs \in BOOLEAN /\ tcpip_tcp_timer_active \in BOOLEAN /\ started \in BOOLEAN
      BY DEF Init
    <2> QED
      BY <2>2, <2>3, <2>4, <2>5, <2>6, <2>7 DEF TypeOK
  <1>2. \A t \in Task : timeouts[t] = <<>> /\ Handlers(timeouts[t]) = {}
    BY DEF Init, Handlers
  <1>3. ListOK
    <2>1. ListsOK(timeouts)
      BY <1>2 DEF ListsOK, Distinct
    <2>2. Entries(timeouts) = {}
      <3>1. DOMAIN <<>> = {}
        OBVIOUS
      <3> QED
        BY <1>2, <3>1 DEF Entries
    <2>3. IsFiniteSet({}) /\ Cardinality({}) = 0
      BY FS_EmptySet
    <2>4. free + 0 = MEMP_NUM_SYS_TIMEOUT
      BY TimeoutAssumption DEF Init
    <2> QED
      BY <2>1, <2>2, <2>3, <2>4 DEF ListOK, PoolOK
  <1>4. FlagsOK
    BY <1>2, Threads DEF FlagsOK, Init
  <1>5. CallOK
    BY <1>2, Threads DEF CallOK, Init, One
  <1>6. WaitOK
    BY <1>2, Threads DEF WaitOK, Init
  <1> QED
    BY <1>1, <1>3, <1>4, <1>5, <1>6 DEF IInv

(* The part of the invariant that is about the lists *)
LEMMA ListOKStep ==
  ASSUME TypeOK, ListOK, NEW u \in Task, NEW L, Moves(u, timeouts[u], free, L), SetList(u, L)
  PROVE  /\ timeouts' \in [Task -> Seq(Entry)] /\ free' \in 0 .. MEMP_NUM_SYS_TIMEOUT
         /\ ListOK' /\ timeouts'[u] = L.list
         /\ \A t \in Task : t # u => timeouts'[t] = timeouts[t]
  <1>1. timeouts \in [Task -> Seq(Entry)] /\ free \in Nat
    BY TimeoutAssumption DEF TypeOK
  <1>2. LET G == [timeouts EXCEPT ![u] = L.list]
        IN  /\ G \in [Task -> Seq(Entry)] /\ ListsOK(G) /\ PoolOK(G, L.free)
            /\ L.free \in 0 .. MEMP_NUM_SYS_TIMEOUT
    BY <1>1, ListStep DEF ListOK
  <1>3. timeouts' = [timeouts EXCEPT ![u] = L.list] /\ free' = L.free
    BY DEF SetList
  <1> QED
    BY <1>1, <1>2, <1>3 DEF ListOK

(* Nothing changes in the lists but the time that is left. *)
LEMMA TickLists ==
  ASSUME timeouts \in [Task -> Seq(Entry)], Tick
  PROVE  /\ timeouts' \in [Task -> Seq(Entry)]
         /\ \A t \in Task :
              /\ Len(timeouts'[t]) = Len(timeouts[t])
              /\ Handlers(timeouts'[t]) = Handlers(timeouts[t])
              /\ \A i \in 1 .. Len(timeouts[t]) :
                   /\ timeouts'[t][i].h = timeouts[t][i].h
                   /\ timeouts'[t][i].time = timeouts[t][i].time
                   /\ timeouts'[t][i].left =
                        IF timeouts[t][i].left > MsPerTick THEN timeouts[t][i].left - MsPerTick ELSE 0
  <1> DEFINE After(t) == [i \in 1 .. Len(timeouts[t]) |->
                [timeouts[t][i] EXCEPT !.left = IF @ > MsPerTick THEN @ - MsPerTick ELSE 0]]
  <1>1. timeouts' = [t \in Task |-> After(t)]
    BY DEF Tick
  <1>2. ASSUME NEW t \in Task
        PROVE  /\ After(t) \in Seq(Entry) /\ Len(After(t)) = Len(timeouts[t])
               /\ \A i \in 1 .. Len(timeouts[t]) :
                    /\ After(t)[i].h = timeouts[t][i].h
                    /\ After(t)[i].time = timeouts[t][i].time
                    /\ After(t)[i].left =
                         IF timeouts[t][i].left > MsPerTick THEN timeouts[t][i].left - MsPerTick ELSE 0
    <2> DEFINE list == timeouts[t]
               n == Len(list)
    <2>1. list \in Seq(Entry) /\ n \in Nat
      OBVIOUS
    <2> HIDE DEF list
    <2>2. ASSUME NEW i \in 1 .. n
          PROVE  LET e == [list[i] EXCEPT !.left = IF @ > MsPerTick THEN @ - MsPerTick ELSE 0]
                     l == IF list[i].left > MsPerTick THEN list[i].left - MsPerTick ELSE 0
                 IN  e = [time |-> list[i].time, h |-> list[i].h, left |-> l] /\ e \in Entry
      <3>1. /\ list[i] = [time |-> list[i].time, h |-> list[i].h, left |-> list[i].left]
            /\ list[i].time \in Nat /\ list[i].left \in Nat /\ list[i].h \in Handler
        BY <2>1, EntryType
      <3>2. (IF list[i].left > MsPerTick THEN list[i].left - MsPerTick ELSE 0) \in Nat
        BY <3>1, TimeoutAssumption
      <3>3. [list[i] EXCEPT !.left = IF @ > MsPerTick THEN @ - MsPerTick ELSE 0] =
              [time |-> list[i].time, h |-> list[i].h,
               left |-> IF list[i].left > MsPerTick THEN list[i].left - MsPerTick ELSE 0]
        BY <3>1
      <3> QED
        BY <3>1, <3>2, <3>3 DEF Entry
    <2> DEFINE A == [i \in 1 .. n |->
                       [list[i] EXCEPT !.left = IF @ > MsPerTick THEN @ - MsPerTick ELSE 0]]
    <2>3. \A i \in 1 .. n : A[i] \in Entry
      BY <2>2
    <2>4. A \in Seq(Entry) /\ Len(A) = n
      <3>1. A = [j \in 1 .. n |-> A[j]]
        OBVIOUS
      <3> HIDE DEF A
      <3> QED
        BY <2>1, <2>3, <3>1, FunctionIsSeq
    <2>5. \A i \in 1 .. n :
             A[i] = [time |-> list[i].time, h |-> list[i].h,
                     left |-> IF list[i].left > MsPerTick THEN list[i].left - MsPerTick ELSE 0]
      BY <2>2
    <2>6. After(t) = A
      BY DEF list
    <2> HIDE DEF A
    <2>7. \A i \in 1 .. n :
             /\ A[i].h = list[i].h /\ A[i].time = list[i].time
             /\ A[i].left = IF list[i].left > MsPerTick THEN list[i].left - MsPerTick ELSE 0
      <3> TAKE i \in 1 .. n
      <3> DEFINE l == IF list[i].left > MsPerTick THEN list[i].left - MsPerTick ELSE 0
      <3>1. A[i] = [time |-> list[i].time, h |-> list[i].h, left |-> l]
        BY <2>5
      <3> HIDE DEF l
      <3>2. A[i].h = list[i].h /\ A[i].time = list[i].time /\ A[i].left = l
        BY <3>1
      <3> QED
        BY <3>2 DEF l
    <2> HIDE DEF After
    <2> QED
      BY <2>4, <2>6, <2>7 DEF list
  <1> HIDE DEF After
  <1>3. timeouts' \in [Task -> Seq(Entry)]
    BY <1>1, <1>2
  <1>4. \A t \in Task : timeouts'[t] = After(t)
    BY <1>1
  <1>5. \A t \in Task : Handlers(After(t)) = Handlers(timeouts[t])
    BY <1>2 DEF Handlers
  <1> QED
    BY <1>2, <1>3, <1>4, <1>5

-----------------------------------------------------------------------------
(* Every step keeps the invariant. *)

LEMMA EmptyLen ==
  ASSUME NEW A \in Seq(Entry), NEW B \in Seq(Entry), Len(A) = Len(B)
  PROVE  A = <<>> <=> B = <<>>
  OBVIOUS

LEMMA TickKeeps ==
  ASSUME IInv, Tick
  PROVE  IInv'
  <1>0. TypeOK /\ ListOK /\ FlagsOK /\ CallOK /\ WaitOK
    BY DEF IInv
  <1>1. /\ timeouts \in [Task -> Seq(Entry)] /\ dly \in [Task -> Nat]
        /\ pc \in [Task -> {"run", "again", "pend", "timedout", "expired", "got"}]
    BY <1>0 DEF TypeOK
  <1>2. /\ timeouts' \in [Task -> Seq(Entry)]
        /\ \A t \in Task :
              /\ Len(timeouts'[t]) = Len(timeouts[t])
              /\ Handlers(timeouts'[t]) = Handlers(timeouts[t])
              /\ \A i \in 1 .. Len(timeouts[t]) :
                   /\ timeouts'[t][i].h = timeouts[t][i].h
                   /\ timeouts'[t][i].time = timeouts[t][i].time
    BY <1>1, TickLists
  <1>3. /\ dly' = [t \in Task |-> IF dly[t] = 0 THEN 0 ELSE dly[t] - 1]
        /\ pc' = [t \in Task |-> IF dly[t] = 1 THEN "timedout" ELSE pc[t]]
        /\ UNCHANGED <<free, timeflag, cnt, signalled, mbox, stack, started>>
    BY DEF Tick
  <1>4. TypeOK'
    <2>1. dly' \in [Task -> Nat]
      BY <1>1, <1>3
    <2>2. pc' \in [Task -> {"run", "again", "pend", "timedout", "expired", "got"}]
      BY <1>1, <1>3
    <2> QED
      BY <1>0, <1>2, <1>3, <2>1, <2>2 DEF TypeOK, stack
  <1>5. ListOK'
    <2>1. ListsOK(timeouts')
      <3> SUFFICES ASSUME NEW t \in Task
                   PROVE  Distinct(timeouts'[t]) /\ Handlers(timeouts'[t]) \subseteq Own(t)
        BY DEF ListsOK
      <3>1. Distinct(timeouts[t]) /\ Handlers(timeouts[t]) \subseteq Own(t)
        BY <1>0 DEF ListOK, ListsOK
      <3> QED
        BY <1>2, <3>1 DEF Distinct
    <2>2. Entries(timeouts') = Entries(timeouts)
      <3>1. \A t \in Task : DOMAIN timeouts'[t] = DOMAIN timeouts[t]
        BY <1>1, <1>2
      <3> QED
        BY <3>1 DEF Entries
    <2> QED
      BY <1>0, <1>3, <2>1, <2>2 DEF ListOK, PoolOK
  <1>6. FlagsOK'
    <2>1. Tcpip \in Task /\ Starter \in Task
      BY TimeoutAssumption DEF Task
    <2> QED
      BY <1>0, <1>2, <1>3, <2>1 DEF FlagsOK, stack
  <1>7. CallOK'
    BY <1>0, <1>1, <1>2, <1>3 DEF CallOK
  <1>8. WaitOK'
    <2>1. pc'[Tcpip] = "got" => mbox' # <<>>
      BY <1>0, <1>1, <1>3 DEF WaitOK, Task
    <2>2. ASSUME NEW t \in Task
          PROVE  /\ dly'[t] > 0 => pc'[t] = "pend"
                 /\ (pc'[t] \in {"timedout", "expired"} \/ dly'[t] > 0) => timeouts'[t] # <<>>
                 /\ pc'[t] = "expired" => timeouts'[t][1].time = 0
                 /\ (pc'[t] = "pend" /\ dly'[t] = 0) => timeouts'[t] = <<>>
      <3>1. /\ dly[t] > 0 => pc[t] = "pend"
            /\ (pc[t] \in {"timedout", "expired"} \/ dly[t] > 0) => timeouts[t] # <<>>
            /\ pc[t] = "expired" => timeouts[t][1].time = 0
            /\ (pc[t] = "pend" /\ dly[t] = 0) => timeouts[t] = <<>>
        BY <1>0 DEF WaitOK
      <3>2. timeouts'[t] = <<>> <=> timeouts[t] = <<>>
        BY <1>1, <1>2, EmptyLen
      <3>3. timeouts[t] # <<>> => timeouts'[t][1].time = timeouts[t][1].time
        <4>1. timeouts[t] # <<>> => 1 \in 1 .. Len(timeouts[t])
          BY <1>1
        <4> QED
          BY <4>1, <1>2
      <3>4. /\ dly[t] \in Nat /\ dly'[t] = IF dly[t] = 0 THEN 0 ELSE dly[t] - 1
            /\ pc'[t] = IF dly[t] = 1 THEN "timedout" ELSE pc[t]
        BY <1>1, <1>3
      <3> QED
        BY <3>1, <3>2, <3>3, <3>4
    <2> QED
      BY <2>1, <2>2 DEF WaitOK
  <1> QED
    BY <1>4, <1>5, <1>6, <1>7, <1>8 DEF IInv

(* Nothing happens to the lists. *)
LEMMA SameLists ==
  ASSUME ListOK, FlagsOK, UNCHANGED <<timeouts, free, stack, started>>
  PROVE  ListOK' /\ FlagsOK'
  BY DEF ListOK, FlagsOK, stack

LEMMA TicksPositive ==
  ASSUME NEW ms \in Nat, ms # 0
  PROVE  Ticks(ms) \in Nat /\ Ticks(ms) > 0
  <1>1. MsPerTick \in Nat /\ MsPerTick > 0
    BY TimeoutAssumption
  <1>2. CASE ms \in 1 .. MsPerTick - 1
    BY <1>2 DEF Ticks
  <1>3. CASE ms >= MsPerTick
    <2>1. ms \div MsPerTick \in Nat /\ ms \div MsPerTick >= 1
      BY <1>1, <1>3
    <2>2. Ticks(ms) = ms \div MsPerTick
      BY <1>1, <1>3 DEF Ticks
    <2> QED
      BY <2>1, <2>2
  <1> QED
    BY <1>1, <1>2, <1>3

LEMMA WaitKeeps ==
  ASSUME IInv, Outsider = {}, NEW t \in Task, Wait(t)
  PROVE  IInv'
  <1>0. TypeOK /\ ListOK /\ FlagsOK /\ CallOK /\ WaitOK
    BY DEF IInv
  <1> DEFINE list == timeouts[t]
             now == list # <<>> /\ list[1].time = 0
  <1>1. /\ timeouts \in [Task -> Seq(Entry)] /\ dly \in [Task -> Nat] /\ cnt \in [Task -> 0 .. 2]
        /\ pc \in [Task -> {"run", "again", "pend", "timedout", "expired", "got"}]
    BY <1>0 DEF TypeOK
  <1>2. List(t) = list
    BY Threads
  <1>3. /\ pc[t] = "again" /\ UNCHANGED <<timeouts, free, timeflag, signalled, mbox, stack, started>>
        /\ \/ now /\ pc' = [pc EXCEPT ![t] = "expired"] /\ UNCHANGED <<dly, cnt>>
           \/ ~now /\ Ready(t) /\ pc' = [pc EXCEPT ![t] = "got"] /\ Take(t) /\ UNCHANGED dly
           \/ /\ ~now /\ ~Ready(t) /\ pc' = [pc EXCEPT ![t] = "pend"] /\ UNCHANGED cnt
              /\ dly' = [dly EXCEPT ![t] = IF list = <<>> THEN 0 ELSE Ticks(list[1].time)]
    BY <1>1, <1>2 DEF Wait
  <1>4. list = <<>> \/ (list[1].time \in Nat /\ (list[1].time # 0 => Ticks(list[1].time) \in Nat /\ Ticks(list[1].time) > 0))
    <2> SUFFICES ASSUME list # <<>>
                 PROVE  list[1].time \in Nat /\ (list[1].time # 0 => Ticks(list[1].time) \in Nat /\ Ticks(list[1].time) > 0)
      OBVIOUS
    <2>1. list \in Seq(Entry) /\ 1 \in 1 .. Len(list)
      BY <1>1
    <2>2. list[1].time \in Nat
      BY <2>1, EntryType
    <2> QED
      BY <2>2, TicksPositive
  <1>5. /\ dly' \in [Task -> Nat] /\ cnt' \in [Task -> 0 .. 2]
        /\ pc' \in [Task -> {"run", "again", "pend", "timedout", "expired", "got"}]
        /\ \A u \in Task : cnt'[u] <= cnt[u]
    <2> HIDE DEF list
    <2>1. pc' \in [Task -> {"run", "again", "pend", "timedout", "expired", "got"}]
      BY <1>1, <1>3
    <2>2. dly' \in [Task -> Nat]
      <3> DEFINE w == IF list = <<>> THEN 0 ELSE Ticks(list[1].time)
      <3>1. ~now => w \in Nat
        BY <1>4
      <3> HIDE DEF w, now
      <3>2. UNCHANGED dly \/ (~now /\ dly' = [dly EXCEPT ![t] = w])
        BY <1>3 DEF w
      <3> QED
        BY <1>1, <3>1, <3>2
    <2>3. cnt' \in [Task -> 0 .. 2] /\ \A u \in Task : cnt'[u] <= cnt[u]
      <3>1. \A u \in Task : cnt[u] \in 0 .. 2
        BY <1>1
      <3>2. CASE cnt' = cnt
        <4>1. \A u \in Task : cnt[u] <= cnt[u]
          BY <3>1
        <4> QED
          BY <1>1, <3>2, <4>1
      <3>3. CASE cnt[t] > 0 /\ cnt' = [cnt EXCEPT ![t] = @ - 1]
        <4>1. cnt[t] - 1 \in 0 .. 2 /\ cnt[t] - 1 <= cnt[t]
          BY <3>1, <3>3
        <4>2. cnt' \in [Task -> 0 .. 2]
          BY <1>1, <3>3, <4>1
        <4>3. \A u \in Task : cnt'[u] = cnt[u] \/ (u = t /\ cnt'[u] = cnt[u] - 1)
          BY <1>1, <3>3
        <4> QED
          BY <3>1, <4>1, <4>2, <4>3
      <3> QED
        BY <1>3, <3>2, <3>3 DEF Take, Ready
    <2> QED
      BY <2>1, <2>2, <2>3
  <1>6. TypeOK'
    BY <1>0, <1>3, <1>5 DEF TypeOK, stack
  <1>7. ListOK' /\ FlagsOK'
    BY <1>0, <1>3, SameLists
  <1>8. CallOK'
    <2> SUFFICES ASSUME NEW u \in Task
                 PROVE  /\ "sswt_handler" \in Handlers(timeouts'[u]) => pc'[u] # "run" /\ ~timeflag'[u]
                        /\ u = Tcpip => cnt'[u] = 0
                        /\ cnt'[u] <= One(signalled'[u]) + One(timeflag'[u])
                        /\ pc'[u] = "run" => cnt'[u] = 0
      BY DEF CallOK
    <2>1. /\ "sswt_handler" \in Handlers(timeouts[u]) => pc[u] # "run" /\ ~timeflag[u]
          /\ u = Tcpip => cnt[u] = 0
          /\ cnt[u] <= One(signalled[u]) + One(timeflag[u])
          /\ pc[u] = "run" => cnt[u] = 0
      BY <1>0 DEF CallOK
    <2>2. pc'[u] = "run" <=> pc[u] = "run"
      BY <1>1, <1>3
    <2>3. cnt[u] \in 0 .. 2 /\ cnt'[u] \in 0 .. 2 /\ cnt'[u] <= cnt[u]
      BY <1>1, <1>5
    <2>4. One(signalled[u]) + One(timeflag[u]) \in Nat
      BY DEF One
    <2> QED
      BY <1>3, <2>1, <2>2, <2>3, <2>4
  <1>9. WaitOK'
    <2>1. pc'[Tcpip] = "got" => mbox' # <<>>
      BY <1>0, <1>1, <1>3, Threads DEF WaitOK, Ready
    <2>2. ASSUME NEW u \in Task
          PROVE  /\ dly'[u] > 0 => pc'[u] = "pend"
                 /\ (pc'[u] \in {"timedout", "expired"} \/ dly'[u] > 0) => timeouts'[u] # <<>>
                 /\ pc'[u] = "expired" => timeouts'[u][1].time = 0
                 /\ (pc'[u] = "pend" /\ dly'[u] = 0) => timeouts'[u] = <<>>
      <3>1. /\ dly[u] > 0 => pc[u] = "pend"
            /\ (pc[u] \in {"timedout", "expired"} \/ dly[u] > 0) => timeouts[u] # <<>>
            /\ pc[u] = "expired" => timeouts[u][1].time = 0
            /\ (pc[u] = "pend" /\ dly[u] = 0) => timeouts[u] = <<>>
        BY <1>0 DEF WaitOK
      <3>2. CASE u # t
        BY <1>1, <1>3, <3>1, <3>2
      <3>3. CASE u = t
        <4>1. dly[t] \in Nat /\ ~(dly[t] > 0)
          BY <1>1, <1>3, <3>1, <3>3
        <4>2. CASE now /\ pc' = [pc EXCEPT ![t] = "expired"] /\ UNCHANGED <<dly, cnt>>
          <5>1. pc'[t] = "expired" /\ dly'[t] = dly[t] /\ timeouts'[t] = list
            BY <1>1, <1>3, <4>2
          <5> QED
            BY <3>3, <4>1, <4>2, <5>1
        <4>3. CASE pc' = [pc EXCEPT ![t] = "got"] /\ UNCHANGED dly
          <5>1. pc'[t] = "got" /\ dly'[t] = dly[t]
            BY <1>1, <4>3
          <5> QED
            BY <3>3, <4>1, <5>1
        <4>4. CASE /\ ~now /\ pc' = [pc EXCEPT ![t] = "pend"]
                   /\ dly' = [dly EXCEPT ![t] = IF list = <<>> THEN 0 ELSE Ticks(list[1].time)]
          <5>1. /\ pc'[t] = "pend" /\ timeouts'[t] = list
                /\ dly'[t] = IF list = <<>> THEN 0 ELSE Ticks(list[1].time)
            BY <1>1, <1>3, <4>4
          <5> HIDE DEF list
          <5> QED
            BY <3>3, <1>4, <4>4, <5>1
        <4> QED
          BY <1>3, <4>2, <4>3, <4>4
      <3> QED
        BY <3>2, <3>3
    <2> QED
      BY <2>1, <2>2 DEF WaitOK
  <1> QED
    BY <1>6, <1>7, <1>8, <1>9 DEF IInv

WaitsOK(t) ==
  /\ dly[t] > 0 => pc[t] = "pend"
  /\ (pc[t] \in {"timedout", "expired"} \/ dly[t] > 0) => timeouts[t] # <<>>
  /\ pc[t] = "expired" => timeouts[t][1].time = 0
  /\ (pc[t] = "pend" /\ dly[t] = 0) => timeouts[t] = <<>>

CallsOK(t) ==
  /\ "sswt_handler" \in Handlers(timeouts[t]) => pc[t] # "run" /\ ~timeflag[t]
  /\ t = Tcpip => cnt[t] = 0
  /\ cnt[t] <= One(signalled[t]) + One(timeflag[t])
  /\ pc[t] = "run" => cnt[t] = 0

LEMMA EachThread ==
  /\ CallOK <=> \A t \in Task : CallsOK(t)
  /\ WaitOK <=> (pc[Tcpip] = "got" => mbox # <<>>) /\ \A t \in Task : WaitsOK(t)
  BY DEF CallOK, WaitOK, CallsOK, WaitsOK

LEMMA WholeNext ==
  ASSUME TypeOK', ListOK', FlagsOK', pc'[Tcpip] = "got" => mbox' # <<>>,
         \A t \in Task : CallsOK(t)' /\ WaitsOK(t)'
  PROVE  IInv'
  BY DEF IInv, CallOK, WaitOK, CallsOK, WaitsOK

LEMMA Replaced ==
  ASSUME NEW S, NEW T, NEW f \in [S -> T], NEW x \in S, NEW v \in T
  PROVE  LET g == [f EXCEPT ![x] = v]
         IN  g \in [S -> T] /\ g[x] = v /\ \A y \in S : y # x => g[y] = f[y]
  OBVIOUS

States == {"run", "again", "pend", "timedout", "expired", "got"}

LEMMA Types ==
  ASSUME TypeOK
  PROVE  /\ timeouts \in [Task -> Seq(Entry)] /\ free \in Nat
         /\ pc \in [Task -> States] /\ dly \in [Task -> Nat] /\ cnt \in [Task -> 0 .. 2]
         /\ timeflag \in [Task -> BOOLEAN] /\ signalled \in [Task -> BOOLEAN]
         /\ mbox \in Seq(Message) /\ ip_reasstmr \in Nat
  BY TimeoutAssumption DEF TypeOK, States

(* A thread of which nothing changes *)
LEMMA SameThread ==
  ASSUME NEW t \in Task, timeouts'[t] = timeouts[t], pc'[t] = pc[t], dly'[t] = dly[t],
         cnt'[t] = cnt[t], timeflag'[t] = timeflag[t], signalled'[t] = signalled[t]
  PROVE  (CallsOK(t) => CallsOK(t)') /\ (WaitsOK(t) => WaitsOK(t)')
  BY DEF CallsOK, WaitsOK

LEMMA WakeKeeps ==
  ASSUME TypeOK, NEW t \in Task, Wake(t), UNCHANGED timeouts, WaitsOK(t)
  PROVE  /\ pc' \in [Task -> States] /\ dly' \in [Task -> Nat]
         /\ WaitsOK(t)' /\ (pc'[t] = "run" => pc[t] = "run")
         /\ \A u \in Task : u # t => pc'[u] = pc[u] /\ dly'[u] = dly[u] /\ cnt'[u] = cnt[u]
         /\ t = Tcpip => cnt' = cnt
         /\ pc[t] \in {"pend", "timedout"} => cnt' = cnt
         /\ pc[t] \notin {"pend", "timedout"} => pc' = pc /\ dly' = dly
         /\ \/ cnt' = cnt
            \/ t # Tcpip /\ pc'[t] = pc[t] /\ cnt' = [cnt EXCEPT ![t] = @ + 1]
  <1>1. pc \in [Task -> States] /\ dly \in [Task -> Nat] /\ cnt \in [Task -> 0 .. 2]
    BY Types
  <1>2. CASE pc[t] \in {"pend", "timedout"}
    <2>1. pc' = [pc EXCEPT ![t] = "got"] /\ dly' = [dly EXCEPT ![t] = 0] /\ cnt' = cnt
      BY <1>2 DEF Wake
    <2>2. pc'[t] = "got" /\ dly'[t] = 0
      BY <1>1, <2>1
    <2>3. WaitsOK(t)'
      BY <2>2 DEF WaitsOK
    <2> QED
      BY <1>1, <1>2, <2>1, <2>2, <2>3 DEF States
  <1>3. CASE pc[t] \notin {"pend", "timedout"}
    <2>1. /\ pc' = pc /\ dly' = dly
          /\ cnt' = IF t = Tcpip THEN cnt ELSE [cnt EXCEPT ![t] = @ + 1]
      BY <1>3 DEF Wake
    <2>2. WaitsOK(t)'
      BY <2>1 DEF WaitsOK
    <2> QED
      BY <1>1, <1>3, <2>1, <2>2
  <1> QED
    BY <1>2, <1>3

LEMMA PostKeeps ==
  ASSUME IInv, Outsider = {}, NEW m \in Message, Post(m)
  PROVE  IInv'
  <1>0. /\ TypeOK /\ ListOK /\ FlagsOK /\ \A t \in Task : CallsOK(t) /\ WaitsOK(t)
        /\ Tcpip \in Task
    BY EachThread, Threads DEF IInv
  <1>1. /\ Wake(Tcpip) /\ mbox' = Append(mbox, m) /\ Len(mbox) < MaxMbox
        /\ UNCHANGED <<timeouts, free, timeflag, signalled, stack, started>>
    BY DEF Post
  <1>2. /\ pc' \in [Task -> States] /\ dly' \in [Task -> Nat]
        /\ WaitsOK(Tcpip)' /\ (pc'[Tcpip] = "run" => pc[Tcpip] = "run")
        /\ \A u \in Task : u # Tcpip => pc'[u] = pc[u] /\ dly'[u] = dly[u] /\ cnt'[u] = cnt[u]
        /\ cnt' = cnt
    BY <1>0, <1>1, WakeKeeps
  <1>3. mbox' \in Seq(Message) /\ Len(mbox') <= MaxMbox /\ mbox' # <<>>
    <2>1. mbox \in Seq(Message)
      BY <1>0, Types
    <2> QED
      BY <1>1, <2>1, TimeoutAssumption
  <1>4. TypeOK'
    BY <1>0, <1>1, <1>2, <1>3 DEF TypeOK, States, stack
  <1>5. ListOK' /\ FlagsOK'
    BY <1>0, <1>1, SameLists
  <1>6. \A t \in Task : CallsOK(t)' /\ WaitsOK(t)'
    <2>1. CallsOK(Tcpip)'
      BY <1>0, <1>1, <1>2 DEF CallsOK
    <2> QED
      BY <1>0, <1>1, <1>2, <2>1, SameThread
  <1> QED
    BY <1>3, <1>4, <1>5, <1>6, WholeNext

LEMMA SignalKeeps ==
  ASSUME IInv, Outsider = {}, NEW t \in Sleeper, Signal(t)
  PROVE  IInv'
  <1>0. /\ TypeOK /\ ListOK /\ FlagsOK /\ \A u \in Task : CallsOK(u) /\ WaitsOK(u)
        /\ t \in Task /\ t # Tcpip /\ Tcpip \in Task /\ (pc[Tcpip] = "got" => mbox # <<>>)
    BY EachThread, Threads DEF IInv
  <1>1. /\ Wake(t) /\ pc[t] # "run" /\ ~signalled[t] /\ signalled' = [signalled EXCEPT ![t] = TRUE]
        /\ UNCHANGED <<timeouts, free, timeflag, mbox, stack, started>>
    BY DEF Signal
  <1>2. /\ pc' \in [Task -> States] /\ dly' \in [Task -> Nat]
        /\ WaitsOK(t)' /\ (pc'[t] = "run" => pc[t] = "run")
        /\ \A u \in Task : u # t => pc'[u] = pc[u] /\ dly'[u] = dly[u] /\ cnt'[u] = cnt[u]
        /\ cnt' = cnt \/ cnt' = [cnt EXCEPT ![t] = @ + 1]
    BY <1>0, <1>1, WakeKeeps
  <1>3. /\ cnt \in [Task -> 0 .. 2] /\ signalled \in [Task -> BOOLEAN] /\ timeflag \in [Task -> BOOLEAN]
    BY <1>0, Types
  <1>4. signalled' \in [Task -> BOOLEAN] /\ signalled'[t] = TRUE /\ \A u \in Task : u # t => signalled'[u] = signalled[u]
    BY <1>0, <1>1, <1>3, Replaced
  <1>5. cnt[t] <= One(timeflag[t]) /\ cnt[t] \in 0 .. 2 /\ One(timeflag[t]) \in 0 .. 1
    <2>1. cnt[t] <= One(signalled[t]) + One(timeflag[t])
      BY <1>0 DEF CallsOK
    <2>2. One(signalled[t]) = 0 /\ One(timeflag[t]) \in 0 .. 1
      BY <1>1 DEF One
    <2>3. cnt[t] \in 0 .. 2
      BY <1>0, <1>3
    <2> DEFINE o == One(timeflag[t])
    <2> HIDE DEF o
    <2>4. cnt[t] <= 0 + o /\ o \in 0 .. 1
      BY <2>1, <2>2 DEF o
    <2>5. cnt[t] <= o
      BY <2>3, <2>4
    <2> QED
      BY <2>3, <2>4, <2>5 DEF o
  <1>6. cnt'[t] \in 0 .. 2 /\ cnt'[t] <= 1 + One(timeflag[t]) /\ cnt' \in [Task -> 0 .. 2]
    <2>1. CASE cnt' = cnt
      <3>1. cnt'[t] = cnt[t]
        BY <2>1
      <3> QED
        BY <1>3, <1>5, <2>1, <3>1
    <2>2. CASE cnt' = [cnt EXCEPT ![t] = @ + 1]
      <3>1. cnt[t] + 1 \in 0 .. 2 /\ cnt[t] + 1 <= 1 + One(timeflag[t])
        BY <1>5
      <3>2. cnt'[t] = cnt[t] + 1 /\ cnt' \in [Task -> 0 .. 2]
        BY <1>0, <1>3, <2>2, <3>1
      <3> QED
        BY <3>1, <3>2
    <2> QED
      BY <1>2, <2>1, <2>2
  <1>7. TypeOK'
    BY <1>0, <1>1, <1>2, <1>4, <1>6 DEF TypeOK, States, stack
  <1>8. ListOK' /\ FlagsOK'
    BY <1>0, <1>1, SameLists
  <1>9. \A u \in Task : CallsOK(u)' /\ WaitsOK(u)'
    <2>1. CallsOK(t)'
      <3>1. pc'[t] # "run"
        BY <1>1, <1>2
      <3>2. cnt'[t] <= One(signalled'[t]) + One(timeflag'[t])
        <4>1. One(signalled'[t]) = 1 /\ timeflag'[t] = timeflag[t]
          BY <1>1, <1>4 DEF One
        <4> QED
          BY <4>1, <1>6
      <3>3. "sswt_handler" \in Handlers(timeouts'[t]) => ~timeflag'[t]
        BY <1>0, <1>1 DEF CallsOK
      <3> QED
        BY <1>0, <3>1, <3>2, <3>3 DEF CallsOK
    <2>2. ASSUME NEW u \in Task, u # t PROVE CallsOK(u)' /\ WaitsOK(u)'
      BY <1>0, <1>1, <1>2, <1>4, <2>2, SameThread
    <2> QED
      BY <1>2, <2>1, <2>2
  <1>10. pc'[Tcpip] = "got" => mbox' # <<>>
    BY <1>0, <1>1, <1>2
  <1> QED
    BY <1>7, <1>8, <1>9, <1>10, WholeNext

(* The timers before and after a step of a thread that none of them woke:  *)
(* timers are set that were not armed, or one is taken out.                *)
Arms(t, list, new) ==
  \E H \in SUBSET Handler, ms \in Interval :
    /\ H \cap Handlers(list) = {}
    /\ Timers(t, new) = Timers(t, list) \cup {Timer(t, h, ms) : h \in H}

Quiet(t, list, f, L) ==
  /\ Moves(t, list, f, L)
  /\ Arms(t, list, L.list) \/ \E h \in Handler : Removes(t, list, L.list, h)
  /\ InTime(list, 0) => InTime(L.list, 0)
  /\ (AllMultiples /\ Multiples(list)) => Multiples(L.list)

Listed(t, list) == list \in Seq(Entry) /\ Distinct(list) /\ Handlers(list) \subseteq Own(t)

LEMMA KeepQuiet ==
  ASSUME NEW t \in Task, NEW list, Listed(t, list), NEW f \in Nat
  PROVE  Quiet(t, list, f, [list |-> list, free |-> f])
  <1> DEFINE L == [list |-> list, free |-> f]
  <1>1. L.list = list /\ L.free = f /\ list \in Seq(Entry)
    BY DEF Listed
  <1> HIDE DEF L
  <1>2. Moves(t, list, f, L)
    BY <1>1 DEF Moves, Listed
  <1>3. Arms(t, list, L.list)
    <2>1. {} \in SUBSET Handler /\ TCP_TMR_INTERVAL \in Interval
      BY TheIntervals
    <2>2. {} \cap Handlers(list) = {}
      OBVIOUS
    <2>3. Timers(t, L.list) = Timers(t, list) \cup {Timer(t, h, TCP_TMR_INTERVAL) : h \in {}}
      BY <1>1
    <2> QED
      BY <2>1, <2>2, <2>3 DEF Arms
  <1>4. Quiet(t, list, f, L)
    BY <1>1, <1>2, <1>3 DEF Quiet
  <1> QED
    BY <1>4 DEF L

LEMMA ArmQuiet ==
  ASSUME NEW t \in Task, NEW list, Listed(t, list), NEW f \in Nat, f > 0,
         NEW h \in Handler, h \in Own(t), h \notin Handlers(list), NEW ms \in Interval
  PROVE  LET L == SysTimeout([list |-> list, free |-> f], h, ms)
         IN  Quiet(t, list, f, L) /\ Handlers(L.list) = Handlers(list) \cup {h} /\ L.free = f - 1
  <1> DEFINE L == SysTimeout([list |-> list, free |-> f], h, ms)
  <1>1. list \in Seq(Entry) /\ Distinct(list) /\ Handlers(list) \subseteq Own(t)
    BY DEF Listed
  <1>2. /\ Moves(t, list, f, L) /\ L.free = f - 1
        /\ Handlers(L.list) = Handlers(list) \cup {h}
        /\ Timers(t, L.list) = Timers(t, list) \cup {Timer(t, h, ms)}
        /\ InTime(list, 0) => InTime(L.list, 0)
        /\ (AllMultiples /\ Multiples(list)) => Multiples(L.list)
    BY <1>1, ArmIs
  <1> HIDE DEF L
  <1>3. Arms(t, list, L.list)
    <2>1. {h} \in SUBSET Handler /\ {h} \cap Handlers(list) = {}
      OBVIOUS
    <2>2. Timers(t, L.list) = Timers(t, list) \cup {Timer(t, g, ms) : g \in {h}}
      BY <1>2
    <2> QED
      BY <2>1, <2>2 DEF Arms
  <1>4. Quiet(t, list, f, L)
    BY <1>2, <1>3 DEF Quiet
  <1> QED
    BY <1>2, <1>4 DEF L

LEMMA CancelQuiet ==
  ASSUME NEW t \in Task, NEW list, Listed(t, list), NEW f \in Nat, NEW h \in Handler
  PROVE  LET L == SysUntimeout([list |-> list, free |-> f], h)
         IN  Quiet(t, list, f, L) /\ Handlers(L.list) = Handlers(list) \ {h}
  <1> DEFINE L == SysUntimeout([list |-> list, free |-> f], h)
  <1>1. list \in Seq(Entry) /\ Distinct(list) /\ Handlers(list) \subseteq Own(t)
    BY DEF Listed
  <1>2. /\ Moves(t, list, f, L)
        /\ Handlers(L.list) = Handlers(list) \ {h}
        /\ h \notin Handlers(list) => L = [list |-> list, free |-> f]
        /\ h \in Handlers(list) => Removes(t, list, L.list, h)
        /\ InTime(list, 0) => InTime(L.list, 0)
        /\ Multiples(list) => Multiples(L.list)
    BY <1>1, CancelIs
  <1> HIDE DEF L
  <1>3. CASE h \in Handlers(list)
    <2>1. Quiet(t, list, f, L)
      BY <1>2, <1>3 DEF Quiet
    <2> QED
      BY <1>2, <2>1 DEF L
  <1>4. CASE h \notin Handlers(list)
    <2>1. Quiet(t, list, f, [list |-> list, free |-> f])
      BY KeepQuiet
    <2>2. Quiet(t, list, f, L)
      BY <1>2, <1>4, <2>1
    <2> QED
      BY <1>2, <2>2 DEF L
  <1> QED
    BY <1>3, <1>4

LEMMA AreListed ==
  ASSUME TypeOK, ListOK, Outsider = {}, NEW t \in Task
  PROVE  /\ Listed(t, timeouts[t]) /\ timeouts[t] \in Seq(Entry) /\ free \in Nat
         /\ Of(t) = [list |-> timeouts[t], free |-> free]
  BY Types, Threads DEF ListOK, ListsOK, Listed

(* sys_sem_wait_timeout begins. *)
LEMMA SleepIs ==
  ASSUME TypeOK, ListOK, Outsider = {}, PoolSuffices, NEW t \in Sleeper, NEW ms \in SleepMs,
         SemWaitTimeout(t, ms), "sswt_handler" \notin Handlers(timeouts[t])
  PROVE  \E L : /\ Quiet(t, timeouts[t], free, L) /\ SetList(t, L)
                /\ \A h \in Handler \ {"sswt_handler"} :
                      h \in Handlers(L.list) <=> h \in Handlers(timeouts[t])
  <1>1. t \in Task /\ timeouts \in [Task -> Seq(Entry)]
    BY Threads, Types
  <1>2. /\ Listed(t, timeouts[t]) /\ timeouts[t] \in Seq(Entry) /\ free \in Nat
        /\ Of(t) = [list |-> timeouts[t], free |-> free]
    BY <1>1, AreListed
  <1>3. CASE ms > 0
    <2>1. "sswt_handler" \in Own(t)
      BY Owns
    <2>2. free > 0
      BY <1>1, <1>2, <2>1, Room DEF ListOK
    <2>3. ms \in Interval /\ "sswt_handler" \in Handler
      BY TheIntervals
    <2> DEFINE M == SysTimeout([list |-> timeouts[t], free |-> free], "sswt_handler", ms)
    <2>4. Quiet(t, timeouts[t], free, M) /\ Handlers(M.list) = Handlers(timeouts[t]) \cup {"sswt_handler"}
      BY <1>1, <1>2, <2>1, <2>2, <2>3, ArmQuiet
    <2>5. SetList(t, M)
      BY <1>2, <1>3 DEF SemWaitTimeout
    <2> HIDE DEF M
    <2> QED
      BY <2>4, <2>5
  <1>4. CASE ~(ms > 0)
    <2> DEFINE M == [list |-> timeouts[t], free |-> free]
    <2>1. SetList(t, M)
      BY <1>2, <1>4 DEF SemWaitTimeout
    <2>2. Quiet(t, timeouts[t], free, M)
      BY <1>1, <1>2, KeepQuiet
    <2>3. M.list = timeouts[t]
      OBVIOUS
    <2> HIDE DEF M
    <2> QED
      BY <2>1, <2>2, <2>3
  <1> QED
    BY <1>3, <1>4

LEMMA SemWaitTimeoutKeeps ==
  ASSUME IInv, Outsider = {}, PoolSuffices, NEW t \in Sleeper, NEW ms \in SleepMs, SemWaitTimeout(t, ms)
  PROVE  IInv'
  <1>0. /\ TypeOK /\ ListOK /\ FlagsOK /\ \A u \in Task : CallsOK(u) /\ WaitsOK(u)
        /\ t \in Task /\ t # Tcpip /\ Tcpip \in Task /\ (pc[Tcpip] = "got" => mbox # <<>>)
        /\ Starter \in Task /\ Of(t) = [list |-> timeouts[t], free |-> free]
    BY EachThread, Threads DEF IInv
  <1>1. /\ timeouts \in [Task -> Seq(Entry)] /\ free \in Nat /\ dly \in [Task -> Nat]
        /\ pc \in [Task -> States] /\ cnt \in [Task -> 0 .. 2]
        /\ timeflag \in [Task -> BOOLEAN] /\ signalled \in [Task -> BOOLEAN]
    BY <1>0, Types
  <1>2. /\ pc[t] = "run" /\ pc' = [pc EXCEPT ![t] = "again"]
        /\ timeflag' = [timeflag EXCEPT ![t] = FALSE] /\ signalled' = [signalled EXCEPT ![t] = FALSE]
        /\ UNCHANGED <<dly, cnt, mbox, stack, started>>
    BY DEF SemWaitTimeout
  <1>3. PICK L : /\ Quiet(t, timeouts[t], free, L) /\ SetList(t, L)
                 /\ \A h \in Handler \ {"sswt_handler"} :
                       h \in Handlers(L.list) <=> h \in Handlers(timeouts[t])
    BY <1>0, <1>2, SleepIs DEF CallsOK
  <1>4. /\ timeouts' \in [Task -> Seq(Entry)] /\ free' \in 0 .. MEMP_NUM_SYS_TIMEOUT
        /\ ListOK' /\ timeouts'[t] = L.list
        /\ \A u \in Task : u # t => timeouts'[u] = timeouts[u]
    BY <1>0, <1>3, ListOKStep DEF Quiet
  <1>5. /\ pc' \in [Task -> States] /\ timeflag' \in [Task -> BOOLEAN] /\ signalled' \in [Task -> BOOLEAN]
        /\ pc'[t] = "again" /\ timeflag'[t] = FALSE /\ signalled'[t] = FALSE
        /\ \A u \in Task : u # t => pc'[u] = pc[u] /\ timeflag'[u] = timeflag[u] /\ signalled'[u] = signalled[u]
    <2>1. "again" \in States /\ FALSE \in BOOLEAN
      BY DEF States
    <2>2. /\ pc' \in [Task -> States] /\ pc'[t] = "again"
          /\ \A u \in Task : u # t => pc'[u] = pc[u]
      BY <1>0, <1>1, <1>2, <2>1, Replaced
    <2>3. /\ timeflag' \in [Task -> BOOLEAN] /\ timeflag'[t] = FALSE
          /\ \A u \in Task : u # t => timeflag'[u] = timeflag[u]
      BY <1>0, <1>1, <1>2, <2>1, Replaced
    <2>4. /\ signalled' \in [Task -> BOOLEAN] /\ signalled'[t] = FALSE
          /\ \A u \in Task : u # t => signalled'[u] = signalled[u]
      BY <1>0, <1>1, <1>2, <2>1, Replaced
    <2> QED
      BY <2>2, <2>3, <2>4
  <1>6. TypeOK'
    BY <1>0, <1>2, <1>4, <1>5 DEF TypeOK, States, stack
  <1>7. FlagsOK'
    <2>1. \A h \in Startup : h \in Handlers(timeouts'[Starter]) <=> h \in Handlers(timeouts[Starter])
      BY <1>0, <1>3, <1>4 DEF Startup, Handler
    <2> QED
      BY <1>0, <1>2, <1>4, <2>1 DEF FlagsOK, stack
  <1>8. CallsOK(t)' /\ WaitsOK(t)'
    <2>1. cnt'[t] = 0 /\ dly'[t] = 0
      <3>1. cnt[t] = 0 /\ ~(dly[t] > 0) /\ dly[t] \in Nat
        BY <1>0, <1>1, <1>2 DEF CallsOK, WaitsOK
      <3> QED
        BY <1>2, <3>1
    <2> QED
      BY <1>0, <1>5, <2>1 DEF CallsOK, WaitsOK, One
  <1>9. \A u \in Task : CallsOK(u)' /\ WaitsOK(u)'
    <2>1. ASSUME NEW u \in Task, u # t PROVE CallsOK(u)' /\ WaitsOK(u)'
      BY <1>0, <1>2, <1>4, <1>5, <2>1, SameThread
    <2> QED
      BY <1>8, <2>1
  <1>10. pc'[Tcpip] = "got" => mbox' # <<>>
    BY <1>0, <1>2, <1>5
  <1> QED
    BY <1>4, <1>6, <1>7, <1>9, <1>10, WholeNext

LEMMA ReturnIs ==
  ASSUME TypeOK, ListOK, Outsider = {}, NEW t \in Sleeper, Return(t),
         timeflag[t] => "sswt_handler" \notin Handlers(timeouts[t])
  PROVE  \E L : /\ Quiet(t, timeouts[t], free, L) /\ SetList(t, L)
                /\ Handlers(L.list) = Handlers(timeouts[t]) \ {"sswt_handler"}
  <1>1. t \in Task
    BY Threads
  <1>2. /\ Listed(t, timeouts[t]) /\ free \in Nat
        /\ Of(t) = [list |-> timeouts[t], free |-> free]
    BY <1>1, AreListed
  <1>3. CASE timeflag[t]
    <2> DEFINE M == [list |-> timeouts[t], free |-> free]
    <2>1. SetList(t, M)
      BY <1>3 DEF Return
    <2>2. Quiet(t, timeouts[t], free, M)
      BY <1>1, <1>2, KeepQuiet
    <2>3. M.list = timeouts[t] /\ "sswt_handler" \notin Handlers(timeouts[t])
      BY <1>3
    <2> HIDE DEF M
    <2> QED
      BY <2>1, <2>2, <2>3
  <1>4. CASE ~timeflag[t]
    <2> DEFINE M == SysUntimeout([list |-> timeouts[t], free |-> free], "sswt_handler")
    <2>1. SetList(t, M)
      BY <1>2, <1>4 DEF Return
    <2>2. "sswt_handler" \in Handler
      BY TheIntervals
    <2>3. Quiet(t, timeouts[t], free, M) /\ Handlers(M.list) = Handlers(timeouts[t]) \ {"sswt_handler"}
      BY <1>1, <1>2, <2>2, CancelQuiet
    <2> HIDE DEF M
    <2> QED
      BY <2>1, <2>3
  <1> QED
    BY <1>3, <1>4

LEMMA ReturnKeeps ==
  ASSUME IInv, Outsider = {}, NEW t \in Sleeper, Return(t)
  PROVE  IInv'
  <1>0. /\ TypeOK /\ ListOK /\ FlagsOK /\ \A u \in Task : CallsOK(u) /\ WaitsOK(u)
        /\ t \in Task /\ t # Tcpip /\ Tcpip \in Task /\ (pc[Tcpip] = "got" => mbox # <<>>)
        /\ Starter \in Task
    BY EachThread, Threads DEF IInv
  <1>1. /\ dly \in [Task -> Nat] /\ pc \in [Task -> States] /\ cnt \in [Task -> 0 .. 2]
    BY <1>0, Types
  <1>2. /\ pc[t] = "got" /\ pc' = [pc EXCEPT ![t] = "run"] /\ cnt' = [cnt EXCEPT ![t] = 0]
        /\ UNCHANGED <<dly, timeflag, signalled, mbox, stack, started>>
    BY DEF Return
  <1>3. PICK L : /\ Quiet(t, timeouts[t], free, L) /\ SetList(t, L)
                 /\ Handlers(L.list) = Handlers(timeouts[t]) \ {"sswt_handler"}
    BY <1>0, ReturnIs DEF CallsOK
  <1>4. /\ timeouts' \in [Task -> Seq(Entry)] /\ free' \in 0 .. MEMP_NUM_SYS_TIMEOUT
        /\ ListOK' /\ timeouts'[t] = L.list
        /\ \A u \in Task : u # t => timeouts'[u] = timeouts[u]
    BY <1>0, <1>3, ListOKStep DEF Quiet
  <1>5. /\ pc' \in [Task -> States] /\ pc'[t] = "run" /\ cnt' \in [Task -> 0 .. 2] /\ cnt'[t] = 0
        /\ \A u \in Task : u # t => pc'[u] = pc[u] /\ cnt'[u] = cnt[u]
    <2>1. "run" \in States /\ 0 \in 0 .. 2
      BY DEF States
    <2>2. pc' \in [Task -> States] /\ pc'[t] = "run" /\ \A u \in Task : u # t => pc'[u] = pc[u]
      BY <1>0, <1>1, <1>2, <2>1, Replaced
    <2>3. cnt' \in [Task -> 0 .. 2] /\ cnt'[t] = 0 /\ \A u \in Task : u # t => cnt'[u] = cnt[u]
      BY <1>0, <1>1, <1>2, <2>1, Replaced
    <2> QED
      BY <2>2, <2>3
  <1>6. TypeOK'
    BY <1>0, <1>2, <1>4, <1>5 DEF TypeOK, States, stack
  <1>7. FlagsOK'
    <2>1. \A h \in Startup : h \in Handlers(timeouts'[Starter]) <=> h \in Handlers(timeouts[Starter])
      BY <1>0, <1>3, <1>4 DEF Startup
    <2> QED
      BY <1>0, <1>2, <1>4, <2>1 DEF FlagsOK, stack
  <1>8. CallsOK(t)' /\ WaitsOK(t)'
    <2>1. dly'[t] = 0
      <3>1. ~(dly[t] > 0) /\ dly[t] \in Nat
        BY <1>0, <1>1, <1>2 DEF WaitsOK
      <3> QED
        BY <1>2, <3>1
    <2>2. "sswt_handler" \notin Handlers(timeouts'[t])
      BY <1>3, <1>4
    <2>3. One(signalled'[t]) + One(timeflag'[t]) >= 0
      BY DEF One
    <2> QED
      BY <1>0, <1>5, <2>1, <2>2, <2>3 DEF CallsOK, WaitsOK
  <1>9. \A u \in Task : CallsOK(u)' /\ WaitsOK(u)'
    <2>1. ASSUME NEW u \in Task, u # t PROVE CallsOK(u)' /\ WaitsOK(u)'
      BY <1>0, <1>2, <1>4, <1>5, <2>1, SameThread
    <2> QED
      BY <1>8, <2>1
  <1>10. pc'[Tcpip] = "got" => mbox' # <<>>
    BY <1>0, <1>2, <1>5
  <1> QED
    BY <1>4, <1>6, <1>7, <1>9, <1>10, WholeNext

(* net_startup sets both of its timers. *)
LEMMA StartupIs ==
  ASSUME TypeOK, ListOK, FlagsOK, Outsider = {}, PoolSuffices, NEW t \in Sleeper, NetStartup(t)
  PROVE  \E L : /\ Quiet(t, timeouts[t], free, L) /\ SetList(t, L)
                /\ Handlers(L.list) = Handlers(timeouts[t]) \cup Startup
  <1> DEFINE list == timeouts[t]
             K == SysTimeout([list |-> list, free |-> free], "arp_timer", StartupInterval)
             L == SysTimeout(K, "tcp_timeout", StartupInterval)
  <1>1. t \in Task /\ t = Starter /\ ~started /\ timeouts \in [Task -> Seq(Entry)] /\ t \notin Outsider
    BY Threads, Types DEF NetStartup
  <1>2. /\ Listed(t, list) /\ list \in Seq(Entry) /\ free \in Nat
        /\ Of(t) = [list |-> list, free |-> free]
    BY <1>1, AreListed
  <1>3. /\ "arp_timer" \in Own(t) /\ "tcp_timeout" \in Own(t)
        /\ "arp_timer" \notin Handlers(list) /\ "tcp_timeout" \notin Handlers(list)
    BY <1>1, Owns DEF FlagsOK, Startup
  <1>4. free > 0 /\ free > 1
    <2>1. /\ free > 0
          /\ \A g \in Own(t) : (g # "arp_timer" /\ g \notin Handlers(timeouts[t])) => free > 1
      BY <1>1, <1>2, <1>3, Room DEF ListOK
    <2> QED
      BY <1>3, <2>1
  <1>5. StartupInterval \in Interval /\ "arp_timer" \in Handler /\ "tcp_timeout" \in Handler
    BY TheIntervals DEF Startup
  <1>6. list \in Seq(Entry) /\ Distinct(list) /\ Handlers(list) \subseteq Own(t)
    BY <1>2 DEF Listed
  <1>7. SetList(t, L)
    BY <1>1, <1>2 DEF NetStartup
  <1> HIDE DEF list
  <1>8. /\ Moves(t, list, free, K) /\ K.free = free - 1
        /\ Handlers(K.list) = Handlers(list) \cup {"arp_timer"}
        /\ Timers(t, K.list) = Timers(t, list) \cup {Timer(t, "arp_timer", StartupInterval)}
        /\ InTime(list, 0) => InTime(K.list, 0)
        /\ (AllMultiples /\ Multiples(list)) => Multiples(K.list)
    BY SMTT(60), <1>1, <1>2, <1>3, <1>4, <1>5, <1>6, ArmIs
  <1>9. K = [list |-> K.list, free |-> K.free]
    BY <1>4 DEF SysTimeout
  <1> HIDE DEF K
  <1>10. /\ K.list \in Seq(Entry) /\ Distinct(K.list) /\ Handlers(K.list) \subseteq Own(t)
         /\ K.free \in Nat /\ K.free + Len(K.list) = free + Len(list) /\ K.free > 0
         /\ "tcp_timeout" \notin Handlers(K.list)
    <2>1. K.free > 0
      BY <1>2, <1>4, <1>8
    <2> QED
      BY <1>3, <1>8, <2>1 DEF Moves
  <1>11. LET M == SysTimeout([list |-> K.list, free |-> K.free], "tcp_timeout", StartupInterval)
         IN  /\ Moves(t, K.list, K.free, M) /\ M.free = K.free - 1
             /\ Handlers(M.list) = Handlers(K.list) \cup {"tcp_timeout"}
             /\ Timers(t, M.list) = Timers(t, K.list) \cup {Timer(t, "tcp_timeout", StartupInterval)}
             /\ InTime(K.list, 0) => InTime(M.list, 0)
             /\ (AllMultiples /\ Multiples(K.list)) => Multiples(M.list)
    BY <1>1, <1>3, <1>5, <1>10, ArmIs
  <1>12. L = SysTimeout([list |-> K.list, free |-> K.free], "tcp_timeout", StartupInterval)
    BY <1>9
  <1> HIDE DEF L
  <1>13. Moves(t, list, free, L)
    BY <1>10, <1>11, <1>12 DEF Moves
  <1>14. Arms(t, list, L.list)
    <2>1. Startup \in SUBSET Handler /\ Startup \cap Handlers(list) = {}
      BY <1>3, <1>5 DEF Startup
    <2>2. {Timer(t, g, StartupInterval) : g \in Startup} =
            {Timer(t, "arp_timer", StartupInterval)} \cup {Timer(t, "tcp_timeout", StartupInterval)}
      BY DEF Startup
    <2>3. Timers(t, L.list) = Timers(t, list) \cup {Timer(t, g, StartupInterval) : g \in Startup}
      BY <1>8, <1>11, <1>12, <2>2
    <2> QED
      BY <1>5, <2>1, <2>3 DEF Arms
  <1>15. Quiet(t, list, free, L)
    BY <1>8, <1>11, <1>12, <1>13, <1>14 DEF Quiet
  <1>16. Handlers(L.list) = Handlers(list) \cup Startup
    BY <1>8, <1>11, <1>12 DEF Startup
  <1> QED
    BY <1>7, <1>15, <1>16 DEF list

LEMMA NetStartupKeeps ==
  ASSUME IInv, Outsider = {}, PoolSuffices, NEW t \in Sleeper, NetStartup(t)
  PROVE  IInv'
  <1>0. /\ TypeOK /\ ListOK /\ FlagsOK /\ \A u \in Task : CallsOK(u) /\ WaitsOK(u)
        /\ t \in Task /\ t # Tcpip /\ Tcpip \in Task /\ (pc[Tcpip] = "got" => mbox # <<>>)
    BY EachThread, Threads DEF IInv
  <1>1. dly \in [Task -> Nat]
    BY <1>0, Types
  <1>2. /\ t = Starter /\ pc[t] = "run" /\ started' = TRUE
        /\ UNCHANGED <<pc, dly, timeflag, cnt, signalled, mbox, stack>>
    BY DEF NetStartup, waiting
  <1>3. PICK L : /\ Quiet(t, timeouts[t], free, L) /\ SetList(t, L)
                 /\ Handlers(L.list) = Handlers(timeouts[t]) \cup Startup
    BY <1>0, StartupIs
  <1>4. /\ timeouts' \in [Task -> Seq(Entry)] /\ free' \in 0 .. MEMP_NUM_SYS_TIMEOUT
        /\ ListOK' /\ timeouts'[t] = L.list
        /\ \A u \in Task : u # t => timeouts'[u] = timeouts[u]
    BY <1>0, <1>3, ListOKStep DEF Quiet
  <1>5. TypeOK'
    BY <1>0, <1>2, <1>4 DEF TypeOK, stack
  <1>6. FlagsOK'
    <2>1. \A h \in Startup : h \in Handlers(timeouts'[Starter])
      BY <1>2, <1>3, <1>4
    <2> QED
      BY <1>0, <1>2, <1>4, <2>1 DEF FlagsOK, stack
  <1>7. CallsOK(t)' /\ WaitsOK(t)'
    <2>1. ~(dly[t] > 0) /\ dly'[t] = dly[t] /\ pc'[t] = "run"
      BY <1>0, <1>2 DEF WaitsOK
    <2>2. "sswt_handler" \notin Handlers(timeouts'[t])
      <3>1. "sswt_handler" \notin Handlers(timeouts[t])
        BY <1>0, <1>2 DEF CallsOK
      <3> QED
        BY <1>3, <1>4, <3>1 DEF Startup
    <2>3. cnt'[t] = 0 /\ cnt'[t] <= One(signalled'[t]) + One(timeflag'[t])
      BY <1>0, <1>2 DEF CallsOK
    <2> QED
      BY <1>0, <2>1, <2>2, <2>3 DEF CallsOK, WaitsOK
  <1>8. \A u \in Task : CallsOK(u)' /\ WaitsOK(u)'
    <2>1. ASSUME NEW u \in Task, u # t PROVE CallsOK(u)' /\ WaitsOK(u)'
      BY <1>0, <1>2, <1>4, <2>1, SameThread
    <2> QED
      BY <1>7, <2>1
  <1>9. pc'[Tcpip] = "got" => mbox' # <<>>
    BY <1>0, <1>2
  <1> QED
    BY <1>4, <1>5, <1>6, <1>8, <1>9, WholeNext

(* tcpip_thread handles a message: its timers follow the connections and   *)
(* the datagram that is being put together.                                *)
StackOK(list) ==
  /\ pcbs \in BOOLEAN /\ tcpip_tcp_timer_active \in BOOLEAN /\ ip_reasstmr \in 0 .. IP_REASS_MAXAGE
  /\ pcbs => tcpip_tcp_timer_active
  /\ tcpip_tcp_timer_active <=> "tcpip_tcp_timer" \in Handlers(list)
  /\ ip_reasstmr > 0 <=> "ip_reass_timer" \in Handlers(list)

LEMMA StackNow ==
  ASSUME TypeOK, FlagsOK
  PROVE  StackOK(timeouts[Tcpip])
  BY DEF TypeOK, FlagsOK, StackOK

LEMMA ConnectIs ==
  ASSUME TypeOK, ListOK, FlagsOK, Outsider = {}, PoolSuffices, TcpTimerNeeded
  PROVE  \E L : /\ Quiet(Tcpip, timeouts[Tcpip], free, L) /\ SetList(Tcpip, L)
                /\ pcbs' \in BOOLEAN /\ tcpip_tcp_timer_active' \in BOOLEAN
                /\ ip_reasstmr' \in 0 .. IP_REASS_MAXAGE
                /\ pcbs' => tcpip_tcp_timer_active'
                /\ tcpip_tcp_timer_active' <=> "tcpip_tcp_timer" \in Handlers(L.list)
                /\ ip_reasstmr' > 0 <=> "ip_reass_timer" \in Handlers(L.list)
  <1>1. Tcpip \in Task /\ timeouts \in [Task -> Seq(Entry)]
    BY Threads, Types
  <1>2. /\ Listed(Tcpip, timeouts[Tcpip]) /\ timeouts[Tcpip] \in Seq(Entry) /\ free \in Nat
        /\ Of(Tcpip) = [list |-> timeouts[Tcpip], free |-> free]
    BY <1>1, AreListed
  <1>3. /\ pcbs' = TRUE /\ tcpip_tcp_timer_active' = TRUE /\ ip_reasstmr' = ip_reasstmr
        /\ ip_reasstmr \in 0 .. IP_REASS_MAXAGE
        /\ tcpip_tcp_timer_active <=> "tcpip_tcp_timer" \in Handlers(timeouts[Tcpip])
        /\ ip_reasstmr > 0 <=> "ip_reass_timer" \in Handlers(timeouts[Tcpip])
    BY DEF TcpTimerNeeded, TypeOK, FlagsOK
  <1>4. CASE tcpip_tcp_timer_active
    <2> DEFINE M == [list |-> timeouts[Tcpip], free |-> free]
    <2>1. SetList(Tcpip, M)
      BY <1>2, <1>4 DEF TcpTimerNeeded
    <2>2. Quiet(Tcpip, timeouts[Tcpip], free, M)
      BY <1>1, <1>2, KeepQuiet
    <2>3. M.list = timeouts[Tcpip]
      OBVIOUS
    <2> HIDE DEF M
    <2> QED
      BY <1>3, <1>4, <2>1, <2>2, <2>3
  <1>5. CASE ~tcpip_tcp_timer_active
    <2> DEFINE M == SysTimeout([list |-> timeouts[Tcpip], free |-> free], "tcpip_tcp_timer", TCP_TMR_INTERVAL)
    <2>1. SetList(Tcpip, M)
      BY <1>2, <1>5 DEF TcpTimerNeeded
    <2>2. "tcpip_tcp_timer" \in Own(Tcpip) /\ "tcpip_tcp_timer" \notin Handlers(timeouts[Tcpip])
      BY <1>3, <1>5, Owns
    <2>3. free > 0
      BY <1>1, <1>2, <2>2, Room DEF ListOK
    <2>4. TCP_TMR_INTERVAL \in Interval /\ "tcpip_tcp_timer" \in Handler
      BY TheIntervals
    <2>5. /\ Quiet(Tcpip, timeouts[Tcpip], free, M)
          /\ Handlers(M.list) = Handlers(timeouts[Tcpip]) \cup {"tcpip_tcp_timer"}
      BY <1>1, <1>2, <2>2, <2>3, <2>4, ArmQuiet
    <2> HIDE DEF M
    <2> QED
      BY <1>3, <2>1, <2>5
  <1> QED
    BY <1>4, <1>5

LEMMA FragmentIs ==
  ASSUME TypeOK, ListOK, FlagsOK, Outsider = {}, PoolSuffices, IpReass
  PROVE  \E L : /\ Quiet(Tcpip, timeouts[Tcpip], free, L) /\ SetList(Tcpip, L)
                /\ pcbs' \in BOOLEAN /\ tcpip_tcp_timer_active' \in BOOLEAN
                /\ ip_reasstmr' \in 0 .. IP_REASS_MAXAGE
                /\ pcbs' => tcpip_tcp_timer_active'
                /\ tcpip_tcp_timer_active' <=> "tcpip_tcp_timer" \in Handlers(L.list)
                /\ ip_reasstmr' > 0 <=> "ip_reass_timer" \in Handlers(L.list)
  <1> DEFINE list == timeouts[Tcpip]
             new == SysTimeout([list |-> list, free |-> free], "ip_reass_timer", IP_REASS_TMO)
             begun == IF ip_reasstmr = 0 THEN new ELSE [list |-> list, free |-> free]
             gone == SysUntimeout(begun, "ip_reass_timer")
  <1>1. Tcpip \in Task /\ timeouts \in [Task -> Seq(Entry)]
    BY Threads, Types
  <1>2. /\ Listed(Tcpip, list) /\ list \in Seq(Entry) /\ free \in Nat
        /\ Of(Tcpip) = [list |-> list, free |-> free]
    BY <1>1, AreListed
  <1>3. /\ ip_reasstmr \in 0 .. IP_REASS_MAXAGE /\ ip_reasstmr \in Nat
        /\ pcbs \in BOOLEAN /\ tcpip_tcp_timer_active \in BOOLEAN
        /\ pcbs => tcpip_tcp_timer_active
        /\ tcpip_tcp_timer_active <=> "tcpip_tcp_timer" \in Handlers(list)
        /\ ip_reasstmr > 0 <=> "ip_reass_timer" \in Handlers(list)
    BY TimeoutAssumption DEF TypeOK, FlagsOK
  <1>4. /\ UNCHANGED <<pcbs, tcpip_tcp_timer_active>>
        /\ \/ /\ SetList(Tcpip, begun)
              /\ ip_reasstmr' = IF ip_reasstmr = 0 THEN IP_REASS_MAXAGE ELSE ip_reasstmr
           \/ SetList(Tcpip, gone) /\ ip_reasstmr' = 0
    BY <1>2 DEF IpReass
  <1>5. "ip_reass_timer" \in Handler /\ IP_REASS_TMO \in Interval /\ "ip_reass_timer" \in Own(Tcpip)
    BY TheIntervals, Owns
  <1>6. "ip_reass_timer" \notin Handlers(list) => free > 0
    <2> SUFFICES ASSUME "ip_reass_timer" \notin Handlers(list) PROVE free > 0
      OBVIOUS
    <2>1. "ip_reass_timer" \notin Handlers(timeouts[Tcpip])
      OBVIOUS
    <2> QED
      BY <1>1, <1>2, <1>5, <2>1, Room DEF ListOK
  <1>7. list \in Seq(Entry) /\ Distinct(list) /\ Handlers(list) \subseteq Own(Tcpip)
    BY <1>2 DEF Listed
  <1> HIDE DEF list
  <1>8. ASSUME ip_reasstmr = 0
        PROVE  /\ Quiet(Tcpip, list, free, new) /\ begun = new
               /\ Handlers(new.list) = Handlers(list) \cup {"ip_reass_timer"}
               /\ Moves(Tcpip, list, free, new) /\ new = [list |-> new.list, free |-> new.free]
               /\ Timers(Tcpip, new.list) = Timers(Tcpip, list) \cup {Timer(Tcpip, "ip_reass_timer", IP_REASS_TMO)}
               /\ InTime(list, 0) => InTime(new.list, 0)
               /\ (AllMultiples /\ Multiples(list)) => Multiples(new.list)
               /\ "ip_reass_timer" \notin Handlers(list)
    <2>1. "ip_reass_timer" \notin Handlers(list) /\ free > 0
      BY <1>3, <1>6, <1>8
    <2>2. /\ Quiet(Tcpip, list, free, new)
          /\ Handlers(new.list) = Handlers(list) \cup {"ip_reass_timer"}
      BY <1>1, <1>2, <1>5, <2>1, ArmQuiet
    <2>3. /\ Moves(Tcpip, list, free, new)
          /\ Timers(Tcpip, new.list) = Timers(Tcpip, list) \cup {Timer(Tcpip, "ip_reass_timer", IP_REASS_TMO)}
          /\ InTime(list, 0) => InTime(new.list, 0)
          /\ (AllMultiples /\ Multiples(list)) => Multiples(new.list)
      BY <1>1, <1>2, <1>5, <1>7, <2>1, ArmIs
    <2>4. new = [list |-> new.list, free |-> new.free]
      BY <2>1 DEF SysTimeout
    <2>5. begun = new
      BY <1>8
    <2> HIDE DEF new, begun
    <2> QED
      BY <2>1, <2>2, <2>3, <2>4, <2>5
  <1>9. CASE /\ SetList(Tcpip, begun)
             /\ ip_reasstmr' = IF ip_reasstmr = 0 THEN IP_REASS_MAXAGE ELSE ip_reasstmr
    <2>1. CASE ip_reasstmr = 0
      <3>1. ip_reasstmr' = IP_REASS_MAXAGE /\ ip_reasstmr' > 0 /\ ip_reasstmr' \in 0 .. IP_REASS_MAXAGE
        BY <1>9, <2>1, TimeoutAssumption
      <3> HIDE DEF new, begun
      <3>2. SetList(Tcpip, new)
        BY <1>8, <1>9, <2>1
      <3>3. /\ "tcpip_tcp_timer" \in Handlers(new.list) <=> "tcpip_tcp_timer" \in Handlers(list)
            /\ "ip_reass_timer" \in Handlers(new.list) /\ Quiet(Tcpip, list, free, new)
        BY <1>8, <2>1
      <3> QED
        BY <1>3, <1>4, <3>1, <3>2, <3>3 DEF list
    <2>2. CASE ip_reasstmr # 0
      <3> DEFINE M == [list |-> list, free |-> free]
      <3>1. ip_reasstmr' = ip_reasstmr /\ SetList(Tcpip, M)
        BY <1>9, <2>2
      <3>2. Quiet(Tcpip, list, free, M)
        BY <1>1, <1>2, KeepQuiet
      <3>3. M.list = list
        OBVIOUS
      <3> HIDE DEF M
      <3> QED
        BY <1>3, <1>4, <3>1, <3>2, <3>3 DEF list
    <2> QED
      BY <2>1, <2>2
  <1>10. CASE SetList(Tcpip, gone) /\ ip_reasstmr' = 0
    <2>1. CASE ip_reasstmr = 0
      <3> HIDE DEF new
      <3>1. begun = [list |-> new.list, free |-> new.free] /\ new.free \in Nat
        BY <1>8, <2>1 DEF Moves
      <3>2. new.list \in Seq(Entry) /\ Distinct(new.list) /\ Handlers(new.list) \subseteq Own(Tcpip)
        BY <1>8, <2>1 DEF Moves
      <3> DEFINE M == SysUntimeout([list |-> new.list, free |-> new.free], "ip_reass_timer")
      <3>3. /\ Moves(Tcpip, new.list, new.free, M)
            /\ Handlers(M.list) = Handlers(new.list) \ {"ip_reass_timer"}
            /\ "ip_reass_timer" \notin Handlers(new.list) => M = [list |-> new.list, free |-> new.free]
            /\ "ip_reass_timer" \in Handlers(new.list) => Removes(Tcpip, new.list, M.list, "ip_reass_timer")
            /\ InTime(new.list, 0) => InTime(M.list, 0)
            /\ Multiples(new.list) => Multiples(M.list)
        BY <1>1, <3>1, <3>2, CancelIs
      <3>4. SetList(Tcpip, M)
        BY <1>10, <3>1
      <3> HIDE DEF M, begun
      <3>5. Moves(Tcpip, list, free, M)
        BY <1>8, <2>1, <3>3 DEF Moves
      <3>6. Handlers(M.list) = Handlers(list)
        BY <1>8, <2>1, <3>3
      <3>7. Timers(Tcpip, M.list) = Timers(Tcpip, list)
        <4>1. PICK x \in Timers(Tcpip, new.list) :
                 x.h = "ip_reass_timer" /\ Timers(Tcpip, M.list) = Timers(Tcpip, new.list) \ {x}
          BY <1>8, <2>1, <3>3 DEF Removes
        <4>2. \A y \in Timers(Tcpip, list) : y.h # "ip_reass_timer"
          BY <1>8, <2>1 DEF Timers, Handlers
        <4>3. Timer(Tcpip, "ip_reass_timer", IP_REASS_TMO).h = "ip_reass_timer"
          BY DEF Timer
        <4>4. Timers(Tcpip, new.list) = Timers(Tcpip, list) \cup {Timer(Tcpip, "ip_reass_timer", IP_REASS_TMO)}
          BY <1>8, <2>1
        <4> QED
          BY <4>1, <4>2, <4>3, <4>4
      <3>8. Quiet(Tcpip, list, free, M)
        <4>1. Arms(Tcpip, list, M.list)
          <5>1. {} \in SUBSET Handler /\ {} \cap Handlers(list) = {} /\ IP_REASS_TMO \in Interval
            BY <1>5
          <5>2. Timers(Tcpip, M.list) = Timers(Tcpip, list) \cup {Timer(Tcpip, h, IP_REASS_TMO) : h \in {}}
            BY <3>7
          <5> QED
            BY <5>1, <5>2 DEF Arms
        <4> QED
          BY <1>8, <2>1, <3>3, <3>5, <4>1 DEF Quiet
      <3> QED
        BY <1>3, <1>4, <1>8, <1>10, <2>1, <3>4, <3>6, <3>8, TimeoutAssumption DEF list
    <2>2. CASE ip_reasstmr # 0
      <3> DEFINE M == SysUntimeout([list |-> list, free |-> free], "ip_reass_timer")
      <3>1. gone = M
        BY <2>2
      <3>2. Quiet(Tcpip, list, free, M) /\ Handlers(M.list) = Handlers(list) \ {"ip_reass_timer"}
        BY <1>1, <1>2, <1>5, CancelQuiet
      <3> HIDE DEF M, gone
      <3> QED
        BY <1>3, <1>4, <1>10, <3>1, <3>2, TimeoutAssumption DEF list
    <2> QED
      BY <2>1, <2>2
  <1> QED
    BY <1>4, <1>9, <1>10

LEMMA HandleIs ==
  ASSUME TypeOK, ListOK, FlagsOK, Outsider = {}, PoolSuffices, Handle
  PROVE  \E L : /\ Quiet(Tcpip, timeouts[Tcpip], free, L) /\ SetList(Tcpip, L)
                /\ pcbs' \in BOOLEAN /\ tcpip_tcp_timer_active' \in BOOLEAN
                /\ ip_reasstmr' \in 0 .. IP_REASS_MAXAGE
                /\ pcbs' => tcpip_tcp_timer_active'
                /\ tcpip_tcp_timer_active' <=> "tcpip_tcp_timer" \in Handlers(L.list)
                /\ ip_reasstmr' > 0 <=> "ip_reass_timer" \in Handlers(L.list)
  <1>1. CASE TcpTimerNeeded
    BY <1>1, ConnectIs
  <1>2. CASE IpReass
    BY <1>2, FragmentIs
  <1>3. CASE pcbs' = FALSE /\ UNCHANGED <<timeouts, free, tcpip_tcp_timer_active, ip_reasstmr>>
    <2> DEFINE M == [list |-> timeouts[Tcpip], free |-> free]
    <2>1. Tcpip \in Task /\ Listed(Tcpip, timeouts[Tcpip]) /\ free \in Nat
      BY Threads, AreListed
    <2>2. Quiet(Tcpip, timeouts[Tcpip], free, M)
      BY <2>1, KeepQuiet
    <2>3. SetList(Tcpip, M)
      <3>1. timeouts \in [Task -> Seq(Entry)]
        BY Types
      <3>2. timeouts = [timeouts EXCEPT ![Tcpip] = timeouts[Tcpip]]
        BY <2>1, <3>1
      <3> QED
        BY <1>3, <3>2 DEF SetList
    <2>4. M.list = timeouts[Tcpip]
      OBVIOUS
    <2>5. StackOK(timeouts[Tcpip])
      BY StackNow
    <2> HIDE DEF M
    <2> QED
      BY <1>3, <2>2, <2>3, <2>4, <2>5 DEF StackOK
  <1> QED
    BY <1>1, <1>2, <1>3 DEF Handle

LEMMA TailIs ==
  ASSUME NEW box \in Seq(Message), Len(box) <= MaxMbox
  PROVE  Tail(box) \in Seq(Message) /\ Len(Tail(box)) <= MaxMbox
  <1>1. MaxMbox \in Nat
    BY TimeoutAssumption
  <1>2. CASE box = <<>>
    BY <1>1, <1>2
  <1>3. CASE box # <<>>
    BY <1>1, <1>3
  <1> QED
    BY <1>2, <1>3

LEMMA HandleKeeps ==
  ASSUME IInv, Outsider = {}, PoolSuffices, Handle
  PROVE  IInv'
  <1>0. /\ TypeOK /\ ListOK /\ FlagsOK /\ \A u \in Task : CallsOK(u) /\ WaitsOK(u)
        /\ Tcpip \in Task /\ pc[Tcpip] = "got" /\ mbox # <<>>
        /\ Starter \in Task /\ Starter # Tcpip
    BY EachThread, Threads DEF IInv, Handle
  <1>1. /\ dly \in [Task -> Nat] /\ pc \in [Task -> States] /\ mbox \in Seq(Message)
    BY <1>0, Types
  <1>2. /\ pc' = [pc EXCEPT ![Tcpip] = "again"] /\ mbox' = Tail(mbox)
        /\ UNCHANGED <<dly, timeflag, cnt, signalled, started>>
    BY DEF Handle
  <1>3. PICK L : /\ Quiet(Tcpip, timeouts[Tcpip], free, L) /\ SetList(Tcpip, L)
                 /\ pcbs' \in BOOLEAN /\ tcpip_tcp_timer_active' \in BOOLEAN
                 /\ ip_reasstmr' \in 0 .. IP_REASS_MAXAGE
                 /\ pcbs' => tcpip_tcp_timer_active'
                 /\ tcpip_tcp_timer_active' <=> "tcpip_tcp_timer" \in Handlers(L.list)
                 /\ ip_reasstmr' > 0 <=> "ip_reass_timer" \in Handlers(L.list)
    BY <1>0, HandleIs
  <1>4. /\ timeouts' \in [Task -> Seq(Entry)] /\ free' \in 0 .. MEMP_NUM_SYS_TIMEOUT
        /\ ListOK' /\ timeouts'[Tcpip] = L.list
        /\ \A u \in Task : u # Tcpip => timeouts'[u] = timeouts[u]
    BY <1>0, <1>3, ListOKStep DEF Quiet
  <1>5. /\ pc' \in [Task -> States] /\ pc'[Tcpip] = "again"
        /\ \A u \in Task : u # Tcpip => pc'[u] = pc[u]
    <2>1. "again" \in States
      BY DEF States
    <2> QED
      BY <1>0, <1>1, <1>2, <2>1, Replaced
  <1>6. mbox' \in Seq(Message) /\ Len(mbox') <= MaxMbox
    BY <1>0, <1>1, <1>2, TailIs DEF TypeOK
  <1>7. TypeOK'
    BY <1>0, <1>2, <1>3, <1>4, <1>5, <1>6 DEF TypeOK, States
  <1>8. FlagsOK'
    BY <1>0, <1>2, <1>3, <1>4 DEF FlagsOK
  <1>9. CallsOK(Tcpip)' /\ WaitsOK(Tcpip)'
    <2>1. dly'[Tcpip] = 0
      <3>1. ~(dly[Tcpip] > 0) /\ dly[Tcpip] \in Nat
        BY <1>0, <1>1 DEF WaitsOK
      <3> QED
        BY <1>2, <3>1
    <2>2. "sswt_handler" \notin Handlers(timeouts'[Tcpip])
      BY <1>0, <1>4, Owns DEF ListOK, ListsOK
    <2>3. cnt'[Tcpip] = 0 /\ cnt'[Tcpip] <= One(signalled'[Tcpip]) + One(timeflag'[Tcpip])
      BY <1>0, <1>2 DEF CallsOK
    <2> QED
      BY <1>5, <2>1, <2>2, <2>3 DEF CallsOK, WaitsOK
  <1>10. \A u \in Task : CallsOK(u)' /\ WaitsOK(u)'
    <2>1. ASSUME NEW u \in Task, u # Tcpip PROVE CallsOK(u)' /\ WaitsOK(u)'
      BY <1>0, <1>2, <1>4, <1>5, <2>1, SameThread
    <2> QED
      BY <1>9, <2>1
  <1>11. pc'[Tcpip] = "got" => mbox' # <<>>
    BY <1>5
  <1> QED
    BY <1>4, <1>7, <1>8, <1>10, <1>11, WholeNext

(* The first timer of a list goes off, and may be set again. *)
GoesOff(t, list, new) ==
  LET x == Timer(t, list[1].h, list[1].left)
  IN  /\ x \in Timers(t, list)
      /\ \/ Timers(t, new) = Timers(t, list) \ {x}
         \/ \E ms \in Interval :
               Timers(t, new) = (Timers(t, list) \ {x}) \cup {Timer(t, list[1].h, ms)}

Fired(t, list, f, L) ==
  /\ Moves(t, list, f, L)
  /\ GoesOff(t, list, L.list)
  /\ InTime(list, -list[1].time) => InTime(L.list, 0)
  /\ (AllMultiples /\ Multiples(list)) => Multiples(L.list)

LEMMA PopFired ==
  ASSUME NEW t \in Task, NEW list, Listed(t, list), list # <<>>, NEW f \in Nat
  PROVE  LET L == Pop([list |-> list, free |-> f])
         IN  Fired(t, list, f, L) /\ Handlers(L.list) = Handlers(list) \ {list[1].h}
  <1> DEFINE L == Pop([list |-> list, free |-> f])
  <1>1. list \in Seq(Entry) /\ Distinct(list) /\ Handlers(list) \subseteq Own(t)
    BY DEF Listed
  <1>2. /\ Moves(t, list, f, L) /\ L = [list |-> L.list, free |-> L.free]
        /\ L.free > 0 /\ list[1].h \in Handlers(list)
        /\ Handlers(L.list) = Handlers(list) \ {list[1].h}
        /\ Timer(t, list[1].h, list[1].left) \in Timers(t, list)
        /\ Timers(t, L.list) = Timers(t, list) \ {Timer(t, list[1].h, list[1].left)}
        /\ InTime(list, -list[1].time) => InTime(L.list, 0)
        /\ (AllMultiples /\ Multiples(list)) => Multiples(L.list)
    BY <1>1, PopIs
  <1> HIDE DEF L
  <1>3. GoesOff(t, list, L.list)
    BY <1>2 DEF GoesOff
  <1>4. Fired(t, list, f, L)
    BY <1>2, <1>3 DEF Fired
  <1> QED
    BY <1>2, <1>4 DEF L

LEMMA RearmFired ==
  ASSUME NEW t \in Task, NEW list, Listed(t, list), list # <<>>, NEW f \in Nat, NEW ms \in Interval
  PROVE  LET L == SysTimeout(Pop([list |-> list, free |-> f]), list[1].h, ms)
         IN  Fired(t, list, f, L) /\ Handlers(L.list) = Handlers(list)
  <1> DEFINE L == SysTimeout(Pop([list |-> list, free |-> f]), list[1].h, ms)
  <1>1. list \in Seq(Entry) /\ Distinct(list) /\ Handlers(list) \subseteq Own(t)
    BY DEF Listed
  <1>2. /\ Moves(t, list, f, L)
        /\ Handlers(L.list) = Handlers(list)
        /\ Timers(t, L.list) = (Timers(t, list) \ {Timer(t, list[1].h, list[1].left)})
                                 \cup {Timer(t, list[1].h, ms)}
        /\ InTime(list, -list[1].time) => InTime(L.list, 0)
        /\ (AllMultiples /\ Multiples(list)) => Multiples(L.list)
    BY <1>1, RearmIs
  <1>3. Timer(t, list[1].h, list[1].left) \in Timers(t, list)
    <2>1. 1 \in 1 .. Len(list)
      BY <1>1
    <2> QED
      BY <2>1 DEF Timers, Timer
  <1> HIDE DEF L
  <1>4. GoesOff(t, list, L.list)
    BY <1>2, <1>3 DEF GoesOff
  <1>5. Fired(t, list, f, L)
    BY <1>2, <1>4 DEF Fired
  <1> QED
    BY <1>2, <1>5 DEF L

(* What the four kinds of handlers do besides *)
Effect(t, H) ==
  LET h == timeouts[t][1].h
      old == Handlers(timeouts[t])
  IN  \/ /\ t = Tcpip /\ h = "tcpip_tcp_timer" /\ pcbs' \in BOOLEAN /\ tcpip_tcp_timer_active' = pcbs'
         /\ H = IF pcbs' THEN old ELSE old \ {h}
         /\ UNCHANGED <<ip_reasstmr, timeflag, cnt>>
      \/ /\ t = Tcpip /\ h = "ip_reass_timer"
         /\ ip_reasstmr' = IF ip_reasstmr = 0 THEN 0 ELSE ip_reasstmr - 1
         /\ H = IF ip_reasstmr > 1 THEN old ELSE old \ {h}
         /\ UNCHANGED <<pcbs, tcpip_tcp_timer_active, timeflag, cnt>>
      \/ t = Starter /\ H = old /\ UNCHANGED <<stack, timeflag, cnt>>
      \/ /\ t # Tcpip /\ h = "sswt_handler" /\ H = old \ {h}
         /\ timeflag' = [timeflag EXCEPT ![t] = TRUE] /\ cnt' = [cnt EXCEPT ![t] = @ + 1]
         /\ UNCHANGED stack

LEMMA FireIs ==
  ASSUME TypeOK, ListOK, Outsider = {}, NEW t \in Task, Fire(t), timeouts[t] # <<>>
  PROVE  \E L : Fired(t, timeouts[t], free, L) /\ SetList(t, L) /\ Effect(t, Handlers(L.list))
  <1> DEFINE list == timeouts[t]
             h == list[1].h
             P == Pop([list |-> list, free |-> free])
  <1>1. /\ Listed(t, list) /\ list \in Seq(Entry) /\ free \in Nat
    BY AreListed
  <1>2. h \in Own(t) /\ h \in Handlers(list)
    <2>1. 1 \in 1 .. Len(list)
      BY <1>1
    <2> QED
      BY <1>1, <2>1 DEF Listed, Handlers
  <1>3. \/ h = "tcpip_tcp_timer" /\ TcpipTcpTimer(t, P)
        \/ h = "ip_reass_timer" /\ IpReassTimer(t, P)
        \/ h \in Startup /\ StartupTimer(t, h, P)
        \/ h = "sswt_handler" /\ SswtHandler(t, P)
    BY DEF Fire
  <1>4. Fired(t, list, free, P) /\ Handlers(P.list) = Handlers(list) \ {h}
    BY <1>1, PopFired
  <1>5. ASSUME NEW ms \in Interval
        PROVE  LET L == SysTimeout(P, h, ms)
               IN  Fired(t, list, free, L) /\ Handlers(L.list) = Handlers(list)
    BY <1>1, RearmFired
  <1> HIDE DEF P
  <1>6. CASE h = "tcpip_tcp_timer" /\ TcpipTcpTimer(t, P)
    <2>1. t = Tcpip
      BY <1>2, <1>6, Owns, Threads
    <2>2. PICK p \in {pcbs, FALSE} :
             /\ pcbs' = p /\ tcpip_tcp_timer_active' = p
             /\ SetList(t, IF p THEN SysTimeout(P, "tcpip_tcp_timer", TCP_TMR_INTERVAL) ELSE P)
             /\ UNCHANGED <<ip_reasstmr, timeflag, cnt>>
      BY <1>6 DEF TcpipTcpTimer
    <2>3. p \in BOOLEAN
      BY <2>2 DEF TypeOK
    <2>4. CASE p
      <3> DEFINE L == SysTimeout(P, h, TCP_TMR_INTERVAL)
      <3>1. SetList(t, L)
        BY <1>6, <2>2, <2>4
      <3>2. Fired(t, list, free, L) /\ Handlers(L.list) = Handlers(list)
        BY <1>5, TheIntervals
      <3> HIDE DEF L
      <3>3. Effect(t, Handlers(L.list))
        BY <1>6, <2>1, <2>2, <2>3, <2>4, <3>2 DEF Effect
      <3> QED
        BY <3>1, <3>2, <3>3
    <2>5. CASE ~p
      <3>1. SetList(t, P)
        BY <2>2, <2>5
      <3>2. Effect(t, Handlers(P.list))
        BY <1>4, <1>6, <2>1, <2>2, <2>3, <2>5 DEF Effect
      <3> QED
        BY <1>4, <3>1, <3>2
    <2> QED
      BY <2>4, <2>5
  <1>7. CASE h = "ip_reass_timer" /\ IpReassTimer(t, P)
    <2>1. t = Tcpip
      BY <1>2, <1>7, Owns, Threads
    <2>2. /\ ip_reasstmr' = IF ip_reasstmr = 0 THEN 0 ELSE ip_reasstmr - 1
          /\ SetList(t, IF ip_reasstmr > 1 THEN SysTimeout(P, "ip_reass_timer", IP_REASS_TMO) ELSE P)
          /\ UNCHANGED <<pcbs, tcpip_tcp_timer_active, timeflag, cnt>>
      BY <1>7 DEF IpReassTimer
    <2>3. CASE ip_reasstmr > 1
      <3> DEFINE L == SysTimeout(P, h, IP_REASS_TMO)
      <3>1. SetList(t, L)
        BY <1>7, <2>2, <2>3
      <3>2. Fired(t, list, free, L) /\ Handlers(L.list) = Handlers(list)
        BY <1>5, TheIntervals
      <3> HIDE DEF L
      <3>3. Effect(t, Handlers(L.list))
        BY <1>7, <2>1, <2>2, <2>3, <3>2 DEF Effect
      <3> QED
        BY <3>1, <3>2, <3>3
    <2>4. CASE ~(ip_reasstmr > 1)
      <3>1. SetList(t, P)
        BY <2>2, <2>4
      <3>2. Effect(t, Handlers(P.list))
        BY <1>4, <1>7, <2>1, <2>2, <2>4 DEF Effect
      <3> QED
        BY <1>4, <3>1, <3>2
    <2> QED
      BY <2>3, <2>4
  <1>8. CASE h \in Startup /\ StartupTimer(t, h, P)
    <2>1. t = Starter
      BY <1>2, <1>8, Owns
    <2> DEFINE L == SysTimeout(P, h, StartupInterval)
    <2>2. SetList(t, L) /\ UNCHANGED <<stack, timeflag, cnt>>
      BY <1>8 DEF StartupTimer
    <2>3. Fired(t, list, free, L) /\ Handlers(L.list) = Handlers(list)
      BY <1>5, TheIntervals
    <2> HIDE DEF L
    <2>4. Effect(t, Handlers(L.list))
      BY <2>1, <2>2, <2>3 DEF Effect
    <2> QED
      BY <2>2, <2>3, <2>4
  <1>9. CASE h = "sswt_handler" /\ SswtHandler(t, P)
    <2>1. t # Tcpip
      BY <1>2, <1>9, Owns
    <2>2. /\ SetList(t, P) /\ UNCHANGED stack
          /\ timeflag' = [timeflag EXCEPT ![t] = TRUE] /\ cnt' = [cnt EXCEPT ![t] = @ + 1]
      BY <1>9 DEF SswtHandler
    <2>3. Effect(t, Handlers(P.list))
      BY <1>4, <1>9, <2>1, <2>2 DEF Effect
    <2> QED
      BY <1>4, <2>2, <2>3
  <1> QED
    BY <1>3, <1>6, <1>7, <1>8, <1>9

LEMMA FireKeeps ==
  ASSUME IInv, Outsider = {}, NEW t \in Task, Fire(t)
  PROVE  IInv'
  <1>0. /\ TypeOK /\ ListOK /\ FlagsOK /\ \A u \in Task : CallsOK(u) /\ WaitsOK(u)
        /\ Tcpip \in Task /\ (pc[Tcpip] = "got" => mbox # <<>>)
        /\ Starter \in Task /\ Starter # Tcpip
    BY EachThread, Threads DEF IInv
  <1>1. /\ dly \in [Task -> Nat] /\ pc \in [Task -> States] /\ cnt \in [Task -> 0 .. 2]
        /\ timeflag \in [Task -> BOOLEAN] /\ signalled \in [Task -> BOOLEAN] /\ ip_reasstmr \in Nat
        /\ timeouts \in [Task -> Seq(Entry)]
    BY <1>0, Types
  <1>2. /\ pc[t] \in {"timedout", "expired"} /\ pc' = [pc EXCEPT ![t] = "again"]
        /\ UNCHANGED <<dly, signalled, mbox, started>>
    BY DEF Fire
  <1>3. timeouts[t] # <<>>
    BY <1>0, <1>2 DEF WaitsOK
  <1>4. PICK L : Fired(t, timeouts[t], free, L) /\ SetList(t, L) /\ Effect(t, Handlers(L.list))
    BY <1>0, <1>3, FireIs
  <1>5. /\ timeouts' \in [Task -> Seq(Entry)] /\ free' \in 0 .. MEMP_NUM_SYS_TIMEOUT
        /\ ListOK' /\ timeouts'[t] = L.list
        /\ \A u \in Task : u # t => timeouts'[u] = timeouts[u]
    BY <1>0, <1>4, ListOKStep DEF Fired
  <1>6. /\ pc' \in [Task -> States] /\ pc'[t] = "again"
        /\ \A u \in Task : u # t => pc'[u] = pc[u]
    <2>1. "again" \in States
      BY DEF States
    <2> QED
      BY <1>0, <1>1, <1>2, <2>1, Replaced
  <1>7. ~(dly'[t] > 0) /\ dly'[t] = 0
    <2>1. ~(dly[t] > 0) /\ dly[t] \in Nat /\ dly'[t] = dly[t]
      BY <1>0, <1>1, <1>2 DEF WaitsOK
    <2> QED
      BY <2>1
  <1>8. WaitsOK(t)'
    BY <1>6, <1>7 DEF WaitsOK
  <1>9. timeouts[t][1].h \in Handlers(timeouts[t])
    <2>1. 1 \in 1 .. Len(timeouts[t])
      BY <1>1, <1>3
    <2> QED
      BY <2>1 DEF Handlers
  <1>10. /\ timeflag' \in [Task -> BOOLEAN] /\ cnt' \in [Task -> 0 .. 2] /\ CallsOK(t)'
         /\ \A u \in Task : u # t => timeflag'[u] = timeflag[u] /\ cnt'[u] = cnt[u]
    <2>1. /\ "sswt_handler" \in Handlers(timeouts[t]) => ~timeflag[t]
          /\ t = Tcpip => cnt[t] = 0
          /\ cnt[t] <= One(signalled[t]) + One(timeflag[t])
      BY <1>0 DEF CallsOK
    <2>2. CASE /\ UNCHANGED <<timeflag, cnt>>
               /\ "sswt_handler" \in Handlers(L.list) => "sswt_handler" \in Handlers(timeouts[t])
      <3>1. timeflag'[t] = timeflag[t] /\ cnt'[t] = cnt[t] /\ signalled'[t] = signalled[t]
        BY <1>2, <2>2
      <3> QED
        BY <1>1, <1>5, <1>6, <2>1, <2>2, <3>1 DEF CallsOK
    <2>3. CASE /\ t # Tcpip /\ timeouts[t][1].h = "sswt_handler"
               /\ Handlers(L.list) = Handlers(timeouts[t]) \ {timeouts[t][1].h}
               /\ timeflag' = [timeflag EXCEPT ![t] = TRUE] /\ cnt' = [cnt EXCEPT ![t] = @ + 1]
      <3>1. ~timeflag[t]
        BY <1>9, <2>1, <2>3
      <3>2. cnt[t] \in 0 .. 2 /\ cnt[t] <= One(signalled[t]) /\ One(signalled[t]) \in 0 .. 1
        <4> DEFINE o == One(signalled[t])
        <4>1. One(timeflag[t]) = 0 /\ o \in 0 .. 1
          BY <3>1 DEF One
        <4> HIDE DEF o
        <4>2. cnt[t] \in 0 .. 2 /\ cnt[t] <= o + 0
          BY <1>1, <2>1, <4>1 DEF o
        <4> QED
          BY <4>1, <4>2 DEF o
      <3>3. cnt[t] + 1 \in 0 .. 2 /\ cnt[t] + 1 <= One(signalled[t]) + 1
        BY <3>2
      <3>4. /\ timeflag' \in [Task -> BOOLEAN] /\ timeflag'[t] = TRUE
            /\ \A u \in Task : u # t => timeflag'[u] = timeflag[u]
        <4>1. TRUE \in BOOLEAN
          OBVIOUS
        <4> QED
          BY <1>1, <2>3, <4>1, Replaced
      <3>5. /\ cnt' \in [Task -> 0 .. 2] /\ cnt'[t] = cnt[t] + 1
            /\ \A u \in Task : u # t => cnt'[u] = cnt[u]
        BY <1>1, <2>3, <3>3, Replaced
      <3>6. cnt'[t] <= One(signalled'[t]) + One(timeflag'[t])
        <4>1. One(timeflag'[t]) = 1 /\ signalled'[t] = signalled[t]
          BY <1>2, <3>4 DEF One
        <4> QED
          BY <3>3, <3>5, <4>1
      <3>7. "sswt_handler" \notin Handlers(timeouts'[t])
        BY <1>5, <2>3
      <3> QED
        BY <1>6, <2>3, <3>4, <3>5, <3>6, <3>7 DEF CallsOK
    <2> QED
      BY <1>4, <2>2, <2>3 DEF Effect
  <1>11. /\ pcbs' \in BOOLEAN /\ tcpip_tcp_timer_active' \in BOOLEAN
         /\ ip_reasstmr' \in 0 .. IP_REASS_MAXAGE /\ FlagsOK'
    <2>1. /\ StackOK(timeouts[Tcpip])
          /\ \A h \in Startup : started <=> h \in Handlers(timeouts[Starter])
      BY <1>0, StackNow DEF FlagsOK
    <2>2. \A h \in Startup : started' <=> h \in Handlers(timeouts'[Starter])
      <3>1. CASE t # Starter
        BY <1>0, <1>2, <1>5, <2>1, <3>1
      <3>2. CASE t = Starter
        <4>1. \A h \in Startup : h \in Handlers(L.list) <=> h \in Handlers(timeouts[t])
          BY <1>0, <1>4, <3>2 DEF Effect, Startup
        <4> QED
          BY <1>2, <1>5, <2>1, <3>2, <4>1
      <3> QED
        BY <3>1, <3>2
    <2>3. /\ pcbs' \in BOOLEAN /\ tcpip_tcp_timer_active' \in BOOLEAN
          /\ ip_reasstmr' \in 0 .. IP_REASS_MAXAGE
          /\ pcbs' => tcpip_tcp_timer_active'
          /\ tcpip_tcp_timer_active' <=> "tcpip_tcp_timer" \in Handlers(timeouts'[Tcpip])
          /\ ip_reasstmr' > 0 <=> "ip_reass_timer" \in Handlers(timeouts'[Tcpip])
      <3>1. CASE t # Tcpip
        <4>1. UNCHANGED stack /\ timeouts'[Tcpip] = timeouts[Tcpip]
          BY <1>0, <1>4, <1>5, <3>1 DEF Effect
        <4> QED
          BY <2>1, <4>1 DEF StackOK, stack
      <3>2. CASE t = Tcpip
        <4>1. timeouts'[Tcpip] = L.list
          BY <1>5, <3>2
        <4>2. CASE /\ timeouts[t][1].h = "tcpip_tcp_timer" /\ pcbs' \in BOOLEAN
                   /\ tcpip_tcp_timer_active' = pcbs' /\ ip_reasstmr' = ip_reasstmr
                   /\ Handlers(L.list) = IF pcbs' THEN Handlers(timeouts[t])
                                         ELSE Handlers(timeouts[t]) \ {timeouts[t][1].h}
          BY <1>9, <2>1, <3>2, <4>1, <4>2 DEF StackOK
        <4>3. CASE /\ timeouts[t][1].h = "ip_reass_timer"
                   /\ UNCHANGED <<pcbs, tcpip_tcp_timer_active>>
                   /\ ip_reasstmr' = IF ip_reasstmr = 0 THEN 0 ELSE ip_reasstmr - 1
                   /\ Handlers(L.list) = IF ip_reasstmr > 1 THEN Handlers(timeouts[t])
                                         ELSE Handlers(timeouts[t]) \ {timeouts[t][1].h}
          <5>1. /\ ip_reasstmr \in Nat /\ ip_reasstmr' \in 0 .. IP_REASS_MAXAGE
                /\ ip_reasstmr' > 0 <=> ip_reasstmr > 1
            BY <1>1, <2>1, <4>3, TimeoutAssumption DEF StackOK
          <5>2. ip_reasstmr > 0
            BY <1>9, <2>1, <3>2, <4>3 DEF StackOK
          <5>3. "ip_reass_timer" \in Handlers(L.list) <=> ip_reasstmr > 1
            BY <1>9, <4>3
          <5>4. "tcpip_tcp_timer" \in Handlers(L.list) <=> "tcpip_tcp_timer" \in Handlers(timeouts[t])
            BY <4>3
          <5> QED
            BY <2>1, <3>2, <4>1, <4>3, <5>1, <5>3, <5>4 DEF StackOK
        <4> QED
          BY <1>0, <1>4, <3>2, <4>2, <4>3 DEF Effect
      <3> QED
        BY <3>1, <3>2
    <2> QED
      BY <2>2, <2>3 DEF FlagsOK
  <1>12. TypeOK'
    BY <1>0, <1>2, <1>5, <1>6, <1>10, <1>11 DEF TypeOK, States
  <1>13. \A u \in Task : CallsOK(u)' /\ WaitsOK(u)'
    <2>1. ASSUME NEW u \in Task, u # t PROVE CallsOK(u)' /\ WaitsOK(u)'
      BY <1>0, <1>2, <1>5, <1>6, <1>10, <2>1, SameThread
    <2> QED
      BY <1>8, <1>10, <2>1
  <1>14. pc'[Tcpip] = "got" => mbox' # <<>>
    BY <1>0, <1>2, <1>6
  <1> QED
    BY <1>5, <1>11, <1>12, <1>13, <1>14, WholeNext

-----------------------------------------------------------------------------
LEMMA Inductive ==
  ASSUME Outsider = {}, PoolSuffices
  PROVE  IInv /\ [Next]_vars => IInv'
  <1> SUFFICES ASSUME IInv, [Next]_vars PROVE IInv'
    OBVIOUS
  <1>1. CASE Tick
    BY <1>1, TickKeeps
  <1>2. CASE Handle
    BY <1>2, HandleKeeps
  <1>3. ASSUME NEW m \in Message, Post(m) PROVE IInv'
    BY <1>3, PostKeeps
  <1>4. ASSUME NEW t \in Task, Wait(t) PROVE IInv'
    BY <1>4, WaitKeeps
  <1>5. ASSUME NEW t \in Task, Fire(t) PROVE IInv'
    BY <1>5, FireKeeps
  <1>6. ASSUME NEW t \in Sleeper, Signal(t) PROVE IInv'
    BY <1>6, SignalKeeps
  <1>7. ASSUME NEW t \in Sleeper, Return(t) PROVE IInv'
    BY <1>7, ReturnKeeps
  <1>8. ASSUME NEW t \in Sleeper, NetStartup(t) PROVE IInv'
    BY <1>8, NetStartupKeeps
  <1>9. ASSUME NEW t \in Sleeper, NEW ms \in SleepMs, SemWaitTimeout(t, ms) PROVE IInv'
    BY <1>9, SemWaitTimeoutKeeps
  <1>10. CASE UNCHANGED vars
    BY <1>10 DEF vars, stack, IInv, TypeOK, ListOK, FlagsOK, CallOK, WaitOK
  <1> QED
    BY <1>1, <1>2, <1>3, <1>4, <1>5, <1>6, <1>7, <1>8, <1>9, <1>10 DEF Next

(***************************************************************************)
(* The types of all variables: every list is one of entries of the pool    *)
(* and every relative time is a natural, after any number of insertions,   *)
(* cancellations and ticks.                                                *)
(***************************************************************************)
THEOREM TimeoutType ==
  ASSUME Outsider = {}, PoolSuffices
  PROVE  Spec => []TypeOK
  <1>1. IInv => TypeOK
    BY DEF IInv
  <1> QED
    BY <1>1, InvInit, Inductive, PTL DEF Spec

(***************************************************************************)
(* TCP's and the reassembly's timer are in the list of the tcpip thread    *)
(* exactly while their flag and counter say so, and the timers started by  *)
(* net_startup stay: no re-arming, cancellation or broken wait loses one.  *)
(***************************************************************************)
THEOREM TimersStayAlive ==
  ASSUME Outsider = {}, PoolSuffices
  PROVE  Spec => []TimersAlive
  <1>1. IInv => TimersAlive
    <2> SUFFICES ASSUME IInv PROVE TimersAlive
      OBVIOUS
    <2>1. TypeOK /\ FlagsOK
      BY DEF IInv
    <2>2. \A t \in Task, h \in Handler : Armed(timeouts[t], h) <=> h \in Handlers(timeouts[t])
      BY ArmedHandlers
    <2>3. Tcpip \in Task /\ Starter \in Task
      BY Threads
    <2>4. tcpip_tcp_timer_active = Armed(timeouts[Tcpip], "tcpip_tcp_timer")
      <3>1. tcpip_tcp_timer_active <=> Armed(timeouts[Tcpip], "tcpip_tcp_timer")
        BY <2>1, ArmedHandlers DEF FlagsOK
      <3>2. tcpip_tcp_timer_active \in BOOLEAN /\ Armed(timeouts[Tcpip], "tcpip_tcp_timer") \in BOOLEAN
        BY <2>1 DEF TypeOK, Armed
      <3> QED
        BY <3>1, <3>2
    <2>5. (ip_reasstmr > 0) = Armed(timeouts[Tcpip], "ip_reass_timer")
      <3>1. ip_reasstmr > 0 <=> Armed(timeouts[Tcpip], "ip_reass_timer")
        BY <2>1, ArmedHandlers DEF FlagsOK
      <3> DEFINE a == ip_reasstmr > 0
                 b == Armed(timeouts[Tcpip], "ip_reass_timer")
      <3>2. a \in BOOLEAN /\ b \in BOOLEAN /\ (a <=> b)
        BY <3>1 DEF Armed
      <3> HIDE DEF a, b
      <3>3. a = b
        BY <3>2
      <3> QED
        BY <3>3 DEF a, b
    <2>6. started => \A h \in Startup : Armed(timeouts[Starter], h)
      BY <2>1, ArmedHandlers DEF FlagsOK
    <2>7. pcbs => tcpip_tcp_timer_active
      BY <2>1 DEF FlagsOK
    <2> QED
      BY <2>1, <2>4, <2>5, <2>6, <2>7 DEF TimersAlive
  <1> QED
    BY <1>1, InvInit, Inductive, PTL DEF Spec

(***************************************************************************)
(* The timeout that sys_sem_wait_timeout arms on its own stack is in the   *)
(* list during that call only, and the pool of entries loses none.         *)
(***************************************************************************)
THEOREM NoTimeoutDangles ==
  ASSUME Outsider = {}, PoolSuffices
  PROVE  Spec => []NoDanglingTimeout
  <1>1. IInv => NoDanglingTimeout
    <2> SUFFICES ASSUME IInv PROVE NoDanglingTimeout
      OBVIOUS
    <2>1. \A t \in Task : Armed(timeouts[t], "sswt_handler") => pc[t] # "run" /\ ~timeflag[t]
      BY ArmedHandlers DEF IInv, CallOK
    <2>2. free + Cardinality(UNION {{t} \X DOMAIN timeouts[t] : t \in Task}) = MEMP_NUM_SYS_TIMEOUT
      BY DEF IInv, ListOK, PoolOK, Entries
    <2> QED
      BY <2>1, <2>2 DEF NoDanglingTimeout
  <1> QED
    BY <1>1, InvInit, Inductive, PTL DEF Spec

(* sys_timeout returns nothing, and sets no timer when the pool is empty.  *)
RoomForEach ==
  \A t \in Task : \A h \in Own(t) : ~Armed(timeouts[t], h) => free > 0

(***************************************************************************)
(* So no call of sys_timeout is lost to an empty pool.                     *)
(***************************************************************************)
THEOREM NoTimeoutIsLost ==
  ASSUME Outsider = {}, PoolSuffices
  PROVE  Spec => []RoomForEach
  <1>1. IInv => RoomForEach
    <2> SUFFICES ASSUME IInv, NEW t \in Task, NEW h \in Own(t), ~Armed(timeouts[t], h)
                 PROVE  free > 0
      BY DEF RoomForEach
    <2>1. timeouts \in [Task -> Seq(Entry)] /\ free \in Nat
      BY Types DEF IInv
    <2>2. h \notin Handlers(timeouts[t])
      BY ArmedHandlers
    <2> QED
      BY <2>1, <2>2, Room DEF IInv, ListOK
  <1> QED
    BY <1>1, InvInit, Inductive, PTL DEF Spec

-----------------------------------------------------------------------------
(* The times.  In the list of a thread that waits, the first entry's time  *)
(* stands for what is left of it when the wait began.                      *)
TimesOK(t) ==
  /\ Multiples(timeouts[t])
  /\ pc[t] \notin {"pend", "timedout"} => InTime(timeouts[t], 0)
  /\ dly[t] > 0 =>
       /\ dly[t] * MsPerTick <= timeouts[t][1].time
       /\ InTime(timeouts[t], dly[t] * MsPerTick - timeouts[t][1].time)
  /\ pc[t] = "timedout" => InTime(timeouts[t], -timeouts[t][1].time)

TimeOK == \A t \in Task : TimesOK(t)

LEMMA Looser ==
  ASSUME NEW list \in Seq(Entry), NEW d \in Int, NEW e \in Int, d <= e, InTime(list, d)
  PROVE  InTime(list, e)
  <1> SUFFICES ASSUME NEW i \in 1 .. Len(list) PROVE list[i].left <= Before(list)[i] + e
    BY DEF InTime
  <1>1. list[i].left <= Before(list)[i] + d
    BY DEF InTime
  <1>2. i \in 0 .. Len(list)
    OBVIOUS
  <1>3. Before(list)[i] \in Nat
    BY <1>2, BeforeSums
  <1>4. list[i].left \in Nat
    BY EntryType
  <1> DEFINE b == Before(list)[i]
             l == list[i].left
  <1>5. b \in Nat /\ l \in Nat /\ l <= b + d
    BY <1>1, <1>3, <1>4
  <1> HIDE DEF b, l
  <1>6. l <= b + e
    BY <1>5
  <1> QED
    BY <1>6 DEF b, l

LEMMA EmptyInTime ==
  ASSUME NEW d
  PROVE  InTime(<<>>, d)
  BY DEF InTime

(* The first entry's time counts for every entry. *)
LEMMA FirstCounts ==
  ASSUME NEW list \in Seq(Entry), list # <<>>
  PROVE  /\ list[1].time \in Nat /\ list[1].left \in Nat
         /\ 1 \in 1 .. Len(list) /\ Before(list)[1] = list[1].time
         /\ \A i \in 1 .. Len(list) : Before(list)[i] \in Nat /\ Before(list)[i] >= list[1].time
  <1> DEFINE A == Tail(list)
             m == list[1].time
  <1>1. /\ A \in Seq(Entry) /\ Len(list) = Len(A) + 1
        /\ \A j \in 0 .. Len(A) : Before(list)[j + 1] = Before(A)[j] + list[1].time
    BY PopSums
  <1>2. Len(A) \in Nat /\ 1 \in 1 .. Len(list)
    OBVIOUS
  <1> HIDE DEF A
  <1>3. m \in Nat /\ list[1].left \in Nat
    BY <1>2, EntryType
  <1>4. Before(A) \in [0 .. Len(A) -> Nat] /\ Before(A)[0] = 0
    BY <1>1, BeforeSums DEF Sums
  <1> HIDE DEF m
  <1>5. ASSUME NEW i \in 1 .. Len(list)
        PROVE  Before(list)[i] \in Nat /\ Before(list)[i] >= m
    <2>1. i - 1 \in 0 .. Len(A) /\ (i - 1) + 1 = i
      BY <1>1, <1>2
    <2>2. Before(list)[(i - 1) + 1] = Before(A)[i - 1] + m
      BY <1>1, <2>1 DEF m
    <2>3. Before(A)[i - 1] \in Nat
      BY <1>4, <2>1
    <2> QED
      BY <1>3, <2>1, <2>2, <2>3
  <1>6. Before(list)[1] = m
    <2>1. 0 \in 0 .. Len(A) /\ 0 + 1 = 1
      BY <1>2
    <2>2. Before(list)[0 + 1] = Before(A)[0] + m
      BY <1>1, <2>1 DEF m
    <2> QED
      BY <1>3, <1>4, <2>1, <2>2
  <1> QED
    BY <1>2, <1>3, <1>5, <1>6 DEF m

(* What a thread may count on when it looks at its list again *)
LEMMA AwakeInTime ==
  ASSUME TypeOK, NEW t \in Task, WaitsOK(t), TimesOK(t)
  PROVE  InTime(timeouts[t], 0)
  <1>1. /\ timeouts[t] \in Seq(Entry) /\ dly[t] \in Nat /\ MsPerTick \in Nat
    BY Types, TimeoutAssumption
  <1>2. CASE pc[t] \notin {"pend", "timedout"}
    BY <1>2 DEF TimesOK
  <1>3. CASE pc[t] = "pend" /\ dly[t] > 0
    <2>1. timeouts[t] # <<>>
      BY <1>3 DEF WaitsOK
    <2>2. timeouts[t][1].time \in Nat
      BY <1>1, <2>1, FirstCounts
    <2> DEFINE k == dly[t] * MsPerTick
               m == timeouts[t][1].time
    <2>3. k \in Nat /\ k <= m /\ InTime(timeouts[t], k - m)
      BY <1>1, <1>3 DEF TimesOK
    <2> HIDE DEF k
    <2>4. k - m \in Int /\ 0 \in Int /\ k - m <= 0
      BY <2>2, <2>3
    <2> HIDE DEF m
    <2> QED
      BY <1>1, <2>3, <2>4, Looser
  <1>4. CASE pc[t] = "pend" /\ ~(dly[t] > 0)
    <2>1. timeouts[t] = <<>>
      BY <1>1, <1>4 DEF WaitsOK
    <2> QED
      BY <2>1, EmptyInTime
  <1>5. CASE pc[t] = "timedout"
    <2>1. timeouts[t] # <<>>
      BY <1>5 DEF WaitsOK
    <2>2. timeouts[t][1].time \in Nat
      BY <1>1, <2>1, FirstCounts
    <2>3. /\ -timeouts[t][1].time \in Int /\ 0 \in Int /\ -timeouts[t][1].time <= 0
          /\ InTime(timeouts[t], -timeouts[t][1].time)
      BY <1>5, <2>2 DEF TimesOK
    <2> QED
      BY <1>1, <2>3, Looser
  <1> QED
    BY <1>2, <1>3, <1>4, <1>5

(* A wait is as long as the first entry's time. *)
LEMMA TicksExact ==
  ASSUME NEW ms \in Nat, Multiple(ms)
  PROVE  Ticks(ms) * MsPerTick = ms
  <1>1. PICK k \in Nat : ms = k * MsPerTick
    BY DEF Multiple
  <1>2. MsPerTick \in Nat /\ MsPerTick > 0
    BY TimeoutAssumption
  <1>3. ms \notin 1 .. MsPerTick - 1
    <2>1. CASE k = 0
      BY <1>1, <1>2, <2>1
    <2>2. CASE k >= 1
      <3>1. k * MsPerTick >= MsPerTick
        BY <1>2, <2>2
      <3> QED
        BY <1>1, <1>2, <3>1
    <2> QED
      BY <2>1, <2>2
  <1>4. Ticks(ms) = ms \div MsPerTick
    BY <1>3 DEF Ticks
  <1>5. ms \div MsPerTick = k
    BY <1>1, <1>2
  <1> QED
    BY <1>1, <1>4, <1>5

LEMMA TickTimes ==
  ASSUME TypeOK, NEW t \in Task, WaitsOK(t), TimesOK(t), Tick
  PROVE  TimesOK(t)'
  <1> DEFINE old == timeouts[t]
             new == timeouts'[t]
  <1>1. /\ timeouts \in [Task -> Seq(Entry)] /\ dly[t] \in Nat /\ pc[t] \in States
        /\ MsPerTick \in Nat /\ MsPerTick > 0
    BY Types, TimeoutAssumption
  <1>2. /\ old \in Seq(Entry) /\ new \in Seq(Entry) /\ Len(new) = Len(old)
        /\ \A i \in 1 .. Len(old) :
             /\ new[i].time = old[i].time
             /\ new[i].left = IF old[i].left > MsPerTick THEN old[i].left - MsPerTick ELSE 0
    BY <1>1, TickLists
  <1>3. /\ dly'[t] = IF dly[t] = 0 THEN 0 ELSE dly[t] - 1
        /\ pc'[t] = IF dly[t] = 1 THEN "timedout" ELSE pc[t]
    BY DEF Tick
  <1> HIDE DEF old, new
  <1>4. \A i \in 0 .. Len(old) : Before(old)[i] = Before(new)[i]
    BY <1>2, SameSums
  <1>5. \A i \in 1 .. Len(old) : old[i].left \in Nat /\ Before(old)[i] \in Nat /\ i \in 0 .. Len(old)
    <2> TAKE i \in 1 .. Len(old)
    <2>1. i \in 0 .. Len(old)
      BY <1>2
    <2>2. Before(old)[i] \in Nat
      BY <1>2, <2>1, BeforeSums
    <2> QED
      BY <1>2, <2>1, <2>2, EntryType
  <1>6. \A d \in Int : InTime(old, d) => \A i \in 1 .. Len(old) : old[i].left <= Before(old)[i] + d
    BY DEF InTime
  <1>7. Multiples(new)
    BY <1>2 DEF TimesOK, Multiples, old
  (* time went by, and no more is allowed than before *)
  <1>8. ASSUME NEW d \in Int, InTime(old, d) PROVE InTime(new, d)
    <2> SUFFICES ASSUME NEW i \in 1 .. Len(old) PROVE new[i].left <= Before(new)[i] + d
      BY <1>2 DEF InTime
    <2>1. old[i].left <= Before(old)[i] + d
      BY <1>8, <1>6
    <2> DEFINE l == old[i].left
               b == Before(old)[i]
    <2>2. l \in Nat /\ b \in Nat /\ Before(new)[i] = b
      BY <1>4, <1>5
    <2>3. new[i].left = IF l > MsPerTick THEN l - MsPerTick ELSE 0
      BY <1>2
    <2>4. l <= b + d
      BY <2>1
    <2> HIDE DEF l, b
    <2>5. (IF l > MsPerTick THEN l - MsPerTick ELSE 0) <= b + d
      BY <1>1, <2>2, <2>4
    <2> QED
      BY <2>2, <2>3, <2>5
  (* time went by, and so much less is allowed *)
  <1>9. ASSUME NEW d \in Int, InTime(old, d),
               \A i \in 1 .. Len(old) : Before(old)[i] + (d - MsPerTick) >= 0
        PROVE  InTime(new, d - MsPerTick)
    <2> SUFFICES ASSUME NEW i \in 1 .. Len(old) PROVE new[i].left <= Before(new)[i] + (d - MsPerTick)
      BY <1>2 DEF InTime
    <2>1. old[i].left <= Before(old)[i] + d /\ Before(old)[i] + (d - MsPerTick) >= 0
      BY <1>9, <1>6
    <2> DEFINE l == old[i].left
               b == Before(old)[i]
    <2>2. l \in Nat /\ b \in Nat /\ Before(new)[i] = b
      BY <1>4, <1>5
    <2>3. new[i].left = IF l > MsPerTick THEN l - MsPerTick ELSE 0
      BY <1>2
    <2>4. l <= b + d /\ b + (d - MsPerTick) >= 0
      BY <2>1
    <2> HIDE DEF l, b
    <2>5. (IF l > MsPerTick THEN l - MsPerTick ELSE 0) <= b + (d - MsPerTick)
      BY <1>1, <2>2, <2>4
    <2> QED
      BY <2>2, <2>3, <2>5
  <1>10. CASE dly[t] = 0
    <2>1. dly'[t] = 0 /\ pc'[t] = pc[t]
      BY <1>3, <1>10
    <2>2. pc'[t] \notin {"pend", "timedout"} => InTime(new, 0)
      <3>1. pc[t] \notin {"pend", "timedout"} => InTime(old, 0)
        BY DEF TimesOK, old
      <3> QED
        BY <1>8, <2>1, <3>1
    <2>3. pc'[t] = "timedout" => InTime(new, -new[1].time)
      <3> SUFFICES ASSUME pc[t] = "timedout" PROVE InTime(new, -new[1].time)
        BY <2>1
      <3>1. old # <<>> /\ InTime(old, -old[1].time)
        BY DEF WaitsOK, TimesOK, old
      <3>2. old[1].time \in Nat /\ 1 \in 1 .. Len(old)
        BY <1>2, <3>1, FirstCounts
      <3>3. new[1].time = old[1].time /\ -old[1].time \in Int
        BY <1>2, <3>2
      <3> QED
        BY <1>8, <3>1, <3>3
    <2> QED
      BY <1>7, <2>1, <2>2, <2>3 DEF TimesOK, new
  <1>11. CASE dly[t] > 0
    <2> DEFINE m == old[1].time
               k == dly[t] * MsPerTick
               j == (dly[t] - 1) * MsPerTick
    <2>1. old # <<>> /\ pc[t] = "pend" /\ k <= m /\ InTime(old, k - m)
      BY <1>11 DEF WaitsOK, TimesOK, old
    <2>2. /\ m \in Nat /\ 1 \in 1 .. Len(old)
          /\ \A i \in 1 .. Len(old) : Before(old)[i] \in Nat /\ Before(old)[i] >= m
      BY <1>2, <2>1, FirstCounts
    <2>3. k \in Nat /\ j \in Nat /\ k = j + MsPerTick
      <3> DEFINE n == dly[t] - 1
      <3>1. n \in Nat /\ dly[t] = n + 1
        BY <1>1, <1>11
      <3> HIDE DEF n
      <3>2. n * MsPerTick \in Nat /\ (n + 1) * MsPerTick = n * MsPerTick + MsPerTick
        BY <1>1, <3>1
      <3>3. j = n * MsPerTick /\ k = (n + 1) * MsPerTick
        BY <3>1 DEF n
      <3> HIDE DEF j, k
      <3> QED
        BY <1>1, <3>2, <3>3
    <2>4. new[1].time = m
      BY <1>2, <2>2
    <2> HIDE DEF m, k, j
    <2>5. k - m \in Int /\ (k - m) - MsPerTick = j - m /\ j <= m
      BY <1>1, <2>1, <2>2, <2>3
    <2>6. \A i \in 1 .. Len(old) : Before(old)[i] + ((k - m) - MsPerTick) >= 0
      BY <1>1, <2>2, <2>3, <2>5
    <2>7. InTime(new, (k - m) - MsPerTick)
      BY <1>9, <2>1, <2>5, <2>6
    <2>8. InTime(new, j - m)
      BY <2>5, <2>7
    <2>9. CASE dly[t] = 1
      <3>1. dly'[t] = 0 /\ pc'[t] = "timedout" /\ j = 0
        BY <1>1, <1>3, <2>9 DEF j
      <3>2. j - m = -m
        BY <2>2, <3>1
      <3>3. InTime(new, -new[1].time)
        BY <2>4, <2>8, <3>2
      <3> QED
        BY <1>7, <3>1, <3>3 DEF TimesOK, new
    <2>10. CASE dly[t] # 1
      <3>1. dly'[t] = dly[t] - 1 /\ dly'[t] > 0 /\ pc'[t] = "pend"
        BY <1>1, <1>3, <1>11, <2>1, <2>10
      <3>2. j = dly'[t] * MsPerTick
        BY <3>1 DEF j
      <3>3. dly'[t] * MsPerTick <= new[1].time /\ InTime(new, dly'[t] * MsPerTick - new[1].time)
        BY <2>4, <2>5, <2>8, <3>2
      <3> QED
        BY <1>7, <3>1, <3>3 DEF TimesOK, new
    <2> QED
      BY <2>9, <2>10
  <1> QED
    BY <1>1, <1>10, <1>11

LEMMA SameTimes ==
  ASSUME NEW t \in Task, TimesOK(t), timeouts'[t] = timeouts[t], pc'[t] = pc[t], dly'[t] = dly[t]
  PROVE  TimesOK(t)'
  BY DEF TimesOK

LEMMA AwakeTimes ==
  ASSUME NEW t \in Task, Multiples(timeouts'[t]), InTime(timeouts'[t], 0),
         pc'[t] # "timedout", ~(dly'[t] > 0)
  PROVE  TimesOK(t)'
  BY DEF TimesOK

LEMMA WaitTimes ==
  ASSUME TypeOK, Outsider = {}, NEW t \in Task, WaitsOK(t), TimesOK(t), Wait(t)
  PROVE  TimesOK(t)' /\ UNCHANGED timeouts /\ \A u \in Task : u # t => pc'[u] = pc[u] /\ dly'[u] = dly[u]
  <1> DEFINE list == timeouts[t]
             w == IF list = <<>> THEN 0 ELSE Ticks(list[1].time)
  <1>1. /\ timeouts \in [Task -> Seq(Entry)] /\ dly \in [Task -> Nat] /\ pc \in [Task -> States]
        /\ List(t) = list
    BY Types, Threads
  <1>2. /\ pc[t] = "again" /\ timeouts' = timeouts
        /\ \/ (pc' = [pc EXCEPT ![t] = "expired"] \/ pc' = [pc EXCEPT ![t] = "got"]) /\ dly' = dly
           \/ pc' = [pc EXCEPT ![t] = "pend"] /\ dly' = [dly EXCEPT ![t] = w]
    BY <1>1 DEF Wait
  <1>3. InTime(list, 0) /\ Multiples(list) /\ dly[t] = 0
    BY <1>1, <1>2 DEF TimesOK, WaitsOK
  <1>4. \A u \in Task : u # t => pc'[u] = pc[u] /\ dly'[u] = dly[u]
    BY <1>1, <1>2
  <1>5. CASE (pc' = [pc EXCEPT ![t] = "expired"] \/ pc' = [pc EXCEPT ![t] = "got"]) /\ dly' = dly
    <2>1. pc'[t] \in {"expired", "got"} /\ dly'[t] = 0 /\ timeouts'[t] = list
      BY <1>1, <1>2, <1>3, <1>5
    <2> HIDE DEF list
    <2> QED
      BY <1>2, <1>3, <1>4, <2>1, AwakeTimes
  <1>6. CASE pc' = [pc EXCEPT ![t] = "pend"] /\ dly' = [dly EXCEPT ![t] = w]
    <2>1. pc'[t] = "pend" /\ dly'[t] = w /\ timeouts'[t] = list
      BY <1>1, <1>2, <1>6
    <2> HIDE DEF w
    <2>2. CASE list = <<>>
      <3>1. w = 0
        BY <2>2 DEF w
      <3> HIDE DEF list
      <3> QED
        BY <1>2, <1>3, <1>4, <2>1, <3>1, AwakeTimes
    <2>3. CASE list # <<>>
      <3>1. list[1].time \in Nat /\ 1 \in 1 .. Len(list)
        BY <1>1, <2>3, FirstCounts
      <3>2. Multiple(list[1].time)
        BY <1>3, <3>1 DEF Multiples
      <3>3. w * MsPerTick = list[1].time
        BY <2>3, <3>1, <3>2, TicksExact DEF w
      <3>4. w * MsPerTick - list[1].time = 0 /\ w * MsPerTick <= list[1].time
        <4> DEFINE v == w * MsPerTick
        <4> HIDE DEF v
        <4>1. v = list[1].time
          BY <3>3 DEF v
        <4>2. v - list[1].time = 0 /\ v <= list[1].time
          BY <3>1, <4>1
        <4> QED
          BY <4>2 DEF v
      <3> HIDE DEF list
      <3>5. TimesOK(t)'
        BY <1>3, <2>1, <3>4 DEF TimesOK
      <3> QED
        BY <1>2, <1>4, <3>5
    <2> QED
      BY <2>2, <2>3
  <1> QED
    BY <1>2, <1>5, <1>6

LEMMA WakeTimes ==
  ASSUME TypeOK, NEW t \in Task, WaitsOK(t), TimesOK(t), Wake(t), UNCHANGED timeouts
  PROVE  TimesOK(t)'
  <1>1. pc \in [Task -> States] /\ dly \in [Task -> Nat]
    BY Types
  <1>2. CASE pc[t] \in {"pend", "timedout"}
    <2>1. pc'[t] = "got" /\ dly'[t] = 0
      BY <1>1, <1>2 DEF Wake
    <2>2. InTime(timeouts[t], 0) /\ Multiples(timeouts[t])
      BY AwakeInTime DEF TimesOK
    <2> QED
      BY <2>1, <2>2, AwakeTimes
  <1>3. CASE pc[t] \notin {"pend", "timedout"}
    BY <1>3, SameTimes DEF Wake
  <1> QED
    BY <1>2, <1>3

(* A thread that changes its list *)
LEMMA QuietTimes ==
  ASSUME TypeOK, AllMultiples, NEW t \in Task, WaitsOK(t), TimesOK(t),
         NEW L, Quiet(t, timeouts[t], free, L), timeouts'[t] = L.list,
         pc[t] # "pend", pc'[t] \in {"again", "run"}, dly'[t] = dly[t]
  PROVE  TimesOK(t)'
  <1>1. InTime(timeouts[t], 0) /\ Multiples(timeouts[t])
    BY AwakeInTime DEF TimesOK
  <1>2. InTime(timeouts'[t], 0) /\ Multiples(timeouts'[t])
    BY <1>1 DEF Quiet
  <1>3. ~(dly'[t] > 0)
    BY DEF WaitsOK
  <1> QED
    BY <1>2, <1>3, AwakeTimes

LEMMA FiredTimes ==
  ASSUME TypeOK, AllMultiples, NEW t \in Task, WaitsOK(t), TimesOK(t),
         NEW L, Fired(t, timeouts[t], free, L), timeouts'[t] = L.list,
         pc[t] \in {"timedout", "expired"}, pc'[t] = "again", dly'[t] = dly[t]
  PROVE  TimesOK(t)' /\ timeouts[t][1].left = 0
  <1>1. timeouts[t] # <<>> /\ timeouts[t] \in Seq(Entry)
    BY Types DEF WaitsOK
  <1>2. /\ timeouts[t][1].time \in Nat /\ timeouts[t][1].left \in Nat
        /\ 1 \in 1 .. Len(timeouts[t]) /\ Before(timeouts[t])[1] = timeouts[t][1].time
    BY <1>1, FirstCounts
  <1> DEFINE m == timeouts[t][1].time
  <1>3. InTime(timeouts[t], -m)
    <2>1. CASE pc[t] = "timedout"
      BY <2>1 DEF TimesOK
    <2>2. CASE pc[t] = "expired"
      <3>1. m = 0 /\ -m = 0 /\ InTime(timeouts[t], 0)
        BY <2>2 DEF WaitsOK, TimesOK
      <3> HIDE DEF m
      <3> QED
        BY <3>1
    <2> QED
      BY <2>1, <2>2
  <1>4. timeouts[t][1].left = 0
    <2>1. timeouts[t][1].left <= m + (-m)
      BY <1>2, <1>3 DEF InTime
    <2> QED
      BY <1>2, <2>1
  <1>5. InTime(timeouts'[t], 0) /\ Multiples(timeouts'[t])
    BY <1>3 DEF Fired, TimesOK
  <1>6. ~(dly'[t] > 0)
    BY DEF WaitsOK
  <1> QED
    BY <1>4, <1>5, <1>6, AwakeTimes

-----------------------------------------------------------------------------
(* The timers of all lists *)

All(F) == UNION {Timers(t, F[t]) : t \in Task}

LEMMA AllTimers ==
  /\ UNION {TimersOf(t) : t \in Task} = All(timeouts)
  /\ UNION {TimersOf(t)' : t \in Task} = All(timeouts')
  BY DEF TimersOf, Timers, All

LEMMA OneListChanges ==
  ASSUME NEW F, NEW G, NEW t \in Task, \A u \in Task : u # t => G[u] = F[u]
  PROVE  \E R : /\ All(F) = R \cup Timers(t, F[t]) /\ All(G) = R \cup Timers(t, G[t])
                /\ \A x \in R : x.task # t
                /\ \A x \in Timers(t, F[t]) \cup Timers(t, G[t]) : x.task = t
  <1> DEFINE R == UNION {Timers(u, F[u]) : u \in Task \ {t}}
  <1>1. All(F) = R \cup Timers(t, F[t])
    BY DEF All
  <1>2. All(G) = R \cup Timers(t, G[t])
    BY DEF All
  <1>3. \A x \in R : x.task # t
    BY DEF Timers
  <1>4. \A x \in Timers(t, F[t]) \cup Timers(t, G[t]) : x.task = t
    BY DEF Timers
  <1> QED
    BY <1>1, <1>2, <1>3, <1>4

LEMMA MsBounded ==
  ASSUME NEW ms \in Interval
  PROVE  ms \in 0 .. Max(Interval)
  <1>1. Interval \in SUBSET Nat /\ Interval # {}
    BY TimeoutAssumption
  <1>2. IsFiniteSet(Interval)
    <2>1. IsFiniteSet({TCP_TMR_INTERVAL, IP_REASS_TMO, StartupInterval})
      <3>1. IsFiniteSet({TCP_TMR_INTERVAL}) /\ IsFiniteSet({IP_REASS_TMO}) /\ IsFiniteSet({StartupInterval})
        BY FS_Singleton
      <3>2. IsFiniteSet({TCP_TMR_INTERVAL} \cup {IP_REASS_TMO})
        BY <3>1, FS_Union
      <3>3. IsFiniteSet(({TCP_TMR_INTERVAL} \cup {IP_REASS_TMO}) \cup {StartupInterval})
        BY <3>1, <3>2, FS_Union
      <3>4. {TCP_TMR_INTERVAL, IP_REASS_TMO, StartupInterval} =
              ({TCP_TMR_INTERVAL} \cup {IP_REASS_TMO}) \cup {StartupInterval}
        OBVIOUS
      <3> QED
        BY <3>3, <3>4
    <2> QED
      BY <2>1, FS_Union, TimeoutAssumption DEF Interval
  <1>3. Max(Interval) \in Interval /\ \A y \in Interval : Max(Interval) >= y
    BY <1>1, <1>2, MaxIn
  <1>4. Max(Interval) \in Nat /\ ms \in Nat /\ Max(Interval) >= ms
    BY <1>1, <1>3
  <1> HIDE DEF Interval
  <1> QED
    BY <1>4

LEMMA TimerHandler ==
  ASSUME NEW t, NEW list, NEW x \in Timers(t, list)
  PROVE  x.h \in Handlers(list)
  BY DEF Timers, Handlers

LEMMA ArmStep ==
  ASSUME NEW t \in Task, Arms(t, timeouts[t], timeouts'[t]),
         \A u \in Task : u # t => timeouts'[u] = timeouts[u]
  PROVE  Abstract!Arm(t)
  <1>1. PICK R : /\ All(timeouts) = R \cup Timers(t, timeouts[t])
                 /\ All(timeouts') = R \cup Timers(t, timeouts'[t])
                 /\ \A x \in R : x.task # t
                 /\ \A x \in Timers(t, timeouts[t]) \cup Timers(t, timeouts'[t]) : x.task = t
    BY OneListChanges
  <1>2. PICK H \in SUBSET Handler, ms \in Interval :
          /\ H \cap Handlers(timeouts[t]) = {}
          /\ Timers(t, timeouts'[t]) = Timers(t, timeouts[t]) \cup {Timer(t, h, ms) : h \in H}
    BY DEF Arms
  <1> DEFINE A == All(timeouts)
             B == All(timeouts')
             N == {Timer(t, h, ms) : h \in H}
  <1>3. A \subseteq B /\ B \ A \subseteq N
    BY <1>1, <1>2
  <1>4. \A x \in N : x \in [task : Task, h : Handler, left : 0 .. Max(Interval)] /\ x.task = t
    <2>1. ms \in 0 .. Max(Interval)
      BY MsBounded
    <2> QED
      BY <2>1 DEF Timer
  <1>5. ASSUME NEW x \in N, NEW y \in B, x.task = y.task, x.h = y.h PROVE x = y
    <2>1. PICK h \in H : x = Timer(t, h, ms)
      OBVIOUS
    <2>2. x.h = h /\ x.task = t
      BY <2>1 DEF Timer
    <2>3. y \in Timers(t, timeouts[t]) \/ y \in N
      BY <1>1, <1>2, <1>5, <2>2
    <2>4. y \notin Timers(t, timeouts[t])
      <3>1. h \notin Handlers(timeouts[t]) /\ y.h = h
        BY <1>2, <1>5, <2>2
      <3> QED
        BY <3>1, TimerHandler
    <2>5. PICK g \in H : y = Timer(t, g, ms)
      BY <2>3, <2>4
    <2>6. y.h = g
      BY <2>5 DEF Timer
    <2> QED
      BY <1>5, <2>1, <2>2, <2>5, <2>6
  <1> HIDE DEF A, B, N
  <1>6. /\ A \subseteq B
        /\ \A x \in B \ A : x \in [task : Task, h : Handler, left : 0 .. Max(Interval)] /\ x.task = t
        /\ \A x \in B \ A, y \in B : x.task = y.task /\ x.h = y.h => x = y
    BY <1>3, <1>4, <1>5
  <1> QED
    BY <1>6, AllTimers DEF Abstract!Arm, Abstract!Same, Abstract!Timer, A, B

LEMMA CancelStep ==
  ASSUME NEW t \in Task, NEW h, Removes(t, timeouts[t], timeouts'[t], h),
         \A u \in Task : u # t => timeouts'[u] = timeouts[u]
  PROVE  Abstract!Cancel
  <1>1. PICK R : /\ All(timeouts) = R \cup Timers(t, timeouts[t])
                 /\ All(timeouts') = R \cup Timers(t, timeouts'[t])
                 /\ \A x \in R : x.task # t
                 /\ \A x \in Timers(t, timeouts[t]) \cup Timers(t, timeouts'[t]) : x.task = t
    BY SMTT(60), OneListChanges
  <1>2. PICK x \in Timers(t, timeouts[t]) : Timers(t, timeouts'[t]) = Timers(t, timeouts[t]) \ {x}
    BY DEF Removes
  <1>3. x \in All(timeouts) /\ All(timeouts') = All(timeouts) \ {x}
    BY <1>1, <1>2
  <1> QED
    BY <1>3, AllTimers DEF Abstract!Cancel

LEMMA GoOffStep ==
  ASSUME NEW t \in Task, GoesOff(t, timeouts[t], timeouts'[t]), timeouts[t][1].left = 0,
         \A u \in Task : u # t => timeouts'[u] = timeouts[u]
  PROVE  Abstract!GoOff
  <1>1. PICK R : /\ All(timeouts) = R \cup Timers(t, timeouts[t])
                 /\ All(timeouts') = R \cup Timers(t, timeouts'[t])
                 /\ \A x \in R : x.task # t
                 /\ \A x \in Timers(t, timeouts[t]) \cup Timers(t, timeouts'[t]) : x.task = t
    BY OneListChanges
  <1> DEFINE h == timeouts[t][1].h
             x == Timer(t, h, timeouts[t][1].left)
             A == All(timeouts)
             B == All(timeouts')
  <1>2. x \in Timers(t, timeouts[t])
    BY DEF GoesOff
  <1>3. x.left = 0 /\ \A ms : [x EXCEPT !.left = ms] = Timer(t, h, ms)
    BY DEF Timer
  <1>4. \/ Timers(t, timeouts'[t]) = Timers(t, timeouts[t]) \ {x}
        \/ \E ms \in Interval : Timers(t, timeouts'[t]) = (Timers(t, timeouts[t]) \ {x}) \cup {Timer(t, h, ms)}
    BY DEF GoesOff
  <1> HIDE DEF x, h
  <1>5. x \in A /\ x \notin R
    BY <1>1, <1>2
  <1>6. CASE Timers(t, timeouts'[t]) = Timers(t, timeouts[t]) \ {x}
    <2>1. B = A \ {x}
      BY <1>1, <1>2, <1>5, <1>6
    <2> HIDE DEF A, B
    <2>2. \E y \in A : /\ y.left = 0
                       /\ \/ B = A \ {y}
                          \/ \E ms \in 0 .. Max(Interval) : B = (A \ {y}) \cup {[y EXCEPT !.left = ms]}
      BY <1>3, <1>5, <2>1
    <2> QED
      BY <2>2, AllTimers DEF Abstract!GoOff, A, B
  <1>7. ASSUME NEW ms \in Interval,
               Timers(t, timeouts'[t]) = (Timers(t, timeouts[t]) \ {x}) \cup {Timer(t, h, ms)}
        PROVE  Abstract!GoOff
    <2>1. B = (A \ {x}) \cup {[x EXCEPT !.left = ms]}
      BY <1>1, <1>2, <1>3, <1>5, <1>7
    <2>2. ms \in 0 .. Max(Interval)
      BY MsBounded
    <2> HIDE DEF A, B
    <2>3. \E y \in A : /\ y.left = 0
                       /\ \/ B = A \ {y}
                          \/ \E m \in 0 .. Max(Interval) : B = (A \ {y}) \cup {[y EXCEPT !.left = m]}
      BY <1>3, <1>5, <2>1, <2>2
    <2> QED
      BY <2>3, AllTimers DEF Abstract!GoOff, A, B
  <1> QED
    BY <1>4, <1>6, <1>7

LEMMA TickStep ==
  ASSUME timeouts \in [Task -> Seq(Entry)], Tick
  PROVE  Abstract!Tick
  <1> DEFINE Aged(l) == IF l > MsPerTick THEN l - MsPerTick ELSE 0
             A == All(timeouts)
             B == All(timeouts')
  <1>1. \A t \in Task :
          /\ Len(timeouts'[t]) = Len(timeouts[t])
          /\ \A i \in 1 .. Len(timeouts[t]) :
               /\ timeouts'[t][i].h = timeouts[t][i].h
               /\ timeouts'[t][i].left = Aged(timeouts[t][i].left)
    BY TickLists
  <1> HIDE DEF Aged
  <1>2. \A t, h, l : [Timer(t, h, l) EXCEPT !.left = Aged(l)] = Timer(t, h, Aged(l)) /\ Timer(t, h, l).left = l
    BY DEF Timer
  <1>3. ASSUME NEW t \in Task
        PROVE  Timers(t, timeouts'[t]) = {[x EXCEPT !.left = Aged(x.left)] : x \in Timers(t, timeouts[t])}
    <2> DEFINE I == 1 .. Len(timeouts[t])
               old(i) == Timer(t, timeouts[t][i].h, timeouts[t][i].left)
               new(i) == Timer(t, timeouts'[t][i].h, timeouts'[t][i].left)
               Older(x) == [x EXCEPT !.left = Aged(x.left)]
    <2>1. Timers(t, timeouts[t]) = {old(i) : i \in I}
      BY DEF Timers, Timer
    <2>2. Timers(t, timeouts'[t]) = {new(i) : i \in I}
      BY <1>1 DEF Timers, Timer
    <2>3. \A i \in I : new(i) = Older(old(i))
      BY SMTT(60), <1>1, <1>2
    <2> HIDE DEF I, old, new, Older
    <2>4. {new(i) : i \in I} = {Older(x) : x \in {old(i) : i \in I}}
      BY <2>3
    <2>5. Timers(t, timeouts'[t]) = {Older(x) : x \in Timers(t, timeouts[t])}
      BY <2>1, <2>2, <2>4
    <2> QED
      BY <2>5 DEF Older
  <1>4. B = {[x EXCEPT !.left = Aged(x.left)] : x \in A}
    BY <1>3 DEF All
  <1> HIDE DEF A, B
  <1>5. B = {[x EXCEPT !.left = IF @ > MsPerTick THEN @ - MsPerTick ELSE 0] : x \in A}
    BY <1>4 DEF Aged
  <1> QED
    BY <1>5, AllTimers DEF Abstract!Tick, A, B

-----------------------------------------------------------------------------
(* The lists implement the set of timers. *)

Simulates == Abstract!Next \/ UNCHANGED UNION {TimersOf(t) : t \in Task}

LEMMA SameTimers ==
  ASSUME UNCHANGED timeouts
  PROVE  Simulates
  BY DEF Simulates, TimersOf

LEMMA QuietSimulates ==
  ASSUME TypeOK, TimeOK, \A u \in Task : WaitsOK(u), AllMultiples, NEW t \in Task,
         NEW L, Quiet(t, timeouts[t], free, L), SetList(t, L),
         pc[t] # "pend", pc'[t] \in {"again", "run"}, dly' = dly,
         \A u \in Task : u # t => pc'[u] = pc[u]
  PROVE  TimeOK' /\ Simulates
  <1>1. timeouts'[t] = L.list /\ \A u \in Task : u # t => timeouts'[u] = timeouts[u]
    BY Types DEF SetList
  <1>2. TimesOK(t)'
    BY <1>1, QuietTimes DEF TimeOK
  <1>3. TimeOK'
    <2>1. ASSUME NEW u \in Task, u # t PROVE TimesOK(u)'
      BY <1>1, <2>1, SameTimes DEF TimeOK
    <2> QED
      BY <1>2, <2>1 DEF TimeOK
  <1>4. CASE Arms(t, timeouts[t], L.list)
    <2>1. Abstract!Arm(t)
      BY <1>1, <1>4, ArmStep
    <2> QED
      BY <1>3, <2>1 DEF Simulates, Abstract!Next
  <1>5. ASSUME NEW h \in Handler, Removes(t, timeouts[t], L.list, h) PROVE Simulates
    <2>1. Abstract!Cancel
      BY <1>1, <1>5, CancelStep
    <2> QED
      BY <2>1 DEF Simulates, Abstract!Next
  <1> QED
    BY <1>3, <1>4, <1>5 DEF Quiet

LEMMA FireSimulates ==
  ASSUME IInv, TimeOK, AllMultiples, Outsider = {}, NEW t \in Task, Fire(t)
  PROVE  TimeOK' /\ Simulates
  <1>0. TypeOK /\ ListOK /\ \A u \in Task : WaitsOK(u)
    BY EachThread DEF IInv
  <1>1. /\ pc[t] \in {"timedout", "expired"} /\ pc' = [pc EXCEPT ![t] = "again"] /\ dly' = dly
        /\ pc \in [Task -> States] /\ timeouts \in [Task -> Seq(Entry)]
    BY <1>0, Types DEF Fire
  <1>2. timeouts[t] # <<>>
    BY <1>0, <1>1 DEF WaitsOK
  <1>3. PICK L : Fired(t, timeouts[t], free, L) /\ SetList(t, L)
    BY <1>0, <1>2, FireIs
  <1>4. /\ timeouts'[t] = L.list /\ \A u \in Task : u # t => timeouts'[u] = timeouts[u]
        /\ pc'[t] = "again" /\ \A u \in Task : u # t => pc'[u] = pc[u]
    BY <1>1, <1>3 DEF SetList
  <1>5. TimesOK(t)' /\ timeouts[t][1].left = 0
    BY <1>0, <1>1, <1>3, <1>4, FiredTimes DEF TimeOK
  <1>6. TimeOK'
    <2>1. ASSUME NEW u \in Task, u # t PROVE TimesOK(u)'
      BY <1>1, <1>4, <2>1, SameTimes DEF TimeOK
    <2> QED
      BY <1>5, <2>1 DEF TimeOK
  <1>7. Abstract!GoOff
    <2>1. GoesOff(t, timeouts[t], timeouts'[t])
      BY <1>3, <1>4 DEF Fired
    <2> QED
      BY <1>4, <1>5, <2>1, GoOffStep
  <1> QED
    BY <1>6, <1>7 DEF Simulates, Abstract!Next

LEMMA WakeSimulates ==
  ASSUME TypeOK, TimeOK, NEW t \in Task, \A u \in Task : WaitsOK(u), Wake(t), UNCHANGED timeouts
  PROVE  TimeOK' /\ Simulates
  <1>1. TimesOK(t)'
    BY WakeTimes DEF TimeOK
  <1>2. ASSUME NEW u \in Task, u # t PROVE TimesOK(u)'
    <2>1. pc'[u] = pc[u] /\ dly'[u] = dly[u]
      BY <1>2, WakeKeeps
    <2> QED
      BY <2>1, SameTimes DEF TimeOK
  <1> QED
    BY <1>1, <1>2, SameTimers DEF TimeOK

LEMMA StepSimulates ==
  ASSUME Outsider = {}, PoolSuffices, AllMultiples
  PROVE  IInv /\ TimeOK /\ [Next]_vars => TimeOK' /\ Simulates
  <1> SUFFICES ASSUME IInv, TimeOK, [Next]_vars PROVE TimeOK' /\ Simulates
    OBVIOUS
  <1>0. /\ TypeOK /\ ListOK /\ FlagsOK /\ \A u \in Task : CallsOK(u) /\ WaitsOK(u)
        /\ pc \in [Task -> States] /\ timeouts \in [Task -> Seq(Entry)]
    BY EachThread, Types DEF IInv
  <1>1. CASE Tick
    <2>1. TimeOK'
      BY <1>0, <1>1, TickTimes DEF TimeOK
    <2>2. Abstract!Tick
      BY <1>0, <1>1, TickStep
    <2> QED
      BY <2>1, <2>2 DEF Simulates, Abstract!Next
  <1>2. CASE Handle
    <2>1. Tcpip \in Task
      BY Threads
    <2>2. /\ pc[Tcpip] = "got" /\ pc'[Tcpip] = "again" /\ dly' = dly
          /\ \A u \in Task : u # Tcpip => pc'[u] = pc[u]
      BY <1>0, <1>2, <2>1 DEF Handle
    <2>3. PICK L : Quiet(Tcpip, timeouts[Tcpip], free, L) /\ SetList(Tcpip, L)
      BY <1>0, <1>2, HandleIs
    <2> QED
      BY <1>0, <2>1, <2>2, <2>3, QuietSimulates
  <1>3. ASSUME NEW m \in Message, Post(m) PROVE TimeOK' /\ Simulates
    <2>1. Tcpip \in Task /\ Wake(Tcpip) /\ UNCHANGED timeouts
      BY <1>3, Threads DEF Post
    <2> QED
      BY <1>0, <2>1, WakeSimulates
  <1>4. ASSUME NEW t \in Task, Wait(t) PROVE TimeOK' /\ Simulates
    <2>1. TimesOK(t)' /\ UNCHANGED timeouts /\ \A u \in Task : u # t => pc'[u] = pc[u] /\ dly'[u] = dly[u]
      BY <1>0, <1>4, WaitTimes DEF TimeOK
    <2>2. ASSUME NEW u \in Task, u # t PROVE TimesOK(u)'
      BY <2>1, <2>2, SameTimes DEF TimeOK
    <2> QED
      BY <2>1, <2>2, SameTimers DEF TimeOK
  <1>5. ASSUME NEW t \in Task, Fire(t) PROVE TimeOK' /\ Simulates
    BY <1>5, FireSimulates
  <1>6. ASSUME NEW t \in Sleeper, Signal(t) PROVE TimeOK' /\ Simulates
    <2>1. t \in Task /\ Wake(t) /\ UNCHANGED timeouts
      BY <1>6, Threads DEF Signal
    <2> QED
      BY <1>0, <2>1, WakeSimulates
  <1>7. ASSUME NEW t \in Sleeper, Return(t) PROVE TimeOK' /\ Simulates
    <2>1. t \in Task
      BY Threads
    <2>2. /\ pc[t] = "got" /\ pc'[t] = "run" /\ dly' = dly
          /\ \A u \in Task : u # t => pc'[u] = pc[u]
      BY <1>0, <1>7, <2>1 DEF Return
    <2>3. PICK L : Quiet(t, timeouts[t], free, L) /\ SetList(t, L)
      BY <1>0, <1>7, <2>1, ReturnIs DEF CallsOK
    <2> QED
      BY <1>0, <2>1, <2>2, <2>3, QuietSimulates
  <1>8. ASSUME NEW t \in Sleeper, NetStartup(t) PROVE TimeOK' /\ Simulates
    <2>1. t \in Task
      BY Threads
    <2>2. pc[t] = "run" /\ pc' = pc /\ dly' = dly
      BY <1>8 DEF NetStartup, waiting
    <2>3. PICK L : Quiet(t, timeouts[t], free, L) /\ SetList(t, L)
      BY <1>0, <1>8, StartupIs
    <2> QED
      BY <1>0, <2>1, <2>2, <2>3, QuietSimulates
  <1>9. ASSUME NEW t \in Sleeper, NEW ms \in SleepMs, SemWaitTimeout(t, ms) PROVE TimeOK' /\ Simulates
    <2>1. t \in Task
      BY Threads
    <2>2. /\ pc[t] = "run" /\ pc'[t] = "again" /\ dly' = dly
          /\ \A u \in Task : u # t => pc'[u] = pc[u]
      BY <1>0, <1>9, <2>1 DEF SemWaitTimeout
    <2>3. PICK L : Quiet(t, timeouts[t], free, L) /\ SetList(t, L)
      BY <1>0, <1>9, <2>1, <2>2, SleepIs DEF CallsOK
    <2> QED
      BY <1>0, <2>1, <2>2, <2>3, QuietSimulates
  <1>10. CASE UNCHANGED vars
    <2>1. UNCHANGED <<timeouts, pc, dly>>
      BY <1>10 DEF vars
    <2> QED
      BY <2>1, SameTimers, SameTimes DEF TimeOK
  <1> QED
    BY <1>1, <1>2, <1>3, <1>4, <1>5, <1>6, <1>7, <1>8, <1>9, <1>10 DEF Next

LEMMA InitSimulates ==
  Init => TimeOK /\ Abstract!Init
  <1> SUFFICES ASSUME Init PROVE TimeOK /\ Abstract!Init
    OBVIOUS
  <1>1. \A t \in Task : timeouts[t] = <<>> /\ dly[t] = 0 /\ pc[t] # "timedout"
    BY DEF Init
  <1>2. TimeOK
    BY <1>1, EmptyInTime DEF TimeOK, TimesOK, Multiples
  <1>3. All(timeouts) = {}
    BY <1>1 DEF All, Timers
  <1> QED
    BY <1>2, <1>3, AllTimers DEF Abstract!Init

LEMMA DueInTime ==
  ASSUME IInv, TimeOK
  PROVE  \A x \in Due : x.left = 0
  <1> SUFFICES ASSUME NEW t \in Task, pc[t] \in {"timedout", "expired"}
               PROVE  timeouts[t][1].left = 0
    BY DEF Due
  <1>1. WaitsOK(t) /\ TimesOK(t) /\ TypeOK
    BY EachThread DEF IInv, TimeOK
  <1>2. timeouts[t] # <<>> /\ timeouts[t] \in Seq(Entry)
    BY <1>1, Types DEF WaitsOK
  <1> DEFINE m == timeouts[t][1].time
             l == timeouts[t][1].left
  <1>3. m \in Nat /\ l \in Nat /\ 1 \in 1 .. Len(timeouts[t]) /\ Before(timeouts[t])[1] = m
    BY <1>2, FirstCounts
  <1>4. CASE pc[t] = "timedout"
    <2>1. l <= m + (-m)
      BY <1>1, <1>3, <1>4 DEF TimesOK, InTime
    <2> QED
      BY <1>3, <2>1
  <1>5. CASE pc[t] = "expired"
    <2>1. l <= m + 0 /\ m = 0
      BY <1>1, <1>3, <1>5 DEF TimesOK, InTime, WaitsOK
    <2> QED
      BY <1>3, <2>1
  <1> QED
    BY <1>4, <1>5

(***************************************************************************)
(* The lists of relative times implement TimerSet: a timer goes off at     *)
(* most once for each time it is armed, not before its time and not after  *)
(* it was cancelled.                                                       *)
(***************************************************************************)
THEOREM TimeoutsImplementTimers ==
  ASSUME Outsider = {}, PoolSuffices, \A ms \in Interval : Multiple(ms)
  PROVE  Spec => ImplementsTimers
  <1>1. Init => IInv /\ TimeOK /\ Abstract!Init
    BY InvInit, InitSimulates
  <1>2. IInv /\ TimeOK /\ [Next]_vars => IInv' /\ TimeOK' /\ Simulates
    BY Inductive, StepSimulates DEF AllMultiples
  <1>3. Simulates => [Abstract!Next]_(UNION {TimersOf(t) : t \in Task})
    BY DEF Simulates
  <1>4. IInv /\ TimeOK => \A x \in Due : x.left = 0
    BY DueInTime
  <1> QED
    BY <1>1, <1>2, <1>3, <1>4, PTL DEF Spec, ImplementsTimers, Abstract!Spec
=============================================================================
