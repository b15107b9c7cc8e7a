------------------------------- MODULE Memory -------------------------------
(***************************************************************************)
(* The allocator of src/memory.c behind malloc, realloc and free           *)
(* (src/newlib.c): one list of blocks in address order, the first fit is   *)
(* cut from the END of a free block, neighbours are merged when a block is *)
(* freed and when an allocation fails.                                     *)
(*                                                                         *)
(* The list changes only under the semaphore of the memory (or, before     *)
(* OSStart, with interrupts off), so each such region is one step; the     *)
(* tests before it are steps of their own, and ReallocMemory is a free     *)
(* and an allocation with a gap between them.  Addresses count chunks.     *)
(***************************************************************************)
EXTENDS Naturals, Sequences, SequencesExt

CONSTANTS Task, None,
          MaxChunks,      \* size of the memory
          CHUNK_SIZE, HEADER_SIZE,
          Word,           \* 2^32, the range of UINT
          Size            \* the sizes that are asked for

ASSUME MemoryAssumption ==
  /\ MaxChunks \in Nat \ {0} /\ HEADER_SIZE \in Nat
  /\ CHUNK_SIZE \in Nat \ {0} /\ HEADER_SIZE < CHUNK_SIZE
  /\ Word \in Nat \ {0, 1} /\ Word % CHUNK_SIZE = 0
  /\ None \notin Nat
  /\ \A n \in Size : n \in 1 .. Word - CHUNK_SIZE - HEADER_SIZE - 1

VARIABLES list,      \* blocks [at, Chunks, AllocatedSize]; size 0 is free
          AllocatedMemory, TotalBlocks,
          held,      \* per task, the pointers it was given, with the bytes asked for
          pc, arg    \* arg: the pointer and the new size of a free or realloc

vars == <<list, AllocatedMemory, TotalBlocks, held, pc, arg>>

IsFree(b) == b.AllocatedSize = 0
Index(p) == CHOOSE i \in DOMAIN list : list[i].at = p
Block(p) == list[Index(p)]
Pointers(t) == {h[1] : h \in held[t]}

Return(t) == pc' = [pc EXCEPT ![t] = "user"] /\ arg' = [arg EXCEPT ![t] = None]
Goto(t, label, p, n) == /\ pc' = [pc EXCEPT ![t] = label]
                        /\ arg' = [arg EXCEPT ![t] = <<p, n>>]

(* The chunks for n bytes and a header; the sum wraps as a UINT does. *)
ChunksFor(n) == ((CHUNK_SIZE + n + HEADER_SIZE) % Word) \div CHUNK_SIZE

(* The free blocks with room for k chunks: the header of the block stays,  *)
(* so one more is needed.                                                  *)
Fits(k) == {i \in DOMAIN list : IsFree(list[i]) /\ list[i].Chunks > k}

(* FindFirstFit, and the new block of k chunks at the end of what it found. *)
FirstFit(k) == CHOOSE i \in Fits(k) : \A j \in Fits(k) : i <= j

Split(i, k, n) ==
  LET b == list[i]
      new == [at |-> b.at + b.Chunks - k, Chunks |-> k, AllocatedSize |-> n]
  IN  SubSeq(list, 1, i - 1) \o <<[b EXCEPT !.Chunks = @ - k], new>>
        \o SubSeq(list, i + 1, Len(list))

(* Slip: whatever follows a free block is merged with it. *)
MergeAll(s, b) ==
  IF s # << >> /\ IsFree(Last(s))
  THEN Front(s) \o <<[Last(s) EXCEPT !.Chunks = @ + b.Chunks]>>
  ELSE Append(s, b)

(* One step of a merge from left to right: b joins the last block of s if  *)
(* both are free.                                                          *)
Join(s, b) ==
  IF s # << >> /\ IsFree(Last(s)) /\ IsFree(b)
  THEN Front(s) \o <<[Last(s) EXCEPT !.Chunks = @ + b.Chunks]>>
  ELSE Append(s, b)

Merged(s) ==
  LET m[j \in 0 .. Len(s)] == IF j = 0 THEN << >> ELSE Join(m[j - 1], s[j])
  IN  m[Len(s)]

(* EasyMergeChunks of the block at i: it swallows the free ones behind it. *)
EasyMerged(s, i) ==
  LET used == {j \in i + 1 .. Len(s) : ~IsFree(s[j])}
      end == IF used = {} THEN Len(s) ELSE (CHOOSE j \in used : \A k \in used : j <= k) - 1
  IN  SubSeq(s, 1, i - 1) \o Merged(SubSeq(s, i, end)) \o SubSeq(s, end + 1, Len(s))

Dec(x, n) == (x + Word - (n % Word)) % Word

-----------------------------------------------------------------------------
(* The region of AllocMemory, and whether it ends with a pointer. *)
Got(t, n) ==
  LET k == ChunksFor(n)
      i == FirstFit(k)
      p == list[i].at + list[i].Chunks - k
  IN  /\ Fits(k) # {}
      /\ list' = Split(i, k, n)
      /\ TotalBlocks' = (TotalBlocks + 1) % Word
      /\ AllocatedMemory' = (AllocatedMemory + k * CHUNK_SIZE) % Word
      /\ held' = [held EXCEPT ![t] = @ \cup {<<p, n>>}]

(* No fit: the free blocks are merged, and the call fails nevertheless. *)
NotGot(n) ==
  /\ Fits(ChunksFor(n)) = {}
  /\ list' = Merged(list)
  /\ TotalBlocks' = Dec(TotalBlocks, Len(list) - Len(Merged(list)))
  /\ UNCHANGED <<AllocatedMemory, held>>

AllocMemory(t, n) ==
  /\ pc[t] = "user"
  /\ Got(t, n) \/ NotGot(n)
  /\ UNCHANGED <<pc, arg>>

(* FreeMemory: the tests of the header; the region. *)
FreeCheck(t, p) ==
  /\ pc[t] = "user"
  /\ \E i \in DOMAIN list : list[i].at = p /\ ~IsFree(list[i])
  /\ Goto(t, "free", p, 0)
  /\ UNCHANGED <<list, AllocatedMemory, TotalBlocks, held>>

BytesOf(b) == b.Chunks * CHUNK_SIZE

Freed(t, p) ==
  LET i == Index(p)
      free == EasyMerged([list EXCEPT ![i].AllocatedSize = 0], i)
  IN  /\ list' = free
      /\ AllocatedMemory' = Dec(AllocatedMemory, BytesOf(list[i]))
      /\ TotalBlocks' = Dec(TotalBlocks, 1 + Len(list) - Len(free))
      /\ held' = [held EXCEPT ![t] = {h \in @ : h[1] # p}]

FreeMemory(t) ==
  /\ pc[t] = "free"
  /\ Freed(t, arg[t][1])
  /\ Return(t)

(* Slip: the header of the block is forgotten. *)
InPlaceWithHeader(b, n) == n <= b.Chunks * CHUNK_SIZE

(* Does the block b have room for n bytes? *)
InPlace(b, n) == n <= b.Chunks * CHUNK_SIZE - HEADER_SIZE

(* ReallocMemory returns p itself, with the header as it was, or frees p   *)
(* and allocates; nothing is copied.                                       *)
ReallocMemory(t, p, n) ==
  /\ pc[t] = "user"
  /\ \/ /\ InPlace(Block(p), n)
        /\ held' = [held EXCEPT ![t] = {h \in @ : h[1] # p} \cup {<<p, n>>}]
        /\ UNCHANGED <<pc, arg>>
     \/ /\ ~InPlace(Block(p), n)
        /\ Goto(t, "reallocFree", p, n)
        /\ UNCHANGED held
  /\ UNCHANGED <<list, AllocatedMemory, TotalBlocks>>

ReallocFree(t) ==
  /\ pc[t] = "reallocFree"
  /\ Freed(t, arg[t][1])
  /\ Goto(t, "reallocAlloc", arg[t][1], arg[t][2])

ReallocAlloc(t) ==
  /\ pc[t] = "reallocAlloc"
  /\ Got(t, arg[t][2]) \/ NotGot(arg[t][2])
  /\ Return(t)

-----------------------------------------------------------------------------
(* InitializeMemory: one free block. *)
Init ==
  /\ list = <<[at |-> 0, Chunks |-> MaxChunks, AllocatedSize |-> 0]>>
  /\ AllocatedMemory = 0 /\ TotalBlocks = 1
  /\ held = [t \in Task |-> {}]
  /\ pc = [t \in Task |-> "user"]
  /\ arg = [t \in Task |-> None]

Next ==
  \E t \in Task :
    \/ FreeMemory(t) \/ ReallocFree(t) \/ ReallocAlloc(t)
    \/ \E n \in Size : AllocMemory(t, n)
    \/ \E p \in Pointers(t) : FreeCheck(t, p) \/ \E n \in Size : ReallocMemory(t, p, n)

Spec == Init /\ [][Next]_vars

-----------------------------------------------------------------------------
TypeOK ==
  /\ list \in Seq([at : 0 .. MaxChunks - 1, Chunks : 1 .. MaxChunks, AllocatedSize : Size \cup {0}])
  /\ AllocatedMemory \in 0 .. Word - 1 /\ TotalBlocks \in 0 .. Word - 1
  /\ held \in [Task -> SUBSET ((0 .. MaxChunks - 1) \X Size)]
  /\ pc \in [Task -> {"user", "free", "reallocFree", "reallocAlloc"}]

(***************************************************************************)
(* Every pointer leads to the bytes that were asked for: the block holds   *)
(* them behind its header, after an allocation and after a reallocation.   *)
(***************************************************************************)
RoomForRequest ==
  /\ TypeOK
  /\ \A t \in Task : \A h \in held[t] : h[2] + HEADER_SIZE <= Block(h[1]).Chunks * CHUNK_SIZE

(***************************************************************************)
(* The list implements a pool of chunks: an allocation takes chunks nobody *)
(* has and keeps them until it is freed, whatever is split or merged.      *)
(***************************************************************************)
Allocation ==
  [c \in 0 .. MaxChunks - 1 |->
     LET b == CHOOSE b \in Range(list) : b.at <= c /\ c < b.at + b.Chunks
     IN  IF IsFree(b) THEN None ELSE b.at]

Pool == INSTANCE MemoryPool WITH Chunk <- 0 .. MaxChunks - 1, allocation <- Allocation
ImplementsPool == Pool!Spec
=============================================================================
