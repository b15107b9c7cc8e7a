---------------------------- MODULE OsMsg_proofs ----------------------------
(***************************************************************************)
(* Proofs about the mailboxes and message queues, for any tasks, boxes,    *)
(* messages, queue size and bounds, whatever the tasks call, delete or     *)
(* suspend.                                                                *)
(***************************************************************************)
EXTENDS OsMsg, SequenceTheorems, WellFoundedInduction, FiniteSetTheorems, TLAPS

InPend(t) == pc[t] \in {"schedPend", "pended"}
Creating(t) == pc[t] \in {"tcbTake", "tcbLink", "unreserve"}
Filling(t) == pc[t] \in {"mboxInit", "qcbTake", "qFill"}
OnBox(t) == InPend(t) \/ Filling(t) \/ pc[t] \in Regions
Leaving == {"sched", "schedPend", "tcbFree"}

-----------------------------------------------------------------------------
(* The kernel core *)

CoreType ==
  /\ OSRdyTbl \subseteq Task /\ OSPrioCur \in Task
  /\ OSIntNesting \in Nat /\ OSLockNesting \in Nat
  /\ irq \in BOOLEAN /\ tick \in BOOLEAN /\ tickLeft \subseteq Task
  /\ OSTCBPrioTbl \in [Task -> {"free", "reserved", "used"}]
  /\ OSTCBFree \in Nat
  /\ OSTCBDly \in [Task -> 0 .. MaxDly]
  /\ OSTCBStat \in [Task -> SUBSET {"MBOX", "Q", "SUSPEND"}]
  /\ OSTCBPendTO \in [Task -> BOOLEAN]
  /\ OSTCBEventPtr \in [Task -> Event \cup {None}]
  /\ OSEventTbl \in [Event -> SUBSET Task]
  /\ pc \in [Task -> Label]
  /\ arg \in [Task -> Event \cup Task \cup {None}]

(* OSIntNesting counts the active handlers. *)
NestingOK ==
  OSIntNesting = (IF irq THEN 1 ELSE 0) + (IF tick THEN 1 ELSE 0)

(* The idle task exists, is always ready and makes no call. *)
IdleOK == /\ Used(Idle) /\ pc[Idle] = "user"
          /\ OSTCBStat[Idle] = {} /\ OSTCBDly[Idle] = 0
          /\ Idle \notin tickLeft

(* Each call is about what it should be about. *)
ArgOK ==
  \A t \in Task : /\ OnBox(t) => arg[t] \in Event
                  /\ Creating(t) \/ pc[t] = "tcbFree" => arg[t] \in Task \ {Idle}

(* A priority that is being given to a new task is reserved, and for one.  *)
CreateOK ==
  /\ \A t \in Task : Creating(t) => OSTCBPrioTbl[arg[t]] = "reserved"
  /\ \A t, u \in Task : Creating(t) /\ Creating(u) /\ arg[t] = arg[u] => t = u

(* A deletion that is in progress: it holds the lock, so it is the running *)
(* task's, and no tick or post can touch its victim any more.              *)
DelOK ==
  \A t \in Task : pc[t] = "tcbFree" =>
    /\ t = OSPrioCur /\ OSLockNesting > 0
    /\ arg[t] = t => OSLockNesting = 1
    /\ Used(arg[t]) /\ OSTCBStat[arg[t]] = {} /\ OSTCBDly[arg[t]] = 0
    /\ ~OSTCBPendTO[arg[t]]
    /\ \A e \in Event : arg[t] \notin OSEventTbl[e]

(* A task that does not exist is nowhere in the kernel. *)
DeadOK == \A p \in Task : ~Used(p) => /\ OSTCBStat[p] = {} /\ OSTCBDly[p] = 0
                                      /\ ~OSTCBPendTO[p] /\ pc[p] \in {"user", "sched"}

(* A task waits with the pending status of the box it is listed at, or has *)
(* been timed out; never both.                                             *)
PendOK ==
  \A p \in Task :
    /\ OSTCBStat[p] \cap Pend # {} => InPend(p)
    /\ OSTCBPendTO[p] => /\ InPend(p) /\ OSTCBStat[p] \cap Pend = {}
                         /\ OSTCBDly[p] = 0
    /\ \A e \in Event : p \in OSEventTbl[e] =>
         /\ OSEventType[e] # "UNUSED"
         /\ OSTCBPendTO[p] \/ OSTCBStat[p] \cap Pend = {OSEventType[e]}

(* The task that has the CPU is ready unless it is about to give it up; it *)
(* never gives it up while it holds the scheduler lock.                    *)
CurOK ==
  /\ pc[OSPrioCur] \notin Leaving => OSPrioCur \in OSRdyTbl
  /\ pc[OSPrioCur] = "tcbFree" /\ arg[OSPrioCur] # OSPrioCur
       => OSPrioCur \in OSRdyTbl
  /\ OSLockNesting > 0 =>
       /\ pc[OSPrioCur] \notin {"mboxPend", "qPend", "schedPend", "pended"}
       /\ pc[OSPrioCur] # "tcbFree" => OSPrioCur \in OSRdyTbl

(* A task is in the wait list of at most one box, the one its TCB points   *)
(* to, and only while it is inside the pend on that box.                   *)
WaitListed ==
  \A e \in Event : \A p \in OSEventTbl[e] :
    /\ Used(p) /\ OSTCBEventPtr[p] = e
    /\ InPend(p) /\ arg[p] = e

(* The ready list holds exactly the tasks that have nothing to wait for.   *)
ReadyExact ==
  \A p \in Task : p \in OSRdyTbl <=> /\ Used(p) /\ ~BeingDeleted(p)
                                     /\ OSTCBStat[p] = {} /\ OSTCBDly[p] = 0

KInv == /\ CoreType /\ NestingOK /\ IdleOK /\ ArgOK /\ CreateOK /\ DelOK /\ DeadOK
        /\ PendOK /\ CurOK /\ WaitListed /\ ReadyExact

-----------------------------------------------------------------------------
(* The boxes *)

BoxType ==
  /\ OSEventType \in [Event -> {"MBOX", "Q", "UNUSED"}]
  /\ OSEventPtr \in [Event -> Event \cup Qcb \cup Msg \cup {None}]
  /\ OSEventFreeList \in Event \cup {None}
  /\ OSQFreeList \subseteq Qcb
  /\ OSQ \in [Qcb -> [In : Slot, Out : Slot, Entries : 0 .. QSize,
                      Tbl : [Slot -> Msg]]]
  /\ OSTCBMsg \in [Task -> Msg \cup {None}]

(* Between its test and its region a call keeps its box from deletion. *)
RegionOK ==
  \A t \in Task : pc[t] \in Regions => OSEventType[arg[t]] = TypeOf(pc[t])

(* A block that is being filled in is one task's. *)
FillOK ==
  /\ \A t \in Task : Filling(t) => OSEventType[arg[t]] = "UNUSED"
  /\ \A t, u \in Task : Filling(t) /\ Filling(u) /\ arg[t] = arg[u] => t = u

(* The queues, and those that are being made, each with its own OS_Q. *)
Owns(e) == OSEventType[e] = "Q" \/ \E t \in Task : pc[t] = "qFill" /\ arg[t] = e

OwnOK ==
  /\ \A e \in Event : Owns(e) => OSEventPtr[e] \in Qcb \ OSQFreeList
  /\ \A e, f \in Event : Owns(e) /\ Owns(f) /\ OSEventPtr[e] = OSEventPtr[f] => e = f

MboxOK == \A e \in Event : OSEventType[e] = "MBOX" => OSEventPtr[e] \in Msg \cup {None}

(* OSQIn is where OSQOut and the number of entries put it. *)
RingOK == \A q \in Qcb : OSQ[q].In = (OSQ[q].Out + OSQ[q].Entries) % QSize

(* The blocks in nobody's hands, and the free list among them. *)
Spare == {e \in Event : OSEventType[e] = "UNUSED"} \ {arg[t] : t \in {u \in Task : Filling(u)}}
FreeOK == \E S \in SUBSET Spare : FreeListOf(S, OSEventFreeList, OSEventPtr)

MInv == BoxType /\ RegionOK /\ FillOK /\ OwnOK /\ MboxOK /\ RingOK

IInv == KInv /\ MInv /\ FreeOK

(* Nothing is lost. *)
AllFree == /\ FreeListOf(Spare, OSEventFreeList, OSEventPtr)
           /\ OSQFreeList = Qcb \ {OSEventPtr[e] : e \in {f \in Event : Owns(f)}}

-----------------------------------------------------------------------------
(* The kernel core keeps its invariant *)

(* Highest returns the least element: it exists, tasks being naturals. *)
LEMMA HighestIn ==
  ASSUME NEW S \in SUBSET Task, S # {}
  PROVE  Highest(S) \in S /\ \A q \in S : Highest(S) <= q
  <1>1. \E p \in S : \A q \in S : <<q, p>> \notin OpToRel(<, Nat)
    <2>1. S \subseteq Nat
      BY CoreAssumption
    <2> QED
      BY <2>1, WFMin, NatLessThanWellFounded
  <1>2. \E p \in S : \A q \in S : p <= q
    <2>1. PICK p \in S : \A q \in S : <<q, p>> \notin OpToRel(<, Nat)
      BY <1>1
    <2>2. \A q \in S : q \in Nat /\ p \in Nat
      BY CoreAssumption
    <2>3. \A q \in S : ~(q < p)
      BY <2>1, <2>2 DEF OpToRel
    <2> QED
      BY <2>2, <2>3
  <1> QED
    BY <1>2 DEF Highest

(* The most urgent ready task exists: the idle task is ready. *)
LEMMA HighestReady == KInv => Highest(OSRdyTbl) \in OSRdyTbl
  <1> SUFFICES ASSUME KInv PROVE OSRdyTbl # {}
    BY HighestIn DEF KInv, CoreType
  <1> QED
    BY CoreAssumption DEF KInv, IdleOK, ReadyExact, BeingDeleted, ArgOK

(* What the end of a delay changes: p's status and timeout, no one else's. *)
LEMMA DlyExpiredOnly ==
  ASSUME KInv, NEW p \in Task, DlyExpired(p)
  PROVE  /\ OSTCBStat'[p] = OSTCBStat[p] \ Pend
         /\ OSTCBPendTO'[p] = (OSTCBStat[p] \cap Pend # {})
         /\ \A q \in Task \ {p} : /\ OSTCBStat'[q] = OSTCBStat[q]
                                  /\ OSTCBPendTO'[q] = OSTCBPendTO[q]
  BY DEF KInv, CoreType, DlyExpired, Pend

-----------------------------------------------------------------------------
LEMMA IrqEntryStep ==
  ASSUME KInv, IrqEntry /\ OSEventType' = OSEventType
  PROVE  KInv'
  BY CoreAssumption, SMTT(60)
  DEF KInv, CoreType, NestingOK, IdleOK, ArgOK, CreateOK, DelOK, DeadOK, PendOK,
      CurOK, WaitListed, ReadyExact, BeingDeleted, Leaving,
      InPend, Creating, OnBox, Filling, Used, Pend, Stat, Label, Regions, coreVars,
      cpuVars, tblVars, tcbVars, IrqEntry

LEMMA IrqExitStep ==
  ASSUME KInv, IrqExit /\ OSEventType' = OSEventType
  PROVE  KInv'
  <1> USE DEF KInv, CoreType, cpuVars, tblVars, tcbVars, IrqExit
  <1>1. CoreType'
    <2>1. OSIntNesting' \in Nat
      BY DEF NestingOK
    <2> QED
      BY <2>1
  <1>2. NestingOK' /\ IdleOK' /\ ArgOK' /\ CreateOK' /\ DeadOK'
    BY CoreAssumption, SMTT(60)
    DEF NestingOK, IdleOK, Used, ArgOK, WaitListed, Creating, OnBox, Filling,
        Regions, InPend, CreateOK, DelOK, DeadOK
  <1>3. DelOK'
    BY CoreAssumption, SMTT(60) DEF DelOK, Used
  <1>4. PendOK'
    BY CoreAssumption, SMTT(60) DEF PendOK, InPend, Pend
  <1>5. CurOK'
    BY CoreAssumption, SMTT(60) DEF CurOK, Leaving
  <1>6. WaitListed'
    BY CoreAssumption, SMTT(60) DEF WaitListed, Used, InPend
  <1>8. ReadyExact'
    BY CoreAssumption, SMTT(60) DEF ReadyExact, Used, BeingDeleted
  <1> QED
    BY <1>1, <1>2, <1>3, <1>4, <1>5, <1>6, <1>8 DEF KInv

LEMMA TickEntryStep ==
  ASSUME KInv, TickEntry /\ OSEventType' = OSEventType
  PROVE  KInv'
  BY CoreAssumption, SMTT(60)
  DEF KInv, CoreType, NestingOK, IdleOK, ArgOK, CreateOK, DelOK, DeadOK, PendOK,
      CurOK, WaitListed, ReadyExact, BeingDeleted, Leaving,
      InPend, Creating, OnBox, Filling, Used, Pend, Stat, Label, Regions, coreVars,
      cpuVars, tblVars, tcbVars, TickEntry

LEMMA TickOneStep ==
  ASSUME KInv, NEW p \in Task,
         TickOne(p) /\ OSEventType' = OSEventType
  PROVE  KInv'
  <1> USE DEF KInv, CoreType, cpuVars, tblVars, tcbVars, TickOne,
              DlyExpired, ReadyIf
  <1>1. CoreType'
    <2>1. OSTCBDly' \in [Task -> 0 .. MaxDly]
      BY CoreAssumption
    <2>2. OSTCBStat' \in [Task -> SUBSET {"MBOX", "Q", "SUSPEND"}]
      BY DEF Stat
    <2>3. OSTCBPendTO' \in [Task -> BOOLEAN]
      OBVIOUS
    <2>4. OSRdyTbl' \subseteq Task
      OBVIOUS
    <2> QED
      BY <2>1, <2>2, <2>3, <2>4
  <1>2. NestingOK' /\ IdleOK' /\ ArgOK' /\ CreateOK' /\ DeadOK'
    BY CoreAssumption, SMTT(60)
    DEF NestingOK, IdleOK, Used, ArgOK, WaitListed, Creating, OnBox, Filling,
        Regions, InPend, CreateOK, DelOK, DeadOK
  <1>3. DelOK'
    <2>1. CASE OSTCBDly[p] = 0
      BY <2>1 DEF KInv, DelOK, Used, cpuVars, tblVars, TickOne, DlyExpired, ReadyIf
    <2>2. CASE OSTCBDly[p] # 0
      <3>1. ASSUME NEW u \in Task, pc[u] = "tcbFree"
            PROVE  arg[u] \in Task /\ arg[u] # p
        BY <2>2, <3>1 DEF KInv, ArgOK, DelOK
      <3>2. ASSUME NEW q \in Task, q # p
            PROVE  /\ OSTCBStat'[q] = OSTCBStat[q] /\ OSTCBDly'[q] = OSTCBDly[q]
                   /\ OSTCBPendTO'[q] = OSTCBPendTO[q]
        BY <2>2, <3>2, DlyExpiredOnly DEF KInv, CoreType, TickOne
      <3>3. UNCHANGED <<OSPrioCur, OSLockNesting, OSTCBPrioTbl, OSEventTbl, pc, arg>>
        BY DEF tblVars, TickOne
      <3> QED
        BY <3>1, <3>2, <3>3 DEF KInv, DelOK, Used
    <2> QED
      BY <2>1, <2>2
  <1>4. PendOK'
    <2>1. CASE OSTCBDly[p] # 1
      BY <2>1 DEF KInv, CoreType, PendOK, InPend, TickOne
    <2>2. CASE OSTCBDly[p] = 1
      <3>1. OSTCBDly' = [OSTCBDly EXCEPT ![p] = 0] /\ DlyExpired(p)
        BY <2>2 DEF KInv, CoreType, TickOne
      <3>2. ASSUME NEW q \in Task, q # p
            PROVE  /\ OSTCBStat'[q] = OSTCBStat[q] /\ OSTCBDly'[q] = OSTCBDly[q]
                   /\ OSTCBPendTO'[q] = OSTCBPendTO[q]
        BY <3>1, <3>2, DlyExpiredOnly DEF KInv, CoreType
      <3>3. /\ OSTCBStat'[p] = OSTCBStat[p] \ Pend /\ OSTCBDly'[p] = 0
            /\ OSTCBPendTO'[p] <=> OSTCBStat[p] \cap Pend # {}
        BY <3>1, DlyExpiredOnly DEF KInv, CoreType
      <3>4. OSEventTbl' = OSEventTbl /\ pc' = pc
        BY DEF TickOne
      <3> QED
        <4> SUFFICES ASSUME NEW q \in Task
                     PROVE  /\ OSTCBStat'[q] \cap Pend # {} => InPend(q)
                            /\ OSTCBPendTO'[q] =>
                                 /\ InPend(q) /\ OSTCBStat'[q] \cap Pend = {}
                                 /\ OSTCBDly'[q] = 0
                            /\ \A e \in Event : q \in OSEventTbl[e] =>
                                 /\ OSEventType[e] # "UNUSED"
                                 /\ OSTCBPendTO'[q] \/ OSTCBStat'[q] \cap Pend = {OSEventType[e]}
          BY <3>4 DEF PendOK, InPend
        <4>1. CASE q = p
          <5>1. ~OSTCBPendTO[p]
            BY <2>2 DEF KInv, PendOK
          <5> QED
            BY ZenonT(60), <3>3, <4>1, <5>1 DEF KInv, PendOK, Pend
        <4>2. CASE q # p
          BY <3>2, <4>2 DEF KInv, PendOK
        <4> QED
          BY <4>1, <4>2
    <2> QED
      BY <2>1, <2>2
  <1>5. CurOK'
    BY CoreAssumption, SMTT(60) DEF CurOK, Leaving
  <1>6. WaitListed'
    BY CoreAssumption, SMTT(60) DEF WaitListed, Used, InPend
  <1>8. ReadyExact'
    BY CoreAssumption, SMTT(60)
    DEF ReadyExact, Used, BeingDeleted, DeadOK, DelOK, ArgOK, WaitListed,
        CreateOK, Creating, PendOK, Pend, InPend
  <1> QED
    BY <1>1, <1>2, <1>3, <1>4, <1>5, <1>6, <1>8 DEF KInv

LEMMA IntExitStep ==
  ASSUME KInv, OSIntExit /\ OSEventType' = OSEventType
  PROVE  KInv'
  <1> USE DEF KInv, CoreType, cpuVars, tblVars, tcbVars, OSIntExit,
              Dispatch
  <1>1. CoreType'
    <2>1. OSPrioCur' \in Task
      BY HighestReady
    <2>2. OSIntNesting' \in Nat
      BY HighestReady DEF NestingOK
    <2> QED
      BY <2>1, <2>2
  <1>2. NestingOK' /\ IdleOK' /\ ArgOK' /\ CreateOK' /\ DeadOK'
    BY CoreAssumption, SMTT(60)
    DEF NestingOK, IdleOK, Used, ArgOK, WaitListed, Creating, OnBox, Filling,
        Regions, InPend, CreateOK, DelOK, DeadOK
  <1>3. DelOK'
    BY CoreAssumption, SMTT(60) DEF DelOK, Used
  <1>4. PendOK'
    BY CoreAssumption, SMTT(60) DEF PendOK, InPend, Pend
  <1>5. CurOK'
    BY HighestReady, CoreAssumption, SMTT(60) DEF CurOK, Leaving
  <1>6. WaitListed'
    BY CoreAssumption, SMTT(60) DEF WaitListed, Used, InPend
  <1>8. ReadyExact'
    BY CoreAssumption, SMTT(60) DEF ReadyExact, Used, BeingDeleted
  <1> QED
    BY <1>1, <1>2, <1>3, <1>4, <1>5, <1>6, <1>8 DEF KInv

LEMMA SchedStep ==
  ASSUME KInv, NEW t \in Task,
         OS_Sched(t) /\ OSEventType' = OSEventType
  PROVE  KInv'
  <1> USE DEF KInv, CoreType, cpuVars, tblVars, tcbVars, OS_Sched,
              Dispatch, At, Running, Return, Goto
  <1>1. CoreType'
    <2>1. pc' \in [Task -> Label]
      BY HighestReady DEF Label
    <2>2. arg' \in [Task -> Event \cup Task \cup {None}]
      BY HighestReady
    <2>3. OSPrioCur' \in Task
      BY HighestReady
    <2> QED
      BY <2>1, <2>2, <2>3
  <1>2. NestingOK' /\ IdleOK' /\ ArgOK' /\ CreateOK' /\ DeadOK'
    BY CoreAssumption, SMTT(60)
    DEF NestingOK, IdleOK, Used, ArgOK, WaitListed, Creating, OnBox, Filling,
        Regions, InPend, CreateOK, DelOK, DeadOK
  <1>3. DelOK'
    <2>1. pc[t] \in {"sched", "schedPend"} /\ OSPrioCur = t
      OBVIOUS
    <2>2. \A u \in Task : pc[u] # "tcbFree"
      BY <2>1 DEF DelOK
    <2>3. \A u \in Task : pc'[u] # "tcbFree"
      BY <2>2
    <2> QED
      BY <2>3 DEF DelOK
  <1>4. PendOK'
    BY CoreAssumption, SMTT(60) DEF PendOK, InPend, Pend
  <1>5. CurOK'
    BY HighestReady, CoreAssumption, SMTT(60)
    DEF CurOK, Leaving, DelOK, ReadyExact, Used, BeingDeleted, NestingOK
  <1>6. WaitListed'
    BY CoreAssumption, SMTT(60) DEF WaitListed, Used, InPend
  <1>8. ReadyExact'
    BY CoreAssumption, SMTT(60) DEF ReadyExact, Used, BeingDeleted
  <1> QED
    BY <1>1, <1>2, <1>3, <1>4, <1>5, <1>6, <1>8 DEF KInv

LEMMA TcbTakeStep ==
  ASSUME KInv, NEW t \in Task,
         TcbTake(t) /\ OSEventType' = OSEventType
  PROVE  KInv'
  BY CoreAssumption, SMTT(60)
  DEF KInv, CoreType, NestingOK, IdleOK, ArgOK, CreateOK, DelOK, DeadOK, PendOK,
      CurOK, WaitListed, ReadyExact, BeingDeleted, Leaving,
      InPend, Creating, OnBox, Filling, Used, Pend, Stat, Label, Regions, coreVars,
      cpuVars, tblVars, tcbVars, TcbTake, At, Running, Goto

LEMMA TcbLinkStep ==
  ASSUME KInv, NEW t \in Task,
         TcbLink(t) /\ OSEventType' = OSEventType
  PROVE  KInv'
  <1> USE DEF KInv, CoreType, cpuVars, tblVars, tcbVars, TcbLink, At,
              Running
  <1>1. CoreType'
    <2>1. OSTCBPrioTbl' \in [Task -> {"free", "reserved", "used"}]
      BY DEF ArgOK, OnBox, Filling, Creating, Regions
    <2>2. OSTCBDly' \in [Task -> 0 .. MaxDly]
      BY CoreAssumption DEF ArgOK, OnBox, Filling, Creating, Regions
    <2>3. OSTCBStat' \in [Task -> SUBSET {"MBOX", "Q", "SUSPEND"}]
      BY DEF ArgOK, OnBox, Filling, Creating, Regions, Stat
    <2>4. OSTCBPendTO' \in [Task -> BOOLEAN]
      BY DEF ArgOK, OnBox, Filling, Creating, Regions
    <2>5. OSTCBEventPtr' \in [Task -> Event \cup {None}]
      BY DEF ArgOK, OnBox, Filling, Creating, Regions
    <2>6. OSRdyTbl' \subseteq Task
      BY DEF ArgOK, OnBox, Filling, Creating, Regions
    <2>7. pc' \in [Task -> Label]
      BY DEF ArgOK, OnBox, Filling, Creating, Regions, Label
    <2>8. arg' \in [Task -> Event \cup Task \cup {None}]
      BY DEF ArgOK, OnBox, Filling, Creating, Regions
    <2> QED
      BY <2>1, <2>2, <2>3, <2>4, <2>5, <2>6, <2>7, <2>8
  <1>2. NestingOK' /\ IdleOK' /\ ArgOK' /\ CreateOK' /\ DeadOK'
    BY CoreAssumption, SMTT(60)
    DEF NestingOK, IdleOK, Used, ArgOK, WaitListed, Creating, OnBox, Filling,
        Regions, InPend, CreateOK, DelOK, DeadOK
  <1>3. DelOK'
    BY CoreAssumption, SMTT(60) DEF DelOK, Used
  <1>4. PendOK'
    BY CoreAssumption, SMTT(60)
    DEF NestingOK, IdleOK, ArgOK, CreateOK, DelOK, DeadOK, PendOK, CurOK,
        WaitListed, ReadyExact, BeingDeleted, Leaving, InPend,
        Creating, OnBox, Filling, Used, Pend, Stat, Label, Regions, coreVars
  <1>5. CurOK'
    BY CoreAssumption, SMTT(60) DEF CurOK, Leaving
  <1>6. WaitListed'
    BY CoreAssumption, SMTT(60)
    DEF NestingOK, IdleOK, ArgOK, CreateOK, DelOK, DeadOK, PendOK, CurOK,
        WaitListed, ReadyExact, BeingDeleted, Leaving, InPend,
        Creating, OnBox, Filling, Used, Pend, Stat, Label, Regions, coreVars
  <1>8. ReadyExact'
    BY CoreAssumption, SMTT(60)
    DEF ReadyExact, Used, BeingDeleted, DeadOK, DelOK, ArgOK, WaitListed,
        CreateOK, Creating, PendOK, Pend, InPend
  <1> QED
    BY <1>1, <1>2, <1>3, <1>4, <1>5, <1>6, <1>8 DEF KInv

LEMMA UnreserveStep ==
  ASSUME KInv, NEW t \in Task,
         TaskUnreserve(t) /\ OSEventType' = OSEventType
  PROVE  KInv'
  <1> USE DEF KInv, CoreType, cpuVars, tblVars, tcbVars, TaskUnreserve, At, Running,
              Return, Goto
  <1>1. CoreType'
    <2>1. pc' \in [Task -> Label]
      BY DEF Label
    <2> QED
      BY <2>1
  <1>2. arg[t] \in Task \ {Idle} /\ ~Used(arg[t]) /\ OSPrioCur \in OSRdyTbl
    BY DEF ArgOK, Creating, CreateOK, Used, CurOK, Leaving
  <1>3. \A u \in Task : Used(u)' <=> Used(u)
    BY <1>2 DEF Used
  <1>4. NestingOK' /\ IdleOK' /\ DeadOK'
    BY <1>2, <1>3, CoreAssumption DEF NestingOK, IdleOK, DeadOK
  <1>5. ArgOK' /\ CreateOK'
    BY CoreAssumption, SMTT(60)
    DEF ArgOK, CreateOK, Creating, OnBox, Filling, InPend, Regions
  <1>6. DelOK' /\ CurOK'
    BY <1>2, <1>3 DEF DelOK, CurOK, Leaving
  <1>7. PendOK' /\ WaitListed'
    BY <1>3 DEF PendOK, WaitListed, InPend
  <1>8. ReadyExact'
    BY <1>3 DEF ReadyExact, BeingDeleted
  <1> QED
    BY <1>1, <1>4, <1>5, <1>6, <1>7, <1>8 DEF KInv

LEMMA DelFreeStep ==
  ASSUME KInv, NEW t \in Task,
         TaskDelFree(t) /\ OSEventType' = OSEventType
  PROVE  KInv'
  BY CoreAssumption, SMTT(60)
  DEF KInv, CoreType, NestingOK, IdleOK, ArgOK, CreateOK, DelOK, DeadOK, PendOK,
      CurOK, WaitListed, ReadyExact, BeingDeleted, Leaving,
      InPend, Creating, OnBox, Filling, Used, Pend, Stat, Label, Regions, coreVars,
      cpuVars, tblVars, tcbVars, TaskDelFree, At, Running

LEMMA DlyStep ==
  ASSUME KInv, NEW t \in Task, NEW n \in 1 .. MaxDly,
         OSTimeDly(t, n) /\ OSEventType' = OSEventType
  PROVE  KInv'
  BY CoreAssumption, SMTT(60)
  DEF KInv, CoreType, NestingOK, IdleOK, ArgOK, CreateOK, DelOK, DeadOK, PendOK,
      CurOK, WaitListed, ReadyExact, BeingDeleted, Leaving,
      InPend, Creating, OnBox, Filling, Used, Pend, Stat, Label, Regions, coreVars,
      cpuVars, tblVars, tcbVars, OSTimeDly, MayBlock, Calling,
      Running, Reschedule, Goto

LEMMA DlyResumeStep ==
  ASSUME KInv, NEW t \in Task, NEW p \in Task \ {Idle},
         OSTimeDlyResume(t, p) /\ OSEventType' = OSEventType
  PROVE  KInv'
  <1> USE DEF KInv, CoreType, cpuVars, tblVars, tcbVars,
              OSTimeDlyResume, DlyExpired, ReadyIf, Calling, Running,
              Reschedule, Return, Goto
  <1>1. CoreType'
    <2>1. OSRdyTbl' \subseteq Task
      OBVIOUS
    <2>2. OSTCBStat' \in [Task -> SUBSET {"MBOX", "Q", "SUSPEND"}]
      BY DEF Stat
    <2>3. OSTCBDly' \in [Task -> 0 .. MaxDly]
      BY CoreAssumption
    <2>4. OSTCBPendTO' \in [Task -> BOOLEAN]
      OBVIOUS
    <2>5. pc' \in [Task -> Label]
      BY DEF Label
    <2>6. arg' \in [Task -> Event \cup Task \cup {None}]
      OBVIOUS
    <2> QED
      BY <2>1, <2>2, <2>3, <2>4, <2>5, <2>6
  <1>2. NestingOK' /\ IdleOK' /\ ArgOK' /\ CreateOK' /\ DeadOK'
    BY CoreAssumption, SMTT(60)
    DEF NestingOK, IdleOK, Used, ArgOK, WaitListed, Creating, OnBox, Filling,
        Regions, InPend, CreateOK, DelOK, DeadOK
  <1>3. DelOK'
    <2>1. pc[t] = "user" /\ OSPrioCur = t
      OBVIOUS
    <2>2. \A u \in Task : pc[u] # "tcbFree"
      BY <2>1 DEF DelOK
    <2>3. \A u \in Task : pc'[u] # "tcbFree"
      BY <2>2
    <2> QED
      BY <2>3 DEF DelOK
  <1>4. PendOK'
    <2>1. /\ OSTCBDly[p] # 0 /\ OSTCBDly' = [OSTCBDly EXCEPT ![p] = 0]
          /\ DlyExpired(p)
      BY DEF OSTimeDlyResume
    <2>2. ASSUME NEW q \in Task, q # p
          PROVE  /\ OSTCBStat'[q] = OSTCBStat[q] /\ OSTCBDly'[q] = OSTCBDly[q]
                 /\ OSTCBPendTO'[q] = OSTCBPendTO[q]
      BY <2>1, <2>2, DlyExpiredOnly DEF KInv, CoreType
    <2>3. /\ OSTCBStat'[p] = OSTCBStat[p] \ Pend /\ OSTCBDly'[p] = 0
          /\ OSTCBPendTO'[p] <=> OSTCBStat[p] \cap Pend # {}
      BY <2>1, DlyExpiredOnly DEF KInv, CoreType
    <2>4. OSEventTbl' = OSEventTbl /\ \A q \in Task : InPend(q) => InPend(q)'
      BY DEF KInv, CoreType, InPend, OSTimeDlyResume, DlyExpired, ReadyIf, Calling, Running, Reschedule, Return, Goto
    <2> QED
      BY SMTT(60), <2>1, <2>2, <2>3, <2>4 DEF KInv, PendOK, Pend
  <1>5. CurOK'
    BY CoreAssumption, SMTT(60) DEF CurOK, Leaving
  <1>6. WaitListed'
    BY CoreAssumption, SMTT(60) DEF WaitListed, Used, InPend
  <1>8. ReadyExact'
    BY CoreAssumption, SMTT(60)
    DEF ReadyExact, Used, BeingDeleted, DeadOK, DelOK, ArgOK, WaitListed,
        CreateOK, Creating, PendOK, Pend, InPend
  <1> QED
    BY <1>1, <1>2, <1>3, <1>4, <1>5, <1>6, <1>8 DEF KInv

LEMMA ReserveStep ==
  ASSUME KInv, NEW t \in Task, NEW p \in Task \ {Idle},
         TaskReserve(t, p) /\ OSEventType' = OSEventType
  PROVE  KInv'
  BY CoreAssumption, SMTT(60)
  DEF KInv, CoreType, NestingOK, IdleOK, ArgOK, CreateOK, DelOK, DeadOK, PendOK,
      CurOK, WaitListed, ReadyExact, BeingDeleted, Leaving,
      InPend, Creating, OnBox, Filling, Used, Pend, Stat, Label, Regions, coreVars,
      cpuVars, tblVars, tcbVars, TaskReserve, Calling, Running, Goto

LEMMA CallStill ==
  ASSUME ArgOK, CreateOK, NEW t \in Task, OSTCBPrioTbl' = OSTCBPrioTbl,
         \A u \in Task \ {t} : pc'[u] = pc[u] /\ arg'[u] = arg[u],
         pc'[t] \in {"user", "sched"}
  PROVE  ArgOK' /\ CreateOK'
  <1>1. \A u \in Task : /\ OnBox(u)' => u # t /\ OnBox(u)
                        /\ Creating(u)' => u # t /\ Creating(u)
                        /\ pc'[u] = "tcbFree" => u # t /\ pc[u] = "tcbFree"
    BY DEF OnBox, InPend, Filling, Creating, Regions
  <1> QED
    BY <1>1 DEF ArgOK, CreateOK

LEMMA SuspendStep ==
  ASSUME KInv, NEW t \in Task, NEW p \in MaySuspend,
         OSTaskSuspend(t, p) /\ OSEventType' = OSEventType
  PROVE  KInv'
  <1> USE DEF KInv, CoreType, cpuVars, tblVars, tcbVars, OSTaskSuspend,
              MayBlock, Calling, Running, Reschedule, Return, Goto
  <1>1. CoreType'
    <2>1. OSRdyTbl' \subseteq Task
      BY TargetAssumption
    <2>2. OSTCBStat' \in [Task -> SUBSET {"MBOX", "Q", "SUSPEND"}]
      BY TargetAssumption DEF Stat
    <2>3. pc' \in [Task -> Label]
      BY TargetAssumption DEF Label
    <2>4. arg' \in [Task -> Event \cup Task \cup {None}]
      BY TargetAssumption
    <2> QED
      BY <2>1, <2>2, <2>3, <2>4
  <1>2. NestingOK' /\ IdleOK' /\ ArgOK' /\ CreateOK' /\ DeadOK'
    <2>1. Calling(t) /\ p \in Task \ {Idle}
      BY TargetAssumption DEF OSTaskSuspend, MayBlock
    <2>2. NestingOK' /\ IdleOK'
      <3>1. pc'[Idle] = pc[Idle] /\ OSTCBStat'[Idle] = OSTCBStat[Idle]
        BY <2>1, CoreAssumption DEF KInv, CoreType, OSTaskSuspend, MayBlock, Calling, Running, Reschedule, Return, Goto
      <3> QED
        BY <3>1 DEF KInv, NestingOK, IdleOK, Used, cpuVars, tblVars, OSTaskSuspend
    <2>4. DeadOK'
      BY DEF KInv, CoreType, DeadOK, Used, tblVars, OSTaskSuspend
    <2>3. ArgOK' /\ CreateOK'
      <3>1. /\ \A u \in Task \ {t} : pc'[u] = pc[u] /\ arg'[u] = arg[u]
            /\ pc'[t] \in {"user", "sched"} /\ OSTCBPrioTbl' = OSTCBPrioTbl
        BY DEF KInv, CoreType, tblVars, OSTaskSuspend, MayBlock, Calling, Running, Reschedule, Return, Goto
      <3>2. ArgOK'
        BY <3>1, CallStill DEF KInv
      <3>3. CreateOK'
        BY <3>1, CallStill DEF KInv
      <3> QED
        BY <3>2, <3>3
    <2> QED
      BY <2>2, <2>3, <2>4
  <1>3. DelOK'
    BY CoreAssumption, TargetAssumption, SMTT(60) DEF DelOK, Used
  <1>4. PendOK'
    <2>1. \A q \in Task : OSTCBStat'[q] \cap Pend = OSTCBStat[q] \cap Pend
      BY TargetAssumption DEF KInv, CoreType, OSTaskSuspend, Pend
    <2>2. /\ UNCHANGED <<OSTCBPendTO, OSTCBDly, OSEventTbl, OSEventType>>
          /\ \A q \in Task : InPend(q) => InPend(q)'
      BY DEF KInv, CoreType, InPend, OSTaskSuspend, MayBlock, Calling, Running, Reschedule, Return, Goto
    <2> QED
      BY <2>1, <2>2 DEF KInv, PendOK
  <1>5. CurOK'
    BY CoreAssumption, TargetAssumption, SMTT(60) DEF CurOK, Leaving
  <1>6. WaitListed'
    BY CoreAssumption, TargetAssumption, SMTT(60) DEF WaitListed, Used, InPend
  <1>8. ReadyExact'
    <2>1. /\ p \in Task /\ OSTCBStat'[p] # {} /\ OSRdyTbl' = OSRdyTbl \ {p}
          /\ \A q \in Task : q # p => OSTCBStat'[q] = OSTCBStat[q]
          /\ OSTCBDly' = OSTCBDly /\ OSTCBPrioTbl' = OSTCBPrioTbl
      BY TargetAssumption DEF KInv, CoreType, tblVars, OSTaskSuspend
    <2>2. \A q \in Task : BeingDeleted(q)' <=> BeingDeleted(q)
      BY DEF KInv, CoreType, BeingDeleted, OSTaskSuspend, MayBlock, Calling, Running,
             Reschedule, Return, Goto
    <2> QED
      BY <2>1, <2>2 DEF KInv, ReadyExact, Used
  <1> QED
    BY <1>1, <1>2, <1>3, <1>4, <1>5, <1>6, <1>8 DEF KInv

LEMMA ResumeStep ==
  ASSUME KInv, NEW t \in Task, NEW p \in MaySuspend,
         OSTaskResume(t, p) /\ OSEventType' = OSEventType
  PROVE  KInv'
  <1> USE DEF KInv, CoreType, cpuVars, tblVars, tcbVars, OSTaskResume,
              Calling, Running, Reschedule, Return, Goto
  <1>1. CoreType'
    <2>1. OSRdyTbl' \subseteq Task
      BY TargetAssumption
    <2>2. OSTCBStat' \in [Task -> SUBSET {"MBOX", "Q", "SUSPEND"}]
      BY TargetAssumption DEF Stat
    <2>3. pc' \in [Task -> Label]
      BY TargetAssumption DEF Label
    <2>4. arg' \in [Task -> Event \cup Task \cup {None}]
      BY TargetAssumption
    <2> QED
      BY <2>1, <2>2, <2>3, <2>4
  <1>2. NestingOK' /\ IdleOK' /\ ArgOK' /\ CreateOK' /\ DeadOK'
    <2>1. Calling(t) /\ p \in Task \ {Idle}
      BY TargetAssumption DEF OSTaskResume
    <2>2. NestingOK' /\ IdleOK'
      <3>1. pc'[Idle] = pc[Idle] /\ OSTCBStat'[Idle] = OSTCBStat[Idle]
        BY <2>1, CoreAssumption DEF KInv, CoreType, OSTaskResume, Calling, Running, Reschedule, Return, Goto
      <3> QED
        BY <3>1 DEF KInv, NestingOK, IdleOK, Used, cpuVars, tblVars, OSTaskResume
    <2>4. DeadOK'
      BY DEF KInv, CoreType, DeadOK, Used, tblVars, OSTaskResume
    <2>3. ArgOK' /\ CreateOK'
      <3>1. /\ \A u \in Task \ {t} : pc'[u] = pc[u] /\ arg'[u] = arg[u]
            /\ pc'[t] \in {"user", "sched"} /\ OSTCBPrioTbl' = OSTCBPrioTbl
        BY DEF KInv, CoreType, tblVars, OSTaskResume, Calling, Running, Reschedule, Return, Goto
      <3>2. ArgOK'
        BY <3>1, CallStill DEF KInv
      <3>3. CreateOK'
        BY <3>1, CallStill DEF KInv
      <3> QED
        BY <3>2, <3>3
    <2> QED
      BY <2>2, <2>3, <2>4
  <1>3. DelOK'
    BY CoreAssumption, TargetAssumption, SMTT(60) DEF DelOK, Used
  <1>4. PendOK'
    BY CoreAssumption, TargetAssumption, SMTT(60) DEF PendOK, InPend, Pend
  <1>5. CurOK'
    BY CoreAssumption, TargetAssumption, SMTT(60) DEF CurOK, Leaving
  <1>6. WaitListed'
    BY CoreAssumption, TargetAssumption, SMTT(60) DEF WaitListed, Used, InPend
  <1>8. ReadyExact'
    BY CoreAssumption, TargetAssumption, SMTT(60)
    DEF ReadyExact, Used, BeingDeleted, DeadOK, DelOK, ArgOK, WaitListed,
        CreateOK, Creating, PendOK, Pend, InPend
  <1> QED
    BY <1>1, <1>2, <1>3, <1>4, <1>5, <1>6, <1>8 DEF KInv

LEMMA DelUnlinkStep ==
  ASSUME KInv, NEW t \in Task, NEW p \in MayDelete,
         TaskDelUnlink(t, p) /\ OSEventType' = OSEventType
  PROVE  KInv'
  BY CoreAssumption, TargetAssumption, SMTT(60)
  DEF KInv, CoreType, NestingOK, IdleOK, ArgOK, CreateOK, DelOK, DeadOK, PendOK,
      CurOK, WaitListed, ReadyExact, BeingDeleted, Leaving,
      InPend, Creating, OnBox, Filling, Used, Pend, Stat, Label, Regions, coreVars,
      cpuVars, tblVars, tcbVars, TaskDelUnlink, MayBlock, Calling,
      Running, Goto

LEMMA LockStep ==
  ASSUME KInv, NEW t \in Task,
         OSSchedLock(t) /\ OSEventType' = OSEventType
  PROVE  KInv'
  BY CoreAssumption, SMTT(60)
  DEF KInv, CoreType, NestingOK, IdleOK, ArgOK, CreateOK, DelOK, DeadOK, PendOK,
      CurOK, WaitListed, ReadyExact, BeingDeleted, Leaving,
      InPend, Creating, OnBox, Filling, Used, Pend, Stat, Label, Regions, coreVars,
      cpuVars, tblVars, tcbVars, OSSchedLock, Calling, Running

LEMMA UnlockStep ==
  ASSUME KInv, NEW t \in Task,
         OSSchedUnlock(t) /\ OSEventType' = OSEventType
  PROVE  KInv'
  <1> USE DEF KInv, CoreType, cpuVars, tblVars, tcbVars, OSSchedUnlock,
              Calling, Running, Reschedule, Return, Goto
  <1>1. CoreType'
    <2>1. OSLockNesting' \in Nat
      OBVIOUS
    <2>2. pc' \in [Task -> Label]
      BY DEF Label
    <2>3. arg' \in [Task -> Event \cup Task \cup {None}]
      OBVIOUS
    <2> QED
      BY <2>1, <2>2, <2>3
  <1>2. NestingOK' /\ IdleOK' /\ ArgOK' /\ CreateOK' /\ DeadOK'
    BY CoreAssumption, SMTT(60)
    DEF NestingOK, IdleOK, Used, ArgOK, WaitListed, Creating, OnBox, Filling,
        Regions, InPend, CreateOK, DelOK, DeadOK
  <1>3. DelOK'
    BY CoreAssumption, SMTT(60) DEF DelOK, Used
  <1>4. PendOK'
    BY CoreAssumption, SMTT(60) DEF PendOK, InPend, Pend
  <1>5. CurOK'
    BY CoreAssumption, SMTT(60) DEF CurOK, Leaving
  <1>6. WaitListed'
    BY CoreAssumption, SMTT(60) DEF WaitListed, Used, InPend
  <1>8. ReadyExact'
    BY CoreAssumption, SMTT(60) DEF ReadyExact, Used, BeingDeleted
  <1> QED
    BY <1>1, <1>2, <1>3, <1>4, <1>5, <1>6, <1>8 DEF KInv

-----------------------------------------------------------------------------
(* What the functions of mailboxes and queues do to the core: a call goes  *)
(* on, a task waits, a pend ends, or waiters are readied.                  *)

(* The types of the boxes that tasks wait at are as they were. *)
TypesKept == \A e \in Event : OSEventTbl'[e] # {} => OSEventType'[e] = OSEventType[e]

(* The call of t goes on at the label l. *)
GoesOn(t, l, a) ==
  /\ Running(t) /\ t # Idle /\ pc[t] \in {"user"} \cup Regions \cup {"mboxInit", "qcbTake", "qFill"}
  /\ l \in {"user", "sched"} \cup Regions \cup {"mboxInit", "qcbTake", "qFill"}
  /\ a \in Event \cup {None}
  /\ l \notin {"user", "sched"} => a \in Event
  /\ l \in {"mboxPend", "qPend"} => OSLockNesting = 0
  /\ Goto(t, l, a)

LEMMA GoesOnIs ==
  ASSUME KInv, NEW t \in Task, NEW l, NEW a, GoesOn(t, l, a)
  PROVE  /\ pc' \in [Task -> Label] /\ arg' \in [Task -> Event \cup Task \cup {None}]
         /\ \A u \in Task \ {t} : pc'[u] = pc[u] /\ arg'[u] = arg[u]
         /\ pc'[t] = l /\ arg'[t] = a /\ pc'[Idle] = pc[Idle]
         /\ l \in {"user", "sched"} \cup Regions \cup {"mboxInit", "qcbTake", "qFill"}
         /\ ~InPend(t) /\ ~InPend(t)' /\ ~Creating(t) /\ ~Creating(t)'
         /\ OSPrioCur = t /\ t \in OSRdyTbl /\ ~irq /\ ~tick
         /\ pc[t] # "tcbFree" /\ l # "tcbFree" /\ OnBox(t)' => arg'[t] \in Event
         /\ \A u \in Task : pc[u] # "tcbFree" /\ pc'[u] # "tcbFree"
  <1>1. /\ l \in Label /\ pc[t] \notin Leaving /\ l \notin {"schedPend", "pended", "tcbFree"}
        /\ pc[t] \notin {"schedPend", "pended", "tcbTake", "tcbLink", "unreserve"}
        /\ l \notin {"tcbTake", "tcbLink", "unreserve"}
    BY DEF GoesOn, Regions, Label, Leaving
  <1>2. /\ pc' = [pc EXCEPT ![t] = l] /\ arg' = [arg EXCEPT ![t] = a]
        /\ a \in Event \cup Task \cup {None} /\ OSPrioCur = t /\ t # Idle /\ Idle \in Task
        /\ ~irq /\ ~tick
    BY CoreAssumption DEF GoesOn, Goto, Running
  <1>3. /\ pc' \in [Task -> Label] /\ arg' \in [Task -> Event \cup Task \cup {None}]
        /\ \A u \in Task \ {t} : pc'[u] = pc[u] /\ arg'[u] = arg[u]
        /\ pc'[t] = l /\ arg'[t] = a /\ pc'[Idle] = pc[Idle]
    BY <1>1, <1>2 DEF KInv, CoreType
  <1>4. t \in OSRdyTbl
    BY <1>1, <1>2 DEF KInv, CurOK
  <1>5. \A u \in Task : pc[u] # "tcbFree" /\ pc'[u] # "tcbFree"
    BY <1>1, <1>2, <1>3 DEF KInv, DelOK, Leaving
  <1>6. OnBox(t)' => arg'[t] \in Event
    BY <1>1, <1>3 DEF OnBox, InPend, Filling, Regions, GoesOn
  <1> QED
    BY <1>1, <1>2, <1>3, <1>4, <1>5, <1>6 DEF InPend, Creating, GoesOn

LEMMA GoesOnCore ==
  ASSUME KInv, NEW t \in Task, NEW l, NEW a, GoesOn(t, l, a), TypesKept,
         UNCHANGED <<OSRdyTbl, cpuVars, tblVars, tcbVars, OSEventTbl>>
  PROVE  KInv'
  <1> DEFINE F == {"user", "sched"} \cup Regions \cup {"mboxInit", "qcbTake", "qFill"}
  <1>1. /\ pc' \in [Task -> Label] /\ arg' \in [Task -> Event \cup Task \cup {None}]
        /\ \A u \in Task \ {t} : pc'[u] = pc[u] /\ arg'[u] = arg[u]
        /\ pc'[t] = l /\ arg'[t] = a /\ pc'[Idle] = pc[Idle] /\ l \in F
        /\ ~InPend(t) /\ ~InPend(t)' /\ ~Creating(t) /\ ~Creating(t)'
        /\ OSPrioCur = t /\ t \in OSRdyTbl
        /\ \A u \in Task : pc[u] # "tcbFree" /\ pc'[u] # "tcbFree"
    BY GoesOnIs
  <1>2. l # "tcbFree" /\ (OnBox(t)' => arg'[t] \in Event)
    BY GoesOnIs
  <1> HIDE DEF F
  <1> USE DEF KInv, CoreType, cpuVars, tblVars, tcbVars
  <1>3. CoreType'
    BY <1>1
  <1>4. NestingOK' /\ IdleOK'
    BY <1>1 DEF NestingOK, IdleOK, Used
  <1>5. ArgOK'
    <2>1. \A u \in Task \ {t} : OnBox(u)' => OnBox(u)
      BY <1>1 DEF OnBox, InPend, Filling
    <2>2. \A u \in Task \ {t} : Creating(u)' => Creating(u)
      BY <1>1 DEF Creating
    <2> QED
      BY <1>1, <1>2, <2>1, <2>2 DEF ArgOK
  <1>6. CreateOK'
    <2>1. \A u \in Task : Creating(u)' => Creating(u) /\ u # t
      BY <1>1 DEF Creating
    <2> QED
      BY <1>1, <2>1 DEF CreateOK
  <1>7. DelOK' /\ CurOK'
    <2>1. l \in {"mboxPend", "qPend"} => OSLockNesting = 0
      BY DEF GoesOn
    <2>2. l \notin {"schedPend", "pended"}
      BY <1>1 DEF InPend
    <2> QED
      BY <1>1, <1>2, <2>1, <2>2 DEF DelOK, CurOK
  <1>8. DeadOK'
    BY <1>1 DEF DeadOK, Used, ReadyExact
  <1>9. PendOK' /\ WaitListed'
    <2>1. \A u \in Task : InPend(u) => InPend(u)' /\ u # t
      BY <1>1 DEF InPend
    <2>2. \A e \in Event : OSEventTbl[e] # {} => OSEventType'[e] = OSEventType[e]
      BY DEF TypesKept
    <2> QED
      BY <1>1, <2>1, <2>2 DEF PendOK, WaitListed, Used
  <1>10. ReadyExact'
    BY <1>1 DEF ReadyExact, BeingDeleted, Used
  <1> QED
    BY <1>3, <1>4, <1>5, <1>6, <1>7, <1>8, <1>9, <1>10

(* The running task starts to wait. *)
LEMMA WaitCore ==
  ASSUME KInv, NEW t \in Task, NEW n \in 0 .. MaxDly, NEW m \in {"MBOX", "Q"},
         At(t, "mboxPend") \/ At(t, "qPend"), OSEventType[arg[t]] = m,
         EventTaskWait(t, arg[t], m, n), Goto(t, "schedPend", arg[t]),
         UNCHANGED <<cpuVars, tblVars, OSEventType>>
  PROVE  KInv'
  <1>1. PICK e \in Event : e = arg[t]
    BY DEF KInv, ArgOK, OnBox, Regions, At
  <1>2. /\ OSPrioCur = t /\ t # Idle /\ t \in OSRdyTbl /\ OSLockNesting = 0 /\ ~irq /\ ~tick
        /\ pc[t] \in {"mboxPend", "qPend"}
    BY DEF KInv, CoreType, IdleOK, CurOK, Leaving, At, Running
  <1>3. /\ pc' \in [Task -> Label] /\ arg' = arg
        /\ \A u \in Task \ {t} : pc'[u] = pc[u]
        /\ pc'[t] = "schedPend"
    BY DEF KInv, CoreType, Goto, Label
  <1>4. /\ \A u \in Task : u \in OSRdyTbl' <=> u \in OSRdyTbl /\ u # t
        /\ \A u \in Task \ {t} : /\ OSTCBStat'[u] = OSTCBStat[u] /\ OSTCBPendTO'[u] = OSTCBPendTO[u]
                                 /\ OSTCBDly'[u] = OSTCBDly[u]
                                 /\ OSTCBEventPtr'[u] = OSTCBEventPtr[u]
        /\ OSTCBStat'[t] = OSTCBStat[t] \cup {m} /\ ~OSTCBPendTO'[t] /\ OSTCBDly'[t] = n
        /\ OSTCBEventPtr'[t] = e
        /\ \A u \in Task, f \in Event :
             u \in OSEventTbl'[f] <=> u \in OSEventTbl[f] \/ (u = t /\ f = e)
    BY <1>1 DEF KInv, CoreType, EventTaskWait
  <1>5. Used(t) /\ ~BeingDeleted(t) /\ OSTCBStat[t] = {}
    BY <1>2 DEF KInv, ReadyExact
  <1>6. \A u \in Task : pc[u] # "tcbFree" /\ pc'[u] # "tcbFree"
    BY <1>2, <1>3 DEF KInv, DelOK
  <1>7. \A u \in Task : InPend(u)' <=> InPend(u) \/ u = t
    BY <1>3 DEF InPend
  <1>8. CoreType'
    <2>1. OSTCBStat' \in [Task -> SUBSET {"MBOX", "Q", "SUSPEND"}]
      BY DEF KInv, CoreType, EventTaskWait
    <2>2. OSTCBPendTO' \in [Task -> BOOLEAN] /\ OSTCBDly' \in [Task -> 0 .. MaxDly]
          /\ OSTCBEventPtr' \in [Task -> Event \cup {None}]
      BY <1>1 DEF KInv, CoreType, EventTaskWait
    <2>3. OSEventTbl' \in [Event -> SUBSET Task] /\ OSRdyTbl' \subseteq Task
      BY <1>1 DEF KInv, CoreType, EventTaskWait
    <2> QED
      BY <1>3, <2>1, <2>2, <2>3 DEF KInv, CoreType, cpuVars, tblVars
  <1>9. NestingOK' /\ IdleOK'
    BY <1>2, <1>3, <1>4, CoreAssumption DEF KInv, NestingOK, IdleOK, cpuVars, tblVars, Used
  <1>10. ArgOK'
    <2>1. \A u \in Task \ {t} : (OnBox(u)' => OnBox(u)) /\ (Creating(u)' => Creating(u))
      BY <1>3 DEF OnBox, InPend, Filling, Creating
    <2>2. ~Creating(t)'
      BY <1>3 DEF Creating
    <2> QED
      BY <1>1, <1>3, <1>6, <2>1, <2>2 DEF KInv, ArgOK
  <1>11. CreateOK'
    <2>1. \A u \in Task : Creating(u)' => Creating(u)
      BY <1>3 DEF Creating
    <2> QED
      BY <1>3, <2>1 DEF KInv, CreateOK, tblVars
  <1>12. DelOK' /\ CurOK'
    BY <1>2, <1>3, <1>6 DEF KInv, DelOK, CurOK, Leaving, cpuVars
  <1>13. DeadOK'
    BY <1>3, <1>4, <1>5 DEF KInv, DeadOK, Used, tblVars
  <1>14. PendOK'
    <2> SUFFICES ASSUME NEW u \in Task
        PROVE /\ OSTCBStat'[u] \cap Pend # {} => InPend(u)'
              /\ OSTCBPendTO'[u] => /\ InPend(u)' /\ OSTCBStat'[u] \cap Pend = {}
                                    /\ OSTCBDly'[u] = 0
              /\ \A f \in Event : u \in OSEventTbl'[f] =>
                   /\ OSEventType[f] # "UNUSED"
                   /\ OSTCBPendTO'[u] \/ OSTCBStat'[u] \cap Pend = {OSEventType[f]}
      BY DEF PendOK
    <2>1. CASE u = t
      <3>1. \A f \in Event : t \notin OSEventTbl[f]
        BY <1>2 DEF KInv, WaitListed, InPend
      <3>2. OSTCBStat'[t] \cap Pend = {m}
        BY <1>4, <1>5 DEF Pend
      <3> QED
        BY <1>1, <1>4, <1>7, <2>1, <3>1, <3>2
    <2>2. CASE u # t
      <3>1. \A f \in Event : u \in OSEventTbl'[f] => u \in OSEventTbl[f]
        BY <1>4, <2>2
      <3> QED
        BY <1>4, <1>7, <2>2, <3>1 DEF KInv, PendOK
    <2> QED
      BY <2>1, <2>2
  <1>15. WaitListed'
    <2> SUFFICES ASSUME NEW f \in Event, NEW p \in OSEventTbl'[f]
                 PROVE  /\ Used(p)' /\ OSTCBEventPtr'[p] = f
                        /\ InPend(p)' /\ arg'[p] = f
      BY DEF WaitListed
    <2>1. p \in Task
      BY <1>8 DEF CoreType
    <2>2. CASE p = t
      <3>1. f = e
        BY <1>2, <1>4, <2>2 DEF KInv, WaitListed, InPend
      <3> QED
        BY <1>1, <1>3, <1>4, <1>5, <1>7, <2>1, <2>2, <3>1 DEF Used, tblVars
    <2>3. CASE p # t
      BY <1>3, <1>4, <1>7, <2>1, <2>3 DEF KInv, WaitListed, Used, tblVars
    <2> QED
      BY <2>2, <2>3
  <1>16. ReadyExact'
    <2>1. OSTCBStat'[t] # {}
      BY <1>4
    <2>2. \A u \in Task : ~BeingDeleted(u) /\ ~BeingDeleted(u)'
      BY <1>6 DEF BeingDeleted
    <2> QED
      BY <1>4, <2>1, <2>2 DEF KInv, ReadyExact, Used, tblVars
  <1> QED
    BY <1>8, <1>9, <1>10, <1>11, <1>12, <1>13, <1>14, <1>15, <1>16 DEF KInv

(* The pend of the running task ends, one way or the other. *)
LEMMA PendedCore ==
  ASSUME KInv, NEW t \in Task, At(t, "pended"), EventTO(t) \/ EventGot(t), Return(t),
         UNCHANGED <<cpuVars, tblVars, OSEventType>>
  PROVE  KInv'
  <1>1. PICK e \in Event : e = arg[t]
    BY DEF KInv, ArgOK, OnBox, InPend, At
  <1>2. /\ OSPrioCur = t /\ t # Idle /\ t \in OSRdyTbl /\ OSLockNesting = 0 /\ ~irq /\ ~tick
        /\ pc[t] = "pended" /\ InPend(t)
    BY DEF KInv, CoreType, IdleOK, CurOK, Leaving, InPend, At, Running
  <1>3. /\ pc' \in [Task -> Label] /\ arg' \in [Task -> Event \cup Task \cup {None}]
        /\ \A u \in Task \ {t} : pc'[u] = pc[u] /\ arg'[u] = arg[u]
        /\ pc'[t] = "user" /\ OSRdyTbl' = OSRdyTbl /\ OSTCBDly' = OSTCBDly
    BY DEF KInv, CoreType, Return, Goto, Label, EventTO, EventGot
  <1>4. Used(t) /\ ~BeingDeleted(t) /\ OSTCBStat[t] = {} /\ OSTCBDly[t] = 0
    BY <1>2 DEF KInv, ReadyExact
  <1>5. /\ \A u \in Task \ {t} : /\ OSTCBStat'[u] = OSTCBStat[u]
                                 /\ OSTCBPendTO'[u] = OSTCBPendTO[u]
                                 /\ OSTCBEventPtr'[u] = OSTCBEventPtr[u]
        /\ OSTCBStat'[t] = {} /\ ~OSTCBPendTO'[t]
    BY <1>4 DEF KInv, CoreType, EventTO, EventGot
  <1>6. \A u \in Task, f \in Event : u \in OSEventTbl'[f] <=> u \in OSEventTbl[f] /\ u # t
    <2>1. \A f \in Event : t \in OSEventTbl[f] => f = e /\ OSTCBPendTO[t]
      BY <1>1, <1>4 DEF KInv, WaitListed, PendOK
    <2>2. CASE OSTCBPendTO[t]
      <3>1. OSEventTbl' = [OSEventTbl EXCEPT ![e] = @ \ {t}]
        BY <1>1, <2>2 DEF EventTO, EventGot
      <3> QED
        BY <2>1, <3>1 DEF KInv, CoreType
    <2>3. CASE ~OSTCBPendTO[t]
      <3>1. OSEventTbl' = OSEventTbl
        BY <2>3 DEF EventTO, EventGot
      <3> QED
        BY <2>1, <2>3, <3>1
    <2> QED
      BY <2>2, <2>3
  <1>7. \A u \in Task : pc[u] # "tcbFree" /\ pc'[u] # "tcbFree"
    BY <1>2, <1>3 DEF KInv, DelOK
  <1>8. \A u \in Task : InPend(u)' <=> InPend(u) /\ u # t
    BY <1>3 DEF InPend
  <1>9. CoreType'
    <2>1. OSTCBStat' \in [Task -> SUBSET {"MBOX", "Q", "SUSPEND"}]
      BY DEF KInv, CoreType, EventTO, EventGot
    <2>2. OSTCBPendTO' \in [Task -> BOOLEAN] /\ OSTCBEventPtr' \in [Task -> Event \cup {None}]
      BY DEF KInv, CoreType, EventTO, EventGot
    <2>3. OSEventTbl' \in [Event -> SUBSET Task]
      BY <1>1 DEF KInv, CoreType, EventTO, EventGot
    <2> QED
      BY <1>3, <2>1, <2>2, <2>3 DEF KInv, CoreType, cpuVars, tblVars
  <1>10. NestingOK' /\ IdleOK'
    BY <1>2, <1>3, <1>5, CoreAssumption DEF KInv, NestingOK, IdleOK, cpuVars, tblVars, Used
  <1>11. ArgOK'
    <2>1. \A u \in Task \ {t} : (OnBox(u)' => OnBox(u)) /\ (Creating(u)' => Creating(u))
      BY <1>3 DEF OnBox, InPend, Filling, Creating
    <2>2. ~Creating(t)' /\ ~OnBox(t)'
      BY <1>3 DEF Creating, OnBox, InPend, Filling, Regions
    <2> QED
      BY <1>3, <1>7, <2>1, <2>2 DEF KInv, ArgOK
  <1>12. CreateOK'
    <2>1. \A u \in Task : Creating(u)' => Creating(u) /\ u # t
      BY <1>3 DEF Creating
    <2> QED
      BY <1>3, <2>1 DEF KInv, CreateOK, tblVars
  <1>13. DelOK' /\ CurOK'
    BY <1>2, <1>3, <1>7 DEF KInv, DelOK, CurOK, Leaving, cpuVars
  <1>14. DeadOK'
    BY <1>3, <1>4, <1>5 DEF KInv, DeadOK, Used, tblVars
  <1>15. PendOK'
    BY <1>3, <1>5, <1>6, <1>8 DEF KInv, PendOK
  <1>16. WaitListed'
    <2> SUFFICES ASSUME NEW f \in Event, NEW p \in OSEventTbl'[f]
                 PROVE  /\ Used(p)' /\ OSTCBEventPtr'[p] = f
                        /\ InPend(p)' /\ arg'[p] = f
      BY DEF WaitListed
    <2>1. p \in Task /\ p \in OSEventTbl[f] /\ p # t
      BY <1>6, <1>9 DEF CoreType
    <2> QED
      BY <1>3, <1>5, <1>8, <2>1 DEF KInv, WaitListed, Used, tblVars
  <1>17. ReadyExact'
    <2>1. \A u \in Task : ~BeingDeleted(u) /\ ~BeingDeleted(u)'
      BY <1>7 DEF BeingDeleted
    <2> QED
      BY <1>3, <1>4, <1>5, <2>1 DEF KInv, ReadyExact, Used, tblVars
  <1> QED
    BY <1>9, <1>10, <1>11, <1>12, <1>13, <1>14, <1>15, <1>16, <1>17 DEF KInv

(***************************************************************************)
(* The tasks S that wait at e are readied, by an interrupt handler or by a *)
(* call that then goes on at l.  Those that are suspended too stay so.     *)
(***************************************************************************)
LEMMA RdyCore ==
  ASSUME KInv, NEW e \in Event, NEW S \in SUBSET Task, S \subseteq OSEventTbl[e],
         OSEventType[e] \in {"MBOX", "Q"},
         EventTaskRdy(e, S, OSEventType[e]), TypesKept,
         UNCHANGED <<cpuVars, tblVars>>,
         \/ UNCHANGED <<pc, arg>>
         \/ \E t \in Task : GoesOn(t, "user", None) \/ GoesOn(t, "sched", None)
  PROVE  KInv'
  <1>1. /\ pc' \in [Task -> Label] /\ arg' \in [Task -> Event \cup Task \cup {None}]
        /\ \A u \in Task : \/ pc'[u] = pc[u] /\ arg'[u] = arg[u]
                           \/ /\ OSPrioCur = u /\ u \in OSRdyTbl
                              /\ pc'[u] \in {"user", "sched"} /\ ~InPend(u)
                              /\ \A v \in Task : pc[v] # "tcbFree"
        /\ pc'[Idle] = pc[Idle]
    <2>1. CASE UNCHANGED <<pc, arg>>
      BY <2>1 DEF KInv, CoreType
    <2>2. ASSUME NEW t \in Task, NEW l \in {"user", "sched"}, GoesOn(t, l, None)
          PROVE  <1>1
      BY <2>2, GoesOnIs
    <2> QED
      BY <2>1, <2>2
  <1>2. \A p \in S : /\ Used(p) /\ InPend(p) /\ arg[p] = e /\ ~BeingDeleted(p) /\ p # Idle
                     /\ \A f \in Event : p \in OSEventTbl[f] => f = e
                     /\ OSTCBStat[p] \ {OSEventType[e]} = OSTCBStat[p] \ Pend
    <2> SUFFICES ASSUME NEW p \in S
                 PROVE  /\ Used(p) /\ InPend(p) /\ arg[p] = e /\ ~BeingDeleted(p) /\ p # Idle
                        /\ \A f \in Event : p \in OSEventTbl[f] => f = e
                        /\ OSTCBStat[p] \ {OSEventType[e]} = OSTCBStat[p] \ Pend
      OBVIOUS
    <2>1. /\ p \in OSEventTbl[e] /\ Used(p) /\ InPend(p) /\ arg[p] = e
          /\ \A f \in Event : p \in OSEventTbl[f] => f = e
      BY DEF KInv, WaitListed
    <2>2. ~BeingDeleted(p) /\ p # Idle
      BY <2>1 DEF KInv, DelOK, BeingDeleted, IdleOK, InPend
    <2>3. \/ OSTCBStat[p] \cap Pend = {}
          \/ OSTCBStat[p] \cap Pend = {OSEventType[e]}
      BY <2>1 DEF KInv, PendOK
    <2>4. CASE OSTCBStat[p] \cap Pend = {}
      <3>1. OSTCBStat[p] \ Pend = OSTCBStat[p]
        BY <2>4
      <3>2. OSEventType[e] \notin OSTCBStat[p]
        BY <2>4 DEF Pend
      <3> QED
        BY <2>1, <2>2, <3>1, <3>2
    <2>5. CASE OSTCBStat[p] \cap Pend = {OSEventType[e]}
      <3>1. \A s : s \in OSTCBStat[p] \ {OSEventType[e]} <=> s \in OSTCBStat[p] \ Pend
        BY <2>5
      <3> QED
        BY <2>1, <2>2, <3>1
    <2> QED
      BY <2>3, <2>4, <2>5
  <1>3. /\ \A u \in Task \ S : /\ OSTCBStat'[u] = OSTCBStat[u] /\ OSTCBDly'[u] = OSTCBDly[u]
                               /\ OSTCBPendTO'[u] = OSTCBPendTO[u]
                               /\ OSTCBEventPtr'[u] = OSTCBEventPtr[u]
        /\ \A u \in S : /\ OSTCBStat'[u] = OSTCBStat[u] \ Pend /\ OSTCBDly'[u] = 0
                        /\ ~OSTCBPendTO'[u]
        /\ \A u \in Task : u \in OSRdyTbl' <=> u \in OSRdyTbl \/ (u \in S /\ OSTCBStat'[u] = {})
        /\ \A u \in Task, f \in Event : u \in OSEventTbl'[f] <=> u \in OSEventTbl[f] /\ u \notin S
    <2>1. \A u \in S : OSTCBStat'[u] = OSTCBStat[u] \ {OSEventType[e]}
      BY DEF EventTaskRdy
    <2>2. \A u \in Task, f \in Event : u \in OSEventTbl'[f] <=> u \in OSEventTbl[f] /\ ~(f = e /\ u \in S)
      BY DEF KInv, CoreType, EventTaskRdy
    <2>3. \A u \in S, f \in Event : u \in OSEventTbl[f] => f = e
      BY <1>2
    <2>4. \A u \in Task : u \in OSRdyTbl' <=> u \in OSRdyTbl \/ (u \in S /\ OSTCBStat'[u] = {})
      BY <2>1 DEF EventTaskRdy
    <2>5. \A u \in Task \ S : /\ OSTCBStat'[u] = OSTCBStat[u] /\ OSTCBDly'[u] = OSTCBDly[u]
                               /\ OSTCBPendTO'[u] = OSTCBPendTO[u]
                               /\ OSTCBEventPtr'[u] = OSTCBEventPtr[u]
      BY DEF KInv, CoreType, EventTaskRdy
    <2>6. \A u \in S : OSTCBDly'[u] = 0 /\ ~OSTCBPendTO'[u]
      BY DEF EventTaskRdy
    <2>7. \A u \in S : OSTCBStat'[u] = OSTCBStat[u] \ Pend
      BY <1>2, <2>1
    <2> QED
      BY <2>2, <2>3, <2>4, <2>5, <2>6, <2>7
  <1>4. \A u \in Task : /\ InPend(u)' <=> InPend(u)
                        /\ InPend(u) => arg'[u] = arg[u]
                        /\ BeingDeleted(u)' <=> BeingDeleted(u)
    <2>1. \A u \in Task : InPend(u)' <=> InPend(u)
      BY <1>1 DEF InPend
    <2>2. \A u \in Task : InPend(u) => arg'[u] = arg[u]
      BY <1>1
    <2>3. \A u \in Task : pc'[u] = "tcbFree" \/ pc[u] = "tcbFree" => pc'[u] = pc[u] /\ arg'[u] = arg[u]
      BY <1>1
    <2> QED
      BY <2>1, <2>2, <2>3 DEF BeingDeleted
  <1>5. CoreType'
    <2>1. OSTCBStat' \in [Task -> SUBSET {"MBOX", "Q", "SUSPEND"}]
      BY DEF KInv, CoreType, EventTaskRdy
    <2>2. OSTCBPendTO' \in [Task -> BOOLEAN] /\ OSTCBEventPtr' \in [Task -> Event \cup {None}]
      BY DEF KInv, CoreType, EventTaskRdy
    <2>3. OSEventTbl' \in [Event -> SUBSET Task] /\ OSRdyTbl' \subseteq Task
      BY DEF KInv, CoreType, EventTaskRdy
    <2>4. OSTCBDly' \in [Task -> 0 .. MaxDly]
      BY CoreAssumption DEF KInv, CoreType, EventTaskRdy
    <2> QED
      BY <1>1, <2>1, <2>2, <2>3, <2>4 DEF KInv, CoreType, cpuVars, tblVars
  <1>6. NestingOK' /\ IdleOK'
    BY <1>1, <1>2, <1>3, CoreAssumption DEF KInv, NestingOK, IdleOK, cpuVars, tblVars, Used
  <1>7. ArgOK'
    <2>1. \A u \in Task : \/ pc'[u] = pc[u] /\ arg'[u] = arg[u]
                          \/ ~OnBox(u)' /\ ~Creating(u)' /\ pc'[u] # "tcbFree"
      BY <1>1 DEF OnBox, InPend, Filling, Regions, Creating
    <2> QED
      BY <2>1 DEF KInv, ArgOK, OnBox, InPend, Filling, Creating
  <1>8. CreateOK'
    <2>1. \A u \in Task : Creating(u)' => Creating(u) /\ arg'[u] = arg[u]
      BY <1>1 DEF Creating
    <2> QED
      BY <2>1 DEF KInv, CreateOK, tblVars
  <1>9. DelOK'
    <2>1. \A u \in Task : pc'[u] = "tcbFree" => pc[u] = "tcbFree" /\ arg'[u] = arg[u]
      BY <1>1
    <2>2. \A u \in Task : pc[u] = "tcbFree" => arg[u] \in Task /\ BeingDeleted(arg[u])
      BY DEF KInv, ArgOK, BeingDeleted
    <2>3. \A u \in Task : pc[u] = "tcbFree" => arg[u] \in Task \ S
      BY <1>2, <2>2
    <2> QED
      BY <1>3, <2>1, <2>3 DEF KInv, DelOK, cpuVars, tblVars, Used
  <1>10. CurOK'
    <2>1. OSPrioCur \in Task /\ OSPrioCur' = OSPrioCur /\ OSLockNesting' = OSLockNesting
      BY DEF KInv, CoreType, cpuVars
    <2>2. OSPrioCur \in OSRdyTbl => OSPrioCur \in OSRdyTbl'
      BY <1>3, <2>1
    <2> QED
      BY <1>1, <2>1, <2>2 DEF KInv, CurOK, Leaving
  <1>11. DeadOK'
    BY <1>1, <1>2, <1>3 DEF KInv, DeadOK, Used, tblVars
  <1>12. PendOK'
    <2>1. \A f \in Event, u \in Task : u \in OSEventTbl'[f] => /\ u \in OSEventTbl[f] /\ u \notin S
                                                             /\ OSEventType'[f] = OSEventType[f]
      BY <1>3 DEF TypesKept
    <2>2. \A u \in S : OSTCBStat'[u] \cap Pend = {} /\ ~OSTCBPendTO'[u]
      BY <1>3
    <2> QED
      BY <1>3, <1>4, <2>1, <2>2 DEF KInv, PendOK
  <1>13. WaitListed'
    <2> SUFFICES ASSUME NEW f \in Event, NEW p \in OSEventTbl'[f]
                 PROVE  /\ Used(p)' /\ OSTCBEventPtr'[p] = f
                        /\ InPend(p)' /\ arg'[p] = f
      BY DEF WaitListed
    <2>1. p \in Task /\ p \in OSEventTbl[f] /\ p \notin S
      BY <1>3, <1>5 DEF CoreType
    <2> QED
      BY <1>3, <1>4, <2>1 DEF KInv, WaitListed, Used, tblVars
  <1>14. ReadyExact'
    <2>1. \A u \in Task : u \in OSRdyTbl => OSTCBStat[u] = {} /\ OSTCBDly[u] = 0
      BY DEF KInv, ReadyExact
    <2>2. \A u \in S : OSTCBStat[u] = {} => OSTCBStat'[u] = {}
      BY <1>3
    <2> QED
      BY <1>2, <1>3, <1>4, <2>1, <2>2 DEF KInv, ReadyExact, Used, tblVars
  <1> QED
    BY <1>5, <1>6, <1>7, <1>8, <1>9, <1>10, <1>11, <1>12, <1>13, <1>14 DEF KInv

-----------------------------------------------------------------------------
(* The free list of event blocks *)

LEMMA EventFinite == \A S \in SUBSET Event : IsFiniteSet(S) /\ Cardinality(S) \in Nat
  BY FS_Subset, FS_CardinalityType, CoreAssumption

LEMMA FreeListIs ==
  ASSUME NEW S, NEW h, NEW p, NEW n, n = Cardinality(S), NEW f \in [1 .. n -> S],
         \A i, j \in 1 .. n : i # j => f[i] # f[j],
         h = IF n = 0 THEN None ELSE f[1],
         \A i \in 1 .. n : p[f[i]] = IF i = n THEN None ELSE f[i + 1]
  PROVE  FreeListOf(S, h, p)
  <1>1. \E g \in [1 .. n -> S] :
          /\ \A i, j \in 1 .. n : i # j => g[i] # g[j]
          /\ h = IF n = 0 THEN None ELSE g[1]
          /\ \A i \in 1 .. n : p[g[i]] = IF i = n THEN None ELSE g[i + 1]
    BY ZenonT(60)
  <1> QED
    BY ZenonT(60), <1>1 DEF FreeListOf

LEMMA FreeListSame ==
  ASSUME NEW S, NEW h, NEW p, NEW q, FreeListOf(S, h, p), \A e \in S : q[e] = p[e]
  PROVE  FreeListOf(S, h, q)
  <1> DEFINE n == Cardinality(S)
  <1>1. PICK f \in [1 .. n -> S] :
          /\ \A i, j \in 1 .. n : i # j => f[i] # f[j]
          /\ h = IF n = 0 THEN None ELSE f[1]
          /\ \A i \in 1 .. n : p[f[i]] = IF i = n THEN None ELSE f[i + 1]
    BY DEF FreeListOf
  <1>2. \A i \in 1 .. n : q[f[i]] = p[f[i]]
    OBVIOUS
  <1> HIDE DEF n
  <1>3. n = Cardinality(S)
    BY DEF n
  <1>4. \A i \in 1 .. n : q[f[i]] = IF i = n THEN None ELSE f[i + 1]
    BY <1>1, <1>2
  <1>5. \E g \in [1 .. n -> S] :
          /\ \A i, j \in 1 .. n : i # j => g[i] # g[j]
          /\ h = IF n = 0 THEN None ELSE g[1]
          /\ \A i \in 1 .. n : q[g[i]] = IF i = n THEN None ELSE g[i + 1]
    BY <1>1, <1>4
  <1> QED
    BY ZenonT(60), <1>3, <1>5 DEF FreeListOf

(* The head of the list is one of its blocks, and points to the others. *)
LEMMA FreeListTake ==
  ASSUME NEW S \in SUBSET Event, NEW h \in Event, NEW p, FreeListOf(S, h, p)
  PROVE  h \in S /\ FreeListOf(S \ {h}, p[h], p)
  <1> DEFINE n == Cardinality(S)
  <1>1. PICK f \in [1 .. n -> S] :
          /\ \A i, j \in 1 .. n : i # j => f[i] # f[j]
          /\ h = IF n = 0 THEN None ELSE f[1]
          /\ \A i \in 1 .. n : p[f[i]] = IF i = n THEN None ELSE f[i + 1]
    BY DEF FreeListOf
  <1>2. n \in Nat /\ IsFiniteSet(S)
    BY EventFinite
  <1>3. n # 0 /\ h = f[1]
    BY <1>1, CoreAssumption
  <1> HIDE DEF n
  <1>4. h \in S /\ Cardinality(S \ {h}) = n - 1
    <2>1. h \in S
      BY <1>1, <1>2, <1>3
    <2>2. Cardinality(S \ {h}) = Cardinality(S) - 1
      BY <1>2, <2>1, FS_RemoveElement
    <2> QED
      BY <2>1, <2>2 DEF n
  <1> DEFINE g == [i \in 1 .. n - 1 |-> f[i + 1]]
  <1>5. \A i \in 1 .. n - 1 : i + 1 \in 1 .. n /\ i + 1 # 1
    BY <1>2
  <1>6. g \in [1 .. n - 1 -> S \ {h}]
    BY <1>1, <1>2, <1>3, <1>5
  <1>7. \A i, j \in 1 .. n - 1 : i # j => g[i] # g[j]
    BY <1>1, <1>2, <1>5
  <1>8. p[h] = IF n - 1 = 0 THEN None ELSE g[1]
    BY <1>1, <1>2, <1>3
  <1>9. \A i \in 1 .. n - 1 : p[g[i]] = IF i = n - 1 THEN None ELSE g[i + 1]
    BY <1>1, <1>2, <1>5
  <1> HIDE DEF g
  <1> DEFINE m == Cardinality(S \ {h})
  <1>10. m = n - 1
    BY <1>4
  <1> HIDE DEF m
  <1>11. \E k \in [1 .. m -> S \ {h}] :
           /\ \A i, j \in 1 .. m : i # j => k[i] # k[j]
           /\ p[h] = IF m = 0 THEN None ELSE k[1]
           /\ \A i \in 1 .. m : p[k[i]] = IF i = m THEN None ELSE k[i + 1]
    BY <1>6, <1>7, <1>8, <1>9, <1>10
  <1>12. FreeListOf(S \ {h}, p[h], p)
    BY <1>11 DEF FreeListOf, m
  <1> QED
    BY <1>4, <1>12

(* A block that is put in front. *)
LEMMA FreeListPut ==
  ASSUME NEW S \in SUBSET Event, NEW e \in Event \ S, NEW h, NEW p, FreeListOf(S, h, p),
         NEW q, q[e] = h, \A x \in S : q[x] = p[x]
  PROVE  FreeListOf(S \cup {e}, e, q)
  <1> DEFINE n == Cardinality(S)
  <1>1. PICK f \in [1 .. n -> S] :
          /\ \A i, j \in 1 .. n : i # j => f[i] # f[j]
          /\ h = IF n = 0 THEN None ELSE f[1]
          /\ \A i \in 1 .. n : p[f[i]] = IF i = n THEN None ELSE f[i + 1]
    BY DEF FreeListOf
  <1>2. n \in Nat /\ Cardinality(S \cup {e}) = n + 1
    BY EventFinite, FS_AddElement
  <1> DEFINE g == [i \in 1 .. n + 1 |-> IF i = 1 THEN e ELSE f[i - 1]]
  <1> HIDE DEF n
  <1>5. \A i \in 1 .. n + 1 : i # 1 => i - 1 \in 1 .. n /\ f[i - 1] \in S
    BY <1>2
  <1>6. g \in [1 .. n + 1 -> S \cup {e}]
    BY <1>5
  <1>7. \A i, j \in 1 .. n + 1 : i # j => g[i] # g[j]
    <2> SUFFICES ASSUME NEW i \in 1 .. n + 1, NEW j \in 1 .. n + 1, i # j
                 PROVE  g[i] # g[j]
      OBVIOUS
    <2>1. CASE i # 1 /\ j # 1
      <3>1. i - 1 # j - 1 /\ i - 1 \in 1 .. n /\ j - 1 \in 1 .. n
        BY <1>2, <1>5, <2>1
      <3> QED
        BY <1>1, <2>1, <3>1
    <2>2. CASE i = 1 \/ j = 1
      BY <1>5, <2>2
    <2> QED
      BY <2>1, <2>2
  <1>8. e = IF n + 1 = 0 THEN None ELSE g[1]
    BY <1>2
  <1>9. \A i \in 1 .. n + 1 : q[g[i]] = IF i = n + 1 THEN None ELSE g[i + 1]
    <2> SUFFICES ASSUME NEW i \in 1 .. n + 1
                 PROVE  q[g[i]] = IF i = n + 1 THEN None ELSE g[i + 1]
      OBVIOUS
    <2>1. CASE i = 1
      BY <1>1, <1>2, <2>1
    <2>2. CASE i # 1
      <3>1. i - 1 \in 1 .. n /\ f[i - 1] \in S
        BY <1>5, <2>2
      <3>2. q[g[i]] = p[f[i - 1]]
        BY <2>2, <3>1
      <3>3. p[f[i - 1]] = IF i - 1 = n THEN None ELSE f[i - 1 + 1]
        BY <1>1, <3>1
      <3>4. i # n + 1 => g[i + 1] = f[i]
        BY <1>2, <2>2
      <3> QED
        BY <1>2, <3>2, <3>3, <3>4
    <2> QED
      BY <2>1, <2>2
  <1> HIDE DEF g
  <1> QED
    BY <1>2, <1>6, <1>7, <1>8, <1>9, FreeListIs

(* The head of a list of blocks is a block, or the null pointer. *)
LEMMA FreeListHead ==
  ASSUME NEW S \in SUBSET Event, NEW h, NEW p, FreeListOf(S, h, p)
  PROVE  h \in S \cup {None}
  <1> DEFINE n == Cardinality(S)
  <1>1. PICK f \in [1 .. n -> S] : h = IF n = 0 THEN None ELSE f[1]
    BY DEF FreeListOf
  <1>2. n \in Nat
    BY EventFinite
  <1> HIDE DEF n
  <1> QED
    BY <1>1, <1>2

(* What a step may do to the free list: nothing, take its head, put a      *)
(* block in front.                                                         *)
SpareKept == /\ OSEventFreeList' = OSEventFreeList /\ Spare \subseteq Spare'
             /\ \A e \in Spare : OSEventPtr'[e] = OSEventPtr[e]

SpareTaken == /\ OSEventFreeList \in Event
              /\ OSEventFreeList' = OSEventPtr[OSEventFreeList]
              /\ OSEventPtr' = OSEventPtr /\ Spare' = Spare \ {OSEventFreeList}

SpareGiven(e) == /\ e \in Event \ Spare /\ Spare' = Spare \cup {e}
                 /\ OSEventFreeList' = e /\ OSEventPtr'[e] = OSEventFreeList
                 /\ \A x \in Spare : OSEventPtr'[x] = OSEventPtr[x]

LEMMA FreeOKKept ==
  ASSUME FreeOK, SpareKept \/ SpareTaken \/ \E e \in Event : SpareGiven(e)
  PROVE  FreeOK'
  <1>1. PICK S \in SUBSET Spare : FreeListOf(S, OSEventFreeList, OSEventPtr)
    BY DEF FreeOK
  <1>2. S \in SUBSET Event
    BY DEF Spare
  <1>3. CASE SpareKept
    BY <1>1, <1>3, FreeListSame DEF FreeOK, SpareKept
  <1>4. CASE SpareTaken
    <2>1. FreeListOf(S \ {OSEventFreeList}, OSEventFreeList', OSEventPtr')
      BY <1>1, <1>2, <1>4, FreeListTake DEF SpareTaken
    <2>2. S \ {OSEventFreeList} \in SUBSET Spare'
      BY <1>4 DEF SpareTaken
    <2> QED
      BY <2>1, <2>2 DEF FreeOK
  <1>5. ASSUME NEW e \in Event, SpareGiven(e) PROVE FreeOK'
    <2>1. e \in Event \ S
      BY <1>5 DEF SpareGiven
    <2>2. FreeListOf(S \cup {e}, e, OSEventPtr')
      BY <1>1, <1>2, <1>5, <2>1, FreeListPut DEF SpareGiven
    <2>3. S \cup {e} \in SUBSET Spare'
      BY <1>5 DEF SpareGiven
    <2> QED
      BY <1>5, <2>2, <2>3 DEF FreeOK, SpareGiven
  <1> QED
    BY <1>3, <1>4, <1>5

LEMMA ListKept ==
  ASSUME FreeListOf(Spare, OSEventFreeList, OSEventPtr),
         \/ SpareKept /\ Spare' = Spare
         \/ SpareTaken
         \/ \E e \in Event : SpareGiven(e)
  PROVE  FreeListOf(Spare', OSEventFreeList', OSEventPtr')
  <1>2. Spare \in SUBSET Event
    BY DEF Spare
  <1>3. CASE SpareKept /\ Spare' = Spare
    BY <1>3, FreeListSame DEF SpareKept
  <1>4. CASE SpareTaken
    BY <1>2, <1>4, FreeListTake DEF SpareTaken
  <1>5. ASSUME NEW e \in Event, SpareGiven(e)
        PROVE  FreeListOf(Spare', OSEventFreeList', OSEventPtr')
    BY <1>2, <1>5, FreeListPut DEF SpareGiven
  <1> QED
    BY <1>3, <1>4, <1>5

-----------------------------------------------------------------------------
(* The rings *)
RingType(r) == r \in [In : Slot, Out : Slot, Entries : 0 .. QSize, Tbl : [Slot -> Msg]]
RingAt(r) == r.In = (r.Out + r.Entries) % QSize

(* The index i comes n entries after the index o. *)
After(i, o, n) == i = IF o + n < QSize THEN o + n ELSE o + n - QSize

LEMMA AfterMod ==
  ASSUME NEW o \in Slot, NEW n \in 0 .. QSize
  PROVE  (o + n) % QSize = (IF o + n < QSize THEN o + n ELSE o + n - QSize)
  BY MsgAssumption DEF Slot

LEMMA RingAtAfter ==
  ASSUME NEW r, RingType(r)
  PROVE  /\ r.In \in Slot /\ r.Out \in Slot /\ r.Entries \in 0 .. QSize /\ r.Tbl \in [Slot -> Msg]
         /\ RingAt(r) <=> After(r.In, r.Out, r.Entries)
  <1>1. r.In \in Slot /\ r.Out \in Slot /\ r.Entries \in 0 .. QSize /\ r.Tbl \in [Slot -> Msg]
    BY DEF RingType
  <1> QED
    BY <1>1, AfterMod DEF RingAt, After

LEMMA SlotsNext ==
  ASSUME NEW i \in Slot, NEW o \in Slot, NEW n \in 0 .. QSize, After(i, o, n)
  PROVE  /\ LET out == IF o + 1 = QSize THEN 0 ELSE o + 1
            IN  n > 0 => out \in Slot /\ n - 1 \in 0 .. QSize /\ After(i, out, n - 1)
         /\ LET in == IF i + 1 = QSize THEN 0 ELSE i + 1
            IN  n < QSize => in \in Slot /\ n + 1 \in 0 .. QSize /\ After(in, o, n + 1)
         /\ LET out == IF o = 0 THEN QSize - 1 ELSE o - 1
            IN  n < QSize => out \in Slot /\ n + 1 \in 0 .. QSize /\ After(i, out, n + 1)
  BY MsgAssumption DEF Slot, After

LEMMA RingOutOK ==
  ASSUME NEW r, RingType(r), RingAt(r), r.Entries > 0
  PROVE  RingType(RingOut(r)) /\ RingAt(RingOut(r))
  <1> DEFINE out == IF r.Out + 1 = QSize THEN 0 ELSE r.Out + 1
  <1>1. /\ RingOut(r).In = r.In /\ RingOut(r).Out = out
        /\ RingOut(r).Entries = r.Entries - 1
    BY DEF RingOut, RingType
  <1>2. out \in Slot /\ r.Entries - 1 \in 0 .. QSize /\ After(r.In, out, r.Entries - 1)
    BY RingAtAfter, SlotsNext
  <1>3. RingType(RingOut(r))
    BY <1>2 DEF RingOut, RingType
  <1> HIDE DEF out
  <1> QED
    BY <1>1, <1>2, <1>3, RingAtAfter

LEMMA RingInOK ==
  ASSUME NEW r, RingType(r), RingAt(r), r.Entries < QSize, NEW m \in Msg
  PROVE  RingType(RingIn(r, m)) /\ RingAt(RingIn(r, m))
  <1> DEFINE in == IF r.In + 1 = QSize THEN 0 ELSE r.In + 1
  <1>1. /\ RingIn(r, m).In = in /\ RingIn(r, m).Out = r.Out
        /\ RingIn(r, m).Entries = r.Entries + 1
        /\ RingIn(r, m).Tbl = [r.Tbl EXCEPT ![r.In] = m]
    BY DEF RingIn, RingType
  <1>2. in \in Slot /\ r.Entries + 1 \in 0 .. QSize /\ After(in, r.Out, r.Entries + 1)
    BY RingAtAfter, SlotsNext
  <1>3. RingType(RingIn(r, m))
    BY <1>2, RingAtAfter DEF RingIn, RingType
  <1> HIDE DEF in
  <1> QED
    BY <1>1, <1>2, <1>3, RingAtAfter

LEMMA RingInFrontOK ==
  ASSUME NEW r, RingType(r), RingAt(r), r.Entries < QSize, NEW m \in Msg
  PROVE  RingType(RingInFront(r, m)) /\ RingAt(RingInFront(r, m))
  <1> DEFINE out == IF r.Out = 0 THEN QSize - 1 ELSE r.Out - 1
  <1>1. /\ RingInFront(r, m).In = r.In /\ RingInFront(r, m).Out = out
        /\ RingInFront(r, m).Entries = r.Entries + 1
        /\ RingInFront(r, m).Tbl = [r.Tbl EXCEPT ![out] = m]
    BY DEF RingInFront, RingType
  <1>2. out \in Slot /\ r.Entries + 1 \in 0 .. QSize /\ After(r.In, out, r.Entries + 1)
    BY RingAtAfter, SlotsNext
  <1>3. RingType(RingInFront(r, m))
    BY <1>2, RingAtAfter DEF RingInFront, RingType
  <1> HIDE DEF out
  <1> QED
    BY <1>1, <1>2, <1>3, RingAtAfter

LEMMA NewRingOK ==
  ASSUME NEW tbl \in [Slot -> Msg]
  PROVE  RingType(NewRing(tbl)) /\ RingAt(NewRing(tbl))
  <1>1. 0 \in Slot /\ 0 \in 0 .. QSize /\ After(0, 0, 0)
    BY MsgAssumption DEF Slot, After
  <1>2. RingType(NewRing(tbl))
    BY <1>1 DEF RingType, NewRing
  <1>3. NewRing(tbl).In = 0 /\ NewRing(tbl).Out = 0 /\ NewRing(tbl).Entries = 0
    BY DEF NewRing
  <1> QED
    BY <1>1, <1>2, <1>3, RingAtAfter

-----------------------------------------------------------------------------
(* The kernel core as a whole *)

LEMMA CoreK ==
  ASSUME KInv, CoreNext, OSEventType' = OSEventType
  PROVE  KInv'
  <1>1. CASE Interrupt
    BY <1>1, IrqEntryStep, IrqExitStep, TickEntryStep, TickOneStep, IntExitStep DEF Interrupt
  <1>2. ASSUME NEW t \in Task, KernelCall(t) PROVE KInv'
    BY <1>2, SchedStep, TcbTakeStep, TcbLinkStep, UnreserveStep, DelFreeStep DEF KernelCall
  <1>3. ASSUME NEW t \in Task, AppCall(t) PROVE KInv'
    BY <1>3, DlyStep, DlyResumeStep, ReserveStep, SuspendStep, ResumeStep, DelUnlinkStep,
       LockStep, UnlockStep DEF AppCall
  <1> QED
    BY <1>1, <1>2, <1>3 DEF CoreNext

Calls == Regions \cup {"mboxInit", "qcbTake", "qFill"}

(* No task begins a call to a box or goes on in one. *)
Fades == \A u \in Task : pc'[u] \in Calls => pc'[u] = pc[u] /\ arg'[u] = arg[u]

(* Only the deletion of a task ends what it was doing to a box. *)
LEMMA CoreFades ==
  ASSUME KInv, CoreNext
  PROVE  /\ Fades
         /\ \A u \in Task : /\ pc[u] \in Calls
                            /\ ~\E t \in Task : pc[t] = "tcbFree" /\ arg[t] = u
                            => pc'[u] = pc[u] /\ arg'[u] = arg[u]
  <1> DEFINE Core(l) == l \notin Calls
             OK == \A u \in Task :
                     /\ pc'[u] \in Calls => pc'[u] = pc[u] /\ arg'[u] = arg[u]
                     /\ /\ pc[u] \in Calls
                        /\ ~\E t \in Task : pc[t] = "tcbFree" /\ arg[t] = u
                        => pc'[u] = pc[u] /\ arg'[u] = arg[u]
  <1> SUFFICES OK
    BY DEF Fades
  <1>0. \A l \in {"user", "sched", "schedPend", "pended", "tcbTake", "tcbLink",
                  "unreserve", "tcbFree"} : Core(l)
    BY DEF Calls, Regions
  <1>1. ASSUME NEW t \in Task, Core(pc[t]), Core(pc'[t]),
               \A u \in Task \ {t} : pc'[u] = pc[u] /\ arg'[u] = arg[u]
        PROVE  OK
    BY <1>1
  <1> HIDE DEF Core
  <1>2. CASE Interrupt
    BY <1>2 DEF Interrupt, IrqEntry, IrqExit, TickEntry, TickOne, OSIntExit
  <1>3. ASSUME NEW t \in Task, OS_Sched(t) \/ TcbTake(t) \/ TaskUnreserve(t) \/ AppCall(t)
        PROVE  OK
    <2>1. /\ pc[t] \in {"user", "sched", "schedPend", "tcbTake", "unreserve"}
          /\ pc'[t] \in {"user", "sched", "pended", "tcbTake", "tcbLink", "unreserve", "tcbFree"}
          /\ \A u \in Task \ {t} : pc'[u] = pc[u] /\ arg'[u] = arg[u]
      BY <1>3 DEF KInv, CoreType, OS_Sched, TcbTake, TaskUnreserve, AppCall, OSTimeDly,
         OSTimeDlyResume, TaskReserve, OSTaskSuspend, OSTaskResume, TaskDelUnlink,
         OSSchedLock, OSSchedUnlock, MayBlock, Calling, At, Reschedule, Return, Goto
    <2> QED
      BY <1>0, <1>1, <2>1
  <1>4. ASSUME NEW t \in Task, TcbLink(t) PROVE OK
    <2>1. PICK p \in Task : p = arg[t]
      BY <1>4 DEF KInv, ArgOK, Creating, TcbLink, At
    <2>2. pc[p] \in {"user", "sched", "tcbLink"}
      BY <1>4, <2>1 DEF KInv, CreateOK, DeadOK, Creating, Used, TcbLink, At
    <2>3. /\ pc[t] = "tcbLink" /\ pc'[t] = "sched" /\ pc'[p] \in {"user", "sched"}
          /\ \A u \in Task \ {p, t} : pc'[u] = pc[u] /\ arg'[u] = arg[u]
      BY <1>4, <2>1 DEF KInv, CoreType, TcbLink, At
    <2> QED
      BY <1>0, <2>2, <2>3 DEF Core
  <1>5. ASSUME NEW t \in Task, TaskDelFree(t) PROVE OK
    <2>1. PICK p \in Task : p = arg[t]
      BY <1>5 DEF KInv, ArgOK, TaskDelFree, At
    <2>3. /\ pc[t] = "tcbFree" /\ pc'[t] \in {"user", "sched"} /\ pc'[p] \in {"user", "sched"}
          /\ \A u \in Task \ {p, t} : pc'[u] = pc[u] /\ arg'[u] = arg[u]
      BY <1>5, <2>1 DEF KInv, CoreType, TaskDelFree, At
    <2> QED
      BY <1>0, <2>1, <2>3 DEF Core
  <1> QED
    BY <1>2, <1>3, <1>4, <1>5 DEF CoreNext, KernelCall

-----------------------------------------------------------------------------
(* The steps that neither make nor delete a box. *)
QuietBox ==
  /\ Fades /\ UNCHANGED <<OSEventType, OSEventFreeList, OSQFreeList>>
  /\ \A e \in Event : \/ OSEventPtr'[e] = OSEventPtr[e]
                      \/ OSEventType[e] = "MBOX" /\ OSEventPtr'[e] \in Msg \cup {None}

LEMMA QuietSpare ==
  ASSUME MInv, QuietBox
  PROVE  SpareKept
  <1>1. \A u \in Task : Filling(u)' => Filling(u) /\ arg'[u] = arg[u]
    BY DEF QuietBox, Fades, Calls, Filling
  <1>2. Spare \subseteq Spare'
    BY <1>1 DEF Spare, QuietBox
  <1> QED
    BY <1>2 DEF SpareKept, Spare, QuietBox

LEMMA QuietM ==
  ASSUME KInv, MInv, FreeOK, QuietBox, BoxType', RingOK', KInv'
  PROVE  IInv'
  <1>1. \A u \in Task : /\ pc'[u] \in Calls => pc'[u] = pc[u] /\ arg'[u] = arg[u]
                        /\ pc'[u] \in Regions => pc'[u] \in Calls
                        /\ Filling(u)' <=> pc'[u] \in {"mboxInit", "qcbTake", "qFill"}
                        /\ Filling(u)' => Filling(u) /\ arg'[u] = arg[u]
    BY DEF QuietBox, Fades, Calls, Filling
  <1>2. RegionOK'
    BY <1>1 DEF MInv, RegionOK, QuietBox
  <1>3. FillOK'
    BY <1>1 DEF MInv, FillOK, QuietBox
  <1>4. \A e \in Event : Owns(e)' => Owns(e) /\ OSEventPtr'[e] = OSEventPtr[e]
    <2> SUFFICES ASSUME NEW e \in Event, Owns(e)'
                 PROVE  Owns(e) /\ OSEventPtr'[e] = OSEventPtr[e]
      OBVIOUS
    <2>1. Owns(e)
      BY <1>1 DEF Owns, QuietBox, Calls
    <2>2. OSEventType[e] # "MBOX"
      BY <2>1 DEF Owns, MInv, FillOK, Filling
    <2> QED
      BY <2>1, <2>2 DEF QuietBox
  <1>5. OwnOK'
    BY <1>4 DEF MInv, OwnOK, QuietBox
  <1>6. MboxOK'
    BY DEF MInv, MboxOK, QuietBox
  <1>7. FreeOK'
    BY QuietSpare, FreeOKKept
  <1> QED
    BY <1>2, <1>3, <1>5, <1>6, <1>7 DEF IInv, MInv

LEMMA CoreStepM ==
  ASSUME IInv, CoreNext /\ CreatedNoMsg /\ UNCHANGED <<boxVars, OSEventPtr, qVars>>
  PROVE  IInv' /\ QuietBox
  <1>1. KInv'
    BY CoreK DEF IInv, boxVars
  <1>2. QuietBox
    BY CoreFades DEF IInv, QuietBox, boxVars, qVars
  <1>3. BoxType' /\ RingOK'
    BY DEF IInv, MInv, BoxType, RingOK, CreatedNoMsg, boxVars, qVars
  <1> QED
    BY <1>1, <1>2, <1>3, QuietM DEF IInv

-----------------------------------------------------------------------------
(* The functions of mailboxes and queues *)

(* Where a call is about a box. *)
LEMMA AtIs ==
  ASSUME KInv, NEW t \in Task, NEW l \in Calls, At(t, l)
  PROVE  /\ pc[t] = l /\ arg[t] \in Event /\ t # Idle /\ Running(t) /\ OSPrioCur = t
         /\ Return(t) => GoesOn(t, "user", None)
         /\ Reschedule(t) => GoesOn(t, "sched", None)
  <1>1. pc[t] = l /\ arg[t] \in Event /\ Running(t) /\ OSPrioCur = t
    BY DEF KInv, ArgOK, OnBox, Filling, Calls, At, Running
  <1>2. t # Idle
    BY <1>1 DEF KInv, IdleOK, Calls, Regions
  <1> QED
    BY <1>1, <1>2 DEF GoesOn, Return, Reschedule, Calls, Regions

(* And of what type the box is. *)
LEMMA AtBox ==
  ASSUME IInv, NEW t \in Task, NEW l \in Regions, At(t, l)
  PROVE  /\ arg[t] \in Event /\ OSEventType[arg[t]] = TypeOf(l) /\ pc[t] = l
         /\ TypeOf(l) = "Q" => /\ Owns(arg[t]) /\ OSEventPtr[arg[t]] \in Qcb
                               /\ RingType(QueueOf(arg[t])) /\ RingAt(QueueOf(arg[t]))
  <1>1. arg[t] \in Event /\ OSEventType[arg[t]] = TypeOf(l) /\ pc[t] = l
    BY AtIs DEF IInv, MInv, RegionOK, Calls
  <1>2. ASSUME TypeOf(l) = "Q" PROVE Owns(arg[t]) /\ OSEventPtr[arg[t]] \in Qcb
    BY <1>1, <1>2 DEF Owns, IInv, MInv, OwnOK
  <1>3. ASSUME TypeOf(l) = "Q" PROVE RingType(QueueOf(arg[t])) /\ RingAt(QueueOf(arg[t]))
    BY <1>2, <1>3 DEF IInv, MInv, BoxType, RingOK, RingType, RingAt, QueueOf
  <1> QED
    BY <1>1, <1>2, <1>3

LEMMA RingSet ==
  ASSUME IInv, NEW e \in Event, OSEventPtr[e] \in Qcb, NEW r, RingType(r), RingAt(r), SetRing(e, r)
  PROVE  /\ OSQ' \in [Qcb -> [In : Slot, Out : Slot, Entries : 0 .. QSize, Tbl : [Slot -> Msg]]]
         /\ RingOK'
         /\ OSQ' = [OSQ EXCEPT ![OSEventPtr[e]] = r]
  BY DEF IInv, MInv, BoxType, RingOK, RingType, RingAt, SetRing

(* The labels of the regions of each type. *)
LEMMA Labels ==
  /\ \A l \in {"mboxPend", "mboxAccept", "mboxPost", "mboxDel"} :
       l \in Regions /\ l \in Calls /\ TypeOf(l) = "MBOX"
  /\ \A l \in {"qPend", "qAccept", "qPost", "qPostFront", "qFlush", "qDel"} :
       l \in Regions /\ l \in Calls /\ TypeOf(l) = "Q"
  /\ \A l \in {"user", "sched", "schedPend", "pended"} : l \notin Calls /\ l \notin Regions
  BY DEF Regions, Calls, TypeOf

LEMMA ReturnFades ==
  ASSUME KInv, NEW t \in Task, NEW l \in Calls, At(t, l), Return(t) \/ Reschedule(t)
  PROVE  /\ Fades /\ ~Filling(t)'
         /\ pc'[t] \in {"user", "sched"} /\ pc'[t] \notin Calls
         /\ \A u \in Task \ {t} : pc'[u] = pc[u] /\ arg'[u] = arg[u]
  BY DEF KInv, CoreType, Fades, Calls, Regions, Filling, Return, Reschedule, Goto, At

-----------------------------------------------------------------------------
LEMMA TakeStep ==
  ASSUME IInv, NEW t \in Task,
         MboxTake(t) \/ QTake(t) \/ QAcceptNone(t) \/ OSQFlush(t)
  PROVE  IInv' /\ QuietBox
  <1>1. PICK l \in Regions : At(t, l)
    BY Labels DEF MboxTake, QTake, QAcceptNone, OSQFlush
  <1>2. /\ Return(t) /\ OSEventTbl' = OSEventTbl /\ OSTCBMsg' = OSTCBMsg
        /\ UNCHANGED <<OSRdyTbl, cpuVars, tblVars, tcbVars>>
        /\ UNCHANGED <<OSEventType, OSEventFreeList, OSQFreeList>>
    BY DEF MboxTake, QTake, QAcceptNone, OSQFlush, boxVars, qVars, msgVars
  <1>3. KInv'
    <2>1. TypesKept
      BY <1>2 DEF TypesKept
    <2>2. GoesOn(t, "user", None)
      BY <1>1, <1>2, AtIs DEF IInv, Calls
    <2> QED
      BY <1>2, <2>1, <2>2, GoesOnCore DEF IInv
  <1>4. Fades
    BY <1>1, <1>2, ReturnFades DEF IInv, Calls
  <1>5. CASE MboxTake(t)
    <2>1. arg[t] \in Event /\ OSEventType[arg[t]] = "MBOX"
      BY <1>5, AtBox, Labels DEF MboxTake
    <2>2. /\ OSEventPtr' = [OSEventPtr EXCEPT ![arg[t]] = None] /\ OSQ' = OSQ
      BY <1>5 DEF MboxTake, qVars
    <2>3. BoxType' /\ RingOK'
      BY <1>2, <2>1, <2>2 DEF IInv, MInv, BoxType, RingOK
    <2>4. QuietBox
      BY <1>2, <1>4, <2>1, <2>2 DEF IInv, MInv, BoxType, QuietBox
    <2> QED
      BY <1>3, <2>3, <2>4, QuietM DEF IInv
  <1>6. CASE QTake(t) \/ OSQFlush(t)
    <2>1. PICK r : SetRing(arg[t], r) /\ RingType(r) /\ RingAt(r)
                   /\ OSEventPtr[arg[t]] \in Qcb /\ arg[t] \in Event
      <3>1. CASE QTake(t)
        BY <3>1, AtBox, Labels, RingOutOK DEF QTake
      <3>2. CASE OSQFlush(t)
        <4>1. /\ RingType(QueueOf(arg[t])) /\ OSEventPtr[arg[t]] \in Qcb /\ arg[t] \in Event
              /\ SetRing(arg[t], NewRing(QueueOf(arg[t]).Tbl))
          BY <3>2, AtBox, Labels DEF OSQFlush
        <4>2. QueueOf(arg[t]).Tbl \in [Slot -> Msg]
          BY <4>1, RingAtAfter
        <4> QED
          BY <4>1, <4>2, NewRingOK
      <3> QED
        BY <1>6, <3>1, <3>2
    <2>2. OSEventPtr' = OSEventPtr
      BY <1>6 DEF QTake, OSQFlush
    <2>3. BoxType' /\ RingOK'
      BY <1>2, <2>1, <2>2, RingSet DEF IInv, MInv, BoxType
    <2>4. QuietBox
      BY <1>2, <1>4, <2>2 DEF QuietBox
    <2> QED
      BY <1>3, <2>3, <2>4, QuietM DEF IInv
  <1>7. CASE QAcceptNone(t)
    <2>1. UNCHANGED <<OSEventPtr, OSQ>>
      BY <1>7 DEF QAcceptNone, msgVars, qVars
    <2>2. BoxType' /\ RingOK' /\ QuietBox
      BY <1>2, <1>4, <2>1 DEF IInv, MInv, BoxType, RingOK, QuietBox
    <2> QED
      BY <1>3, <2>2, QuietM DEF IInv
  <1> QED
    BY <1>5, <1>6, <1>7

LEMMA WaitStep ==
  ASSUME IInv, NEW t \in Task, NEW n \in 0 .. MaxDly, MsgWait(t, n)
  PROVE  IInv' /\ QuietBox
  <1> DEFINE m == IF pc[t] = "qPend" THEN "Q" ELSE "MBOX"
  <1>1. /\ At(t, "mboxPend") \/ At(t, "qPend")
        /\ EventTaskWait(t, arg[t], m, n) /\ Goto(t, "schedPend", arg[t])
        /\ UNCHANGED <<cpuVars, tblVars, OSEventType>>
        /\ UNCHANGED <<OSEventPtr, OSEventFreeList, OSQFreeList, OSQ, OSTCBMsg>>
    BY DEF MsgWait, msgVars, boxVars, qVars
  <1>2. OSEventType[arg[t]] = m /\ m \in {"MBOX", "Q"}
    BY <1>1, AtBox, Labels
  <1>3. KInv'
    BY <1>1, <1>2, WaitCore DEF IInv
  <1>4. Fades
    BY <1>1 DEF IInv, KInv, CoreType, Fades, Calls, Regions, Goto
  <1>5. BoxType' /\ RingOK' /\ QuietBox
    BY <1>1, <1>4 DEF IInv, MInv, BoxType, RingOK, QuietBox
  <1> QED
    BY <1>3, <1>5, QuietM DEF IInv

LEMMA PendedStep ==
  ASSUME IInv, NEW t \in Task, MsgPended(t)
  PROVE  IInv' /\ QuietBox
  <1>1. /\ At(t, "pended") /\ Return(t)
        /\ EventTO(t) \/ EventGot(t)
        /\ UNCHANGED <<cpuVars, tblVars, OSEventType>>
        /\ UNCHANGED <<OSEventPtr, OSEventFreeList, OSQFreeList, OSQ>>
        /\ OSTCBMsg' \in [Task -> Msg \cup {None}]
    BY DEF MsgPended, boxVars, qVars, IInv, MInv, BoxType
  <1>3. KInv'
    BY <1>1, PendedCore DEF IInv
  <1>4. Fades
    BY <1>1 DEF IInv, KInv, CoreType, Fades, Calls, Regions, Return, Goto
  <1>5. BoxType' /\ RingOK' /\ QuietBox
    BY <1>1, <1>4 DEF IInv, MInv, BoxType, RingOK, QuietBox
  <1> QED
    BY <1>3, <1>5, QuietM DEF IInv

(* A step that does not touch the core. *)
LEMMA StutterCore ==
  ASSUME KInv, TypesKept,
         UNCHANGED <<OSRdyTbl, cpuVars, tblVars, tcbVars, OSEventTbl, pc, arg>>
  PROVE  KInv'
  <1>1. CoreType' /\ NestingOK' /\ IdleOK' /\ ArgOK' /\ CreateOK' /\ DelOK' /\ DeadOK'
    BY DEF KInv, CoreType, NestingOK, IdleOK, ArgOK, CreateOK, DelOK, DeadOK, Used,
           OnBox, InPend, Filling, Creating, cpuVars, tblVars, tcbVars
  <1>2. PendOK'
    <2>1. \A e \in Event : OSEventTbl[e] # {} => OSEventType'[e] = OSEventType[e]
      BY DEF TypesKept
    <2> QED
      BY <2>1 DEF KInv, PendOK, InPend, tcbVars
  <1>3. CurOK' /\ WaitListed' /\ ReadyExact'
    BY DEF KInv, CurOK, WaitListed, ReadyExact, BeingDeleted, InPend, Used, cpuVars, tblVars,
           tcbVars
  <1> QED
    BY <1>1, <1>2, <1>3 DEF KInv

-----------------------------------------------------------------------------
(* Posts *)

LEMMA ServedIn ==
  ASSUME KInv, NEW e \in Event, NEW o, OSEventTbl[e] # {}
  PROVE  Served(e, o) \subseteq OSEventTbl[e] /\ Served(e, o) # {} /\ Served(e, o) \in SUBSET Task
  BY HighestIn DEF KInv, CoreType, Served

(* A post to e, in whatever way it ends. *)
PostRegion(e, m, o) == \/ OSEventType[e] = "MBOX" /\ MboxRegion(e, m, o)
                       \/ OSEventType[e] = "Q" /\ QRegion(e, m, o)

LEMMA PostStep ==
  ASSUME IInv, NEW e \in Event, NEW m \in Msg, NEW o, PostRegion(e, m, o), Fades,
         UNCHANGED <<cpuVars, tblVars, boxVars>>,
         \/ UNCHANGED <<pc, arg>>
         \/ \E t \in Task : GoesOn(t, "user", None) \/ GoesOn(t, "sched", None)
  PROVE  IInv' /\ QuietBox
  <1>1. UNCHANGED <<OSEventType, OSEventFreeList>>
    BY DEF boxVars
  <1>2. CASE PostHand(e, m, o)
    <2>1. /\ OSEventTbl[e] # {} /\ EventTaskRdy(e, Served(e, o), OSEventType[e])
          /\ OSTCBMsg' = [t \in Task |-> IF t \in Served(e, o) THEN m ELSE OSTCBMsg[t]]
          /\ UNCHANGED <<OSEventPtr, OSQFreeList, OSQ>>
      BY <1>2 DEF PostHand, HandOver, qVars
    <2>2. /\ Served(e, o) \in SUBSET Task /\ Served(e, o) \subseteq OSEventTbl[e]
          /\ OSEventType[e] \in {"MBOX", "Q"}
      BY <2>1, ServedIn DEF IInv, PostRegion
    <2>3. TypesKept
      BY <1>1 DEF TypesKept
    <2>4. KInv'
      BY <2>1, <2>2, <2>3, RdyCore DEF IInv
    <2>5. BoxType' /\ RingOK' /\ QuietBox
      BY <1>1, <2>1 DEF IInv, MInv, BoxType, RingOK, QuietBox
    <2> QED
      BY <2>4, <2>5, QuietM DEF IInv
  <1>3. CASE MboxRegion(e, m, o) /\ ~PostHand(e, m, o) /\ OSEventType[e] = "MBOX"
    <2>1. /\ \/ OSEventPtr' = [OSEventPtr EXCEPT ![e] = m]
             \/ OSEventPtr' = OSEventPtr
          /\ UNCHANGED <<OSRdyTbl, tcbVars, OSEventTbl, OSQFreeList, OSQ, OSTCBMsg>>
      BY <1>3 DEF MboxRegion, MboxKeep, Refused, qVars
    <2>2. KInv'
      <3>1. TypesKept
        BY <1>1 DEF TypesKept
      <3>2. CASE UNCHANGED <<pc, arg>>
        BY <1>1, <2>1, <3>1, <3>2, StutterCore DEF IInv
      <3> QED
        BY <2>1, <3>1, <3>2, GoesOnCore DEF IInv
    <2>3. BoxType' /\ RingOK'
      BY <1>1, <2>1 DEF IInv, MInv, BoxType, RingOK
    <2>4. QuietBox
      BY <1>1, <1>3, <2>1 DEF IInv, MInv, BoxType, QuietBox
    <2> QED
      BY <2>2, <2>3, <2>4, QuietM DEF IInv
  <1>4. CASE QRegion(e, m, o) /\ ~PostHand(e, m, o) /\ OSEventType[e] = "Q"
    <2>1. /\ UNCHANGED <<OSRdyTbl, tcbVars, OSEventTbl, OSQFreeList, OSEventPtr, OSTCBMsg>>
          /\ \/ OSQ' = OSQ
             \/ \E r : SetRing(e, r) /\ RingType(r) /\ RingAt(r)
      <3>1. CASE QKeep(e, m, o)
        <4>1. /\ RingType(QueueOf(e)) /\ RingAt(QueueOf(e)) /\ QueueOf(e).Entries < QSize
          <5>1. OSEventPtr[e] \in Qcb
            BY <1>4 DEF Owns, IInv, MInv, OwnOK
          <5>2. RingType(QueueOf(e)) /\ RingAt(QueueOf(e))
            BY <5>1 DEF IInv, MInv, BoxType, RingOK, RingType, RingAt, QueueOf
          <5> QED
            BY <3>1, <5>2, RingAtAfter, MsgAssumption DEF QKeep, RingFull
        <4>2. /\ RingType(RingIn(QueueOf(e), m)) /\ RingAt(RingIn(QueueOf(e), m))
              /\ RingType(RingInFront(QueueOf(e), m)) /\ RingAt(RingInFront(QueueOf(e), m))
          BY <4>1, RingInOK, RingInFrontOK
        <4> QED
          BY <3>1, <4>2 DEF QKeep
      <3>2. CASE Refused(e, RingFull(QueueOf(e)))
        BY <3>2 DEF Refused, qVars
      <3> QED
        BY <1>4, <3>1, <3>2 DEF QRegion
    <2>2. KInv'
      <3>1. TypesKept
        BY <1>1 DEF TypesKept
      <3>2. CASE UNCHANGED <<pc, arg>>
        BY <1>1, <2>1, <3>1, <3>2, StutterCore DEF IInv
      <3> QED
        BY <2>1, <3>1, <3>2, GoesOnCore DEF IInv
    <2>3. BoxType' /\ RingOK'
      <3>1. OSEventPtr[e] \in Qcb
        BY <1>4 DEF Owns, IInv, MInv, OwnOK
      <3> QED
        BY <1>1, <2>1, <3>1, RingSet DEF IInv, MInv, BoxType, RingOK
    <2>4. QuietBox
      BY <1>1, <2>1 DEF QuietBox
    <2> QED
      BY <2>2, <2>3, <2>4, QuietM DEF IInv
  <1> QED
    BY <1>2, <1>3, <1>4 DEF PostRegion

LEMMA TaskPostStep ==
  ASSUME IInv, NEW t \in Task, NEW m \in Msg,
         \/ OSQPost(t, m) \/ OSQPostFront(t, m)
         \/ \E o \in PostOpts \cup {{}} : MboxPost(t, m, o)
         \/ \E o \in PostOpts : OSQPostOpt(t, m, o)
  PROVE  /\ IInv' /\ QuietBox
         /\ arg[t] \in Event /\ pc[t] \in Regions /\ pc'[t] \in {"user", "sched"}
         /\ \A u \in Task \ {t} : pc'[u] = pc[u] /\ arg'[u] = arg[u]
         /\ \E o : PostRegion(arg[t], m, o)
         /\ OSEventType' = OSEventType
  <1>0. PICK l \in {"mboxPost", "qPost", "qPostFront"} : \E o :
          /\ At(t, l) /\ PostReturn(t)
          /\ IF l = "mboxPost" THEN MboxRegion(arg[t], m, o) ELSE QRegion(arg[t], m, o)
    BY DEF OSQPost, OSQPostFront, MboxPost, OSQPostOpt
  <1>1. PICK o : /\ At(t, l) /\ PostReturn(t)
                 /\ IF l = "mboxPost" THEN MboxRegion(arg[t], m, o)
                                      ELSE QRegion(arg[t], m, o)
    BY <1>0
  <1>2. /\ arg[t] \in Event /\ PostRegion(arg[t], m, o) /\ l \in Regions /\ pc[t] = l
    BY <1>1, AtBox, Labels DEF PostRegion
  <1>3. Return(t) \/ Reschedule(t)
    BY <1>1 DEF PostReturn
  <1>4. /\ Fades /\ pc'[t] \in {"user", "sched"}
        /\ \A u \in Task \ {t} : pc'[u] = pc[u] /\ arg'[u] = arg[u]
    BY <1>1, <1>2, <1>3, ReturnFades, Labels DEF IInv
  <1>5. GoesOn(t, "user", None) \/ GoesOn(t, "sched", None)
    BY <1>1, <1>2, <1>3, AtIs, Labels DEF IInv
  <1>6. IInv' /\ QuietBox
    BY <1>1, <1>2, <1>4, <1>5, PostStep DEF PostReturn
  <1> QED
    BY <1>1, <1>2, <1>4, <1>6 DEF PostReturn, boxVars

LEMMA IrqPostStep ==
  ASSUME IInv, NEW e \in IrqEvent, NEW m \in Msg, IrqMsgPost(e, m)
  PROVE  IInv' /\ QuietBox /\ PostRegion(e, m, {}) /\ UNCHANGED <<pc, arg, OSEventType>>
  <1>1. e \in Event /\ PostRegion(e, m, {}) /\ UNCHANGED <<cpuVars, tblVars, pc, arg, boxVars>>
    BY MsgAssumption DEF IrqMsgPost, PostRegion
  <1>2. Fades
    BY <1>1 DEF Fades
  <1> QED
    BY <1>1, <1>2, PostStep DEF boxVars

-----------------------------------------------------------------------------
(* A call begins: its region will find a box of its type. *)
LEMMA MsgCallStep ==
  ASSUME IInv, NEW t \in Task, NEW f \in Regions, NEW e \in Event, MsgCall(t, f, e)
  PROVE  /\ IInv' /\ Spare' = Spare
         /\ \A x \in Event : Owns(x)' <=> Owns(x)
  <1>1. /\ pc[t] = "user" /\ t # Idle /\ Running(t) /\ OSEventType[e] = TypeOf(f)
        /\ f \in {"mboxPend", "qPend"} => OSLockNesting = 0
        /\ Goto(t, f, e) /\ OSEventTbl' = OSEventTbl
        /\ UNCHANGED <<OSRdyTbl, cpuVars, tblVars, tcbVars>>
        /\ UNCHANGED <<OSEventType, OSEventFreeList, OSQFreeList, OSEventPtr, OSQ, OSTCBMsg>>
    BY DEF MsgCall, Calling, msgVars, boxVars, qVars
  <1>2. KInv'
    <2>1. GoesOn(t, f, e)
      BY <1>1 DEF GoesOn
    <2>2. TypesKept
      BY <1>1 DEF TypesKept
    <2> QED
      BY <1>1, <2>1, <2>2, GoesOnCore DEF IInv
  <1>3. /\ pc'[t] = f /\ arg'[t] = e
        /\ \A u \in Task \ {t} : pc'[u] = pc[u] /\ arg'[u] = arg[u]
    BY <1>1 DEF IInv, KInv, CoreType, Goto
  <1>4. \A u \in Task : /\ Filling(u)' <=> Filling(u)
                        /\ Filling(u) => arg'[u] = arg[u]
                        /\ pc'[u] = "qFill" <=> pc[u] = "qFill"
    BY <1>1, <1>3 DEF Filling, Regions
  <1>5. Spare' = Spare
    BY <1>1, <1>4 DEF Spare
  <1>6. \A x \in Event : Owns(x)' <=> Owns(x)
    BY <1>1, <1>4 DEF Owns, Filling
  <1>7. BoxType' /\ RingOK' /\ MboxOK'
    BY <1>1 DEF IInv, MInv, BoxType, RingOK, MboxOK
  <1>8. RegionOK'
    BY <1>1, <1>3 DEF IInv, MInv, RegionOK
  <1>9. FillOK'
    BY <1>1, <1>4 DEF IInv, MInv, FillOK
  <1>10. OwnOK'
    BY <1>1, <1>6 DEF IInv, MInv, OwnOK
  <1>11. FreeOK'
    BY <1>1, <1>5, FreeOKKept DEF IInv, SpareKept
  <1> QED
    BY <1>2, <1>5, <1>6, <1>7, <1>8, <1>9, <1>10, <1>11 DEF IInv, MInv

-----------------------------------------------------------------------------
(* Creation: the head of the free list is a spare block. *)
LEMMA HeadSpare ==
  ASSUME IInv, OSEventFreeList \in Event
  PROVE  OSEventFreeList \in Spare
  <1>1. PICK S \in SUBSET Spare : FreeListOf(S, OSEventFreeList, OSEventPtr)
    BY DEF IInv, FreeOK
  <1>2. S \in SUBSET Event
    BY DEF Spare
  <1>3. OSEventFreeList \in S
    BY <1>1, <1>2, FreeListTake
  <1> QED
    BY <1>3

LEMMA BoxTakeStep ==
  ASSUME IInv, NEW t \in Task, NEW l \in {"mboxInit", "qcbTake"}, BoxTake(t, l)
  PROVE  /\ IInv' /\ SpareTaken
         /\ \A x \in Event : Owns(x)' <=> Owns(x)
         /\ pc[t] = "user" /\ pc'[t] = l
         /\ \A u \in Task \ {t} : pc'[u] = pc[u] /\ arg'[u] = arg[u]
  <1> DEFINE e == OSEventFreeList
  <1>1. /\ pc[t] = "user" /\ t # Idle /\ Running(t) /\ e \in Event
        /\ Goto(t, l, e) /\ OSEventTbl' = OSEventTbl
        /\ OSEventFreeList' = OSEventPtr[e]
        /\ UNCHANGED <<OSRdyTbl, cpuVars, tblVars, tcbVars>>
        /\ UNCHANGED <<OSEventType, OSQFreeList, OSEventPtr, OSQ, OSTCBMsg>>
    BY DEF BoxTake, Calling, qVars
  <1>2. e \in Spare
    BY <1>1, HeadSpare
  <1>3. KInv'
    <2>1. GoesOn(t, l, e)
      BY <1>1 DEF GoesOn
    <2>2. TypesKept
      BY <1>1 DEF TypesKept
    <2> QED
      BY <1>1, <2>1, <2>2, GoesOnCore DEF IInv
  <1>4. /\ pc'[t] = l /\ arg'[t] = e
        /\ \A u \in Task \ {t} : pc'[u] = pc[u] /\ arg'[u] = arg[u]
    BY <1>1 DEF IInv, KInv, CoreType, Goto
  <1>5. \A u \in Task : /\ Filling(u)' <=> Filling(u) \/ u = t
                        /\ Filling(u) => arg'[u] = arg[u] /\ u # t
                        /\ pc'[u] = "qFill" <=> pc[u] = "qFill"
                        /\ pc'[u] \in Regions => pc'[u] = pc[u] /\ arg'[u] = arg[u]
    BY <1>1, <1>4 DEF Filling, Regions
  <1>6. OSEventType[e] = "UNUSED" /\ \A u \in Task : Filling(u) => arg[u] # e
    BY <1>2 DEF Spare
  <1>7. Spare' = Spare \ {e}
    <2>1. \A x \in Event : x \in Spare' <=> x \in Spare /\ x # e
      BY <1>1, <1>4, <1>5 DEF Spare
    <2> QED
      BY <2>1 DEF Spare
  <1>8. SpareTaken
    BY <1>1, <1>7 DEF SpareTaken
  <1>9. \A x \in Event : Owns(x)' <=> Owns(x)
    BY <1>1, <1>5 DEF Owns, Filling
  <1>10. BoxType' /\ RingOK' /\ MboxOK'
    <2>1. OSEventFreeList' \in Event \cup {None}
      <3>1. PICK S \in SUBSET Spare : FreeListOf(S, OSEventFreeList, OSEventPtr)
        BY DEF IInv, FreeOK
      <3>2. S \in SUBSET Event
        BY DEF Spare
      <3>3. FreeListOf(S \ {e}, OSEventPtr[e], OSEventPtr)
        BY <1>1, <3>1, <3>2, FreeListTake
      <3>4. OSEventPtr[e] \in Event \cup {None}
        BY <3>2, <3>3, FreeListHead
      <3> QED
        BY <1>1, <3>4
    <2> QED
      BY <1>1, <2>1 DEF IInv, MInv, BoxType, RingOK, MboxOK
  <1>11. RegionOK'
    BY <1>1, <1>5 DEF IInv, MInv, RegionOK
  <1>12. FillOK'
    BY <1>1, <1>4, <1>5, <1>6 DEF IInv, MInv, FillOK
  <1>13. OwnOK'
    BY <1>1, <1>9 DEF IInv, MInv, OwnOK
  <1>14. FreeOK'
    BY <1>8, FreeOKKept DEF IInv
  <1> QED
    BY <1>1, <1>3, <1>4, <1>8, <1>9, <1>10, <1>11, <1>12, <1>13, <1>14 DEF IInv, MInv

(* A block that is being filled in has no waiters left from its past life. *)
LEMMA FillerIs ==
  ASSUME IInv, NEW t \in Task, NEW l \in {"mboxInit", "qcbTake", "qFill"}, At(t, l)
  PROVE  /\ arg[t] \in Event /\ pc[t] = l /\ Filling(t)
         /\ OSEventType[arg[t]] = "UNUSED" /\ OSEventTbl[arg[t]] = {}
         /\ \A u \in Task : Filling(u) /\ arg[u] = arg[t] => u = t
         /\ \A u \in Task : pc[u] \in Regions => arg[u] # arg[t]
         /\ arg[t] \notin Spare
         /\ Return(t) => GoesOn(t, "user", None)
  <1>1. arg[t] \in Event /\ pc[t] = l /\ Filling(t) /\ (Return(t) => GoesOn(t, "user", None))
    BY AtIs DEF IInv, Calls, Filling
  <1>2. /\ OSEventType[arg[t]] = "UNUSED"
        /\ \A u \in Task : Filling(u) /\ arg[u] = arg[t] => u = t
    BY <1>1 DEF IInv, MInv, FillOK
  <1>3. OSEventTbl[arg[t]] = {}
    <2>1. \A p \in Task : p \notin OSEventTbl[arg[t]]
      BY <1>1, <1>2 DEF IInv, KInv, PendOK
    <2> QED
      BY <1>1, <2>1 DEF IInv, KInv, CoreType
  <1>4. \A u \in Task : pc[u] \in Regions => arg[u] # arg[t]
    BY <1>2 DEF IInv, MInv, RegionOK, TypeOf
  <1>5. arg[t] \notin Spare
    BY <1>1 DEF Spare
  <1> QED
    BY <1>1, <1>2, <1>3, <1>4, <1>5

LEMMA MboxCreateStep ==
  ASSUME IInv, NEW t \in Task, NEW m \in Msg \cup {None}, MboxCreate(t, m)
  PROVE  /\ IInv' /\ SpareKept /\ Spare' = Spare
         /\ \A x \in Event : (Owns(x)' <=> Owns(x)) /\ (Owns(x) => OSEventPtr'[x] = OSEventPtr[x])
         /\ OSQFreeList' = OSQFreeList /\ OSEventTbl' = OSEventTbl
  <1>0. PICK e \in Event : e = arg[t]
    BY FillerIs DEF MboxCreate
  <1>1. /\ pc[t] = "mboxInit" /\ Filling(t) /\ Return(t) /\ GoesOn(t, "user", None)
        /\ OSEventType[e] = "UNUSED" /\ OSEventTbl[e] = {} /\ e \notin Spare
        /\ \A u \in Task : Filling(u) /\ arg[u] = e => u = t
        /\ \A u \in Task : pc[u] \in Regions => arg[u] # e
        /\ OSEventType' = [OSEventType EXCEPT ![e] = "MBOX"]
        /\ OSEventPtr' = [OSEventPtr EXCEPT ![e] = m]
        /\ OSEventTbl' = [OSEventTbl EXCEPT ![e] = {}]
        /\ UNCHANGED <<OSRdyTbl, cpuVars, tblVars, tcbVars>>
        /\ UNCHANGED <<OSEventFreeList, OSQFreeList, OSQ, OSTCBMsg>>
    BY <1>0, FillerIs DEF MboxCreate, qVars
  <1>2. OSEventTbl' = OSEventTbl
    BY <1>1 DEF IInv, KInv, CoreType
  <1>3. KInv'
    <2>1. TypesKept
      BY <1>1, <1>2 DEF TypesKept, IInv, MInv, BoxType
    <2> QED
      BY <1>1, <1>2, <2>1, GoesOnCore DEF IInv
  <1>4. /\ pc'[t] = "user"
        /\ \A u \in Task \ {t} : pc'[u] = pc[u] /\ arg'[u] = arg[u]
    BY <1>1 DEF IInv, KInv, CoreType, Return, Goto
  <1>5. \A u \in Task : /\ Filling(u)' <=> Filling(u) /\ u # t
                        /\ Filling(u)' => arg'[u] = arg[u] /\ arg[u] # e
                        /\ pc'[u] = "qFill" <=> pc[u] = "qFill"
                        /\ pc[u] = "qFill" => arg'[u] = arg[u] /\ arg[u] # e
                        /\ pc'[u] \in Regions => pc'[u] = pc[u] /\ arg'[u] = arg[u] /\ arg[u] # e
    BY <1>1, <1>4 DEF Filling, Regions
  <1>6. \A x \in Event : x # e => /\ OSEventType'[x] = OSEventType[x]
                                  /\ OSEventPtr'[x] = OSEventPtr[x]
    BY <1>1 DEF IInv, MInv, BoxType
  <1>7. OSEventType'[e] = "MBOX" /\ OSEventPtr'[e] = m
    BY <1>1 DEF IInv, MInv, BoxType
  <1>8. Spare' = Spare
    <2>1. \A x \in Event : x \in Spare' <=> x \in Spare
      BY <1>0, <1>1, <1>5, <1>6, <1>7 DEF Spare
    <2> QED
      BY <2>1 DEF Spare
  <1>9. SpareKept
    BY <1>1, <1>6, <1>8 DEF SpareKept, Spare
  <1>10. \A x \in Event : (Owns(x)' <=> Owns(x)) /\ (Owns(x) => x # e)
    BY <1>1, <1>5, <1>6, <1>7 DEF Owns
  <1>11. BoxType' /\ RingOK' /\ MboxOK'
    BY <1>1, <1>6, <1>7 DEF IInv, MInv, BoxType, RingOK, MboxOK
  <1>12. RegionOK'
    <2> SUFFICES ASSUME NEW u \in Task, pc'[u] \in Regions
                 PROVE  OSEventType'[arg'[u]] = TypeOf(pc'[u])
      BY DEF RegionOK
    <2>1. arg[u] \in Event /\ arg[u] # e /\ pc'[u] = pc[u] /\ arg'[u] = arg[u]
      BY <1>5 DEF IInv, KInv, ArgOK, OnBox
    <2> QED
      BY <1>6, <2>1 DEF IInv, MInv, RegionOK
  <1>13. FillOK'
    <2>1. \A u \in Task : Filling(u)' => arg[u] \in Event
      BY <1>5 DEF IInv, KInv, ArgOK, OnBox
    <2> QED
      BY <1>5, <1>6, <2>1 DEF IInv, MInv, FillOK
  <1>14. OwnOK'
    BY <1>1, <1>6, <1>10 DEF IInv, MInv, OwnOK
  <1>15. FreeOK'
    BY <1>9, FreeOKKept DEF IInv
  <1> QED
    BY <1>1, <1>2, <1>3, <1>6, <1>8, <1>9, <1>10, <1>11, <1>12, <1>13, <1>14, <1>15 DEF IInv, MInv

(* A queue gets an OS_Q of its own, or the block goes back to the list. *)
LEMMA QcbTakeStep ==
  ASSUME IInv, NEW t \in Task, QcbTake(t)
  PROVE  /\ IInv' /\ OSEventTbl' = OSEventTbl
         /\ \/ /\ SpareKept /\ Spare' = Spare
               /\ \E q \in OSQFreeList :
                    /\ OSQFreeList' = OSQFreeList \ {q} /\ OSEventPtr'[arg[t]] = q
                    /\ \A x \in Event : Owns(x)' <=> Owns(x) \/ x = arg[t]
            \/ /\ SpareGiven(arg[t]) /\ OSQFreeList' = OSQFreeList
               /\ \A x \in Event : Owns(x)' <=> Owns(x)
         /\ \A x \in Event : x # arg[t] => OSEventPtr'[x] = OSEventPtr[x]
         /\ ~Owns(arg[t]) /\ arg[t] \in Event /\ OSEventType' = OSEventType
  <1>0. PICK e \in Event : e = arg[t]
    BY FillerIs DEF QcbTake
  <1>1. /\ pc[t] = "qcbTake" /\ Filling(t) /\ At(t, "qcbTake")
        /\ OSEventType[e] = "UNUSED" /\ e \notin Spare
        /\ \A u \in Task : Filling(u) /\ arg[u] = e => u = t
        /\ \A u \in Task : pc[u] \in Regions => arg[u] # e
        /\ OSEventTbl' = OSEventTbl /\ OSEventType' = OSEventType
        /\ UNCHANGED <<OSRdyTbl, cpuVars, tblVars, tcbVars>>
        /\ UNCHANGED <<OSQ, OSTCBMsg>>
    BY <1>0, FillerIs DEF QcbTake
  <1>2. TypesKept
    BY <1>1 DEF TypesKept
  <1>3. ~Owns(e)
    BY <1>0, <1>1 DEF Owns, Filling
  <1>4. \A u \in Task : u # t => /\ Filling(u) => arg[u] # e
                                 /\ pc[u] \in Regions => arg[u] # e
    BY <1>1
  <1>5. ASSUME NEW q \in OSQFreeList, OSQFreeList' = OSQFreeList \ {q},
               OSEventPtr' = [OSEventPtr EXCEPT ![e] = q], Goto(t, "qFill", e),
               UNCHANGED OSEventFreeList
        PROVE  /\ IInv' /\ SpareKept /\ Spare' = Spare /\ OSEventPtr'[e] = q
               /\ \A x \in Event : Owns(x)' <=> Owns(x) \/ x = e
               /\ \A x \in Event : x # e => OSEventPtr'[x] = OSEventPtr[x]
    <2>1. KInv'
      <3>1. GoesOn(t, "qFill", e)
        BY <1>1, <1>5, AtIs DEF GoesOn, IInv, Calls
      <3> QED
        BY <1>1, <1>2, <3>1, GoesOnCore DEF IInv
    <2>2. /\ pc'[t] = "qFill" /\ arg'[t] = e /\ q \in Qcb
          /\ \A u \in Task \ {t} : pc'[u] = pc[u] /\ arg'[u] = arg[u]
      BY <1>5 DEF IInv, KInv, CoreType, MInv, BoxType, Goto
    <2>3. \A u \in Task : /\ Filling(u)' <=> Filling(u)
                          /\ Filling(u) => arg'[u] = arg[u]
                          /\ pc'[u] = "qFill" <=> pc[u] = "qFill" \/ u = t
                          /\ pc'[u] \in Regions => pc'[u] = pc[u] /\ arg'[u] = arg[u]
      BY <1>0, <1>1, <2>2 DEF Filling, Regions
    <2>4. /\ OSEventPtr'[e] = q
          /\ \A x \in Event : x # e => OSEventPtr'[x] = OSEventPtr[x]
      BY <1>5 DEF IInv, MInv, BoxType
    <2>5. Spare' = Spare
      BY <1>1, <2>3 DEF Spare
    <2>6. SpareKept
      BY <1>1, <1>5, <2>4, <2>5 DEF SpareKept, Spare
    <2>7. \A x \in Event : Owns(x)' <=> Owns(x) \/ x = e
      BY <1>0, <1>1, <2>2, <2>3 DEF Owns, Filling
    <2>8. BoxType' /\ RingOK' /\ MboxOK'
      BY <1>1, <1>5, <2>2, <2>4 DEF IInv, MInv, BoxType, RingOK, MboxOK
    <2>9. RegionOK'
      BY <1>1, <2>3 DEF IInv, MInv, RegionOK
    <2>10. FillOK'
      BY <1>1, <2>3 DEF IInv, MInv, FillOK
    <2>11. OwnOK'
      <3>1. \A x \in Event : Owns(x) => OSEventPtr[x] \in Qcb \ OSQFreeList /\ OSEventPtr[x] # q
        BY DEF IInv, MInv, OwnOK
      <3>2. \A x \in Event : Owns(x)' => OSEventPtr'[x] \in Qcb \ OSQFreeList'
        BY <1>3, <1>5, <2>2, <2>4, <2>7, <3>1
      <3>3. \A x, y \in Event : Owns(x)' /\ Owns(y)' /\ OSEventPtr'[x] = OSEventPtr'[y] => x = y
        BY <1>3, <2>4, <2>7, <3>1 DEF IInv, MInv, OwnOK
      <3> QED
        BY <3>2, <3>3 DEF OwnOK
    <2>12. FreeOK'
      BY <2>6, FreeOKKept DEF IInv
    <2> QED
      BY <2>1, <2>4, <2>5, <2>6, <2>7, <2>8, <2>9, <2>10, <2>11, <2>12 DEF IInv, MInv
  <1>6. ASSUME OSEventPtr' = [OSEventPtr EXCEPT ![e] = OSEventFreeList],
               OSEventFreeList' = e, Return(t), UNCHANGED OSQFreeList
        PROVE  /\ IInv' /\ SpareGiven(e)
               /\ \A x \in Event : Owns(x)' <=> Owns(x)
               /\ \A x \in Event : x # e => OSEventPtr'[x] = OSEventPtr[x]
    <2>1. KInv'
      <3>1. GoesOn(t, "user", None)
        BY <1>1, <1>6, AtIs DEF IInv, Calls
      <3> QED
        BY <1>1, <1>2, <3>1, GoesOnCore DEF IInv
    <2>2. /\ pc'[t] = "user"
          /\ \A u \in Task \ {t} : pc'[u] = pc[u] /\ arg'[u] = arg[u]
      BY <1>6 DEF IInv, KInv, CoreType, Return, Goto
    <2>3. \A u \in Task : /\ Filling(u)' <=> Filling(u) /\ u # t
                          /\ Filling(u)' => arg'[u] = arg[u] /\ arg[u] # e
                          /\ pc'[u] = "qFill" <=> pc[u] = "qFill"
                          /\ pc[u] = "qFill" => arg'[u] = arg[u]
                          /\ pc'[u] \in Regions => pc'[u] = pc[u] /\ arg'[u] = arg[u]
      BY <1>0, <1>1, <2>2 DEF Filling, Regions
    <2>4. /\ OSEventPtr'[e] = OSEventFreeList
          /\ \A x \in Event : x # e => OSEventPtr'[x] = OSEventPtr[x]
      BY <1>6 DEF IInv, MInv, BoxType
    <2>5. Spare' = Spare \cup {e}
      <3>1. \A x \in Event : x \in Spare' <=> x \in Spare \/ x = e
        BY <1>0, <1>1, <2>2, <2>3 DEF Spare
      <3> QED
        BY <3>1 DEF Spare
    <2>6. SpareGiven(e)
      BY <1>1, <1>6, <2>4, <2>5 DEF SpareGiven, Spare
    <2>7. \A x \in Event : (Owns(x)' <=> Owns(x)) /\ (Owns(x) => x # e)
      BY <1>0, <1>1, <1>3, <2>2, <2>3 DEF Owns, Filling
    <2>8. BoxType' /\ RingOK' /\ MboxOK'
      BY <1>1, <1>6, <2>2, <2>4 DEF IInv, MInv, BoxType, RingOK, MboxOK
    <2>9. RegionOK'
      BY <1>1, <2>3 DEF IInv, MInv, RegionOK
    <2>10. FillOK'
      BY <1>1, <2>3 DEF IInv, MInv, FillOK
    <2>11. OwnOK'
      BY <1>6, <2>4, <2>7 DEF IInv, MInv, OwnOK
    <2>12. FreeOK'
      BY <2>6, FreeOKKept DEF IInv
    <2> QED
      BY <2>1, <2>4, <2>6, <2>7, <2>8, <2>9, <2>10, <2>11, <2>12 DEF IInv, MInv
  <1> QED
    BY <1>0, <1>1, <1>3, <1>5, <1>6 DEF QcbTake

LEMMA QCreateStep ==
  ASSUME IInv, NEW t \in Task, QCreate(t)
  PROVE  /\ IInv' /\ SpareKept /\ Spare' = Spare
         /\ \A x \in Event : (Owns(x)' <=> Owns(x)) /\ OSEventPtr'[x] = OSEventPtr[x]
         /\ OSQFreeList' = OSQFreeList /\ OSEventTbl' = OSEventTbl
  <1>0. PICK e \in Event : e = arg[t]
    BY FillerIs DEF QCreate
  <1>1. /\ pc[t] = "qFill" /\ Filling(t) /\ Return(t) /\ GoesOn(t, "user", None)
        /\ OSEventType[e] = "UNUSED" /\ OSEventTbl[e] = {} /\ e \notin Spare
        /\ \A u \in Task : Filling(u) /\ arg[u] = e => u = t
        /\ \A u \in Task : pc[u] \in Regions => arg[u] # e
        /\ OSEventType' = [OSEventType EXCEPT ![e] = "Q"]
        /\ SetRing(e, NewRing(QueueOf(e).Tbl))
        /\ OSEventTbl' = [OSEventTbl EXCEPT ![e] = {}]
        /\ UNCHANGED <<OSRdyTbl, cpuVars, tblVars, tcbVars>>
        /\ UNCHANGED <<OSEventFreeList, OSQFreeList, OSEventPtr, OSTCBMsg>>
    BY <1>0, FillerIs DEF QCreate
  <1>2. OSEventTbl' = OSEventTbl
    BY <1>1 DEF IInv, KInv, CoreType
  <1>3. KInv'
    <2>1. TypesKept
      BY <1>1, <1>2 DEF TypesKept, IInv, MInv, BoxType
    <2> QED
      BY <1>1, <1>2, <2>1, GoesOnCore DEF IInv
  <1>4. /\ pc'[t] = "user"
        /\ \A u \in Task \ {t} : pc'[u] = pc[u] /\ arg'[u] = arg[u]
    BY <1>1 DEF IInv, KInv, CoreType, Return, Goto
  <1>5. \A u \in Task : /\ Filling(u)' <=> Filling(u) /\ u # t
                        /\ Filling(u)' => arg'[u] = arg[u] /\ arg[u] # e
                        /\ pc'[u] = "qFill" <=> pc[u] = "qFill" /\ u # t
                        /\ pc[u] = "qFill" /\ u # t => arg'[u] = arg[u]
                        /\ pc'[u] \in Regions => pc'[u] = pc[u] /\ arg'[u] = arg[u] /\ arg[u] # e
    BY <1>0, <1>1, <1>4 DEF Filling, Regions
  <1>6. \A x \in Event : x # e => OSEventType'[x] = OSEventType[x]
    BY <1>1 DEF IInv, MInv, BoxType
  <1>7. OSEventType'[e] = "Q"
    BY <1>1 DEF IInv, MInv, BoxType
  <1>8. Spare' = Spare
    <2>1. \A x \in Event : x \in Spare' <=> x \in Spare
      BY <1>0, <1>1, <1>5, <1>6, <1>7 DEF Spare
    <2> QED
      BY <2>1 DEF Spare
  <1>9. SpareKept
    BY <1>1, <1>8 DEF SpareKept, Spare
  <1>10. Owns(e) /\ \A x \in Event : Owns(x)' <=> Owns(x)
    <2>1. Owns(e) /\ Owns(e)'
      BY <1>0, <1>1, <1>7 DEF Owns
    <2>2. \A x \in Event : x # e => (Owns(x)' <=> Owns(x))
      BY <1>0, <1>1, <1>5, <1>6 DEF Owns
    <2> QED
      BY <2>1, <2>2
  <1>11. BoxType' /\ RingOK' /\ MboxOK'
    <2>1. OSEventPtr[e] \in Qcb
      BY <1>10 DEF IInv, MInv, OwnOK
    <2>2. QueueOf(e).Tbl \in [Slot -> Msg]
      BY <2>1 DEF IInv, MInv, BoxType, QueueOf
    <2>3. RingOK' /\ OSQ' \in [Qcb -> [In : Slot, Out : Slot, Entries : 0 .. QSize, Tbl : [Slot -> Msg]]]
      BY <1>1, <2>1, <2>2, NewRingOK, RingSet
    <2> QED
      BY <1>1, <1>6, <1>7, <2>3 DEF IInv, MInv, BoxType, MboxOK
  <1>12. RegionOK'
    <2> SUFFICES ASSUME NEW u \in Task, pc'[u] \in Regions
                 PROVE  OSEventType'[arg'[u]] = TypeOf(pc'[u])
      BY DEF RegionOK
    <2>1. arg[u] \in Event /\ arg[u] # e /\ pc'[u] = pc[u] /\ arg'[u] = arg[u]
      BY <1>5 DEF IInv, KInv, ArgOK, OnBox
    <2> QED
      BY <1>6, <2>1 DEF IInv, MInv, RegionOK
  <1>13. FillOK'
    <2>1. \A u \in Task : Filling(u)' => arg[u] \in Event
      BY <1>5 DEF IInv, KInv, ArgOK, OnBox
    <2> QED
      BY <1>5, <1>6, <2>1 DEF IInv, MInv, FillOK
  <1>14. OwnOK'
    BY <1>1, <1>10 DEF IInv, MInv, OwnOK
  <1>15. FreeOK'
    BY <1>9, FreeOKKept DEF IInv
  <1> QED
    BY <1>1, <1>2, <1>3, <1>8, <1>9, <1>10, <1>11, <1>12, <1>13, <1>14, <1>15 DEF IInv, MInv

-----------------------------------------------------------------------------
(* Deletion, by the only task inside the box; its waiters are sent away. *)
LEMMA BoxDelStep ==
  ASSUME IInv, NEW t \in Task, NEW opt \in DelOpts, MboxDel(t, opt) \/ QDel(t, opt)
  PROVE  /\ IInv'
         /\ \/ QuietBox /\ UNCHANGED <<OSEventPtr, OSQ, OSTCBMsg, OSEventTbl>> /\ Return(t)
            \/ /\ SpareGiven(arg[t])
               /\ \A x \in Event : Owns(x)' <=> Owns(x) /\ x # arg[t]
               /\ \A x \in Event : x # arg[t] => OSEventPtr'[x] = OSEventPtr[x]
               /\ OSQFreeList' = IF Owns(arg[t]) THEN OSQFreeList \cup {OSEventPtr[arg[t]]}
                                                 ELSE OSQFreeList
               /\ OSQ' = OSQ
               /\ OSEventTbl' = [OSEventTbl EXCEPT ![arg[t]] = {}]
               /\ OSTCBMsg' = [p \in Task |-> IF p \in OSEventTbl[arg[t]] THEN None ELSE OSTCBMsg[p]]
               /\ OSEventType' = [OSEventType EXCEPT ![arg[t]] = "UNUSED"]
         /\ arg[t] \in Event /\ OSEventType[arg[t]] # "UNUSED"
         /\ pc[t] \in Regions /\ pc'[t] \in {"user", "sched"}
         /\ \A u \in Task \ {t} : pc'[u] = pc[u] /\ arg'[u] = arg[u]
  <1>0. PICK e \in Event : e = arg[t]
    BY AtBox, Labels DEF MboxDel, QDel
  <1>1. PICK l \in {"mboxDel", "qDel"} : At(t, l) /\ (l = "mboxDel" <=> MboxDel(t, opt))
    BY DEF MboxDel, QDel, At
  <1>2. /\ pc[t] = l /\ l \in Regions /\ OSEventType[e] = TypeOf(l) /\ l \in Calls
        /\ TypeOf(l) = IF l = "qDel" THEN "Q" ELSE "MBOX"
        /\ Inside(e) = {t} /\ BoxFree(t, opt) /\ UNCHANGED <<cpuVars, tblVars>>
        /\ OSQ' = OSQ
    BY <1>0, <1>1, AtBox, Labels DEF MboxDel, QDel, qVars
  <1>3. Return(t) \/ Reschedule(t)
    BY <1>2 DEF BoxFree
  <1>4. /\ pc'[t] \in {"user", "sched"} /\ Fades
        /\ \A u \in Task \ {t} : pc'[u] = pc[u] /\ arg'[u] = arg[u]
        /\ GoesOn(t, "user", None) \/ GoesOn(t, "sched", None)
    BY <1>1, <1>2, <1>3, AtIs, ReturnFades DEF IInv
  <1>5. CASE opt = "OS_DEL_NO_PEND" /\ OSEventTbl[e] # {}
    <2>1. /\ Return(t) /\ UNCHANGED <<OSRdyTbl, tcbVars, OSEventTbl, OSEventType>>
          /\ UNCHANGED <<OSEventFreeList, OSEventPtr, OSTCBMsg>>
      BY <1>0, <1>2, <1>5 DEF BoxFree, boxVars
    <2>2. OSQFreeList' = OSQFreeList
      BY <1>0, <1>5 DEF MboxDel, QDel, qVars
    <2>3. KInv'
      <3>1. GoesOn(t, "user", None)
        BY <1>1, <1>2, <2>1, AtIs DEF IInv
      <3>2. TypesKept
        BY <2>1 DEF TypesKept
      <3> QED
        BY <1>2, <2>1, <3>1, <3>2, GoesOnCore DEF IInv
    <2>4. BoxType' /\ RingOK' /\ QuietBox
      BY <1>2, <1>4, <2>1, <2>2 DEF IInv, MInv, BoxType, RingOK, QuietBox
    <2>5. IInv'
      BY <2>3, <2>4, QuietM DEF IInv
    <2> QED
      BY <1>0, <1>2, <1>4, <2>1, <2>4, <2>5
  <1>6. CASE ~(opt = "OS_DEL_NO_PEND" /\ OSEventTbl[e] # {})
    <2> DEFINE W == OSEventTbl[e]
    <2>1. /\ EventTaskRdy(e, W, OSEventType[e])
          /\ OSTCBMsg' = [p \in Task |-> IF p \in W THEN None ELSE OSTCBMsg[p]]
          /\ OSEventType' = [OSEventType EXCEPT ![e] = "UNUSED"]
          /\ OSEventPtr' = [OSEventPtr EXCEPT ![e] = OSEventFreeList]
          /\ OSEventFreeList' = e
      BY <1>0, <1>2, <1>6 DEF BoxFree
    <2>2. Owns(e) <=> l = "qDel"
      BY <1>2 DEF Owns, IInv, MInv, FillOK, Filling
    <2>3. OSQFreeList' = IF Owns(e) THEN OSQFreeList \cup {OSEventPtr[e]} ELSE OSQFreeList
      BY <1>0, <1>1, <1>2, <1>6, <2>2 DEF MboxDel, QDel, qVars
    <2>4. OSEventTbl' = [OSEventTbl EXCEPT ![e] = {}]
      BY <2>1 DEF EventTaskRdy, IInv, KInv, CoreType
    <2>5. KInv'
      <3>1. TypesKept
        BY <2>1, <2>4 DEF TypesKept, IInv, KInv, CoreType, MInv, BoxType
      <3>2. W \in SUBSET Task /\ W \subseteq OSEventTbl[e] /\ OSEventType[e] \in {"MBOX", "Q"}
        BY <1>2 DEF IInv, KInv, CoreType
      <3> QED
        BY <1>2, <1>4, <2>1, <3>1, <3>2, RdyCore DEF IInv
    <2>6. \A u \in Task : /\ Filling(u)' <=> Filling(u)
                          /\ Filling(u) => arg'[u] = arg[u] /\ arg[u] # e
                          /\ pc'[u] = "qFill" <=> pc[u] = "qFill"
                          /\ pc'[u] \in Regions => pc'[u] = pc[u] /\ arg'[u] = arg[u] /\ arg[u] # e
      <3>1. \A u \in Task : pc[u] \in Regions /\ arg[u] = e => u = t
        BY <1>2 DEF Inside
      <3>2. \A u \in Task : Filling(u) => arg[u] # e
        BY <1>2 DEF IInv, MInv, FillOK
      <3> QED
        BY <1>2, <1>4, <3>1, <3>2 DEF Filling, Regions
    <2>7. /\ OSEventType'[e] = "UNUSED" /\ OSEventPtr'[e] = OSEventFreeList
          /\ \A x \in Event : x # e => /\ OSEventType'[x] = OSEventType[x]
                                       /\ OSEventPtr'[x] = OSEventPtr[x]
      BY <2>1 DEF IInv, MInv, BoxType
    <2>8. e \notin Spare /\ Spare' = Spare \cup {e}
      <3>1. e \notin Spare
        BY <1>2 DEF Spare
      <3>2. \A x \in Event : x \in Spare' <=> x \in Spare \/ x = e
        BY <2>6, <2>7 DEF Spare
      <3> QED
        BY <3>1, <3>2 DEF Spare
    <2>9. SpareGiven(e)
      BY <2>1, <2>7, <2>8 DEF SpareGiven, Spare
    <2>10. \A x \in Event : Owns(x)' <=> Owns(x) /\ x # e
      BY <2>6, <2>7 DEF Owns, Filling
    <2>11. BoxType' /\ RingOK' /\ MboxOK'
      <3>1. Owns(e) => OSEventPtr[e] \in Qcb
        BY DEF IInv, MInv, OwnOK
      <3> QED
        BY <1>2, <2>1, <2>3, <2>7, <3>1 DEF IInv, MInv, BoxType, RingOK, MboxOK
    <2>12. RegionOK'
      <3> SUFFICES ASSUME NEW u \in Task, pc'[u] \in Regions
                   PROVE  OSEventType'[arg'[u]] = TypeOf(pc'[u])
        BY DEF RegionOK
      <3>1. arg[u] \in Event /\ arg[u] # e /\ pc'[u] = pc[u] /\ arg'[u] = arg[u]
        BY <2>6 DEF IInv, KInv, ArgOK, OnBox
      <3> QED
        BY <2>7, <3>1 DEF IInv, MInv, RegionOK
    <2>13. FillOK'
      <3>1. \A u \in Task : Filling(u)' => arg[u] \in Event
        BY <2>6 DEF IInv, KInv, ArgOK, OnBox
      <3> QED
        BY <2>6, <2>7, <3>1 DEF IInv, MInv, FillOK
    <2>14. OwnOK'
      <3>1. \A x \in Event : Owns(x)' => /\ Owns(x) /\ OSEventPtr'[x] = OSEventPtr[x]
                                         /\ Owns(e) => OSEventPtr[x] # OSEventPtr[e]
        BY <2>7, <2>10 DEF IInv, MInv, OwnOK
      <3>2. \A x \in Event : Owns(x)' => OSEventPtr'[x] \in Qcb \ OSQFreeList'
        BY <2>3, <3>1 DEF IInv, MInv, OwnOK
      <3> QED
        BY <3>1, <3>2 DEF IInv, MInv, OwnOK
    <2>15. FreeOK'
      BY <2>9, FreeOKKept DEF IInv
    <2>16. IInv'
      BY <2>5, <2>11, <2>12, <2>13, <2>14, <2>15 DEF IInv, MInv
    <2> QED
      BY <1>0, <1>2, <1>4, <2>1, <2>3, <2>4, <2>7, <2>9, <2>10, <2>16
  <1> QED
    BY <1>5, <1>6

-----------------------------------------------------------------------------
LEMMA InitK == Init => KInv
  <1> SUFFICES ASSUME Init PROVE KInv
    OBVIOUS
  <1>1. Boot \subseteq Task /\ Idle \in Boot
    BY CoreAssumption
  <1>2. Highest(Boot) \in Boot
    BY <1>1, HighestIn
  <1>3. CoreType
    <2>1. OSTCBPrioTbl \in [Task -> {"free", "reserved", "used"}]
      BY DEF Init, CoreInit
    <2>2. OSRdyTbl \subseteq Task /\ OSPrioCur \in Task /\ OSTCBFree \in Nat
          /\ OSTCBDly \in [Task -> 0 .. MaxDly]
      BY <1>1, <1>2, CoreAssumption DEF Init, CoreInit
    <2> QED
      BY <2>1, <2>2 DEF Init, CoreInit, CoreType, Label
  <1>4. NestingOK /\ IdleOK /\ DelOK /\ DeadOK /\ PendOK /\ CurOK /\ WaitListed /\ ReadyExact
    BY <1>1, <1>2, CoreAssumption
    DEF Init, CoreInit, NestingOK, IdleOK, DelOK, DeadOK, PendOK, CurOK, WaitListed, ReadyExact,
        Used, BeingDeleted, Leaving, InPend
  <1>5. \A t \in Task : ~OnBox(t) /\ ~Creating(t) /\ pc[t] # "tcbFree"
    BY DEF Init, CoreInit, OnBox, InPend, Filling, Creating, Regions
  <1>6. ArgOK /\ CreateOK
    BY <1>5 DEF ArgOK, CreateOK
  <1> QED
    BY <1>3, <1>4, <1>6 DEF KInv

LEMMA InitM == Init => IInv /\ AllFree
  <1> SUFFICES ASSUME Init PROVE IInv /\ AllFree
    OBVIOUS
  <1>1. KInv
    BY InitK
  <1>2. \A t \in Task : ~Filling(t) /\ pc[t] \notin Regions /\ pc[t] # "qFill"
    BY DEF Init, CoreInit, Filling, Regions
  <1>3. Spare = Event \ (MboxInit \cup QInit)
    BY <1>2 DEF Init, InitType, Spare
  <1>4. \A e \in Event : /\ Owns(e) <=> e \in QInit
                         /\ OSEventType[e] = "MBOX" <=> e \in MboxInit
    BY <1>2, MsgAssumption DEF Init, InitType, Owns
  <1>5. FreeOK
    BY <1>3 DEF Init, FreeOK
  <1>6. OSQ \in [Qcb -> [In : Slot, Out : Slot, Entries : 0 .. QSize, Tbl : [Slot -> Msg]]]
        /\ RingOK
    <2>1. PICK m \in Msg : OSQ = [q \in Qcb |-> NewRing([i \in Slot |-> m])]
      BY DEF Init
    <2> DEFINE tbl == [i \in Slot |-> m]
    <2>2. tbl \in [Slot -> Msg]
      OBVIOUS
    <2>3. \A q \in Qcb : OSQ[q] = NewRing(tbl)
      BY <2>1
    <2>4. RingType(NewRing(tbl)) /\ RingAt(NewRing(tbl))
      BY <2>2, NewRingOK
    <2> HIDE DEF tbl
    <2>5. \A q \in Qcb : RingType(OSQ[q]) /\ RingAt(OSQ[q])
      BY <2>3, <2>4
    <2> QED
      BY <2>1, <2>5 DEF RingType, RingAt, RingOK
  <1>7. BoxType
    BY <1>6 DEF Init, BoxType, InitType
  <1>8. RegionOK /\ FillOK
    BY <1>2 DEF RegionOK, FillOK
  <1>9. OwnOK
    BY <1>4 DEF Init, OwnOK
  <1>10. MboxOK
    BY <1>4 DEF Init, MboxOK
  <1>11. AllFree
    <2>1. {f \in Event : Owns(f)} = QInit
      BY <1>4, MsgAssumption
    <2> QED
      BY <1>3, <2>1 DEF Init, AllFree
  <1> QED
    BY <1>1, <1>5, <1>6, <1>7, <1>8, <1>9, <1>10, <1>11 DEF IInv, MInv

LEMMA StutterM ==
  ASSUME IInv, UNCHANGED vars
  PROVE  IInv' /\ QuietBox
  <1>1. /\ UNCHANGED <<OSRdyTbl, cpuVars, tblVars, tcbVars, OSEventTbl, pc, arg>>
        /\ UNCHANGED <<OSEventType, OSEventFreeList, OSQFreeList, OSEventPtr, OSQ, OSTCBMsg>>
    BY DEF vars, coreVars, msgVars, boxVars, qVars
  <1>2. KInv'
    BY <1>1, StutterCore DEF TypesKept, IInv
  <1>3. BoxType' /\ RingOK' /\ QuietBox
    BY <1>1 DEF IInv, MInv, BoxType, RingOK, QuietBox, Fades
  <1> QED
    BY <1>2, <1>3, QuietM DEF IInv

(* Every step is one of those proved about above. *)
LEMMA NextStep == IInv /\ [Next]_vars => IInv'
  <1> SUFFICES ASSUME IInv, [Next]_vars PROVE IInv'
    OBVIOUS
  <1>1. CASE CoreNext /\ CreatedNoMsg /\ UNCHANGED <<boxVars, OSEventPtr, qVars>>
    BY <1>1, CoreStepM
  <1>2. ASSUME NEW e \in IrqEvent, NEW m \in Msg, IrqMsgPost(e, m) PROVE IInv'
    BY <1>2, IrqPostStep
  <1>3. ASSUME NEW t \in Task, MsgKernel(t) PROVE IInv'
    BY <1>3, TakeStep, PendedStep, QcbTakeStep, QCreateStep, WaitStep, TaskPostStep,
       MboxCreateStep, BoxDelStep DEF MsgKernel
  <1>4. ASSUME NEW t \in Task, BoxTake(t, "mboxInit") \/ BoxTake(t, "qcbTake") PROVE IInv'
    BY <1>4, BoxTakeStep
  <1>5. ASSUME NEW t \in Task, NEW f \in Regions, NEW e \in Event, MsgCall(t, f, e) PROVE IInv'
    BY <1>5, MsgCallStep
  <1>6. CASE UNCHANGED vars
    BY <1>6, StutterM
  <1> QED
    BY <1>1, <1>2, <1>3, <1>4, <1>5, <1>6 DEF Next

(***************************************************************************)
(* The invariant holds whatever the tasks and the interrupt handlers call, *)
(* post, delete and suspend.                                               *)
(***************************************************************************)
THEOREM BoxInvariant == Spec => []IInv
  <1>1. Init => IInv
    BY InitM
  <1> QED
    BY <1>1, NextStep, PTL DEF Spec

(* OsMsg.tla TypeOK: the variables of the kernel and the boxes keep their  *)
(* types.                                                                  *)
THEOREM BoxTypes == Spec => []TypeOK
  <1>1. IInv => TypeOK
    BY DEF IInv, KInv, CoreType, MInv, BoxType, TypeOK, Stat, Pend
  <1> QED
    BY <1>1, BoxInvariant, PTL

-----------------------------------------------------------------------------
(* Nothing is lost, unless a task is deleted while it fills in a block.    *)
NoFillerDeleted == \A t \in Task : pc[t] = "tcbFree" => ~Filling(arg[t])

LEMMA QuietFree ==
  ASSUME IInv, AllFree, QuietBox,
         \A u \in Task : Filling(u) => pc'[u] = pc[u] /\ arg'[u] = arg[u]
  PROVE  AllFree'
  <1>1. \A u \in Task : /\ Filling(u)' <=> Filling(u)
                        /\ Filling(u) => pc'[u] = pc[u] /\ arg'[u] = arg[u]
                        /\ pc'[u] = "qFill" <=> pc[u] = "qFill"
    BY DEF QuietBox, Fades, Calls, Filling
  <1>2. Spare' = Spare
    BY <1>1 DEF Spare, QuietBox
  <1>3. SpareKept
    BY QuietSpare DEF IInv
  <1>4. \A e \in Event : (Owns(e)' <=> Owns(e)) /\ (Owns(e) => OSEventPtr'[e] = OSEventPtr[e])
    <2>1. \A e \in Event : Owns(e)' <=> Owns(e)
      BY <1>1 DEF Owns, QuietBox, Filling
    <2>2. \A e \in Event : Owns(e) => OSEventType[e] # "MBOX"
      BY DEF Owns, IInv, MInv, FillOK, Filling
    <2> QED
      BY <2>1, <2>2 DEF QuietBox
  <1>5. {OSEventPtr[e] : e \in {f \in Event : Owns(f)}}'
          = {OSEventPtr[e] : e \in {f \in Event : Owns(f)}}
    BY <1>4
  <1> QED
    BY <1>2, <1>3, <1>5, ListKept DEF AllFree, QuietBox

LEMMA OtherFillers ==
  ASSUME KInv, NEW t \in Task, ~Filling(t), NEW l, NEW a, Goto(t, l, a)
  PROVE  \A u \in Task : Filling(u) => pc'[u] = pc[u] /\ arg'[u] = arg[u]
  BY DEF KInv, CoreType, Goto

(* The OS_Qs in use. *)
InUse == {OSEventPtr[e] : e \in {f \in Event : Owns(f)}}

LEMMA FreeStep == IInv /\ AllFree /\ NoFillerDeleted /\ [Next]_vars => AllFree'
  <1> SUFFICES ASSUME IInv, AllFree, NoFillerDeleted, [Next]_vars PROVE AllFree'
    OBVIOUS
  <1>0. ASSUME OSQFreeList' = Qcb \ InUse',
               \/ SpareKept /\ Spare' = Spare
               \/ SpareTaken
               \/ \E e \in Event : SpareGiven(e)
        PROVE  AllFree'
    BY <1>0, ListKept DEF AllFree, InUse
  <1>q. OSQFreeList = Qcb \ InUse
    BY DEF AllFree, InUse
  <1>1. CASE CoreNext /\ CreatedNoMsg /\ UNCHANGED <<boxVars, OSEventPtr, qVars>>
    <2>1. \A u \in Task : Filling(u) => pc'[u] = pc[u] /\ arg'[u] = arg[u]
      BY <1>1, CoreFades DEF IInv, NoFillerDeleted, Filling, Calls
    <2> QED
      BY <1>1, <2>1, CoreStepM, QuietFree
  <1>2. ASSUME NEW e \in IrqEvent, NEW m \in Msg, IrqMsgPost(e, m) PROVE AllFree'
    BY <1>2, IrqPostStep, QuietFree
  <1>3. ASSUME NEW t \in Task,
               \/ MboxTake(t) \/ QTake(t) \/ QAcceptNone(t) \/ OSQFlush(t) \/ MsgPended(t)
               \/ \E n \in 0 .. MaxDly : MsgWait(t, n)
        PROVE  AllFree'
    <2>1. pc[t] \in Regions \cup {"pended"} /\ \E l, a : Goto(t, l, a)
      BY <1>3, Labels
      DEF MboxTake, QTake, QAcceptNone, OSQFlush, MsgPended, MsgWait, Return, At
    <2>2. ~Filling(t)
      BY <2>1 DEF Filling, Regions
    <2>3. QuietBox
      BY <1>3, TakeStep, PendedStep, WaitStep
    <2> QED
      BY <2>1, <2>2, <2>3, OtherFillers, QuietFree DEF IInv
  <1>4. ASSUME NEW t \in Task, NEW m \in Msg,
               \/ OSQPost(t, m) \/ OSQPostFront(t, m)
               \/ \E o \in PostOpts \cup {{}} : MboxPost(t, m, o)
               \/ \E o \in PostOpts : OSQPostOpt(t, m, o)
        PROVE  AllFree'
    <2>1. /\ QuietBox /\ pc[t] \in Regions
          /\ \A u \in Task \ {t} : pc'[u] = pc[u] /\ arg'[u] = arg[u]
      BY <1>4, TaskPostStep
    <2>2. ~Filling(t)
      BY <2>1 DEF Filling, Regions
    <2> QED
      BY <2>1, <2>2, QuietFree
  <1>5. ASSUME NEW t \in Task,
               QCreate(t) \/ \E m \in Msg \cup {None} : MboxCreate(t, m)
        PROVE  AllFree'
    <2>1. /\ SpareKept /\ Spare' = Spare /\ OSQFreeList' = OSQFreeList
          /\ \A x \in Event : (Owns(x)' <=> Owns(x)) /\ (Owns(x) => OSEventPtr'[x] = OSEventPtr[x])
      BY <1>5, QCreateStep, MboxCreateStep
    <2>2. InUse' = InUse
      BY <2>1 DEF InUse
    <2> QED
      BY <1>0, <1>q, <2>1, <2>2
  <1>6. ASSUME NEW t \in Task, QcbTake(t) PROVE AllFree'
    <2>1. CASE /\ SpareKept /\ Spare' = Spare
               /\ \E q \in OSQFreeList :
                    /\ OSQFreeList' = OSQFreeList \ {q} /\ OSEventPtr'[arg[t]] = q
                    /\ \A x \in Event : Owns(x)' <=> Owns(x) \/ x = arg[t]
      <3>1. PICK q \in OSQFreeList :
                    /\ OSQFreeList' = OSQFreeList \ {q} /\ OSEventPtr'[arg[t]] = q
                    /\ \A x \in Event : Owns(x)' <=> Owns(x) \/ x = arg[t]
        BY <2>1
      <3>2. /\ \A x \in Event : x # arg[t] => OSEventPtr'[x] = OSEventPtr[x]
            /\ ~Owns(arg[t]) /\ arg[t] \in Event
        BY <1>6, QcbTakeStep
      <3>3. InUse' = InUse \cup {q}
        BY <3>1, <3>2 DEF InUse
      <3> QED
        BY <1>0, <1>q, <2>1, <3>1, <3>3
    <2>2. CASE /\ SpareGiven(arg[t]) /\ OSQFreeList' = OSQFreeList
               /\ \A x \in Event : Owns(x)' <=> Owns(x)
      <3>1. /\ \A x \in Event : x # arg[t] => OSEventPtr'[x] = OSEventPtr[x]
            /\ ~Owns(arg[t]) /\ arg[t] \in Event
        BY <1>6, QcbTakeStep
      <3>2. InUse' = InUse
        BY <2>2, <3>1 DEF InUse
      <3> QED
        BY <1>0, <1>q, <2>2, <3>1, <3>2
    <2> QED
      BY <1>6, <2>1, <2>2, QcbTakeStep
  <1>7. ASSUME NEW t \in Task, NEW opt \in DelOpts, MboxDel(t, opt) \/ QDel(t, opt)
        PROVE  AllFree'
    <2>1. /\ arg[t] \in Event /\ pc[t] \in Regions
          /\ \A u \in Task \ {t} : pc'[u] = pc[u] /\ arg'[u] = arg[u]
      BY <1>7, BoxDelStep
    <2>2. CASE QuietBox
      <3>1. ~Filling(t)
        BY <2>1 DEF Filling, Regions
      <3> QED
        BY <2>1, <2>2, <3>1, QuietFree
    <2>3. CASE ~QuietBox
      <3>1. /\ SpareGiven(arg[t])
            /\ \A x \in Event : Owns(x)' <=> Owns(x) /\ x # arg[t]
            /\ \A x \in Event : x # arg[t] => OSEventPtr'[x] = OSEventPtr[x]
            /\ OSQFreeList' = IF Owns(arg[t]) THEN OSQFreeList \cup {OSEventPtr[arg[t]]}
                                              ELSE OSQFreeList
        BY <1>7, <2>3, BoxDelStep
      <3>2. CASE Owns(arg[t])
        <4>1. InUse' = InUse \ {OSEventPtr[arg[t]]}
          BY <2>1, <3>1, <3>2 DEF InUse, IInv, MInv, OwnOK
        <4>2. OSEventPtr[arg[t]] \in Qcb
          BY <2>1, <3>2 DEF IInv, MInv, OwnOK
        <4>3. OSQFreeList' = Qcb \ InUse'
          BY <1>q, <3>1, <3>2, <4>1, <4>2
        <4> QED
          BY <1>0, <2>1, <3>1, <4>3
      <3>3. CASE ~Owns(arg[t])
        <4>1. InUse' = InUse
          BY <3>1, <3>3 DEF InUse
        <4> QED
          BY <1>0, <1>q, <2>1, <3>1, <3>3, <4>1
      <3> QED
        BY <3>2, <3>3
    <2> QED
      BY <2>2, <2>3
  <1>8. ASSUME NEW t \in Task, BoxTake(t, "mboxInit") \/ BoxTake(t, "qcbTake") PROVE AllFree'
    <2>1. SpareTaken /\ \A x \in Event : Owns(x)' <=> Owns(x)
      BY <1>8, BoxTakeStep
    <2>2. OSQFreeList' = OSQFreeList /\ OSEventPtr' = OSEventPtr
      BY <1>8 DEF BoxTake, qVars
    <2>3. InUse' = InUse
      BY <2>1, <2>2 DEF InUse
    <2> QED
      BY <1>0, <1>q, <2>1, <2>2, <2>3
  <1>9. ASSUME NEW t \in Task, NEW f \in Regions, NEW e \in Event, MsgCall(t, f, e) PROVE AllFree'
    <2>1. Spare' = Spare /\ \A x \in Event : Owns(x)' <=> Owns(x)
      BY <1>9, MsgCallStep
    <2>2. UNCHANGED <<OSQFreeList, OSEventPtr, OSEventFreeList>>
      BY <1>9 DEF MsgCall, msgVars, boxVars, qVars
    <2>3. InUse' = InUse /\ SpareKept
      BY <2>1, <2>2 DEF InUse, SpareKept
    <2> QED
      BY <1>0, <1>q, <2>1, <2>2, <2>3
  <1>10. CASE UNCHANGED vars
    <2>1. UNCHANGED <<pc, arg>>
      BY <1>10 DEF vars, coreVars
    <2> QED
      BY <1>10, <2>1, StutterM, QuietFree
  <1> QED
    BY <1>1, <1>2, <1>3, <1>4, <1>5, <1>6, <1>7, <1>8, <1>9, <1>10 DEF Next, MsgKernel

-----------------------------------------------------------------------------
(* From the list as it is linked to FreeBlocks, the blocks met on the way. *)

LEMMA SetInduction ==
  ASSUME NEW S, 0 \in S, \A n \in Nat : n \in S => n + 1 \in S
  PROVE  Nat \subseteq S
  <1> SUFFICES ASSUME Nat \ S # {} PROVE FALSE
    OBVIOUS
  <1>1. PICK n \in Nat \ S : \A k \in Nat \ S : <<k, n>> \notin OpToRel(<, Nat)
    BY WFMin, NatLessThanWellFounded
  <1>2. \A k \in Nat : k < n => k \in S
    BY <1>1 DEF OpToRel
  <1>3. n # 0
    OBVIOUS
  <1>4. n - 1 \in Nat /\ n - 1 < n /\ (n - 1) + 1 = n
    BY <1>3
  <1> QED
    BY <1>2, <1>4

(* A list without repetitions, as long as its set is large, has all of it. *)
LEMMA ListAll ==
  ASSUME NEW S, IsFiniteSet(S), NEW n, n = Cardinality(S), NEW f \in [1 .. n -> S],
         \A i, j \in 1 .. n : i # j => f[i] # f[j]
  PROVE  S = {f[i] : i \in 1 .. n}
  <1>1. n \in Nat /\ IsFiniteSet(1 .. n) /\ Cardinality(1 .. n) = n
    <2>1. n \in Nat
      BY FS_CardinalityType
    <2> QED
      BY <2>1, FS_Interval
  <1>2. f \in Injection(1 .. n, S)
    BY DEF Injection, IsInjective
  <1>3. f \in Surjection(1 .. n, S)
    BY <1>1, <1>2, FS_Injection
  <1> QED
    BY <1>3 DEF Surjection

LEMMA FreeBlocksAre ==
  ASSUME NEW S \in SUBSET Event, FreeListOf(S, OSEventFreeList, OSEventPtr)
  PROVE  FreeBlocks = S
  <1> DEFINE n == Cardinality(Event)
             k == Cardinality(S)
             next(x) == IF x \in Event THEN OSEventPtr[x] ELSE None
             Q(m) == m = [i \in 0 .. n |-> IF i = 0 THEN OSEventFreeList
                                           ELSE IF m[i - 1] \in Event THEN OSEventPtr[m[i - 1]]
                                           ELSE None]
             at == CHOOSE m : Q(m)
  <1>1. n \in Nat /\ k \in Nat /\ k <= n /\ IsFiniteSet(S)
    BY CoreAssumption, EventFinite, FS_Subset
  <1>2. PICK f \in [1 .. k -> S] :
          /\ \A i, j \in 1 .. k : i # j => f[i] # f[j]
          /\ OSEventFreeList = IF k = 0 THEN None ELSE f[1]
          /\ \A i \in 1 .. k : OSEventPtr[f[i]] = IF i = k THEN None ELSE f[i + 1]
    BY DEF FreeListOf
  <1>3. FreeBlocks = {at[i] : i \in 0 .. n} \ {None}
    BY DEF FreeBlocks
  <1>4. S = {f[i] : i \in 1 .. k}
    <2> HIDE DEF k
    <2>1. k = Cardinality(S)
      BY DEF k
    <2> QED
      BY <1>1, <1>2, <2>1, ListAll
  <1> DEFINE c == [i \in 0 .. n |-> IF i < k THEN f[i + 1] ELSE None]
  <1> HIDE DEF n, k
  <1>5. ASSUME NEW i \in 0 .. n
        PROVE  c[i] = IF i = 0 THEN OSEventFreeList
                      ELSE IF c[i - 1] \in Event THEN OSEventPtr[c[i - 1]] ELSE None
    <2>1. CASE i = 0
      BY <1>1, <1>2, <2>1
    <2>2. CASE i # 0 /\ i - 1 < k
      <3>1. i \in 1 .. k /\ c[i - 1] = f[i] /\ f[i] \in Event
        BY <1>1, <1>2, <2>2
      <3>2. OSEventPtr[f[i]] = IF i = k THEN None ELSE f[i + 1]
        BY <1>2, <3>1
      <3>3. c[i] = IF i = k THEN None ELSE f[i + 1]
        BY <1>1, <3>1
      <3> QED
        BY <2>2, <3>1, <3>2, <3>3
    <2>3. CASE i # 0 /\ ~(i - 1 < k)
      <3>1. c[i - 1] = None /\ c[i] = None
        BY <1>1, <2>3
      <3> QED
        BY <2>3, <3>1, CoreAssumption
    <2> QED
      BY <2>1, <2>2, <2>3
  <1>6. Q(c)
    <2>1. c = [i \in 0 .. n |-> c[i]]
      OBVIOUS
    <2> HIDE DEF c
    <2> QED
      BY <1>5, <2>1
  <1>7. Q(at)
    <2> HIDE DEF Q, c
    <2> QED
      BY <1>6
  <1> HIDE DEF at
  <1>8. \A i \in 0 .. n : at[i] = c[i]
    <2> DEFINE T == {i \in Nat : i <= n => at[i] = c[i]}
    <2>0. 0 \in 0 .. n
      BY <1>1
    <2>4. at[0] = OSEventFreeList /\ c[0] = OSEventFreeList
      <3>1. at[0] = OSEventFreeList
        BY <1>7, <2>0
      <3> HIDE DEF c
      <3>2. c[0] = OSEventFreeList
        BY <1>5, <2>0
      <3> QED
        BY <3>1, <3>2
    <2>1. 0 \in T
      BY <2>4
    <2>2. ASSUME NEW i \in Nat, i \in T PROVE i + 1 \in T
      <3> SUFFICES ASSUME i + 1 <= n PROVE at[i + 1] = c[i + 1]
        OBVIOUS
      <3>1. i + 1 \in 0 .. n /\ i + 1 # 0 /\ (i + 1) - 1 = i /\ at[i] = c[i]
        BY <1>1, <2>2
      <3>2. at[i + 1] = IF at[i] \in Event THEN OSEventPtr[at[i]] ELSE None
        BY <1>7, <3>1
      <3>3. c[i + 1] = IF c[i] \in Event THEN OSEventPtr[c[i]] ELSE None
        <4> HIDE DEF c
        <4> QED
          BY <1>5, <3>1
      <3> QED
        BY <3>1, <3>2, <3>3
    <2>3. Nat \subseteq T
      <3> HIDE DEF T
      <3> QED
        BY <2>1, <2>2, SetInduction
    <2>5. \A i \in 0 .. n : i \in T
      <3> HIDE DEF T
      <3> QED
        BY <1>1, <2>3
    <2>6. \A i \in T : i <= n => at[i] = c[i]
      <3> HIDE DEF c
      <3> QED
        OBVIOUS
    <2>7. \A i \in 0 .. n : i <= n
      BY <1>1
    <2> HIDE DEF c, T
    <2> QED
      BY <2>5, <2>6, <2>7
  <1>9. {at[i] : i \in 0 .. n} = {c[i] : i \in 0 .. n}
    BY <1>8
  <1>10. {c[i] : i \in 0 .. n} \ {None} = {f[i] : i \in 1 .. k}
    <2>1. ASSUME NEW i \in 0 .. n, c[i] # None PROVE c[i] \in {f[j] : j \in 1 .. k}
      <3>1. i + 1 \in 1 .. k /\ c[i] = f[i + 1]
        BY <1>1, <2>1
      <3> QED
        BY <3>1
    <2>2. ASSUME NEW j \in 1 .. k PROVE f[j] \in {c[i] : i \in 0 .. n} \ {None}
      <3>1. j - 1 \in 0 .. n /\ c[j - 1] = f[j]
        BY <1>1
      <3>2. f[j] # None
        BY <1>2, CoreAssumption
      <3> QED
        BY <3>1, <3>2
    <2> HIDE DEF c
    <2> QED
      BY <2>1, <2>2
  <1> QED
    BY <1>3, <1>4, <1>9, <1>10

LEMMA FreeIsConserved == IInv /\ AllFree => BlocksConserved
  <1> SUFFICES ASSUME IInv, AllFree PROVE BlocksConserved
    OBVIOUS
  <1> DEFINE filling(l) == {arg[t] : t \in {u \in Task : pc[u] \in l}}
             owned == {e \in Event : OSEventType[e] = "Q"} \cup filling({"qFill"})
  <1>1. TypeOK
    BY DEF IInv, KInv, CoreType, MInv, BoxType, TypeOK, Stat, Pend
  <1>2. owned = {e \in Event : Owns(e)}
    <2>1. \A t \in Task : pc[t] = "qFill" => arg[t] \in Event
      BY DEF IInv, KInv, ArgOK, OnBox, Filling
    <2> QED
      BY <2>1 DEF Owns
  <1>3. Spare = {e \in Event : OSEventType[e] = "UNUSED"}
                  \ filling({"mboxInit", "qcbTake", "qFill"})
    BY DEF Spare, Filling
  <1>4. FreeBlocks = Spare
    BY FreeBlocksAre DEF AllFree, Spare
  <1>5. \A e, f \in owned : e # f => OSEventPtr[e] # OSEventPtr[f]
    BY <1>2 DEF IInv, MInv, OwnOK
  <1>6. OSQFreeList = Qcb \ {OSEventPtr[e] : e \in owned}
    BY <1>2 DEF AllFree
  <1> QED
    BY <1>1, <1>3, <1>4, <1>5, <1>6 DEF BlocksConserved

(***************************************************************************)
(* However creations, failed creations and deletions interleave, an event  *)
(* block is in use, being filled in or on the free list, and an OS_Q is    *)
(* one queue's or free; only OSTaskDel of a task that is inside a creation *)
(* loses a block.                                                          *)
(***************************************************************************)
THEOREM BlocksAreConserved == Spec /\ []NoFillerDeleted => []BlocksConserved
  <1>1. Init => IInv /\ AllFree
    BY InitM
  <1>2. (IInv /\ AllFree) /\ NoFillerDeleted /\ [Next]_vars => (IInv /\ AllFree)'
    BY NextStep, FreeStep
  <1>3. IInv /\ AllFree => BlocksConserved
    BY FreeIsConserved
  <1> QED
    BY <1>1, <1>2, <1>3, PTL DEF Spec

-----------------------------------------------------------------------------
(* The ring as a sequence, oldest message first.                           *)
InRing(r) == [i \in 1 .. r.Entries |-> r.Tbl[(r.Out + i - 1) % QSize]]

Ith(o, i) == IF o + i - 1 < QSize THEN o + i - 1 ELSE o + i - 1 - QSize

LEMMA IthSlot ==
  ASSUME NEW o \in Slot, NEW n \in 0 .. QSize, NEW i \in 1 .. n
  PROVE  (o + i - 1) % QSize = Ith(o, i) /\ Ith(o, i) \in Slot
  <1>1. i - 1 \in 0 .. QSize /\ o + (i - 1) = o + i - 1
    BY MsgAssumption DEF Slot
  <1>2. (o + i - 1) % QSize = Ith(o, i)
    BY <1>1, AfterMod DEF Ith
  <1>3. Ith(o, i) \in Slot
    BY MsgAssumption DEF Slot, Ith
  <1> QED
    BY <1>2, <1>3

LEMMA InRingIs ==
  ASSUME NEW r, RingType(r)
  PROVE  /\ InRing(r) = [i \in 1 .. r.Entries |-> r.Tbl[Ith(r.Out, i)]]
         /\ InRing(r) \in Seq(Msg) /\ Len(InRing(r)) = r.Entries
         /\ \A i \in 1 .. r.Entries : Ith(r.Out, i) \in Slot
         /\ r.Entries = 0 <=> InRing(r) = << >>
  <1>1. r.Out \in Slot /\ r.Entries \in 0 .. QSize /\ r.Tbl \in [Slot -> Msg]
    BY RingAtAfter
  <1>2. \A i \in 1 .. r.Entries : /\ (r.Out + i - 1) % QSize = Ith(r.Out, i)
                                  /\ Ith(r.Out, i) \in Slot
    BY <1>1, IthSlot
  <1>3. InRing(r) = [i \in 1 .. r.Entries |-> r.Tbl[Ith(r.Out, i)]]
    BY <1>2 DEF InRing
  <1>4. \A i \in 1 .. r.Entries : r.Tbl[Ith(r.Out, i)] \in Msg
    BY <1>1, <1>2
  <1>5. InRing(r) \in [1 .. r.Entries -> Msg] /\ r.Entries \in Nat
    BY <1>1, <1>3, <1>4 DEF Slot
  <1>6. InRing(r) \in Seq(Msg) /\ Len(InRing(r)) = r.Entries
    <2> HIDE DEF InRing
    <2> QED
      BY <1>5
  <1>7. r.Entries = 0 <=> InRing(r) = << >>
    BY <1>5, <1>6, EmptySeq
  <1> QED
    BY <1>2, <1>3, <1>6, <1>7

LEMMA OutIsTail ==
  ASSUME NEW r, RingType(r), RingAt(r), r.Entries > 0
  PROVE  InRing(RingOut(r)) = Tail(InRing(r))
  <1> DEFINE out == IF r.Out + 1 = QSize THEN 0 ELSE r.Out + 1
             s == RingOut(r)
  <1>1. RingType(s)
    BY RingOutOK
  <1>2. s.Out = out /\ s.Entries = r.Entries - 1 /\ s.Tbl = r.Tbl
    BY DEF RingOut, RingType
  <1>3. r.Out \in Slot /\ r.Entries \in 1 .. QSize
    BY RingAtAfter
  <1>4. \A i \in 1 .. r.Entries - 1 : Ith(out, i) = Ith(r.Out, i + 1) /\ i + 1 \in 1 .. r.Entries
    BY <1>3, MsgAssumption DEF Ith, Slot
  <1> HIDE DEF out, s
  <1>5. \A i \in 1 .. r.Entries - 1 : InRing(s)[i] = InRing(r)[i + 1]
    <2>1. InRing(s) = [i \in 1 .. r.Entries - 1 |-> r.Tbl[Ith(out, i)]]
      BY <1>1, <1>2, InRingIs
    <2>2. InRing(r) = [i \in 1 .. r.Entries |-> r.Tbl[Ith(r.Out, i)]]
      BY InRingIs
    <2> QED
      BY <1>4, <2>1, <2>2
  <1>6. /\ InRing(r) \in Seq(Msg) /\ InRing(r) # << >> /\ Len(InRing(r)) = r.Entries
        /\ InRing(s) \in Seq(Msg) /\ Len(InRing(s)) = r.Entries - 1
    BY <1>1, <1>2, <1>3, InRingIs
  <1>7. /\ Tail(InRing(r)) \in Seq(Msg) /\ Len(Tail(InRing(r))) = r.Entries - 1
        /\ \A i \in 1 .. r.Entries - 1 : Tail(InRing(r))[i] = InRing(r)[i + 1]
    BY <1>6, HeadTailProperties
  <1>8. InRing(s) = Tail(InRing(r))
    BY <1>5, <1>6, <1>7, SeqEqual
  <1> QED
    BY <1>8 DEF s

LEMMA InIsAppend ==
  ASSUME NEW r, RingType(r), RingAt(r), r.Entries < QSize, NEW m \in Msg
  PROVE  InRing(RingIn(r, m)) = Append(InRing(r), m)
  <1> DEFINE s == RingIn(r, m)
  <1>1. RingType(s)
    BY RingInOK
  <1>2. s.Out = r.Out /\ s.Entries = r.Entries + 1 /\ s.Tbl = [r.Tbl EXCEPT ![r.In] = m]
    BY DEF RingIn, RingType
  <1>3. /\ r.Out \in Slot /\ r.Entries \in 0 .. QSize /\ r.In \in Slot
        /\ r.Tbl \in [Slot -> Msg] /\ After(r.In, r.Out, r.Entries)
    BY RingAtAfter
  <1>4. /\ Ith(r.Out, r.Entries + 1) = r.In
        /\ \A i \in 1 .. r.Entries : Ith(r.Out, i) # r.In
    BY <1>3, MsgAssumption DEF Ith, Slot, After
  <1> HIDE DEF s
  <1>5. InRing(s) = [i \in 1 .. r.Entries + 1 |-> s.Tbl[Ith(r.Out, i)]]
    <2>1. InRing(s) = [i \in 1 .. s.Entries |-> s.Tbl[Ith(s.Out, i)]]
      BY <1>1, InRingIs
    <2>2. s.Out = r.Out /\ s.Entries = r.Entries + 1
      BY <1>2
    <2> QED
      BY <2>1, <2>2
  <1>6. InRing(r) = [i \in 1 .. r.Entries |-> r.Tbl[Ith(r.Out, i)]]
        /\ \A i \in 1 .. r.Entries : Ith(r.Out, i) \in Slot
    BY InRingIs
  <1>7. /\ \A i \in 1 .. r.Entries : InRing(s)[i] = InRing(r)[i]
        /\ InRing(s)[r.Entries + 1] = m
    <2>1. \A i \in 1 .. r.Entries : i \in 1 .. r.Entries + 1
      BY <1>3
    <2>2. r.Entries + 1 \in 1 .. r.Entries + 1
      BY <1>3
    <2>3. \A i \in 1 .. r.Entries : InRing(s)[i] = InRing(r)[i]
      BY <1>2, <1>3, <1>4, <1>5, <1>6, <2>1
    <2>4. InRing(s)[r.Entries + 1] = m
      BY <1>2, <1>3, <1>4, <1>5, <2>2
    <2> QED
      BY <2>3, <2>4
  <1>8. /\ InRing(r) \in Seq(Msg) /\ Len(InRing(r)) = r.Entries
        /\ InRing(s) \in Seq(Msg) /\ Len(InRing(s)) = r.Entries + 1
    BY <1>1, <1>2, InRingIs
  <1>9. /\ Append(InRing(r), m) \in Seq(Msg) /\ Len(Append(InRing(r), m)) = r.Entries + 1
        /\ \A i \in 1 .. r.Entries : Append(InRing(r), m)[i] = InRing(r)[i]
        /\ Append(InRing(r), m)[r.Entries + 1] = m
    BY <1>8, AppendProperties
  <1>10. \A i \in 1 .. r.Entries + 1 : InRing(s)[i] = Append(InRing(r), m)[i]
    <2> SUFFICES ASSUME NEW i \in 1 .. r.Entries + 1
                 PROVE  InRing(s)[i] = Append(InRing(r), m)[i]
      OBVIOUS
    <2>1. i \in 1 .. r.Entries \/ i = r.Entries + 1
      BY <1>3
    <2> QED
      BY <1>7, <1>9, <2>1
  <1>11. InRing(s) = Append(InRing(r), m)
    BY <1>8, <1>9, <1>10, SeqEqual
  <1> QED
    BY <1>11 DEF s

LEMMA IthFront ==
  ASSUME NEW o \in Slot, NEW p \in Slot, p = IF o = 0 THEN QSize - 1 ELSE o - 1,
         NEW n \in 0 .. QSize, n < QSize
  PROVE  /\ Ith(p, 1) = p
         /\ \A i \in 1 .. n : Ith(p, i + 1) = Ith(o, i) /\ Ith(o, i) # p
  BY MsgAssumption DEF Ith, Slot

LEMMA FrontIsFirst ==
  ASSUME NEW r, RingType(r), RingAt(r), r.Entries < QSize, NEW m \in Msg
  PROVE  InRing(RingInFront(r, m)) = <<m>> \o InRing(r)
  <1> DEFINE out == IF r.Out = 0 THEN QSize - 1 ELSE r.Out - 1
             s == RingInFront(r, m)
  <1>1. RingType(s)
    BY RingInFrontOK
  <1>2. s.Out = out /\ s.Entries = r.Entries + 1 /\ s.Tbl = [r.Tbl EXCEPT ![out] = m]
    BY DEF RingInFront, RingType
  <1>3. /\ r.Out \in Slot /\ r.Entries \in 0 .. QSize /\ r.Tbl \in [Slot -> Msg]
    BY RingAtAfter
  <1>4. /\ Ith(out, 1) = out /\ out \in Slot
        /\ \A i \in 1 .. r.Entries : Ith(out, i + 1) = Ith(r.Out, i) /\ Ith(r.Out, i) # out
    <2>1. out \in Slot
      BY <1>3, MsgAssumption DEF Slot
    <2> QED
      BY <1>3, <2>1, IthFront
  <1> HIDE DEF s, out
  <1>5. InRing(s) = [i \in 1 .. r.Entries + 1 |-> s.Tbl[Ith(out, i)]]
    <2>1. InRing(s) = [i \in 1 .. s.Entries |-> s.Tbl[Ith(s.Out, i)]]
      BY <1>1, InRingIs
    <2>2. s.Out = out /\ s.Entries = r.Entries + 1
      BY <1>2
    <2> QED
      BY <2>1, <2>2
  <1>6. InRing(r) = [i \in 1 .. r.Entries |-> r.Tbl[Ith(r.Out, i)]]
        /\ \A i \in 1 .. r.Entries : Ith(r.Out, i) \in Slot
    BY InRingIs
  <1>7. /\ \A i \in 1 .. r.Entries : InRing(s)[i + 1] = InRing(r)[i]
        /\ InRing(s)[1] = m
    <2>1. \A i \in 1 .. r.Entries : i + 1 \in 1 .. r.Entries + 1
      BY <1>3
    <2>2. 1 \in 1 .. r.Entries + 1
      BY <1>3
    <2>3. \A i \in 1 .. r.Entries : InRing(s)[i + 1] = InRing(r)[i]
      BY <1>2, <1>3, <1>4, <1>5, <1>6, <2>1
    <2>4. InRing(s)[1] = m
      BY <1>2, <1>3, <1>4, <1>5, <2>2
    <2> QED
      BY <2>3, <2>4
  <1>8. /\ InRing(r) \in Seq(Msg) /\ Len(InRing(r)) = r.Entries
        /\ InRing(s) \in Seq(Msg) /\ Len(InRing(s)) = r.Entries + 1
    BY <1>1, <1>2, InRingIs
  <1> DEFINE one == <<m>>
  <1>9. one \in Seq(Msg) /\ Len(one) = 1 /\ one[1] = m
    OBVIOUS
  <1> HIDE DEF one
  <1>10. /\ one \o InRing(r) \in Seq(Msg) /\ Len(one \o InRing(r)) = 1 + r.Entries
         /\ \A i \in 1 .. 1 + r.Entries :
              (one \o InRing(r))[i] = IF i <= 1 THEN one[i] ELSE InRing(r)[i - 1]
    <2>1. /\ one \o InRing(r) \in Seq(Msg)
          /\ Len(one \o InRing(r)) = Len(one) + Len(InRing(r))
          /\ \A i \in 1 .. Len(one) + Len(InRing(r)) : (one \o InRing(r))[i] =
               IF i <= Len(one) THEN one[i] ELSE InRing(r)[i - Len(one)]
      BY <1>8, <1>9, ConcatProperties
    <2>2. Len(one) = 1 /\ Len(InRing(r)) = r.Entries
      BY <1>8, <1>9
    <2> QED
      BY <2>1, <2>2
  <1>11. \A i \in 1 .. r.Entries + 1 : InRing(s)[i] = (one \o InRing(r))[i]
    <2> SUFFICES ASSUME NEW i \in 1 .. r.Entries + 1
                 PROVE  InRing(s)[i] = (one \o InRing(r))[i]
      OBVIOUS
    <2>1. CASE i = 1
      BY <1>3, <1>7, <1>9, <1>10, <2>1
    <2>2. CASE i # 1
      <3>1. i - 1 \in 1 .. r.Entries /\ (i - 1) + 1 = i /\ ~(i <= 1) /\ i \in 1 .. 1 + r.Entries
        BY <1>3, <2>2
      <3> QED
        BY <1>7, <1>10, <3>1
    <2> QED
      BY <2>1, <2>2
  <1>12. InRing(s) = one \o InRing(r)
    <2>1. Len(InRing(s)) = Len(one \o InRing(r))
      BY <1>3, <1>8, <1>10
    <2> QED
      BY <1>8, <1>10, <1>11, <2>1, SeqEqual
  <1> QED
    BY <1>12 DEF s, one

-----------------------------------------------------------------------------
(* What is kept in a box. *)
LEMMA KeptIs ==
  ASSUME NEW e \in Event
  PROVE  /\ OSEventType[e] = "UNUSED" => Kept(e) = << >>
         /\ OSEventType[e] = "MBOX" =>
              Kept(e) = IF OSEventPtr[e] = None THEN << >> ELSE <<OSEventPtr[e]>>
         /\ OSEventType[e] = "Q" => Kept(e) = InRing(QueueOf(e))
  BY DEF Kept, InRing

LEMMA KeptIsNext ==
  ASSUME NEW e \in Event
  PROVE  /\ OSEventType'[e] = "UNUSED" => Kept(e)' = << >>
         /\ OSEventType'[e] = "MBOX" =>
              Kept(e)' = IF OSEventPtr'[e] = None THEN << >> ELSE <<OSEventPtr'[e]>>
         /\ OSEventType'[e] = "Q" => Kept(e)' = InRing(OSQ'[OSEventPtr'[e]])
  BY DEF Kept, InRing, QueueOf

LEMMA KeptSame ==
  ASSUME UNCHANGED <<OSEventType, OSEventPtr, OSQ>>
  PROVE  \A e \in Event : Kept(e)' = Kept(e)
  BY DEF Kept, QueueOf

LEMMA KeptOther ==
  ASSUME NEW e \in Event, OSEventType'[e] = OSEventType[e],
         OSEventType[e] # "UNUSED" => OSEventPtr'[e] = OSEventPtr[e],
         OSEventType[e] = "Q" => OSQ'[OSEventPtr[e]] = OSQ[OSEventPtr[e]]
  PROVE  Kept(e)' = Kept(e)
  BY DEF Kept, QueueOf

(* A ring that is set is the ring of one queue. *)
LEMMA KeptRing ==
  ASSUME IInv, NEW e \in Event, Owns(e), NEW r, SetRing(e, r),
         UNCHANGED OSEventPtr, OSEventType' = [OSEventType EXCEPT ![e] = "Q"]
  PROVE  /\ Kept(e)' = InRing(r)
         /\ \A f \in Event : f # e => Kept(f)' = Kept(f)
  <1>1. /\ OSEventPtr[e] \in Qcb /\ OSEventType'[e] = "Q"
        /\ \A f \in Event : f # e => OSEventType'[f] = OSEventType[f]
        /\ \A f \in Event : f # e /\ OSEventType[f] = "Q" =>
             OSEventPtr[f] \in Qcb /\ OSEventPtr[f] # OSEventPtr[e]
    BY DEF IInv, MInv, OwnOK, BoxType, Owns
  <1>2. /\ OSQ'[OSEventPtr[e]] = r
        /\ \A q \in Qcb : q # OSEventPtr[e] => OSQ'[q] = OSQ[q]
    BY <1>1 DEF SetRing, IInv, MInv, BoxType
  <1> QED
    BY <1>1, <1>2, KeptIsNext, KeptOther

-----------------------------------------------------------------------------
(* What the tasks inside pends have in hand.                               *)
Has(t, e) == InPend(t) /\ arg[t] = e /\ t \notin OSEventTbl[e] /\ ~BeingDeleted(t)

(* No pend begins or ends, and no deletion of a task inside one. *)
SamePends ==
  \A u \in Task : /\ InPend(u)' <=> InPend(u)
                  /\ InPend(u) => /\ arg'[u] = arg[u]
                                  /\ BeingDeleted(u)' <=> BeingDeleted(u)

SameMsgs == \A u \in Task : InPend(u) => OSTCBMsg'[u] = OSTCBMsg[u]

SameKept == \A e \in Event : Kept(e)' = Kept(e)

BoxStep == [Abstract!Next]_(Abstract!vars)

LEMMA HandedIs ==
  /\ Handed = [e \in Event |-> [t \in {u \in Task : Has(u, e)} |-> OSTCBMsg[t]]]
  /\ Handed' = [e \in Event |-> [t \in {u \in Task : Has(u, e)'} |-> OSTCBMsg'[t]]]
  /\ \A e \in Event : DOMAIN Handed[e] = {u \in Task : Has(u, e)}
  <1>1. \A e \in Event : {u \in Task : /\ pc[u] \in {"schedPend", "pended"}
                                       /\ arg[u] = e /\ u \notin OSEventTbl[e]
                                       /\ ~BeingDeleted(u)} = {u \in Task : Has(u, e)}
    BY DEF Has, InPend
  <1>2. Handed = [e \in Event |-> [t \in {u \in Task : Has(u, e)} |-> OSTCBMsg[t]]]
    BY <1>1 DEF Handed
  <1>3. \A e \in Event : {u \in Task : /\ pc'[u] \in {"schedPend", "pended"}
                                       /\ arg'[u] = e /\ u \notin OSEventTbl'[e]
                                       /\ ~BeingDeleted(u)'} = {u \in Task : Has(u, e)'}
    BY DEF Has, InPend
  <1>4. Handed' = [e \in Event |-> [t \in {u \in Task : Has(u, e)'} |-> OSTCBMsg'[t]]]
    BY <1>3 DEF Handed
  <1> QED
    BY <1>2, <1>4

LEMMA HandedSame ==
  ASSUME \A t \in Task, e \in Event : Has(t, e)' <=> Has(t, e), SameMsgs
  PROVE  Handed' = Handed
  <1>1. \A e \in Event : {u \in Task : Has(u, e)'} = {u \in Task : Has(u, e)}
    OBVIOUS
  <1>2. \A e \in Event : \A t \in {u \in Task : Has(u, e)} : OSTCBMsg'[t] = OSTCBMsg[t]
    BY DEF SameMsgs, Has
  <1>3. \A e \in Event : [t \in {u \in Task : Has(u, e)'} |-> OSTCBMsg'[t]]
                           = [t \in {u \in Task : Has(u, e)} |-> OSTCBMsg[t]]
    BY <1>1, <1>2
  <1> QED
    BY <1>3, HandedIs

LEMMA HandedDrop ==
  ASSUME NEW e \in Event, NEW w \in Task,
         \A t \in Task, f \in Event : Has(t, f)' <=> Has(t, f) /\ ~(t = w /\ f = e),
         \A t \in Task \ {w} : InPend(t) => OSTCBMsg'[t] = OSTCBMsg[t], Has(w, e)
  PROVE  Handed' = [Handed EXCEPT ![e] = [u \in DOMAIN Handed[e] \ {w} |-> Handed[e][u]]]
  <1>1. \A f \in Event : f # e => ~Has(w, f)
    BY DEF Has
  <1>2. \A t \in Task, f \in Event : Has(t, f)' => t # w /\ OSTCBMsg'[t] = OSTCBMsg[t]
    BY <1>1 DEF Has
  <1>3. \A f \in Event : {u \in Task : Has(u, f)'}
                            = IF f = e THEN {u \in Task : Has(u, f)} \ {w}
                                       ELSE {u \in Task : Has(u, f)}
    BY <1>1
  <1>4. Handed'[e] = [u \in DOMAIN Handed[e] \ {w} |-> Handed[e][u]]
    <2> DEFINE D == {u \in Task : Has(u, e)}
    <2>1. Handed'[e] = [t \in D \ {w} |-> OSTCBMsg'[t]]
      BY <1>3, HandedIs
    <2>2. \A t \in D \ {w} : OSTCBMsg'[t] = OSTCBMsg[t]
      BY DEF Has
    <2>3. Handed[e] = [t \in D |-> OSTCBMsg[t]]
      BY HandedIs
    <2> HIDE DEF D
    <2> QED
      BY <2>1, <2>2, <2>3
  <1>5. \A f \in Event : f # e => Handed'[f] = Handed[f]
    <2> SUFFICES ASSUME NEW f \in Event, f # e PROVE Handed'[f] = Handed[f]
      OBVIOUS
    <2> DEFINE D == {u \in Task : Has(u, f)}
    <2>1. Handed'[f] = [t \in D |-> OSTCBMsg'[t]] /\ Handed[f] = [t \in D |-> OSTCBMsg[t]]
      BY <1>3, HandedIs
    <2>2. \A t \in D : OSTCBMsg'[t] = OSTCBMsg[t]
      BY <1>1 DEF Has
    <2> HIDE DEF D
    <2> QED
      BY <2>1, <2>2
  <1> QED
    BY <1>4, <1>5, HandedIs

LEMMA HandedAdd ==
  ASSUME NEW e \in Event, NEW S \in SUBSET Task, NEW m,
         \A t \in Task, f \in Event : Has(t, f)' <=> Has(t, f) \/ (t \in S /\ f = e),
         \A t \in S, f \in Event : ~Has(t, f),
         \A t \in Task : OSTCBMsg'[t] = IF t \in S THEN m ELSE OSTCBMsg[t]
  PROVE  Handed' = [Handed EXCEPT ![e] = [t \in S \cup DOMAIN Handed[e] |->
                                            IF t \in S THEN m ELSE Handed[e][t]]]
  <1>1. Handed'[e] = [t \in S \cup DOMAIN Handed[e] |-> IF t \in S THEN m ELSE Handed[e][t]]
    <2> DEFINE D == {u \in Task : Has(u, e)}
    <2>1. {u \in Task : Has(u, e)'} = S \cup D
      OBVIOUS
    <2>2. Handed'[e] = [t \in S \cup D |-> OSTCBMsg'[t]]
      BY <2>1, HandedIs
    <2>3. Handed[e] = [t \in D |-> OSTCBMsg[t]] /\ D \subseteq Task
      BY HandedIs
    <2> HIDE DEF D
    <2> QED
      BY <2>2, <2>3
  <1>2. \A f \in Event : f # e => Handed'[f] = Handed[f]
    <2> SUFFICES ASSUME NEW f \in Event, f # e PROVE Handed'[f] = Handed[f]
      OBVIOUS
    <2> DEFINE D == {u \in Task : Has(u, f)}
    <2>1. {u \in Task : Has(u, f)'} = D
      OBVIOUS
    <2>2. Handed'[f] = [t \in D |-> OSTCBMsg'[t]] /\ Handed[f] = [t \in D |-> OSTCBMsg[t]]
      BY <2>1, HandedIs
    <2>3. \A t \in D : OSTCBMsg'[t] = OSTCBMsg[t]
      OBVIOUS
    <2> HIDE DEF D
    <2> QED
      BY <2>2, <2>3
  <1> QED
    BY <1>1, <1>2, HandedIs

LEMMA HasSame ==
  ASSUME SamePends, OSEventTbl' = OSEventTbl
  PROVE  \A t \in Task, e \in Event : Has(t, e)' <=> Has(t, e)
  BY DEF Has, SamePends

LEMMA KeptFn == SameKept => [e \in Event |-> Kept(e)'] = [e \in Event |-> Kept(e)]
  BY DEF SameKept

LEMMA StutterBox ==
  ASSUME \A t \in Task, e \in Event : Has(t, e)' <=> Has(t, e),
         SameMsgs, SameKept, OSEventTbl' = OSEventTbl
  PROVE  BoxStep
  BY HandedSame, KeptFn DEF BoxStep, Abstract!vars

LEMMA QuietStutter ==
  ASSUME SamePends, SameMsgs, SameKept, OSEventTbl' = OSEventTbl
  PROVE  BoxStep
  BY HasSame, StutterBox

-----------------------------------------------------------------------------
(* The kernel core leaves what is kept, and the messages in hand, alone.   *)
CoreBoxes == CreatedNoMsg /\ UNCHANGED <<boxVars, OSEventPtr, qVars>>

LEMMA CoreKeeps ==
  ASSUME IInv, CoreBoxes
  PROVE  SameMsgs /\ SameKept
  <1>1. SameKept
    BY KeptSame DEF CoreBoxes, boxVars, qVars, SameKept
  <1>2. SameMsgs
    <2>1. \A u \in Task : InPend(u) => Used(u)
      BY DEF IInv, KInv, DeadOK, InPend
    <2> QED
      BY <2>1 DEF CoreBoxes, CreatedNoMsg, SameMsgs
  <1> QED
    BY <1>1, <1>2

LEMMA InterruptAbs ==
  ASSUME IInv, Interrupt, CoreBoxes
  PROVE  BoxStep
  <1>1. pc' = pc /\ arg' = arg /\ OSEventTbl' = OSEventTbl
    BY DEF Interrupt, IrqEntry, IrqExit, TickEntry, TickOne, OSIntExit
  <1> QED
    BY <1>1, CoreKeeps, QuietStutter DEF SamePends, InPend, BeingDeleted

LEMMA SchedAbs ==
  ASSUME IInv, NEW t \in Task, OS_Sched(t) \/ TcbTake(t) \/ TaskUnreserve(t), CoreBoxes
  PROVE  BoxStep
  <1>1. SamePends
    BY DEF IInv, KInv, CoreType, SamePends, InPend, BeingDeleted, OS_Sched, TcbTake,
           TaskUnreserve, At, Return, Goto
  <1>2. OSEventTbl' = OSEventTbl
    BY DEF OS_Sched, TcbTake, TaskUnreserve
  <1> QED
    BY <1>1, <1>2, CoreKeeps, QuietStutter

LEMMA AppAbs ==
  ASSUME IInv, NEW t \in Task, CoreBoxes,
         \/ \E n \in 1 .. MaxDly : OSTimeDly(t, n)
         \/ \E p \in Task \ {Idle} : OSTimeDlyResume(t, p) \/ TaskReserve(t, p)
         \/ \E p \in MaySuspend : OSTaskSuspend(t, p) \/ OSTaskResume(t, p)
         \/ OSSchedLock(t) \/ OSSchedUnlock(t)
  PROVE  BoxStep
  <1>1. /\ pc[t] = "user" /\ pc'[t] \notin {"schedPend", "pended", "tcbFree"}
        /\ \A u \in Task \ {t} : pc'[u] = pc[u] /\ arg'[u] = arg[u]
        /\ OSEventTbl' = OSEventTbl
    BY DEF IInv, KInv, CoreType, OSTimeDly, OSTimeDlyResume, TaskReserve,
           OSTaskSuspend, OSTaskResume, OSSchedLock, OSSchedUnlock, MayBlock,
           Calling, Reschedule, Return, Goto
  <1>2. SamePends
    BY <1>1 DEF SamePends, InPend, BeingDeleted
  <1> QED
    BY <1>1, <1>2, CoreKeeps, QuietStutter

(* A new task has never been in a pend. *)
LEMMA LinkAbs ==
  ASSUME IInv, NEW t \in Task, TcbLink(t), CoreBoxes
  PROVE  BoxStep
  <1>0. PICK p \in Task : p = arg[t]
    BY DEF IInv, KInv, ArgOK, Creating, TcbLink, At
  <1>1. pc[p] \in {"user", "sched", "tcbLink"}
    BY <1>0 DEF IInv, KInv, CreateOK, DeadOK, Creating, Used, TcbLink, At
  <1>2. /\ \A u \in Task \ {p, t} : pc'[u] = pc[u] /\ arg'[u] = arg[u]
        /\ pc[t] = "tcbLink" /\ pc'[t] = "sched" /\ pc'[p] \in {"user", "sched"}
        /\ OSEventTbl' = OSEventTbl
    BY <1>0 DEF IInv, KInv, CoreType, TcbLink, At
  <1>3. SamePends
    BY <1>1, <1>2 DEF SamePends, InPend, BeingDeleted
  <1> QED
    BY <1>2, <1>3, CoreKeeps, QuietStutter

(* OSTaskDel of a task that waits, of one that was served, of another. *)
LEMMA DelUnlinkAbs ==
  ASSUME IInv, NEW t \in Task, NEW p \in MayDelete, TaskDelUnlink(t, p), CoreBoxes
  PROVE  BoxStep
  <1>1. /\ p \in Task /\ pc[t] = "user"
        /\ \A u \in Task : ~BeingDeleted(u) /\ (BeingDeleted(u)' <=> u = p)
        /\ \A u \in Task : (InPend(u)' <=> InPend(u)) /\ (InPend(u) => arg'[u] = arg[u])
    BY TargetAssumption
    DEF IInv, KInv, CoreType, DelOK, BeingDeleted, InPend, TaskDelUnlink, MayBlock, Calling,
        Running, Goto
  <1>2. \A f \in Event : p \in OSEventTbl[f] => /\ OSTCBEventPtr[p] = f
                                                /\ InPend(p) /\ arg[p] = f
    BY <1>1 DEF IInv, KInv, WaitListed
  <1>3. SameMsgs /\ SameKept
    BY CoreKeeps
  <1>4. CASE \E e \in Event : p \in OSEventTbl[e]
    <2>1. PICK e \in Event : p \in OSEventTbl[e]
      BY <1>4
    <2>2. OSEventTbl' = [OSEventTbl EXCEPT ![e] = @ \ {p}]
      BY <1>2, <2>1 DEF IInv, KInv, CoreType, TaskDelUnlink
    <2>3. \A u \in Task, f \in Event : Has(u, f)' <=> Has(u, f)
      BY <1>1, <1>2, <2>1, <2>2 DEF IInv, KInv, CoreType, Has
    <2>4. Abstract!GiveUp(e, p)
      BY <1>3, <2>1, <2>2, <2>3, HandedSame, KeptFn DEF Abstract!GiveUp
    <2> QED
      BY <1>1, <2>4 DEF BoxStep, Abstract!Next
  <1>5. CASE \A e \in Event : p \notin OSEventTbl[e]
    <2>1. OSEventTbl' = OSEventTbl
      BY <1>5 DEF IInv, KInv, CoreType, TaskDelUnlink
    <2>2. CASE InPend(p)
      <3>1. arg[p] \in Event /\ Has(p, arg[p])
        BY <1>1, <1>5, <2>2 DEF IInv, KInv, ArgOK, OnBox, Has
      <3>2. \A u \in Task, f \in Event :
              Has(u, f)' <=> Has(u, f) /\ ~(u = p /\ f = arg[p])
        BY <1>1, <2>1 DEF Has
      <3>3. Handed' = [Handed EXCEPT ![arg[p]] =
                         [u \in DOMAIN Handed[arg[p]] \ {p} |-> Handed[arg[p]][u]]]
        BY <1>1, <1>3, <3>1, <3>2, HandedDrop DEF SameMsgs
      <3>4. p \in DOMAIN Handed[arg[p]]
        BY <1>1, <3>1, HandedIs
      <3>5. Abstract!Return(arg[p], p)
        BY <1>3, <2>1, <3>3, <3>4, KeptFn DEF Abstract!Return
      <3> QED
        BY <1>1, <3>1, <3>5 DEF BoxStep, Abstract!Next
    <2>3. CASE ~InPend(p)
      <3>1. SamePends
        BY <1>1, <2>3 DEF SamePends
      <3> QED
        BY <1>3, <2>1, <3>1, QuietStutter
    <2> QED
      BY <2>2, <2>3
  <1> QED
    BY <1>4, <1>5

LEMMA DelFreeAbs ==
  ASSUME IInv, NEW t \in Task, TaskDelFree(t), CoreBoxes
  PROVE  BoxStep
  <1>0. PICK p \in Task : p = arg[t]
    BY DEF IInv, KInv, ArgOK, TaskDelFree, At
  <1>1. /\ pc[t] = "tcbFree"
        /\ \A u \in Task : ~BeingDeleted(u)' /\ (BeingDeleted(u) <=> u = p)
    BY <1>0 DEF IInv, KInv, CoreType, ArgOK, DelOK, BeingDeleted, TaskDelFree, At
  <1>2. /\ \A u \in Task \ {p, t} : pc'[u] = pc[u] /\ arg'[u] = arg[u]
        /\ ~InPend(t) /\ ~InPend(t)' /\ ~InPend(p)'
        /\ OSEventTbl' = OSEventTbl
    BY <1>0, <1>1 DEF IInv, KInv, CoreType, InPend, TaskDelFree, At
  <1>3. \A u \in Task, f \in Event : Has(u, f)' <=> Has(u, f)
    BY <1>1, <1>2 DEF Has, InPend
  <1> QED
    BY <1>2, <1>3, CoreKeeps, StutterBox

LEMMA CoreAbs ==
  ASSUME IInv, CoreNext, CoreBoxes
  PROVE  BoxStep
  <1>1. CASE Interrupt
    BY <1>1, InterruptAbs
  <1>2. ASSUME NEW t \in Task, KernelCall(t) PROVE BoxStep
    BY <1>2, SchedAbs, LinkAbs, DelFreeAbs DEF KernelCall
  <1>3. ASSUME NEW t \in Task, AppCall(t) PROVE BoxStep
    BY <1>3, AppAbs, DelUnlinkAbs DEF AppCall
  <1> QED
    BY <1>1, <1>2, <1>3 DEF CoreNext

-----------------------------------------------------------------------------
(* The functions of mailboxes and queues: a call that only moves its task. *)
LEMMA MoveAbs ==
  ASSUME IInv, NEW t \in Task, ~InPend(t), pc[t] # "tcbFree",
         pc'[t] \notin {"schedPend", "pended", "tcbFree"},
         \A u \in Task \ {t} : pc'[u] = pc[u] /\ arg'[u] = arg[u]
  PROVE  SamePends
  BY DEF SamePends, InPend, BeingDeleted

LEMMA LabelsMove ==
  \A l \in Calls : l \notin {"schedPend", "pended", "tcbFree", "user", "sched"}
  BY DEF Calls, Regions

LEMMA ReturnMoves ==
  ASSUME IInv, NEW t \in Task, NEW l \in Calls, At(t, l), Return(t) \/ Reschedule(t)
  PROVE  SamePends
  <1>1. /\ pc[t] = l /\ pc'[t] \in {"user", "sched"}
        /\ \A u \in Task \ {t} : pc'[u] = pc[u] /\ arg'[u] = arg[u]
    BY ReturnFades DEF IInv, At
  <1> QED
    BY <1>1, LabelsMove, MoveAbs DEF InPend

LEMMA TakeAbs ==
  ASSUME IInv, NEW t \in Task,
         MboxTake(t) \/ QTake(t) \/ QAcceptNone(t) \/ OSQFlush(t)
  PROVE  BoxStep
  <1>1. PICK l \in Regions : At(t, l) /\ (MboxTake(t) => TypeOf(l) = "MBOX")
                             /\ (QTake(t) \/ OSQFlush(t) => TypeOf(l) = "Q")
    <2>1. CASE MboxTake(t)
      <3>1. PICK l \in {"mboxPend", "mboxAccept"} : At(t, l)
        BY <2>1 DEF MboxTake
      <3> QED
        BY <3>1, Labels DEF MboxTake, QTake, OSQFlush, At, TypeOf
    <2>2. CASE QTake(t) \/ QAcceptNone(t) \/ OSQFlush(t)
      <3>1. PICK l \in {"qPend", "qAccept", "qFlush"} : At(t, l)
        BY <2>2 DEF QTake, QAcceptNone, OSQFlush
      <3> QED
        BY <3>1, Labels DEF MboxTake, QTake, OSQFlush, At, TypeOf
    <2> QED
      BY <2>1, <2>2
  <1>2. PICK e \in Event : e = arg[t]
    BY <1>1, AtBox
  <1>3. /\ Return(t) /\ OSEventTbl' = OSEventTbl /\ OSTCBMsg' = OSTCBMsg
        /\ OSEventType' = OSEventType
    BY DEF MboxTake, QTake, QAcceptNone, OSQFlush, boxVars, msgVars
  <1>4. SamePends /\ SameMsgs
    BY <1>1, <1>3, ReturnMoves DEF Calls, SameMsgs
  <1>5. Handed' = Handed
    BY <1>3, <1>4, HasSame, HandedSame
  <1>6. CASE MboxTake(t)
    <2>1. OSEventType[e] = "MBOX" /\ OSEventPtr' = [OSEventPtr EXCEPT ![e] = None]
          /\ OSQ' = OSQ
      BY <1>1, <1>2, <1>6, AtBox DEF MboxTake, qVars
    <2>2. /\ OSEventPtr'[e] = None
          /\ \A f \in Event : f # e => OSEventPtr'[f] = OSEventPtr[f]
      BY <2>1 DEF IInv, MInv, BoxType
    <2>3. \A f \in Event : f # e => Kept(f)' = Kept(f)
      BY <1>3, <2>1, <2>2, KeptOther
    <2>4. Kept(e)' = << >>
      BY <1>3, <2>1, <2>2, KeptIsNext
    <2>5. CASE OSEventPtr[e] = None
      <3>1. SameKept
        BY <2>1, <2>3, <2>4, <2>5, KeptIs DEF SameKept
      <3> QED
        BY <1>3, <1>4, <3>1, QuietStutter
    <2>6. CASE OSEventPtr[e] # None
      <3>1. Kept(e) = <<OSEventPtr[e]>>
        BY <2>1, <2>6, KeptIs
      <3>2. Kept(e) # << >> /\ Tail(Kept(e)) = << >>
        BY <3>1
      <3>3. Abstract!Fetch(e)
        BY <1>3, <1>5, <2>3, <2>4, <3>2 DEF Abstract!Fetch
      <3> QED
        BY <3>3 DEF BoxStep, Abstract!Next
    <2> QED
      BY <2>5, <2>6
  <1>7. CASE QTake(t) \/ OSQFlush(t)
    <2>1. /\ OSEventType[e] = "Q" /\ Owns(e) /\ OSEventPtr' = OSEventPtr
          /\ RingType(QueueOf(e)) /\ RingAt(QueueOf(e)) /\ Kept(e) = InRing(QueueOf(e))
      BY <1>1, <1>2, <1>7, AtBox, KeptIs DEF QTake, OSQFlush
    <2>2. OSEventType' = [OSEventType EXCEPT ![e] = "Q"]
      BY <1>3, <2>1 DEF IInv, MInv, BoxType
    <2>3. CASE QTake(t)
      <3>1. QueueOf(e).Entries > 0 /\ SetRing(e, RingOut(QueueOf(e)))
        BY <1>2, <2>3 DEF QTake
      <3>2. /\ Kept(e)' = Tail(Kept(e)) /\ Kept(e) # << >>
            /\ \A f \in Event : f # e => Kept(f)' = Kept(f)
        <4>1. InRing(RingOut(QueueOf(e))) = Tail(InRing(QueueOf(e)))
          BY <2>1, <3>1, OutIsTail
        <4>2. InRing(QueueOf(e)) # << >>
          BY <2>1, <3>1, InRingIs
        <4>3. /\ Kept(e)' = InRing(RingOut(QueueOf(e)))
              /\ \A f \in Event : f # e => Kept(f)' = Kept(f)
          BY <2>1, <2>2, <3>1, KeptRing
        <4> QED
          BY <2>1, <4>1, <4>2, <4>3
      <3>3. Abstract!Fetch(e)
        BY <1>3, <1>5, <3>2 DEF Abstract!Fetch
      <3> QED
        BY <3>3 DEF BoxStep, Abstract!Next
    <2>4. CASE OSQFlush(t)
      <3>1. SetRing(e, NewRing(QueueOf(e).Tbl)) /\ QueueOf(e).Tbl \in [Slot -> Msg]
        BY <1>2, <2>1, <2>4, RingAtAfter DEF OSQFlush
      <3>2. InRing(NewRing(QueueOf(e).Tbl)) = << >>
        BY <3>1, NewRingOK, InRingIs DEF NewRing
      <3>3. Kept(e)' = << >> /\ \A f \in Event : f # e => Kept(f)' = Kept(f)
        BY <2>1, <2>2, <3>1, <3>2, KeptRing
      <3>4. Abstract!Clear(e)
        BY <1>3, <1>5, <3>3 DEF Abstract!Clear
      <3> QED
        BY <3>4 DEF BoxStep, Abstract!Next
    <2> QED
      BY <1>7, <2>3, <2>4
  <1>8. CASE QAcceptNone(t)
    <2>1. SameKept
      BY <1>8, KeptSame DEF QAcceptNone, msgVars, boxVars, qVars, SameKept
    <2> QED
      BY <1>3, <1>4, <2>1, QuietStutter
  <1> QED
    BY <1>6, <1>7, <1>8

LEMMA CallAbs ==
  ASSUME IInv, NEW t \in Task, NEW f \in Regions, NEW e \in Event, MsgCall(t, f, e)
  PROVE  BoxStep
  <1>1. /\ pc[t] = "user" /\ pc'[t] = f /\ f \in Calls
        /\ \A u \in Task \ {t} : pc'[u] = pc[u] /\ arg'[u] = arg[u]
        /\ OSEventTbl' = OSEventTbl /\ SameMsgs
    BY DEF IInv, KInv, CoreType, MsgCall, Calling, Goto, msgVars, SameMsgs, Calls
  <1>2. SamePends
    BY <1>1, LabelsMove, MoveAbs DEF InPend
  <1>3. SameKept
    BY KeptSame DEF MsgCall, msgVars, boxVars, qVars, SameKept
  <1> QED
    BY <1>1, <1>2, <1>3, QuietStutter

LEMMA WaitAbs ==
  ASSUME IInv, NEW t \in Task, NEW n \in 0 .. MaxDly, MsgWait(t, n)
  PROVE  BoxStep
  <1>1. PICK e \in Event : e = arg[t]
    BY AtBox, Labels DEF MsgWait
  <1>2. /\ pc[t] \in {"mboxPend", "qPend"} /\ pc'[t] = "schedPend" /\ arg'[t] = e
        /\ \A u \in Task \ {t} : pc'[u] = pc[u] /\ arg'[u] = arg[u]
        /\ OSEventTbl' = [OSEventTbl EXCEPT ![e] = @ \cup {t}]
        /\ SameMsgs
    BY <1>1 DEF IInv, KInv, CoreType, MsgWait, EventTaskWait, At, Goto, msgVars, SameMsgs
  <1>3. SameKept
    BY KeptSame DEF MsgWait, msgVars, boxVars, qVars, SameKept
  <1>4. Kept(e) = << >>
    <2>1. CASE At(t, "mboxPend") /\ OSEventPtr[e] = None
      <3>1. OSEventType[e] = "MBOX"
        BY <1>1, <2>1, AtBox, Labels
      <3> QED
        BY <2>1, <3>1, KeptIs
    <2>2. CASE At(t, "qPend") /\ QueueOf(e).Entries = 0
      <3>1. OSEventType[e] = "Q" /\ RingType(QueueOf(e))
        BY <1>1, <2>2, AtBox, Labels
      <3> QED
        BY <2>2, <3>1, KeptIs, InRingIs
    <2> QED
      BY <1>1, <2>1, <2>2 DEF MsgWait
  <1>5. \A f \in Event : t \notin OSEventTbl[f] /\ ~Has(t, f)
    BY <1>2 DEF IInv, KInv, WaitListed, Has, InPend
  <1>6. \A u \in Task : BeingDeleted(u)' <=> BeingDeleted(u)
    BY <1>2 DEF BeingDeleted
  <1>7. \A u \in Task, f \in Event : Has(u, f)' <=> Has(u, f)
    BY <1>2, <1>5, <1>6 DEF IInv, KInv, CoreType, Has, InPend
  <1>8. Abstract!Wait(e, t)
    <2>1. \A c \in Event : t \notin OSEventTbl[c] \cup DOMAIN Handed[c]
      BY <1>5, HandedIs
    <2>2. Handed' = Handed
      BY <1>2, <1>7, HandedSame
    <2> QED
      BY <1>2, <1>3, <1>4, <2>1, <2>2, KeptFn DEF Abstract!Wait
  <1> QED
    BY <1>8 DEF BoxStep, Abstract!Next

(* The second half of OSMboxPend and OSQPend. *)
LEMMA PendedAbs ==
  ASSUME IInv, NEW t \in Task, MsgPended(t)
  PROVE  BoxStep
  <1>1. PICK e \in Event : e = arg[t]
    BY DEF IInv, KInv, ArgOK, OnBox, InPend, MsgPended, At
  <1>2. /\ pc[t] = "pended" /\ pc'[t] = "user" /\ t \in OSRdyTbl
        /\ \A u \in Task \ {t} : pc'[u] = pc[u] /\ arg'[u] = arg[u]
    BY DEF IInv, KInv, CoreType, CurOK, Leaving, MsgPended, At, Running, Return, Goto
  <1>3. \A u \in Task : /\ BeingDeleted(u)' <=> BeingDeleted(u)
                        /\ u = t => ~BeingDeleted(u)
    BY <1>2 DEF IInv, KInv, ReadyExact, BeingDeleted
  <1>4. \A u \in Task \ {t} : OSTCBMsg'[u] = OSTCBMsg[u]
    BY DEF MsgPended, IInv, MInv, BoxType
  <1>5. SameKept
    BY KeptSame DEF MsgPended, boxVars, qVars, SameKept
  <1>6. \A f \in Event : f # e => t \notin OSEventTbl[f]
    BY <1>1 DEF IInv, KInv, WaitListed
  <1>7. CASE t \in OSEventTbl[e]
    <2>1. OSTCBPendTO[t]
      BY <1>2, <1>7 DEF IInv, KInv, PendOK, ReadyExact, MInv, BoxType
    <2>2. OSEventTbl' = [OSEventTbl EXCEPT ![e] = @ \ {t}] /\ OSTCBMsg' = OSTCBMsg
      BY <1>1, <2>1 DEF MsgPended, EventTO, EventGot
    <2>3. \A u \in Task, f \in Event : Has(u, f)' <=> Has(u, f)
      BY <1>1, <1>2, <1>3, <1>7, <2>2 DEF IInv, KInv, CoreType, Has, InPend
    <2>4. Handed' = Handed
      BY <2>2, <2>3, HandedSame DEF SameMsgs
    <2>5. Abstract!GiveUp(e, t)
      BY <1>5, <1>7, <2>2, <2>4, KeptFn DEF Abstract!GiveUp
    <2> QED
      BY <2>5 DEF BoxStep, Abstract!Next
  <1>8. CASE t \notin OSEventTbl[e]
    <2>1. OSEventTbl' = OSEventTbl
      <3>1. CASE EventGot(t)
        BY <3>1 DEF EventGot
      <3>2. CASE EventTO(t)
        <4>1. OSEventTbl' = [OSEventTbl EXCEPT ![e] = @ \ {t}]
          BY <1>1, <3>2 DEF EventTO
        <4>2. OSEventTbl[e] \ {t} = OSEventTbl[e]
          BY <1>8
        <4> QED
          BY <4>1, <4>2 DEF IInv, KInv, CoreType
      <3> QED
        BY <3>1, <3>2 DEF MsgPended
    <2>2. Has(t, e)
      BY <1>1, <1>2, <1>3, <1>8 DEF Has, InPend
    <2>3. \A u \in Task, f \in Event : Has(u, f)' <=> Has(u, f) /\ ~(u = t /\ f = e)
      BY <1>1, <1>2, <1>3, <2>1 DEF Has, InPend
    <2>4. Handed' = [Handed EXCEPT ![e] = [u \in DOMAIN Handed[e] \ {t} |-> Handed[e][u]]]
      BY <1>4, <2>2, <2>3, HandedDrop
    <2>5. t \in DOMAIN Handed[e]
      BY <2>2, HandedIs
    <2>6. Abstract!Return(e, t)
      BY <1>5, <2>1, <2>4, <2>5, KeptFn DEF Abstract!Return
    <2> QED
      BY <2>6 DEF BoxStep, Abstract!Next
  <1> QED
    BY <1>7, <1>8

-----------------------------------------------------------------------------
(* A post, whoever makes it. *)
LEMMA HandAbs ==
  ASSUME IInv, NEW e \in Event, NEW m \in Msg, NEW o, PostHand(e, m, o),
         OSEventType[e] # "UNUSED", OSEventType' = OSEventType, SamePends
  PROVE  BoxStep
  <1> DEFINE S == Served(e, o)
  <1>1. /\ OSEventTbl[e] # {} /\ S \in SUBSET Task /\ S \subseteq OSEventTbl[e]
        /\ OSEventTbl' = [OSEventTbl EXCEPT ![e] = @ \ S]
        /\ OSTCBMsg' = [t \in Task |-> IF t \in S THEN m ELSE OSTCBMsg[t]]
    BY ServedIn DEF PostHand, HandOver, EventTaskRdy, IInv
  <1>2. SameKept
    BY KeptSame DEF PostHand, qVars, SameKept
  <1>3. S = OSEventTbl[e] \/ \E h \in OSEventTbl[e] : S = {h} /\ \A u \in OSEventTbl[e] : h <= u
    <2>1. Highest(OSEventTbl[e]) \in OSEventTbl[e]
          /\ \A u \in OSEventTbl[e] : Highest(OSEventTbl[e]) <= u
      BY <1>1, HighestIn DEF IInv, KInv, CoreType
    <2> QED
      BY <2>1 DEF Served
  <1> HIDE DEF S
  <1>4. \A h \in S : /\ h \in Task /\ InPend(h) /\ arg[h] = e /\ ~BeingDeleted(h)
                     /\ \A f \in Event : h \in OSEventTbl[f] => f = e
    BY <1>1 DEF IInv, KInv, WaitListed, InPend, BeingDeleted, DelOK
  <1>5. \A u \in Task, f \in Event : Has(u, f)' <=> Has(u, f) \/ (u \in S /\ f = e)
    BY <1>1, <1>4 DEF IInv, KInv, CoreType, Has, SamePends
  <1>6. \A t \in S, f \in Event : ~Has(t, f)
    BY <1>1, <1>4 DEF Has
  <1>7. Handed' = [Handed EXCEPT ![e] = [t \in S \cup DOMAIN Handed[e] |->
                                           IF t \in S THEN m ELSE Handed[e][t]]]
    BY <1>1, <1>5, <1>6, HandedAdd
  <1>8. Abstract!Hand(e, m, S)
    BY <1>1, <1>2, <1>7, KeptFn DEF Abstract!Hand
  <1>9. Abstract!Serve(e, m) \/ Abstract!Broadcast(e, m)
    BY <1>1, <1>3, <1>8 DEF Abstract!Serve, Abstract!Broadcast
  <1> QED
    BY <1>9 DEF BoxStep, Abstract!Next

(* A message that is kept is kept at one end. *)
LEMMA KeptGrows ==
  ASSUME IInv, NEW e \in Event, NEW m \in Msg, NEW o,
         \/ OSEventType[e] = "MBOX" /\ MboxKeep(e, m)
         \/ OSEventType[e] = "Q" /\ QKeep(e, m, o),
         OSEventType' = OSEventType
  PROVE  /\ Kept(e)' = Append(Kept(e), m) \/ Kept(e)' = <<m>> \o Kept(e)
         /\ \A f \in Event : f # e => Kept(f)' = Kept(f)
  <1>1. CASE OSEventType[e] = "MBOX" /\ MboxKeep(e, m)
    <2>1. /\ OSEventPtr[e] = None /\ OSEventPtr'[e] = m /\ OSQ' = OSQ /\ m # None
          /\ \A f \in Event : f # e => OSEventPtr'[f] = OSEventPtr[f]
      BY <1>1, MsgAssumption DEF MboxKeep, IInv, MInv, BoxType, qVars
    <2>2. Kept(e) = << >> /\ Kept(e)' = <<m>>
      BY <1>1, <2>1, KeptIs, KeptIsNext
    <2>3. Append(<< >>, m) = <<m>>
      OBVIOUS
    <2> QED
      BY <2>1, <2>2, <2>3, KeptOther
  <1>2. CASE OSEventType[e] = "Q" /\ QKeep(e, m, o)
    <2>1. /\ Owns(e) /\ OSEventPtr' = OSEventPtr /\ Kept(e) = InRing(QueueOf(e))
          /\ OSEventType' = [OSEventType EXCEPT ![e] = "Q"]
      BY <1>2, KeptIs DEF Owns, QKeep, IInv, MInv, BoxType
    <2>2. RingType(QueueOf(e)) /\ RingAt(QueueOf(e))
      BY <2>1 DEF IInv, MInv, OwnOK, BoxType, RingOK, RingType, RingAt, QueueOf
    <2>3. QueueOf(e).Entries < QSize
      BY <1>2, <2>2, RingAtAfter, MsgAssumption DEF QKeep, RingFull
    <2>4. CASE "FRONT" \in o
      <3>1. SetRing(e, RingInFront(QueueOf(e), m))
        BY <1>2, <2>4 DEF QKeep
      <3>2. InRing(RingInFront(QueueOf(e), m)) = <<m>> \o InRing(QueueOf(e))
        BY <2>2, <2>3, FrontIsFirst
      <3> QED
        BY <2>1, <3>1, <3>2, KeptRing
    <2>5. CASE "FRONT" \notin o
      <3>1. SetRing(e, RingIn(QueueOf(e), m))
        BY <1>2, <2>5 DEF QKeep
      <3>2. InRing(RingIn(QueueOf(e), m)) = Append(InRing(QueueOf(e)), m)
        BY <2>2, <2>3, InIsAppend
      <3> QED
        BY <2>1, <3>1, <3>2, KeptRing
    <2> QED
      BY <2>4, <2>5
  <1> QED
    BY <1>1, <1>2

LEMMA KeepAbs ==
  ASSUME IInv, NEW e \in Event, NEW m \in Msg, NEW o,
         \/ OSEventType[e] = "MBOX" /\ MboxKeep(e, m)
         \/ OSEventType[e] = "Q" /\ QKeep(e, m, o),
         OSEventType' = OSEventType, SamePends
  PROVE  BoxStep
  <1>1. OSEventTbl[e] = {} /\ OSEventTbl' = OSEventTbl /\ OSTCBMsg' = OSTCBMsg
    BY DEF MboxKeep, QKeep
  <1>2. Handed' = Handed
    BY <1>1, HasSame, HandedSame DEF SameMsgs
  <1>3. /\ Kept(e)' = Append(Kept(e), m) \/ Kept(e)' = <<m>> \o Kept(e)
        /\ \A f \in Event : f # e => Kept(f)' = Kept(f)
    BY KeptGrows
  <1>4. Abstract!Keep(e, m)
    BY <1>1, <1>2, <1>3 DEF Abstract!Keep
  <1> QED
    BY <1>4 DEF BoxStep, Abstract!Next

LEMMA PostAbs ==
  ASSUME IInv, NEW e \in Event, NEW m \in Msg, NEW o, PostRegion(e, m, o),
         OSEventType' = OSEventType, SamePends
  PROVE  BoxStep
  <1>1. CASE PostHand(e, m, o)
    BY <1>1, HandAbs DEF PostRegion
  <1>2. CASE \/ OSEventType[e] = "MBOX" /\ MboxKeep(e, m)
             \/ OSEventType[e] = "Q" /\ QKeep(e, m, o)
    BY <1>2, KeepAbs
  <1>3. CASE Refused(e, OSEventPtr[e] # None) \/ Refused(e, RingFull(QueueOf(e)))
    <2>1. OSEventTbl' = OSEventTbl /\ SameMsgs /\ SameKept
      BY <1>3, KeptSame DEF Refused, qVars, SameMsgs, SameKept
    <2> QED
      BY <2>1, QuietStutter
  <1> QED
    BY <1>1, <1>2, <1>3 DEF PostRegion, MboxRegion, QRegion

LEMMA TaskPostAbs ==
  ASSUME IInv, NEW t \in Task, NEW m \in Msg,
         \/ OSQPost(t, m) \/ OSQPostFront(t, m)
         \/ \E o \in PostOpts \cup {{}} : MboxPost(t, m, o)
         \/ \E o \in PostOpts : OSQPostOpt(t, m, o)
  PROVE  BoxStep
  <1>1. /\ arg[t] \in Event /\ pc[t] \in Calls /\ pc'[t] \in {"user", "sched"}
        /\ \A u \in Task \ {t} : pc'[u] = pc[u] /\ arg'[u] = arg[u]
        /\ \E o : PostRegion(arg[t], m, o)
        /\ OSEventType' = OSEventType
    BY TaskPostStep DEF Calls
  <1>2. SamePends
    BY <1>1, LabelsMove, MoveAbs DEF InPend
  <1> QED
    BY <1>1, <1>2, PostAbs

LEMMA IrqPostAbs ==
  ASSUME IInv, NEW e \in IrqEvent, NEW m \in Msg, IrqMsgPost(e, m)
  PROVE  BoxStep
  <1>1. e \in Event /\ PostRegion(e, m, {}) /\ UNCHANGED <<pc, arg, OSEventType>>
    BY MsgAssumption DEF IrqMsgPost, PostRegion, boxVars
  <1>2. SamePends
    BY <1>1 DEF SamePends, InPend, BeingDeleted
  <1> QED
    BY <1>1, <1>2, PostAbs

-----------------------------------------------------------------------------
(* Creation does not show until a mailbox is given its first message. *)
LEMMA BoxTakeAbs ==
  ASSUME IInv, NEW t \in Task, NEW l \in {"mboxInit", "qcbTake"}, BoxTake(t, l)
  PROVE  BoxStep
  <1>1. /\ pc[t] = "user" /\ pc'[t] = l
        /\ \A u \in Task \ {t} : pc'[u] = pc[u] /\ arg'[u] = arg[u]
    BY BoxTakeStep
  <1>2. SamePends
    BY <1>1, MoveAbs DEF InPend
  <1>3. OSEventTbl' = OSEventTbl /\ SameMsgs /\ SameKept
    BY KeptSame DEF BoxTake, qVars, SameMsgs, SameKept
  <1> QED
    BY <1>2, <1>3, QuietStutter

LEMMA MboxCreateAbs ==
  ASSUME IInv, NEW t \in Task, NEW m \in Msg \cup {None}, MboxCreate(t, m)
  PROVE  BoxStep
  <1>1. PICK e \in Event : e = arg[t]
    BY FillerIs DEF MboxCreate
  <1>2. /\ OSEventType[e] = "UNUSED" /\ OSEventTbl[e] = {} /\ OSEventTbl' = OSEventTbl
    BY <1>1, FillerIs, MboxCreateStep DEF MboxCreate
  <1>3. SamePends /\ SameMsgs
    BY ReturnMoves DEF MboxCreate, Calls, SameMsgs
  <1>4. Handed' = Handed
    BY <1>2, <1>3, HasSame, HandedSame
  <1>5. /\ OSEventType'[e] = "MBOX" /\ OSEventPtr'[e] = m /\ OSQ' = OSQ
        /\ \A f \in Event : f # e => /\ OSEventType'[f] = OSEventType[f]
                                     /\ OSEventPtr'[f] = OSEventPtr[f]
    BY <1>1 DEF MboxCreate, qVars, IInv, MInv, BoxType
  <1>6. /\ Kept(e) = << >> /\ Kept(e)' = IF m = None THEN << >> ELSE <<m>>
        /\ \A f \in Event : f # e => Kept(f)' = Kept(f)
    BY <1>2, <1>5, KeptIs, KeptIsNext, KeptOther
  <1>7. CASE m = None
    <2>1. SameKept
      BY <1>6, <1>7 DEF SameKept
    <2> QED
      BY <1>2, <1>3, <2>1, QuietStutter
  <1>8. CASE m # None
    <2>1. Append(<< >>, m) = <<m>>
      OBVIOUS
    <2>2. Abstract!Keep(e, m)
      BY <1>2, <1>4, <1>6, <1>8, <2>1 DEF Abstract!Keep
    <2> QED
      BY <1>8, <2>2 DEF BoxStep, Abstract!Next
  <1> QED
    BY <1>7, <1>8

LEMMA QcbTakeAbs ==
  ASSUME IInv, NEW t \in Task, QcbTake(t)
  PROVE  BoxStep
  <1>1. PICK e \in Event : e = arg[t] /\ OSEventType[e] = "UNUSED" /\ pc[t] = "qcbTake"
    BY FillerIs DEF QcbTake
  <1>2. /\ OSEventTbl' = OSEventTbl /\ OSEventType' = OSEventType /\ OSQ' = OSQ
        /\ \A f \in Event : f # e => OSEventPtr'[f] = OSEventPtr[f]
        /\ SameMsgs
    BY <1>1, QcbTakeStep DEF QcbTake, boxVars, SameMsgs
  <1>3. SameKept
    BY <1>1, <1>2, KeptOther DEF SameKept
  <1>4. /\ pc'[t] \in {"user", "qFill"}
        /\ \A u \in Task \ {t} : pc'[u] = pc[u] /\ arg'[u] = arg[u]
    BY DEF IInv, KInv, CoreType, QcbTake, Return, Goto
  <1>5. SamePends
    BY <1>1, <1>4, MoveAbs DEF InPend
  <1> QED
    BY <1>2, <1>3, <1>5, QuietStutter

LEMMA QCreateAbs ==
  ASSUME IInv, NEW t \in Task, QCreate(t)
  PROVE  BoxStep
  <1>1. PICK e \in Event : e = arg[t] /\ OSEventType[e] = "UNUSED" /\ pc[t] = "qFill"
    BY FillerIs DEF QCreate
  <1>2. Owns(e) /\ OSEventPtr[e] \in Qcb
    BY <1>1 DEF Owns, IInv, MInv, OwnOK
  <1>3. QueueOf(e).Tbl \in [Slot -> Msg]
    BY <1>2, RingAtAfter DEF RingType, QueueOf, IInv, MInv, BoxType
  <1>4. /\ InRing(NewRing(QueueOf(e).Tbl)) = << >>
    BY <1>3, NewRingOK, InRingIs DEF NewRing
  <1>5. /\ SetRing(e, NewRing(QueueOf(e).Tbl)) /\ OSEventPtr' = OSEventPtr
        /\ OSEventType' = [OSEventType EXCEPT ![e] = "Q"]
    BY <1>1 DEF QCreate
  <1>6. SameKept
    BY <1>1, <1>2, <1>4, <1>5, KeptRing, KeptIs DEF SameKept
  <1>7. OSEventTbl' = OSEventTbl /\ SameMsgs /\ SamePends
    BY QCreateStep, ReturnMoves DEF QCreate, Calls, SameMsgs
  <1> QED
    BY <1>6, <1>7, QuietStutter

-----------------------------------------------------------------------------
(* Deletion sends every waiter away with nothing, or is refused. *)
LEMMA BoxDelAbs ==
  ASSUME IInv, NEW t \in Task, NEW opt \in DelOpts, MboxDel(t, opt) \/ QDel(t, opt)
  PROVE  BoxStep
  <1>1. /\ arg[t] \in Event /\ pc[t] \in Calls /\ pc'[t] \in {"user", "sched"}
        /\ \A u \in Task \ {t} : pc'[u] = pc[u] /\ arg'[u] = arg[u]
    BY BoxDelStep DEF Calls
  <1>2. SamePends
    BY <1>1, LabelsMove, MoveAbs DEF InPend
  <1>3. CASE QuietBox /\ UNCHANGED <<OSEventPtr, OSQ, OSTCBMsg, OSEventTbl>>
    <2>1. SameMsgs /\ SameKept
      BY <1>3, KeptSame DEF QuietBox, SameMsgs, SameKept
    <2> QED
      BY <1>2, <1>3, <2>1, QuietStutter
  <1>4. CASE ~(QuietBox /\ UNCHANGED <<OSEventPtr, OSQ, OSTCBMsg, OSEventTbl>>)
    <2>1. PICK e \in Event : e = arg[t]
      BY <1>1
    <2> DEFINE S == OSEventTbl[e]
    <2>2. /\ \A x \in Event : x # e => OSEventPtr'[x] = OSEventPtr[x]
          /\ OSQ' = OSQ
          /\ OSEventTbl' = [OSEventTbl EXCEPT ![e] = {}]
          /\ OSTCBMsg' = [p \in Task |-> IF p \in S THEN None ELSE OSTCBMsg[p]]
          /\ OSEventType' = [OSEventType EXCEPT ![e] = "UNUSED"]
          /\ S \in SUBSET Task
      BY <1>4, <2>1, BoxDelStep DEF IInv, KInv, CoreType
    <2>3. /\ Kept(e)' = << >>
          /\ \A f \in Event : f # e => Kept(f)' = Kept(f)
      <3>1. /\ OSEventType'[e] = "UNUSED"
            /\ \A f \in Event : f # e => OSEventType'[f] = OSEventType[f]
        BY <2>2 DEF IInv, MInv, BoxType
      <3> QED
        BY <2>2, <3>1, KeptIsNext, KeptOther
    <2>4. \A h \in S : /\ h \in Task /\ InPend(h) /\ arg[h] = e /\ ~BeingDeleted(h)
                       /\ \A f \in Event : h \in OSEventTbl[f] => f = e
      BY DEF IInv, KInv, CoreType, WaitListed, InPend, BeingDeleted, DelOK
    <2>5. \A u \in Task, f \in Event : Has(u, f)' <=> Has(u, f) \/ (u \in S /\ f = e)
      BY <1>2, <2>2, <2>4 DEF IInv, KInv, CoreType, Has, SamePends
    <2>6. \A u \in S, f \in Event : ~Has(u, f)
      BY <2>4 DEF Has
    <2>7. Handed' = [Handed EXCEPT ![e] = [u \in S \cup DOMAIN Handed[e] |->
                                             IF u \in S THEN None ELSE Handed[e][u]]]
      BY <2>2, <2>5, <2>6, HandedAdd
    <2>8. Abstract!Close(e)
      BY <2>2, <2>3, <2>7 DEF Abstract!Close
    <2> QED
      BY <2>8 DEF BoxStep, Abstract!Next
  <1> QED
    BY <1>3, <1>4

-----------------------------------------------------------------------------
LEMMA InitAbs == Init => Abstract!Init
  <1> SUFFICES ASSUME Init PROVE Abstract!Init
    OBVIOUS
  <1>1. Handed = [e \in Event |-> Abstract!NoTask]
    <2>1. \A e \in Event : {u \in Task : Has(u, e)} = {}
      BY DEF Init, CoreInit, Has, InPend
    <2> QED
      BY <2>1, HandedIs DEF Abstract!NoTask
  <1>2. \A e \in Event : Kept(e) = << >>
    <2> SUFFICES ASSUME NEW e \in Event PROVE Kept(e) = << >>
      OBVIOUS
    <2>1. CASE OSEventType[e] = "Q"
      <3>1. e \in QInit /\ OSEventPtr[e] \in Qcb
        BY <2>1 DEF Init, InitType
      <3>2. PICK m \in Msg : OSQ = [q \in Qcb |-> NewRing([i \in Slot |-> m])]
        BY DEF Init
      <3> DEFINE tbl == [i \in Slot |-> m]
      <3>3. QueueOf(e) = NewRing(tbl) /\ tbl \in [Slot -> Msg]
        BY <3>1, <3>2 DEF QueueOf
      <3> HIDE DEF tbl
      <3>4. InRing(QueueOf(e)) = << >>
        BY <3>3, NewRingOK, InRingIs DEF NewRing
      <3> QED
        BY <2>1, <3>4, KeptIs
    <2>2. CASE OSEventType[e] = "MBOX"
      BY <2>2, KeptIs DEF Init, InitType
    <2>3. CASE OSEventType[e] = "UNUSED"
      BY <2>3, KeptIs
    <2> QED
      BY <2>1, <2>2, <2>3 DEF Init, InitType
  <1> QED
    BY <1>1, <1>2 DEF Init, CoreInit, Abstract!Init

LEMMA NextAbs ==
  ASSUME IInv, [Next]_vars
  PROVE  BoxStep
  <1>1. CASE CoreNext /\ CreatedNoMsg /\ UNCHANGED <<boxVars, OSEventPtr, qVars>>
    BY <1>1, CoreAbs DEF CoreBoxes
  <1>2. ASSUME NEW e \in IrqEvent, NEW m \in Msg, IrqMsgPost(e, m) PROVE BoxStep
    BY <1>2, IrqPostAbs
  <1>3. ASSUME NEW t \in Task, MsgKernel(t) PROVE BoxStep
    BY <1>3, TakeAbs, PendedAbs, QcbTakeAbs, QCreateAbs, WaitAbs, TaskPostAbs,
       MboxCreateAbs, BoxDelAbs DEF MsgKernel
  <1>4. ASSUME NEW t \in Task, BoxTake(t, "mboxInit") \/ BoxTake(t, "qcbTake") PROVE BoxStep
    BY <1>4, BoxTakeAbs
  <1>5. ASSUME NEW t \in Task, NEW f \in Regions, NEW e \in Event, MsgCall(t, f, e) PROVE BoxStep
    BY <1>5, CallAbs
  <1>6. CASE UNCHANGED vars
    <2>1. /\ pc' = pc /\ arg' = arg /\ OSEventTbl' = OSEventTbl
          /\ SameMsgs /\ SameKept
      BY <1>6, KeptSame DEF vars, coreVars, msgVars, boxVars, qVars, SameMsgs, SameKept
    <2> QED
      BY <2>1, QuietStutter DEF SamePends, InPend, BeingDeleted
  <1> QED
    BY <1>1, <1>2, <1>3, <1>4, <1>5, <1>6 DEF Next

(***************************************************************************)
(* The functions of os_mbox.c and os_q.c do what MessageBox promises, for  *)
(* any number of tasks, boxes and messages and any queue size, whatever    *)
(* the application deletes or suspends: the ring keeps the order of its    *)
(* messages as it wraps, and a post hands its message to the most urgent   *)
(* waiter or to all of them, and to nobody else.  That a timeout does not  *)
(* swallow it and that only a full box refuses it are MessageOrTimeout and *)
(* OnlyFullRefuses.                                                        *)
(***************************************************************************)
THEOREM MessageBoxesImplement == Spec => ImplementsMessageBox
  <1>1. IInv /\ [Next]_vars => [Abstract!Next]_(Abstract!vars)
    BY NextAbs DEF BoxStep
  <1> QED
    BY <1>1, InitAbs, BoxInvariant, PTL DEF Spec, ImplementsMessageBox, Abstract!Spec
-----------------------------------------------------------------------------
(***************************************************************************)
(* What a pend reports.  A task that waits, timed out or not, is listed    *)
(* where it waits; one with a message in its TCB is in no list, and still  *)
(* inside the pend the message is for.                                     *)
(***************************************************************************)
Waits(p) == OSTCBPendTO[p] \/ OSTCBStat[p] \cap Pend # {}

ListedOK == \A p \in Task : Waits(p) => p \in OSEventTbl[arg[p]]

HandOK ==
  \A p \in Task : OSTCBMsg[p] # None =>
    /\ \A e \in Event : p \notin OSEventTbl[e]
    /\ Used(p) /\ ~BeingDeleted(p) => InPend(p)

TInv == ListedOK /\ HandOK

(* Waits end and messages go, lists shrink by those who wait no more.      *)
LEMMA FewerWait ==
  ASSUME IInv, TInv,
         \A u \in Task : Waits(u)' => Waits(u) /\ arg'[u] = arg[u],
         \A u \in Task, e \in Event :
           /\ u \in OSEventTbl[e] /\ Waits(u)' => u \in OSEventTbl'[e]
           /\ u \in OSEventTbl'[e] => u \in OSEventTbl[e],
         \A u \in Task : OSTCBMsg'[u] # None =>
           /\ OSTCBMsg[u] # None
           /\ Used(u)' /\ ~BeingDeleted(u)' =>
                /\ Used(u) /\ ~BeingDeleted(u)
                /\ InPend(u) => InPend(u)'
  PROVE  TInv'
  <1>1. ListedOK'
    <2> SUFFICES ASSUME NEW p \in Task, Waits(p)' PROVE p \in OSEventTbl'[arg'[p]]
      BY DEF ListedOK
    <2>1. Waits(p) /\ arg'[p] = arg[p] /\ p \in OSEventTbl[arg[p]]
      BY DEF TInv, ListedOK
    <2>2. arg[p] \in Event
      BY <2>1 DEF IInv, KInv, PendOK, ArgOK, OnBox, Waits
    <2> QED
      BY <2>1, <2>2
  <1>2. HandOK'
    <2> SUFFICES ASSUME NEW p \in Task, OSTCBMsg'[p] # None
                 PROVE  /\ \A e \in Event : p \notin OSEventTbl'[e]
                        /\ Used(p)' /\ ~BeingDeleted(p)' => InPend(p)'
      BY DEF HandOK
    <2> QED
      BY DEF TInv, HandOK
  <1> QED
    BY <1>1, <1>2 DEF TInv

(* The kernel core: a wait that ends early leaves its task listed.         *)
LEMMA InterruptT ==
  ASSUME IInv, TInv, Interrupt, CoreBoxes
  PROVE  TInv'
  <1>1. pc' = pc /\ arg' = arg /\ OSEventTbl' = OSEventTbl /\ OSTCBPrioTbl' = OSTCBPrioTbl
    BY DEF Interrupt, IrqEntry, IrqExit, TickEntry, TickOne, OSIntExit, tblVars
  <1>2. ASSUME NEW u \in Task, Waits(u)' PROVE Waits(u)
    <2>1. CASE IrqEntry \/ IrqExit \/ TickEntry \/ OSIntExit
      BY <1>2, <2>1 DEF Waits, IrqEntry, IrqExit, TickEntry, OSIntExit, tcbVars
    <2>2. ASSUME NEW p \in Task, TickOne(p) PROVE Waits(u)
      <3>1. CASE DlyExpired(p)
        BY <1>2, <2>2, <3>1, DlyExpiredOnly DEF IInv, Waits
      <3>2. CASE UNCHANGED <<OSTCBStat, OSTCBPendTO>>
        BY <1>2, <3>2 DEF Waits
      <3> QED
        BY <2>2, <3>1, <3>2 DEF TickOne
    <2> QED
      BY <2>1, <2>2 DEF Interrupt
  <1>3. \A u \in Task : /\ Used(u)' <=> Used(u)
                        /\ OSTCBMsg'[u] = OSTCBMsg[u]
                        /\ BeingDeleted(u)' <=> BeingDeleted(u)
                        /\ InPend(u)' <=> InPend(u)
    BY <1>1 DEF CoreBoxes, CreatedNoMsg, Used, BeingDeleted, InPend
  <1> QED
    BY <1>1, <1>2, <1>3, FewerWait

(* The task services, those that make and delete tasks apart. *)
LEMMA ServiceT ==
  ASSUME IInv, TInv, NEW t \in Task, CoreBoxes,
         \/ OS_Sched(t) \/ TcbTake(t) \/ TaskUnreserve(t)
         \/ \E n \in 1 .. MaxDly : OSTimeDly(t, n)
         \/ \E p \in Task \ {Idle} : OSTimeDlyResume(t, p) \/ TaskReserve(t, p)
         \/ \E p \in MaySuspend : OSTaskSuspend(t, p) \/ OSTaskResume(t, p)
         \/ OSSchedLock(t) \/ OSSchedUnlock(t)
  PROVE  TInv'
  <1>1. /\ OSEventTbl' = OSEventTbl
        /\ \A u \in Task \ {t} : pc'[u] = pc[u] /\ arg'[u] = arg[u]
        /\ pc[t] # "tcbFree" /\ pc'[t] # "tcbFree"
        /\ InPend(t) <=> InPend(t)'
        /\ InPend(t) => arg'[t] = arg[t]
    BY DEF IInv, KInv, CoreType, OSTimeDly, OSTimeDlyResume, TaskReserve, InPend,
           OSTaskSuspend, OSTaskResume, OSSchedLock, OSSchedUnlock, MayBlock,
           Calling, Reschedule, Return, Goto, OS_Sched, TcbTake, TaskUnreserve, At
  <1>2. \A u \in Task : Used(u)' => Used(u)
    <2>1. CASE OSTCBPrioTbl' = OSTCBPrioTbl
      BY <2>1 DEF Used
    <2>2. CASE TaskReserve(t, arg'[t]) \/ \E p \in Task : TaskReserve(t, p)
      BY <2>2 DEF TaskReserve, Used, IInv, KInv, CoreType
    <2>3. CASE TaskUnreserve(t)
      BY <2>3 DEF TaskUnreserve, Used, IInv, KInv, CoreType
    <2> QED
      BY <2>1, <2>2, <2>3
      DEF OSTimeDly, OSTimeDlyResume, OSTaskSuspend, OSTaskResume, OSSchedLock,
          OSSchedUnlock, OS_Sched, TcbTake, tblVars
  <1>3. ASSUME NEW u \in Task, Waits(u)' PROVE Waits(u)
    <2>1. CASE UNCHANGED <<OSTCBStat, OSTCBPendTO>>
      BY <1>3, <2>1 DEF Waits
    <2>2. ASSUME NEW p \in Task, OSTimeDlyResume(t, p) PROVE Waits(u)
      BY <1>3, <2>2, DlyExpiredOnly DEF IInv, Waits, OSTimeDlyResume
    <2>3. ASSUME NEW p \in MaySuspend, OSTaskSuspend(t, p) \/ OSTaskResume(t, p)
          PROVE  Waits(u)
      <3>1. OSTCBPendTO' = OSTCBPendTO /\ p \in Task
        BY <2>3, TargetAssumption DEF OSTaskSuspend, OSTaskResume
      <3>2. OSTCBStat'[u] \cap Pend = OSTCBStat[u] \cap Pend
        BY <2>3, <3>1 DEF OSTaskSuspend, OSTaskResume, Pend, IInv, KInv, CoreType
      <3> QED
        BY <1>3, <3>1, <3>2 DEF Waits
    <2> QED
      BY <2>1, <2>2, <2>3
      DEF OSTimeDly, TaskReserve, OSSchedLock, OSSchedUnlock, OS_Sched, TcbTake,
          TaskUnreserve, tcbVars
  <1>4. \A u \in Task : BeingDeleted(u)' <=> BeingDeleted(u)
    BY <1>1 DEF BeingDeleted
  <1>5. \A u \in Task : /\ Waits(u) => InPend(u)
                        /\ InPend(u) => arg'[u] = arg[u]
                        /\ InPend(u)' <=> InPend(u)
    BY <1>1 DEF IInv, KInv, PendOK, Waits, InPend
  <1>6. \A u \in Task : OSTCBMsg'[u] # None => OSTCBMsg[u] # None
    BY DEF CoreBoxes, CreatedNoMsg
  <1> QED
    BY <1>1, <1>2, <1>3, <1>4, <1>5, <1>6, FewerWait

(* A new task waits for nothing and has no message. *)
LEMMA LinkT ==
  ASSUME IInv, TInv, NEW t \in Task, TcbLink(t), CoreBoxes
  PROVE  TInv'
  <1>0. PICK p \in Task : p = arg[t]
    BY DEF IInv, KInv, ArgOK, Creating, TcbLink, At
  <1>1. pc[p] \in {"user", "sched", "tcbLink"} /\ ~Used(p)
    BY <1>0 DEF IInv, KInv, CreateOK, DeadOK, Creating, Used, TcbLink, At
  <1>2. /\ \A u \in Task \ {p, t} : pc'[u] = pc[u] /\ arg'[u] = arg[u]
        /\ pc[t] = "tcbLink" /\ pc'[t] = "sched" /\ pc'[p] \in {"user", "sched"}
        /\ OSEventTbl' = OSEventTbl
        /\ Used(p)' /\ \A u \in Task \ {p} : Used(u)' <=> Used(u)
        /\ ~Waits(p)' /\ \A u \in Task \ {p} : Waits(u)' <=> Waits(u)
    BY <1>0 DEF IInv, KInv, CoreType, TcbLink, At, Used, Waits, tcbVars
  <1>3. OSTCBMsg'[p] = None /\ \A u \in Task \ {p} : OSTCBMsg'[u] = OSTCBMsg[u]
    BY <1>1, <1>2 DEF CoreBoxes, CreatedNoMsg
  <1>4. \A u \in Task \ {p} : BeingDeleted(u)' <=> BeingDeleted(u)
    BY <1>1, <1>2 DEF BeingDeleted
  <1>5. ~InPend(t) /\ ~Waits(t)
    BY <1>2 DEF IInv, KInv, PendOK, Waits, InPend
  <1>6. \A u \in Task \ {p, t} : InPend(u)' <=> InPend(u)
    BY <1>2 DEF InPend
  <1> QED
    BY <1>2, <1>3, <1>4, <1>5, <1>6, FewerWait

(* Nor does a deleted one. *)
LEMMA DelUnlinkT ==
  ASSUME IInv, TInv, NEW t \in Task, NEW p \in MayDelete, TaskDelUnlink(t, p), CoreBoxes
  PROVE  TInv'
  <1>1. /\ p \in Task /\ pc[t] = "user"
        /\ \A u \in Task : ~BeingDeleted(u) /\ (BeingDeleted(u)' <=> u = p)
        /\ \A u \in Task : (InPend(u)' <=> InPend(u)) /\ (InPend(u) => arg'[u] = arg[u])
    BY TargetAssumption
    DEF IInv, KInv, CoreType, DelOK, BeingDeleted, InPend, TaskDelUnlink, MayBlock, Calling,
        Running, Goto
  <1>2. /\ ~Waits(p)' /\ \A u \in Task \ {p} : Waits(u)' <=> Waits(u)
        /\ \A u \in Task : Used(u)' <=> Used(u)
    BY <1>1 DEF IInv, KInv, CoreType, TaskDelUnlink, Waits, Used, tblVars
  <1>3. \A u \in Task : OSTCBMsg'[u] = OSTCBMsg[u]
    BY <1>2 DEF CoreBoxes, CreatedNoMsg
  <1>4. \A u \in Task, e \in Event : /\ u \in OSEventTbl'[e] => u \in OSEventTbl[e]
                                     /\ u \in OSEventTbl[e] /\ u # p => u \in OSEventTbl'[e]
    BY <1>1 DEF TaskDelUnlink, IInv, KInv, CoreType
  <1>5. \A u \in Task : Waits(u) => InPend(u)
    BY DEF IInv, KInv, PendOK, Waits
  <1> QED
    BY <1>1, <1>2, <1>3, <1>4, <1>5, FewerWait

LEMMA DelFreeT ==
  ASSUME IInv, TInv, NEW t \in Task, TaskDelFree(t), CoreBoxes
  PROVE  TInv'
  <1>0. PICK p \in Task : p = arg[t]
    BY DEF IInv, KInv, ArgOK, TaskDelFree, At
  <1>1. /\ pc[t] = "tcbFree"
        /\ \A u \in Task : ~BeingDeleted(u)' /\ (BeingDeleted(u) <=> u = p)
        /\ ~Waits(p)
    BY <1>0 DEF IInv, KInv, CoreType, ArgOK, DelOK, BeingDeleted, TaskDelFree, At, Waits
  <1>2. /\ \A u \in Task \ {p, t} : pc'[u] = pc[u] /\ arg'[u] = arg[u]
        /\ OSEventTbl' = OSEventTbl /\ \A u \in Task : Waits(u)' <=> Waits(u)
        /\ ~Used(p)' /\ \A u \in Task \ {p} : Used(u)' <=> Used(u)
    BY <1>0 DEF IInv, KInv, CoreType, TaskDelFree, At, Waits, Used, tcbVars
  <1>3. ~InPend(t) /\ ~Waits(t)
    BY <1>1 DEF IInv, KInv, PendOK, Waits, InPend
  <1>4. \A u \in Task \ {p, t} : InPend(u)' <=> InPend(u)
    BY <1>2 DEF InPend
  <1>5. \A u \in Task : OSTCBMsg'[u] # None => OSTCBMsg[u] # None
    BY DEF CoreBoxes, CreatedNoMsg
  <1> QED
    BY <1>1, <1>2, <1>3, <1>4, <1>5, FewerWait

LEMMA CoreT ==
  ASSUME IInv, TInv, CoreNext, CoreBoxes
  PROVE  TInv'
  <1>1. CASE Interrupt
    BY <1>1, InterruptT
  <1>2. ASSUME NEW t \in Task, KernelCall(t) PROVE TInv'
    BY <1>2, ServiceT, LinkT, DelFreeT DEF KernelCall
  <1>3. ASSUME NEW t \in Task, AppCall(t) PROVE TInv'
    BY <1>3, ServiceT, DelUnlinkT DEF AppCall
  <1> QED
    BY <1>1, <1>2, <1>3 DEF CoreNext

-----------------------------------------------------------------------------
(* The functions of mailboxes and queues: what a step of one task, t, that *)
(* begins or ends no deletion leaves as it is.                             *)
Moved(t) ==
  /\ pc[t] # "tcbFree" /\ pc'[t] # "tcbFree" /\ OSTCBPrioTbl' = OSTCBPrioTbl
  /\ \A u \in Task \ {t} : pc'[u] = pc[u] /\ arg'[u] = arg[u]

LEMMA MovedKeeps ==
  ASSUME NEW t \in Task, Moved(t)
  PROVE  \A u \in Task : /\ BeingDeleted(u)' <=> BeingDeleted(u)
                         /\ Used(u)' <=> Used(u)
                         /\ u # t => (InPend(u)' <=> InPend(u)) /\ arg'[u] = arg[u]
  BY DEF Moved, BeingDeleted, Used, InPend

LEMMA StillT ==
  ASSUME IInv, TInv, NEW t \in Task, Moved(t), ~InPend(t),
         UNCHANGED <<OSTCBStat, OSTCBPendTO, OSEventTbl, OSTCBMsg>>
  PROVE  TInv'
  <1>1. \A u \in Task : (Waits(u)' <=> Waits(u)) /\ (Waits(u) => InPend(u))
    BY DEF Waits, IInv, KInv, PendOK
  <1> QED
    BY <1>1, MovedKeeps, FewerWait

(* The tasks S that leave a wait list, with a message or without.          *)
LEMMA ServedT ==
  ASSUME IInv, TInv, NEW e \in Event, NEW S, S \subseteq OSEventTbl[e],
         EventTaskRdy(e, S, OSEventType[e]),
         \A u \in Task \ S : OSTCBMsg'[u] = OSTCBMsg[u],
         \A u \in Task : /\ BeingDeleted(u)' <=> BeingDeleted(u)
                         /\ Used(u)' <=> Used(u)
                         /\ InPend(u)' <=> InPend(u)
                         /\ InPend(u) => arg'[u] = arg[u]
  PROVE  TInv'
  <1>1. \A u \in S : /\ u \in Task /\ InPend(u)
                     /\ \A f \in Event : u \in OSEventTbl[f] => f = e
                     /\ OSTCBPendTO[u] \/ OSTCBStat[u] \cap Pend = {OSEventType[e]}
                     /\ OSTCBPendTO[u] => OSTCBStat[u] \cap Pend = {}
    BY DEF IInv, KInv, CoreType, WaitListed, PendOK
  <1>2. /\ OSEventTbl'[e] = OSEventTbl[e] \ S
        /\ \A f \in Event \ {e} : OSEventTbl'[f] = OSEventTbl[f]
        /\ \A u \in S : ~OSTCBPendTO'[u] /\ OSTCBStat'[u] = OSTCBStat[u] \ {OSEventType[e]}
        /\ \A u \in Task \ S : OSTCBPendTO'[u] = OSTCBPendTO[u] /\ OSTCBStat'[u] = OSTCBStat[u]
    BY <1>1 DEF EventTaskRdy, IInv, KInv, CoreType
  <1>3. \A u \in S : ~Waits(u)'
    BY <1>1, <1>2 DEF Waits
  <1>4. \A u \in Task \ S : (Waits(u)' <=> Waits(u)) /\ (Waits(u) => InPend(u))
    BY <1>2 DEF Waits, IInv, KInv, PendOK
  <1>5. ListedOK'
    <2> SUFFICES ASSUME NEW p \in Task, Waits(p)' PROVE p \in OSEventTbl'[arg'[p]]
      BY DEF ListedOK
    <2>1. p \notin S /\ Waits(p) /\ InPend(p) /\ arg'[p] = arg[p]
      BY <1>3, <1>4
    <2>2. arg[p] \in Event /\ p \in OSEventTbl[arg[p]]
      BY <2>1 DEF IInv, KInv, ArgOK, OnBox, TInv, ListedOK
    <2> QED
      BY <1>2, <2>1, <2>2
  <1>6. HandOK'
    <2> SUFFICES ASSUME NEW p \in Task, OSTCBMsg'[p] # None
                 PROVE  /\ \A f \in Event : p \notin OSEventTbl'[f]
                        /\ Used(p)' /\ ~BeingDeleted(p)' => InPend(p)'
      BY DEF HandOK
    <2>1. CASE p \in S
      BY <1>1, <1>2, <2>1
    <2>2. CASE p \notin S
      BY <1>2, <2>2 DEF TInv, HandOK
    <2> QED
      BY <2>1, <2>2
  <1> QED
    BY <1>5, <1>6 DEF TInv

(* A call that takes, looks, flushes, creates or begins. *)
LEMMA QuietT ==
  ASSUME IInv, TInv, NEW t \in Task,
         \/ MboxTake(t) \/ QTake(t) \/ QAcceptNone(t) \/ OSQFlush(t)
         \/ QcbTake(t) \/ QCreate(t)
         \/ \E m \in Msg \cup {None} : MboxCreate(t, m)
         \/ BoxTake(t, "mboxInit") \/ BoxTake(t, "qcbTake")
         \/ \E f \in Regions, e \in Event : MsgCall(t, f, e)
  PROVE  TInv'
  <1>1. UNCHANGED <<OSTCBStat, OSTCBPendTO, OSTCBPrioTbl, OSTCBMsg>>
    BY DEF MboxTake, QTake, QAcceptNone, OSQFlush, QcbTake, QCreate, MboxCreate,
           BoxTake, MsgCall, tcbVars, tblVars, msgVars
  <1>2. OSEventTbl' = OSEventTbl
    <2>1. CASE QCreate(t) \/ \E m \in Msg \cup {None} : MboxCreate(t, m)
      BY <2>1, QCreateStep, MboxCreateStep
    <2> QED
      BY <2>1 DEF MboxTake, QTake, QAcceptNone, OSQFlush, QcbTake, BoxTake, MsgCall
  <1>3. PICK l \in Label \ {"schedPend", "pended", "tcbFree"} : pc[t] = l
    BY DEF MboxTake, QTake, QAcceptNone, OSQFlush, QcbTake, QCreate, MboxCreate,
           BoxTake, MsgCall, At, Calling, Label, Regions
  <1>4. PICK k \in Label \ {"tcbFree"} : \E a : Goto(t, k, a)
    BY DEF MboxTake, QTake, QAcceptNone, OSQFlush, QcbTake, QCreate, MboxCreate,
           BoxTake, MsgCall, Return, Label, Regions
  <1>5. Moved(t) /\ ~InPend(t)
    BY <1>1, <1>3, <1>4 DEF Moved, InPend, Goto, IInv, KInv, CoreType
  <1> QED
    BY <1>1, <1>2, <1>5, StillT

(* A task that begins to wait has no message left. *)
LEMMA WaitT ==
  ASSUME IInv, TInv, NEW t \in Task, NEW n \in 0 .. MaxDly, MsgWait(t, n)
  PROVE  TInv'
  <1>1. PICK e \in Event : e = arg[t]
    BY AtBox, Labels DEF MsgWait
  <1>2. /\ pc[t] \in {"mboxPend", "qPend"} /\ pc'[t] = "schedPend" /\ arg'[t] = e
        /\ t = OSPrioCur /\ Moved(t)
        /\ OSEventTbl' = [OSEventTbl EXCEPT ![e] = @ \cup {t}]
        /\ OSTCBMsg' = OSTCBMsg
        /\ \A u \in Task \ {t} : OSTCBStat'[u] = OSTCBStat[u] /\ OSTCBPendTO'[u] = OSTCBPendTO[u]
    BY <1>1 DEF IInv, KInv, CoreType, MsgWait, EventTaskWait, At, Running, Goto, msgVars,
                Moved, tblVars
  <1>3. Used(t) /\ ~BeingDeleted(t) /\ ~InPend(t)
    BY <1>2 DEF IInv, KInv, CurOK, Leaving, ReadyExact, InPend
  <1>4. OSTCBMsg[t] = None
    BY <1>3 DEF TInv, HandOK
  <1>5. /\ \A u \in Task, f \in Event : u \in OSEventTbl'[f] => u = t \/ u \in OSEventTbl[f]
        /\ \A f \in Event : OSEventTbl[f] \subseteq OSEventTbl'[f]
        /\ t \in OSEventTbl'[e]
    BY <1>2 DEF IInv, KInv, CoreType
  <1>6. ListedOK'
    <2> SUFFICES ASSUME NEW p \in Task, Waits(p)', p # t PROVE p \in OSEventTbl'[arg'[p]]
      BY <1>2, <1>5 DEF ListedOK
    <2>1. Waits(p) /\ arg'[p] = arg[p]
      BY <1>2, MovedKeeps DEF Waits
    <2>2. arg[p] \in Event /\ p \in OSEventTbl[arg[p]]
      BY <2>1 DEF IInv, KInv, PendOK, ArgOK, OnBox, Waits, TInv, ListedOK
    <2> QED
      BY <1>5, <2>1, <2>2
  <1>7. HandOK'
    <2> SUFFICES ASSUME NEW p \in Task, OSTCBMsg'[p] # None
                 PROVE  /\ \A f \in Event : p \notin OSEventTbl'[f]
                        /\ Used(p)' /\ ~BeingDeleted(p)' => InPend(p)'
      BY DEF HandOK
    <2>1. p # t /\ OSTCBMsg[p] # None
      BY <1>2, <1>4
    <2> QED
      BY <1>2, <1>5, <2>1, MovedKeeps DEF TInv, HandOK
  <1> QED
    BY <1>6, <1>7 DEF TInv

(* One that timed out had none, and one that was handed one takes it.      *)
LEMMA PendedT ==
  ASSUME IInv, TInv, NEW t \in Task, MsgPended(t)
  PROVE  TInv'
  <1>1. PICK e \in Event : e = arg[t]
    BY DEF IInv, KInv, ArgOK, OnBox, InPend, MsgPended, At
  <1>2. /\ pc[t] = "pended" /\ t = OSPrioCur /\ Moved(t)
    BY DEF IInv, KInv, CoreType, MsgPended, At, Running, Return, Goto, Moved, tblVars
  <1>3. t \in OSRdyTbl /\ OSTCBStat[t] = {}
    BY <1>2 DEF IInv, KInv, CurOK, Leaving, ReadyExact
  <1>4. OSTCBMsg'[t] = None /\ \A u \in Task \ {t} : OSTCBMsg'[u] = OSTCBMsg[u]
    <2>1. CASE EventTO(t) /\ UNCHANGED OSTCBMsg
      <3>1. t \in OSEventTbl[e]
        BY <1>1, <2>1 DEF EventTO, TInv, ListedOK, Waits
      <3> QED
        BY <2>1, <3>1 DEF TInv, HandOK
    <2>2. CASE OSTCBMsg' = [OSTCBMsg EXCEPT ![t] = None]
      BY <2>2 DEF IInv, MInv, BoxType
    <2> QED
      BY <2>1, <2>2 DEF MsgPended
  <1>5. /\ ~Waits(t)'
        /\ \A u \in Task \ {t} : OSTCBStat'[u] = OSTCBStat[u] /\ OSTCBPendTO'[u] = OSTCBPendTO[u]
    BY <1>3 DEF MsgPended, EventTO, EventGot, Waits, IInv, KInv, CoreType
  <1>6. \A u \in Task : Waits(u)' => u # t /\ Waits(u)
    BY <1>5 DEF Waits
  <1>7. \A u \in Task, f \in Event : /\ u \in OSEventTbl'[f] => u \in OSEventTbl[f]
                                     /\ u \in OSEventTbl[f] /\ u # t => u \in OSEventTbl'[f]
    BY <1>1 DEF MsgPended, EventTO, EventGot, IInv, KInv, CoreType
  <1> QED
    BY <1>2, <1>4, <1>6, <1>7, MovedKeeps, FewerWait

(* A post, whoever makes it. *)
LEMMA PostT ==
  ASSUME IInv, TInv, NEW e \in Event, NEW m \in Msg, NEW o, PostRegion(e, m, o),
         \A u \in Task : /\ BeingDeleted(u)' <=> BeingDeleted(u)
                         /\ Used(u)' <=> Used(u)
                         /\ InPend(u)' <=> InPend(u)
                         /\ InPend(u) => arg'[u] = arg[u]
  PROVE  TInv'
  <1>1. CASE PostHand(e, m, o)
    <2>1. Served(e, o) \subseteq OSEventTbl[e]
      BY <1>1, ServedIn DEF PostHand, IInv
    <2>2. EventTaskRdy(e, Served(e, o), OSEventType[e])
      BY <1>1 DEF PostHand, HandOver
    <2>3. \A u \in Task \ Served(e, o) : OSTCBMsg'[u] = OSTCBMsg[u]
      BY <1>1 DEF PostHand, HandOver
    <2> QED
      BY <2>1, <2>2, <2>3, ServedT
  <1>2. CASE UNCHANGED <<tcbVars, OSEventTbl, OSTCBMsg>>
    <2>1. \A u \in Task : (Waits(u)' <=> Waits(u)) /\ (Waits(u) => InPend(u))
      BY <1>2 DEF Waits, tcbVars, IInv, KInv, PendOK
    <2> QED
      BY <1>2, <2>1, FewerWait
  <1> QED
    BY <1>1, <1>2 DEF PostRegion, MboxRegion, QRegion, MboxKeep, QKeep, Refused

LEMMA TaskPostT ==
  ASSUME IInv, TInv, NEW t \in Task, NEW m \in Msg,
         \/ OSQPost(t, m) \/ OSQPostFront(t, m)
         \/ \E o \in PostOpts \cup {{}} : MboxPost(t, m, o)
         \/ \E o \in PostOpts : OSQPostOpt(t, m, o)
  PROVE  TInv'
  <1>1. /\ arg[t] \in Event /\ pc[t] \in Regions /\ pc'[t] \in {"user", "sched"}
        /\ \A u \in Task \ {t} : pc'[u] = pc[u] /\ arg'[u] = arg[u]
        /\ \E o : PostRegion(arg[t], m, o)
    BY TaskPostStep
  <1>2. OSTCBPrioTbl' = OSTCBPrioTbl
    BY DEF OSQPost, OSQPostFront, MboxPost, OSQPostOpt, PostReturn, tblVars
  <1>3. Moved(t) /\ ~InPend(t) /\ ~InPend(t)'
    BY <1>1, <1>2 DEF Moved, InPend, Regions
  <1> QED
    BY <1>1, <1>3, MovedKeeps, PostT

LEMMA IrqPostT ==
  ASSUME IInv, TInv, NEW e \in IrqEvent, NEW m \in Msg, IrqMsgPost(e, m)
  PROVE  TInv'
  <1>1. e \in Event /\ PostRegion(e, m, {}) /\ UNCHANGED <<pc, arg, OSTCBPrioTbl>>
    BY MsgAssumption DEF IrqMsgPost, PostRegion, tblVars
  <1> QED
    BY <1>1, PostT DEF BeingDeleted, Used, InPend

(* A deletion sends every waiter away with nothing. *)
LEMMA BoxDelT ==
  ASSUME IInv, TInv, NEW t \in Task, NEW opt \in DelOpts, MboxDel(t, opt) \/ QDel(t, opt)
  PROVE  TInv'
  <1>1. /\ arg[t] \in Event /\ pc[t] \in Regions /\ pc'[t] \in {"user", "sched"}
        /\ \A u \in Task \ {t} : pc'[u] = pc[u] /\ arg'[u] = arg[u]
    BY BoxDelStep
  <1>2. OSTCBPrioTbl' = OSTCBPrioTbl /\ BoxFree(t, opt) /\ OSEventType[arg[t]] = TypeOf(pc[t])
    BY <1>1 DEF MboxDel, QDel, tblVars, IInv, MInv, RegionOK
  <1>3. Moved(t) /\ ~InPend(t) /\ ~InPend(t)'
    BY <1>1, <1>2 DEF Moved, InPend, Regions
  <1>4. CASE UNCHANGED <<tcbVars, OSEventTbl, OSTCBMsg>>
    BY <1>3, <1>4, StillT DEF tcbVars
  <1>5. CASE /\ EventTaskRdy(arg[t], OSEventTbl[arg[t]], TypeOf(pc[t]))
             /\ OSTCBMsg' = [p \in Task |-> IF p \in OSEventTbl[arg[t]] THEN None
                                                                        ELSE OSTCBMsg[p]]
    <2>1. \A u \in Task \ OSEventTbl[arg[t]] : OSTCBMsg'[u] = OSTCBMsg[u]
      BY <1>5
    <2> QED
      BY <1>1, <1>2, <1>3, <1>5, <2>1, MovedKeeps, ServedT
  <1> QED
    BY <1>2, <1>4, <1>5 DEF BoxFree

-----------------------------------------------------------------------------
LEMMA NextT == IInv /\ TInv /\ [Next]_vars => TInv'
  <1> SUFFICES ASSUME IInv, TInv, [Next]_vars PROVE TInv'
    OBVIOUS
  <1>1. CASE CoreNext /\ CreatedNoMsg /\ UNCHANGED <<boxVars, OSEventPtr, qVars>>
    BY <1>1, CoreT DEF CoreBoxes
  <1>2. ASSUME NEW e \in IrqEvent, NEW m \in Msg, IrqMsgPost(e, m) PROVE TInv'
    BY <1>2, IrqPostT
  <1>3. ASSUME NEW t \in Task, MsgKernel(t) PROVE TInv'
    BY <1>3, QuietT, WaitT, PendedT, TaskPostT, BoxDelT DEF MsgKernel
  <1>4. ASSUME NEW t \in Task, BoxTake(t, "mboxInit") \/ BoxTake(t, "qcbTake") PROVE TInv'
    BY <1>4, QuietT
  <1>5. ASSUME NEW t \in Task, NEW f \in Regions, NEW e \in Event, MsgCall(t, f, e) PROVE TInv'
    BY <1>5, QuietT
  <1>6. CASE UNCHANGED vars
    BY <1>6 DEF TInv, ListedOK, HandOK, Waits, InPend, Used, BeingDeleted, vars, coreVars,
                msgVars, tcbVars, tblVars
  <1> QED
    BY <1>1, <1>2, <1>3, <1>4, <1>5, <1>6 DEF Next

(***************************************************************************)
(* OSMboxPend and OSQPend report OS_TIMEOUT exactly to the tasks that      *)
(* nothing has taken off the wait list, and such a task has no message,    *)
(* for any number of tasks, boxes and messages, whatever is deleted: a     *)
(* post that comes after the tick is delivered, not swallowed.             *)
(***************************************************************************)
THEOREM MessageOrTimeout == Spec => []TimeoutOrMessage
  <1>1. Init => TInv
    BY DEF Init, CoreInit, TInv, ListedOK, HandOK, Waits
  <1>2. IInv /\ TInv => TimeoutOrMessage
    <2> SUFFICES ASSUME IInv, TInv, NEW t \in Task, At(t, "pended")
                 PROVE  /\ OSTCBPendTO[t] <=> t \in OSEventTbl[arg[t]]
                        /\ OSTCBPendTO[t] => OSTCBMsg[t] = None
      BY DEF TimeoutOrMessage
    <2>1. arg[t] \in Event /\ t \in OSRdyTbl
      BY DEF IInv, KInv, ArgOK, OnBox, InPend, CurOK, Leaving, At, Running
    <2>2. OSTCBStat[t] = {}
      BY <2>1 DEF IInv, KInv, ReadyExact
    <2>3. OSTCBPendTO[t] <=> t \in OSEventTbl[arg[t]]
      BY <2>1, <2>2 DEF IInv, KInv, PendOK, TInv, ListedOK, Waits
    <2> QED
      BY <2>1, <2>3 DEF TInv, HandOK
  <1> QED
    BY <1>1, <1>2, NextT, BoxInvariant, PTL DEF Spec

-----------------------------------------------------------------------------
(* Whatever a posting task does next, it is the post. *)
LEMMA PostsOnly ==
  ASSUME IInv, [Next]_vars, NEW t \in Task, Posting(t), pc'[t] # pc[t]
  PROVE  /\ \E m \in Msg : \E o : PostRegion(arg[t], m, o)
         /\ arg[t] \in Event /\ OSEventType' = OSEventType
  <1>1. /\ ~irq /\ ~tick /\ OSPrioCur = t
        /\ pc[t] \in {"mboxPost", "qPost", "qPostFront"}
    BY DEF Posting, At, Running
  <1>2. ~CoreNext
    <2>1. ~Interrupt
      BY DEF Interrupt, IrqEntry, IrqExit, TickEntry, TickOne, OSIntExit
    <2>2. \A u \in Task : ~KernelCall(u)
      BY <1>1 DEF KernelCall, OS_Sched, TcbTake, TcbLink, TaskUnreserve, TaskDelFree,
                  At, Running
    <2>3. \A u \in Task : ~AppCall(u)
      BY <1>1 DEF AppCall, OSTimeDly, OSTimeDlyResume, TaskReserve, OSTaskSuspend,
                  OSTaskResume, TaskDelUnlink, OSSchedLock, OSSchedUnlock, MayBlock,
                  Calling, Running
    <2> QED
      BY <2>1, <2>2, <2>3 DEF CoreNext
  <1>3. \A u \in Task : /\ ~BoxTake(u, "mboxInit") /\ ~BoxTake(u, "qcbTake")
                        /\ \A f \in Regions, e \in Event : ~MsgCall(u, f, e)
    BY <1>1 DEF BoxTake, MsgCall, Calling, Running
  <1>4. \A e \in IrqEvent, m \in Msg : ~IrqMsgPost(e, m)
    BY <1>1 DEF IrqMsgPost
  <1>5. PICK u \in Task : MsgKernel(u)
    <2>1. ~UNCHANGED vars
      BY DEF vars, coreVars
    <2>2. Next
      BY <2>1
    <2> QED
      BY <1>2, <1>3, <1>4, <2>2, Zenon DEF Next
  <1>6. PICK m \in Msg : \/ OSQPost(u, m) \/ OSQPostFront(u, m)
                         \/ \E o \in PostOpts \cup {{}} : MboxPost(u, m, o)
                         \/ \E o \in PostOpts : OSQPostOpt(u, m, o)
    BY <1>1, <1>5 DEF MsgKernel, MboxTake, QTake, QAcceptNone, MsgPended, OSQFlush, QcbTake,
                      QCreate, MsgWait, MboxCreate, MboxDel, QDel, At, Running
  <1>7. u = t
    BY <1>1, <1>6 DEF OSQPost, OSQPostFront, MboxPost, OSQPostOpt, At, Running
  <1> QED
    BY <1>6, <1>7, TaskPostStep

(* A post hands its message over, keeps it, or finds the box full.         *)
LEMMA PostEnds ==
  ASSUME IInv, NEW e \in Event, NEW m \in Msg, NEW o, PostRegion(e, m, o),
         OSEventType' = OSEventType
  PROVE  \/ \E u \in OSEventTbl[e] : u \notin OSEventTbl'[e] /\ OSTCBMsg'[u] \in Msg
         \/ Len(Kept(e)') = Len(Kept(e)) + 1
         \/ OSEventTbl[e] = {} /\ Len(Kept(e)) = Capacity(e)
  <1>1. CASE PostHand(e, m, o)
    <2>1. Served(e, o) \subseteq OSEventTbl[e] /\ Served(e, o) # {}
          /\ Served(e, o) \in SUBSET Task
      BY <1>1, ServedIn DEF PostHand, IInv
    <2>2. PICK u : u \in Served(e, o)
      BY <2>1
    <2>3. u \notin OSEventTbl'[e] /\ OSTCBMsg'[u] = m
      BY <1>1, <2>1, <2>2 DEF PostHand, HandOver, EventTaskRdy, IInv, KInv, CoreType
    <2> QED
      BY <2>1, <2>2, <2>3
  <1>2. OSEventType[e] = "MBOX" => Kept(e) \in Seq(Msg)
    <2> SUFFICES ASSUME OSEventType[e] = "MBOX" PROVE Kept(e) \in Seq(Msg)
      OBVIOUS
    <2>1. OSEventPtr[e] \in Msg \cup {None}
      BY DEF IInv, MInv, MboxOK
    <2>2. CASE OSEventPtr[e] = None
      <3>1. Kept(e) = << >>
        BY <2>2, KeptIs
      <3>2. << >> \in Seq(Msg)
        OBVIOUS
      <3> QED
        BY <3>1, <3>2
    <2>3. CASE OSEventPtr[e] # None
      <3>1. Kept(e) = <<OSEventPtr[e]>> /\ OSEventPtr[e] \in Msg
        BY <2>1, <2>3, KeptIs
      <3> QED
        BY <3>1
    <2> QED
      BY <2>2, <2>3
  <1>3. OSEventType[e] = "Q" => /\ RingType(QueueOf(e)) /\ Kept(e) = InRing(QueueOf(e))
                                /\ Kept(e) \in Seq(Msg) /\ Len(Kept(e)) = QueueOf(e).Entries
    <2> SUFFICES ASSUME OSEventType[e] = "Q"
                 PROVE  RingType(QueueOf(e)) /\ Kept(e) = InRing(QueueOf(e))
      BY InRingIs
    <2>1. OSEventPtr[e] \in Qcb
      BY DEF Owns, IInv, MInv, OwnOK
    <2> QED
      BY <2>1, KeptIs DEF IInv, MInv, BoxType, RingType, QueueOf
  <1>4. CASE \/ OSEventType[e] = "MBOX" /\ MboxKeep(e, m)
             \/ OSEventType[e] = "Q" /\ QKeep(e, m, o)
    <2>1. Kept(e)' = Append(Kept(e), m) \/ Kept(e)' = <<m>> \o Kept(e)
      BY <1>4, KeptGrows
    <2>2. Kept(e) \in Seq(Msg)
      BY <1>2, <1>3, <1>4
    <2>3. \A s \in Seq(Msg) : Len(Append(s, m)) = Len(s) + 1 /\ Len(<<m>> \o s) = Len(s) + 1
      OBVIOUS
    <2> QED
      BY <2>1, <2>2, <2>3
  <1>5. CASE OSEventType[e] = "MBOX" /\ Refused(e, OSEventPtr[e] # None)
    <2>1. OSEventTbl[e] = {} /\ Kept(e) = <<OSEventPtr[e]>> /\ Capacity(e) = 1
      BY <1>5, KeptIs DEF Refused, Capacity
    <2> QED
      BY <2>1
  <1>6. CASE OSEventType[e] = "Q" /\ Refused(e, RingFull(QueueOf(e)))
    <2>1. QueueOf(e).Entries \in 0 .. QSize
      BY <1>3, <1>6, RingAtAfter
    <2> QED
      BY <1>3, <1>6, <2>1, MsgAssumption DEF Refused, RingFull, Capacity
  <1> QED
    BY <1>1, <1>4, <1>5, <1>6 DEF PostRegion, MboxRegion, QRegion

(***************************************************************************)
(* A task's post returns OS_MBOX_FULL or OS_Q_FULL only if nobody waits    *)
(* and the box holds all it can, for any queue size and whatever posts,    *)
(* pends, flushes and creations came before.                               *)
(***************************************************************************)
THEOREM OnlyFullRefuses == Spec => RefusedOnlyFull
  <1> DEFINE Ends(t, e) ==
        Posting(t) /\ arg[t] = e /\ pc'[t] # pc[t] =>
          \/ \E u \in OSEventTbl[e] : u \notin OSEventTbl'[e] /\ OSTCBMsg'[u] \in Msg
          \/ Len(Kept(e)') = Len(Kept(e)) + 1
          \/ OSEventTbl[e] = {} /\ Len(Kept(e)) = Capacity(e)
  <1>1. IInv /\ [Next]_vars => [\A t \in Task, e \in Event : Ends(t, e)]_vars
    <2> SUFFICES ASSUME IInv, [Next]_vars, NEW t \in Task, NEW e \in Event,
                        Posting(t), arg[t] = e, pc'[t] # pc[t]
                 PROVE  Ends(t, e)
      OBVIOUS
    <2> QED
      BY PostsOnly, PostEnds
  <1> QED
    BY <1>1, BoxInvariant, PTL DEF Spec, RefusedOnlyFull
=============================================================================
