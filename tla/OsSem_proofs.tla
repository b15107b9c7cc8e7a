---------------------------- MODULE OsSem_proofs ----------------------------
(***************************************************************************)
(* Proofs about the kernel core, its tasks and its semaphores, for any set *)
(* of tasks, events, initial semaphores and bounds, and whatever the tasks *)
(* call.                                                                   *)
(***************************************************************************)
EXTENDS OsSem, WellFoundedInduction, FiniteSetTheorems, TLAPS

InPend(t) == pc[t] \in {"schedPend", "pended"}
Creating(t) == pc[t] \in {"tcbTake", "tcbLink", "unreserve"}
OnEvent(t) == pc[t] \in SemCalls \cup {"semInit", "schedPend", "pended"}

(* OSIntNesting counts the active handlers. *)
NestingOK ==
  OSIntNesting = (IF irq THEN 1 ELSE 0) + (IF tick THEN 1 ELSE 0)

(* The idle task exists, is always ready and makes no call. *)
IdleOK == /\ Used(Idle) /\ pc[Idle] = "user"
          /\ OSTCBStat[Idle] = {} /\ OSTCBDly[Idle] = 0
          /\ Idle \notin tickLeft

(* Each call is about what it should be about. *)
ArgOK ==
  \A t \in Task : /\ OnEvent(t) => arg[t] \in Event
                  /\ Creating(t) \/ pc[t] = "tcbFree" => arg[t] \in Task \ {Idle}

(* A priority that is being given to a new task is reserved, and for one.  *)
CreateOK ==
  /\ \A t \in Task : Creating(t) => OSTCBPrioTbl[arg[t]] = "reserved"
  /\ \A t, u \in Task : Creating(t) /\ Creating(u) /\ arg[t] = arg[u] => t = u

(* A deletion that is in progress: it holds the lock, so it is the running *)
(* task's, and no tick or post can touch its victim any more.              *)
DelOK ==
  \A t \in Task : pc[t] = "tcbFree" =>
    /\ t = OSPrioCur /\ OSLockNesting > 0
    /\ arg[t] = t => OSLockNesting = 1
    /\ Used(arg[t]) /\ OSTCBStat[arg[t]] = {} /\ OSTCBDly[arg[t]] = 0
    /\ ~OSTCBPendTO[arg[t]]
    /\ \A e \in Event : arg[t] \notin OSEventTbl[e]

DeadOK == \A p \in Task : ~Used(p) => /\ OSTCBStat[p] = {} /\ OSTCBDly[p] = 0
                                      /\ ~OSTCBPendTO[p]

(* A task waits with the pending status, or has been timed out; never both. *)
PendOK ==
  \A p \in Task :
    /\ OSTCBStat[p] \subseteq {"SEM", "SUSPEND"}
    /\ "SEM" \in OSTCBStat[p] => InPend(p)
    /\ OSTCBPendTO[p] => /\ InPend(p) /\ "SEM" \notin OSTCBStat[p]
                         /\ OSTCBDly[p] = 0
    /\ \A e \in Event : p \in OSEventTbl[e]
                        => "SEM" \in OSTCBStat[p] \/ OSTCBPendTO[p]

(* The task that has the CPU is ready unless it is about to give it up; it *)
(* never gives it up while it holds the scheduler lock.                    *)
CurOK ==
  /\ pc[OSPrioCur] \notin Leaving => OSPrioCur \in OSRdyTbl
  /\ pc[OSPrioCur] = "tcbFree" /\ arg[OSPrioCur] # OSPrioCur
       => OSPrioCur \in OSRdyTbl
  /\ OSLockNesting > 0 =>
       /\ pc[OSPrioCur] \notin {"semPend", "schedPend", "pended"}
       /\ pc[OSPrioCur] # "tcbFree" => OSPrioCur \in OSRdyTbl

IInv == /\ TypeOK /\ NestingOK /\ IdleOK /\ ArgOK /\ CreateOK /\ DelOK /\ DeadOK
        /\ PendOK /\ CurOK /\ WaitListed /\ ReadyExact /\ NoLostWakeup

-----------------------------------------------------------------------------
(* Highest returns the least element: it exists, tasks being naturals. *)
LEMMA HighestIn ==
  ASSUME NEW S \in SUBSET Task, S # {}
  PROVE  Highest(S) \in S /\ \A q \in S : Highest(S) <= q
  <1>1. \E p \in S : \A q \in S : <<q, p>> \notin OpToRel(<, Nat)
    <2>1. S \subseteq Nat
      BY CoreAssumption
    <2> QED
      BY <2>1, WFMin, NatLessThanWellFounded
  <1>2. \E p \in S : \A q \in S : p <= q
    <2>1. PICK p \in S : \A q \in S : <<q, p>> \notin OpToRel(<, Nat)
      BY <1>1
    <2>2. \A q \in S : q \in Nat /\ p \in Nat
      BY CoreAssumption
    <2>3. \A q \in S : ~(q < p)
      BY <2>1, <2>2 DEF OpToRel
    <2> QED
      BY <2>2, <2>3
  <1> QED
    BY <1>2 DEF Highest

LEMMA InitIInv == Init => IInv
  <1> SUFFICES ASSUME Init PROVE IInv
    OBVIOUS
  <1> USE CoreAssumption, SemAssumption DEF Init, CoreInit
  <1>1. TypeOK
    <2>1. OSPrioCur \in Task
      BY HighestIn
    <2>2. OSEventCnt \in [Event -> 0 .. MaxCnt]
      OBVIOUS
    <2>3. /\ OSTCBDly \in [Task -> 0 .. MaxDly] /\ OSTCBStat \in [Task -> SUBSET Stat]
          /\ pc \in [Task -> Label]
      BY DEF Label
    <2> QED
      BY <2>1, <2>2, <2>3 DEF TypeOK
  <1>2. NestingOK /\ IdleOK /\ DeadOK /\ PendOK
    BY DEF NestingOK, IdleOK, DeadOK, PendOK, Used, InPend
  <1>3. ArgOK /\ CreateOK /\ DelOK
    BY DEF ArgOK, CreateOK, DelOK, OnEvent, Creating, SemCalls
  <1>4. CurOK
    BY HighestIn DEF CurOK, Leaving
  <1>5. WaitListed /\ NoLostWakeup
    BY DEF WaitListed, NoLostWakeup
  <1>6. ReadyExact
    BY DEF ReadyExact, Used, BeingDeleted
  <1> QED
    BY <1>1, <1>2, <1>3, <1>4, <1>5, <1>6 DEF IInv

(* The most urgent ready task exists: the idle task is ready. *)
LEMMA HighestReady == IInv => Highest(OSRdyTbl) \in OSRdyTbl
  <1> SUFFICES ASSUME IInv PROVE OSRdyTbl # {}
    BY HighestIn DEF IInv, TypeOK
  <1> QED
    BY CoreAssumption DEF IInv, IdleOK, ReadyExact, BeingDeleted, ArgOK

(* What the end of a delay changes: p's status and timeout, no one else's. *)
LEMMA DlyExpiredOnly ==
  ASSUME IInv, NEW p \in Task, DlyExpired(p)
  PROVE  /\ OSTCBStat'[p] = OSTCBStat[p] \ Pend
         /\ OSTCBPendTO'[p] = ("SEM" \in OSTCBStat[p])
         /\ \A q \in Task \ {p} : /\ OSTCBStat'[q] = OSTCBStat[q]
                                  /\ OSTCBPendTO'[q] = OSTCBPendTO[q]
  <1>1. OSTCBStat[p] \cap Pend # {} <=> "SEM" \in OSTCBStat[p]
    BY DEF IInv, PendOK, Pend
  <1> QED
    BY <1>1 DEF IInv, TypeOK, DlyExpired

-----------------------------------------------------------------------------
LEMMA IrqEntryStep ==
  ASSUME IInv, IrqEntry /\ UNCHANGED semVars
  PROVE  IInv'
  BY CoreAssumption, SMTT(60)
  DEF IInv, TypeOK, NestingOK, IdleOK, ArgOK, CreateOK, DelOK, DeadOK, PendOK,
      CurOK, WaitListed, ReadyExact, NoLostWakeup, BeingDeleted, Leaving,
      InPend, Creating, OnEvent, Used, Pend, Stat, Label, SemCalls, coreVars,
      cpuVars, tblVars, tcbVars, semVars, IrqEntry

LEMMA IrqExitStep ==
  ASSUME IInv, IrqExit /\ UNCHANGED semVars
  PROVE  IInv'
  <1> USE DEF IInv, TypeOK, cpuVars, tblVars, tcbVars, semVars, IrqExit
  <1>1. TypeOK'
    <2>1. OSIntNesting' \in Nat
      BY DEF NestingOK
    <2> QED
      BY <2>1
  <1>2. NestingOK' /\ IdleOK' /\ ArgOK' /\ CreateOK' /\ DeadOK'
    BY CoreAssumption, SMTT(60)
    DEF NestingOK, IdleOK, Used, ArgOK, WaitListed, Creating, OnEvent,
        SemCalls, InPend, CreateOK, DelOK, DeadOK
  <1>3. DelOK'
    BY CoreAssumption, SMTT(60) DEF DelOK, Used
  <1>4. PendOK'
    BY CoreAssumption, SMTT(60) DEF PendOK, InPend, Pend
  <1>5. CurOK'
    BY CoreAssumption, SMTT(60) DEF CurOK, Leaving
  <1>6. WaitListed'
    BY CoreAssumption, SMTT(60) DEF WaitListed, Used
  <1>7. NoLostWakeup'
    BY CoreAssumption, SMTT(60) DEF NoLostWakeup
  <1>8. ReadyExact'
    BY CoreAssumption, SMTT(60) DEF ReadyExact, Used, BeingDeleted
  <1> QED
    BY <1>1, <1>2, <1>3, <1>4, <1>5, <1>6, <1>7, <1>8 DEF IInv

LEMMA TickEntryStep ==
  ASSUME IInv, TickEntry /\ UNCHANGED semVars
  PROVE  IInv'
  BY CoreAssumption, SMTT(60)
  DEF IInv, TypeOK, NestingOK, IdleOK, ArgOK, CreateOK, DelOK, DeadOK, PendOK,
      CurOK, WaitListed, ReadyExact, NoLostWakeup, BeingDeleted, Leaving,
      InPend, Creating, OnEvent, Used, Pend, Stat, Label, SemCalls, coreVars,
      cpuVars, tblVars, tcbVars, semVars, TickEntry

LEMMA TickOneStep ==
  ASSUME IInv, NEW p \in Task,
         TickOne(p) /\ UNCHANGED semVars
  PROVE  IInv'
  <1> USE DEF IInv, TypeOK, cpuVars, tblVars, tcbVars, semVars, TickOne,
              DlyExpired, ReadyIf
  <1>1. TypeOK'
    <2>1. OSTCBDly' \in [Task -> 0 .. MaxDly]
      BY CoreAssumption
    <2>2. OSTCBStat' \in [Task -> SUBSET Stat]
      BY DEF Stat
    <2>3. OSTCBPendTO' \in [Task -> BOOLEAN]
      OBVIOUS
    <2>4. OSRdyTbl' \subseteq Task
      OBVIOUS
    <2> QED
      BY <2>1, <2>2, <2>3, <2>4
  <1>2. NestingOK' /\ IdleOK' /\ ArgOK' /\ CreateOK' /\ DeadOK'
    BY CoreAssumption, SMTT(60)
    DEF NestingOK, IdleOK, Used, ArgOK, WaitListed, Creating, OnEvent,
        SemCalls, InPend, CreateOK, DelOK, DeadOK
  <1>3. DelOK'
    <2>1. CASE OSTCBDly[p] = 0
      BY <2>1 DEF IInv, DelOK, Used, cpuVars, tblVars, TickOne, DlyExpired, ReadyIf
    <2>2. CASE OSTCBDly[p] # 0
      <3>1. ASSUME NEW u \in Task, pc[u] = "tcbFree"
            PROVE  arg[u] \in Task /\ arg[u] # p
        BY <2>2, <3>1 DEF IInv, ArgOK, DelOK
      <3>2. ASSUME NEW q \in Task, q # p
            PROVE  /\ OSTCBStat'[q] = OSTCBStat[q] /\ OSTCBDly'[q] = OSTCBDly[q]
                   /\ OSTCBPendTO'[q] = OSTCBPendTO[q]
        BY <2>2, <3>2, DlyExpiredOnly DEF IInv, TypeOK, TickOne
      <3>3. UNCHANGED <<OSPrioCur, OSLockNesting, OSTCBPrioTbl, OSEventTbl, pc, arg>>
        BY DEF tblVars, TickOne
      <3> QED
        BY <3>1, <3>2, <3>3 DEF IInv, DelOK, Used
    <2> QED
      BY <2>1, <2>2
  <1>4. PendOK'
    <2>1. CASE OSTCBDly[p] # 1
      BY <2>1 DEF IInv, TypeOK, PendOK, InPend, TickOne
    <2>2. CASE OSTCBDly[p] = 1
      <3>1. OSTCBDly' = [OSTCBDly EXCEPT ![p] = 0] /\ DlyExpired(p)
        BY <2>2 DEF IInv, TypeOK, TickOne
      <3>2. ASSUME NEW q \in Task, q # p
            PROVE  /\ OSTCBStat'[q] = OSTCBStat[q] /\ OSTCBDly'[q] = OSTCBDly[q]
                   /\ OSTCBPendTO'[q] = OSTCBPendTO[q]
        BY <3>1, <3>2, DlyExpiredOnly DEF IInv, TypeOK
      <3>3. /\ OSTCBStat'[p] = OSTCBStat[p] \ Pend /\ OSTCBDly'[p] = 0
            /\ OSTCBPendTO'[p] <=> "SEM" \in OSTCBStat[p]
        BY <3>1, DlyExpiredOnly DEF IInv, TypeOK
      <3>4. OSEventTbl' = OSEventTbl /\ pc' = pc
        BY DEF TickOne
      <3> QED
        <4> SUFFICES ASSUME NEW q \in Task
                     PROVE  /\ OSTCBStat'[q] \subseteq {"SEM", "SUSPEND"}
                            /\ "SEM" \in OSTCBStat'[q] => InPend(q)
                            /\ OSTCBPendTO'[q] =>
                                 /\ InPend(q) /\ "SEM" \notin OSTCBStat'[q]
                                 /\ OSTCBDly'[q] = 0
                            /\ \A e \in Event : q \in OSEventTbl[e] =>
                                 "SEM" \in OSTCBStat'[q] \/ OSTCBPendTO'[q]
          BY <3>4 DEF PendOK, InPend
        <4>1. CASE q = p
          <5>1. ~OSTCBPendTO[p]
            BY <2>2 DEF IInv, PendOK
          <5> QED
            BY <3>3, <4>1, <5>1 DEF IInv, PendOK, Pend
        <4>2. CASE q # p
          BY <3>2, <4>2 DEF IInv, PendOK
        <4> QED
          BY <4>1, <4>2
    <2> QED
      BY <2>1, <2>2
  <1>5. CurOK'
    BY CoreAssumption, SMTT(60) DEF CurOK, Leaving
  <1>6. WaitListed'
    BY CoreAssumption, SMTT(60) DEF WaitListed, Used
  <1>7. NoLostWakeup'
    BY CoreAssumption, SMTT(60) DEF NoLostWakeup
  <1>8. ReadyExact'
    BY CoreAssumption, SMTT(60)
    DEF ReadyExact, Used, BeingDeleted, DeadOK, DelOK, ArgOK, WaitListed,
        CreateOK, Creating, PendOK, Pend, InPend
  <1> QED
    BY <1>1, <1>2, <1>3, <1>4, <1>5, <1>6, <1>7, <1>8 DEF IInv

LEMMA IntExitStep ==
  ASSUME IInv, OSIntExit /\ UNCHANGED semVars
  PROVE  IInv'
  <1> USE DEF IInv, TypeOK, cpuVars, tblVars, tcbVars, semVars, OSIntExit,
              Dispatch
  <1>1. TypeOK'
    <2>1. OSPrioCur' \in Task
      BY HighestReady
    <2>2. OSIntNesting' \in Nat
      BY HighestReady DEF NestingOK
    <2> QED
      BY <2>1, <2>2
  <1>2. NestingOK' /\ IdleOK' /\ ArgOK' /\ CreateOK' /\ DeadOK'
    BY CoreAssumption, SMTT(60)
    DEF NestingOK, IdleOK, Used, ArgOK, WaitListed, Creating, OnEvent,
        SemCalls, InPend, CreateOK, DelOK, DeadOK
  <1>3. DelOK'
    BY CoreAssumption, SMTT(60) DEF DelOK, Used
  <1>4. PendOK'
    BY CoreAssumption, SMTT(60) DEF PendOK, InPend, Pend
  <1>5. CurOK'
    BY HighestReady, CoreAssumption, SMTT(60) DEF CurOK, Leaving
  <1>6. WaitListed'
    BY CoreAssumption, SMTT(60) DEF WaitListed, Used
  <1>7. NoLostWakeup'
    BY CoreAssumption, SMTT(60) DEF NoLostWakeup
  <1>8. ReadyExact'
    BY CoreAssumption, SMTT(60) DEF ReadyExact, Used, BeingDeleted
  <1> QED
    BY <1>1, <1>2, <1>3, <1>4, <1>5, <1>6, <1>7, <1>8 DEF IInv

LEMMA SchedStep ==
  ASSUME IInv, NEW t \in Task,
         OS_Sched(t) /\ UNCHANGED semVars
  PROVE  IInv'
  <1> USE DEF IInv, TypeOK, cpuVars, tblVars, tcbVars, semVars, OS_Sched,
              Dispatch, At, Running, Return, Goto
  <1>1. TypeOK'
    <2>1. pc' \in [Task -> Label]
      BY HighestReady DEF Label
    <2>2. arg' \in [Task -> Event \cup Task \cup {None}]
      BY HighestReady
    <2>3. OSPrioCur' \in Task
      BY HighestReady
    <2> QED
      BY <2>1, <2>2, <2>3
  <1>2. NestingOK' /\ IdleOK' /\ ArgOK' /\ CreateOK' /\ DeadOK'
    BY CoreAssumption, SMTT(60)
    DEF NestingOK, IdleOK, Used, ArgOK, WaitListed, Creating, OnEvent,
        SemCalls, InPend, CreateOK, DelOK, DeadOK
  <1>3. DelOK'
    <2>1. pc[t] \in {"sched", "schedPend"} /\ OSPrioCur = t
      OBVIOUS
    <2>2. \A u \in Task : pc[u] # "tcbFree"
      BY <2>1 DEF DelOK
    <2>3. \A u \in Task : pc'[u] # "tcbFree"
      BY <2>2
    <2> QED
      BY <2>3 DEF DelOK
  <1>4. PendOK'
    BY CoreAssumption, SMTT(60) DEF PendOK, InPend, Pend
  <1>5. CurOK'
    BY HighestReady, CoreAssumption, SMTT(60)
    DEF CurOK, Leaving, DelOK, ReadyExact, Used, BeingDeleted, NestingOK
  <1>6. WaitListed'
    BY CoreAssumption, SMTT(60) DEF WaitListed, Used
  <1>7. NoLostWakeup'
    BY CoreAssumption, SMTT(60) DEF NoLostWakeup
  <1>8. ReadyExact'
    BY CoreAssumption, SMTT(60) DEF ReadyExact, Used, BeingDeleted
  <1> QED
    BY <1>1, <1>2, <1>3, <1>4, <1>5, <1>6, <1>7, <1>8 DEF IInv

LEMMA TcbTakeStep ==
  ASSUME IInv, NEW t \in Task,
         TcbTake(t) /\ UNCHANGED semVars
  PROVE  IInv'
  BY CoreAssumption, SMTT(60)
  DEF IInv, TypeOK, NestingOK, IdleOK, ArgOK, CreateOK, DelOK, DeadOK, PendOK,
      CurOK, WaitListed, ReadyExact, NoLostWakeup, BeingDeleted, Leaving,
      InPend, Creating, OnEvent, Used, Pend, Stat, Label, SemCalls, coreVars,
      cpuVars, tblVars, tcbVars, semVars, TcbTake, At, Running, Goto

LEMMA TcbLinkStep ==
  ASSUME IInv, NEW t \in Task,
         TcbLink(t) /\ UNCHANGED semVars
  PROVE  IInv'
  <1> USE DEF IInv, TypeOK, cpuVars, tblVars, tcbVars, semVars, TcbLink, At,
              Running
  <1>1. TypeOK'
    <2>1. OSTCBPrioTbl' \in [Task -> {"free", "reserved", "used"}]
      BY DEF ArgOK, OnEvent, Creating, SemCalls
    <2>2. OSTCBDly' \in [Task -> 0 .. MaxDly]
      BY CoreAssumption DEF ArgOK, OnEvent, Creating, SemCalls
    <2>3. OSTCBStat' \in [Task -> SUBSET Stat]
      BY DEF ArgOK, OnEvent, Creating, SemCalls, Stat
    <2>4. OSTCBPendTO' \in [Task -> BOOLEAN]
      BY DEF ArgOK, OnEvent, Creating, SemCalls
    <2>5. OSTCBEventPtr' \in [Task -> Event \cup {None}]
      BY DEF ArgOK, OnEvent, Creating, SemCalls
    <2>6. OSRdyTbl' \subseteq Task
      BY DEF ArgOK, OnEvent, Creating, SemCalls
    <2>7. pc' \in [Task -> Label]
      BY DEF ArgOK, OnEvent, Creating, SemCalls, Label
    <2>8. arg' \in [Task -> Event \cup Task \cup {None}]
      BY DEF ArgOK, OnEvent, Creating, SemCalls
    <2> QED
      BY <2>1, <2>2, <2>3, <2>4, <2>5, <2>6, <2>7, <2>8
  <1>2. NestingOK' /\ IdleOK' /\ ArgOK' /\ CreateOK' /\ DeadOK'
    BY CoreAssumption, SMTT(60)
    DEF NestingOK, IdleOK, Used, ArgOK, WaitListed, Creating, OnEvent,
        SemCalls, InPend, CreateOK, DelOK, DeadOK
  <1>3. DelOK'
    BY CoreAssumption, SMTT(60) DEF DelOK, Used
  <1>4. PendOK'
    BY CoreAssumption, SMTT(60)
    DEF NestingOK, IdleOK, ArgOK, CreateOK, DelOK, DeadOK, PendOK, CurOK,
        WaitListed, ReadyExact, NoLostWakeup, BeingDeleted, Leaving, InPend,
        Creating, OnEvent, Used, Pend, Stat, Label, SemCalls, coreVars
  <1>5. CurOK'
    BY CoreAssumption, SMTT(60) DEF CurOK, Leaving
  <1>6. WaitListed'
    BY CoreAssumption, SMTT(60)
    DEF NestingOK, IdleOK, ArgOK, CreateOK, DelOK, DeadOK, PendOK, CurOK,
        WaitListed, ReadyExact, NoLostWakeup, BeingDeleted, Leaving, InPend,
        Creating, OnEvent, Used, Pend, Stat, Label, SemCalls, coreVars
  <1>7. NoLostWakeup'
    BY CoreAssumption, SMTT(60) DEF NoLostWakeup
  <1>8. ReadyExact'
    BY CoreAssumption, SMTT(60)
    DEF ReadyExact, Used, BeingDeleted, DeadOK, DelOK, ArgOK, WaitListed,
        CreateOK, Creating, PendOK, Pend, InPend
  <1> QED
    BY <1>1, <1>2, <1>3, <1>4, <1>5, <1>6, <1>7, <1>8 DEF IInv

LEMMA UnreserveStep ==
  ASSUME IInv, NEW t \in Task,
         TaskUnreserve(t) /\ UNCHANGED semVars
  PROVE  IInv'
  BY CoreAssumption, SMTT(60)
  DEF IInv, TypeOK, NestingOK, IdleOK, ArgOK, CreateOK, DelOK, DeadOK, PendOK,
      CurOK, WaitListed, ReadyExact, NoLostWakeup, BeingDeleted, Leaving,
      InPend, Creating, OnEvent, Used, Pend, Stat, Label, SemCalls, coreVars,
      cpuVars, tblVars, tcbVars, semVars, TaskUnreserve, At, Running, Return,
      Goto

LEMMA DelFreeStep ==
  ASSUME IInv, NEW t \in Task,
         TaskDelFree(t) /\ UNCHANGED semVars
  PROVE  IInv'
  BY CoreAssumption, SMTT(60)
  DEF IInv, TypeOK, NestingOK, IdleOK, ArgOK, CreateOK, DelOK, DeadOK, PendOK,
      CurOK, WaitListed, ReadyExact, NoLostWakeup, BeingDeleted, Leaving,
      InPend, Creating, OnEvent, Used, Pend, Stat, Label, SemCalls, coreVars,
      cpuVars, tblVars, tcbVars, semVars, TaskDelFree, At, Running

LEMMA DlyStep ==
  ASSUME IInv, NEW t \in Task, NEW n \in 1 .. MaxDly,
         OSTimeDly(t, n) /\ UNCHANGED semVars
  PROVE  IInv'
  BY CoreAssumption, SMTT(60)
  DEF IInv, TypeOK, NestingOK, IdleOK, ArgOK, CreateOK, DelOK, DeadOK, PendOK,
      CurOK, WaitListed, ReadyExact, NoLostWakeup, BeingDeleted, Leaving,
      InPend, Creating, OnEvent, Used, Pend, Stat, Label, SemCalls, coreVars,
      cpuVars, tblVars, tcbVars, semVars, OSTimeDly, MayBlock, Calling,
      Running, Reschedule, Goto

LEMMA DlyResumeStep ==
  ASSUME IInv, NEW t \in Task, NEW p \in Task \ {Idle},
         OSTimeDlyResume(t, p) /\ UNCHANGED semVars
  PROVE  IInv'
  <1> USE DEF IInv, TypeOK, cpuVars, tblVars, tcbVars, semVars,
              OSTimeDlyResume, DlyExpired, ReadyIf, Calling, Running,
              Reschedule, Return, Goto
  <1>1. TypeOK'
    <2>1. OSRdyTbl' \subseteq Task
      OBVIOUS
    <2>2. OSTCBStat' \in [Task -> SUBSET Stat]
      BY DEF Stat
    <2>3. OSTCBDly' \in [Task -> 0 .. MaxDly]
      BY CoreAssumption
    <2>4. OSTCBPendTO' \in [Task -> BOOLEAN]
      OBVIOUS
    <2>5. pc' \in [Task -> Label]
      BY DEF Label
    <2>6. arg' \in [Task -> Event \cup Task \cup {None}]
      OBVIOUS
    <2> QED
      BY <2>1, <2>2, <2>3, <2>4, <2>5, <2>6
  <1>2. NestingOK' /\ IdleOK' /\ ArgOK' /\ CreateOK' /\ DeadOK'
    BY CoreAssumption, SMTT(60)
    DEF NestingOK, IdleOK, Used, ArgOK, WaitListed, Creating, OnEvent,
        SemCalls, InPend, CreateOK, DelOK, DeadOK
  <1>3. DelOK'
    <2>1. pc[t] = "user" /\ OSPrioCur = t
      OBVIOUS
    <2>2. \A u \in Task : pc[u] # "tcbFree"
      BY <2>1 DEF DelOK
    <2>3. \A u \in Task : pc'[u] # "tcbFree"
      BY <2>2
    <2> QED
      BY <2>3 DEF DelOK
  <1>4. PendOK'
    <2>1. /\ OSTCBDly[p] # 0 /\ OSTCBDly' = [OSTCBDly EXCEPT ![p] = 0]
          /\ DlyExpired(p)
      BY DEF OSTimeDlyResume
    <2>2. ASSUME NEW q \in Task, q # p
          PROVE  /\ OSTCBStat'[q] = OSTCBStat[q] /\ OSTCBDly'[q] = OSTCBDly[q]
                 /\ OSTCBPendTO'[q] = OSTCBPendTO[q]
      BY <2>1, <2>2, DlyExpiredOnly DEF IInv, TypeOK
    <2>3. /\ OSTCBStat'[p] = OSTCBStat[p] \ Pend /\ OSTCBDly'[p] = 0
          /\ OSTCBPendTO'[p] <=> "SEM" \in OSTCBStat[p]
      BY <2>1, DlyExpiredOnly DEF IInv, TypeOK
    <2>4. OSEventTbl' = OSEventTbl /\ \A q \in Task : InPend(q) => InPend(q)'
      BY DEF IInv, TypeOK, InPend, OSTimeDlyResume, DlyExpired, ReadyIf, Calling, Running, Reschedule, Return, Goto
    <2> QED
      BY <2>1, <2>2, <2>3, <2>4 DEF IInv, PendOK, Pend
  <1>5. CurOK'
    BY CoreAssumption, SMTT(60) DEF CurOK, Leaving
  <1>6. WaitListed'
    BY CoreAssumption, SMTT(60) DEF WaitListed, Used
  <1>7. NoLostWakeup'
    BY CoreAssumption, SMTT(60) DEF NoLostWakeup
  <1>8. ReadyExact'
    BY CoreAssumption, SMTT(60)
    DEF ReadyExact, Used, BeingDeleted, DeadOK, DelOK, ArgOK, WaitListed,
        CreateOK, Creating, PendOK, Pend, InPend
  <1> QED
    BY <1>1, <1>2, <1>3, <1>4, <1>5, <1>6, <1>7, <1>8 DEF IInv

LEMMA ReserveStep ==
  ASSUME IInv, NEW t \in Task, NEW p \in Task \ {Idle},
         TaskReserve(t, p) /\ UNCHANGED semVars
  PROVE  IInv'
  BY CoreAssumption, SMTT(60)
  DEF IInv, TypeOK, NestingOK, IdleOK, ArgOK, CreateOK, DelOK, DeadOK, PendOK,
      CurOK, WaitListed, ReadyExact, NoLostWakeup, BeingDeleted, Leaving,
      InPend, Creating, OnEvent, Used, Pend, Stat, Label, SemCalls, coreVars,
      cpuVars, tblVars, tcbVars, semVars, TaskReserve, Calling, Running, Goto

LEMMA SuspendStep ==
  ASSUME IInv, NEW t \in Task, NEW p \in MaySuspend,
         OSTaskSuspend(t, p) /\ UNCHANGED semVars
  PROVE  IInv'
  <1> USE DEF IInv, TypeOK, cpuVars, tblVars, tcbVars, semVars, OSTaskSuspend,
              MayBlock, Calling, Running, Reschedule, Return, Goto
  <1>1. TypeOK'
    <2>1. OSRdyTbl' \subseteq Task
      BY TargetAssumption
    <2>2. OSTCBStat' \in [Task -> SUBSET Stat]
      BY TargetAssumption DEF Stat
    <2>3. pc' \in [Task -> Label]
      BY TargetAssumption DEF Label
    <2>4. arg' \in [Task -> Event \cup Task \cup {None}]
      BY TargetAssumption
    <2> QED
      BY <2>1, <2>2, <2>3, <2>4
  <1>2. NestingOK' /\ IdleOK' /\ ArgOK' /\ CreateOK' /\ DeadOK'
    <2>1. Calling(t) /\ p \in Task \ {Idle}
      BY TargetAssumption DEF OSTaskSuspend, MayBlock
    <2>2. NestingOK' /\ IdleOK'
      <3>1. pc'[Idle] = pc[Idle] /\ OSTCBStat'[Idle] = OSTCBStat[Idle]
        BY <2>1, CoreAssumption DEF IInv, TypeOK, OSTaskSuspend, MayBlock, Calling, Running, Reschedule, Return, Goto
      <3> QED
        BY <3>1 DEF IInv, NestingOK, IdleOK, Used, cpuVars, tblVars, OSTaskSuspend
    <2>4. DeadOK'
      BY DEF IInv, TypeOK, DeadOK, Used, tblVars, OSTaskSuspend
    <2>3. ArgOK' /\ CreateOK'
      BY SMTT(60), <2>1 DEF IInv, TypeOK, ArgOK, CreateOK, OnEvent, Creating, SemCalls,
                  tblVars, OSTaskSuspend, MayBlock, Calling, Running, Reschedule, Return, Goto
    <2> QED
      BY <2>2, <2>3, <2>4
  <1>3. DelOK'
    BY CoreAssumption, TargetAssumption, SMTT(60) DEF DelOK, Used
  <1>4. PendOK'
    <2>1. \A q \in Task : /\ OSTCBStat'[q] \subseteq OSTCBStat[q] \cup {"SUSPEND"}
                         /\ OSTCBStat[q] \subseteq OSTCBStat'[q]
      BY TargetAssumption DEF IInv, TypeOK, OSTaskSuspend
    <2>2. /\ UNCHANGED <<OSTCBPendTO, OSTCBDly, OSEventTbl>>
          /\ \A q \in Task : InPend(q) => InPend(q)'
      BY DEF IInv, TypeOK, InPend, OSTaskSuspend, MayBlock, Calling, Running, Reschedule, Return, Goto
    <2> QED
      BY <2>1, <2>2 DEF IInv, PendOK
  <1>5. CurOK'
    BY CoreAssumption, TargetAssumption, SMTT(60) DEF CurOK, Leaving
  <1>6. WaitListed'
    BY CoreAssumption, TargetAssumption, SMTT(60) DEF WaitListed, Used
  <1>7. NoLostWakeup'
    BY CoreAssumption, TargetAssumption, SMTT(60) DEF NoLostWakeup
  <1>8. ReadyExact'
    BY CoreAssumption, TargetAssumption, SMTT(60)
    DEF ReadyExact, Used, BeingDeleted, DeadOK, DelOK, ArgOK, WaitListed,
        CreateOK, Creating, PendOK, Pend, InPend
  <1> QED
    BY <1>1, <1>2, <1>3, <1>4, <1>5, <1>6, <1>7, <1>8 DEF IInv

LEMMA ResumeStep ==
  ASSUME IInv, NEW t \in Task, NEW p \in MaySuspend,
         OSTaskResume(t, p) /\ UNCHANGED semVars
  PROVE  IInv'
  <1> USE DEF IInv, TypeOK, cpuVars, tblVars, tcbVars, semVars, OSTaskResume,
              Calling, Running, Reschedule, Return, Goto
  <1>1. TypeOK'
    <2>1. OSRdyTbl' \subseteq Task
      BY TargetAssumption
    <2>2. OSTCBStat' \in [Task -> SUBSET Stat]
      BY TargetAssumption DEF Stat
    <2>3. pc' \in [Task -> Label]
      BY TargetAssumption DEF Label
    <2>4. arg' \in [Task -> Event \cup Task \cup {None}]
      BY TargetAssumption
    <2> QED
      BY <2>1, <2>2, <2>3, <2>4
  <1>2. NestingOK' /\ IdleOK' /\ ArgOK' /\ CreateOK' /\ DeadOK'
    <2>1. Calling(t) /\ p \in Task \ {Idle}
      BY TargetAssumption DEF OSTaskResume
    <2>2. NestingOK' /\ IdleOK'
      <3>1. pc'[Idle] = pc[Idle] /\ OSTCBStat'[Idle] = OSTCBStat[Idle]
        BY <2>1, CoreAssumption DEF IInv, TypeOK, OSTaskResume, Calling, Running, Reschedule, Return, Goto
      <3> QED
        BY <3>1 DEF IInv, NestingOK, IdleOK, Used, cpuVars, tblVars, OSTaskResume
    <2>4. DeadOK'
      BY DEF IInv, TypeOK, DeadOK, Used, tblVars, OSTaskResume
    <2>3. ArgOK' /\ CreateOK'
      BY SMTT(60), <2>1 DEF IInv, TypeOK, ArgOK, CreateOK, OnEvent, Creating, SemCalls,
                  tblVars, OSTaskResume, Calling, Running, Reschedule, Return, Goto
    <2> QED
      BY <2>2, <2>3, <2>4
  <1>3. DelOK'
    BY CoreAssumption, TargetAssumption, SMTT(60) DEF DelOK, Used
  <1>4. PendOK'
    BY CoreAssumption, TargetAssumption, SMTT(60) DEF PendOK, InPend, Pend
  <1>5. CurOK'
    BY CoreAssumption, TargetAssumption, SMTT(60) DEF CurOK, Leaving
  <1>6. WaitListed'
    BY CoreAssumption, TargetAssumption, SMTT(60) DEF WaitListed, Used
  <1>7. NoLostWakeup'
    BY CoreAssumption, TargetAssumption, SMTT(60) DEF NoLostWakeup
  <1>8. ReadyExact'
    BY CoreAssumption, TargetAssumption, SMTT(60)
    DEF ReadyExact, Used, BeingDeleted, DeadOK, DelOK, ArgOK, WaitListed,
        CreateOK, Creating, PendOK, Pend, InPend
  <1> QED
    BY <1>1, <1>2, <1>3, <1>4, <1>5, <1>6, <1>7, <1>8 DEF IInv

LEMMA DelUnlinkStep ==
  ASSUME IInv, NEW t \in Task, NEW p \in MayDelete,
         TaskDelUnlink(t, p) /\ UNCHANGED semVars
  PROVE  IInv'
  BY CoreAssumption, TargetAssumption, SMTT(60)
  DEF IInv, TypeOK, NestingOK, IdleOK, ArgOK, CreateOK, DelOK, DeadOK, PendOK,
      CurOK, WaitListed, ReadyExact, NoLostWakeup, BeingDeleted, Leaving,
      InPend, Creating, OnEvent, Used, Pend, Stat, Label, SemCalls, coreVars,
      cpuVars, tblVars, tcbVars, semVars, TaskDelUnlink, MayBlock, Calling,
      Running, Goto

LEMMA LockStep ==
  ASSUME IInv, NEW t \in Task,
         OSSchedLock(t) /\ UNCHANGED semVars
  PROVE  IInv'
  BY CoreAssumption, SMTT(60)
  DEF IInv, TypeOK, NestingOK, IdleOK, ArgOK, CreateOK, DelOK, DeadOK, PendOK,
      CurOK, WaitListed, ReadyExact, NoLostWakeup, BeingDeleted, Leaving,
      InPend, Creating, OnEvent, Used, Pend, Stat, Label, SemCalls, coreVars,
      cpuVars, tblVars, tcbVars, semVars, OSSchedLock, Calling, Running

LEMMA UnlockStep ==
  ASSUME IInv, NEW t \in Task,
         OSSchedUnlock(t) /\ UNCHANGED semVars
  PROVE  IInv'
  <1> USE DEF IInv, TypeOK, cpuVars, tblVars, tcbVars, semVars, OSSchedUnlock,
              Calling, Running, Reschedule, Return, Goto
  <1>1. TypeOK'
    <2>1. OSLockNesting' \in Nat
      OBVIOUS
    <2>2. pc' \in [Task -> Label]
      BY DEF Label
    <2>3. arg' \in [Task -> Event \cup Task \cup {None}]
      OBVIOUS
    <2> QED
      BY <2>1, <2>2, <2>3
  <1>2. NestingOK' /\ IdleOK' /\ ArgOK' /\ CreateOK' /\ DeadOK'
    BY CoreAssumption, SMTT(60)
    DEF NestingOK, IdleOK, Used, ArgOK, WaitListed, Creating, OnEvent,
        SemCalls, InPend, CreateOK, DelOK, DeadOK
  <1>3. DelOK'
    BY CoreAssumption, SMTT(60) DEF DelOK, Used
  <1>4. PendOK'
    BY CoreAssumption, SMTT(60) DEF PendOK, InPend, Pend
  <1>5. CurOK'
    BY CoreAssumption, SMTT(60) DEF CurOK, Leaving
  <1>6. WaitListed'
    BY CoreAssumption, SMTT(60) DEF WaitListed, Used
  <1>7. NoLostWakeup'
    BY CoreAssumption, SMTT(60) DEF NoLostWakeup
  <1>8. ReadyExact'
    BY CoreAssumption, SMTT(60) DEF ReadyExact, Used, BeingDeleted
  <1> QED
    BY <1>1, <1>2, <1>3, <1>4, <1>5, <1>6, <1>7, <1>8 DEF IInv

LEMMA IrqPostStep ==
  ASSUME IInv, NEW e \in IrqEvent,
         IrqPost(e)
  PROVE  IInv'
  <1> USE DEF IInv, TypeOK, cpuVars, tblVars, tcbVars, semVars, IrqPost, Post,
              EventTaskRdy
  <1>w. OSEventTbl[e] # {} => Highest(OSEventTbl[e]) \in OSEventTbl[e]
    BY HighestIn, SemAssumption DEF IInv, TypeOK
  <1>1. TypeOK'
    <2>1. OSRdyTbl' \subseteq Task
      BY <1>w, SemAssumption
    <2>2. OSTCBStat' \in [Task -> SUBSET Stat]
      BY <1>w, SemAssumption DEF Stat
    <2>3. OSTCBEventPtr' \in [Task -> Event \cup {None}]
      BY <1>w, SemAssumption
    <2>4. OSTCBDly' \in [Task -> 0 .. MaxDly]
      BY <1>w, CoreAssumption, SemAssumption
    <2>5. OSTCBPendTO' \in [Task -> BOOLEAN]
      <3>1. CASE OSEventTbl[e] # {}
        <4>1. OSTCBPendTO' = [p \in Task |-> p \notin {Highest(OSEventTbl[e])}
                                            /\ OSTCBPendTO[p]]
          BY <3>1 DEF IrqPost, Post, EventTaskRdy
        <4> QED
          BY <4>1, Zenon
      <3>2. CASE OSEventTbl[e] = {}
        BY <3>2 DEF IInv, TypeOK, tcbVars, IrqPost, Post
      <3> QED
        BY <3>1, <3>2
    <2>6. OSEventTbl' \in [Event -> SUBSET Task]
      BY <1>w, SemAssumption
    <2>7. OSEventCnt' \in [Event -> 0 .. MaxCnt]
      BY <1>w, SemAssumption
    <2> QED
      BY <2>1, <2>2, <2>3, <2>4, <2>5, <2>6, <2>7
  <1>2. NestingOK' /\ IdleOK' /\ ArgOK' /\ CreateOK' /\ DeadOK'
    BY <1>w, CoreAssumption, SemAssumption, SMTT(60)
    DEF NestingOK, IdleOK, Used, ArgOK, WaitListed, Creating, OnEvent,
        SemCalls, InPend, CreateOK, DelOK, DeadOK
  <1>3. DelOK'
    BY <1>w, SemAssumption, SMTT(60)
    DEF DelOK, Used, ArgOK, CreateOK, Creating, CurOK, Leaving, ReadyExact,
        BeingDeleted
  <1>4. PendOK'
    BY <1>w, CoreAssumption, SemAssumption, SMTT(60)
    DEF PendOK, InPend, Pend, WaitListed, CurOK, ReadyExact, Leaving
  <1>5. CurOK'
    BY <1>w, CoreAssumption, SemAssumption, SMTT(60) DEF CurOK, Leaving
  <1>6. WaitListed'
    BY <1>w, SemAssumption, SMTT(60)
    DEF WaitListed, Used, PendOK, ArgOK, OnEvent, SemCalls, CurOK, Leaving,
        ReadyExact
  <1>7. NoLostWakeup'
    BY <1>w, CoreAssumption, SemAssumption, SMTT(60) DEF NoLostWakeup
  <1>8. ReadyExact'
    BY <1>w, CoreAssumption, SemAssumption, SMTT(60)
    DEF ReadyExact, Used, BeingDeleted, DeadOK, DelOK, ArgOK, WaitListed,
        CreateOK, Creating, PendOK, Pend, InPend
  <1> QED
    BY <1>1, <1>2, <1>3, <1>4, <1>5, <1>6, <1>7, <1>8 DEF IInv

LEMMA SemCallStep ==
  ASSUME IInv, NEW t \in Task, NEW f \in SemCalls, NEW e \in Event,
         SemCall(t, f, e)
  PROVE  IInv'
  BY CoreAssumption, SMTT(60)
  DEF IInv, TypeOK, NestingOK, IdleOK, ArgOK, CreateOK, DelOK, DeadOK, PendOK,
      CurOK, WaitListed, ReadyExact, NoLostWakeup, BeingDeleted, Leaving,
      InPend, Creating, OnEvent, Used, Pend, Stat, Label, SemCalls, coreVars,
      cpuVars, tblVars, tcbVars, semVars, SemCall, Calling, Running, Goto

LEMMA SemTakeStep ==
  ASSUME IInv, NEW t \in Task,
         SemTake(t)
  PROVE  IInv'
  <1> USE DEF IInv, TypeOK, cpuVars, tblVars, tcbVars, semVars, SemTake, At,
              Running, Return, Goto
  <1>1. TypeOK'
    <2>1. OSEventCnt' \in [Event -> 0 .. MaxCnt]
      BY SemAssumption DEF ArgOK, OnEvent, Creating, SemCalls
    <2>2. pc' \in [Task -> Label]
      BY DEF ArgOK, OnEvent, Creating, SemCalls, Label
    <2>3. arg' \in [Task -> Event \cup Task \cup {None}]
      BY DEF ArgOK, OnEvent, Creating, SemCalls
    <2> QED
      BY <2>1, <2>2, <2>3
  <1>2. NestingOK' /\ IdleOK' /\ ArgOK' /\ CreateOK' /\ DeadOK'
    BY CoreAssumption, SMTT(60)
    DEF NestingOK, IdleOK, Used, ArgOK, WaitListed, Creating, OnEvent,
        SemCalls, InPend, CreateOK, DelOK, DeadOK
  <1>3. DelOK'
    BY CoreAssumption, SMTT(60) DEF DelOK, Used
  <1>4. PendOK'
    BY CoreAssumption, SMTT(60) DEF PendOK, InPend, Pend
  <1>5. CurOK'
    BY CoreAssumption, SMTT(60) DEF CurOK, Leaving
  <1>6. WaitListed'
    BY CoreAssumption, SMTT(60) DEF WaitListed, Used
  <1>7. NoLostWakeup'
    BY CoreAssumption, SMTT(60) DEF NoLostWakeup
  <1>8. ReadyExact'
    BY CoreAssumption, SMTT(60) DEF ReadyExact, Used, BeingDeleted
  <1> QED
    BY <1>1, <1>2, <1>3, <1>4, <1>5, <1>6, <1>7, <1>8 DEF IInv

LEMMA AcceptNoneStep ==
  ASSUME IInv, NEW t \in Task,
         SemAcceptNone(t)
  PROVE  IInv'
  BY CoreAssumption, SMTT(60)
  DEF IInv, TypeOK, NestingOK, IdleOK, ArgOK, CreateOK, DelOK, DeadOK, PendOK,
      CurOK, WaitListed, ReadyExact, NoLostWakeup, BeingDeleted, Leaving,
      InPend, Creating, OnEvent, Used, Pend, Stat, Label, SemCalls, coreVars,
      cpuVars, tblVars, tcbVars, semVars, SemAcceptNone, At, Running, Return,
      Goto

LEMMA SemWaitStep ==
  ASSUME IInv, NEW t \in Task, NEW n \in 0 .. MaxDly,
         SemWait(t, n)
  PROVE  IInv'
  BY CoreAssumption, SMTT(60)
  DEF IInv, TypeOK, NestingOK, IdleOK, ArgOK, CreateOK, DelOK, DeadOK, PendOK,
      CurOK, WaitListed, ReadyExact, NoLostWakeup, BeingDeleted, Leaving,
      InPend, Creating, OnEvent, Used, Pend, Stat, Label, SemCalls, coreVars,
      cpuVars, tblVars, tcbVars, semVars, SemWait, EventTaskWait, At, Running,
      Goto

LEMMA PendedStep ==
  ASSUME IInv, NEW t \in Task,
         SemPended(t)
  PROVE  IInv'
  <1> USE DEF IInv, TypeOK, cpuVars, tblVars, tcbVars, semVars, SemPended,
              EventTO, EventGot, At, Running, Return, Goto
  <1>1. TypeOK'
    <2>1. OSTCBStat' \in [Task -> SUBSET Stat]
      BY DEF ArgOK, OnEvent, Creating, SemCalls, Stat
    <2>2. OSTCBEventPtr' \in [Task -> Event \cup {None}]
      BY DEF ArgOK, OnEvent, Creating, SemCalls
    <2>3. OSTCBPendTO' \in [Task -> BOOLEAN]
      BY DEF ArgOK, OnEvent, Creating, SemCalls
    <2>4. OSEventTbl' \in [Event -> SUBSET Task]
      BY DEF ArgOK, OnEvent, Creating, SemCalls
    <2>5. arg' \in [Task -> Event \cup Task \cup {None}]
      BY DEF ArgOK, OnEvent, Creating, SemCalls
    <2>6. pc' \in [Task -> Label]
      BY DEF ArgOK, OnEvent, Creating, SemCalls, Label
    <2>7. OSRdyTbl' \subseteq Task
      BY DEF ArgOK, OnEvent, Creating, SemCalls
    <2> QED
      BY <2>1, <2>2, <2>3, <2>4, <2>5, <2>6, <2>7
  <1>2. NestingOK' /\ IdleOK' /\ ArgOK' /\ CreateOK' /\ DeadOK'
    BY CoreAssumption, SMTT(60)
    DEF NestingOK, IdleOK, Used, ArgOK, WaitListed, Creating, OnEvent,
        SemCalls, InPend, CreateOK, DelOK, DeadOK
  <1>3. DelOK'
    BY CoreAssumption, SMTT(60) DEF DelOK, Used
  <1>4. PendOK'
    BY CoreAssumption, SMTT(60)
    DEF PendOK, InPend, Pend, WaitListed, CurOK, ReadyExact, Leaving
  <1>5. CurOK'
    BY CoreAssumption, SMTT(60) DEF CurOK, Leaving
  <1>6. WaitListed'
    <2>1. t \in OSRdyTbl /\ pc[t] = "pended"
      BY DEF IInv, CurOK, Leaving, SemPended, EventTO, EventGot, At, Running, Return, Goto
    <2>2. ASSUME NEW e \in Event, t \in OSEventTbl[e]
          PROVE  arg[t] = e /\ OSTCBPendTO[t]
      BY <2>1, <2>2 DEF IInv, WaitListed, PendOK, ReadyExact
    <2>3. ASSUME NEW e \in Event, NEW p \in OSEventTbl'[e]
          PROVE  p \in OSEventTbl[e] /\ p \in Task /\ p # t
      BY <2>2, <2>3 DEF IInv, TypeOK, SemPended, EventTO, EventGot, At, Running, Return, Goto
    <2> QED
      BY <2>3 DEF IInv, TypeOK, WaitListed, Used, tblVars, SemPended, EventTO, EventGot, At, Running, Return, Goto
  <1>7. NoLostWakeup'
    BY CoreAssumption, SMTT(60) DEF NoLostWakeup
  <1>8. ReadyExact'
    BY CoreAssumption, SMTT(60)
    DEF NestingOK, IdleOK, ArgOK, CreateOK, DelOK, DeadOK, PendOK, CurOK,
        WaitListed, ReadyExact, NoLostWakeup, BeingDeleted, Leaving, InPend,
        Creating, OnEvent, Used, Pend, Stat, Label, SemCalls, coreVars
  <1> QED
    BY <1>1, <1>2, <1>3, <1>4, <1>5, <1>6, <1>7, <1>8 DEF IInv

LEMMA SemPostStep ==
  ASSUME IInv, NEW t \in Task,
         SemPost(t)
  PROVE  IInv'
  <1> USE DEF IInv, TypeOK, cpuVars, tblVars, tcbVars, semVars, SemPost, Post,
              EventTaskRdy, At, Running, Reschedule, Return, Goto
  <1>w. OSEventTbl[arg[t]] # {} => Highest(OSEventTbl[arg[t]]) \in OSEventTbl[arg[t]]
    BY HighestIn DEF IInv, TypeOK, ArgOK, OnEvent, SemCalls, SemPost, At
  <1>1. TypeOK'
    <2>1. OSRdyTbl' \subseteq Task
      BY <1>w DEF ArgOK, OnEvent, Creating, SemCalls
    <2>2. OSTCBStat' \in [Task -> SUBSET Stat]
      BY <1>w DEF ArgOK, OnEvent, Creating, SemCalls, Stat
    <2>3. OSTCBEventPtr' \in [Task -> Event \cup {None}]
      BY <1>w DEF ArgOK, OnEvent, Creating, SemCalls
    <2>4. OSTCBDly' \in [Task -> 0 .. MaxDly]
      BY <1>w, CoreAssumption DEF ArgOK, OnEvent, Creating, SemCalls
    <2>5. OSTCBPendTO' \in [Task -> BOOLEAN]
      BY <1>w DEF ArgOK, OnEvent, Creating, SemCalls
    <2>6. OSEventTbl' \in [Event -> SUBSET Task]
      BY <1>w DEF ArgOK, OnEvent, Creating, SemCalls
    <2>7. arg' \in [Task -> Event \cup Task \cup {None}]
      BY <1>w DEF ArgOK, OnEvent, Creating, SemCalls
    <2>8. pc' \in [Task -> Label]
      BY <1>w DEF ArgOK, OnEvent, Creating, SemCalls, Label
    <2>9. OSEventCnt' \in [Event -> 0 .. MaxCnt]
      BY <1>w, SemAssumption DEF ArgOK, OnEvent, Creating, SemCalls
    <2> QED
      BY <2>1, <2>2, <2>3, <2>4, <2>5, <2>6, <2>7, <2>8, <2>9
  <1>2. NestingOK' /\ IdleOK' /\ ArgOK' /\ CreateOK' /\ DeadOK'
    BY <1>w, CoreAssumption, SMTT(60)
    DEF NestingOK, IdleOK, Used, ArgOK, WaitListed, Creating, OnEvent,
        SemCalls, InPend, CreateOK, DelOK, DeadOK
  <1>3. DelOK'
    BY <1>w, CoreAssumption, SMTT(60) DEF DelOK, Used
  <1>4. PendOK'
    BY <1>w, CoreAssumption, SMTT(60)
    DEF NestingOK, IdleOK, ArgOK, CreateOK, DelOK, DeadOK, PendOK, CurOK,
        WaitListed, ReadyExact, NoLostWakeup, BeingDeleted, Leaving, InPend,
        Creating, OnEvent, Used, Pend, Stat, Label, SemCalls, coreVars
  <1>5. CurOK'
    BY <1>w, CoreAssumption, SMTT(60) DEF CurOK, Leaving
  <1>6. WaitListed'
    BY <1>w, SMTT(60)
    DEF WaitListed, Used, PendOK, ArgOK, OnEvent, SemCalls, CurOK, Leaving,
        ReadyExact
  <1>7. NoLostWakeup'
    BY <1>w, CoreAssumption, SMTT(60) DEF NoLostWakeup
  <1>8. ReadyExact'
    BY <1>w, CoreAssumption, SMTT(60)
    DEF NestingOK, IdleOK, ArgOK, CreateOK, DelOK, DeadOK, PendOK, CurOK,
        WaitListed, ReadyExact, NoLostWakeup, BeingDeleted, Leaving, InPend,
        Creating, OnEvent, Used, Pend, Stat, Label, SemCalls, coreVars
  <1> QED
    BY <1>1, <1>2, <1>3, <1>4, <1>5, <1>6, <1>7, <1>8 DEF IInv

LEMMA SemSetStep ==
  ASSUME IInv, NEW t \in Task, NEW n \in 0 .. MaxCnt,
         SemSet(t, n)
  PROVE  IInv'
  <1> USE DEF IInv, TypeOK, cpuVars, tblVars, tcbVars, semVars, SemSet, At,
              Running, Return, Goto
  <1>1. TypeOK'
    <2>1. OSEventCnt' \in [Event -> 0 .. MaxCnt]
      BY SemAssumption
    <2>2. pc' \in [Task -> Label]
      BY DEF Label
    <2>3. arg' \in [Task -> Event \cup Task \cup {None}]
      OBVIOUS
    <2> QED
      BY <2>1, <2>2, <2>3
  <1>2. NestingOK' /\ IdleOK' /\ ArgOK' /\ CreateOK' /\ DeadOK'
    BY CoreAssumption, SMTT(60)
    DEF NestingOK, IdleOK, Used, ArgOK, WaitListed, Creating, OnEvent,
        SemCalls, InPend, CreateOK, DelOK, DeadOK
  <1>3. DelOK'
    BY CoreAssumption, SMTT(60) DEF DelOK, Used
  <1>4. PendOK'
    BY CoreAssumption, SMTT(60) DEF PendOK, InPend, Pend
  <1>5. CurOK'
    BY CoreAssumption, SMTT(60) DEF CurOK, Leaving
  <1>6. WaitListed'
    BY CoreAssumption, SMTT(60) DEF WaitListed, Used
  <1>7. NoLostWakeup'
    BY CoreAssumption, SMTT(60) DEF NoLostWakeup
  <1>8. ReadyExact'
    BY CoreAssumption, SMTT(60) DEF ReadyExact, Used, BeingDeleted
  <1> QED
    BY <1>1, <1>2, <1>3, <1>4, <1>5, <1>6, <1>7, <1>8 DEF IInv

LEMMA EventTakeStep ==
  ASSUME IInv, NEW t \in Task,
         EventTake(t)
  PROVE  IInv'
  BY CoreAssumption, SMTT(60)
  DEF IInv, TypeOK, NestingOK, IdleOK, ArgOK, CreateOK, DelOK, DeadOK, PendOK,
      CurOK, WaitListed, ReadyExact, NoLostWakeup, BeingDeleted, Leaving,
      InPend, Creating, OnEvent, Used, Pend, Stat, Label, SemCalls, coreVars,
      cpuVars, tblVars, tcbVars, semVars, EventTake, Calling, Running, Goto

LEMMA SemCreateStep ==
  ASSUME IInv, NEW t \in Task, NEW n \in 0 .. MaxCnt,
         SemCreate(t, n)
  PROVE  IInv'
  BY CoreAssumption, SMTT(60)
  DEF IInv, TypeOK, NestingOK, IdleOK, ArgOK, CreateOK, DelOK, DeadOK, PendOK,
      CurOK, WaitListed, ReadyExact, NoLostWakeup, BeingDeleted, Leaving,
      InPend, Creating, OnEvent, Used, Pend, Stat, Label, SemCalls, coreVars,
      cpuVars, tblVars, tcbVars, semVars, SemCreate, At, Running, Return, Goto

LEMMA SemDelStep ==
  ASSUME IInv, NEW t \in Task, NEW opt \in DelOpts,
         SemDel(t, opt)
  PROVE  IInv'
  <1> USE DEF IInv, TypeOK, cpuVars, tblVars, tcbVars, semVars, SemDel,
              EventTaskRdy, At, Running, Reschedule, Return, Goto
  <1>1. TypeOK'
    <2>1. OSRdyTbl' \subseteq Task
      BY DEF ArgOK, OnEvent, Creating, SemCalls
    <2>2. OSTCBStat' \in [Task -> SUBSET Stat]
      BY DEF ArgOK, OnEvent, Creating, SemCalls, Stat
    <2>3. OSTCBEventPtr' \in [Task -> Event \cup {None}]
      BY DEF ArgOK, OnEvent, Creating, SemCalls
    <2>4. OSTCBDly' \in [Task -> 0 .. MaxDly]
      BY CoreAssumption DEF ArgOK, OnEvent, Creating, SemCalls
    <2>5. OSTCBPendTO' \in [Task -> BOOLEAN]
      BY DEF ArgOK, OnEvent, Creating, SemCalls
    <2>6. OSEventTbl' \in [Event -> SUBSET Task]
      BY DEF ArgOK, OnEvent, Creating, SemCalls
    <2>7. arg' \in [Task -> Event \cup Task \cup {None}]
      BY DEF ArgOK, OnEvent, Creating, SemCalls
    <2>8. pc' \in [Task -> Label]
      BY DEF ArgOK, OnEvent, Creating, SemCalls, Label
    <2>9. OSEventPtr' \in [Event -> Event \cup {None}]
      BY DEF ArgOK, OnEvent, Creating, SemCalls
    <2>10. OSEventFreeList' \in Event \cup {None}
      BY DEF ArgOK, OnEvent, Creating, SemCalls
    <2>11. OSEventType' \in [Event -> {"SEM", "UNUSED"}]
      BY DEF ArgOK, OnEvent, Creating, SemCalls
    <2>12. OSEventCnt' \in [Event -> 0 .. MaxCnt]
      BY SemAssumption DEF ArgOK, OnEvent, Creating, SemCalls
    <2> QED
      BY <2>1, <2>2, <2>3, <2>4, <2>5, <2>6, <2>7, <2>8, <2>9, <2>10, <2>11,
         <2>12
  <1>2. NestingOK' /\ IdleOK' /\ ArgOK' /\ CreateOK' /\ DeadOK'
    BY CoreAssumption, SMTT(60)
    DEF NestingOK, IdleOK, Used, ArgOK, WaitListed, Creating, OnEvent,
        SemCalls, InPend, CreateOK, DelOK, DeadOK
  <1>3. DelOK'
    BY CoreAssumption, SMTT(60) DEF DelOK, Used
  <1>4. PendOK'
    BY CoreAssumption, SMTT(60)
    DEF NestingOK, IdleOK, ArgOK, CreateOK, DelOK, DeadOK, PendOK, CurOK,
        WaitListed, ReadyExact, NoLostWakeup, BeingDeleted, Leaving, InPend,
        Creating, OnEvent, Used, Pend, Stat, Label, SemCalls, coreVars
  <1>5. CurOK'
    BY CoreAssumption, SMTT(60) DEF CurOK, Leaving
  <1>6. WaitListed'
    <2>1. arg[t] \in Event /\ pc[t] = "semDel"
      BY DEF IInv, ArgOK, OnEvent, SemCalls, SemDel, At
    <2>2. ASSUME NEW e \in Event, NEW p \in OSEventTbl'[e]
          PROVE  p \in OSEventTbl[e] /\ p \in Task /\ p # t
      BY SMTT(60), <2>2 DEF IInv, TypeOK, WaitListed, tcbVars, SemDel, EventTaskRdy, At, Running, Reschedule, Return, Goto
    <2>3. CASE OSEventTbl' = OSEventTbl /\ OSTCBEventPtr' = OSTCBEventPtr
      BY <2>2, <2>3 DEF IInv, TypeOK, WaitListed, Used, tblVars, SemDel, EventTaskRdy, At, Running, Reschedule, Return, Goto
    <2>4. CASE EventTaskRdy(arg[t], OSEventTbl[arg[t]], "SEM")
      <3>1. ASSUME NEW e \in Event, NEW p \in OSEventTbl'[e]
            PROVE  p \notin OSEventTbl[arg[t]]
        BY <2>1, <2>2, <2>4, <3>1 DEF IInv, TypeOK, WaitListed, EventTaskRdy
      <3> QED
        BY <2>2, <2>4, <3>1 DEF IInv, TypeOK, WaitListed, Used, tblVars, SemDel, EventTaskRdy, At, Running, Reschedule, Return, Goto
    <2> QED
      BY <2>3, <2>4 DEF tcbVars, SemDel, EventTaskRdy, At, Running, Reschedule, Return, Goto
  <1>7. NoLostWakeup'
    BY CoreAssumption, SMTT(60) DEF NoLostWakeup
  <1>8. ReadyExact'
    BY CoreAssumption, SMTT(60)
    DEF NestingOK, IdleOK, ArgOK, CreateOK, DelOK, DeadOK, PendOK, CurOK,
        WaitListed, ReadyExact, NoLostWakeup, BeingDeleted, Leaving, InPend,
        Creating, OnEvent, Used, Pend, Stat, Label, SemCalls, coreVars
  <1> QED
    BY <1>1, <1>2, <1>3, <1>4, <1>5, <1>6, <1>7, <1>8 DEF IInv

LEMMA StutterStep ==
  ASSUME IInv, UNCHANGED vars
  PROVE  IInv'
  BY CoreAssumption, SMTT(60)
  DEF IInv, TypeOK, NestingOK, IdleOK, ArgOK, CreateOK, DelOK, DeadOK, PendOK,
      CurOK, WaitListed, ReadyExact, NoLostWakeup, BeingDeleted, Leaving,
      InPend, Creating, OnEvent, Used, Pend, Stat, Label, SemCalls, coreVars,
      cpuVars, tblVars, tcbVars, semVars, vars

LEMMA NextIInv == IInv /\ [Next]_vars => IInv'
  <1> SUFFICES ASSUME IInv, [Next]_vars PROVE IInv'
    OBVIOUS
  <1>1. CASE Interrupt /\ UNCHANGED semVars
    BY <1>1, IrqEntryStep, IrqExitStep, TickEntryStep, TickOneStep, IntExitStep
    DEF Interrupt
  <1>2. ASSUME NEW t \in Task, KernelCall(t) /\ UNCHANGED semVars PROVE IInv'
    BY <1>2, SchedStep, TcbTakeStep, TcbLinkStep, UnreserveStep, DelFreeStep
    DEF KernelCall
  <1>3. ASSUME NEW t \in Task, AppCall(t) /\ UNCHANGED semVars PROVE IInv'
    BY <1>3, DlyStep, DlyResumeStep, ReserveStep, SuspendStep, ResumeStep,
       DelUnlinkStep, LockStep, UnlockStep
    DEF AppCall
  <1>4. ASSUME NEW t \in Task, SemKernel(t) PROVE IInv'
    BY <1>4, SemTakeStep, AcceptNoneStep, SemWaitStep, PendedStep, SemPostStep,
       SemSetStep, SemCreateStep, SemDelStep
    DEF SemKernel
  <1>5. ASSUME NEW e \in IrqEvent, IrqPost(e) PROVE IInv'
    BY <1>5, IrqPostStep
  <1>6. ASSUME NEW t \in Task, EventTake(t) PROVE IInv'
    BY <1>6, EventTakeStep
  <1>7. ASSUME NEW t \in Task, NEW f \in SemCalls, NEW e \in Event, SemCall(t, f, e)
        PROVE  IInv'
    BY <1>7, SemCallStep
  <1>8. CASE UNCHANGED vars
    BY <1>8, StutterStep
  <1> QED
    BY <1>1, <1>2, <1>3, <1>4, <1>5, <1>6, <1>7, <1>8 DEF Next, CoreNext

LEMMA SpecIInv == Spec => []IInv
  BY InitIInv, NextIInv, PTL DEF Spec

(***************************************************************************)
(* Every variable keeps its type: no count leaves 0 .. MaxCnt, no nesting  *)
(* level goes below zero, and OSPrioCur is always a task.                  *)
(***************************************************************************)
THEOREM KernelType == Spec => []TypeOK
  BY SpecIInv, PTL DEF IInv

(***************************************************************************)
(* The ready list holds exactly the tasks with nothing to wait for.        *)
(***************************************************************************)
THEOREM ReadyListExact == Spec => []ReadyExact
  BY SpecIInv, PTL DEF IInv

(***************************************************************************)
(* No task that blocked, was suspended or was deleted executes anything    *)
(* but the OS_Sched() that takes the CPU from it.                          *)
(***************************************************************************)
THEOREM OnlyReadyTasksRun == Spec => []OnlyReadyRuns
  <1>1. IInv => OnlyReadyRuns
    BY DEF IInv, CurOK, OnlyReadyRuns, Running
  <1> QED
    BY <1>1, SpecIInv, PTL

(***************************************************************************)
(* A wait list holds only tasks that exist and are inside a pend on that   *)
(* very event, so OSTaskDel and OS_EventTaskRdy unlink them everywhere.    *)
(***************************************************************************)
THEOREM WaitersListed == Spec => []WaitListed
  BY SpecIInv, PTL DEF IInv

(***************************************************************************)
(* No semaphore has units left while a task waits on it.                   *)
(***************************************************************************)
THEOREM NoWakeupLost == Spec => []NoLostWakeup
  BY SpecIInv, PTL DEF IInv

-----------------------------------------------------------------------------
(***************************************************************************)
(* Task control blocks and scheduling.                                     *)
(***************************************************************************)
UsedSet == {p \in Task : Used(p)}
LinkSet == {t \in Task : pc[t] = "tcbLink"}     \* they hold a TCB to fill in
Total == OSTCBFree + Cardinality(UsedSet) + Cardinality(LinkSet)

(* Whoever holds a TCB to fill in is a task that exists. *)
LinkersUsed == \A t \in Task : pc[t] = "tcbLink" => Used(t)

(* What the application must keep to: no task is deleted inside OSTaskCreate. *)
NoCreatorDeleted ==
  \A t \in Task : pc[t] = "tcbFree" => pc[arg[t]] # "tcbLink"

SameTcbs == /\ OSTCBFree' = OSTCBFree
            /\ \A u \in Task : /\ Used(u)' <=> Used(u)
                               /\ (pc[u] = "tcbLink")' <=> pc[u] = "tcbLink"

(* No step adds a TCB; none loses one unless it deletes a creator. *)
TcbStep == /\ Total' \in Nat /\ Total' <= Total
           /\ NoCreatorDeleted => Total' = Total
           /\ LinkersUsed'

-----------------------------------------------------------------------------
LEMMA TaskFinite == IsFiniteSet(Task)
  BY CoreAssumption, FS_BoundedSetOfNaturals

LEMMA TotalFinite ==
  ASSUME TypeOK
  PROVE  /\ IsFiniteSet(UsedSet) /\ IsFiniteSet(LinkSet)
         /\ Cardinality(UsedSet) \in Nat /\ Cardinality(LinkSet) \in Nat
         /\ OSTCBFree \in Nat /\ Total \in Nat
  <1>1. UsedSet \in SUBSET Task /\ LinkSet \in SUBSET Task
    BY DEF UsedSet, LinkSet
  <1>2. IsFiniteSet(UsedSet) /\ IsFiniteSet(LinkSet)
    BY <1>1, TaskFinite, FS_Subset
  <1>3. Cardinality(UsedSet) \in Nat /\ Cardinality(LinkSet) \in Nat
    BY <1>2, FS_CardinalityType
  <1> QED
    BY <1>2, <1>3 DEF Total, TypeOK

LEMMA SameStep ==
  ASSUME TypeOK, LinkersUsed, SameTcbs
  PROVE  TcbStep
  <1>1. UsedSet' = UsedSet /\ LinkSet' = LinkSet
    BY DEF UsedSet, LinkSet, SameTcbs
  <1>2. Total' = Total /\ Total \in Nat
    BY <1>1, TotalFinite DEF Total, SameTcbs
  <1> QED
    BY <1>2 DEF TcbStep, LinkersUsed, SameTcbs

(* A TCB is taken by a task that runs, so exists. *)
LEMMA TakeStep ==
  ASSUME IInv, LinkersUsed, NEW t \in Task, TcbTake(t)
  PROVE  TcbStep
  <1>1. /\ pc[t] = "tcbTake" /\ Used(t)
        /\ \A u \in Task \ {t} : pc'[u] = pc[u]
        /\ UsedSet' = UsedSet
    BY DEF IInv, TypeOK, CurOK, Leaving, ReadyExact, TcbTake, At, Running, Goto,
           UsedSet, Used
  <1>2. LinkersUsed'
    BY <1>1 DEF LinkersUsed, Used, TcbTake
  <1>3. CASE OSTCBFree > 0
    <2>1. pc'[t] = "tcbLink" /\ OSTCBFree' = OSTCBFree - 1
      BY <1>3 DEF IInv, TypeOK, TcbTake, Goto
    <2>2. LinkSet' = LinkSet \cup {t} /\ t \notin LinkSet
      BY <1>1, <2>1 DEF LinkSet
    <2>3. Cardinality(LinkSet') = Cardinality(LinkSet) + 1
      BY <2>2, FS_AddElement, TotalFinite DEF IInv
    <2>4. Total' = Total /\ Total \in Nat
      BY <1>1, <2>1, <2>3, TotalFinite DEF IInv, Total
    <2> QED
      BY <1>2, <2>4 DEF TcbStep
  <1>4. CASE ~(OSTCBFree > 0)
    <2>1. pc'[t] = "unreserve" /\ OSTCBFree' = OSTCBFree
      BY <1>4 DEF IInv, TypeOK, TcbTake, Goto
    <2>2. SameTcbs
      BY <1>1, <2>1 DEF SameTcbs, Used, TcbTake
    <2> QED
      BY <2>2, SameStep DEF IInv
  <1> QED
    BY <1>3, <1>4

LEMMA LinkStep ==
  ASSUME IInv, LinkersUsed, NEW t \in Task, TcbLink(t)
  PROVE  TcbStep
  <1>0. PICK p \in Task : p = arg[t]
    BY DEF IInv, ArgOK, Creating, TcbLink, At
  <1>1. ~Used(p) /\ pc[p] # "tcbLink" /\ pc[t] = "tcbLink" /\ Used(t)
    BY <1>0 DEF IInv, CreateOK, Creating, TcbLink, At, Used, LinkersUsed
  <1>2. /\ \A u \in Task : pc'[u] = "tcbLink" <=> pc[u] = "tcbLink" /\ u # t
        /\ \A u \in Task : Used(u)' <=> Used(u) \/ u = p
        /\ OSTCBFree' = OSTCBFree
    BY <1>0, <1>1 DEF IInv, TypeOK, TcbLink, Used
  <1>3. /\ UsedSet' = UsedSet \cup {p} /\ p \notin UsedSet
        /\ LinkSet' = LinkSet \ {t} /\ t \in LinkSet
    BY <1>1, <1>2 DEF UsedSet, LinkSet
  <1>4. /\ Cardinality(UsedSet') = Cardinality(UsedSet) + 1
        /\ Cardinality(LinkSet') = Cardinality(LinkSet) - 1
    BY <1>3, FS_AddElement, FS_RemoveElement, TotalFinite DEF IInv
  <1>5. Total' = Total /\ Total \in Nat
    BY <1>2, <1>4, TotalFinite DEF IInv, Total
  <1>6. LinkersUsed'
    BY <1>2 DEF LinkersUsed
  <1> QED
    BY <1>5, <1>6 DEF TcbStep

(* The deleted task gives its TCB back, not the one it holds for another.  *)
LEMMA FreeStep ==
  ASSUME IInv, LinkersUsed, NEW t \in Task, TaskDelFree(t)
  PROVE  TcbStep
  <1>0. PICK p \in Task : p = arg[t]
    BY DEF IInv, ArgOK, TaskDelFree, At
  <1>1. Used(p) /\ pc[t] = "tcbFree"
    BY <1>0 DEF IInv, DelOK, TaskDelFree, At
  <1>2. /\ \A u \in Task : pc'[u] = "tcbLink" <=> pc[u] = "tcbLink" /\ u # p
        /\ \A u \in Task : Used(u)' <=> Used(u) /\ u # p
        /\ OSTCBFree' = OSTCBFree + 1
    BY <1>0, <1>1 DEF IInv, TypeOK, TaskDelFree, Used
  <1>3. /\ UsedSet' = UsedSet \ {p} /\ p \in UsedSet
        /\ LinkSet' = LinkSet \ {p}
        /\ NoCreatorDeleted => p \notin LinkSet
    BY <1>0, <1>1, <1>2 DEF UsedSet, LinkSet, NoCreatorDeleted
  <1>4. /\ Cardinality(UsedSet') = Cardinality(UsedSet) - 1
        /\ Cardinality(LinkSet') <= Cardinality(LinkSet)
        /\ Cardinality(LinkSet') \in Nat
        /\ NoCreatorDeleted => Cardinality(LinkSet') = Cardinality(LinkSet)
    <2>1. Cardinality(UsedSet') = Cardinality(UsedSet) - 1
      BY <1>3, FS_RemoveElement, TotalFinite DEF IInv
    <2>2. Cardinality(LinkSet') = IF p \in LinkSet THEN Cardinality(LinkSet) - 1
                                  ELSE Cardinality(LinkSet)
      BY <1>3, FS_RemoveElement, TotalFinite DEF IInv
    <2>3. IsFiniteSet(LinkSet')
      BY <1>3, FS_RemoveElement, TotalFinite DEF IInv
    <2>4. Cardinality(LinkSet') \in Nat /\ Cardinality(LinkSet) \in Nat
      BY <2>3, FS_CardinalityType, TotalFinite DEF IInv
    <2> QED
      BY <1>3, <2>1, <2>2, <2>4
  <1>5. Total' \in Nat /\ Total' <= Total /\ (NoCreatorDeleted => Total' = Total)
    BY <1>2, <1>4, TotalFinite DEF IInv, Total
  <1>6. LinkersUsed'
    BY <1>2 DEF LinkersUsed
  <1> QED
    BY <1>5, <1>6 DEF TcbStep

-----------------------------------------------------------------------------
LEMMA NextTcb ==
  ASSUME IInv, LinkersUsed, [Next]_vars
  PROVE  TcbStep
  <1> USE DEF IInv, TypeOK, SameTcbs, Used
  <1>1. CASE Interrupt
    <2>1. SameTcbs
      BY <1>1 DEF Interrupt, IrqEntry, IrqExit, TickEntry, TickOne, OSIntExit, tblVars
    <2> QED
      BY <2>1, SameStep
  <1>2. ASSUME NEW t \in Task, KernelCall(t) PROVE TcbStep
    <2>1. CASE OS_Sched(t)
      <3>1. SameTcbs
        BY <2>1 DEF OS_Sched, At, Return, Goto, tblVars
      <3> QED
        BY <3>1, SameStep
    <2>2. CASE TaskUnreserve(t)
      <3>1. SameTcbs
        BY <2>2 DEF CreateOK, Creating, TaskUnreserve, At, Return, Goto
      <3> QED
        BY <3>1, SameStep
    <2> QED
      BY <1>2, <2>1, <2>2, TakeStep, LinkStep, FreeStep DEF KernelCall
  <1>3. ASSUME NEW t \in Task, AppCall(t) PROVE TcbStep
    <2>1. SameTcbs
      BY <1>3 DEF AppCall, OSTimeDly, OSTimeDlyResume, TaskReserve, OSTaskSuspend,
                  OSTaskResume, TaskDelUnlink, OSSchedLock, OSSchedUnlock, MayBlock,
                  Calling, Reschedule, Return, Goto, tblVars
    <2> QED
      BY <2>1, SameStep
  <1>4. ASSUME NEW t \in Task, SemKernel(t) PROVE TcbStep
    <2>1. SameTcbs
      BY <1>4 DEF SemKernel, SemTake, SemAcceptNone, SemPended, SemPost, SemWait,
                  SemSet, SemCreate, SemDel, At, Reschedule, Return, Goto, tblVars
    <2> QED
      BY <2>1, SameStep
  <1>5. ASSUME NEW t \in Task,
               EventTake(t) \/ \E f \in SemCalls, e \in Event : SemCall(t, f, e)
        PROVE  TcbStep
    <2>1. SameTcbs
      BY <1>5 DEF EventTake, SemCall, SemCalls, Calling, Goto, tblVars
    <2> QED
      BY <2>1, SameStep
  <1>6. CASE UNCHANGED vars \/ \E e \in IrqEvent : IrqPost(e)
    <2>1. SameTcbs
      BY <1>6 DEF vars, coreVars, tblVars, IrqPost
    <2> QED
      BY <2>1, SameStep
  <1> QED
    BY <1>1, <1>2, <1>3, <1>4, <1>5, <1>6 DEF Next, CoreNext

LEMMA InitTcb == Init => LinkersUsed /\ Total = SpareTcb + Cardinality(Boot)
  <1> SUFFICES ASSUME Init PROVE LinkersUsed /\ Total = SpareTcb + Cardinality(Boot)
    OBVIOUS
  <1>1. UsedSet = Boot /\ LinkSet = {}
    BY CoreAssumption DEF Init, CoreInit, UsedSet, LinkSet, Used
  <1>2. Cardinality(Boot) \in Nat
    BY CoreAssumption, TaskFinite, FS_Subset, FS_CardinalityType
  <1> QED
    BY <1>1, <1>2, FS_EmptySet, CoreAssumption DEF Init, CoreInit, LinkersUsed, Total

TcbNotDoubled == Total <= SpareTcb + Cardinality(Boot)

(***************************************************************************)
(* OSTaskCreate and OSTaskDel, interleaved in any way, never hand out one  *)
(* TCB twice: free, used and half-built ones never add up to more than     *)
(* there were at OSStart.                                                  *)
(***************************************************************************)
THEOREM TcbsNotDoubled == Spec => []TcbNotDoubled
  <1> DEFINE Inv == IInv /\ LinkersUsed /\ TcbNotDoubled
  <1>1. Cardinality(Boot) \in Nat
    BY CoreAssumption, TaskFinite, FS_Subset, FS_CardinalityType
  <1>2. Init => Inv
    BY <1>1, InitIInv, InitTcb, CoreAssumption DEF TcbNotDoubled
  <1>3. Inv /\ [Next]_vars => Inv'
    <2> SUFFICES ASSUME Inv, [Next]_vars PROVE Inv'
      OBVIOUS
    <2>1. IInv' /\ TcbStep
      BY NextIInv, NextTcb
    <2>2. Total \in Nat
      BY <2>1, TotalFinite DEF IInv, TcbNotDoubled
    <2> QED
      BY <1>1, <2>1, <2>2, CoreAssumption DEF TcbStep, TcbNotDoubled
  <1> QED
    BY <1>2, <1>3, PTL DEF Spec

(***************************************************************************)
(* ... and never lose one, as long as no task is deleted while it holds a  *)
(* TCB inside OSTaskCreate.                                                *)
(***************************************************************************)
THEOREM TcbsConserved == Spec /\ []NoCreatorDeleted => []TcbConserved
  <1> DEFINE Inv == IInv /\ LinkersUsed /\ TcbConserved
  <1>1. TcbConserved <=> Total = SpareTcb + Cardinality(Boot)
    BY DEF TcbConserved, Total, UsedSet, LinkSet
  <1>2. Init => Inv
    BY <1>1, InitIInv, InitTcb
  <1>3. Inv /\ NoCreatorDeleted /\ [Next]_vars => Inv'
    <2> SUFFICES ASSUME Inv, NoCreatorDeleted, [Next]_vars PROVE Inv'
      OBVIOUS
    <2>1. IInv' /\ TcbStep
      BY NextIInv, NextTcb
    <2>2. TcbConserved'
      BY <1>1, <2>1 DEF TcbStep, TcbConserved, Total, UsedSet, LinkSet
    <2> QED
      BY <2>1, <2>2 DEF TcbStep
  <1> QED
    BY <1>2, <1>3, PTL DEF Spec

-----------------------------------------------------------------------------
(* Outside of the tick, and unless it is about to call OS_Sched() or holds *)
(* the lock, no ready task is more urgent than the one that has the CPU.   *)
MostUrgent ==
  (~tick /\ OSLockNesting = 0 /\ pc[OSPrioCur] \notin Leaving)
    => \A q \in OSRdyTbl : OSPrioCur <= q

(* The ways a step keeps it: nothing becomes ready, or a scheduler call is *)
(* to come, or the scheduler has been called.                              *)
NothingReadied == /\ OSRdyTbl' \subseteq OSRdyTbl /\ OSPrioCur' = OSPrioCur
                  /\ tick' = tick
                  /\ OSLockNesting' = 0 => OSLockNesting = 0
                  /\ pc[OSPrioCur] \in Leaving => pc'[OSPrioCur] \in Leaving
SchedToCome == pc'[OSPrioCur'] \in Leaving \/ OSLockNesting' > 0 \/ tick'
Scheduled == \A q \in OSRdyTbl' : OSLockNesting' = 0 => OSPrioCur' <= q

LEMMA KeepsUrgent ==
  ASSUME TypeOK, MostUrgent, NothingReadied \/ SchedToCome \/ Scheduled
  PROVE  MostUrgent'
  BY DEF TypeOK, MostUrgent, NothingReadied, SchedToCome, Scheduled

LEMMA DispatchUrgent ==
  ASSUME IInv, OSLockNesting = 0
  PROVE  \A q \in OSRdyTbl : Dispatch(0) <= q
  <1>1. OSRdyTbl \in SUBSET Task /\ OSRdyTbl # {}
    BY HighestReady DEF IInv, TypeOK, IdleOK, ReadyExact, BeingDeleted, ArgOK
  <1> QED
    BY <1>1, HighestIn DEF Dispatch

LEMMA NextUrgent ==
  ASSUME IrqEvent = {}, IInv, MostUrgent, [Next]_vars
  PROVE  MostUrgent'
  <1> USE DEF IInv, TypeOK
  <1>1. CASE Interrupt
    <2>1. CASE OSIntExit
      <3>1. OSIntNesting - 1 = 0
        BY <2>1 DEF OSIntExit, NestingOK
      <3>2. Scheduled
        BY <2>1, <3>1, DispatchUrgent DEF OSIntExit, Scheduled
      <3> QED
        BY <3>2, KeepsUrgent
    <2>2. CASE IrqEntry \/ IrqExit
      <3>1. NothingReadied
        BY <2>2 DEF IrqEntry, IrqExit, NothingReadied
      <3> QED
        BY <3>1, KeepsUrgent
    <2>3. CASE TickEntry \/ \E p \in Task : TickOne(p)
      <3>1. tick'
        BY <2>3 DEF TickEntry, TickOne
      <3> QED
        BY <3>1 DEF MostUrgent
    <2> QED
      BY <1>1, <2>1, <2>2, <2>3 DEF Interrupt
  <1>2. ASSUME NEW t \in Task, KernelCall(t) PROVE MostUrgent'
    <2>1. CASE OS_Sched(t)
      <3>1. OSIntNesting = 0
        BY <2>1 DEF OS_Sched, At, Running, NestingOK
      <3>2. Scheduled
        BY <2>1, <3>1, DispatchUrgent DEF OS_Sched, Scheduled
      <3> QED
        BY <3>2, KeepsUrgent
    <2>2. CASE TcbTake(t) \/ TaskUnreserve(t)
      <3>1. NothingReadied
        BY <2>2 DEF TcbTake, TaskUnreserve, At, Running, Return, Goto, Leaving,
                    NothingReadied, cpuVars
      <3> QED
        BY <3>1, KeepsUrgent
    <2>3. CASE TcbLink(t) \/ TaskDelFree(t)
      <3>1. SchedToCome
        BY <2>3 DEF TcbLink, TaskDelFree, At, Running, Leaving, SchedToCome, cpuVars
      <3> QED
        BY <3>1, KeepsUrgent
    <2> QED
      BY <1>2, <2>1, <2>2, <2>3 DEF KernelCall
  <1>3. ASSUME NEW t \in Task, AppCall(t) PROVE MostUrgent'
    <2>1. CASE \/ \E n \in 1 .. MaxDly : OSTimeDly(t, n)
               \/ OSSchedLock(t) \/ \E p \in MayDelete : TaskDelUnlink(t, p)
      <3>1. SchedToCome
        BY <2>1 DEF OSTimeDly, OSSchedLock, TaskDelUnlink, MayBlock, Calling, Running,
                    Reschedule, Goto, Leaving, SchedToCome, cpuVars
      <3> QED
        BY <3>1, KeepsUrgent
    <2>2. CASE \/ OSSchedUnlock(t)
               \/ \E p \in Task : TaskReserve(t, p) \/ OSTaskSuspend(t, p)
      <3>1. NothingReadied \/ SchedToCome
        BY <2>2 DEF OSSchedUnlock, TaskReserve, OSTaskSuspend, MayBlock, Calling,
                    Running, Reschedule, Return, Goto, Leaving, NothingReadied,
                    SchedToCome, cpuVars
      <3> QED
        BY <3>1, KeepsUrgent
    <2>3. ASSUME NEW p \in Task, OSTimeDlyResume(t, p) \/ OSTaskResume(t, p)
          PROVE  MostUrgent'
      <3>1. NothingReadied \/ SchedToCome
        BY <2>3 DEF OSTimeDlyResume, OSTaskResume, DlyExpired, ReadyIf, Pend, Calling,
                    Running, Reschedule, Return, Goto, Leaving, NothingReadied,
                    SchedToCome, cpuVars
      <3> QED
        BY <3>1, KeepsUrgent
    <2> QED
      BY <1>3, <2>1, <2>2, <2>3, TargetAssumption DEF AppCall
  <1>4. ASSUME NEW t \in Task, SemKernel(t) PROVE MostUrgent'
    <2>1. CASE \/ SemTake(t) \/ SemAcceptNone(t) \/ SemPended(t)
               \/ \E n \in 0 .. MaxCnt : SemSet(t, n) \/ SemCreate(t, n)
      <3>1. NothingReadied
        BY <2>1 DEF SemTake, SemAcceptNone, SemPended, EventTO, EventGot, SemSet,
                    SemCreate, At, Running, Return, Goto, Leaving, NothingReadied, cpuVars
      <3> QED
        BY <3>1, KeepsUrgent
    <2>2. CASE \E n \in 0 .. MaxDly : SemWait(t, n)
      <3>1. SchedToCome
        BY <2>2 DEF SemWait, At, Running, Goto, Leaving, SchedToCome, cpuVars
      <3> QED
        BY <3>1, KeepsUrgent
    <2>3. CASE SemPost(t) \/ \E opt \in DelOpts : SemDel(t, opt)
      <3>1. NothingReadied \/ SchedToCome
        BY <2>3 DEF SemPost, Post, SemDel, EventTaskRdy, At, Running, Reschedule,
                    Return, Goto, Leaving, NothingReadied, SchedToCome, cpuVars
      <3> QED
        BY <3>1, KeepsUrgent
    <2> QED
      BY <1>4, <2>1, <2>2, <2>3 DEF SemKernel
  <1>5. ASSUME NEW t \in Task,
               EventTake(t) \/ \E f \in SemCalls, e \in Event : SemCall(t, f, e)
        PROVE  MostUrgent'
    <2>1. NothingReadied
      BY <1>5 DEF EventTake, SemCall, SemCalls, Calling, Running, Goto, Leaving,
                  NothingReadied, cpuVars
    <2> QED
      BY <2>1, KeepsUrgent
  <1>6. CASE UNCHANGED vars
    <2>1. NothingReadied
      BY <1>6 DEF vars, coreVars, cpuVars, NothingReadied
    <2> QED
      BY <2>1, KeepsUrgent
  <1> QED
    BY <1>1, <1>2, <1>3, <1>4, <1>5, <1>6 DEF Next, CoreNext

(***************************************************************************)
(* The most urgent ready task runs, for any number of tasks, in a system   *)
(* whose interrupt handlers post nothing: IRQ_EXIT does not schedule, so   *)
(* after a post by a handler it holds only from the next tick on.          *)
(***************************************************************************)
THEOREM MostUrgentRuns == ASSUME IrqEvent = {} PROVE Spec => []HighestRuns
  <1>1. Init => MostUrgent
    BY HighestIn, CoreAssumption DEF Init, CoreInit, MostUrgent
  <1>2. IInv /\ MostUrgent /\ [Next]_vars => MostUrgent'
    BY NextUrgent
  <1>3. IInv /\ MostUrgent => HighestRuns
    <2> SUFFICES ASSUME IInv, MostUrgent, NEW t \in Task, Running(t),
                        pc[t] \notin Leaving, OSLockNesting = 0
                 PROVE  t = Highest(OSRdyTbl)
      BY DEF HighestRuns
    <2>1. t \in OSRdyTbl /\ \A q \in OSRdyTbl : t <= q
      BY DEF IInv, CurOK, MostUrgent, Running
    <2>2. /\ Highest(OSRdyTbl) \in OSRdyTbl
          /\ \A q \in OSRdyTbl : Highest(OSRdyTbl) <= q /\ q \in Nat
      BY <2>1, HighestIn, CoreAssumption DEF IInv, TypeOK
    <2> QED
      BY <2>1, <2>2
  <1> QED
    BY <1>1, <1>2, <1>3, SpecIInv, PTL DEF Spec

-----------------------------------------------------------------------------
(***************************************************************************)
(* What a pend returns, and that the semaphores implement their abstract   *)
(* ones, proved for an application that deletes no semaphore (DelOpts =    *)
(* {}): OSSemDel frees a block that a late OSSemPend may still wait on,    *)
(* and then none of the theorems below holds.                              *)
(***************************************************************************)
(***************************************************************************)
(* Without deletions a block is free, or being created by one task, or a   *)
(* semaphore for ever.  F is a set of blocks that holds the free list and  *)
(* no two of them have the same successor.                                 *)
(***************************************************************************)
FreeList(F) ==
  /\ OSEventFreeList \in F \cup {None}
  /\ \A e \in F : /\ OSEventPtr[e] \in F \cup {None}
                  /\ OSEventType[e] = "UNUSED"
                  /\ OSEventPtr[e] # None => OSEventPtr[e] # OSEventFreeList
                  /\ \A t \in Task : pc[t] = "semInit" => arg[t] # e
  /\ \A e, f \in F : OSEventPtr[e] = OSEventPtr[f] /\ OSEventPtr[e] # None
                     => e = f

FreeListOK == \E F \in SUBSET Event : FreeList(F)

CallsOK ==
  \A t \in Task : /\ pc[t] # "semDel"
                  /\ pc[t] = "semInit" => OSEventType[arg[t]] = "UNUSED"
                  /\ OnEvent(t) /\ pc[t] # "semInit" => OSEventType[arg[t]] = "SEM"

CreatorsOK ==
  \A t, u \in Task : pc[t] = "semInit" /\ pc[u] = "semInit" /\ arg[t] = arg[u]
                     => t = u

EventOK == FreeListOK /\ CallsOK /\ CreatorsOK /\ WaitsOnlyOnSemaphores

(* Whoever has the pending status or the timeout is still in a wait list. *)
ListedOK ==
  \A p \in Task : "SEM" \in OSTCBStat[p] \/ OSTCBPendTO[p]
                  => OSTCBEventPtr[p] = arg[p] /\ p \in OSEventTbl[arg[p]]

DInv == EventOK /\ ListedOK

(* A step that creates nothing and puts tasks only on semaphores. *)
KeepsEvents ==
  /\ UNCHANGED <<OSEventFreeList, OSEventPtr, OSEventType>>
  /\ \A u \in Task : OnEvent(u)' =>
       \/ /\ OnEvent(u) /\ arg'[u] = arg[u]
          /\ pc'[u] = "semInit" <=> pc[u] = "semInit"
          /\ pc'[u] = "semDel" => pc[u] = "semDel"
       \/ pc'[u] \notin {"semInit", "semDel"} /\ OSEventType[arg'[u]] = "SEM"
  /\ \A e \in Event : OSEventTbl'[e] # {}
                      => OSEventTbl[e] # {} \/ OSEventType[e] = "SEM"

-----------------------------------------------------------------------------
LEMMA InitDInv == Init => DInv
  <1> SUFFICES ASSUME Init PROVE DInv
    OBVIOUS
  <1> USE DEF Init, CoreInit
  <1>1. FreeListOK
    <2> DEFINE S == Event \ SemInit
               n == Cardinality(S)
    <2>1. n \in Nat
      BY CoreAssumption, FS_Subset, FS_CardinalityType
    <2>2. PICK f \in [1 .. n -> S] :
            /\ \A i, j \in 1 .. n : i # j => f[i] # f[j]
            /\ OSEventFreeList = IF n = 0 THEN None ELSE f[1]
            /\ \A i \in 1 .. n : OSEventPtr[f[i]] = IF i = n THEN None ELSE f[i + 1]
      BY DEF FreeListOf
    <2> DEFINE F == {f[i] : i \in 1 .. n}
    <2> HIDE DEF n
    <2>3. /\ F \in SUBSET Event
          /\ \A i \in 1 .. n : f[i] \in Event /\ f[i] \notin SemInit /\ f[i] # None
      BY CoreAssumption
    <2>4. OSEventFreeList \in F \cup {None}
      BY <2>1, <2>2
    <2>5. \A i \in 1 .. n :
            /\ OSEventPtr[f[i]] \in F \cup {None}
            /\ OSEventType[f[i]] = "UNUSED"
            /\ OSEventPtr[f[i]] # None => OSEventPtr[f[i]] # OSEventFreeList
      BY SMTT(60), <2>1, <2>2, <2>3
    <2>6. \A i, j \in 1 .. n : OSEventPtr[f[i]] = OSEventPtr[f[j]]
                               /\ OSEventPtr[f[i]] # None => f[i] = f[j]
      BY SMTT(60), <2>1, <2>2, <2>3
    <2>7. \A e \in F : \E i \in 1 .. n : e = f[i]
      OBVIOUS
    <2>8. \A t \in Task : pc[t] # "semInit"
      OBVIOUS
    <2> HIDE DEF F, Init, CoreInit
    <2>9. FreeList(F)
      BY <2>4, <2>5, <2>6, <2>7, <2>8 DEF FreeList
    <2> QED
      BY <2>3, <2>9 DEF FreeListOK
  <1>2. CallsOK /\ CreatorsOK /\ WaitsOnlyOnSemaphores
    BY DEF CallsOK, CreatorsOK, OnEvent, SemCalls, WaitsOnlyOnSemaphores
  <1>3. ListedOK
    BY DEF ListedOK
  <1> QED
    BY <1>1, <1>2, <1>3 DEF DInv, EventOK

LEMMA KeepsEventOK == EventOK /\ KeepsEvents => EventOK'
  <1> SUFFICES ASSUME EventOK, KeepsEvents PROVE EventOK'
    OBVIOUS
  <1>1. FreeListOK'
    <2>1. PICK F \in SUBSET Event : FreeList(F)
      BY DEF EventOK, FreeListOK
    <2>2. FreeList(F)'
      BY <2>1 DEF FreeList, KeepsEvents, OnEvent
    <2> QED
      BY <2>2 DEF FreeListOK
  <1>2. CallsOK'
    BY DEF EventOK, CallsOK, KeepsEvents, OnEvent, SemCalls
  <1>3. CreatorsOK'
    BY DEF EventOK, CreatorsOK, KeepsEvents, OnEvent
  <1>4. WaitsOnlyOnSemaphores'
    BY DEF EventOK, KeepsEvents, WaitsOnlyOnSemaphores
  <1> QED
    BY <1>1, <1>2, <1>3, <1>4 DEF EventOK

LEMMA IrqEntryDInv ==
  ASSUME IInv, DInv, IrqEntry /\ UNCHANGED semVars
  PROVE  DInv'
  <1>1. KeepsEvents
    BY CoreAssumption, SemAssumption, TargetAssumption, SMTT(60)
    DEF IInv, TypeOK, ArgOK, Creating, EventOK, CallsOK, KeepsEvents, OnEvent,
        SemCalls, DInv, cpuVars, tblVars, tcbVars, semVars, IrqEntry
  <1>2. ListedOK'
    BY CoreAssumption, SemAssumption, TargetAssumption, SMTT(60)
    DEF DInv, IInv, TypeOK, ArgOK, OnEvent, SemCalls, PendOK, InPend, Pend,
        ListedOK, DelOK, DeadOK, Used, CurOK, Leaving, ReadyExact, WaitListed,
        CreateOK, Creating, cpuVars, tblVars, tcbVars, semVars, IrqEntry
  <1> QED
    BY <1>1, <1>2, KeepsEventOK DEF DInv

LEMMA IrqExitDInv ==
  ASSUME IInv, DInv, IrqExit /\ UNCHANGED semVars
  PROVE  DInv'
  <1>1. KeepsEvents
    BY CoreAssumption, SemAssumption, TargetAssumption, SMTT(60)
    DEF IInv, TypeOK, ArgOK, Creating, EventOK, CallsOK, KeepsEvents, OnEvent,
        SemCalls, DInv, cpuVars, tblVars, tcbVars, semVars, IrqExit
  <1>2. ListedOK'
    BY CoreAssumption, SemAssumption, TargetAssumption, SMTT(60)
    DEF DInv, IInv, TypeOK, ArgOK, OnEvent, SemCalls, PendOK, InPend, Pend,
        ListedOK, DelOK, DeadOK, Used, CurOK, Leaving, ReadyExact, WaitListed,
        CreateOK, Creating, cpuVars, tblVars, tcbVars, semVars, IrqExit
  <1> QED
    BY <1>1, <1>2, KeepsEventOK DEF DInv

LEMMA TickEntryDInv ==
  ASSUME IInv, DInv, TickEntry /\ UNCHANGED semVars
  PROVE  DInv'
  <1>1. KeepsEvents
    BY CoreAssumption, SemAssumption, TargetAssumption, SMTT(60)
    DEF IInv, TypeOK, ArgOK, Creating, EventOK, CallsOK, KeepsEvents, OnEvent,
        SemCalls, DInv, cpuVars, tblVars, tcbVars, semVars, TickEntry
  <1>2. ListedOK'
    BY CoreAssumption, SemAssumption, TargetAssumption, SMTT(60)
    DEF DInv, IInv, TypeOK, ArgOK, OnEvent, SemCalls, PendOK, InPend, Pend,
        ListedOK, DelOK, DeadOK, Used, CurOK, Leaving, ReadyExact, WaitListed,
        CreateOK, Creating, cpuVars, tblVars, tcbVars, semVars, TickEntry
  <1> QED
    BY <1>1, <1>2, KeepsEventOK DEF DInv

LEMMA TickOneDInv ==
  ASSUME IInv, DInv, NEW p \in Task,
         TickOne(p) /\ UNCHANGED semVars
  PROVE  DInv'
  <1>1. KeepsEvents
    BY CoreAssumption, SemAssumption, TargetAssumption, SMTT(60)
    DEF IInv, TypeOK, ArgOK, Creating, EventOK, CallsOK, KeepsEvents, OnEvent,
        SemCalls, DInv, cpuVars, tblVars, tcbVars, semVars, TickOne,
        DlyExpired, ReadyIf
  <1>2. ListedOK'
    BY CoreAssumption, SemAssumption, TargetAssumption, SMTT(60)
    DEF DInv, IInv, TypeOK, ArgOK, OnEvent, SemCalls, PendOK, InPend, Pend,
        ListedOK, DelOK, DeadOK, Used, CurOK, Leaving, ReadyExact, WaitListed,
        CreateOK, Creating, cpuVars, tblVars, tcbVars, semVars, TickOne,
        DlyExpired, ReadyIf
  <1> QED
    BY <1>1, <1>2, KeepsEventOK DEF DInv

LEMMA IntExitDInv ==
  ASSUME IInv, DInv, OSIntExit /\ UNCHANGED semVars
  PROVE  DInv'
  <1>1. KeepsEvents
    BY CoreAssumption, SemAssumption, TargetAssumption, SMTT(60)
    DEF IInv, TypeOK, ArgOK, Creating, EventOK, CallsOK, KeepsEvents, OnEvent,
        SemCalls, DInv, cpuVars, tblVars, tcbVars, semVars, OSIntExit, Dispatch
  <1>2. ListedOK'
    BY CoreAssumption, SemAssumption, TargetAssumption, SMTT(60)
    DEF DInv, IInv, TypeOK, ArgOK, OnEvent, SemCalls, PendOK, InPend, Pend,
        ListedOK, DelOK, DeadOK, Used, CurOK, Leaving, ReadyExact, WaitListed,
        CreateOK, Creating, cpuVars, tblVars, tcbVars, semVars, OSIntExit,
        Dispatch
  <1> QED
    BY <1>1, <1>2, KeepsEventOK DEF DInv

LEMMA SchedDInv ==
  ASSUME IInv, DInv, NEW t \in Task,
         OS_Sched(t) /\ UNCHANGED semVars
  PROVE  DInv'
  <1>1. KeepsEvents
    BY CoreAssumption, SemAssumption, TargetAssumption, SMTT(60)
    DEF IInv, TypeOK, ArgOK, Creating, EventOK, CallsOK, KeepsEvents, OnEvent,
        SemCalls, DInv, cpuVars, tblVars, tcbVars, semVars, OS_Sched, Dispatch,
        At, Running, Return, Goto
  <1>2. ListedOK'
    BY CoreAssumption, SemAssumption, TargetAssumption, SMTT(60)
    DEF DInv, IInv, TypeOK, ArgOK, OnEvent, SemCalls, PendOK, InPend, Pend,
        ListedOK, DelOK, DeadOK, Used, CurOK, Leaving, ReadyExact, WaitListed,
        CreateOK, Creating, cpuVars, tblVars, tcbVars, semVars, OS_Sched,
        Dispatch, At, Running, Return, Goto
  <1> QED
    BY <1>1, <1>2, KeepsEventOK DEF DInv

LEMMA TcbTakeDInv ==
  ASSUME IInv, DInv, NEW t \in Task,
         TcbTake(t) /\ UNCHANGED semVars
  PROVE  DInv'
  <1>1. KeepsEvents
    BY CoreAssumption, SemAssumption, TargetAssumption, SMTT(60)
    DEF IInv, TypeOK, ArgOK, Creating, EventOK, CallsOK, KeepsEvents, OnEvent,
        SemCalls, DInv, cpuVars, tblVars, tcbVars, semVars, TcbTake, At,
        Running, Goto
  <1>2. ListedOK'
    BY CoreAssumption, SemAssumption, TargetAssumption, SMTT(60)
    DEF DInv, IInv, TypeOK, ArgOK, OnEvent, SemCalls, PendOK, InPend, Pend,
        ListedOK, DelOK, DeadOK, Used, CurOK, Leaving, ReadyExact, WaitListed,
        CreateOK, Creating, cpuVars, tblVars, tcbVars, semVars, TcbTake, At,
        Running, Goto
  <1> QED
    BY <1>1, <1>2, KeepsEventOK DEF DInv

LEMMA TcbLinkDInv ==
  ASSUME IInv, DInv, NEW t \in Task,
         TcbLink(t) /\ UNCHANGED semVars
  PROVE  DInv'
  <1>1. KeepsEvents
    BY CoreAssumption, SemAssumption, TargetAssumption, SMTT(60)
    DEF IInv, TypeOK, ArgOK, Creating, EventOK, CallsOK, KeepsEvents, OnEvent,
        SemCalls, DInv, cpuVars, tblVars, tcbVars, semVars, TcbLink, At,
        Running
  <1>2. ListedOK'
    BY CoreAssumption, SemAssumption, TargetAssumption, SMTT(60)
    DEF DInv, IInv, TypeOK, ArgOK, OnEvent, SemCalls, PendOK, InPend, Pend,
        ListedOK, DelOK, DeadOK, Used, CurOK, Leaving, ReadyExact, WaitListed,
        CreateOK, Creating, cpuVars, tblVars, tcbVars, semVars, TcbLink, At,
        Running
  <1> QED
    BY <1>1, <1>2, KeepsEventOK DEF DInv

LEMMA UnreserveDInv ==
  ASSUME IInv, DInv, NEW t \in Task,
         TaskUnreserve(t) /\ UNCHANGED semVars
  PROVE  DInv'
  <1>1. KeepsEvents
    BY CoreAssumption, SemAssumption, TargetAssumption, SMTT(60)
    DEF IInv, TypeOK, ArgOK, Creating, EventOK, CallsOK, KeepsEvents, OnEvent,
        SemCalls, DInv, cpuVars, tblVars, tcbVars, semVars, TaskUnreserve, At,
        Running, Return, Goto
  <1>2. ListedOK'
    BY CoreAssumption, SemAssumption, TargetAssumption, SMTT(60)
    DEF DInv, IInv, TypeOK, ArgOK, OnEvent, SemCalls, PendOK, InPend, Pend,
        ListedOK, DelOK, DeadOK, Used, CurOK, Leaving, ReadyExact, WaitListed,
        CreateOK, Creating, cpuVars, tblVars, tcbVars, semVars, TaskUnreserve,
        At, Running, Return, Goto
  <1> QED
    BY <1>1, <1>2, KeepsEventOK DEF DInv

LEMMA DelFreeDInv ==
  ASSUME IInv, DInv, NEW t \in Task,
         TaskDelFree(t) /\ UNCHANGED semVars
  PROVE  DInv'
  <1>1. KeepsEvents
    BY CoreAssumption, SemAssumption, TargetAssumption, SMTT(60)
    DEF IInv, TypeOK, ArgOK, Creating, EventOK, CallsOK, KeepsEvents, OnEvent,
        SemCalls, DInv, cpuVars, tblVars, tcbVars, semVars, TaskDelFree, At,
        Running
  <1>2. ListedOK'
    <2>1. arg[t] \in Task /\ OSTCBStat[arg[t]] = {} /\ ~OSTCBPendTO[arg[t]]
      BY DEF IInv, ArgOK, DelOK, TaskDelFree, At
    <2>2. \A p \in Task : p # arg[t] /\ p # t => arg'[p] = arg[p]
      BY <2>1 DEF IInv, TypeOK, TaskDelFree
    <2>3. "SEM" \notin OSTCBStat[t] /\ ~OSTCBPendTO[t]
      BY DEF IInv, PendOK, InPend, TaskDelFree, At
    <2> QED
      BY <2>1, <2>2, <2>3 DEF DInv, ListedOK, tcbVars, TaskDelFree
  <1> QED
    BY <1>1, <1>2, KeepsEventOK DEF DInv

LEMMA DlyDInv ==
  ASSUME IInv, DInv, NEW t \in Task, NEW n \in 1 .. MaxDly,
         OSTimeDly(t, n) /\ UNCHANGED semVars
  PROVE  DInv'
  <1>1. KeepsEvents
    BY CoreAssumption, SemAssumption, TargetAssumption, SMTT(60)
    DEF IInv, TypeOK, ArgOK, Creating, EventOK, CallsOK, KeepsEvents, OnEvent,
        SemCalls, DInv, cpuVars, tblVars, tcbVars, semVars, OSTimeDly,
        MayBlock, Calling, Running, Reschedule, Goto
  <1>2. ListedOK'
    BY DEF DInv, IInv, TypeOK, PendOK, InPend, ListedOK, tcbVars, OSTimeDly, MayBlock, Calling, Running, Reschedule, Goto
  <1> QED
    BY <1>1, <1>2, KeepsEventOK DEF DInv

LEMMA DlyResumeDInv ==
  ASSUME IInv, DInv, NEW t \in Task, NEW p \in Task \ {Idle},
         OSTimeDlyResume(t, p) /\ UNCHANGED semVars
  PROVE  DInv'
  <1>1. KeepsEvents
    BY CoreAssumption, SemAssumption, TargetAssumption, SMTT(60)
    DEF IInv, TypeOK, ArgOK, Creating, EventOK, CallsOK, KeepsEvents, OnEvent,
        SemCalls, DInv, cpuVars, tblVars, tcbVars, semVars, OSTimeDlyResume,
        DlyExpired, ReadyIf, Calling, Running, Reschedule, Return, Goto
  <1>2. ListedOK'
    BY CoreAssumption, SemAssumption, TargetAssumption, SMTT(60)
    DEF DInv, IInv, TypeOK, ArgOK, OnEvent, SemCalls, PendOK, InPend, Pend,
        ListedOK, DelOK, DeadOK, Used, CurOK, Leaving, ReadyExact, WaitListed,
        CreateOK, Creating, cpuVars, tblVars, tcbVars, semVars,
        OSTimeDlyResume, DlyExpired, ReadyIf, Calling, Running, Reschedule,
        Return, Goto
  <1> QED
    BY <1>1, <1>2, KeepsEventOK DEF DInv

LEMMA ReserveDInv ==
  ASSUME IInv, DInv, NEW t \in Task, NEW p \in Task \ {Idle},
         TaskReserve(t, p) /\ UNCHANGED semVars
  PROVE  DInv'
  <1>1. KeepsEvents
    BY CoreAssumption, SemAssumption, TargetAssumption, SMTT(60)
    DEF IInv, TypeOK, ArgOK, Creating, EventOK, CallsOK, KeepsEvents, OnEvent,
        SemCalls, DInv, cpuVars, tblVars, tcbVars, semVars, TaskReserve,
        Calling, Running, Goto
  <1>2. ListedOK'
    BY CoreAssumption, SemAssumption, TargetAssumption, SMTT(60)
    DEF DInv, IInv, TypeOK, ArgOK, OnEvent, SemCalls, PendOK, InPend, Pend,
        ListedOK, DelOK, DeadOK, Used, CurOK, Leaving, ReadyExact, WaitListed,
        CreateOK, Creating, cpuVars, tblVars, tcbVars, semVars, TaskReserve,
        Calling, Running, Goto
  <1> QED
    BY <1>1, <1>2, KeepsEventOK DEF DInv

LEMMA SuspendDInv ==
  ASSUME IInv, DInv, NEW t \in Task, NEW p \in MaySuspend,
         OSTaskSuspend(t, p) /\ UNCHANGED semVars
  PROVE  DInv'
  <1>1. KeepsEvents
    BY CoreAssumption, SemAssumption, TargetAssumption, SMTT(60)
    DEF IInv, TypeOK, ArgOK, Creating, EventOK, CallsOK, KeepsEvents, OnEvent,
        SemCalls, DInv, cpuVars, tblVars, tcbVars, semVars, OSTaskSuspend,
        MayBlock, Calling, Running, Reschedule, Return, Goto
  <1>2. ListedOK'
    BY CoreAssumption, SemAssumption, TargetAssumption, SMTT(60)
    DEF DInv, IInv, TypeOK, ArgOK, OnEvent, SemCalls, PendOK, InPend, Pend,
        ListedOK, DelOK, DeadOK, Used, CurOK, Leaving, ReadyExact, WaitListed,
        CreateOK, Creating, cpuVars, tblVars, tcbVars, semVars, OSTaskSuspend,
        MayBlock, Calling, Running, Reschedule, Return, Goto
  <1> QED
    BY <1>1, <1>2, KeepsEventOK DEF DInv

LEMMA ResumeDInv ==
  ASSUME IInv, DInv, NEW t \in Task, NEW p \in MaySuspend,
         OSTaskResume(t, p) /\ UNCHANGED semVars
  PROVE  DInv'
  <1>1. KeepsEvents
    BY CoreAssumption, SemAssumption, TargetAssumption, SMTT(60)
    DEF IInv, TypeOK, ArgOK, Creating, EventOK, CallsOK, KeepsEvents, OnEvent,
        SemCalls, DInv, cpuVars, tblVars, tcbVars, semVars, OSTaskResume,
        Calling, Running, Reschedule, Return, Goto
  <1>2. ListedOK'
    BY CoreAssumption, SemAssumption, TargetAssumption, SMTT(60)
    DEF DInv, IInv, TypeOK, ArgOK, OnEvent, SemCalls, PendOK, InPend, Pend,
        ListedOK, DelOK, DeadOK, Used, CurOK, Leaving, ReadyExact, WaitListed,
        CreateOK, Creating, cpuVars, tblVars, tcbVars, semVars, OSTaskResume,
        Calling, Running, Reschedule, Return, Goto
  <1> QED
    BY <1>1, <1>2, KeepsEventOK DEF DInv

LEMMA DelUnlinkDInv ==
  ASSUME IInv, DInv, NEW t \in Task, NEW p \in MayDelete,
         TaskDelUnlink(t, p) /\ UNCHANGED semVars
  PROVE  DInv'
  <1>1. KeepsEvents
    BY CoreAssumption, SemAssumption, TargetAssumption, SMTT(60)
    DEF IInv, TypeOK, ArgOK, Creating, EventOK, CallsOK, KeepsEvents, OnEvent,
        SemCalls, DInv, cpuVars, tblVars, tcbVars, semVars, TaskDelUnlink,
        MayBlock, Calling, Running, Goto
  <1>2. ListedOK'
    BY CoreAssumption, SemAssumption, TargetAssumption, SMTT(60)
    DEF DInv, IInv, TypeOK, ArgOK, OnEvent, SemCalls, PendOK, InPend, Pend,
        ListedOK, DelOK, DeadOK, Used, CurOK, Leaving, ReadyExact, WaitListed,
        CreateOK, Creating, cpuVars, tblVars, tcbVars, semVars, TaskDelUnlink,
        MayBlock, Calling, Running, Goto
  <1> QED
    BY <1>1, <1>2, KeepsEventOK DEF DInv

LEMMA LockDInv ==
  ASSUME IInv, DInv, NEW t \in Task,
         OSSchedLock(t) /\ UNCHANGED semVars
  PROVE  DInv'
  <1>1. KeepsEvents
    BY CoreAssumption, SemAssumption, TargetAssumption, SMTT(60)
    DEF IInv, TypeOK, ArgOK, Creating, EventOK, CallsOK, KeepsEvents, OnEvent,
        SemCalls, DInv, cpuVars, tblVars, tcbVars, semVars, OSSchedLock,
        Calling, Running
  <1>2. ListedOK'
    BY CoreAssumption, SemAssumption, TargetAssumption, SMTT(60)
    DEF DInv, IInv, TypeOK, ArgOK, OnEvent, SemCalls, PendOK, InPend, Pend,
        ListedOK, DelOK, DeadOK, Used, CurOK, Leaving, ReadyExact, WaitListed,
        CreateOK, Creating, cpuVars, tblVars, tcbVars, semVars, OSSchedLock,
        Calling, Running
  <1> QED
    BY <1>1, <1>2, KeepsEventOK DEF DInv

LEMMA UnlockDInv ==
  ASSUME IInv, DInv, NEW t \in Task,
         OSSchedUnlock(t) /\ UNCHANGED semVars
  PROVE  DInv'
  <1>1. KeepsEvents
    BY CoreAssumption, SemAssumption, TargetAssumption, SMTT(60)
    DEF IInv, TypeOK, ArgOK, Creating, EventOK, CallsOK, KeepsEvents, OnEvent,
        SemCalls, DInv, cpuVars, tblVars, tcbVars, semVars, OSSchedUnlock,
        Calling, Running, Reschedule, Return, Goto
  <1>2. ListedOK'
    BY CoreAssumption, SemAssumption, TargetAssumption, SMTT(60)
    DEF DInv, IInv, TypeOK, ArgOK, OnEvent, SemCalls, PendOK, InPend, Pend,
        ListedOK, DelOK, DeadOK, Used, CurOK, Leaving, ReadyExact, WaitListed,
        CreateOK, Creating, cpuVars, tblVars, tcbVars, semVars, OSSchedUnlock,
        Calling, Running, Reschedule, Return, Goto
  <1> QED
    BY <1>1, <1>2, KeepsEventOK DEF DInv

LEMMA IrqPostDInv ==
  ASSUME IInv, DInv, NEW e \in IrqEvent,
         IrqPost(e)
  PROVE  DInv'
  <1>1. KeepsEvents
    BY CoreAssumption, SemAssumption, TargetAssumption, SMTT(60)
    DEF IInv, TypeOK, ArgOK, Creating, EventOK, CallsOK, KeepsEvents, OnEvent,
        SemCalls, DInv, cpuVars, tblVars, tcbVars, semVars, IrqPost, Post,
        EventTaskRdy
  <1>2. ListedOK'
    <2>1. CASE OSEventTbl[e] = {}
      BY <2>1 DEF DInv, ListedOK, tcbVars, IrqPost, Post
    <2>2. CASE OSEventTbl[e] # {}
      <3> DEFINE h == Highest(OSEventTbl[e])
      <3>1. h \in OSEventTbl[e] /\ h \in Task /\ e \in Event
        BY <2>2, HighestIn, SemAssumption DEF IInv, TypeOK
      <3>2. EventTaskRdy(e, {h}, "SEM") /\ arg' = arg
        BY <2>2 DEF IrqPost, Post
      <3>3. "SEM" \notin OSTCBStat'[h] /\ ~OSTCBPendTO'[h]
        BY <3>1, <3>2 DEF EventTaskRdy
      <3>4. ASSUME NEW p \in Task, p # h
            PROVE  /\ OSTCBStat'[p] = OSTCBStat[p] /\ OSTCBEventPtr'[p] = OSTCBEventPtr[p]
                   /\ OSTCBPendTO'[p] <=> OSTCBPendTO[p]
                   /\ \A f \in Event : p \in OSEventTbl[f] => p \in OSEventTbl'[f]
        BY <3>1, <3>2, <3>4 DEF IInv, TypeOK, EventTaskRdy
      <3>5. \A p \in Task : "SEM" \in OSTCBStat[p] \/ OSTCBPendTO[p] => arg[p] \in Event
        BY DEF IInv, PendOK, InPend, ArgOK, OnEvent
      <3> QED
        BY <3>2, <3>3, <3>4, <3>5 DEF DInv, ListedOK
    <2> QED
      BY <2>1, <2>2
  <1> QED
    BY <1>1, <1>2, KeepsEventOK DEF DInv

LEMMA SemCallDInv ==
  ASSUME DelOpts = {}, IInv, DInv, NEW t \in Task, NEW f \in SemCalls, NEW e \in Event,
         SemCall(t, f, e)
  PROVE  DInv'
  <1>1. KeepsEvents
    BY CoreAssumption, SemAssumption, TargetAssumption, SMTT(60)
    DEF IInv, TypeOK, ArgOK, Creating, EventOK, CallsOK, KeepsEvents, OnEvent,
        SemCalls, DInv, cpuVars, tblVars, tcbVars, semVars, SemCall, Calling,
        Running, Goto
  <1>2. ListedOK'
    BY CoreAssumption, SemAssumption, TargetAssumption, SMTT(60)
    DEF DInv, IInv, TypeOK, ArgOK, OnEvent, SemCalls, PendOK, InPend, Pend,
        ListedOK, DelOK, DeadOK, Used, CurOK, Leaving, ReadyExact, WaitListed,
        CreateOK, Creating, cpuVars, tblVars, tcbVars, semVars, SemCall,
        Calling, Running, Goto
  <1> QED
    BY <1>1, <1>2, KeepsEventOK DEF DInv

LEMMA SemTakeDInv ==
  ASSUME IInv, DInv, NEW t \in Task,
         SemTake(t)
  PROVE  DInv'
  <1>1. KeepsEvents
    BY CoreAssumption, SemAssumption, TargetAssumption, SMTT(60)
    DEF IInv, TypeOK, ArgOK, Creating, EventOK, CallsOK, KeepsEvents, OnEvent,
        SemCalls, DInv, cpuVars, tblVars, tcbVars, semVars, SemTake, At,
        Running, Return, Goto
  <1>2. ListedOK'
    BY CoreAssumption, SemAssumption, TargetAssumption, SMTT(60)
    DEF DInv, IInv, TypeOK, ArgOK, OnEvent, SemCalls, PendOK, InPend, Pend,
        ListedOK, DelOK, DeadOK, Used, CurOK, Leaving, ReadyExact, WaitListed,
        CreateOK, Creating, cpuVars, tblVars, tcbVars, semVars, SemTake, At,
        Running, Return, Goto
  <1> QED
    BY <1>1, <1>2, KeepsEventOK DEF DInv

LEMMA AcceptNoneDInv ==
  ASSUME IInv, DInv, NEW t \in Task,
         SemAcceptNone(t)
  PROVE  DInv'
  <1>1. KeepsEvents
    BY CoreAssumption, SemAssumption, TargetAssumption, SMTT(60)
    DEF IInv, TypeOK, ArgOK, Creating, EventOK, CallsOK, KeepsEvents, OnEvent,
        SemCalls, DInv, cpuVars, tblVars, tcbVars, semVars, SemAcceptNone, At,
        Running, Return, Goto
  <1>2. ListedOK'
    BY DEF DInv, IInv, TypeOK, PendOK, InPend, ListedOK, tcbVars, SemAcceptNone, At, Running, Return, Goto
  <1> QED
    BY <1>1, <1>2, KeepsEventOK DEF DInv

LEMMA SemWaitDInv ==
  ASSUME IInv, DInv, NEW t \in Task, NEW n \in 0 .. MaxDly,
         SemWait(t, n)
  PROVE  DInv'
  <1>1. KeepsEvents
    BY CoreAssumption, SemAssumption, TargetAssumption, SMTT(60)
    DEF IInv, TypeOK, ArgOK, Creating, EventOK, CallsOK, KeepsEvents, OnEvent,
        SemCalls, DInv, cpuVars, tblVars, tcbVars, semVars, SemWait,
        EventTaskWait, At, Running, Goto
  <1>2. ListedOK'
    BY CoreAssumption, SemAssumption, TargetAssumption, SMTT(60)
    DEF DInv, IInv, TypeOK, ArgOK, OnEvent, SemCalls, PendOK, InPend, Pend,
        ListedOK, DelOK, DeadOK, Used, CurOK, Leaving, ReadyExact, WaitListed,
        CreateOK, Creating, cpuVars, tblVars, tcbVars, semVars, SemWait,
        EventTaskWait, At, Running, Goto
  <1> QED
    BY <1>1, <1>2, KeepsEventOK DEF DInv

LEMMA PendedDInv ==
  ASSUME IInv, DInv, NEW t \in Task,
         SemPended(t)
  PROVE  DInv'
  <1>1. KeepsEvents
    BY CoreAssumption, SemAssumption, TargetAssumption, SMTT(60)
    DEF IInv, TypeOK, ArgOK, Creating, EventOK, CallsOK, KeepsEvents, OnEvent,
        SemCalls, DInv, cpuVars, tblVars, tcbVars, semVars, SemPended, EventTO,
        EventGot, At, Running, Return, Goto
  <1>2. ListedOK'
    BY CoreAssumption, SemAssumption, TargetAssumption, SMTT(60)
    DEF DInv, IInv, TypeOK, ArgOK, OnEvent, SemCalls, PendOK, InPend, Pend,
        ListedOK, DelOK, DeadOK, Used, CurOK, Leaving, ReadyExact, WaitListed,
        CreateOK, Creating, cpuVars, tblVars, tcbVars, semVars, SemPended,
        EventTO, EventGot, At, Running, Return, Goto
  <1> QED
    BY <1>1, <1>2, KeepsEventOK DEF DInv

LEMMA SemPostDInv ==
  ASSUME IInv, DInv, NEW t \in Task,
         SemPost(t)
  PROVE  DInv'
  <1>1. KeepsEvents
    BY CoreAssumption, SemAssumption, TargetAssumption, SMTT(60)
    DEF IInv, TypeOK, ArgOK, Creating, EventOK, CallsOK, KeepsEvents, OnEvent,
        SemCalls, DInv, cpuVars, tblVars, tcbVars, semVars, SemPost, Post,
        EventTaskRdy, At, Running, Reschedule, Return, Goto
  <1>2. ListedOK'
    <2>1. OSEventTbl[arg[t]] # {} =>
            Highest(OSEventTbl[arg[t]]) \in OSEventTbl[arg[t]]
      BY HighestIn DEF IInv, TypeOK, ArgOK, OnEvent, SemCalls, SemPost, At
    <2> QED
      BY <2>1, CoreAssumption, SemAssumption, TargetAssumption, SMTT(60)
      DEF DInv, IInv, TypeOK, ArgOK, OnEvent, SemCalls, PendOK, InPend, Pend,
          ListedOK, DelOK, DeadOK, Used, CurOK, Leaving, ReadyExact,
          WaitListed, CreateOK, Creating, cpuVars, tblVars, tcbVars, semVars,
          SemPost, Post, EventTaskRdy, At, Running, Reschedule, Return, Goto
  <1> QED
    BY <1>1, <1>2, KeepsEventOK DEF DInv

LEMMA SemSetDInv ==
  ASSUME IInv, DInv, NEW t \in Task, NEW n \in 0 .. MaxCnt,
         SemSet(t, n)
  PROVE  DInv'
  <1>1. KeepsEvents
    BY CoreAssumption, SemAssumption, TargetAssumption, SMTT(60)
    DEF IInv, TypeOK, ArgOK, Creating, EventOK, CallsOK, KeepsEvents, OnEvent,
        SemCalls, DInv, cpuVars, tblVars, tcbVars, semVars, SemSet, At,
        Running, Return, Goto
  <1>2. ListedOK'
    BY CoreAssumption, SemAssumption, TargetAssumption, SMTT(60)
    DEF DInv, IInv, TypeOK, ArgOK, OnEvent, SemCalls, PendOK, InPend, Pend,
        ListedOK, DelOK, DeadOK, Used, CurOK, Leaving, ReadyExact, WaitListed,
        CreateOK, Creating, cpuVars, tblVars, tcbVars, semVars, SemSet, At,
        Running, Return, Goto
  <1> QED
    BY <1>1, <1>2, KeepsEventOK DEF DInv

LEMMA EventTakeDInv ==
  ASSUME IInv, DInv, NEW t \in Task, EventTake(t)
  PROVE  DInv'
  <1>0. PICK h \in Event : h = OSEventFreeList
    BY DEF IInv, TypeOK, EventTake
  <1>1. FreeListOK' /\ CreatorsOK' /\ h \in Event /\ OSEventType[h] = "UNUSED"
    <2>1. PICK F \in SUBSET Event : FreeList(F)
      BY DEF DInv, EventOK, FreeListOK
    <2>2. h \in F /\ OSEventType[h] = "UNUSED"
      BY <1>0, <2>1 DEF FreeList, EventTake
    <2>3. \A u \in Task : /\ pc'[u] = "semInit" /\ u # t => pc[u] = "semInit"
                          /\ u # t => arg'[u] = arg[u]
                          /\ u = t => pc[u] # "semInit" /\ arg'[u] = h
      BY <1>0 DEF IInv, TypeOK, EventTake, Calling, Goto
    <2>4. /\ OSEventFreeList' = OSEventPtr[h]
          /\ OSEventPtr' = OSEventPtr /\ OSEventType' = OSEventType
      BY <1>0 DEF EventTake
    <2>5. None \notin F
      BY CoreAssumption
    <2>6. FreeList(F \ {h})'
      <3>1. OSEventFreeList' \in (F \ {h}) \cup {None}
        BY <1>0, <2>1, <2>2, <2>4, <2>5 DEF FreeList
      <3>2. ASSUME NEW e \in F \ {h}
            PROVE  /\ OSEventPtr'[e] \in (F \ {h}) \cup {None}
                   /\ OSEventType'[e] = "UNUSED"
                   /\ OSEventPtr'[e] # None => OSEventPtr'[e] # OSEventFreeList'
        BY <1>0, <2>1, <2>2, <2>4 DEF FreeList
      <3>3. \A e \in F \ {h} : \A u \in Task : pc'[u] = "semInit" => arg'[u] # e
        BY <2>1, <2>2, <2>3 DEF FreeList
      <3>4. \A e, f \in F \ {h} : OSEventPtr'[e] = OSEventPtr'[f] /\ OSEventPtr'[e] # None
                                 => e = f
        BY <2>1, <2>4 DEF FreeList
      <3> QED
        BY <3>1, <3>2, <3>3, <3>4 DEF FreeList
    <2>7. FreeListOK'
      BY <2>6 DEF FreeListOK
    <2>8. CreatorsOK'
      BY <2>1, <2>2, <2>3 DEF DInv, EventOK, CreatorsOK, FreeList
    <2> QED
      BY <2>2, <2>7, <2>8
  <1>2. CallsOK'
    BY <1>0, <1>1 DEF IInv, TypeOK, DInv, EventOK, CallsOK, OnEvent, SemCalls,
                      EventTake, Calling, Goto
  <1>3. WaitsOnlyOnSemaphores'
    BY DEF DInv, EventOK, WaitsOnlyOnSemaphores, EventTake
  <1>4. ListedOK'
    BY DEF IInv, TypeOK, PendOK, InPend, DInv, ListedOK, tcbVars, EventTake,
           Calling, Goto
  <1> QED
    BY <1>1, <1>2, <1>3, <1>4 DEF DInv, EventOK

LEMMA SemCreateDInv ==
  ASSUME IInv, DInv, NEW t \in Task, NEW n \in 0 .. MaxCnt, SemCreate(t, n)
  PROVE  DInv'
  <1>1. /\ arg[t] \in Event /\ pc[t] = "semInit"
        /\ OSEventType[arg[t]] = "UNUSED" /\ OSEventTbl[arg[t]] = {}
    BY DEF IInv, ArgOK, OnEvent, DInv, EventOK, CallsOK, WaitsOnlyOnSemaphores,
           SemCreate, At
  <1>2. FreeListOK'
    <2>1. PICK F \in SUBSET Event : FreeList(F)
      BY DEF DInv, EventOK, FreeListOK
    <2>2. arg[t] \notin F
      BY <1>1, <2>1 DEF FreeList
    <2>3. FreeList(F)'
      BY <1>1, <2>1, <2>2 DEF IInv, TypeOK, FreeList, SemCreate, Return, Goto
    <2> QED
      BY <2>3 DEF FreeListOK
  <1>3. CallsOK'
    BY <1>1 DEF IInv, TypeOK, ArgOK, DInv, EventOK, CallsOK, CreatorsOK, OnEvent,
                SemCalls, SemCreate, Return, Goto
  <1>4. CreatorsOK'
    BY DEF IInv, TypeOK, DInv, EventOK, CreatorsOK, SemCreate, Return, Goto
  <1>5. OSEventTbl' = OSEventTbl
    BY <1>1 DEF IInv, TypeOK, SemCreate
  <1>6. WaitsOnlyOnSemaphores'
    BY <1>5 DEF IInv, TypeOK, DInv, EventOK, WaitsOnlyOnSemaphores, SemCreate
  <1>7. ListedOK'
    BY <1>1, <1>5 DEF IInv, TypeOK, PendOK, InPend, DInv, ListedOK, tcbVars,
                      SemCreate, Return, Goto
  <1> QED
    BY <1>2, <1>3, <1>4, <1>6, <1>7 DEF DInv, EventOK

LEMMA StutterDInv == IInv /\ DInv /\ UNCHANGED vars => DInv'
  <1> SUFFICES ASSUME DInv, UNCHANGED vars PROVE DInv'
    OBVIOUS
  <1>1. KeepsEvents
    BY DEF KeepsEvents, OnEvent, vars, semVars, coreVars
  <1>2. ListedOK'
    BY DEF DInv, ListedOK, vars, coreVars, tcbVars
  <1> QED
    BY <1>1, <1>2, KeepsEventOK DEF DInv

LEMMA NextDInv == DelOpts = {} /\ IInv /\ DInv /\ [Next]_vars => DInv'
  <1> SUFFICES ASSUME DelOpts = {}, IInv, DInv, [Next]_vars PROVE DInv'
    OBVIOUS
  <1>1. CASE Interrupt /\ UNCHANGED semVars
    BY <1>1, IrqEntryDInv, IrqExitDInv, TickEntryDInv, TickOneDInv, IntExitDInv
    DEF Interrupt
  <1>2. ASSUME NEW t \in Task, KernelCall(t) /\ UNCHANGED semVars PROVE DInv'
    BY <1>2, SchedDInv, TcbTakeDInv, TcbLinkDInv, UnreserveDInv, DelFreeDInv
    DEF KernelCall
  <1>3. ASSUME NEW t \in Task, AppCall(t) /\ UNCHANGED semVars PROVE DInv'
    BY <1>3, DlyDInv, DlyResumeDInv, ReserveDInv, SuspendDInv, ResumeDInv,
       DelUnlinkDInv, LockDInv, UnlockDInv
    DEF AppCall
  <1>4. ASSUME NEW t \in Task, SemKernel(t) PROVE DInv'
    BY <1>4, SemTakeDInv, AcceptNoneDInv, SemWaitDInv, PendedDInv, SemPostDInv,
       SemSetDInv, SemCreateDInv
    DEF SemKernel
  <1>5. ASSUME NEW e \in IrqEvent, IrqPost(e) PROVE DInv'
    BY <1>5, IrqPostDInv
  <1>6. ASSUME NEW t \in Task, EventTake(t) PROVE DInv'
    BY <1>6, EventTakeDInv
  <1>7. ASSUME NEW t \in Task, NEW f \in SemCalls, NEW e \in Event, SemCall(t, f, e)
        PROVE  DInv'
    BY <1>7, SemCallDInv
  <1>8. CASE UNCHANGED vars
    BY <1>8, StutterDInv
  <1> QED
    BY <1>1, <1>2, <1>3, <1>4, <1>5, <1>6, <1>7, <1>8 DEF Next, CoreNext

LEMMA SpecDInv == ASSUME DelOpts = {} PROVE Spec => [](IInv /\ DInv)
  <1>1. Init => IInv /\ DInv
    BY InitIInv, InitDInv
  <1>2. (IInv /\ DInv) /\ [Next]_vars => (IInv /\ DInv)'
    BY NextIInv, NextDInv
  <1> QED
    BY <1>1, <1>2, PTL DEF Spec

(***************************************************************************)
(* OSSemPend returns OS_TIMEOUT exactly to the tasks no post was handed    *)
(* to, for any number of tasks and semaphores.                             *)
(***************************************************************************)
THEOREM TimeoutOrGrantWithoutDel ==
  ASSUME DelOpts = {} PROVE Spec => []TimeoutOrGrant
  <1>1. IInv /\ DInv => TimeoutOrGrant
    <2> SUFFICES ASSUME IInv, DInv, NEW t \in Task, At(t, "pended")
                 PROVE  OSTCBPendTO[t] <=> t \in OSEventTbl[arg[t]]
      BY DEF TimeoutOrGrant
    <2>1. arg[t] \in Event /\ t \in OSRdyTbl
      BY DEF IInv, ArgOK, OnEvent, CurOK, Leaving, At, Running
    <2> QED
      BY <2>1 DEF IInv, PendOK, ReadyExact, DInv, ListedOK
  <1> QED
    BY <1>1, SpecDInv, PTL

(***************************************************************************)
(* A task blocked on a semaphore is in the wait list where posts look.     *)
(***************************************************************************)
THEOREM BlockedIsListedWithoutDel ==
  ASSUME DelOpts = {} PROVE Spec => []BlockedIsListed
  <1>1. IInv /\ DInv => BlockedIsListed
    BY DEF IInv, ArgOK, OnEvent, PendOK, InPend, DInv, ListedOK, BlockedIsListed
  <1> QED
    BY <1>1, SpecDInv, PTL

(***************************************************************************)
(* No task ever waits on anything but an existing semaphore.               *)
(***************************************************************************)
THEOREM WaitsOnSemaphoresWithoutDel ==
  ASSUME DelOpts = {} PROVE Spec => []WaitsOnlyOnSemaphores
  <1>1. DInv => WaitsOnlyOnSemaphores
    BY DEF DInv, EventOK
  <1> QED
    BY <1>1, SpecDInv, PTL

-----------------------------------------------------------------------------
(***************************************************************************)
(* The semaphores of os_sem.c implement CountingSemaphore, for an          *)
(* application that deletes none.  Most steps of the kernel do not show in *)
(* the abstract semaphores; of the others one thing happens to one task:   *)
(* it waits, is granted a unit, or leaves.                                 *)
(***************************************************************************)
Has(t, e) == /\ InPend(t) /\ arg[t] = e
             /\ t \notin OSEventTbl[e] /\ ~BeingDeleted(t)

(* No pend begins or ends, and no deletion of a task inside one. *)
SamePends ==
  \A u \in Task : /\ InPend(u)' <=> InPend(u)
                  /\ InPend(u) => /\ arg'[u] = arg[u]
                                  /\ BeingDeleted(u)' <=> BeingDeleted(u)

GrantedStep == [Abstract!Next]_(Abstract!vars)

-----------------------------------------------------------------------------
LEMMA GrantedHas ==
  /\ Granted = [e \in Event |-> {t \in Task : Has(t, e)}]
  /\ Granted' = [e \in Event |-> {t \in Task : Has(t, e)'}]
  BY DEF Granted, Has, InPend

LEMMA GrantedSame ==
  ASSUME \A t \in Task, e \in Event : Has(t, e)' <=> Has(t, e)
  PROVE  Granted' = Granted
  BY GrantedHas

LEMMA GrantedAdd ==
  ASSUME NEW e \in Event, NEW w \in Task,
         \A t \in Task, f \in Event : Has(t, f)' <=> Has(t, f) \/ (t = w /\ f = e)
  PROVE  Granted' = [Granted EXCEPT ![e] = @ \cup {w}]
  BY GrantedHas

LEMMA GrantedDrop ==
  ASSUME NEW e \in Event, NEW w \in Task,
         \A t \in Task, f \in Event : Has(t, f)' <=> Has(t, f) /\ ~(t = w /\ f = e)
  PROVE  Granted' = [Granted EXCEPT ![e] = @ \ {w}]
  BY GrantedHas

LEMMA SameStutters ==
  ASSUME SamePends, OSEventTbl' = OSEventTbl
  PROVE  Granted' = Granted
  <1>1. \A t \in Task, e \in Event : Has(t, e)' <=> Has(t, e)
    BY DEF Has, SamePends
  <1> QED
    BY <1>1, GrantedSame

LEMMA StutterStep2 ==
  ASSUME SamePends, OSEventTbl' = OSEventTbl, OSEventCnt' = OSEventCnt
  PROVE  GrantedStep
  BY SameStutters DEF GrantedStep, Abstract!vars

-----------------------------------------------------------------------------
(* The steps that change neither counts nor wait lists. *)
LEMMA InterruptAbs ==
  ASSUME IInv, Interrupt /\ UNCHANGED semVars
  PROVE  GrantedStep
  <1>1. /\ pc' = pc /\ arg' = arg /\ OSEventTbl' = OSEventTbl
        /\ OSEventCnt' = OSEventCnt
    BY DEF Interrupt, IrqEntry, IrqExit, TickEntry, TickOne, OSIntExit, semVars
  <1> QED
    BY <1>1, StutterStep2 DEF SamePends, InPend, BeingDeleted

LEMMA SchedAbs ==
  ASSUME IInv, NEW t \in Task, OS_Sched(t), UNCHANGED semVars
  PROVE  GrantedStep
  <1>1. SamePends
    BY DEF IInv, TypeOK, SamePends, InPend, BeingDeleted, OS_Sched, At, Return, Goto
  <1> QED
    BY <1>1, StutterStep2 DEF OS_Sched, semVars

LEMMA CreateAbs ==
  ASSUME IInv, NEW t \in Task, TcbTake(t) \/ TaskUnreserve(t), UNCHANGED semVars
  PROVE  GrantedStep
  <1>1. SamePends
    BY DEF IInv, TypeOK, SamePends, InPend, BeingDeleted, TcbTake, TaskUnreserve,
           At, Return, Goto
  <1> QED
    BY <1>1, StutterStep2 DEF TcbTake, TaskUnreserve, semVars

(* A new task starts outside of any pend. *)
LEMMA AppAbs ==
  ASSUME IInv, NEW t \in Task, UNCHANGED semVars,
         \/ \E n \in 1 .. MaxDly : OSTimeDly(t, n)
         \/ \E p \in Task \ {Idle} : OSTimeDlyResume(t, p) \/ TaskReserve(t, p)
         \/ \E p \in MaySuspend : OSTaskSuspend(t, p) \/ OSTaskResume(t, p)
         \/ OSSchedLock(t) \/ OSSchedUnlock(t)
  PROVE  GrantedStep
  <1>1. /\ pc[t] = "user" /\ pc'[t] \notin {"schedPend", "pended", "tcbFree"}
        /\ \A u \in Task \ {t} : pc'[u] = pc[u] /\ arg'[u] = arg[u]
        /\ OSEventTbl' = OSEventTbl /\ OSEventCnt' = OSEventCnt
    BY DEF IInv, TypeOK, semVars, OSTimeDly, OSTimeDlyResume, TaskReserve,
           OSTaskSuspend, OSTaskResume, OSSchedLock, OSSchedUnlock, MayBlock,
           Calling, Reschedule, Return, Goto
  <1>2. SamePends
    BY <1>1 DEF SamePends, InPend, BeingDeleted
  <1> QED
    BY <1>1, <1>2, StutterStep2

(***************************************************************************)
(* A task whose place in a pend goes away without the task running: its    *)
(* TCB is linked anew.                                                     *)
(***************************************************************************)
LEMMA LinkAbs ==
  ASSUME IInv, NEW t \in Task, TcbLink(t), UNCHANGED semVars
  PROVE  GrantedStep
  <1>0. PICK p \in Task : p = arg[t]
    BY DEF IInv, ArgOK, Creating, TcbLink, At
  <1>1. /\ p # t
        /\ \A f \in Event : p \notin OSEventTbl[f]
        /\ \A u \in Task : ~BeingDeleted(u) /\ ~BeingDeleted(u)'
    BY <1>0 DEF IInv, TypeOK, ArgOK, Creating, CreateOK, WaitListed, DelOK, CurOK, Used,
           BeingDeleted, TcbLink, At, Running
  <1>2. /\ \A u \in Task \ {p, t} : pc'[u] = pc[u] /\ arg'[u] = arg[u]
        /\ ~InPend(t) /\ ~InPend(t)' /\ ~InPend(p)'
        /\ OSEventTbl' = OSEventTbl /\ OSEventCnt' = OSEventCnt
    BY <1>0, <1>1 DEF IInv, TypeOK, InPend, TcbLink, At, semVars
  <1>3. CASE ~InPend(p)
    <2>1. SamePends
      BY <1>1, <1>2, <1>3 DEF SamePends, InPend
    <2> QED
      BY <1>2, <2>1, StutterStep2
  <1>4. CASE InPend(p)
    <2>1. arg[p] \in Event
      BY <1>1, <1>4 DEF IInv, ArgOK, OnEvent, InPend
    <2>2. Has(p, arg[p])
      BY <1>1, <1>4, <2>1 DEF Has
    <2>3. \A u \in Task, f \in Event :
            Has(u, f)' <=> Has(u, f) /\ ~(u = p /\ f = arg[p])
      BY <1>1, <1>2 DEF Has, InPend
    <2>4. Abstract!Return(arg[p], p)
      BY <1>1, <1>2, <2>1, <2>2, <2>3, GrantedDrop, GrantedHas DEF Abstract!Return
    <2> QED
      BY <1>1, <2>1, <2>4 DEF GrantedStep, Abstract!Next
  <1> QED
    BY <1>3, <1>4

(* OSTaskDel of a task that waits, of one that was granted, of another. *)
LEMMA DelUnlinkAbs ==
  ASSUME IInv, NEW t \in Task, NEW p \in MayDelete, TaskDelUnlink(t, p),
         UNCHANGED semVars
  PROVE  GrantedStep
  <1>1. /\ p \in Task /\ pc[t] = "user" /\ OSEventCnt' = OSEventCnt
        /\ \A u \in Task : ~BeingDeleted(u) /\ (BeingDeleted(u)' <=> u = p)
        /\ \A u \in Task : (InPend(u)' <=> InPend(u)) /\ (InPend(u) => arg'[u] = arg[u])
    BY TargetAssumption
    DEF IInv, TypeOK, DelOK, BeingDeleted, InPend, TaskDelUnlink, MayBlock, Calling,
        Running, Goto, semVars
  <1>2. \A f \in Event : p \in OSEventTbl[f] => /\ OSTCBEventPtr[p] = f
                                                /\ InPend(p) /\ arg[p] = f
    BY <1>1 DEF IInv, WaitListed, InPend
  <1>3. CASE \E e \in Event : p \in OSEventTbl[e]
    <2>1. PICK e \in Event : p \in OSEventTbl[e]
      BY <1>3
    <2>2. OSEventTbl' = [OSEventTbl EXCEPT ![e] = @ \ {p}]
      BY <1>2, <2>1 DEF IInv, TypeOK, TaskDelUnlink
    <2>3. \A u \in Task, f \in Event : Has(u, f)' <=> Has(u, f)
      BY <1>1, <1>2, <2>1, <2>2 DEF IInv, TypeOK, Has
    <2>4. Abstract!GiveUp(e, p)
      BY <1>1, <2>1, <2>2, <2>3, GrantedSame DEF Abstract!GiveUp
    <2> QED
      BY <1>1, <2>4 DEF GrantedStep, Abstract!Next
  <1>4. CASE \A e \in Event : p \notin OSEventTbl[e]
    <2>1. OSEventTbl' = OSEventTbl
      BY <1>4 DEF IInv, TypeOK, TaskDelUnlink
    <2>2. CASE InPend(p)
      <3>1. arg[p] \in Event /\ Has(p, arg[p])
        BY <1>1, <1>4, <2>2 DEF IInv, ArgOK, OnEvent, InPend, Has
      <3>2. \A u \in Task, f \in Event :
              Has(u, f)' <=> Has(u, f) /\ ~(u = p /\ f = arg[p])
        BY <1>1, <2>1 DEF Has
      <3>3. Abstract!Return(arg[p], p)
        BY <1>1, <2>1, <3>1, <3>2, GrantedDrop, GrantedHas DEF Abstract!Return
      <3> QED
        BY <1>1, <3>1, <3>3 DEF GrantedStep, Abstract!Next
    <2>3. CASE ~InPend(p)
      <3>1. SamePends
        BY <1>1, <2>3 DEF SamePends
      <3> QED
        BY <1>1, <2>1, <3>1, StutterStep2
    <2> QED
      BY <2>2, <2>3
  <1> QED
    BY <1>3, <1>4

LEMMA DelFreeAbs ==
  ASSUME IInv, NEW t \in Task, TaskDelFree(t), UNCHANGED semVars
  PROVE  GrantedStep
  <1>0. PICK p \in Task : p = arg[t]
    BY DEF IInv, ArgOK, TaskDelFree, At
  <1>1. /\ pc[t] = "tcbFree"
        /\ \A u \in Task : ~BeingDeleted(u)' /\ (BeingDeleted(u) <=> u = p)
    BY <1>0 DEF IInv, TypeOK, ArgOK, DelOK, BeingDeleted, TaskDelFree, At
  <1>2. /\ \A u \in Task \ {p, t} : pc'[u] = pc[u] /\ arg'[u] = arg[u]
        /\ ~InPend(t) /\ ~InPend(t)' /\ ~InPend(p)'
        /\ OSEventTbl' = OSEventTbl /\ OSEventCnt' = OSEventCnt
    BY <1>0, <1>1 DEF IInv, TypeOK, InPend, TaskDelFree, At, semVars
  <1>3. \A u \in Task, f \in Event : Has(u, f)' <=> Has(u, f)
    BY <1>1, <1>2 DEF Has, InPend
  <1> QED
    BY <1>2, <1>3, GrantedSame DEF GrantedStep, Abstract!vars

-----------------------------------------------------------------------------
(* The semaphore functions. *)
LEMMA CallAbs ==
  ASSUME IInv, NEW t \in Task,
         \/ SemAcceptNone(t) \/ EventTake(t)
         \/ \E f \in SemCalls, e \in Event : SemCall(t, f, e)
  PROVE  GrantedStep
  <1>1. /\ OSEventTbl' = OSEventTbl /\ OSEventCnt' = OSEventCnt
        /\ \A u \in Task \ {t} : pc'[u] = pc[u] /\ arg'[u] = arg[u]
        /\ pc[t] \in {"user", "semAccept"}
        /\ pc'[t] \notin {"schedPend", "pended", "tcbFree"}
    BY DEF IInv, TypeOK, SemAcceptNone, EventTake, SemCall, SemCalls, Calling, At,
           Return, Goto, semVars
  <1>2. SamePends
    BY <1>1 DEF SamePends, InPend, BeingDeleted
  <1> QED
    BY <1>1, <1>2, StutterStep2

LEMMA TakeAbs ==
  ASSUME IInv, NEW t \in Task, SemTake(t)
  PROVE  GrantedStep
  <1>1. /\ OSEventTbl' = OSEventTbl /\ arg[t] \in Event
        /\ \A u \in Task \ {t} : pc'[u] = pc[u] /\ arg'[u] = arg[u]
        /\ pc[t] \in {"semPend", "semAccept"} /\ pc'[t] = "user"
    BY DEF IInv, TypeOK, ArgOK, OnEvent, SemTake, SemCalls, At, Return, Goto
  <1>2. SamePends
    BY <1>1 DEF SamePends, InPend, BeingDeleted
  <1>3. Abstract!Take(arg[t])
    BY <1>1, <1>2, SameStutters DEF SemTake, Abstract!Take
  <1> QED
    BY <1>1, <1>3 DEF GrantedStep, Abstract!Next

LEMMA WaitAbs ==
  ASSUME IInv, NEW t \in Task, NEW n \in 0 .. MaxDly, SemWait(t, n)
  PROVE  GrantedStep
  <1>1. /\ arg[t] \in Event /\ pc[t] = "semPend" /\ OSEventCnt[arg[t]] = 0
        /\ \A u \in Task \ {t} : pc'[u] = pc[u] /\ arg'[u] = arg[u]
        /\ pc'[t] = "schedPend" /\ arg'[t] = arg[t]
        /\ OSEventTbl' = [OSEventTbl EXCEPT ![arg[t]] = @ \cup {t}]
        /\ OSEventCnt' = OSEventCnt
    BY DEF IInv, TypeOK, ArgOK, OnEvent, SemWait, EventTaskWait, SemCalls, At, Goto,
           semVars
  <1>2. \A f \in Event : t \notin OSEventTbl[f] /\ ~Has(t, f)
    BY <1>1 DEF IInv, WaitListed, Has, InPend
  <1>3. \A u \in Task : BeingDeleted(u)' <=> BeingDeleted(u)
    BY <1>1 DEF BeingDeleted
  <1>4. \A u \in Task, f \in Event : Has(u, f)' <=> Has(u, f)
    BY <1>1, <1>2, <1>3 DEF IInv, TypeOK, Has, InPend
  <1>5. Abstract!Wait(arg[t], t)
    BY <1>1, <1>2, <1>4, GrantedSame, GrantedHas DEF Abstract!Wait
  <1> QED
    BY <1>1, <1>5 DEF GrantedStep, Abstract!Next

(* The second half of OSSemPend: the task gives up or takes what it has.   *)
LEMMA PendedAbs ==
  ASSUME IInv, DInv, NEW t \in Task, SemPended(t)
  PROVE  GrantedStep
  <1>1. PICK e \in Event : e = arg[t]
    BY DEF IInv, ArgOK, OnEvent, SemPended, At
  <1>2. /\ pc[t] = "pended" /\ pc'[t] = "user" /\ t \in OSRdyTbl
        /\ \A u \in Task \ {t} : pc'[u] = pc[u] /\ arg'[u] = arg[u]
        /\ OSEventCnt' = OSEventCnt
    BY DEF IInv, TypeOK, CurOK, Leaving, SemPended, At, Running, Return, Goto, semVars
  <1>3. \A u \in Task : /\ BeingDeleted(u)' <=> BeingDeleted(u)
                        /\ u = t => ~BeingDeleted(u)
    BY <1>2 DEF IInv, ReadyExact, BeingDeleted
  <1>4. CASE OSTCBPendTO[t]
    <2>1. /\ t \in OSEventTbl[e]
          /\ OSEventTbl' = [OSEventTbl EXCEPT ![e] = @ \ {t}]
      BY <1>1, <1>4 DEF DInv, ListedOK, SemPended, EventTO, EventGot
    <2>2. \A u \in Task, f \in Event : Has(u, f)' <=> Has(u, f)
      BY <1>1, <1>2, <1>3, <2>1 DEF IInv, TypeOK, Has, InPend
    <2>3. Abstract!GiveUp(e, t)
      BY <1>2, <2>1, <2>2, GrantedSame DEF Abstract!GiveUp
    <2> QED
      BY <2>3 DEF GrantedStep, Abstract!Next
  <1>5. CASE ~OSTCBPendTO[t]
    <2>1. /\ \A f \in Event : t \notin OSEventTbl[f]
          /\ OSEventTbl' = OSEventTbl
      BY <1>2, <1>5 DEF IInv, PendOK, ReadyExact, SemPended, EventTO, EventGot
    <2>2. Has(t, e)
      BY <1>1, <1>2, <1>3, <2>1 DEF Has, InPend
    <2>3. \A u \in Task, f \in Event : Has(u, f)' <=> Has(u, f) /\ ~(u = t /\ f = e)
      BY <1>1, <1>2, <1>3, <2>1 DEF Has, InPend
    <2>4. Abstract!Return(e, t)
      BY <1>2, <2>1, <2>2, <2>3, GrantedDrop, GrantedHas DEF Abstract!Return
    <2> QED
      BY <2>4 DEF GrantedStep, Abstract!Next
  <1> QED
    BY <1>4, <1>5

(* OSSemPost, whoever calls it: a unit for the most urgent waiter, or one  *)
(* more to count.                                                          *)
LEMMA PostAbs ==
  ASSUME IInv, NEW e \in Event, Post(e), SamePends
  PROVE  GrantedStep
  <1>1. CASE OSEventTbl[e] = {}
    <2>1. /\ OSEventTbl' = OSEventTbl /\ Granted' = Granted
          /\ OSEventCnt' = [OSEventCnt EXCEPT ![e] = IF @ < MaxCnt THEN @ + 1 ELSE @]
      BY <1>1, SameStutters DEF Post
    <2>2. CASE OSEventCnt[e] < MaxCnt
      <3>1. Abstract!Signal(e)
        BY <1>1, <2>1, <2>2 DEF IInv, TypeOK, Abstract!Signal
      <3> QED
        BY <3>1 DEF GrantedStep, Abstract!Next
    <2>3. CASE ~(OSEventCnt[e] < MaxCnt)
      <3>1. OSEventCnt' = OSEventCnt
        BY <2>1, <2>3 DEF IInv, TypeOK
      <3> QED
        BY <2>1, <3>1 DEF GrantedStep, Abstract!vars
    <2> QED
      BY <2>2, <2>3
  <1>2. CASE OSEventTbl[e] # {}
    <2> DEFINE w == Highest(OSEventTbl[e])
    <2>1. w \in OSEventTbl[e] /\ \A u \in OSEventTbl[e] : w <= u
      BY <1>2, HighestIn DEF IInv, TypeOK
    <2>2. PICK h \in OSEventTbl[e] : h = w
      BY <2>1
    <2>3. /\ OSEventTbl' = [OSEventTbl EXCEPT ![e] = @ \ {h}]
          /\ OSEventCnt' = OSEventCnt
      BY <1>2, <2>2 DEF Post, EventTaskRdy
    <2>4. /\ h \in Task /\ InPend(h) /\ arg[h] = e /\ ~BeingDeleted(h)
          /\ \A f \in Event : h \in OSEventTbl[f] => f = e
      BY DEF IInv, TypeOK, WaitListed, InPend, BeingDeleted, DelOK
    <2>5. \A u \in Task, f \in Event : Has(u, f)' <=> Has(u, f) \/ (u = h /\ f = e)
      BY <2>3, <2>4 DEF IInv, TypeOK, Has, SamePends
    <2>6. Abstract!Signal(e)
      BY ZenonT(60), <1>2, <2>1, <2>2, <2>3, <2>4, <2>5, GrantedAdd DEF Abstract!Signal
    <2> QED
      BY <2>6 DEF GrantedStep, Abstract!Next
  <1> QED
    BY <1>1, <1>2

LEMMA SemPostAbs ==
  ASSUME IInv, NEW t \in Task, SemPost(t)
  PROVE  GrantedStep
  <1>1. /\ arg[t] \in Event /\ Post(arg[t])
        /\ \A u \in Task \ {t} : pc'[u] = pc[u] /\ arg'[u] = arg[u]
        /\ pc[t] = "semPost" /\ pc'[t] \in {"user", "sched"}
    BY DEF IInv, TypeOK, ArgOK, OnEvent, SemCalls, SemPost, At, Reschedule, Return, Goto
  <1>2. SamePends
    BY <1>1 DEF SamePends, InPend, BeingDeleted
  <1> QED
    BY <1>1, <1>2, PostAbs

LEMMA IrqPostAbs ==
  ASSUME IInv, NEW e \in IrqEvent, IrqPost(e)
  PROVE  GrantedStep
  <1>1. SamePends
    BY DEF SamePends, InPend, BeingDeleted, IrqPost
  <1> QED
    BY <1>1, PostAbs, SemAssumption DEF IrqPost

(* OSSemSet and OSSemCreate. *)
LEMMA SetAbs ==
  ASSUME IInv, DInv, NEW t \in Task, NEW n \in 0 .. MaxCnt,
         SemSet(t, n) \/ SemCreate(t, n)
  PROVE  GrantedStep
  <1>1. PICK e \in Event : e = arg[t]
    BY DEF IInv, ArgOK, OnEvent, SemCalls, SemSet, SemCreate, At
  <1>2. /\ \A u \in Task \ {t} : pc'[u] = pc[u] /\ arg'[u] = arg[u]
        /\ pc[t] \in {"semSet", "semInit"} /\ pc'[t] = "user"
    BY DEF IInv, TypeOK, SemSet, SemCreate, At, Return, Goto
  <1>3. OSEventTbl' = OSEventTbl /\ (pc[t] = "semInit" => OSEventTbl[e] = {})
    BY ZenonT(60), <1>1 DEF IInv, TypeOK, DInv, EventOK, CallsOK, WaitsOnlyOnSemaphores,
                SemSet, SemCreate, At
  <1>4. SamePends
    BY <1>2 DEF SamePends, InPend, BeingDeleted
  <1>5. Granted' = Granted
    BY <1>3, <1>4, SameStutters
  <1>6. \/ OSEventTbl[e] = {} /\ OSEventCnt' = [OSEventCnt EXCEPT ![e] = n]
        \/ OSEventCnt' = OSEventCnt
    BY <1>1, <1>3 DEF IInv, TypeOK, NoLostWakeup, SemSet, SemCreate, At
  <1> QED
    BY <1>3, <1>5, <1>6 DEF GrantedStep, Abstract!Next, Abstract!Reset, Abstract!vars

-----------------------------------------------------------------------------
LEMMA InitAbs == Init => Abstract!Init
  <1> SUFFICES ASSUME Init PROVE Abstract!Init
    OBVIOUS
  <1>1. Granted = [e \in Event |-> {}]
    BY DEF Init, CoreInit, Granted
  <1> QED
    BY <1>1, SemAssumption DEF Init, CoreInit, Abstract!Init

LEMMA NextAbs ==
  ASSUME DelOpts = {}, IInv, DInv, [Next]_vars
  PROVE  GrantedStep
  <1>1. CASE Interrupt /\ UNCHANGED semVars
    BY <1>1, InterruptAbs
  <1>2. ASSUME NEW t \in Task, KernelCall(t) /\ UNCHANGED semVars PROVE GrantedStep
    BY <1>2, SchedAbs, CreateAbs, LinkAbs, DelFreeAbs DEF KernelCall
  <1>3. ASSUME NEW t \in Task, AppCall(t) /\ UNCHANGED semVars PROVE GrantedStep
    BY <1>3, AppAbs, DelUnlinkAbs DEF AppCall
  <1>4. ASSUME NEW t \in Task, SemKernel(t) PROVE GrantedStep
    BY <1>4, TakeAbs, CallAbs, WaitAbs, PendedAbs, SemPostAbs, SetAbs DEF SemKernel
  <1>5. ASSUME NEW e \in IrqEvent, IrqPost(e) PROVE GrantedStep
    BY <1>5, IrqPostAbs
  <1>6. ASSUME NEW t \in Task,
               EventTake(t) \/ \E f \in SemCalls, e \in Event : SemCall(t, f, e)
        PROVE  GrantedStep
    BY <1>6, CallAbs
  <1>7. CASE UNCHANGED vars
    BY <1>7, StutterStep2 DEF SamePends, InPend, BeingDeleted, vars, coreVars, semVars
  <1> QED
    BY <1>1, <1>2, <1>3, <1>4, <1>5, <1>6, <1>7 DEF Next, CoreNext

(***************************************************************************)
(* OSSemPend, OSSemPost and the others do what CountingSemaphore promises, *)
(* for any number of tasks and semaphores: units are taken, handed to the  *)
(* most urgent waiter or counted, and a waiter that gives up, or is        *)
(* deleted, takes none along.                                              *)
(***************************************************************************)
THEOREM SemaphoresImplement ==
  ASSUME DelOpts = {} PROVE Spec => ImplementsSemaphore
  <1>1. IInv /\ DInv /\ [Next]_vars => [Abstract!Next]_(Abstract!vars)
    BY NextAbs DEF GrantedStep
  <1> QED
    BY <1>1, InitAbs, SpecDInv, PTL DEF Spec, ImplementsSemaphore, Abstract!Spec
=============================================================================
