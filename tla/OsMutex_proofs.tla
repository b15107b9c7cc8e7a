--------------------------- MODULE OsMutex_proofs ---------------------------
(***************************************************************************)
(* Proofs about the mutexes, for any tasks, mutexes, semaphores and        *)
(* priorities.  They leave out the legal calls the mutexes do not cope     *)
(* with (Allowed in OsMutex): a deletion of an owned mutex, a nested       *)
(* OSMutexAccept, a raised task that suspends itself by the priority it    *)
(* was created with, OSTaskChangePrio of a task that timed out and has not *)
(* run.  OSTaskChangePrio of a task that waits for a mutex is left out of  *)
(* the theorem on inheritance only.                                        *)
(*                                                                         *)
(* The kernel names a task by its priority in the ready list, in the wait  *)
(* lists and in the count of a mutex, and the priority changes under all   *)
(* of them.  The inductive invariant IInv says that each of these names    *)
(* still leads to the task it was written for.                             *)
(***************************************************************************)
EXTENDS OsMutex, WellFoundedInduction, TLAPS

(* Inside a pend; blocked, or timed out and not yet run; what may be a     *)
(* task's own priority; the bit of OSTCBStat a pend on e sets.             *)
InPend(t) == pc[t] \in {"schedPend", "pended"}
Waits(t) == OSTCBStat[t] \cap Pend # {} \/ OSTCBPendTO[t]
Own == Tcb \cup NewPrio
Kind(e) == IF e \in Sem THEN "SEM" ELSE "MUTEX"

(* OSTCBPrioTbl finds every task under its priority; a second entry of a   *)
(* task is the one its mutex will give back; only an owner has a PIP.      *)
PrioOK ==
  /\ \A t \in Tcb : OSTCBPrioTbl[OSTCBPrio[t]] = t
  /\ \A p \in Prio : OSTCBPrioTbl[p] \in Tcb =>
       \/ p = OSTCBPrio[OSTCBPrioTbl[p]]
       \/ \E m \in Mutex : OSEventPtr[m] = OSTCBPrioTbl[p] /\ OSEventCnt[m] = p
  /\ \A t \in Tcb : OSTCBPrio[t] \in Mutex => OSEventPtr[OSTCBPrio[t]] = t

(* A mutex without an owner is marked available and nobody waits for it.   *)
FreeOK ==
  \A m \in Mutex :
    /\ OSEventType[m] # "SEM"
    /\ OSEventType[m] = "MUTEX" => (OSEventPtr[m] = None <=> OSEventCnt[m] = Available)
    /\ OSEventType[m] = "UNUSED" => OSEventPtr[m] = None
    /\ OSEventPtr[m] = None => OSEventTbl[m] = {}

(* An owner has the PIP or its own priority, which the mutex remembers and *)
(* nobody else took; it waits for nothing and owns one mutex.              *)
OwnOK ==
  \A m \in Mutex : OSEventPtr[m] # None =>
    /\ OSEventCnt[m] \in Own /\ OSTCBPrioTbl[OSEventCnt[m]] = OSEventPtr[m]
    /\ OSTCBPrio[OSEventPtr[m]] \in {m, OSEventCnt[m]}
    /\ ~Waits(OSEventPtr[m])
    /\ pc[OSEventPtr[m]] \notin {"mutexPend", "mutexAccept"}
    /\ \A n \in Mutex : OSEventPtr[n] = OSEventPtr[m] => n = m

(* A listed priority is that of a task that waits for the event; a task    *)
(* that waits, or timed out and has not run, is listed where it pends.     *)
WaitOK ==
  /\ \A e \in Event : \A p \in OSEventTbl[e] :
       /\ OSTCBPrioTbl[p] \in Tcb /\ OSTCBPrio[OSTCBPrioTbl[p]] = p
       /\ OSTCBEventPtr[OSTCBPrioTbl[p]] = e
  /\ \A t \in Tcb :
       /\ OSTCBEventPtr[t] # None <=> Waits(t)
       /\ InPend(t) => arg[t] \in Event
       /\ OSTCBEventPtr[t] # None =>
            /\ InPend(t) /\ OSTCBEventPtr[t] = arg[t]
            /\ OSTCBPrio[t] \in OSEventTbl[arg[t]]
            /\ OSTCBStat[t] \cap Pend \subseteq {Kind(arg[t])}
       /\ OSTCBPendTO[t] => OSTCBDly[t] = 0 /\ OSTCBStat[t] \cap Pend = {}

(* The ready list holds the priorities of exactly the runnable tasks.      *)
ReadyOK ==
  /\ \A p \in OSRdyTbl : OSTCBPrioTbl[p] \in Tcb /\ OSTCBPrio[OSTCBPrioTbl[p]] = p
  /\ \A t \in Tcb : OSTCBPrio[t] \in OSRdyTbl <=> OSTCBStat[t] = {} /\ OSTCBDly[t] = 0

(* The idle task never blocks.                                             *)
IdleOK == /\ OSTCBPrio[Idle] = Idle /\ pc[Idle] = "user"
          /\ OSTCBStat[Idle] = {} /\ OSTCBDly[Idle] = 0
          /\ \A m \in Mutex : OSEventPtr[m] # Idle

(* The mutex a call is inside of stays one; a PIP being created is         *)
(* reserved, for one task.                                                 *)
CallOK ==
  /\ \A t \in Tcb :
       /\ pc[t] \in MutexCalls => arg[t] \in Mutex /\ OSEventType[arg[t]] = "MUTEX"
       /\ pc[t] = "mutexInit" => /\ arg[t] \in Mutex /\ OSEventType[arg[t]] = "UNUSED"
                                 /\ OSTCBPrioTbl[arg[t]] = Reserved
  /\ \A t, u \in Tcb : pc[t] = "mutexInit" /\ pc[u] = "mutexInit" /\ arg[t] = arg[u]
                       => t = u
  /\ \A s \in Sem : OSEventType[s] = "SEM" /\ OSEventCnt[s] \in {0, 1}

(* OSPrioCur is the running task's priority, or nobody's: then OS_Sched()  *)
(* cannot mistake the next task for the running one.                       *)
CurOK ==
  /\ \/ OSPrioCur = OSTCBPrio[OSTCBCur]
     \/ /\ \A t \in Tcb : OSTCBPrio[t] # OSPrioCur
        /\ \/ pc[OSTCBCur] = "sched"
           \/ OSPrioCur \in Mutex /\ OSEventPtr[OSPrioCur] \in {None, OSTCBCur}
  /\ OnlyReadyRuns

(* The inductive invariant. *)
IInv == /\ TypeOK /\ PrioOK /\ FreeOK /\ OwnOK /\ WaitOK /\ ReadyOK /\ IdleOK
        /\ CallOK /\ CurOK

-----------------------------------------------------------------------------
(* Highest returns the least priority of a set. *)
LEMMA HighestIn ==
  ASSUME NEW S \in SUBSET Prio, S # {}
  PROVE  Highest(S) \in S /\ \A q \in S : Highest(S) <= q
  <1>1. S \subseteq Nat
    BY MutexAssumption DEF Prio
  <1>2. PICK p \in S : \A q \in S : <<q, p>> \notin OpToRel(<, Nat)
    BY <1>1, WFMin, NatLessThanWellFounded
  <1>3. \A q \in S : p <= q
    <2> SUFFICES ASSUME NEW q \in S PROVE p <= q
      OBVIOUS
    <2>1. p \in Nat /\ q \in Nat /\ ~(q < p)
      BY <1>1, <1>2 DEF OpToRel
    <2> QED
      BY <2>1
  <1> QED
    BY <1>3 DEF Highest

(* The initial states satisfy it. *)
LEMMA InitIInv == Init => IInv
  <1> SUFFICES ASSUME Init PROVE IInv
    OBVIOUS
  <1> USE MutexAssumption DEF Init, Prio, Event
  <1>1. TypeOK
    BY HighestIn DEF TypeOK, Label
  <1>2. PrioOK /\ FreeOK /\ OwnOK
    BY DEF PrioOK, FreeOK, OwnOK
  <1>3. WaitOK /\ ReadyOK /\ IdleOK /\ CallOK
    BY DEF WaitOK, Waits, InPend, ReadyOK, IdleOK, CallOK, MutexCalls
  <1>4. CurOK
    BY HighestIn DEF CurOK, OnlyReadyRuns
  <1> QED
    BY <1>1, <1>2, <1>3, <1>4 DEF IInv


(* Switch gives the CPU to the task of the most urgent of the priorities rdy. *)
LEMMA SwitchOK ==
  ASSUME TypeOK, PrioOK, CurOK, NEW rdy \in SUBSET Prio, rdy # {}, Switch(rdy),
         \A p \in rdy : OSTCBPrioTbl[p] \in Tcb /\ OSTCBPrio[OSTCBPrioTbl[p]] = p
  PROVE  OSTCBCur' \in Tcb /\ OSPrioCur' \in rdy /\ OSPrioCur' = OSTCBPrio[OSTCBCur']
  <1>1. OSPrioCur' = Highest(rdy) /\ Highest(rdy) \in rdy
    BY HighestIn DEF Switch
  <1>2. CASE Highest(rdy) = OSPrioCur
    BY <1>1, <1>2 DEF Switch, TypeOK, CurOK
  <1>3. CASE Highest(rdy) # OSPrioCur
    BY <1>1, <1>3 DEF Switch
  <1> QED
    BY <1>2, <1>3

(* The idle task is always ready. *)
LEMMA IdleReady ==
  ASSUME TypeOK, ReadyOK, IdleOK PROVE Idle \in OSRdyTbl
  BY MutexAssumption DEF ReadyOK, IdleOK, TypeOK


(* What a listed priority says about the task it is the priority of. *)
LEMMA Listed ==
  ASSUME IInv, NEW e \in Event, NEW u \in Tcb, OSTCBPrio[u] \in OSEventTbl[e]
  PROVE  /\ OSTCBEventPtr[u] = e /\ arg[u] = e /\ InPend(u) /\ Waits(u)
         /\ OSTCBStat[u] \cap Pend \subseteq {Kind(e)}
         /\ \A m \in Mutex : OSEventPtr[m] # u
         /\ OSTCBPrio[u] \in Own
  <1>1. OSTCBEventPtr[u] = e
    BY DEF IInv, WaitOK, PrioOK
  <1>2. OSTCBEventPtr[u] # None
    BY <1>1, MutexAssumption DEF Event
  <1>3. /\ arg[u] = e /\ InPend(u) /\ Waits(u)
        /\ OSTCBStat[u] \cap Pend \subseteq {Kind(e)}
    BY <1>1, <1>2 DEF IInv, WaitOK
  <1>4. \A m \in Mutex : OSEventPtr[m] # u
    BY <1>3, MutexAssumption DEF IInv, OwnOK
  <1> QED
    BY <1>1, <1>3, <1>4 DEF IInv, PrioOK, TypeOK, Prio, Own

(* What readying the listed priorities S of e does to the tasks, as facts of *)
(* each task rather than of the priorities.                                  *)
Readied(e, S, rdy) ==
  /\ OSEventTbl' = [OSEventTbl EXCEPT ![e] = @ \ S]
  /\ OSTCBDly' \in [Tcb -> 0 .. MaxDly] /\ OSTCBPendTO' \in [Tcb -> BOOLEAN]
  /\ OSTCBStat' \in [Tcb -> SUBSET (Pend \cup {"SUSPEND"})]
  /\ OSTCBEventPtr' \in [Tcb -> Event \cup {None}]
  /\ \A u \in Tcb : OSTCBPrio[u] \in S =>
       /\ OSTCBDly'[u] = 0 /\ OSTCBEventPtr'[u] = None /\ OSTCBPendTO'[u] = FALSE
       /\ OSTCBStat'[u] \cap Pend = {} /\ OSTCBStat'[u] \subseteq OSTCBStat[u]
  /\ \A u \in Tcb : OSTCBPrio[u] \notin S =>
       /\ OSTCBDly'[u] = OSTCBDly[u] /\ OSTCBEventPtr'[u] = OSTCBEventPtr[u]
       /\ OSTCBPendTO'[u] = OSTCBPendTO[u] /\ OSTCBStat'[u] = OSTCBStat[u]
  /\ OSRdyTbl' = rdy \cup {p \in S : OSTCBStat'[OSTCBPrioTbl[p]] = {}}

LEMMA RdyEffect ==
  ASSUME IInv, NEW e \in Event, NEW S \in SUBSET OSEventTbl[e], NEW rdy,
         EventTaskRdy(rdy, e, S, Kind(e))
  PROVE  Readied(e, S, rdy)
  <1> USE MutexAssumption DEF EventTaskRdy, Event
  <1>1. \A u \in Tcb : u \in {OSTCBPrioTbl[p] : p \in S} <=> OSTCBPrio[u] \in S
    BY DEF IInv, WaitOK, PrioOK
  <1>2. \A p \in S : OSTCBPrioTbl[p] \in Tcb /\ OSTCBPrio[OSTCBPrioTbl[p]] = p
    BY DEF IInv, WaitOK
  <1>3. OSTCBStat' = [u \in Tcb |-> IF OSTCBPrio[u] \in S THEN OSTCBStat[u] \ {Kind(e)}
                                                         ELSE OSTCBStat[u]]
    BY <1>1
  <1>4. \A u \in Tcb : OSTCBPrio[u] \in S => OSTCBStat'[u] \cap Pend = {}
    BY <1>3, Listed
  <1>5. /\ OSTCBDly' \in [Tcb -> 0 .. MaxDly] /\ OSTCBPendTO' \in [Tcb -> BOOLEAN]
        /\ OSTCBStat' \in [Tcb -> SUBSET (Pend \cup {"SUSPEND"})]
        /\ OSTCBEventPtr' \in [Tcb -> Event \cup {None}]
    BY <1>3 DEF IInv, TypeOK
  <1>6. OSRdyTbl' = rdy \cup {p \in S : OSTCBStat'[OSTCBPrioTbl[p]] = {}}
    <2>1. \A p \in S : OSTCBStat'[OSTCBPrioTbl[p]] = OSTCBStat[OSTCBPrioTbl[p]] \ {Kind(e)}
      BY <1>2, <1>3
    <2> QED
      BY <2>1
  <1>7. ASSUME NEW u \in Tcb, OSTCBPrio[u] \in S
        PROVE  /\ OSTCBDly'[u] = 0 /\ OSTCBEventPtr'[u] = None
               /\ OSTCBPendTO'[u] = FALSE
               /\ OSTCBStat'[u] \subseteq OSTCBStat[u]
    BY ZenonT(60), <1>1, <1>3, <1>7
  <1>8. ASSUME NEW u \in Tcb, OSTCBPrio[u] \notin S
        PROVE  /\ OSTCBDly'[u] = OSTCBDly[u] /\ OSTCBEventPtr'[u] = OSTCBEventPtr[u]
               /\ OSTCBPendTO'[u] = OSTCBPendTO[u] /\ OSTCBStat'[u] = OSTCBStat[u]
    BY <1>1, <1>3, <1>8 DEF IInv, TypeOK
  <1> QED
    BY <1>4, <1>5, <1>6, <1>7, <1>8 DEF Readied

(* What blocking the task t on e does. *)
Blocked(t, e, rdy, tbl) ==
  /\ OSTCBDly' \in [Tcb -> 0 .. MaxDly] /\ OSTCBPendTO' \in [Tcb -> BOOLEAN]
  /\ OSTCBStat' \in [Tcb -> SUBSET (Pend \cup {"SUSPEND"})]
  /\ OSTCBEventPtr' \in [Tcb -> Event \cup {None}]
  /\ OSTCBEventPtr'[t] = e /\ OSTCBPendTO'[t] = FALSE
  /\ OSTCBStat'[t] = OSTCBStat[t] \cup {Kind(e)}
  /\ \A u \in Tcb : u # t =>
       /\ OSTCBDly'[u] = OSTCBDly[u] /\ OSTCBEventPtr'[u] = OSTCBEventPtr[u]
       /\ OSTCBPendTO'[u] = OSTCBPendTO[u] /\ OSTCBStat'[u] = OSTCBStat[u]
  /\ OSRdyTbl' = rdy \ {OSTCBPrio[t]}
  /\ OSEventTbl' = [tbl EXCEPT ![e] = @ \cup {OSTCBPrio[t]}]

LEMMA WaitEffect ==
  ASSUME IInv, NEW t \in Tcb, NEW e \in Event, NEW n \in Timeout, NEW rdy, NEW tbl,
         tbl \in [Event -> SUBSET Prio], EventTaskWait(t, rdy, tbl, e, Kind(e), n)
  PROVE  Blocked(t, e, rdy, tbl)
  <1> USE MutexAssumption DEF EventTaskWait, Event
  <1>1. Kind(e) \in Pend
    BY DEF Kind, Pend
  <1>2. n \in 0 .. MaxDly
    OBVIOUS
  <1> QED
    BY <1>1, <1>2 DEF IInv, TypeOK, Blocked

(* OS_Sched() preserves IInv. *)
LEMMA SchedStep ==
  ASSUME IInv, Allowed \subseteq {"changeWaiter"}, NEW t \in Tcb, OS_Sched(t)
  PROVE  IInv'
  <1> USE MutexAssumption DEF IInv, Prio, Event, Pend, Waits, InPend, cpuVars,
          prioVars, tcbVars, evtVars,
          OS_Sched, Switch, At, Return, Goto
  <1>a. /\ OSTCBCur' \in Tcb /\ OSPrioCur' \in OSRdyTbl
        /\ OSPrioCur' = OSTCBPrio[OSTCBCur']
    BY IdleReady, SwitchOK DEF TypeOK, ReadyOK
  <1>1. TypeOK'
    BY SMTT(60), <1>a DEF TypeOK, Label, MutexCalls
  <1>2. PrioOK'
    BY DEF TypeOK, PrioOK, OwnOK
  <1>3. FreeOK'
    BY DEF TypeOK, FreeOK, CallOK
  <1>4. OwnOK'
    BY DEF TypeOK, OwnOK, Own, PrioOK, FreeOK, CallOK
  <1>5. WaitOK'
    BY DEF TypeOK, WaitOK, PrioOK, ReadyOK
  <1>6. ReadyOK'
    BY DEF TypeOK, ReadyOK, PrioOK
  <1>7. IdleOK'
    BY DEF TypeOK, IdleOK
  <1>8. CallOK'
    BY DEF TypeOK, CallOK, MutexCalls
  <1>9. CurOK'
    BY <1>a DEF TypeOK, CurOK, OnlyReadyRuns, ReadyOK, PrioOK
  <1> QED
    BY <1>1, <1>2, <1>3, <1>4, <1>5, <1>6, <1>7, <1>8, <1>9

(* The tick preserves IInv. *)
LEMMA TickStep ==
  ASSUME IInv, Allowed \subseteq {"changeWaiter"}, Tick
  PROVE  IInv'
  <1> USE MutexAssumption DEF IInv, Prio, Event, Pend, Waits, InPend, cpuVars,
          prioVars, tcbVars, evtVars,
          Tick, Switch
  <1>r. /\ OSRdyTbl' \in SUBSET Prio /\ OSRdyTbl \subseteq OSRdyTbl'
        /\ \A p \in OSRdyTbl' : OSTCBPrioTbl[p] \in Tcb
             /\ OSTCBPrio[OSTCBPrioTbl[p]] = p
    BY DEF TypeOK, ReadyOK, PrioOK
  <1>a. /\ OSTCBCur' \in Tcb /\ OSPrioCur' \in OSRdyTbl'
        /\ OSPrioCur' = OSTCBPrio[OSTCBCur']
    <2>1. Switch(OSRdyTbl')
      BY DEF Switch
    <2> QED
      BY <1>r, <2>1, IdleReady, SwitchOK
  <1>d. OSTCBDly' \in [Tcb -> 0 .. MaxDly]
    <2>1. \A u \in Tcb : OSTCBDly[u] \in 0 .. MaxDly
      BY DEF TypeOK
    <2>2. \A u \in Tcb : (IF OSTCBDly[u] = 0 THEN 0 ELSE OSTCBDly[u] - 1) \in 0 .. MaxDly
      BY <2>1
    <2> QED
      BY <2>2
  <1>s. OSTCBStat' \in [Tcb -> SUBSET (Pend \cup {"SUSPEND"})]
    BY DEF TypeOK
  <1>1. TypeOK'
    BY <1>a, <1>r, <1>d, <1>s DEF TypeOK, Label, MutexCalls
  <1>2. PrioOK'
    BY DEF TypeOK, PrioOK, OwnOK
  <1>3. FreeOK'
    BY DEF TypeOK, FreeOK, CallOK
  <1>4. OwnOK'
    BY SMTT(60) DEF TypeOK, OwnOK, Own, PrioOK, FreeOK, CallOK
  <1>5. WaitOK'
    <2> SUFFICES ASSUME NEW u \in Tcb
                 PROVE  /\ OSTCBPendTO[u] => OSTCBDly[u] = 0
                        /\ Waits(u) <=> Waits(u)'
                        /\ OSTCBStat'[u] \subseteq OSTCBStat[u]
                        /\ OSTCBPendTO'[u]
                             => OSTCBDly'[u] = 0 /\ OSTCBStat'[u] \cap Pend = {}
      BY SMTT(60) DEF TypeOK, WaitOK
    <2>1. OSTCBPendTO[u] \in BOOLEAN /\ OSTCBDly[u] \in Nat
          /\ (OSTCBPendTO[u] => OSTCBDly[u] = 0 /\ OSTCBStat[u] \cap Pend = {})
      BY DEF TypeOK, WaitOK
    <2>2. CASE OSTCBDly[u] = 1
      <3>1. /\ OSTCBStat'[u] = OSTCBStat[u] \ Pend
            /\ OSTCBPendTO'[u] = (OSTCBStat[u] \cap Pend # {})
            /\ OSTCBDly'[u] = 0
        BY <2>2
      <3>2. OSTCBPendTO[u] = FALSE
        BY <2>1, <2>2
      <3> QED
        BY <3>1, <3>2
    <2>3. CASE OSTCBDly[u] # 1
      BY <2>1, <2>3
    <2> QED
      BY <2>2, <2>3
  <1>6. ReadyOK'
    BY DEF TypeOK, ReadyOK, PrioOK
  <1>7. IdleOK'
    BY DEF TypeOK, IdleOK
  <1>8. CallOK'
    BY DEF TypeOK, CallOK, MutexCalls
  <1>9. CurOK'
    BY ZenonT(60), <1>a DEF TypeOK, CurOK, OnlyReadyRuns, ReadyOK, PrioOK
  <1> QED
    BY <1>1, <1>2, <1>3, <1>4, <1>5, <1>6, <1>7, <1>8, <1>9

(* The second half of a pend preserves IInv. *)
LEMMA PendedStep ==
  ASSUME IInv, Allowed \subseteq {"changeWaiter"}, NEW t \in Tcb, Pended(t)
  PROVE  IInv'
  <1> USE MutexAssumption DEF IInv, Prio, Event, Pend, Waits, InPend, cpuVars,
          prioVars, tcbVars, evtVars,
          Pended, Unlisted, At, Return, Goto
  <1>1. TypeOK'
    BY DEF TypeOK, Label, MutexCalls
  <1>2. PrioOK'
    BY DEF TypeOK, PrioOK, OwnOK
  <1>3. FreeOK'
    BY DEF TypeOK, FreeOK, CallOK
  <1>4. OwnOK'
    BY DEF TypeOK, OwnOK, Own, PrioOK, FreeOK, CallOK
  <1>5. WaitOK'
    <2>1. InPend(t) /\ arg[t] \in Event /\ OSTCBPrio[t] \in OSRdyTbl
      BY DEF WaitOK, CurOK, OnlyReadyRuns
    <2>2. \A e \in Event : OSTCBPrio[t] \in OSEventTbl[e]
              => e = arg[t] /\ OSTCBPendTO[t]
      BY <2>1 DEF WaitOK, PrioOK, ReadyOK, TypeOK
    <2>3. /\ \A e \in Event : OSEventTbl'[e] \subseteq OSEventTbl[e]
          /\ \A e \in Event : OSTCBPrio[t] \notin OSEventTbl'[e]
          /\ \A e \in Event : \A p \in OSEventTbl[e] : p = OSTCBPrio[t] \/ p \in OSEventTbl'[e]
      BY <2>1, <2>2 DEF TypeOK
    <2>4. OSTCBStat'[t] = {} /\ OSTCBPendTO'[t] = FALSE /\ OSTCBEventPtr'[t] = None
      BY <2>1 DEF TypeOK, ReadyOK
    <2> QED
      BY <2>1, <2>3, <2>4 DEF TypeOK, WaitOK, PrioOK
  <1>6. ReadyOK'
    BY DEF TypeOK, ReadyOK, PrioOK, CurOK, OnlyReadyRuns
  <1>7. IdleOK'
    BY DEF TypeOK, IdleOK
  <1>8. CallOK'
    BY DEF TypeOK, CallOK, MutexCalls
  <1>9. CurOK'
    BY DEF TypeOK, CurOK, OnlyReadyRuns, ReadyOK, PrioOK
  <1> QED
    BY <1>1, <1>2, <1>3, <1>4, <1>5, <1>6, <1>7, <1>8, <1>9

(* The type test of a mutex call preserves IInv. *)
LEMMA CallStep ==
  ASSUME IInv, Allowed \subseteq {"changeWaiter"}, NEW t \in Tcb, NEW f \in MutexCalls,
         NEW m \in Mutex, MutexCall(t, f, m)
  PROVE  IInv'
  <1> USE MutexAssumption DEF IInv, Prio, Event, Pend, Waits, InPend, cpuVars,
          prioVars, tcbVars, evtVars,
          MutexCall, Calling, Goto, Owned
  <1>1. TypeOK'
    BY DEF TypeOK, Label, MutexCalls
  <1>2. PrioOK'
    BY DEF TypeOK, PrioOK, OwnOK
  <1>3. FreeOK'
    BY DEF TypeOK, FreeOK, CallOK
  <1>4. OwnOK'
    BY DEF TypeOK, OwnOK, Own, PrioOK, FreeOK, CallOK
  <1>5. WaitOK'
    BY DEF TypeOK, WaitOK, PrioOK, ReadyOK
  <1>6. ReadyOK'
    BY DEF TypeOK, ReadyOK, PrioOK
  <1>7. IdleOK'
    BY DEF TypeOK, IdleOK
  <1>8. CallOK'
    BY DEF TypeOK, CallOK, MutexCalls
  <1>9. CurOK'
    BY DEF TypeOK, CurOK, OnlyReadyRuns, ReadyOK, PrioOK
  <1> QED
    BY <1>1, <1>2, <1>3, <1>4, <1>5, <1>6, <1>7, <1>8, <1>9

(* Taking a free mutex preserves IInv. *)
LEMMA TakeStep ==
  ASSUME IInv, Allowed \subseteq {"changeWaiter"}, NEW t \in Tcb, MutexTake(t)
  PROVE  IInv'
  <1> USE MutexAssumption DEF IInv, Prio, Event, Pend, Waits, InPend, cpuVars,
          prioVars, tcbVars, evtVars,
          MutexTake, Owns, At, Return, Goto
  <1>m. PICK m \in Mutex : m = arg[t]
    BY DEF CallOK, MutexCalls
  <1>o. OSEventPtr[m] = None /\ OSEventType[m] = "MUTEX" /\ OSEventTbl[m] = {}
    BY <1>m DEF FreeOK, CallOK, MutexCalls
  <1>w. /\ t # Idle /\ pc[t] \in {"mutexPend", "mutexAccept"}
        /\ OSTCBPrio[t] \in OSRdyTbl
        /\ OSTCBStat[t] = {} /\ ~OSTCBPendTO[t]
    BY DEF IdleOK, CurOK, OnlyReadyRuns, ReadyOK, WaitOK, TypeOK
  <1>n. \A n \in Mutex : OSEventPtr[n] # t
    BY <1>w DEF OwnOK
  <1>p. OSTCBPrio[t] \in Own
    BY <1>n DEF PrioOK, TypeOK, Own
  <1>u. /\ \A e \in Event : e # m
             => OSEventCnt'[e] = OSEventCnt[e] /\ OSEventPtr'[e] = OSEventPtr[e]
        /\ OSEventCnt'[m] = OSTCBPrio[t] /\ OSEventPtr'[m] = t
    BY <1>m DEF TypeOK
  <1>1. TypeOK'
    BY DEF TypeOK, Label, MutexCalls
  <1>2. PrioOK'
    BY <1>o, <1>n, <1>u DEF TypeOK, PrioOK
  <1>3. FreeOK'
    <2>1. OSTCBPrio[t] # Available
      BY DEF TypeOK
    <2> QED
      BY <1>o, <1>u, <2>1 DEF TypeOK, FreeOK
  <1>4. OwnOK'
    <2> SUFFICES ASSUME NEW n \in Mutex, OSEventPtr'[n] # None
                 PROVE  OwnOK!(n)'
      BY DEF OwnOK
    <2>1. CASE n = m
      BY <2>1, <1>n, <1>p, <1>u, <1>w DEF TypeOK, OwnOK, PrioOK
    <2>2. CASE n # m
      BY <2>2, <1>n, <1>u DEF TypeOK, OwnOK
    <2> QED
      BY <2>1, <2>2
  <1>5. WaitOK'
    BY DEF TypeOK, WaitOK, PrioOK, ReadyOK
  <1>6. ReadyOK'
    BY DEF TypeOK, ReadyOK, PrioOK
  <1>7. IdleOK'
    BY <1>u, <1>w DEF TypeOK, IdleOK
  <1>8. CallOK'
    BY <1>u DEF TypeOK, CallOK, MutexCalls
  <1>9. CurOK'
    BY <1>u, <1>o DEF TypeOK, CurOK, OnlyReadyRuns
  <1> QED
    BY <1>1, <1>2, <1>3, <1>4, <1>5, <1>6, <1>7, <1>8, <1>9

(* OSMutexAccept of an owned mutex preserves IInv. *)
LEMMA AcceptNoneStep ==
  ASSUME IInv, Allowed \subseteq {"changeWaiter"}, NEW t \in Tcb, MutexAcceptNone(t)
  PROVE  IInv'
  <1> USE MutexAssumption DEF IInv, Prio, Event, Pend, Waits, InPend, cpuVars,
          prioVars, tcbVars, evtVars,
          MutexAcceptNone, At, Return, Goto
  <1>1. TypeOK'
    BY DEF TypeOK, Label, MutexCalls
  <1>2. PrioOK'
    BY DEF TypeOK, PrioOK, OwnOK
  <1>3. FreeOK'
    BY DEF TypeOK, FreeOK, CallOK
  <1>4. OwnOK'
    BY DEF TypeOK, OwnOK, Own, PrioOK, FreeOK, CallOK
  <1>5. WaitOK'
    BY DEF TypeOK, WaitOK, PrioOK, ReadyOK
  <1>6. ReadyOK'
    BY DEF TypeOK, ReadyOK, PrioOK
  <1>7. IdleOK'
    BY DEF TypeOK, IdleOK
  <1>8. CallOK'
    BY DEF TypeOK, CallOK, MutexCalls
  <1>9. CurOK'
    BY DEF TypeOK, CurOK, OnlyReadyRuns, ReadyOK, PrioOK
  <1> QED
    BY <1>1, <1>2, <1>3, <1>4, <1>5, <1>6, <1>7, <1>8, <1>9

(* A post by another task than the owner preserves IInv. *)
LEMMA PostRefusedStep ==
  ASSUME IInv, Allowed \subseteq {"changeWaiter"}, NEW t \in Tcb, MutexPostRefused(t)
  PROVE  IInv'
  <1> USE MutexAssumption DEF IInv, Prio, Event, Pend, Waits, InPend, cpuVars,
          prioVars, tcbVars, evtVars,
          MutexPostRefused, At, Return, Goto
  <1>1. TypeOK'
    BY DEF TypeOK, Label, MutexCalls
  <1>2. PrioOK'
    BY DEF TypeOK, PrioOK, OwnOK
  <1>3. FreeOK'
    BY DEF TypeOK, FreeOK, CallOK
  <1>4. OwnOK'
    BY DEF TypeOK, OwnOK, Own, PrioOK, FreeOK, CallOK
  <1>5. WaitOK'
    BY DEF TypeOK, WaitOK, PrioOK, ReadyOK
  <1>6. ReadyOK'
    BY DEF TypeOK, ReadyOK, PrioOK
  <1>7. IdleOK'
    BY DEF TypeOK, IdleOK
  <1>8. CallOK'
    BY DEF TypeOK, CallOK, MutexCalls
  <1>9. CurOK'
    BY DEF TypeOK, CurOK, OnlyReadyRuns, ReadyOK, PrioOK
  <1> QED
    BY <1>1, <1>2, <1>3, <1>4, <1>5, <1>6, <1>7, <1>8, <1>9

(* The first half of OSMutexCreate preserves IInv. *)
LEMMA ReserveStep ==
  ASSUME IInv, Allowed \subseteq {"changeWaiter"}, NEW t \in Tcb, NEW m \in Mutex, MutexReserve(t, m)
  PROVE  IInv'
  <1> USE MutexAssumption DEF IInv, Prio, Event, Pend, Waits, InPend, cpuVars,
          prioVars, tcbVars, evtVars,
          MutexReserve, Calling, Goto
  <1>1. TypeOK'
    BY DEF TypeOK, Label, MutexCalls
  <1>2. PrioOK'
    BY DEF TypeOK, PrioOK, OwnOK
  <1>3. FreeOK'
    BY DEF TypeOK, FreeOK, CallOK
  <1>4. OwnOK'
    BY DEF TypeOK, OwnOK, Own, PrioOK, FreeOK, CallOK
  <1>5. WaitOK'
    BY DEF TypeOK, WaitOK, PrioOK, ReadyOK
  <1>6. ReadyOK'
    BY DEF TypeOK, ReadyOK, PrioOK
  <1>7. IdleOK'
    BY DEF TypeOK, IdleOK
  <1>8. CallOK'
    BY DEF TypeOK, CallOK, MutexCalls
  <1>9. CurOK'
    BY DEF TypeOK, CurOK, OnlyReadyRuns, ReadyOK, PrioOK
  <1> QED
    BY <1>1, <1>2, <1>3, <1>4, <1>5, <1>6, <1>7, <1>8, <1>9

(* The second half of OSMutexCreate preserves IInv. *)
LEMMA CreateStep ==
  ASSUME IInv, Allowed \subseteq {"changeWaiter"}, NEW t \in Tcb, MutexCreate(t)
  PROVE  IInv'
  <1> USE MutexAssumption DEF IInv, Prio, Event, Pend, Waits, InPend, cpuVars,
          prioVars, tcbVars, evtVars,
          MutexCreate, At, Return, Goto
  <1>m. PICK m \in Mutex : m = arg[t]
    BY DEF CallOK
  <1>o. OSEventPtr[m] = None /\ OSEventType[m] = "UNUSED" /\ OSEventTbl[m] = {}
    BY <1>m DEF FreeOK, CallOK
  <1>u. /\ OSEventPtr' = OSEventPtr /\ OSEventTbl' = OSEventTbl
        /\ \A e \in Event : e # m => OSEventCnt'[e] = OSEventCnt[e]
    BY <1>m, <1>o DEF TypeOK
  <1>1. TypeOK'
    BY DEF TypeOK, Label, MutexCalls
  <1>2. PrioOK'
    BY <1>u, <1>o DEF TypeOK, PrioOK
  <1>3. FreeOK'
    BY DEF TypeOK, FreeOK, CallOK
  <1>4. OwnOK'
    BY <1>u, <1>o DEF TypeOK, OwnOK
  <1>5. WaitOK'
    BY <1>u DEF TypeOK, WaitOK
  <1>6. ReadyOK'
    BY DEF TypeOK, ReadyOK, PrioOK
  <1>7. IdleOK'
    BY DEF TypeOK, IdleOK
  <1>8. CallOK'
    BY DEF TypeOK, CallOK, MutexCalls
  <1>9. CurOK'
    BY <1>u DEF TypeOK, CurOK, OnlyReadyRuns
  <1> QED
    BY <1>1, <1>2, <1>3, <1>4, <1>5, <1>6, <1>7, <1>8, <1>9

(* OSTimeDly preserves IInv. *)
LEMMA DlyStep ==
  ASSUME IInv, Allowed \subseteq {"changeWaiter"}, NEW t \in Tcb, NEW n \in 1 .. MaxDly, OSTimeDly(t, n)
  PROVE  IInv'
  <1> USE MutexAssumption DEF IInv, Prio, Event, Pend, Waits, InPend, cpuVars,
          prioVars, tcbVars, evtVars,
          OSTimeDly, Calling, Reschedule, Goto
  <1>1. TypeOK'
    BY DEF TypeOK, Label, MutexCalls
  <1>2. PrioOK'
    BY DEF TypeOK, PrioOK, OwnOK
  <1>3. FreeOK'
    BY DEF TypeOK, FreeOK, CallOK
  <1>4. OwnOK'
    BY DEF TypeOK, OwnOK, Own, PrioOK, FreeOK, CallOK
  <1>5. WaitOK'
    BY DEF TypeOK, WaitOK, PrioOK, ReadyOK
  <1>6. ReadyOK'
    BY DEF TypeOK, ReadyOK, PrioOK
  <1>7. IdleOK'
    BY DEF TypeOK, IdleOK
  <1>8. CallOK'
    BY DEF TypeOK, CallOK, MutexCalls
  <1>9. CurOK'
    BY DEF TypeOK, CurOK, OnlyReadyRuns, ReadyOK, PrioOK
  <1> QED
    BY <1>1, <1>2, <1>3, <1>4, <1>5, <1>6, <1>7, <1>8, <1>9

(* OSTaskSuspend preserves IInv. *)
LEMMA SuspendStep ==
  ASSUME IInv, Allowed \subseteq {"changeWaiter"}, NEW t \in Tcb, NEW p \in MaySuspend, OSTaskSuspend(t, p)
  PROVE  IInv'
  <1> USE MutexAssumption DEF IInv, Prio, Event, Pend, Waits, InPend, cpuVars,
          prioVars, tcbVars, evtVars,
          OSTaskSuspend, SuspendsSelf, Calling, Reschedule, Return, Goto
  <1>u. PICK u \in Tcb : u = OSTCBPrioTbl[p]
    OBVIOUS
  <1>i. u # Idle
    BY <1>u DEF PrioOK, IdleOK, TypeOK
  <1>s. /\ OSRdyTbl' = OSRdyTbl \ {OSTCBPrio[u]}
        /\ OSTCBStat' = [OSTCBStat EXCEPT ![u] = @ \cup {"SUSPEND"}]
    BY <1>u
  <1>t. /\ \A v \in Tcb : v # u => OSTCBStat'[v] = OSTCBStat[v]
        /\ "SUSPEND" \in OSTCBStat'[u]
    BY <1>s DEF TypeOK
  <1>1. TypeOK'
    BY DEF TypeOK, Label, MutexCalls
  <1>2. PrioOK'
    BY DEF TypeOK, PrioOK, OwnOK
  <1>3. FreeOK'
    BY DEF TypeOK, FreeOK, CallOK
  <1>4. OwnOK'
    BY DEF TypeOK, OwnOK, Own, PrioOK, FreeOK, CallOK
  <1>5. WaitOK'
    BY DEF TypeOK, WaitOK, PrioOK, ReadyOK
  <1>6. ReadyOK'
    <2>1. \A v \in Tcb : v # u => OSTCBPrio[v] # OSTCBPrio[u]
      BY DEF PrioOK
    <2> QED
      BY <1>s, <1>t, <2>1 DEF TypeOK, ReadyOK
  <1>7. IdleOK'
    <2>1. pc'[Idle] = pc[Idle] /\ t # Idle
      BY DEF TypeOK, IdleOK
    <2> QED
      BY <1>i, <1>t, <2>1 DEF IdleOK
  <1>8. CallOK'
    BY DEF TypeOK, CallOK, MutexCalls
  <1>9. CurOK'
    BY DEF TypeOK, CurOK, OnlyReadyRuns, ReadyOK, PrioOK
  <1> QED
    BY <1>1, <1>2, <1>3, <1>4, <1>5, <1>6, <1>7, <1>8, <1>9

(* OSTaskResume preserves IInv. *)
LEMMA ResumeStep ==
  ASSUME IInv, Allowed \subseteq {"changeWaiter"}, NEW t \in Tcb, NEW p \in MaySuspend, OSTaskResume(t, p)
  PROVE  IInv'
  <1> USE MutexAssumption DEF IInv, Prio, Event, Pend, Waits, InPend, cpuVars,
          prioVars, tcbVars, evtVars,
          OSTaskResume, Calling, Reschedule, Return, Goto
  <1>1. TypeOK'
    BY DEF TypeOK, Label, MutexCalls
  <1>2. PrioOK'
    BY DEF TypeOK, PrioOK, OwnOK
  <1>3. FreeOK'
    BY DEF TypeOK, FreeOK, CallOK
  <1>4. OwnOK'
    BY DEF TypeOK, OwnOK, Own, PrioOK, FreeOK, CallOK
  <1>5. WaitOK'
    BY SMTT(60) DEF TypeOK, WaitOK, PrioOK, ReadyOK
  <1>6. ReadyOK'
    BY DEF TypeOK, ReadyOK, PrioOK
  <1>7. IdleOK'
    BY DEF TypeOK, IdleOK
  <1>8. CallOK'
    BY DEF TypeOK, CallOK, MutexCalls
  <1>9. CurOK'
    BY DEF TypeOK, CurOK, OnlyReadyRuns, ReadyOK, PrioOK
  <1> QED
    BY <1>1, <1>2, <1>3, <1>4, <1>5, <1>6, <1>7, <1>8, <1>9

(* OSSemPend preserves IInv. *)
LEMMA SemPendStep ==
  ASSUME IInv, Allowed \subseteq {"changeWaiter"}, NEW t \in Tcb, NEW s \in Sem,
         NEW n \in Timeout, SemPend(t, s, n)
  PROVE  IInv'
  <1> USE MutexAssumption DEF IInv, Prio, Event, Pend, Waits, InPend, cpuVars,
          prioVars, tcbVars, evtVars,
          SemPend, Calling, Goto
  <1>k. s \in Event /\ s \notin Mutex /\ Kind(s) = "SEM" /\ OSEventCnt[s] \in {0, 1}
    BY DEF Kind, CallOK
  <1>r. /\ t # Idle /\ OSTCBPrio[t] \in OSRdyTbl /\ OSTCBStat[t] = {} /\ OSTCBCur = t
        /\ ~OSTCBPendTO[t] /\ OSTCBEventPtr[t] = None
    BY DEF CurOK, OnlyReadyRuns, ReadyOK, WaitOK, TypeOK
  <1>n. \A m \in Mutex : OSEventPtr[m] # t
    BY DEF Owned, FreeOK, TypeOK
  <1>a. CASE /\ OSEventCnt[s] > 0 /\ OSEventCnt' = [OSEventCnt EXCEPT ![s] = @ - 1]
            /\ UNCHANGED <<OSRdyTbl, tcbVars, OSEventTbl, pc, arg>>
    <2>c. /\ OSEventCnt' \in [Event -> Prio \cup {0, 1, Available}]
          /\ \A e \in Event : e # s => OSEventCnt'[e] = OSEventCnt[e]
          /\ OSEventCnt'[s] = 0
      BY <1>a, <1>k DEF TypeOK
    <2>1. TypeOK'
      BY <1>a, <1>k, <2>c DEF TypeOK, Label, MutexCalls
    <2>2. PrioOK'
      BY <1>a, <1>k, <2>c DEF TypeOK, PrioOK, OwnOK
    <2>3. FreeOK'
      BY <1>a, <1>k, <2>c DEF TypeOK, FreeOK, CallOK
    <2>4. OwnOK'
      BY <1>a, <1>k, <2>c DEF TypeOK, OwnOK, Own, PrioOK, FreeOK, CallOK
    <2>5. WaitOK'
      BY <1>a, <1>k, <2>c DEF TypeOK, WaitOK, PrioOK, ReadyOK
    <2>6. ReadyOK'
      BY <1>a, <1>k, <2>c DEF TypeOK, ReadyOK, PrioOK
    <2>7. IdleOK'
      BY <1>a, <1>k, <2>c DEF TypeOK, IdleOK
    <2>8. CallOK'
      BY <1>a, <1>k, <2>c DEF TypeOK, CallOK, MutexCalls
    <2>9. CurOK'
      BY <1>a, <1>k, <2>c DEF TypeOK, CurOK, OnlyReadyRuns, ReadyOK, PrioOK
    <2> QED
      BY <2>1, <2>2, <2>3, <2>4, <2>5, <2>6, <2>7, <2>8, <2>9
  <1>b. CASE /\ EventTaskWait(t, OSRdyTbl, OSEventTbl, s, "SEM", n)
            /\ Goto(t, "schedPend", s) /\ UNCHANGED OSEventCnt
    <2>e. OSEventTbl \in [Event -> SUBSET Prio] /\ OSRdyTbl \subseteq Prio
      BY DEF TypeOK
    <2>w. Blocked(t, s, OSRdyTbl, OSEventTbl)
      <3>1. EventTaskWait(t, OSRdyTbl, OSEventTbl, s, Kind(s), n)
        BY <1>b, <1>k
      <3> QED
        BY <1>k, <2>e, <3>1, WaitEffect
    <2>x. /\ \A u \in Tcb : u # t => pc'[u] = pc[u] /\ arg'[u] = arg[u]
          /\ pc'[t] = "schedPend" /\ arg'[t] = s
      BY <1>b DEF TypeOK
    <2>s. /\ s # None /\ "SEM" \in OSTCBStat'[t] /\ OSTCBStat'[t] \cap Pend = {"SEM"}
          /\ \A u \in Tcb : u # t => OSTCBPrio[u] # OSTCBPrio[t]
      BY <1>k, <1>r, <2>w DEF Blocked, PrioOK
    <2>t. TypeOK'
      <3>1. OSEventTbl' \in [Event -> SUBSET Prio] /\ OSRdyTbl' \subseteq Prio
        BY <1>k, <2>e, <2>w DEF Blocked, TypeOK
      <3>2. pc' \in [Tcb -> Label] /\ arg' \in [Tcb -> Event \cup {None}]
        BY <1>b, <1>k DEF TypeOK, Label
      <3> QED
        BY <1>b, <2>w, <3>1, <3>2 DEF TypeOK, Blocked
    <2> USE DEF Blocked
    <2>1. TypeOK'
      BY <2>t
    <2>2. PrioOK'
      BY <1>b, <1>k, <1>r, <1>n, <2>w, <2>x, <2>s DEF TypeOK, PrioOK, OwnOK
    <2>3. FreeOK'
      BY <1>b, <1>k, <1>r, <1>n, <2>w, <2>x, <2>s DEF TypeOK, FreeOK, CallOK
    <2>4. OwnOK'
      BY <1>b, <1>k, <1>r, <1>n, <2>w, <2>x, <2>s
         DEF TypeOK, OwnOK, Own, PrioOK, FreeOK, CallOK
    <2>5. WaitOK'
      <3>1. WaitOK!1'
        <4> SUFFICES ASSUME NEW e \in Event, NEW p \in OSEventTbl'[e]
                     PROVE  /\ OSTCBPrioTbl[p] \in Tcb /\ OSTCBPrio[OSTCBPrioTbl[p]] = p
                            /\ OSTCBEventPtr'[OSTCBPrioTbl[p]] = e
          BY <1>b DEF WaitOK
        <4>1. CASE p \in OSEventTbl[e]
          <5>1. OSTCBPrioTbl[p] # t
            BY <4>1, <1>r DEF WaitOK
          <5> QED
            BY <4>1, <5>1, <2>w DEF WaitOK
        <4>2. CASE p \notin OSEventTbl[e]
          BY <4>2, <2>w, <1>k, <2>e DEF PrioOK
        <4> QED
          BY <4>1, <4>2
      <3>2. ASSUME NEW u \in Tcb PROVE WaitOK!2!(u)'
        <4>1. CASE u = t
          BY SMTT(60), <4>1, <1>k, <2>w, <2>x, <2>s, <2>e
        <4>2. CASE u # t
          BY <4>2, <1>k, <2>w, <2>x, <2>e DEF WaitOK
        <4> QED
          BY <4>1, <4>2
      <3> QED
        BY <3>1, <3>2 DEF WaitOK
    <2>6. ReadyOK'
      BY <1>b, <1>r, <2>w, <2>s DEF ReadyOK
    <2>7. IdleOK'
      BY <1>b, <1>k, <1>r, <1>n, <2>w, <2>x, <2>s DEF TypeOK, IdleOK
    <2>8. CallOK'
      BY <1>b, <1>k, <1>r, <1>n, <2>w, <2>x, <2>s DEF TypeOK, CallOK, MutexCalls
    <2>9. CurOK'
      BY <1>b, <1>k, <1>r, <1>n, <2>w, <2>x, <2>s
         DEF TypeOK, CurOK, OnlyReadyRuns, ReadyOK, PrioOK
    <2> QED
      BY <2>1, <2>2, <2>3, <2>4, <2>5, <2>6, <2>7, <2>8, <2>9
  <1> QED
    BY <1>a, <1>b

(* OSSemPost preserves IInv. *)
LEMMA SemPostStep ==
  ASSUME IInv, Allowed \subseteq {"changeWaiter"}, NEW t \in Tcb, NEW s \in Sem, SemPost(t, s)
  PROVE  IInv'
  <1> USE MutexAssumption DEF IInv, Prio, Event, Pend, Waits, InPend, cpuVars,
          prioVars, tcbVars, evtVars,
          SemPost, Calling, Reschedule, Goto
  <1>k. s \in Event /\ s \notin Mutex /\ Kind(s) = "SEM" /\ OSEventCnt[s] \in {0, 1}
    BY DEF Kind, CallOK
  <1>b. CASE /\ OSEventTbl[s] = {} /\ OSEventCnt[s] = 0
             /\ OSEventCnt' = [OSEventCnt EXCEPT ![s] = 1]
            /\ UNCHANGED <<OSRdyTbl, tcbVars, OSEventTbl, pc, arg>>
    <2>c. /\ OSEventCnt' \in [Event -> Prio \cup {0, 1, Available}]
          /\ \A e \in Event : e # s => OSEventCnt'[e] = OSEventCnt[e]
          /\ OSEventCnt'[s] = 1
      BY <1>b, <1>k DEF TypeOK
    <2>1. TypeOK'
      BY <1>b, <1>k, <2>c DEF TypeOK, Label, MutexCalls
    <2>2. PrioOK'
      BY <1>b, <1>k, <2>c DEF TypeOK, PrioOK, OwnOK
    <2>3. FreeOK'
      BY <1>b, <1>k, <2>c DEF TypeOK, FreeOK, CallOK
    <2>4. OwnOK'
      BY <1>b, <1>k, <2>c DEF TypeOK, OwnOK, Own, PrioOK, FreeOK, CallOK
    <2>5. WaitOK'
      BY <1>b, <1>k, <2>c DEF TypeOK, WaitOK, PrioOK, ReadyOK
    <2>6. ReadyOK'
      BY <1>b, <1>k, <2>c DEF TypeOK, ReadyOK, PrioOK
    <2>7. IdleOK'
      BY <1>b, <1>k, <2>c DEF TypeOK, IdleOK
    <2>8. CallOK'
      BY <1>b, <1>k, <2>c DEF TypeOK, CallOK, MutexCalls
    <2>9. CurOK'
      BY <1>b, <1>k, <2>c DEF TypeOK, CurOK, OnlyReadyRuns, ReadyOK, PrioOK
    <2> QED
      BY <2>1, <2>2, <2>3, <2>4, <2>5, <2>6, <2>7, <2>8, <2>9
  <1>a. CASE /\ OSEventTbl[s] # {}
            /\ EventTaskRdy(OSRdyTbl, s, {Highest(OSEventTbl[s])}, "SEM")
            /\ Reschedule(t) /\ UNCHANGED OSEventCnt
    <2>h. PICK h \in OSEventTbl[s] : h = Highest(OSEventTbl[s])
      BY <1>a, <1>k, HighestIn DEF TypeOK
    <2>w. Readied(s, {h}, OSRdyTbl)
      <3>1. EventTaskRdy(OSRdyTbl, s, {h}, Kind(s))
        BY <1>a, <1>k, <2>h
      <3> QED
        BY <1>k, <3>1, RdyEffect
    <2>u. PICK u \in Tcb : OSTCBPrio[u] = h /\ OSTCBPrioTbl[h] = u
      BY <1>k DEF WaitOK
    <2>l. /\ OSTCBEventPtr[u] = s /\ \A m \in Mutex : OSEventPtr[m] # u
          /\ \A v \in Tcb : v # u => OSTCBPrio[v] # h
      BY <1>k, <2>u, Listed DEF PrioOK
    <2>x. /\ \A v \in Tcb : v # t => pc'[v] = pc[v] /\ arg'[v] = arg[v]
          /\ pc'[t] = "sched" /\ arg'[t] = None
      BY <1>a DEF TypeOK
    <2>1. TypeOK'
      <3>1. OSEventTbl' \in [Event -> SUBSET Prio] /\ OSRdyTbl' \subseteq Prio
        BY <1>k, <2>w, <2>h DEF Readied, TypeOK
      <3>2. pc' \in [Tcb -> Label] /\ arg' \in [Tcb -> Event \cup {None}]
        BY <1>a DEF TypeOK, Label
      <3> QED
        BY <1>a, <2>w, <3>1, <3>2 DEF TypeOK, Readied
    <2>2. PrioOK'
      BY <1>a, <1>k, <2>w, <2>x DEF TypeOK, PrioOK, OwnOK
    <2>3. FreeOK'
      BY <1>a, <1>k, <2>w DEF TypeOK, FreeOK, Readied
    <2>4. OwnOK'
      <3>1. \A v \in Tcb : Waits(v)' => Waits(v)
        BY <2>w DEF Readied
      <3> QED
        BY <1>a, <3>1, <2>x DEF OwnOK, TypeOK
    <2>5. WaitOK'
      <3>1. WaitOK!1'
        BY <1>a, <1>k, <2>w, <2>u, <2>l DEF Readied, WaitOK, TypeOK
      <3>2. ASSUME NEW v \in Tcb PROVE WaitOK!2!(v)'
        <4>1. CASE v = u
          <5>1. /\ OSTCBEventPtr'[v] = None /\ OSTCBPendTO'[v] = FALSE
                /\ OSTCBStat'[v] \cap Pend = {}
            BY <4>1, <2>u, <2>w DEF Readied
          <5>2. InPend(v)' => InPend(v) /\ arg'[v] = arg[v]
            BY <2>x
          <5> QED
            BY <5>1, <5>2 DEF WaitOK
        <4>2. CASE v # u
          <5>1. OSTCBPrio[v] \notin {h}
            BY <4>2, <2>l
          <5>2. /\ OSTCBEventPtr'[v] = OSTCBEventPtr[v]
                /\ OSTCBPendTO'[v] = OSTCBPendTO[v]
                /\ OSTCBStat'[v] = OSTCBStat[v] /\ OSTCBDly'[v] = OSTCBDly[v]
            BY <5>1, <2>w DEF Readied
          <5>3. \A e \in Event : OSTCBPrio[v] \in OSEventTbl[e]
                    => OSTCBPrio[v] \in OSEventTbl'[e]
            BY <5>1, <2>w, <1>k DEF Readied, TypeOK
          <5>4. v # t => pc'[v] = pc[v] /\ arg'[v] = arg[v]
            BY <2>x
          <5>5. CASE v = t
            <6>1. OSTCBEventPtr[t] = None
              BY DEF WaitOK
            <6> QED
              BY <5>2, <5>5, <6>1, <2>x, <1>a DEF WaitOK
          <5> QED
            BY <5>2, <5>3, <5>4, <5>5, <1>a DEF WaitOK
        <4> QED
          BY <4>1, <4>2
      <3> QED
        BY <3>1, <3>2 DEF WaitOK
    <2>6. ReadyOK'
      <3>1. /\ OSTCBDly'[u] = 0 /\ OSTCBStat'[u] \subseteq OSTCBStat[u]
            /\ OSRdyTbl' = OSRdyTbl \cup {p \in {h} : OSTCBStat'[u] = {}}
        BY <2>w, <2>u DEF Readied
      <3>2. \A v \in Tcb : v # u
                => OSTCBDly'[v] = OSTCBDly[v] /\ OSTCBStat'[v] = OSTCBStat[v]
        BY <2>w, <2>l DEF Readied
      <3> QED
        BY <1>a, <3>1, <3>2, <2>u, <2>l DEF ReadyOK
    <2>7. IdleOK'
      <3>1. \A e \in Event : OSTCBPrio[Idle] \notin OSEventTbl[e]
        BY Listed DEF IdleOK
      <3>2. u # Idle
        BY <3>1, <2>u, <1>k
      <3> QED
        BY <1>a, <3>2, <2>l, <2>w, <2>x DEF Readied, IdleOK
    <2>8. CallOK'
      BY <1>a, <1>k, <2>w, <2>x DEF TypeOK, CallOK, MutexCalls
    <2>9. CurOK'
      BY <1>a, <2>x DEF CurOK, OnlyReadyRuns
    <2> QED
      BY <2>1, <2>2, <2>3, <2>4, <2>5, <2>6, <2>7, <2>8, <2>9
  <1> QED
    BY <1>b, <1>a

(* OSTaskChangePrio preserves IInv. *)
LEMMA ChangePrioStep ==
  ASSUME IInv, Allowed \subseteq {"changeWaiter"}, NEW t \in Tcb, NEW p \in Tcb \cup NewPrio,
         NEW q \in NewPrio,
         OSTaskChangePrio(t, p, q)
  PROVE  IInv'
  <1> USE MutexAssumption DEF IInv, Prio, Event, Pend, Waits, InPend, cpuVars,
          prioVars, tcbVars, evtVars,
          OSTaskChangePrio, Renamed, Calling, Reschedule, Goto
  <1>u. PICK u \in Tcb : u = OSTCBPrioTbl[p]
    OBVIOUS
  <1>a. /\ u # Idle /\ ~OSTCBPendTO[u]
        /\ OSTCBPrioTbl[q] = None
        /\ OSTCBPrioTbl' = [OSTCBPrioTbl EXCEPT ![p] = None, ![q] = u]
        /\ OSTCBPrio' = [OSTCBPrio EXCEPT ![u] = q]
        /\ OSRdyTbl' = MovedRdy(u, q) /\ OSEventTbl' = MovedWait(u, q)
        /\ UNCHANGED <<cpuVars, tcbVars, evtVars>>
    BY <1>u
  <1>x. /\ \A v \in Tcb : v # t => pc'[v] = pc[v] /\ arg'[v] = arg[v]
        /\ pc'[t] = "sched" /\ arg'[t] = None /\ pc[t] = "user" /\ OSTCBCur = t
        /\ t # Idle
        /\ pc' \in [Tcb -> Label] /\ arg' \in [Tcb -> Event \cup {None}]
    BY DEF TypeOK, Label
  <1>n. /\ \A m \in Mutex : OSEventPtr[m] # u
        /\ OSTCBPrio[u] = p /\ p \notin Mutex /\ q \notin Mutex /\ p # q
    <2>1. \A m \in Mutex : OSEventPtr[m] # u
      BY <1>u DEF Owned, FreeOK, TypeOK
    <2> QED
      BY <2>1, <1>u, <1>a DEF PrioOK
  <1>v. /\ \A v \in Tcb : v # u
             => OSTCBPrio'[v] = OSTCBPrio[v] /\ OSTCBPrio[v] \notin {p, q}
        /\ OSTCBPrio'[u] = q
        /\ OSTCBPrioTbl'[q] = u /\ OSTCBPrioTbl'[p] = None
        /\ \A r \in Prio : r \notin {p, q} => OSTCBPrioTbl'[r] = OSTCBPrioTbl[r]
    BY <1>a, <1>n, <1>u DEF TypeOK, PrioOK
  <1>r. /\ OSRdyTbl' \subseteq Prio
        /\ \A v \in Tcb : v # u
             => (OSTCBPrio[v] \in OSRdyTbl' <=> OSTCBPrio[v] \in OSRdyTbl)
        /\ q \in OSRdyTbl' <=> p \in OSRdyTbl
        /\ \A r \in OSRdyTbl' : r = q \/ r \in OSRdyTbl \ {p}
    <2>1. q \notin OSRdyTbl
      BY <1>a DEF ReadyOK
    <2> QED
      BY <2>1, <1>a, <1>n, <1>v DEF MovedRdy, TypeOK
  <1>w. /\ OSEventTbl' \in [Event -> SUBSET Prio]
        /\ \A e \in Event : \A r \in OSEventTbl'[e] :
             (r = q /\ OSTCBEventPtr[u] = e) \/ r \in OSEventTbl[e] \ {p}
        /\ \A e \in Event, v \in Tcb : v # u /\ OSTCBPrio[v] \in OSEventTbl[e]
             => OSTCBPrio[v] \in OSEventTbl'[e]
        /\ OSTCBEventPtr[u] # None => q \in OSEventTbl'[OSTCBEventPtr[u]]
        /\ \A m \in Mutex : OSEventTbl[m] = {} => OSEventTbl'[m] = {}
    <2>1. OSTCBEventPtr[u] # None => /\ p \notin OSRdyTbl /\ OSTCBEventPtr[u] \in Event
                                     /\ p \in OSEventTbl[OSTCBEventPtr[u]]
      BY <1>a, <1>n DEF WaitOK, ReadyOK, TypeOK
    <2>2. \A e \in Event : p \in OSEventTbl[e] => OSTCBEventPtr[u] = e
      BY <1>u DEF WaitOK
    <2>3. CASE OSTCBEventPtr[u] = None
      <3>1. OSEventTbl' = OSEventTbl
        BY <2>3, <1>a DEF MovedWait
      <3> QED
        BY <2>2, <2>3, <3>1 DEF TypeOK
    <2>4. CASE OSTCBEventPtr[u] # None
      <3>1. PICK e \in Event : e = OSTCBEventPtr[u]
        BY <2>1, <2>4
      <3>2. OSEventTbl' = [OSEventTbl EXCEPT ![e] = (@ \ {p}) \cup {q}]
        BY <2>1, <2>4, <3>1, <1>a, <1>n DEF MovedWait
      <3> QED
        BY <2>1, <2>2, <2>4, <3>1, <3>2, <1>v DEF TypeOK
    <2> QED
      BY <2>3, <2>4
  <1>1. TypeOK'
    <2>1. OSTCBPrioTbl' \in [Prio -> Tcb \cup {None, Reserved}]
              /\ OSTCBPrio' \in [Tcb -> Prio]
      BY <1>a DEF TypeOK
    <2>2. /\ OSTCBDly' \in [Tcb -> 0 .. MaxDly] /\ OSTCBPendTO' \in [Tcb -> BOOLEAN]
          /\ OSTCBStat' \in [Tcb -> SUBSET (Pend \cup {"SUSPEND"})]
          /\ OSTCBEventPtr' \in [Tcb -> Event \cup {None}]
      BY <1>a DEF TypeOK
    <2>3. /\ OSEventType' \in [Event -> {"MUTEX", "SEM", "UNUSED"}]
          /\ OSEventCnt' \in [Event -> Prio \cup {0, 1, Available}]
          /\ OSEventPtr' \in [Event -> Tcb \cup {None}]
          /\ OSTCBCur' \in Tcb /\ OSPrioCur' \in Prio
      BY <1>a DEF TypeOK
    <2> QED
      BY <2>1, <2>2, <2>3, <1>x, <1>r, <1>w DEF TypeOK
  <1>2. PrioOK'
    BY SMTT(60), <1>a, <1>n, <1>v DEF PrioOK, TypeOK
  <1>3. FreeOK'
    BY <1>a, <1>w DEF FreeOK
  <1>4. OwnOK'
    <2>1. \A m \in Mutex : OSEventPtr[m] # None => OSEventCnt[m] \notin {p, q}
      BY <1>a, <1>u, <1>n DEF OwnOK
    <2>2. \A m \in Mutex : OSEventPtr[m] # None
              => pc'[OSEventPtr[m]] \in {pc[OSEventPtr[m]], "sched"}
      BY <1>x DEF TypeOK
    <2> QED
      BY <2>1, <2>2, <1>a, <1>n, <1>v DEF OwnOK, TypeOK, Own
  <1>5. WaitOK'
    <2>1. WaitOK!1'
      BY <1>a, <1>n, <1>v, <1>w DEF WaitOK, TypeOK
    <2>2. ASSUME NEW v \in Tcb PROVE WaitOK!2!(v)'
      <3>1. v = t => OSTCBEventPtr[v] = None
        BY <1>x DEF WaitOK
      <3>2. CASE v = u
        BY <3>1, <3>2, <1>a, <1>x, <1>v, <1>w DEF WaitOK
      <3>3. CASE v # u
        BY <3>1, <3>3, <1>a, <1>x, <1>v, <1>w DEF WaitOK
      <3> QED
        BY <3>2, <3>3
    <2> QED
      BY <2>1, <2>2 DEF WaitOK
  <1>6. ReadyOK'
    BY <1>a, <1>n, <1>v, <1>r DEF ReadyOK, TypeOK
  <1>7. IdleOK'
    BY <1>a, <1>x, <1>v DEF IdleOK
  <1>8. CallOK'
    <2>1. \A m \in Mutex : OSTCBPrioTbl'[m] = OSTCBPrioTbl[m]
      BY <1>n, <1>v
    <2>2. \A v \in Tcb : pc'[v] \in MutexCalls \cup {"mutexInit"}
                        => v # t /\ pc'[v] = pc[v] /\ arg'[v] = arg[v]
      BY <1>x DEF MutexCalls
    <2>3. OSEventType' = OSEventType /\ OSEventCnt' = OSEventCnt
      BY <1>a
    <2>4. ASSUME NEW v \in Tcb, pc'[v] \in MutexCalls
          PROVE  arg'[v] \in Mutex /\ OSEventType'[arg'[v]] = "MUTEX"
      BY <2>2, <2>3, <2>4 DEF CallOK
    <2>5. ASSUME NEW v \in Tcb, pc'[v] = "mutexInit"
          PROVE  /\ arg'[v] \in Mutex /\ OSEventType'[arg'[v]] = "UNUSED"
                 /\ OSTCBPrioTbl'[arg'[v]] = Reserved
      <3>1. pc[v] = "mutexInit" /\ arg'[v] = arg[v]
        BY <2>2, <2>5
      <3>2. /\ arg[v] \in Mutex /\ OSEventType[arg[v]] = "UNUSED"
            /\ OSTCBPrioTbl[arg[v]] = Reserved
        BY <3>1 DEF CallOK
      <3> QED
        BY <2>1, <2>3, <3>1, <3>2
    <2>6. CallOK!2'
      BY <2>2 DEF CallOK
    <2>7. CallOK!3'
      BY <2>3 DEF CallOK
    <2> QED
      BY <2>4, <2>5, <2>6, <2>7 DEF CallOK
  <1>9. CurOK'
    BY <1>a, <1>x, <1>v, <1>n DEF CurOK, OnlyReadyRuns, TypeOK
  <1> QED
    BY <1>1, <1>2, <1>3, <1>4, <1>5, <1>6, <1>7, <1>8, <1>9

(* OSMutexDel of a free mutex preserves IInv. *)
LEMMA DelStep ==
  ASSUME IInv, Allowed \subseteq {"changeWaiter"}, NEW t \in Tcb, NEW opt \in DelOpts, MutexDel(t, opt)
  PROVE  IInv'
  <1> USE MutexAssumption DEF IInv, Prio, Event, Pend, Waits, InPend, cpuVars,
          prioVars, tcbVars, evtVars,
          MutexDel, At, Return, Goto
  <1>m. PICK m \in Mutex : m = arg[t]
    BY DEF CallOK, MutexCalls
  <1>o. OSEventPtr[m] = None /\ OSEventType[m] = "MUTEX" /\ OSEventTbl[m] = {}
            /\ t # Idle
    BY <1>m DEF FreeOK, CallOK, IdleOK, MutexCalls
  <1>e. /\ EventTaskRdy(OSRdyTbl, m, {}, "MUTEX") /\ Return(t)
        /\ OSTCBPrioTbl' = [OSTCBPrioTbl EXCEPT ![m] = None]
        /\ OSEventType' = [OSEventType EXCEPT ![m] = "UNUSED"]
        /\ OSEventCnt' = [OSEventCnt EXCEPT ![m] = 0]
        /\ OSEventPtr' = [OSEventPtr EXCEPT ![m] = None]
    BY <1>m, <1>o
  <1>u. UNCHANGED <<OSRdyTbl, OSTCBPrio, tcbVars, OSEventTbl, OSEventPtr, cpuVars>>
    BY <1>o, <1>e DEF EventTaskRdy, TypeOK
  <1>x. /\ \A v \in Tcb : v # t => pc'[v] = pc[v] /\ arg'[v] = arg[v]
        /\ pc'[t] = "user" /\ arg'[t] = None /\ pc[t] = "mutexDel"
    BY <1>e DEF TypeOK
  <1>n. \A v \in Tcb : OSTCBPrio[v] # m
    BY <1>o DEF PrioOK
  <1>1. TypeOK'
    BY <1>e, <1>u DEF TypeOK, Label
  <1>2. PrioOK'
    <2>1. \A p \in Prio : OSTCBPrioTbl'[p] \in Tcb => OSTCBPrioTbl'[p] = OSTCBPrioTbl[p]
      BY <1>e DEF TypeOK
    <2>2. \A n \in Mutex : OSEventPtr[n] # None => OSEventCnt'[n] = OSEventCnt[n]
      BY <1>e, <1>o DEF TypeOK
    <2>3. \A v \in Tcb : OSTCBPrioTbl'[OSTCBPrio[v]] = v
      BY <1>e, <1>n DEF TypeOK, PrioOK
    <2> QED
      BY <1>u, <2>1, <2>2, <2>3 DEF PrioOK
  <1>3. FreeOK'
    BY <1>e, <1>u, <1>o DEF TypeOK, FreeOK
  <1>4. OwnOK'
    <2>1. \A n \in Mutex : OSEventPtr[n] # None =>
            OSEventCnt'[n] = OSEventCnt[n] /\ (OSEventCnt[n] \in Own
                => OSTCBPrioTbl'[OSEventCnt[n]] = OSTCBPrioTbl[OSEventCnt[n]])
      BY <1>e, <1>o DEF TypeOK, Own
    <2> QED
      BY <1>u, <1>x, <2>1 DEF OwnOK, TypeOK
  <1>5. WaitOK'
    <2>1. \A p \in Prio : OSTCBPrioTbl[p] \in Tcb /\ OSTCBPrio[OSTCBPrioTbl[p]] = p
            => OSTCBPrioTbl'[p] = OSTCBPrioTbl[p]
      BY <1>e, <1>n DEF TypeOK
    <2>2. OSTCBEventPtr[t] = None
      BY <1>x DEF WaitOK
    <2> QED
      BY <1>u, <1>x, <2>1, <2>2 DEF WaitOK, TypeOK
  <1>6. ReadyOK'
    <2>1. \A p \in Prio : OSTCBPrioTbl[p] \in Tcb /\ OSTCBPrio[OSTCBPrioTbl[p]] = p
            => OSTCBPrioTbl'[p] = OSTCBPrioTbl[p]
      BY <1>e, <1>n DEF TypeOK
    <2> QED
      BY <1>u, <2>1 DEF ReadyOK, TypeOK
  <1>7. IdleOK'
    BY <1>u, <1>x, <1>o DEF IdleOK
  <1>8. CallOK'
    <2>1. /\ \A n \in Mutex : n # m => OSTCBPrioTbl'[n] = OSTCBPrioTbl[n]
          /\ \A e \in Event : e # m
               => OSEventType'[e] = OSEventType[e] /\ OSEventCnt'[e] = OSEventCnt[e]
      BY <1>e DEF TypeOK
    <2>2. \A v \in Tcb : pc[v] \in MutexCalls /\ arg[v] = m => v = t
      BY <1>m DEF Inside
    <2>3. \A v \in Tcb : pc[v] = "mutexInit" => arg[v] # m
      BY <1>o DEF CallOK
    <2> QED
      BY <1>u, <1>x, <2>1, <2>2, <2>3 DEF CallOK, MutexCalls
  <1>9. CurOK'
    BY <1>u, <1>x DEF CurOK, OnlyReadyRuns
  <1> QED
    BY <1>1, <1>2, <1>3, <1>4, <1>5, <1>6, <1>7, <1>8, <1>9

(* A pend that blocks, with or without raising the owner preserves IInv. *)
LEMMA WaitStep ==
  ASSUME IInv, Allowed \subseteq {"changeWaiter"}, NEW t \in Tcb, NEW n \in Timeout, MutexWait(t, n)
  PROVE  IInv'
  <1> USE MutexAssumption DEF IInv, Prio, Event, Pend, Waits, InPend, cpuVars,
          prioVars, tcbVars, evtVars,
          MutexWait, At, Goto
  <1>m. PICK m \in Mutex : m = arg[t]
    BY DEF CallOK, MutexCalls
  <1>o. PICK o \in Tcb : /\ o = OSEventPtr[m] /\ o # t /\ o # Idle
                         /\ OSTCBPrio[o] \in {m, OSEventCnt[m]} /\ OSEventCnt[m] \in Own
                         /\ OSTCBPrioTbl[OSEventCnt[m]] = o /\ ~Waits(o)
                         /\ \A k \in Mutex : OSEventPtr[k] = o => k = m
    <2>1. OSEventPtr[m] # None
      BY <1>m DEF FreeOK, CallOK, MutexCalls
    <2> QED
      BY <2>1 DEF OwnOK, TypeOK, IdleOK
  <1>c. /\ t # Idle /\ pc[t] = "mutexPend" /\ OSTCBCur = t /\ OSTCBPrio[t] \in OSRdyTbl
        /\ OSTCBStat[t] = {} /\ ~OSTCBPendTO[t] /\ OSTCBEventPtr[t] = None
        /\ m \in Event /\ Kind(m) = "MUTEX" /\ m # None
    BY DEF IdleOK, CurOK, OnlyReadyRuns, ReadyOK, WaitOK, TypeOK, Kind
  <1>x. /\ \A v \in Tcb : v # t => pc'[v] = pc[v] /\ arg'[v] = arg[v]
        /\ pc'[t] = "schedPend" /\ arg'[t] = m
        /\ pc' \in [Tcb -> Label] /\ arg' \in [Tcb -> Event \cup {None}]
    BY <1>m DEF TypeOK, Label
  <1>f. UNCHANGED <<cpuVars, evtVars>>
    OBVIOUS
  <1>n. \A k \in Mutex : OSEventPtr[k] # t
    BY <1>c DEF OwnOK
  <1>p. PICK np \in {m, OSTCBPrio[o]}, rdy \in SUBSET Prio :
          /\ OSTCBPrio' = [OSTCBPrio EXCEPT ![o] = np]
          /\ \A q \in Prio : OSTCBPrioTbl'[q] = IF q = np THEN o ELSE OSTCBPrioTbl[q]
          /\ OSTCBPrioTbl' \in [Prio -> Tcb \cup {None, Reserved}]
          /\ \A v \in Tcb : v # o
               => OSTCBPrio[v] # np
                   /\ (OSTCBPrio[v] \in rdy <=> OSTCBPrio[v] \in OSRdyTbl)
          /\ np \in rdy <=> OSTCBPrio[o] \in OSRdyTbl
          /\ \A r \in rdy : r = np \/ r \in OSRdyTbl \ {OSTCBPrio[o]}
          /\ Blocked(t, m, rdy, OSEventTbl)
    <2>1. CASE Raises(t, m)
      <3>1. /\ OSTCBPrio' = [OSTCBPrio EXCEPT ![o] = m]
            /\ OSTCBPrioTbl' = [OSTCBPrioTbl EXCEPT ![m] = o]
            /\ EventTaskWait(t, MovedRdy(o, m), MovedWait(o, m), m, "MUTEX", n)
        BY <1>m, <1>o, <2>1
      <3>2. OSTCBPrio[o] # m /\ \A v \in Tcb : OSTCBPrio[v] # m
        BY <1>o, <2>1 DEF Raises, PrioOK
      <3>3. MovedWait(o, m) = OSEventTbl
        BY <1>o DEF MovedWait, WaitOK
      <3>4. Blocked(t, m, MovedRdy(o, m), OSEventTbl)
        <4>1. EventTaskWait(t, MovedRdy(o, m), OSEventTbl, m, Kind(m), n)
          BY <1>c, <3>1, <3>3
        <4>2. OSEventTbl \in [Event -> SUBSET Prio]
          BY DEF TypeOK
        <4> QED
          BY <1>c, <4>1, <4>2, WaitEffect
      <3>5. /\ MovedRdy(o, m) \in SUBSET Prio
            /\ \A v \in Tcb : v # o
                 => (OSTCBPrio[v] \in MovedRdy(o, m) <=> OSTCBPrio[v] \in OSRdyTbl)
            /\ m \in MovedRdy(o, m) <=> OSTCBPrio[o] \in OSRdyTbl
            /\ \A r \in MovedRdy(o, m) : r = m \/ r \in OSRdyTbl \ {OSTCBPrio[o]}
        BY <3>2 DEF MovedRdy, TypeOK, PrioOK, ReadyOK
      <3>6. /\ OSTCBPrioTbl' \in [Prio -> Tcb \cup {None, Reserved}]
            /\ \A q \in Prio : OSTCBPrioTbl'[q] = IF q = m THEN o ELSE OSTCBPrioTbl[q]
        BY <3>1 DEF TypeOK
      <3> QED
        BY <3>1, <3>2, <3>4, <3>5, <3>6
    <2>2. CASE ~Raises(t, m)
      <3>1. /\ UNCHANGED prioVars
            /\ EventTaskWait(t, OSRdyTbl, OSEventTbl, m, "MUTEX", n)
        BY <1>m, <2>2
      <3>2. Blocked(t, m, OSRdyTbl, OSEventTbl)
        <4>1. EventTaskWait(t, OSRdyTbl, OSEventTbl, m, Kind(m), n)
          BY <1>c, <3>1
        <4>2. OSEventTbl \in [Event -> SUBSET Prio]
          BY DEF TypeOK
        <4> QED
          BY <1>c, <4>1, <4>2, WaitEffect
      <3>3. OSTCBPrioTbl[OSTCBPrio[o]] = o /\ \A v \in Tcb : v # o
                => OSTCBPrio[v] # OSTCBPrio[o]
        BY DEF PrioOK
      <3>4. \A r \in OSRdyTbl : r = OSTCBPrio[o] \/ r \in OSRdyTbl \ {OSTCBPrio[o]}
        OBVIOUS
      <3>5. /\ OSTCBPrio' = [OSTCBPrio EXCEPT ![o] = OSTCBPrio[o]]
            /\ \A q \in Prio : OSTCBPrioTbl'[q] = IF q = OSTCBPrio[o] THEN o ELSE OSTCBPrioTbl[q]
            /\ OSTCBPrioTbl' \in [Prio -> Tcb \cup {None, Reserved}]
            /\ OSRdyTbl \in SUBSET Prio
        BY <3>1, <3>3 DEF TypeOK
      <3> QED
        BY <3>2, <3>3, <3>4, <3>5
    <2> QED
      BY <2>1, <2>2
  <1>v. /\ \A v \in Tcb : v # o => OSTCBPrio'[v] = OSTCBPrio[v]
        /\ OSTCBPrio'[o] = np /\ np \in Prio /\ OSTCBPrio' \in [Tcb -> Prio]
        /\ \A v \in Tcb : v # t => OSTCBPrio[v] # OSTCBPrio[t]
        /\ np # OSTCBPrio[t] /\ OSTCBPrio'[t] = OSTCBPrio[t]
    BY <1>p, <1>o DEF TypeOK, PrioOK
  <1>w. /\ OSTCBEventPtr'[t] = m /\ OSTCBPendTO'[t] = FALSE
        /\ OSTCBStat'[t] = {"MUTEX"}
        /\ \A u \in Tcb : u # t =>
             /\ OSTCBDly'[u] = OSTCBDly[u] /\ OSTCBEventPtr'[u] = OSTCBEventPtr[u]
             /\ OSTCBPendTO'[u] = OSTCBPendTO[u] /\ OSTCBStat'[u] = OSTCBStat[u]
        /\ OSRdyTbl' = rdy \ {OSTCBPrio[t]}
        /\ OSEventTbl' = [OSEventTbl EXCEPT ![m] = @ \cup {OSTCBPrio[t]}]
    BY <1>p, <1>c DEF Blocked
  <1>l. \A e \in Event : OSTCBPrio[o] \notin OSEventTbl[e] /\ np \notin OSEventTbl[e]
    <2>1. \A e \in Event : OSTCBPrio[o] \notin OSEventTbl[e]
      BY <1>o, Listed
    <2>2. \A e \in Event : np \in OSEventTbl[e] => np = OSTCBPrio[o]
      BY <1>p DEF WaitOK
    <2> QED
      BY <2>1, <2>2
  <1>1. TypeOK'
    <2>1. /\ OSTCBDly' \in [Tcb -> 0 .. MaxDly] /\ OSTCBPendTO' \in [Tcb -> BOOLEAN]
          /\ OSTCBStat' \in [Tcb -> SUBSET (Pend \cup {"SUSPEND"})]
          /\ OSTCBEventPtr' \in [Tcb -> Event \cup {None}]
      BY <1>p DEF Blocked
    <2>2. OSEventTbl' \in [Event -> SUBSET Prio]
      BY <1>w DEF TypeOK
    <2>3. OSRdyTbl' \subseteq Prio
      BY <1>w
    <2>4. /\ OSEventType' \in [Event -> {"MUTEX", "SEM", "UNUSED"}]
          /\ OSEventCnt' \in [Event -> Prio \cup {0, 1, Available}]
          /\ OSEventPtr' \in [Event -> Tcb \cup {None}]
          /\ OSTCBCur' \in Tcb /\ OSPrioCur' \in Prio
      BY <1>f DEF TypeOK
    <2> QED
      BY <2>1, <2>2, <2>3, <2>4, <1>p, <1>v, <1>x DEF TypeOK
  <1>2. PrioOK'
    <2>1. np \in Mutex => np = m
      BY <1>p, <1>o DEF Own
    <2> QED
      BY <2>1, <1>p, <1>v, <1>o, <1>f DEF PrioOK, TypeOK
  <1>3. FreeOK'
    BY <1>f, <1>w, <1>o DEF FreeOK, TypeOK
  <1>4. OwnOK'
    <2>1. \A k \in Mutex : OSEventPtr[k] # None =>
            OSTCBPrioTbl'[OSEventCnt[k]] = OSEventPtr[k]
      BY <1>p, <1>o DEF OwnOK, TypeOK, Own
    <2>2. \A k \in Mutex : OSEventPtr[k] # None =>
            /\ OSTCBPrio'[OSEventPtr[k]] \in {k, OSEventCnt[k]}
            /\ ~Waits(OSEventPtr[k])' /\ pc'[OSEventPtr[k]] = pc[OSEventPtr[k]]
      BY <1>v, <1>o, <1>w, <1>x, <1>n DEF OwnOK, TypeOK
    <2> QED
      BY <2>1, <2>2, <1>f DEF OwnOK
  <1>5. WaitOK'
    <2>1. WaitOK!1'
      <3> SUFFICES ASSUME NEW e \in Event, NEW p \in OSEventTbl'[e]
                   PROVE  /\ OSTCBPrioTbl'[p] \in Tcb
                          /\ OSTCBPrio'[OSTCBPrioTbl'[p]] = p
                          /\ OSTCBEventPtr'[OSTCBPrioTbl'[p]] = e
        BY DEF WaitOK
      <3>1. CASE p \in OSEventTbl[e]
        <4>1. OSTCBPrioTbl'[p] = OSTCBPrioTbl[p] /\ OSTCBPrioTbl[p] \notin {t, o}
          BY <3>1, <1>c, <1>l, <1>p DEF WaitOK, TypeOK
        <4> QED
          BY <3>1, <4>1, <1>v, <1>w DEF WaitOK
      <3>2. CASE p \notin OSEventTbl[e]
        <4>1. p = OSTCBPrio[t] /\ e = m
          BY <3>2, <1>w DEF TypeOK
        <4>2. OSTCBPrioTbl'[p] = t
          BY <4>1, <1>p, <1>v DEF PrioOK, TypeOK
        <4> QED
          BY <4>1, <4>2, <1>v, <1>w
      <3> QED
        BY <3>1, <3>2
    <2>2. ASSUME NEW u \in Tcb PROVE WaitOK!2!(u)'
      <3>1. CASE u = t
        <4>1. OSTCBPrio[t] \in OSEventTbl'[m]
          BY <1>w, <1>c DEF TypeOK
        <4> QED
          BY <3>1, <4>1, <1>c, <1>v, <1>w, <1>x
      <3>2. CASE u # t
        <4>1. \A e \in Event : OSEventTbl[e] \subseteq OSEventTbl'[e]
          BY <1>w DEF TypeOK
        <4>2. OSTCBEventPtr[u] # None => u # o
          BY <1>o DEF WaitOK
        <4> QED
          BY <3>2, <4>1, <4>2, <1>v, <1>w, <1>x DEF WaitOK
      <3> QED
        BY <3>1, <3>2
    <2> QED
      BY <2>1, <2>2 DEF WaitOK
  <1>6. ReadyOK'
    <2>1. \A r \in OSRdyTbl' : OSTCBPrioTbl'[r] \in Tcb
              /\ OSTCBPrio'[OSTCBPrioTbl'[r]] = r
      BY <1>p, <1>v, <1>w DEF ReadyOK, TypeOK
    <2>2. ASSUME NEW u \in Tcb
          PROVE  OSTCBPrio'[u] \in OSRdyTbl' <=> OSTCBStat'[u] = {} /\ OSTCBDly'[u] = 0
      <3>1. CASE u = t
        BY <3>1, <1>v, <1>w
      <3>2. CASE u = o
        BY <3>2, <1>o, <1>p, <1>v, <1>w DEF ReadyOK
      <3>3. CASE u \notin {t, o}
        BY <3>3, <1>p, <1>v, <1>w DEF ReadyOK
      <3> QED
        BY <3>1, <3>2, <3>3
    <2> QED
      BY <2>1, <2>2 DEF ReadyOK
  <1>7. IdleOK'
    BY <1>f, <1>c, <1>o, <1>v, <1>w, <1>x DEF IdleOK
  <1>8. CallOK'
    <2>1. \A k \in Mutex : OSTCBPrioTbl[k] = Reserved
              => OSTCBPrioTbl'[k] = Reserved \/ k = m
      BY <1>p, <1>o DEF TypeOK, PrioOK
    <2>2. OSEventType[m] = "MUTEX"
      BY <1>o DEF FreeOK, TypeOK
    <2> QED
      BY <1>f, <1>x, <2>1, <2>2 DEF CallOK, MutexCalls
  <1>9. CurOK'
    <2>1. OSPrioCur = np => OSPrioCur # OSTCBPrio[t]
      BY <1>v
    <2>2. CASE OSPrioCur = OSTCBPrio[t]
      BY <2>2, <1>c, <1>f, <1>v, <1>x DEF CurOK, OnlyReadyRuns
    <2>3. CASE OSPrioCur # OSTCBPrio[t]
      <3>1. /\ \A v \in Tcb : OSTCBPrio[v] # OSPrioCur
            /\ OSPrioCur \in Mutex /\ OSEventPtr[OSPrioCur] \in {None, t}
        BY <2>3, <1>c DEF CurOK
      <3>2. OSPrioCur # np
        BY <3>1, <1>p, <1>o
      <3> QED
        BY <3>1, <3>2, <1>c, <1>f, <1>v, <1>x DEF CurOK, OnlyReadyRuns, TypeOK
    <2> QED
      BY <2>2, <2>3
  <1> QED
    BY <1>1, <1>2, <1>3, <1>4, <1>5, <1>6, <1>7, <1>8, <1>9

(* A post, with or without lowering the owner preserves IInv. *)
LEMMA PostStep ==
  ASSUME IInv, Allowed \subseteq {"changeWaiter"}, NEW t \in Tcb, MutexPost(t)
  PROVE  IInv'
  <1> USE MutexAssumption DEF IInv, Prio, Event, Pend, Waits, InPend, cpuVars,
          prioVars, tcbVars, evtVars,
          MutexPost, Owns, At, Return, Reschedule, Goto
  <1>m. PICK m \in Mutex : m = arg[t]
    BY DEF CallOK, MutexCalls
  <1>o. PICK c \in Own : /\ OSEventPtr[m] = t /\ t # Idle /\ t # None
                         /\ c = OSEventCnt[m]
                         /\ OSTCBPrio[t] \in {m, c} /\ OSTCBPrioTbl[c] = t /\ ~Waits(t)
                         /\ c \in Prio /\ c \notin Mutex
                         /\ \A k \in Mutex : OSEventPtr[k] = t => k = m
    <2>1. OSEventPtr[m] = t /\ t # Idle
      BY <1>m DEF IdleOK
    <2> QED
      BY <2>1 DEF OwnOK, Own
  <1>k. m \in Event /\ m # None /\ Kind(m) = "MUTEX" /\ OSTCBCur = t
            /\ pc[t] = "mutexPost"
        /\ OSTCBPrio[t] \in OSRdyTbl
    BY DEF Kind, CurOK, OnlyReadyRuns
  <1>v. /\ OSTCBPrio' = [OSTCBPrio EXCEPT ![t] = c]
        /\ OSTCBPrioTbl' = [OSTCBPrioTbl EXCEPT ![m] = Reserved]
    <2>1. CASE OSTCBPrio[t] = m
      <3>1. /\ OSTCBPrio' = [OSTCBPrio EXCEPT ![t] = c]
            /\ OSTCBPrioTbl' = [OSTCBPrioTbl EXCEPT ![c] = t, ![m] = Reserved]
        BY <2>1, <1>m, <1>o DEF Lowered
      <3>2. [OSTCBPrioTbl EXCEPT ![c] = t] = OSTCBPrioTbl
        BY <1>o DEF TypeOK
      <3> QED
        BY <3>1, <3>2
    <2>2. CASE OSTCBPrio[t] # m
      <3>1. OSTCBPrio' = OSTCBPrio
                /\ OSTCBPrioTbl' = [OSTCBPrioTbl EXCEPT ![m] = Reserved]
        BY <2>2, <1>m DEF Lowered
      <3>2. OSTCBPrio[t] = c
        BY <2>2, <1>o
      <3> QED
        BY <3>1, <3>2 DEF TypeOK
    <2> QED
      BY <2>1, <2>2
  <1>d. \A v \in Tcb : v # t => OSTCBPrio[v] \notin {m, c}
    BY <1>o DEF PrioOK
  <1>r. LoweredRdy(t, m) = (OSRdyTbl \ {m}) \cup {c}
    BY <1>o, <1>k, <1>d DEF LoweredRdy, ReadyOK
  <1>q. \A q \in Prio : OSTCBPrioTbl[q] \in Tcb /\ OSTCBPrio[OSTCBPrioTbl[q]] = q
            /\ q # OSTCBPrio[t]
          => OSTCBPrioTbl[q] # t /\ OSTCBPrioTbl'[q] = OSTCBPrioTbl[q]
             /\ OSTCBPrio'[OSTCBPrioTbl[q]] = q /\ q \notin {m, c}
    BY <1>d, <1>v DEF TypeOK
  <1>l. \A e \in Event : OSTCBPrio[t] \notin OSEventTbl[e] /\ c \notin OSEventTbl[e]
    <2>1. \A e \in Event : OSTCBPrio[t] \notin OSEventTbl[e]
      BY <1>o, Listed
    <2> QED
      BY <2>1, <1>o DEF WaitOK
  <1>y. /\ OSTCBPrio' \in [Tcb -> Prio]
        /\ OSTCBPrioTbl' \in [Prio -> Tcb \cup {None, Reserved}]
        /\ LoweredRdy(t, m) \in SUBSET Prio
    BY <1>o, <1>v, <1>r DEF TypeOK
  <1>f. UNCHANGED <<cpuVars, OSEventType>>
    OBVIOUS
  <1>x. /\ \A v \in Tcb : v # t => pc'[v] = pc[v] /\ arg'[v] = arg[v]
        /\ pc'[t] \in {"sched", "user"} /\ arg'[t] = None
        /\ pc'[t] = "user" => OSEventTbl[m] = {}
        /\ pc' \in [Tcb -> Label] /\ arg' \in [Tcb -> Event \cup {None}]
    BY SMTT(60), <1>m DEF TypeOK, Label
  <1>h. PICK S \in SUBSET OSEventTbl[m], own \in Tcb \cup {None} :
          /\ Readied(m, S, LoweredRdy(t, m))
          /\ OSEventPtr' = [OSEventPtr EXCEPT ![m] = own]
          /\ own = None => /\ S = {} /\ OSEventTbl[m] = {}
                          /\ OSEventCnt' = [OSEventCnt EXCEPT ![m] = Available]
          /\ own # None => /\ S = {OSTCBPrio[own]} /\ own # t
                           /\ OSTCBPrio[own] \in OSEventTbl[m]
                          /\ OSEventCnt' = [OSEventCnt EXCEPT ![m] = OSTCBPrio[own]]
                          /\ pc'[t] = "sched"
    <2>1. CASE OSEventTbl[m] # {}
      <3>1. PICK h \in OSEventTbl[m] : h = Highest(OSEventTbl[m])
        BY <2>1, <1>k, HighestIn DEF TypeOK
      <3>2. /\ EventTaskRdy(LoweredRdy(t, m), m, {h}, "MUTEX")
            /\ OSEventCnt' = [OSEventCnt EXCEPT ![m] = h]
            /\ OSEventPtr' = [OSEventPtr EXCEPT ![m] = OSTCBPrioTbl'[h]]
            /\ Reschedule(t)
        BY <2>1, <1>m, <3>1 DEF NextOwner
      <3>3. PICK u \in Tcb : /\ OSTCBPrioTbl[h] = u /\ OSTCBPrio[u] = h /\ u # t
                             /\ OSTCBPrioTbl'[h] = u
        BY <1>k, <1>l, <1>q DEF WaitOK, TypeOK
      <3>4. Readied(m, {h}, LoweredRdy(t, m))
        <4>1. EventTaskRdy(LoweredRdy(t, m), m, {h}, Kind(m))
          BY <1>k, <3>2
        <4> QED
          BY <1>k, <4>1, RdyEffect
      <3>5. pc'[t] = "sched" /\ u # None
        BY <3>2 DEF TypeOK
      <3>6. WITNESS {h} \in SUBSET OSEventTbl[m], u \in Tcb \cup {None}
      <3> QED
        BY <3>2, <3>3, <3>4, <3>5
    <2>2. CASE OSEventTbl[m] = {}
      <3>1. /\ OSRdyTbl' = LoweredRdy(t, m)
            /\ OSEventCnt' = [OSEventCnt EXCEPT ![m] = Available]
            /\ OSEventPtr' = [OSEventPtr EXCEPT ![m] = None]
            /\ UNCHANGED <<tcbVars, OSEventTbl>>
        BY <2>2, <1>m
      <3>2. Readied(m, {}, LoweredRdy(t, m))
        BY <3>1, <2>2, <1>k DEF Readied, TypeOK
      <3>3. WITNESS {} \in SUBSET OSEventTbl[m], None \in Tcb \cup {None}
      <3> QED
        BY <3>1, <3>2, <2>2
    <2> QED
      BY <2>1, <2>2
  <1>s. /\ \A u \in Tcb : OSTCBPrio[u] \in S => u = own
        /\ own # None => \A k \in Mutex : OSEventPtr[k] # own
        /\ own # None => OSTCBPrio[own] \in Own /\ InPend(own)
        /\ own # None => OSTCBPrioTbl[OSTCBPrio[own]] = own
        /\ own # Idle /\ own # t
    BY <1>h, <1>k, <1>o, Listed DEF PrioOK, IdleOK
  <1>w. /\ \A u \in Tcb : Waits(u)' => Waits(u)
        /\ \A u \in Tcb : u # own => /\ OSTCBDly'[u] = OSTCBDly[u]
                                     /\ OSTCBEventPtr'[u] = OSTCBEventPtr[u]
                                    /\ OSTCBPendTO'[u] = OSTCBPendTO[u]
                                    /\ OSTCBStat'[u] = OSTCBStat[u]
        /\ own # None => /\ OSTCBDly'[own] = 0 /\ OSTCBEventPtr'[own] = None
                        /\ OSTCBPendTO'[own] = FALSE /\ OSTCBStat'[own] \cap Pend = {}
                        /\ OSTCBStat'[own] \subseteq OSTCBStat[own]
        /\ \A e \in Event : OSEventTbl'[e] \subseteq OSEventTbl[e] \ S
        /\ \A e \in Event : OSEventTbl[e] \subseteq OSEventTbl'[e] \cup S
        /\ OSRdyTbl' = (OSRdyTbl \ {m}) \cup {c} \cup {q \in S : OSTCBStat'[own] = {}}
    <2>1. \A e \in Event : e # m => S \cap OSEventTbl[e] = {}
      <3>1. CASE own = None
        BY <3>1, <1>h
      <3>2. CASE own # None
        BY <3>2, <1>h, <1>k, Listed
      <3> QED
        BY <3>1, <3>2
    <2>2. \A q \in S : OSTCBPrioTbl[q] = own
      BY <1>h, <1>s
    <2> QED
      BY SMTT(60), <2>1, <2>2, <1>h, <1>s, <1>r, <1>k DEF Readied, TypeOK
  <1>e. /\ \A k \in Event : k # m
             => OSEventPtr'[k] = OSEventPtr[k] /\ OSEventCnt'[k] = OSEventCnt[k]
        /\ OSEventPtr'[m] = own
        /\ OSEventCnt'[m] = IF own = None THEN Available ELSE OSTCBPrio[own]
    BY <1>h, <1>k DEF TypeOK
  <1>p. /\ \A v \in Tcb : v # t => OSTCBPrio'[v] = OSTCBPrio[v]
        /\ OSTCBPrio'[t] = c
        /\ \A q \in Prio : q # m => OSTCBPrioTbl'[q] = OSTCBPrioTbl[q]
        /\ OSTCBPrioTbl'[m] = Reserved /\ Reserved \notin Tcb
    BY <1>v DEF TypeOK
  <1>1. TypeOK'
    <2>1. /\ OSTCBDly' \in [Tcb -> 0 .. MaxDly] /\ OSTCBPendTO' \in [Tcb -> BOOLEAN]
          /\ OSTCBStat' \in [Tcb -> SUBSET (Pend \cup {"SUSPEND"})]
          /\ OSTCBEventPtr' \in [Tcb -> Event \cup {None}]
      BY <1>h DEF Readied
    <2>2. OSEventTbl' \in [Event -> SUBSET Prio] /\ OSRdyTbl' \subseteq Prio
      BY <1>h, <1>y, <1>k DEF TypeOK, Readied
    <2>3. /\ OSEventType' \in [Event -> {"MUTEX", "SEM", "UNUSED"}]
          /\ OSEventPtr' \in [Event -> Tcb \cup {None}]
          /\ OSTCBCur' \in Tcb /\ OSPrioCur' \in Prio
      BY <1>f, <1>h DEF TypeOK
    <2>4. OSEventCnt' \in [Event -> Prio \cup {0, 1, Available}]
      BY <1>h, <1>s DEF TypeOK, Own
    <2> QED
      BY <2>1, <2>2, <2>3, <2>4, <1>y, <1>x DEF TypeOK
  <1>2. PrioOK'
    <2>1. PrioOK!1'
      BY <1>p, <1>d, <1>o DEF PrioOK, TypeOK
    <2>2. ASSUME NEW q \in Prio, OSTCBPrioTbl'[q] \in Tcb PROVE PrioOK!2!(q)!2'
      <3>1. q # m /\ OSTCBPrioTbl'[q] = OSTCBPrioTbl[q]
        BY <2>2, <1>p
      <3>2. CASE OSTCBPrioTbl[q] = t
        BY <3>1, <3>2, <1>p, <1>o DEF PrioOK
      <3>3. CASE OSTCBPrioTbl[q] # t
        BY <2>2, <3>1, <3>3, <1>p, <1>e, <1>o DEF PrioOK
      <3> QED
        BY <3>2, <3>3
    <2>3. PrioOK!3'
      BY <1>p, <1>d, <1>o, <1>e DEF PrioOK
    <2> QED
      BY <2>1, <2>2, <2>3 DEF PrioOK
  <1>3. FreeOK'
    <2>1. own # None => OSTCBPrio[own] # Available
      BY DEF TypeOK
    <2> QED
      BY <2>1, <1>e, <1>f, <1>h, <1>w, <1>o DEF FreeOK
  <1>4. OwnOK'
    <2> SUFFICES ASSUME NEW k \in Mutex, OSEventPtr'[k] # None
                 PROVE  OwnOK!(k)!2'
      BY DEF OwnOK
    <2>1. CASE k = m
      BY <2>1, <1>e, <1>s, <1>p, <1>w, <1>x DEF OwnOK, Own, TypeOK
    <2>2. CASE k # m
      <3>1. PICK v \in Tcb : v = OSEventPtr[k] /\ v # t /\ v # own /\ OSEventPtr'[k] = v
        BY <2>2, <1>e, <1>s, <1>o DEF TypeOK
      <3>2. /\ OSEventCnt[k] \in Own /\ OSTCBPrioTbl[OSEventCnt[k]] = v
            /\ OSTCBPrio[v] \in {k, OSEventCnt[k]} /\ ~Waits(v)
            /\ pc[v] \notin {"mutexPend", "mutexAccept"}
            /\ \A n \in Mutex : OSEventPtr[n] = v => n = k
        BY <3>1, <1>o DEF OwnOK
      <3>3. /\ OSEventCnt'[k] \in Own /\ OSTCBPrioTbl'[OSEventCnt'[k]] = v
            /\ OSTCBPrio'[v] \in {k, OSEventCnt'[k]}
        BY <2>2, <3>1, <3>2, <1>e, <1>p DEF Own
      <3>4. ~Waits(v)' /\ pc'[v] \notin {"mutexPend", "mutexAccept"}
        BY <3>1, <3>2, <1>w, <1>x
      <3>5. \A n \in Mutex : OSEventPtr'[n] = v => n = k
        BY <3>1, <3>2, <1>e
      <3> QED
        BY <3>1, <3>3, <3>4, <3>5
    <2> QED
      BY <2>1, <2>2
  <1>5. WaitOK'
    <2>1. WaitOK!1'
      <3> SUFFICES ASSUME NEW e \in Event, NEW q \in OSEventTbl'[e]
                   PROVE  /\ OSTCBPrioTbl'[q] \in Tcb
                          /\ OSTCBPrio'[OSTCBPrioTbl'[q]] = q
                          /\ OSTCBEventPtr'[OSTCBPrioTbl'[q]] = e
        BY DEF WaitOK
      <3>1. q \in OSEventTbl[e] /\ q \notin S /\ q # OSTCBPrio[t]
        BY <1>w, <1>l
      <3>2. OSTCBPrioTbl[q] # own
        BY <3>1, <1>h DEF WaitOK
      <3> QED
        BY <3>1, <3>2, <1>q, <1>w DEF WaitOK, TypeOK
    <2>2. ASSUME NEW u \in Tcb PROVE WaitOK!2!(u)'
      <3>1. CASE u = own
        BY <3>1, <1>w, <1>x, <1>s DEF WaitOK
      <3>2. CASE u = t
        BY <3>2, <1>w, <1>x, <1>s, <1>k DEF WaitOK
      <3>3. CASE u \notin {own, t}
        <4>1. OSTCBPrio[u] \notin S
          BY <3>3, <1>s
        <4> QED
          BY <3>3, <4>1, <1>w, <1>x, <1>p DEF WaitOK
      <3> QED
        BY <3>1, <3>2, <3>3
    <2> QED
      BY <2>1, <2>2 DEF WaitOK
  <1>6. ReadyOK'
    <2>1. \A q \in OSRdyTbl' : OSTCBPrioTbl'[q] \in Tcb
              /\ OSTCBPrio'[OSTCBPrioTbl'[q]] = q
      <3> SUFFICES ASSUME NEW q \in OSRdyTbl'
                   PROVE  OSTCBPrioTbl'[q] \in Tcb /\ OSTCBPrio'[OSTCBPrioTbl'[q]] = q
        OBVIOUS
      <3>1. CASE q = c
        BY <3>1, <1>o, <1>p
      <3>2. CASE q # c /\ q \in OSRdyTbl \ {m}
        BY <3>2, <1>o, <1>q DEF ReadyOK, TypeOK
      <3>3. CASE q \in S
        BY <3>3, <1>h, <1>s, <1>q DEF TypeOK
      <3> QED
        BY <3>1, <3>2, <3>3, <1>w
    <2>2. ASSUME NEW u \in Tcb
          PROVE  OSTCBPrio'[u] \in OSRdyTbl' <=> OSTCBStat'[u] = {} /\ OSTCBDly'[u] = 0
      <3>1. CASE u = t
        BY <3>1, <1>k, <1>p, <1>w, <1>s DEF ReadyOK
      <3>2. CASE u = own
        BY <3>2, <1>d, <1>h, <1>p, <1>w, <1>s DEF ReadyOK
      <3>3. CASE u \notin {t, own}
        <4>1. OSTCBPrio[u] \notin S
          BY <3>3, <1>s
        <4> QED
          BY <3>3, <4>1, <1>d, <1>p, <1>w DEF ReadyOK
      <3> QED
        BY <3>1, <3>2, <3>3
    <2> QED
      BY <2>1, <2>2 DEF ReadyOK
  <1>7. IdleOK'
    BY <1>o, <1>s, <1>w, <1>x, <1>e, <1>p DEF IdleOK
  <1>8. CallOK'
    <2>1. \A s \in Sem : OSEventCnt'[s] = OSEventCnt[s]
      BY <1>e
    <2>2. \A k \in Mutex : OSTCBPrioTbl[k] = Reserved => OSTCBPrioTbl'[k] = Reserved
      BY <1>p
    <2> QED
      BY <1>f, <1>x, <2>1, <2>2 DEF CallOK, MutexCalls
  <1>9. CurOK'
    <2>1. OSPrioCur # OSTCBPrio[t]
              => OSPrioCur \in Mutex /\ OSEventPtr[OSPrioCur] \in {None, t}
                                      /\ \A v \in Tcb : OSTCBPrio[v] # OSPrioCur
      BY <1>k DEF CurOK
    <2>2. OSPrioCur = c \/ \A v \in Tcb : OSTCBPrio'[v] # OSPrioCur
      BY <2>1, <1>o, <1>d, <1>p
    <2>3. c \in OSRdyTbl'
      BY <1>w
    <2>4. pc'[t] = "sched" \/ own = None
      BY <1>h
    <2> QED
      BY <2>1, <2>2, <2>3, <2>4, <1>f, <1>k, <1>o, <1>p, <1>e, <1>x
         DEF CurOK, OnlyReadyRuns
  <1> QED
    BY <1>1, <1>2, <1>3, <1>4, <1>5, <1>6, <1>7, <1>8, <1>9


(* A step that leaves every variable as it is. *)
LEMMA StutterStep ==
  ASSUME IInv, UNCHANGED vars PROVE IInv'
  BY DEF IInv, vars, cpuVars, prioVars, tcbVars, evtVars, TypeOK, PrioOK, FreeOK, OwnOK,
         WaitOK, Waits, InPend, ReadyOK, IdleOK, CallOK, CurOK, OnlyReadyRuns

(* So does every step, and IInv always holds. *)
LEMMA NextIInv ==
  ASSUME IInv, Allowed \subseteq {"changeWaiter"}, [Next]_vars
  PROVE  IInv'
  <1>1. CASE UNCHANGED vars
    BY <1>1, StutterStep
  <1>2. CASE Tick
    BY <1>2, TickStep
  <1>3. CASE \E t \in Tcb : InCall(t)
    BY <1>3, SchedStep, PendedStep, TakeStep, AcceptNoneStep, PostStep, PostRefusedStep,
       CreateStep, WaitStep, DelStep DEF InCall
  <1>4. CASE \E t \in Tcb : AppCall(t)
    BY <1>4, CallStep, ReserveStep, SemPostStep, SemPendStep, DlyStep, SuspendStep,
       ResumeStep, ChangePrioStep DEF AppCall
  <1> QED
    BY <1>1, <1>2, <1>3, <1>4 DEF Next

LEMMA IInvAlways == ASSUME Allowed \subseteq {"changeWaiter"} PROVE Spec => []IInv
  <1>1. IInv /\ [Next]_vars => IInv'
    BY NextIInv
  <1> QED
    BY <1>1, InitIInv, PTL DEF Spec

(* The types of all variables: in particular OSTCBPrioTbl yields a task     *)
(* whenever OS_Sched() reads the entry of the most urgent ready priority.  *)
THEOREM MutexType == ASSUME Allowed \subseteq {"changeWaiter"} PROVE Spec => []TypeOK
  BY IInvAlways, PTL DEF IInv

(* Every priority in a wait list is that of a task inside a pend on that   *)
(* event: a post, which readies the owner of the priority, wakes a waiter. *)
(* Priorities may change by inheritance and by OSTaskChangePrio of any     *)
(* task that owns no mutex, of a waiter too, but for one that timed out    *)
(* and has not run: OSTaskChangePrio leaves its old bit (os_task.c:94).    *)
THEOREM MutexWaitersListed == ASSUME Allowed \subseteq {"changeWaiter"} PROVE Spec => []WaitListed
  <1>1. IInv => WaitListed
    <2> SUFFICES ASSUME IInv, NEW e \in Event, NEW p \in OSEventTbl[e]
                 PROVE  \E t \in Tcb : /\ OSTCBPrio[t] = p /\ OSTCBPrioTbl[p] = t
                                       /\ pc[t] \in {"schedPend", "pended"}
                                       /\ arg[t] = e
      BY DEF WaitListed, IInv
    <2>1. PICK t \in Tcb : OSTCBPrio[t] = p /\ OSTCBPrioTbl[p] = t
      BY DEF IInv, WaitOK
    <2> QED
      BY <2>1, Listed DEF InPend
  <1> QED
    BY <1>1, IInvAlways, PTL

(* A priority raised to a PIP ends with the ownership of that mutex, as    *)
(* long as no mutex is deleted while it is owned.                          *)
THEOREM RaisedWhileOwner == ASSUME Allowed \subseteq {"changeWaiter"} PROVE Spec => []RaisedOnlyOwner
  <1>1. IInv => RaisedOnlyOwner
    <2> SUFFICES ASSUME IInv, NEW t \in Tcb, OSTCBPrio[t] \in Mutex
                 PROVE  OSTCBPrio[t] \in Owned(t)
      BY DEF RaisedOnlyOwner
    <2>1. OSEventPtr[OSTCBPrio[t]] = t /\ t # None
      BY MutexAssumption DEF IInv, PrioOK
    <2>2. OSEventType[OSTCBPrio[t]] \in {"MUTEX", "SEM", "UNUSED"}
      BY DEF IInv, TypeOK, Event
    <2> QED
      BY <2>1, <2>2 DEF IInv, FreeOK, Owned
  <1> QED
    BY <1>1, IInvAlways, PTL

(* The task that has the CPU is ready, unless it is on its way to OS_Sched() *)
(* - also after inheritance or OSTaskChangePrio renamed it; not, which the   *)
(* hypothesis leaves out, after it was suspended under a former priority.    *)
THEOREM MutexOnlyReadyRuns == ASSUME Allowed \subseteq {"changeWaiter"} PROVE Spec => []OnlyReadyRuns
  BY IInvAlways, PTL DEF IInv, CurOK

-----------------------------------------------------------------------------
(* What OSMutexPend does to the owner and to the wait lists when it blocks. *)
LEMMA WaitChanges ==
  ASSUME IInv, NEW t \in Tcb, NEW n \in Timeout, MutexWait(t, n)
  PROVE  \E m \in Mutex, o \in Tcb :
           /\ OSEventPtr[m] = o /\ o # t /\ OSEventPtr' = OSEventPtr
           /\ \A v \in Tcb : v # o => OSTCBPrio'[v] = OSTCBPrio[v]
           /\ OSEventTbl' = [OSEventTbl EXCEPT ![m] = @ \cup {OSTCBPrio[t]}]
           /\ \/ OSTCBPrio'[o] = m
              \/ OSTCBPrio'[o] = OSTCBPrio[o] /\ OSTCBPrio[o] <= OSTCBPrio[t]
  <1> USE MutexAssumption DEF MutexWait, At, Goto, evtVars
  <1>1. PICK m \in Mutex : m = arg[t] /\ OSEventType[m] = "MUTEX" /\ pc[t] = "mutexPend"
    BY DEF IInv, CallOK, MutexCalls
  <1>2. PICK o \in Tcb : /\ o = OSEventPtr[m] /\ o # t /\ ~Waits(o)
                         /\ OSTCBPrio[o] \in {m, OSEventCnt[m]}
    <2>1. OSEventPtr[m] # None
      BY <1>1 DEF IInv, FreeOK
    <2> QED
      BY <2>1, <1>1 DEF IInv, OwnOK, TypeOK, Event
  <1>3. CASE Raises(t, m)
    <2>1. /\ OSTCBPrio' = [OSTCBPrio EXCEPT ![o] = m]
          /\ OSEventTbl' = [MovedWait(o, m) EXCEPT ![m] = @ \cup {OSTCBPrio[t]}]
      BY <1>1, <1>2, <1>3 DEF EventTaskWait
    <2>2. MovedWait(o, m) = OSEventTbl
      BY <1>2 DEF MovedWait, IInv, WaitOK
    <2> QED
      BY <1>2, <2>1, <2>2 DEF IInv, TypeOK
  <1>4. CASE ~Raises(t, m)
    <2>1. /\ OSTCBPrio' = OSTCBPrio
          /\ OSEventTbl' = [OSEventTbl EXCEPT ![m] = @ \cup {OSTCBPrio[t]}]
      BY <1>1, <1>4 DEF EventTaskWait, prioVars
    <2>2. OSTCBPrio[o] \in Nat /\ OSTCBPrio[t] \in Nat
      BY DEF IInv, TypeOK, Prio
    <2>3. OSTCBPrio[o] # m => OSTCBPrio[o] <= OSTCBPrio[t]
      BY <1>2, <1>4, <2>2 DEF Raises
    <2> QED
      BY <1>2, <2>1, <2>3
  <1> QED
    BY <1>3, <1>4

(* What OSMutexPost does to the owners and to the wait lists. *)
LEMMA PostChanges ==
  ASSUME IInv, NEW t \in Tcb, MutexPost(t)
  PROVE  \E m \in Mutex :
           /\ OSEventPtr[m] = t
           /\ \A k \in Mutex : k # m => /\ OSEventPtr'[k] = OSEventPtr[k]
                                        /\ OSEventPtr[k] # t
                                       /\ OSEventTbl'[k] = OSEventTbl[k]
           /\ \A v \in Tcb : v # t => OSTCBPrio'[v] = OSTCBPrio[v]
           /\ \A e \in Event : {OSTCBPrio[t], OSTCBPrio'[t]} \cap OSEventTbl[e] = {}
           /\ \/ OSEventTbl[m] = {} /\ OSEventTbl'[m] = {} /\ OSEventPtr'[m] = None
              \/ \E u \in Tcb : /\ u # t /\ OSTCBPrio[u] \in OSEventTbl[m]
                                /\ \A q \in OSEventTbl[m] : OSTCBPrio[u] <= q
                                /\ OSEventPtr'[m] = u
                                /\ OSEventTbl'[m] = OSEventTbl[m] \ {OSTCBPrio[u]}
  <1> USE MutexAssumption DEF MutexPost, At, Event
  <1>1. PICK m \in Mutex : m = arg[t] /\ OSEventPtr[m] = t
    BY DEF IInv, CallOK, MutexCalls
  <1>2. /\ OSEventCnt[m] \in Own /\ OSTCBPrioTbl[OSEventCnt[m]] = t
        /\ OSTCBPrio[t] \in {m, OSEventCnt[m]} /\ ~Waits(t)
        /\ \A k \in Mutex : OSEventPtr[k] = t => k = m
    BY <1>1 DEF IInv, OwnOK
  <1>3. OSTCBPrio'[t] = OSEventCnt[m] /\ \A v \in Tcb : v # t
            => OSTCBPrio'[v] = OSTCBPrio[v]
    BY <1>1, <1>2 DEF Lowered, IInv, TypeOK
  <1>4. \A e \in Event : {OSTCBPrio[t], OSTCBPrio'[t]} \cap OSEventTbl[e] = {}
    <2>1. \A e \in Event : OSTCBPrio[t] \notin OSEventTbl[e]
      BY <1>2, Listed
    <2> QED
      BY <2>1, <1>2, <1>3 DEF IInv, WaitOK
  <1>5. CASE OSEventTbl[m] = {}
    <2>1. OSEventTbl' = OSEventTbl /\ OSEventPtr' = [OSEventPtr EXCEPT ![m] = None]
      BY <1>1, <1>5
    <2> QED
      BY <2>1, <1>1, <1>2, <1>3, <1>4, <1>5 DEF IInv, TypeOK
  <1>6. CASE OSEventTbl[m] # {}
    <2>1. PICK h \in OSEventTbl[m] : /\ h = NextOwner(m)
                                     /\ \A q \in OSEventTbl[m] : h <= q
      BY <1>6, HighestIn DEF NextOwner, IInv, TypeOK
    <2>2. PICK u \in Tcb : OSTCBPrioTbl[h] = u /\ OSTCBPrio[u] = h
      BY DEF IInv, WaitOK
    <2>3. u # t /\ h \in Own /\ h \in Prio
      BY <1>4, <2>2, Listed DEF Own, Prio
    <2>4. OSTCBPrioTbl'[h] = u
      BY <1>1, <1>4, <1>3, <2>2, <2>3 DEF Lowered, Own, IInv, TypeOK
    <2>5. /\ OSEventTbl' = [OSEventTbl EXCEPT ![m] = @ \ {h}]
          /\ OSEventPtr' = [OSEventPtr EXCEPT ![m] = u]
      BY <1>1, <1>6, <2>1, <2>4 DEF EventTaskRdy, Owns
    <2> QED
      BY <2>1, <2>2, <2>3, <2>5, <1>1, <1>2, <1>3, <1>4 DEF IInv, TypeOK
  <1> QED
    BY <1>5, <1>6

(* A step that changes nothing of the mutexes: neither an owner or a wait  *)
(* list, nor the priority of an owner, nor whose priorities are listed.    *)
Quiet ==
  \A m \in Mutex :
    /\ OSEventPtr'[m] = OSEventPtr[m] /\ OSEventTbl'[m] = OSEventTbl[m]
    /\ \A t \in Tcb : OSTCBPrio'[t] \in OSEventTbl[m] <=> OSTCBPrio[t] \in OSEventTbl[m]
    /\ OSEventPtr[m] # None => OSTCBPrio'[OSEventPtr[m]] = OSTCBPrio[OSEventPtr[m]]

(* OSTaskChangePrio renames a waiter in its wait list: who waits for which *)
(* mutex stays as it was.                                                  *)
LEMMA ChangePrioKeepsWaiting ==
  ASSUME IInv, Allowed \subseteq {"changeWaiter"}, NEW t \in Tcb,
         NEW p \in Tcb \cup NewPrio, NEW q \in NewPrio,
         OSTaskChangePrio(t, p, q)
  PROVE  /\ OSEventPtr' = OSEventPtr
         /\ \A m \in Mutex, v \in Tcb :
              OSTCBPrio'[v] \in OSEventTbl'[m] <=> OSTCBPrio[v] \in OSEventTbl[m]
  <1>1. PICK u \in Tcb : /\ u = OSTCBPrioTbl[p] /\ ~OSTCBPendTO[u] /\ Owned(u) = {}
                         /\ OSTCBPrioTbl[q] = None /\ OSEventPtr' = OSEventPtr
                         /\ OSTCBPrio' = [OSTCBPrio EXCEPT ![u] = q]
                         /\ OSEventTbl' = MovedWait(u, q)
    BY DEF OSTaskChangePrio, evtVars
  <1>2. OSTCBPrio[u] = p /\ p # q
    <2>1. \A m \in Mutex : OSEventPtr[m] # u
      BY <1>1, MutexAssumption DEF Owned, IInv, FreeOK, TypeOK, Event
    <2> QED
      BY <2>1, <1>1, MutexAssumption DEF IInv, PrioOK, Prio
  <1>3. /\ OSTCBPrio'[u] = q
        /\ \A v \in Tcb : v # u
             => OSTCBPrio'[v] = OSTCBPrio[v] /\ OSTCBPrio[v] \notin {p, q}
    BY <1>1, <1>2, MutexAssumption DEF IInv, TypeOK, PrioOK, Prio
  <1>4. \A m \in Mutex : q \notin OSEventTbl[m]
    BY <1>1, MutexAssumption DEF IInv, WaitOK, Event
  <1>5. \A m \in Mutex : p \in OSEventTbl[m] <=> OSTCBEventPtr[u] = m
    BY <1>1, <1>2, Listed, MutexAssumption DEF IInv, WaitOK, Event
  <1>6. CASE OSTCBEventPtr[u] = None
    <2>1. OSEventTbl' = OSEventTbl
      BY <1>1, <1>6 DEF MovedWait
    <2>2. \A m \in Mutex : p \notin OSEventTbl[m]
      BY <1>5, <1>6, MutexAssumption
    <2>3. ASSUME NEW m \in Mutex, NEW v \in Tcb
          PROVE  OSTCBPrio'[v] \in OSEventTbl'[m] <=> OSTCBPrio[v] \in OSEventTbl[m]
      <3>1. CASE v = u
        BY <3>1, <2>1, <2>2, <1>2, <1>3, <1>4
      <3>2. CASE v # u
        BY <3>2, <2>1, <1>3
      <3> QED
        BY <3>1, <3>2
    <2> QED
      BY <2>3, <1>1
  <1>7. CASE OSTCBEventPtr[u] # None
    <2>1. p \notin OSRdyTbl
      BY <1>1, <1>2, <1>7 DEF IInv, WaitOK, ReadyOK, Waits
    <2>2. PICK e \in Event : e = OSTCBEventPtr[u]
      BY <1>7 DEF IInv, TypeOK
    <2>3. OSEventTbl' = [OSEventTbl EXCEPT ![e] = (@ \ {p}) \cup {q}]
      BY <1>1, <1>2, <1>7, <2>1, <2>2 DEF MovedWait
    <2>4. \A m \in Mutex : OSEventTbl'[m] =
            IF m = e THEN (OSEventTbl[m] \ {p}) \cup {q} ELSE OSEventTbl[m]
      BY <2>3 DEF IInv, TypeOK, Event
    <2>5. ASSUME NEW m \in Mutex, NEW v \in Tcb
          PROVE  OSTCBPrio'[v] \in OSEventTbl'[m] <=> OSTCBPrio[v] \in OSEventTbl[m]
      <3>1. CASE v = u /\ m = e
        BY <3>1, <2>2, <2>4, <1>2, <1>3, <1>5
      <3>2. CASE v = u /\ m # e
        BY <3>2, <2>2, <2>4, <1>2, <1>3, <1>4, <1>5
      <3>3. CASE v # u /\ m = e
        <4>1. OSTCBPrio'[v] = OSTCBPrio[v] /\ OSTCBPrio[v] # p /\ OSTCBPrio[v] # q
          BY <3>3, <1>3
        <4>2. OSEventTbl'[m] = (OSEventTbl[m] \ {p}) \cup {q}
          BY <3>3, <2>4
        <4> QED
          BY <4>1, <4>2
      <3>4. CASE v # u /\ m # e
        BY <3>4, <2>4, <1>3
      <3> QED
        BY <3>1, <3>2, <3>3, <3>4
    <2> QED
      BY <2>5, <1>1
  <1> QED
    BY <1>6, <1>7

(* Of a task that waits for no mutex it moves no wait list at all. *)
LEMMA ChangePrioQuiet ==
  ASSUME IInv, Allowed = {}, NEW t \in Tcb, NEW p \in Tcb \cup NewPrio,
         NEW q \in NewPrio,
         OSTaskChangePrio(t, p, q)
  PROVE  Quiet
  <1> USE MutexAssumption DEF OSTaskChangePrio, Event, evtVars
  <1>1. PICK u \in Tcb : /\ u = OSTCBPrioTbl[p] /\ ~OSTCBPendTO[u]
                         /\ "MUTEX" \notin OSTCBStat[u]
                         /\ Owned(u) = {} /\ OSTCBPrio' = [OSTCBPrio EXCEPT ![u] = q]
                         /\ OSEventTbl' = MovedWait(u, q) /\ OSTCBPrioTbl[q] = None
    OBVIOUS
  <1>2. \A m \in Mutex : OSEventPtr[m] # u
    BY <1>1 DEF Owned, IInv, FreeOK, TypeOK
  <1>3. \A m \in Mutex : OSTCBEventPtr[u] # m
    <2> SUFFICES ASSUME OSTCBEventPtr[u] \in Mutex PROVE FALSE
      OBVIOUS
    <2>1. OSTCBEventPtr[u] # None /\ OSTCBEventPtr[u] \notin Sem
      OBVIOUS
    <2>2. Waits(u) /\ OSTCBStat[u] \cap Pend \subseteq {"MUTEX"}
      BY <2>1 DEF IInv, WaitOK, Kind
    <2> QED
      BY <1>1, <2>2 DEF Waits
  <1>4. \A m \in Mutex : OSEventTbl'[m] = OSEventTbl[m]
    <2>1. CASE OSTCBEventPtr[u] = None
      BY <1>1, <2>1 DEF MovedWait
    <2>2. CASE OSTCBEventPtr[u] # None
      BY <1>1, <1>3, <2>2 DEF MovedWait, IInv, TypeOK
    <2> QED
      BY <2>1, <2>2
  <1>5. \A m \in Mutex : OSTCBPrio[u] \notin OSEventTbl[m] /\ q \notin OSEventTbl[m]
    BY <1>1, <1>3, Listed DEF IInv, WaitOK
  <1>6. /\ OSEventPtr' = OSEventPtr /\ OSTCBPrio'[u] = q
        /\ \A v \in Tcb : v # u => OSTCBPrio'[v] = OSTCBPrio[v]
    BY <1>1 DEF IInv, TypeOK
  <1> QED
    BY <1>2, <1>4, <1>5, <1>6 DEF Quiet, IInv, TypeOK

(* A mutex that is deleted has no owner and no waiter. *)
LEMMA DelQuiet ==
  ASSUME IInv, Allowed \subseteq {"changeWaiter"}, NEW t \in Tcb,
         NEW opt \in DelOpts, MutexDel(t, opt)
  PROVE  Quiet
  <1> USE MutexAssumption DEF MutexDel, At, Event, evtVars
  <1>1. PICK m \in Mutex : m = arg[t] /\ OSEventPtr[m] = None /\ OSEventTbl[m] = {}
    BY DEF IInv, CallOK, FreeOK, MutexCalls
  <1>2. OSEventTbl' = OSEventTbl /\ OSEventPtr' = OSEventPtr /\ OSTCBPrio' = OSTCBPrio
    <2>1. CASE OSEventTbl' = OSEventTbl /\ OSEventPtr' = OSEventPtr
      BY <2>1
    <2>2. CASE /\ OSEventTbl' = [OSEventTbl EXCEPT ![m] = @ \ {}]
               /\ OSEventPtr' = [OSEventPtr EXCEPT ![m] = None]
      BY <2>2, <1>1 DEF IInv, TypeOK
    <2> QED
      BY <2>1, <2>2, <1>1 DEF EventTaskRdy
  <1> QED
    BY <1>2 DEF Quiet

(* A mutex that is created had none either. *)
LEMMA CreateQuiet ==
  ASSUME IInv, NEW t \in Tcb, MutexCreate(t) PROVE Quiet
  <1> USE MutexAssumption DEF MutexCreate, At, Event, prioVars
  <1>1. PICK m \in Mutex : m = arg[t] /\ OSEventPtr[m] = None /\ OSEventTbl[m] = {}
    BY DEF IInv, CallOK, FreeOK
  <1>2. OSEventTbl' = OSEventTbl /\ OSEventPtr' = OSEventPtr /\ OSTCBPrio' = OSTCBPrio
    BY <1>1 DEF IInv, TypeOK
  <1> QED
    BY <1>2 DEF Quiet

(* The lists of the semaphores are not those of the mutexes. *)
LEMMA SemQuiet ==
  ASSUME IInv, NEW t \in Tcb, NEW s \in Sem,
         SemPost(t, s) \/ \E n \in Timeout : SemPend(t, s, n)
  PROVE  Quiet
  <1>1. OSTCBPrio' = OSTCBPrio /\ OSEventPtr' = OSEventPtr
    BY DEF SemPost, SemPend, prioVars
  <1>2. \A m \in Mutex : OSEventTbl'[m] = OSEventTbl[m]
    BY MutexAssumption
       DEF SemPost, SemPend, EventTaskRdy, EventTaskWait, IInv, TypeOK, Event
  <1> QED
    BY <1>1, <1>2 DEF Quiet

(* Steps that are quiet because they write none of these. *)
LEMMA UnchangedQuiet ==
  ASSUME UNCHANGED <<OSTCBPrio, OSEventTbl, OSEventPtr>> PROVE Quiet
  BY DEF Quiet

(* Every step is quiet but the five that move a mutex or its waiters. *)
LEMMA QuietOrNot ==
  ASSUME IInv, Allowed \subseteq {"changeWaiter"}, [Next]_vars
  PROVE  \/ Quiet
         \/ \E t \in Tcb, p \in Tcb \cup NewPrio, q \in NewPrio : OSTaskChangePrio(t, p, q)
         \/ \E t \in Tcb : \/ Pended(t) \/ MutexTake(t) \/ MutexPost(t)
                           \/ \E n \in Timeout : MutexWait(t, n)
  <1> USE UnchangedQuiet DEF vars, prioVars, evtVars
  <1>1. CASE UNCHANGED vars
    BY <1>1
  <1>2. CASE Tick
    BY <1>2 DEF Tick
  <1>3. CASE \E t \in Tcb : InCall(t)
    BY <1>3, CreateQuiet, DelQuiet
       DEF InCall, OS_Sched, MutexAcceptNone, MutexPostRefused
  <1>4. ASSUME NEW t \in Tcb, AppCall(t)
        PROVE  \/ Quiet
               \/ \E p \in Tcb \cup NewPrio, q \in NewPrio : OSTaskChangePrio(t, p, q)
    <2>1. CASE \E f \in MutexCalls, m \in Mutex : MutexCall(t, f, m)
      BY <2>1 DEF MutexCall
    <2>2. CASE \E m \in Mutex : MutexReserve(t, m)
      BY <2>2 DEF MutexReserve
    <2>3. CASE \E s \in Sem : SemPost(t, s) \/ \E n \in Timeout : SemPend(t, s, n)
      BY <2>3, SemQuiet
    <2>4. CASE \E n \in 1 .. MaxDly : OSTimeDly(t, n)
      BY <2>4 DEF OSTimeDly
    <2>5. CASE \E p \in MaySuspend : OSTaskSuspend(t, p) \/ OSTaskResume(t, p)
      BY <2>5 DEF OSTaskSuspend, OSTaskResume
    <2> QED
      BY <1>4, <2>1, <2>2, <2>3, <2>4, <2>5 DEF AppCall
  <1> QED
    BY <1>1, <1>2, <1>3, <1>4 DEF Next

-----------------------------------------------------------------------------
(* OSMutexCreate's comment asks for a PIP more urgent than every task that *)
(* uses the mutex (os_mutex.c:108).                                        *)
PipsMostUrgent == \A m \in Mutex, p \in Own : m < p

(* Every step preserves Inheritance. *)
LEMMA InheritanceStep ==
  ASSUME IInv, Allowed = {}, PipsMostUrgent, Inheritance, [Next]_vars
  PROVE  Inheritance'
  <1> USE MutexAssumption DEF Inheritance
  <1>1. CASE Quiet
    BY <1>1 DEF Quiet
  <1>2. ASSUME NEW t \in Tcb, Pended(t) PROVE Inheritance'
    <2>1. UNCHANGED <<OSTCBPrio, OSEventPtr>>
      BY <1>2 DEF Pended, prioVars, evtVars
    <2>2. \A m \in Mutex : OSEventTbl'[m] \subseteq OSEventTbl[m]
      BY <1>2 DEF Pended, Unlisted, IInv, TypeOK, Event
    <2> QED
      BY <2>1, <2>2
  <1>3. ASSUME NEW t \in Tcb, MutexTake(t) PROVE Inheritance'
    <2>1. PICK m \in Mutex : m = arg[t] /\ OSEventTbl[m] = {}
      BY <1>3 DEF MutexTake, At, IInv, CallOK, FreeOK, MutexCalls
    <2>2. /\ OSEventPtr' = [OSEventPtr EXCEPT ![m] = t]
          /\ UNCHANGED <<OSTCBPrio, OSEventTbl>>
      BY <1>3, <2>1 DEF MutexTake, Owns, prioVars
    <2> QED
      BY <2>1, <2>2 DEF IInv, TypeOK, Event
  <1>4. ASSUME NEW t \in Tcb, NEW n \in Timeout, MutexWait(t, n) PROVE Inheritance'
    <2>1. PICK m \in Mutex, o \in Tcb :
            /\ OSEventPtr[m] = o /\ o # t /\ OSEventPtr' = OSEventPtr
            /\ \A v \in Tcb : v # o => OSTCBPrio'[v] = OSTCBPrio[v]
            /\ OSEventTbl' = [OSEventTbl EXCEPT ![m] = @ \cup {OSTCBPrio[t]}]
            /\ \/ OSTCBPrio'[o] = m
               \/ OSTCBPrio'[o] = OSTCBPrio[o] /\ OSTCBPrio[o] <= OSTCBPrio[t]
      BY <1>4, WaitChanges
    <2>2. OSTCBPrio[t] \in Own
      <3>1. \A k \in Mutex : OSEventPtr[k] # t
        BY <1>4 DEF MutexWait, At, IInv, OwnOK
      <3> QED
        BY <3>1 DEF IInv, PrioOK, TypeOK, Prio, Own
    <2>3. \A p \in OSEventTbl[m] : p \in Own
      BY Listed DEF IInv, WaitOK, Event
    <2>4. \A k \in Mutex : OSEventPtr[k] = o => k = m
      BY <2>1 DEF IInv, OwnOK
    <2> SUFFICES ASSUME NEW k \in Mutex, NEW p \in OSEventTbl'[k]
                 PROVE  OSEventPtr'[k] # None /\ OSTCBPrio'[OSEventPtr'[k]] <= p
      OBVIOUS
    <2>5. CASE k = m
      <3>1. m <= p
        BY <2>1, <2>2, <2>3, <2>5 DEF PipsMostUrgent, Own, IInv, TypeOK, Event
      <3>2. p \in OSEventTbl[m] \/ p = OSTCBPrio[t]
        BY <2>1, <2>5 DEF IInv, TypeOK, Event
      <3> QED
        BY <2>1, <2>5, <3>1, <3>2
    <2>6. CASE k # m
      <3>1. p \in OSEventTbl[k]
        BY <2>1, <2>6 DEF IInv, TypeOK, Event
      <3>2. PICK v \in Tcb : v = OSEventPtr[k] /\ v # o
        BY <3>1, <2>4, <2>6 DEF IInv, TypeOK, Event
      <3> QED
        BY <2>1, <3>1, <3>2
    <2> QED
      BY <2>5, <2>6
  <1>5. ASSUME NEW t \in Tcb, MutexPost(t) PROVE Inheritance'
    <2>1. PICK m \in Mutex :
           /\ OSEventPtr[m] = t
           /\ \A k \in Mutex : k # m => /\ OSEventPtr'[k] = OSEventPtr[k]
                                        /\ OSEventPtr[k] # t
                                       /\ OSEventTbl'[k] = OSEventTbl[k]
           /\ \A v \in Tcb : v # t => OSTCBPrio'[v] = OSTCBPrio[v]
           /\ \/ OSEventTbl[m] = {} /\ OSEventTbl'[m] = {} /\ OSEventPtr'[m] = None
              \/ \E u \in Tcb : /\ u # t /\ OSTCBPrio[u] \in OSEventTbl[m]
                                /\ \A q \in OSEventTbl[m] : OSTCBPrio[u] <= q
                                /\ OSEventPtr'[m] = u
                                /\ OSEventTbl'[m] = OSEventTbl[m] \ {OSTCBPrio[u]}
      BY <1>5, PostChanges
    <2>2. ASSUME NEW p \in OSEventTbl'[m]
          PROVE  OSEventPtr'[m] # None /\ OSTCBPrio'[OSEventPtr'[m]] <= p
      BY <2>1
    <2>3. ASSUME NEW k \in Mutex, k # m, NEW p \in OSEventTbl'[k]
          PROVE  OSEventPtr'[k] # None /\ OSTCBPrio'[OSEventPtr'[k]] <= p
      BY <2>1, <2>3 DEF IInv, TypeOK, Event
    <2> QED
      BY <2>2, <2>3
  <1>6. ASSUME NEW t \in Tcb, NEW p \in Tcb \cup NewPrio, NEW q \in NewPrio,
               OSTaskChangePrio(t, p, q)
        PROVE  Inheritance'
    BY <1>1, <1>6, ChangePrioQuiet
  <1> QED
    BY <1>1, <1>2, <1>3, <1>4, <1>5, <1>6, QuietOrNot

(* Priority inheritance: the owner of a mutex is at least as urgent as     *)
(* every task in its wait list, also after a timeout took the most urgent  *)
(* waiter away, a post handed the mutex on or a waiter arrived late - as   *)
(* long as OSTaskChangePrio leaves alone the tasks that wait for a mutex:  *)
(* it does not raise the owner again (README, 7).                          *)
THEOREM OwnerInherits ==
  ASSUME Allowed = {}, PipsMostUrgent PROVE Spec => []Inheritance
  <1>0. Spec => []IInv
    BY IInvAlways
  <1>1. Init => Inheritance
    BY DEF Init, Inheritance, Event
  <1>2. IInv /\ Inheritance /\ [Next]_vars => Inheritance'
    BY InheritanceStep
  <1> QED
    BY <1>0, <1>1, <1>2, PTL DEF Spec

-----------------------------------------------------------------------------
(* Every step is a step of MutexLock or leaves the lock as it is. *)
LEMMA LockStep ==
  ASSUME IInv, IInv', Allowed \subseteq {"changeWaiter"}, [Next]_vars
  PROVE  [Lock!Next]_(Lock!vars)
  <1> USE MutexAssumption DEF Lock!vars, Owner, Waiting
  <1>1. CASE Quiet
    BY <1>1 DEF Quiet
  <1>2. ASSUME NEW t \in Tcb, Pended(t) PROVE [Lock!Next]_(Lock!vars)
    <2>1. UNCHANGED <<OSTCBPrio, OSEventPtr>>
      BY <1>2 DEF Pended, prioVars, evtVars
    <2>2. CASE ~OSTCBPendTO[t] \/ arg[t] \notin Mutex
      BY <1>2, <2>1, <2>2 DEF Pended, Unlisted, At, IInv, WaitOK, InPend, TypeOK, Event
    <2>3. CASE OSTCBPendTO[t] /\ arg[t] \in Mutex
      <3>1. PICK m \in Mutex : m = arg[t]
        BY <2>3
      <3>2. OSEventTbl' = [OSEventTbl EXCEPT ![m] = @ \ {OSTCBPrio[t]}]
        BY <1>2, <2>3, <3>1 DEF Pended, Unlisted
      <3>3. Waiting' = [Waiting EXCEPT ![m] = @ \ {t}]
        <4>1. \A v \in Tcb : v # t => OSTCBPrio[v] # OSTCBPrio[t]
          BY DEF IInv, PrioOK
        <4>2. \A k \in Mutex, v \in Tcb :
                OSTCBPrio'[v] \in OSEventTbl'[k] <=>
                  OSTCBPrio[v] \in OSEventTbl[k] /\ ~(k = m /\ v = t)
          BY <2>1, <3>2, <4>1 DEF IInv, TypeOK, Event
        <4>3. /\ Waiting'[m] = Waiting[m] \ {t}
              /\ \A k \in Mutex : k # m => Waiting'[k] = Waiting[k]
          BY <4>2
        <4> QED
          BY <4>3
      <3>4. Lock!GiveUp(m, t)
        BY <2>1, <3>3 DEF Lock!GiveUp
      <3> QED
        BY <3>4 DEF Lock!Next
    <2> QED
      BY <2>2, <2>3
  <1>3. ASSUME NEW t \in Tcb, MutexTake(t) PROVE [Lock!Next]_(Lock!vars)
    <2>1. PICK m \in Mutex : m = arg[t] /\ OSEventPtr[m] = None /\ OSEventTbl[m] = {}
      BY <1>3 DEF MutexTake, At, IInv, CallOK, FreeOK, MutexCalls
    <2>2. /\ OSEventPtr' = [OSEventPtr EXCEPT ![m] = t]
          /\ UNCHANGED <<OSTCBPrio, OSEventTbl>>
      BY <1>3, <2>1 DEF MutexTake, Owns, prioVars
    <2>3. Owner' = [Owner EXCEPT ![m] = t]
      BY <2>1, <2>2 DEF IInv, TypeOK, Event
    <2>4. Lock!Acquire(m, t)
      BY <2>1, <2>2, <2>3 DEF Lock!Acquire
    <2> QED
      BY <2>4 DEF Lock!Next
  <1>4. ASSUME NEW t \in Tcb, NEW n \in Timeout, MutexWait(t, n)
            PROVE [Lock!Next]_(Lock!vars)
    <2>1. PICK m \in Mutex, o \in Tcb :
            /\ OSEventPtr[m] = o /\ o # t /\ OSEventPtr' = OSEventPtr
            /\ \A v \in Tcb : v # o => OSTCBPrio'[v] = OSTCBPrio[v]
            /\ OSEventTbl' = [OSEventTbl EXCEPT ![m] = @ \cup {OSTCBPrio[t]}]
      BY <1>4, WaitChanges
    <2>2. \A k \in Mutex : OSTCBPrio[o] \notin OSEventTbl[k]
              /\ OSTCBPrio'[o] \notin OSEventTbl'[k]
      <3>1. \A k \in Mutex : OSTCBPrio[o] \notin OSEventTbl[k]
        BY <2>1, Listed DEF Event
      <3>2. \A k \in Mutex : (OSTCBPrio[o] \notin OSEventTbl[k])'
        <4>1. OSEventPtr'[m] = o
          BY <2>1
        <4> QED
          BY <4>1 DEF IInv, OwnOK, WaitOK, PrioOK, Event
      <3> QED
        BY <3>1, <3>2
    <2>3. \A v \in Tcb : v # t => OSTCBPrio[v] # OSTCBPrio[t]
      BY DEF IInv, PrioOK
    <2>4. Waiting' = [Waiting EXCEPT ![m] = @ \cup {t}]
      <3>1. \A k \in Mutex, v \in Tcb :
              OSTCBPrio'[v] \in OSEventTbl'[k] <=>
                OSTCBPrio[v] \in OSEventTbl[k] \/ (k = m /\ v = t)
        BY <2>1, <2>2, <2>3 DEF IInv, TypeOK, Event
      <3>2. /\ Waiting'[m] = Waiting[m] \cup {t}
            /\ \A k \in Mutex : k # m => Waiting'[k] = Waiting[k]
        BY <3>1
      <3> QED
        BY <3>2
    <2>5. Lock!Wait(m, t)
      BY <2>1, <2>4 DEF Lock!Wait
    <2> QED
      BY <2>5 DEF Lock!Next
  <1>5. ASSUME NEW t \in Tcb, MutexPost(t) PROVE [Lock!Next]_(Lock!vars)
    <2>1. PICK m \in Mutex :
           /\ OSEventPtr[m] = t
           /\ \A k \in Mutex : k # m => /\ OSEventPtr'[k] = OSEventPtr[k]
                                        /\ OSEventPtr[k] # t
                                       /\ OSEventTbl'[k] = OSEventTbl[k]
           /\ \A v \in Tcb : v # t => OSTCBPrio'[v] = OSTCBPrio[v]
           /\ \A e \in Event : {OSTCBPrio[t], OSTCBPrio'[t]} \cap OSEventTbl[e] = {}
           /\ \/ OSEventTbl[m] = {} /\ OSEventTbl'[m] = {} /\ OSEventPtr'[m] = None
              \/ \E u \in Tcb : /\ u # t /\ OSTCBPrio[u] \in OSEventTbl[m]
                                /\ \A q \in OSEventTbl[m] : OSTCBPrio[u] <= q
                                /\ OSEventPtr'[m] = u
                                /\ OSEventTbl'[m] = OSEventTbl[m] \ {OSTCBPrio[u]}
      BY <1>5, PostChanges
    <2>2. CASE OSEventTbl[m] = {} /\ OSEventTbl'[m] = {} /\ OSEventPtr'[m] = None
      <3>1. Owner' = [Owner EXCEPT ![m] = None]
        BY <2>1, <2>2
      <3>2. UNCHANGED Waiting
        BY <2>1, <2>2 DEF Event
      <3>3. Lock!Release(m)
        BY <2>1, <2>2, <3>1, <3>2 DEF Lock!Release
      <3> QED
        BY <3>3 DEF Lock!Next
    <2>3. ASSUME NEW u \in Tcb, u # t, OSTCBPrio[u] \in OSEventTbl[m],
                 \A q \in OSEventTbl[m] : OSTCBPrio[u] <= q, OSEventPtr'[m] = u,
                 OSEventTbl'[m] = OSEventTbl[m] \ {OSTCBPrio[u]}
          PROVE  Lock!Release(m)
      <3>1. Owner' = [Owner EXCEPT ![m] = u]
        BY <2>1, <2>3
      <3>2. \A v \in Tcb : v # u => OSTCBPrio[v] # OSTCBPrio[u]
        BY DEF IInv, PrioOK
      <3>3. Waiting' = [Waiting EXCEPT ![m] = @ \ {u}]
        <4>1. \A k \in Mutex, v \in Tcb :
                OSTCBPrio'[v] \in OSEventTbl'[k] <=>
                  OSTCBPrio[v] \in OSEventTbl[k] /\ ~(k = m /\ v = u)
          BY <2>1, <2>3, <3>2 DEF Event
        <4> QED
          BY <4>1
      <3>4. u \in Waiting[m] /\ \A v \in Waiting[m] : OSTCBPrio[u] <= OSTCBPrio[v]
        BY <2>3
      <3> QED
        BY <2>1, <3>1, <3>3, <3>4 DEF Lock!Release
    <2> QED
      BY <2>1, <2>2, <2>3 DEF Lock!Next
  <1>6. ASSUME NEW t \in Tcb, NEW p \in Tcb \cup NewPrio, NEW q \in NewPrio,
               OSTaskChangePrio(t, p, q)
        PROVE  UNCHANGED Lock!vars
    <2>1. UNCHANGED OSEventPtr
      BY <1>6, ChangePrioKeepsWaiting
    <2>2. \A m \in Mutex, v \in Tcb :
            OSTCBPrio'[v] \in OSEventTbl'[m] <=> OSTCBPrio[v] \in OSEventTbl[m]
      BY <1>6, ChangePrioKeepsWaiting
    <2>3. \A m \in Mutex : Waiting'[m] = Waiting[m]
      BY <2>2
    <2> QED
      BY <2>1, <2>3
  <1> QED
    BY <1>1, <1>2, <1>3, <1>4, <1>5, <1>6, QuietOrNot

(* The mutexes implement MutexLock, over pends, posts, timeouts, priorities *)
(* raised by inheritance and priorities of waiters changed by              *)
(* OSTaskChangePrio: one owner at a time, and a release hands the mutex to *)
(* the most urgent waiter in the same step.  The hypothesis leaves out the *)
(* calls named at Allowed: the mutexes do not survive them.                *)
THEOREM MutexesImplement ==
  ASSUME Allowed \subseteq {"changeWaiter"} PROVE Spec => ImplementsLock
  <1>0. Spec => []IInv
    BY IInvAlways
  <1>1. Init => Lock!Init
    BY DEF Init, Lock!Init, Owner, Waiting, Event
  <1>2. IInv /\ IInv' /\ [Next]_vars => [Lock!Next]_(Lock!vars)
    BY LockStep
  <1> QED
    BY <1>0, <1>1, <1>2, PTL DEF Spec, ImplementsLock, Lock!Spec
=============================================================================
