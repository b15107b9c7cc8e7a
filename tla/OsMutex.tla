------------------------------ MODULE OsMutex ------------------------------
(***************************************************************************)
(* The mutexes of src/os_mutex.c with their priority inheritance, and      *)
(* OSTaskChangePrio of src/os_task.c: the part of the kernel where a       *)
(* task's priority changes while it runs, is ready or waits.               *)
(*                                                                         *)
(* Here a task is its TCB, not its priority (as in OsCore): the ready list *)
(* and the wait lists hold priorities, and OSTCBPrioTbl says whose they    *)
(* are.  A TCB is named by the priority its task was created with, a mutex *)
(* by its priority inheritance priority (PIP).  The tick is one step and   *)
(* no other handler runs; OsCore has both in detail.                       *)
(***************************************************************************)
EXTENDS Integers, FiniteSets

CONSTANTS Tcb, Idle,     \* the tasks; the idle task
          Mutex,         \* the mutexes, by their PIP
          Sem,           \* semaphores the tasks may also pend on
          NewPrio,       \* the free priorities OSTaskChangePrio uses
          None, Reserved,    \* the pointers 0 and 1
          Available,     \* OS_MUTEX_AVAILABLE
          MaxDly,        \* bound on the ticks of a delay or a timeout
          Timeout,       \* the timeouts of the pends (0 is none)
          MutexInit,     \* the mutexes that exist when OSStart is called
          MaySuspend,    \* the priorities OSTaskSuspend is called with
          DelOpts,       \* the options of OSMutexDel
          Allowed        \* legal calls the mutexes do not cope with:
\* "deleteOwned": a mutex is deleted while a task owns it;
\* "acceptNested": a task that owns a mutex calls OSMutexAccept of another;
\* "suspendCreated": a raised task suspends itself by its created priority;
\* "changeTimedOut": the priority changes of a task that timed out but has not run yet;
\* "changeWaiter": the priority changes of a task that waits for a mutex
\*   (the owner is not raised again: only Inheritance needs it left out)

ASSUME MutexAssumption ==
  /\ Available \in Nat /\ Tcb \cup Mutex \cup NewPrio \subseteq 0 .. Available - 1
  /\ Idle \in Tcb /\ \A t \in Tcb : t <= Idle
  /\ Tcb \cap Mutex = {} /\ NewPrio \cap (Tcb \cup Mutex) = {}
  /\ Sem \cap Mutex = {} /\ None # Reserved
  /\ {None, Reserved} \cap (Tcb \cup Mutex \cup Sem) = {}
  /\ MutexInit \subseteq Mutex /\ MaxDly \in Nat \ {0} /\ Timeout \subseteq 0 .. MaxDly
  /\ MaySuspend \subseteq (Tcb \cup Mutex \cup NewPrio) \ {Idle}
  /\ Allowed \subseteq {"deleteOwned", "acceptNested", "suspendCreated",
                        "changeTimedOut", "changeWaiter"}
  /\ DelOpts \subseteq {"OS_DEL_NO_PEND", "OS_DEL_ALWAYS"}

Prio == Tcb \cup Mutex \cup NewPrio
Event == Mutex \cup Sem

VARIABLES OSRdyTbl, OSTCBCur, OSPrioCur, OSTCBPrioTbl,
          OSTCBPrio, OSTCBDly, OSTCBStat, OSTCBPendTO, OSTCBEventPtr,
          OSEventTbl, OSEventType,
          OSEventCnt,    \* a mutex: who owns it, as a priority
          OSEventPtr,    \* a mutex: the TCB of the owner
          pc, arg

cpuVars == <<OSTCBCur, OSPrioCur>>
prioVars == <<OSTCBPrioTbl, OSTCBPrio>>
tcbVars == <<OSTCBDly, OSTCBStat, OSTCBPendTO, OSTCBEventPtr>>
evtVars == <<OSEventType, OSEventCnt, OSEventPtr>>
vars == <<OSRdyTbl, cpuVars, prioVars, tcbVars, OSEventTbl, evtVars, pc, arg>>

Pend == {"MUTEX", "SEM"}

Highest(S) == CHOOSE p \in S : \A q \in S : p <= q
Calling(t) == OSTCBCur = t /\ pc[t] = "user" /\ t # Idle
At(t, label) == OSTCBCur = t /\ pc[t] = label
Goto(t, label, a) == pc' = [pc EXCEPT ![t] = label] /\ arg' = [arg EXCEPT ![t] = a]
Return(t) == Goto(t, "user", None)
Reschedule(t) == Goto(t, "sched", None)
MutexCalls == {"mutexPend", "mutexAccept", "mutexPost", "mutexDel"}
Inside(m) == {t \in Tcb : arg[t] = m /\ pc[t] \in MutexCalls}
Owned(t) == {m \in Mutex : OSEventType[m] = "MUTEX" /\ OSEventPtr[m] = t}

-----------------------------------------------------------------------------
(* OS_Sched() and OSIntExit() give the CPU to whoever OSTCBPrioTbl says    *)
(* has the most urgent ready priority; an entry that is no task's is       *)
(* undefined.  Nothing happens when that priority is OSPrioCur.            *)
Switch(rdy) ==
  LET high == Highest(rdy)
  IN  /\ OSPrioCur' = high
      /\ IF high = OSPrioCur THEN UNCHANGED OSTCBCur
         ELSE OSTCBPrioTbl[high] \in Tcb /\ OSTCBCur' = OSTCBPrioTbl[high]

OS_Sched(t) ==
  /\ \/ At(t, "sched") /\ Return(t)
     \/ At(t, "schedPend") /\ Goto(t, "pended", arg[t])
  /\ Switch(OSRdyTbl)
  /\ UNCHANGED <<OSRdyTbl, prioVars, tcbVars, OSEventTbl, evtVars>>

(* OSTimeTick and OSIntExit. *)
Tick ==
  LET ends == {t \in Tcb : OSTCBDly[t] = 1}
      stat(t) == IF t \in ends THEN OSTCBStat[t] \ Pend ELSE OSTCBStat[t]
      rdy == OSRdyTbl \cup {OSTCBPrio[t] : t \in {u \in ends : stat(u) = {}}}
  IN  /\ OSTCBDly' = [t \in Tcb |-> IF OSTCBDly[t] = 0 THEN 0 ELSE OSTCBDly[t] - 1]
      /\ OSTCBStat' = [t \in Tcb |-> stat(t)]
      /\ OSTCBPendTO' = [t \in Tcb |-> IF t \in ends THEN OSTCBStat[t] \cap Pend # {}
                                                     ELSE OSTCBPendTO[t]]
      /\ OSRdyTbl' = rdy
      /\ Switch(rdy)
      /\ UNCHANGED <<prioVars, OSTCBEventPtr, OSEventTbl, evtVars, pc, arg>>

-----------------------------------------------------------------------------
(* Readies whoever owns the most urgent priorities S in the list of e. *)
EventTaskRdy(rdy, e, S, msk) ==
  LET W == {OSTCBPrioTbl[p] : p \in S}
  IN  /\ OSEventTbl' = [OSEventTbl EXCEPT ![e] = @ \ S]
      /\ OSTCBDly' = [t \in Tcb |-> IF t \in W THEN 0 ELSE OSTCBDly[t]]
      /\ OSTCBEventPtr' = [t \in Tcb |-> IF t \in W THEN None ELSE OSTCBEventPtr[t]]
      /\ OSTCBPendTO' = [t \in Tcb |-> t \notin W /\ OSTCBPendTO[t]]
      /\ OSTCBStat' = [t \in Tcb |-> IF t \in W THEN OSTCBStat[t] \ {msk}
                                                ELSE OSTCBStat[t]]
      /\ OSRdyTbl' = rdy \cup {p \in S : OSTCBStat[OSTCBPrioTbl[p]] \ {msk} = {}}

(* Blocks the running task t on e; rdy and tbl are the lists as they are. *)
EventTaskWait(t, rdy, tbl, e, msk, n) ==
  /\ OSTCBStat' = [OSTCBStat EXCEPT ![t] = @ \cup {msk}]
  /\ OSTCBPendTO' = [OSTCBPendTO EXCEPT ![t] = FALSE]
  /\ OSTCBDly' = [OSTCBDly EXCEPT ![t] = n]
  /\ OSTCBEventPtr' = [OSTCBEventPtr EXCEPT ![t] = e]
  /\ OSRdyTbl' = rdy \ {OSTCBPrio[t]}
  /\ OSEventTbl' = [tbl EXCEPT ![e] = @ \cup {OSTCBPrio[t]}]

(* Slip: a task that timed out stays in the wait list. *)
UnlistedNot(t) == OSEventTbl

(* The wait lists without the task t, if its pend timed out. *)
Unlisted(t) == IF OSTCBPendTO[t]
               THEN [OSEventTbl EXCEPT ![arg[t]] = @ \ {OSTCBPrio[t]}]
               ELSE OSEventTbl

(* The ready list and the wait lists when u gets the priority p: its bit   *)
(* is in one of them.                                                      *)
MovedRdy(u, p) == IF OSTCBPrio[u] \in OSRdyTbl
                  THEN (OSRdyTbl \ {OSTCBPrio[u]}) \cup {p} ELSE OSRdyTbl

MovedWait(u, p) ==
  IF OSTCBPrio[u] \notin OSRdyTbl /\ OSTCBEventPtr[u] # None
  THEN [OSEventTbl EXCEPT ![OSTCBEventPtr[u]] = (@ \ {OSTCBPrio[u]}) \cup {p}]
  ELSE OSEventTbl

(* The second half of OSMutexPend and OSSemPend. *)
Pended(t) ==
  /\ At(t, "pended")
  /\ OSTCBEventPtr' = [OSTCBEventPtr EXCEPT ![t] = None]
  /\ OSTCBPendTO' = [OSTCBPendTO EXCEPT ![t] = FALSE]
  /\ OSEventTbl' = Unlisted(t)
  /\ OSTCBStat' = IF OSTCBPendTO[t] THEN [OSTCBStat EXCEPT ![t] = {}] ELSE OSTCBStat
  /\ Return(t)
  /\ UNCHANGED <<OSRdyTbl, cpuVars, prioVars, OSTCBDly, evtVars>>

-----------------------------------------------------------------------------
(* The type test of every mutex function, before its critical region.  A   *)
(* task that owns a mutex pends on nothing else (note 1 of OSMutexPend).   *)
MutexCall(t, f, m) ==
  /\ Calling(t)
  /\ f = "mutexDel" => DelOpts # {}
  /\ f = "mutexPend" \/ (f = "mutexAccept" /\ "acceptNested" \notin Allowed)
       => Owned(t) = {}
  /\ OSEventType[m] = "MUTEX"
  /\ Goto(t, f, m)
  /\ UNCHANGED <<OSRdyTbl, cpuVars, prioVars, tcbVars, OSEventTbl, evtVars>>

(* The task t, whose own priority is p, becomes the owner of m. *)
Owns(m, t, p) == /\ OSEventCnt' = [OSEventCnt EXCEPT ![m] = p]
                 /\ OSEventPtr' = [OSEventPtr EXCEPT ![m] = t]

MutexTake(t) ==
  LET m == arg[t]
  IN  /\ At(t, "mutexPend") \/ At(t, "mutexAccept")
      /\ OSEventCnt[m] = Available
      /\ Owns(m, t, OSTCBPrio[t])
      /\ Return(t)
      /\ UNCHANGED <<OSRdyTbl, cpuVars, prioVars, tcbVars, OSEventTbl, OSEventType>>

MutexAcceptNone(t) ==
  /\ At(t, "mutexAccept")
  /\ OSEventCnt[arg[t]] # Available
  /\ Return(t)
  /\ UNCHANGED <<OSRdyTbl, cpuVars, prioVars, tcbVars, OSEventTbl, evtVars>>

(* Slip: an owner that is not ready keeps its priority. *)
RaisesReadyOnly(t, m) ==
  LET o == OSEventPtr[m]
  IN  OSTCBPrio[o] # m /\ OSEventCnt[m] > OSTCBPrio[t] /\ OSTCBPrio[o] \in OSRdyTbl

(* Must the owner of m be raised to the PIP because t is more urgent? *)
Raises(t, m) == OSTCBPrio[OSEventPtr[m]] # m /\ OSEventCnt[m] > OSTCBPrio[t]

MutexWait(t, n) ==
  LET m == arg[t]
      o == OSEventPtr[m]
  IN  /\ At(t, "mutexPend")
      /\ OSEventCnt[m] # Available
      /\ IF Raises(t, m)
         THEN /\ OSTCBPrio' = [OSTCBPrio EXCEPT ![o] = m]
              /\ OSTCBPrioTbl' = [OSTCBPrioTbl EXCEPT ![m] = o]
              /\ EventTaskWait(t, MovedRdy(o, m), MovedWait(o, m), m, "MUTEX", n)
         ELSE /\ UNCHANGED prioVars
              /\ EventTaskWait(t, OSRdyTbl, OSEventTbl, m, "MUTEX", n)
      /\ Goto(t, "schedPend", m)
      /\ UNCHANGED <<cpuVars, evtVars>>

(* Slip: the owner keeps the PIP. *)
LoweredNot(t, m) == UNCHANGED <<OSTCBPrio, OSTCBPrioTbl>>

(* An owner that was raised goes back to the priority it had. *)
Lowered(t, m) ==
  /\ OSTCBPrio' = IF OSTCBPrio[t] = m THEN [OSTCBPrio EXCEPT ![t] = OSEventCnt[m]]
                                      ELSE OSTCBPrio
  /\ OSTCBPrioTbl' = IF OSTCBPrio[t] = m
                     THEN [OSTCBPrioTbl EXCEPT ![OSEventCnt[m]] = t, ![m] = Reserved]
                     ELSE [OSTCBPrioTbl EXCEPT ![m] = Reserved]

LoweredRdy(t, m) == IF OSTCBPrio[t] = m THEN (OSRdyTbl \ {m}) \cup {OSEventCnt[m]}
                                        ELSE OSRdyTbl

(* Slip: the least urgent waiter. *)
NextOwnerLast(m) == CHOOSE p \in OSEventTbl[m] : \A q \in OSEventTbl[m] : p >= q

NextOwner(m) == Highest(OSEventTbl[m])

MutexPost(t) ==
  LET m == arg[t]
      next == NextOwner(m)
  IN  /\ At(t, "mutexPost")
      /\ OSEventPtr[m] = t
      /\ Lowered(t, m)
      /\ IF OSEventTbl[m] # {}
         THEN /\ EventTaskRdy(LoweredRdy(t, m), m, {next}, "MUTEX")
              /\ Owns(m, OSTCBPrioTbl'[next], next)
              /\ Reschedule(t)
         ELSE /\ OSRdyTbl' = LoweredRdy(t, m)
              /\ OSEventCnt' = [OSEventCnt EXCEPT ![m] = Available]
              /\ OSEventPtr' = [OSEventPtr EXCEPT ![m] = None]
              /\ Return(t)
              /\ UNCHANGED <<tcbVars, OSEventTbl>>
      /\ UNCHANGED <<cpuVars, OSEventType>>

(* OS_ERR_NOT_MUTEX_OWNER *)
MutexPostRefused(t) ==
  /\ At(t, "mutexPost")
  /\ OSEventPtr[arg[t]] # t
  /\ Return(t)
  /\ UNCHANGED <<OSRdyTbl, cpuVars, prioVars, tcbVars, OSEventTbl, evtVars>>

-----------------------------------------------------------------------------
(* OSMutexCreate reserves the PIP with the block, then fills the block in. *)
(* A mutex is always given the same block of the free list.                *)
MutexReserve(t, m) ==
  /\ Calling(t)
  /\ OSEventType[m] = "UNUSED" /\ OSTCBPrioTbl[m] = None
  /\ OSTCBPrioTbl' = [OSTCBPrioTbl EXCEPT ![m] = Reserved]
  /\ Goto(t, "mutexInit", m)
  /\ UNCHANGED <<OSRdyTbl, cpuVars, OSTCBPrio, tcbVars, OSEventTbl, evtVars>>

MutexCreate(t) ==
  LET m == arg[t]
  IN  /\ At(t, "mutexInit")
      /\ OSEventType' = [OSEventType EXCEPT ![m] = "MUTEX"]
      /\ OSEventCnt' = [OSEventCnt EXCEPT ![m] = Available]
      /\ OSEventPtr' = [OSEventPtr EXCEPT ![m] = None]
      /\ OSEventTbl' = [OSEventTbl EXCEPT ![m] = {}]
      /\ Return(t)
      /\ UNCHANGED <<OSRdyTbl, cpuVars, prioVars, tcbVars>>

(* Deletion frees the PIP, whoever has it, and does not look at the owner. *)
(* No other task is between its type test and its region (as in OsMsg).    *)
MutexDel(t, opt) ==
  LET m == arg[t]
      W == OSEventTbl[m]
  IN  /\ At(t, "mutexDel") /\ Inside(m) = {t}
      /\ OSEventPtr[m] = None \/ "deleteOwned" \in Allowed
      /\ IF opt = "OS_DEL_NO_PEND" /\ W # {}
         THEN Return(t) /\ UNCHANGED <<OSRdyTbl, tcbVars, OSEventTbl, evtVars,
                                       OSTCBPrioTbl>>
         ELSE /\ EventTaskRdy(OSRdyTbl, m, W, "MUTEX")
              /\ OSTCBPrioTbl' = [OSTCBPrioTbl EXCEPT ![m] = None]
              /\ OSEventType' = [OSEventType EXCEPT ![m] = "UNUSED"]
              /\ OSEventCnt' = [OSEventCnt EXCEPT ![m] = 0]
              /\ OSEventPtr' = [OSEventPtr EXCEPT ![m] = None]
              /\ IF W # {} THEN Reschedule(t) ELSE Return(t)
      /\ UNCHANGED <<cpuVars, OSTCBPrio>>

-----------------------------------------------------------------------------
(* The semaphores a task may wait on besides; they are never deleted. *)
SemPend(t, s, n) ==
  /\ Calling(t) /\ Owned(t) = {}
  /\ \/ /\ OSEventCnt[s] > 0
        /\ OSEventCnt' = [OSEventCnt EXCEPT ![s] = @ - 1]
        /\ UNCHANGED <<OSRdyTbl, tcbVars, OSEventTbl, pc, arg>>
     \/ /\ OSEventCnt[s] = 0
        /\ EventTaskWait(t, OSRdyTbl, OSEventTbl, s, "SEM", n)
        /\ Goto(t, "schedPend", s)
        /\ UNCHANGED OSEventCnt
  /\ UNCHANGED <<cpuVars, prioVars, OSEventType, OSEventPtr>>

SemPost(t, s) ==
  /\ Calling(t)
  /\ \/ /\ OSEventTbl[s] # {}
        /\ EventTaskRdy(OSRdyTbl, s, {Highest(OSEventTbl[s])}, "SEM")
        /\ Reschedule(t)
        /\ UNCHANGED OSEventCnt
     \/ /\ OSEventTbl[s] = {} /\ OSEventCnt[s] = 0    \* the count is capped at 1
        /\ OSEventCnt' = [OSEventCnt EXCEPT ![s] = 1]
        /\ UNCHANGED <<OSRdyTbl, tcbVars, OSEventTbl, pc, arg>>
  /\ UNCHANGED <<cpuVars, prioVars, OSEventType, OSEventPtr>>

OSTimeDly(t, n) ==
  /\ Calling(t)
  /\ OSRdyTbl' = OSRdyTbl \ {OSTCBPrio[t]}
  /\ OSTCBDly' = [OSTCBDly EXCEPT ![t] = n]
  /\ Reschedule(t)
  /\ UNCHANGED <<cpuVars, prioVars, OSTCBStat, OSTCBPendTO, OSTCBEventPtr,
                 OSEventTbl, evtVars>>

SuspendsSelf(t, p) == p = OSTCBPrio[t]

(* The task is named by a priority; the call compares it to the caller's   *)
(* present one to tell whether the caller suspends itself.                 *)
OSTaskSuspend(t, p) ==
  LET u == OSTCBPrioTbl[p]
  IN  /\ Calling(t)
      /\ u \in Tcb
      /\ u = t => p = OSTCBPrio[t] \/ "suspendCreated" \in Allowed
      /\ OSRdyTbl' = OSRdyTbl \ {OSTCBPrio[u]}
      /\ OSTCBStat' = [OSTCBStat EXCEPT ![u] = @ \cup {"SUSPEND"}]
      /\ IF SuspendsSelf(t, p) THEN Reschedule(t) ELSE Return(t)
      /\ UNCHANGED <<cpuVars, prioVars, OSTCBDly, OSTCBPendTO, OSTCBEventPtr,
                     OSEventTbl, evtVars>>

OSTaskResume(t, p) ==
  LET u == OSTCBPrioTbl[p]
  IN  /\ Calling(t)
      /\ u \in Tcb /\ "SUSPEND" \in OSTCBStat[u]
      /\ OSTCBStat' = [OSTCBStat EXCEPT ![u] = @ \ {"SUSPEND"}]
      /\ IF OSTCBStat[u] = {"SUSPEND"} /\ OSTCBDly[u] = 0
         THEN OSRdyTbl' = OSRdyTbl \cup {OSTCBPrio[u]} /\ Reschedule(t)
         ELSE OSRdyTbl' = OSRdyTbl /\ Return(t)
      /\ UNCHANGED <<cpuVars, prioVars, OSTCBDly, OSTCBPendTO, OSTCBEventPtr,
                     OSEventTbl, evtVars>>

Renamed(u, oldprio, newprio) ==
  [OSTCBPrioTbl EXCEPT ![oldprio] = None, ![newprio] = u]

(* Not the task that owns a mutex (note 2 of OSMutexPend). *)
OSTaskChangePrio(t, oldprio, newprio) ==
  LET u == OSTCBPrioTbl[oldprio]
  IN  /\ Calling(t)
      /\ OSTCBPrioTbl[newprio] = None
      /\ u \in Tcb \ {Idle} /\ Owned(u) = {}
      /\ ~OSTCBPendTO[u] \/ "changeTimedOut" \in Allowed
      /\ "MUTEX" \notin OSTCBStat[u] \/ "changeWaiter" \in Allowed
      /\ OSTCBPrioTbl' = Renamed(u, oldprio, newprio)
      /\ OSTCBPrio' = [OSTCBPrio EXCEPT ![u] = newprio]
      /\ OSRdyTbl' = MovedRdy(u, newprio)
      /\ OSEventTbl' = MovedWait(u, newprio)
      /\ Reschedule(t)
      /\ UNCHANGED <<cpuVars, tcbVars, evtVars>>

-----------------------------------------------------------------------------
Init ==
  /\ OSRdyTbl = Tcb
  /\ OSTCBCur = Highest(Tcb) /\ OSPrioCur = OSTCBCur
  /\ OSTCBPrio = [t \in Tcb |-> t]
  /\ OSTCBPrioTbl = [p \in Prio |-> IF p \in Tcb THEN p
                                     ELSE IF p \in MutexInit THEN Reserved ELSE None]
  /\ OSTCBDly = [t \in Tcb |-> 0]
  /\ OSTCBStat = [t \in Tcb |-> {}]
  /\ OSTCBPendTO = [t \in Tcb |-> FALSE]
  /\ OSTCBEventPtr = [t \in Tcb |-> None]
  /\ OSEventTbl = [e \in Event |-> {}]
  /\ OSEventType = [e \in Event |-> IF e \in Sem THEN "SEM"
                                     ELSE IF e \in MutexInit THEN "MUTEX" ELSE "UNUSED"]
  /\ OSEventCnt = [e \in Event |-> IF e \in MutexInit THEN Available ELSE 0]
  /\ OSEventPtr = [e \in Event |-> None]
  /\ pc = [t \in Tcb |-> "user"]
  /\ arg = [t \in Tcb |-> None]

InCall(t) ==
  \/ OS_Sched(t) \/ Pended(t)
  \/ MutexTake(t) \/ MutexAcceptNone(t) \/ MutexPost(t) \/ MutexPostRefused(t)
  \/ MutexCreate(t)
  \/ \E n \in Timeout : MutexWait(t, n)
  \/ \E opt \in DelOpts : MutexDel(t, opt)

AppCall(t) ==
  \/ \E f \in MutexCalls, m \in Mutex : MutexCall(t, f, m)
  \/ \E m \in Mutex : MutexReserve(t, m)
  \/ \E s \in Sem : SemPost(t, s) \/ \E n \in Timeout : SemPend(t, s, n)
  \/ \E n \in 1 .. MaxDly : OSTimeDly(t, n)
  \/ \E p \in MaySuspend : OSTaskSuspend(t, p) \/ OSTaskResume(t, p)
  \/ \E p \in Tcb \cup NewPrio, q \in NewPrio : OSTaskChangePrio(t, p, q)

Next == Tick \/ \E t \in Tcb : InCall(t) \/ AppCall(t)

Spec == Init /\ [][Next]_vars

-----------------------------------------------------------------------------
Label == {"user", "sched", "schedPend", "pended", "mutexInit"} \cup MutexCalls

TypeOK ==
  /\ OSRdyTbl \subseteq Prio /\ OSTCBCur \in Tcb /\ OSPrioCur \in Prio
  /\ OSTCBPrioTbl \in [Prio -> Tcb \cup {None, Reserved}]
  /\ OSTCBPrio \in [Tcb -> Prio]
  /\ OSTCBDly \in [Tcb -> 0 .. MaxDly]
  /\ OSTCBStat \in [Tcb -> SUBSET (Pend \cup {"SUSPEND"})]
  /\ OSTCBPendTO \in [Tcb -> BOOLEAN]
  /\ OSTCBEventPtr \in [Tcb -> Event \cup {None}]
  /\ OSEventTbl \in [Event -> SUBSET Prio]
  /\ OSEventType \in [Event -> {"MUTEX", "SEM", "UNUSED"}]
  /\ OSEventCnt \in [Event -> Prio \cup {0, 1, Available}]
  /\ OSEventPtr \in [Event -> Tcb \cup {None}]
  /\ pc \in [Tcb -> Label]
  /\ arg \in [Tcb -> Event \cup {None}]

(***************************************************************************)
(* Every priority in a wait list is the present priority of a task that is *)
(* inside a pend on that event, so a post wakes somebody who waits         *)
(* (ucos_ii.h:253 "List of tasks waiting for event to occur").             *)
(***************************************************************************)
WaitListed ==
  /\ TypeOK
  /\ \A e \in Event : \A p \in OSEventTbl[e] :
       \E t \in Tcb : /\ OSTCBPrio[t] = p /\ OSTCBPrioTbl[p] = t
                      /\ pc[t] \in {"schedPend", "pended"} /\ arg[t] = e

(***************************************************************************)
(* Priority inheritance: while a task waits for a mutex its owner is at    *)
(* least as urgent, whoever comes, times out or is handed the mutex in     *)
(* whatever order; so no task of a priority in between delays the waiter.  *)
(***************************************************************************)
Inheritance ==
  \A m \in Mutex : \A p \in OSEventTbl[m] :
    OSEventPtr[m] # None /\ OSTCBPrio[OSEventPtr[m]] <= p

(***************************************************************************)
(* A raised priority ends with the ownership it came from.                 *)
(***************************************************************************)
RaisedOnlyOwner ==
  \A t \in Tcb : OSTCBPrio[t] \in Mutex => OSTCBPrio[t] \in Owned(t)

(***************************************************************************)
(* The mutexes implement MutexLock: one owner at a time, and a release     *)
(* makes the most urgent waiter the owner before it even runs.             *)
(***************************************************************************)
Waiting == [m \in Mutex |-> {t \in Tcb : OSTCBPrio[t] \in OSEventTbl[m]}]
Owner == [m \in Mutex |-> OSEventPtr[m]]
Lock == INSTANCE MutexLock WITH Task <- Tcb, prio <- OSTCBPrio, owner <- Owner,
                                waiting <- Waiting
ImplementsLock == Lock!Spec

(***************************************************************************)
(* The task that has the CPU is ready, unless it is about to give it away  *)
(* in OS_Sched(): OSTaskSuspend has to "See if suspending self"            *)
(* (os_task.c:897) to know when to switch.                                 *)
(***************************************************************************)
OnlyReadyRuns ==
  pc[OSTCBCur] \notin {"sched", "schedPend"} => OSTCBPrio[OSTCBCur] \in OSRdyTbl
=============================================================================
