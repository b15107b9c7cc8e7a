------------------------------- MODULE OsMsg -------------------------------
(***************************************************************************)
(* The mailboxes of src/os_mbox.c and the message queues of src/os_q.c on  *)
(* the kernel core and its task services.  As with the semaphores, every   *)
(* function reads OSEventType before its critical region, so MsgCall is a  *)
(* step of its own.                                                        *)
(*                                                                         *)
(* OSEventPtr is the union the code makes of it: the message of a mailbox, *)
(* the OS_Q of a queue, the next block of the free list.  A function that  *)
(* reaches its region after the box was deleted takes whatever the pointer *)
(* then is for an OS_Q or for a message; what follows from that is not     *)
(* modelled, and a box is only deleted when no other task is between its   *)
(* test and its region (Inside).                                           *)
(***************************************************************************)
EXTENDS OsTask, Sequences

CONSTANTS Msg,       \* the messages, none of them NULL
          Qcb,       \* the OS_Q control blocks of OSQTbl
          QSize,     \* entries of every queue
          MboxInit, QInit,    \* the boxes that exist when OSStart is called
          DelOpts,   \* the options the application deletes with
          PostOpts,  \* the options of OSQPostOpt and OSMboxPostOpt
          IrqEvent   \* the boxes interrupt handlers post to

ASSUME MsgAssumption ==
  /\ MboxInit \cup QInit \subseteq Event /\ MboxInit \cap QInit = {}
  /\ IrqEvent \subseteq Event
  /\ QSize \in Nat \ {0} /\ Cardinality(QInit) <= Cardinality(Qcb)
  /\ DelOpts \subseteq {"OS_DEL_NO_PEND", "OS_DEL_ALWAYS"}
  /\ PostOpts \subseteq SUBSET {"FRONT", "BROADCAST"}
  /\ None \notin Msg

VARIABLES OSEventType, OSEventPtr, OSEventFreeList,
          OSQFreeList,   \* the free OS_Q blocks; their order is of no effect
          OSQ,           \* the OS_Q blocks and the storage of each
          OSTCBMsg       \* the message a post put into a waiter's TCB

boxVars == <<OSEventType, OSEventFreeList>>
qVars == <<OSQFreeList, OSQ>>
msgVars == <<boxVars, OSEventPtr, qVars, OSTCBMsg>>
vars == <<coreVars, msgVars>>

Slot == 0 .. QSize - 1
TypeOf(f) == IF f \in {"mboxPend", "mboxAccept", "mboxPost", "mboxDel"}
             THEN "MBOX" ELSE "Q"
Regions == {"mboxPend", "mboxAccept", "mboxPost", "mboxDel", "qPend", "qAccept",
            "qPost", "qPostFront", "qFlush", "qDel"}
Inside(e) == {t \in Task : arg[t] = e /\ pc[t] \in Regions}

-----------------------------------------------------------------------------
(* The ring of an OS_Q: OSQIn, OSQOut and OSQEnd as indices. *)
NewRing(tbl) == [In |-> 0, Out |-> 0, Entries |-> 0, Tbl |-> tbl]

(* Slip: the last entry is not used. *)
FullBut1(r) == r.Entries + 1 >= QSize
RingFull(r) == r.Entries >= QSize

RingOut(r) == [r EXCEPT !.Out = IF @ + 1 = QSize THEN 0 ELSE @ + 1,
                        !.Entries = @ - 1]

RingIn(r, m) == [r EXCEPT !.Tbl[r.In] = m,
                          !.In = IF @ + 1 = QSize THEN 0 ELSE @ + 1,
                          !.Entries = @ + 1]

(* Slip: OSQPostFront stores before it steps back. *)
StoreThenStep(r, m) ==
  LET out == IF r.Out = 0 THEN QSize - 1 ELSE r.Out - 1
  IN  [r EXCEPT !.Tbl[r.Out] = m, !.Out = out, !.Entries = @ + 1]

RingInFront(r, m) ==
  LET out == IF r.Out = 0 THEN QSize - 1 ELSE r.Out - 1
  IN  [r EXCEPT !.Tbl[out] = m, !.Out = out, !.Entries = @ + 1]

QueueOf(e) == OSQ[OSEventPtr[e]]
SetRing(e, r) == OSQ' = [OSQ EXCEPT ![OSEventPtr[e]] = r]

-----------------------------------------------------------------------------
(* The test every mailbox and queue function starts with. *)
MsgCall(t, f, e) ==
  /\ Calling(t)
  /\ OSIntNesting = 0
  /\ f \in {"mboxPend", "qPend"} => OSLockNesting = 0
  /\ f \in {"mboxDel", "qDel"} => DelOpts # {}
  /\ OSEventType[e] = TypeOf(f)
  /\ Goto(t, f, e)
  /\ UNCHANGED <<OSRdyTbl, cpuVars, tblVars, tcbVars, OSEventTbl, msgVars>>

(* OSMboxPend and OSMboxAccept: what the pointer is, is the message. *)
MboxTake(t) ==
  LET e == arg[t]
  IN  /\ At(t, "mboxPend") \/ At(t, "mboxAccept")
      /\ pc[t] = "mboxPend" => OSEventPtr[e] # None
      /\ OSEventPtr' = [OSEventPtr EXCEPT ![e] = None]
      /\ Return(t)
      /\ UNCHANGED <<OSRdyTbl, cpuVars, tblVars, tcbVars, OSEventTbl, boxVars,
                     qVars, OSTCBMsg>>

QTake(t) ==
  LET e == arg[t]
  IN  /\ At(t, "qPend") \/ At(t, "qAccept")
      /\ QueueOf(e).Entries > 0
      /\ SetRing(e, RingOut(QueueOf(e)))
      /\ Return(t)
      /\ UNCHANGED <<OSRdyTbl, cpuVars, tblVars, tcbVars, OSEventTbl, boxVars,
                     OSEventPtr, OSQFreeList, OSTCBMsg>>

QAcceptNone(t) ==
  /\ At(t, "qAccept")
  /\ QueueOf(arg[t]).Entries = 0
  /\ Return(t)
  /\ UNCHANGED <<OSRdyTbl, cpuVars, tblVars, tcbVars, OSEventTbl, msgVars>>

MsgWait(t, n) ==
  /\ \/ At(t, "mboxPend") /\ OSEventPtr[arg[t]] = None
     \/ At(t, "qPend") /\ QueueOf(arg[t]).Entries = 0
  /\ EventTaskWait(t, arg[t], IF pc[t] = "qPend" THEN "Q" ELSE "MBOX", n)
  /\ Goto(t, "schedPend", arg[t])
  /\ UNCHANGED <<cpuVars, tblVars, msgVars>>

(* The second half of OSMboxPend and OSQPend. *)
MsgPended(t) ==
  /\ At(t, "pended")
  /\ \/ EventTO(t) /\ UNCHANGED OSTCBMsg
     \/ EventGot(t) /\ OSTCBMsg' = [OSTCBMsg EXCEPT ![t] = None]
  /\ Return(t)
  /\ UNCHANGED <<cpuVars, tblVars, boxVars, OSEventPtr, qVars>>

-----------------------------------------------------------------------------
(* OS_EventTaskRdy for the tasks S waiting on e, with a message (or NULL). *)
HandOver(e, S, m) ==
  /\ EventTaskRdy(e, S, OSEventType[e])
  /\ OSTCBMsg' = [t \in Task |-> IF t \in S THEN m ELSE OSTCBMsg[t]]

(* Slip: a broadcast forgets the most urgent waiter. *)
ServedButFirst(e, o) == IF "BROADCAST" \in o /\ Cardinality(OSEventTbl[e]) > 1
                        THEN OSEventTbl[e] \ {Highest(OSEventTbl[e])}
                        ELSE {Highest(OSEventTbl[e])}

(* Whom a post serves: the most urgent waiter, or all of them. *)
Served(e, o) == IF "BROADCAST" \in o THEN OSEventTbl[e] ELSE {Highest(OSEventTbl[e])}

(* The three ways a post ends: handed over, kept, or refused as full. *)
PostHand(e, m, o) ==
  /\ OSEventTbl[e] # {}
  /\ HandOver(e, Served(e, o), m)
  /\ UNCHANGED <<OSEventPtr, qVars>>

MboxKeep(e, m) ==
  /\ OSEventTbl[e] = {} /\ OSEventPtr[e] = None
  /\ OSEventPtr' = [OSEventPtr EXCEPT ![e] = m]
  /\ UNCHANGED <<OSRdyTbl, tcbVars, OSEventTbl, qVars, OSTCBMsg>>

QKeep(e, m, o) ==
  /\ OSEventTbl[e] = {} /\ ~RingFull(QueueOf(e))
  /\ SetRing(e, IF "FRONT" \in o THEN RingInFront(QueueOf(e), m)
                                 ELSE RingIn(QueueOf(e), m))
  /\ UNCHANGED <<OSRdyTbl, tcbVars, OSEventTbl, OSEventPtr, OSQFreeList, OSTCBMsg>>

Refused(e, full) ==
  /\ OSEventTbl[e] = {} /\ full
  /\ UNCHANGED <<OSRdyTbl, tcbVars, OSEventTbl, OSEventPtr, qVars, OSTCBMsg>>

MboxRegion(e, m, o) ==
  PostHand(e, m, o) \/ MboxKeep(e, m) \/ Refused(e, OSEventPtr[e] # None)

QRegion(e, m, o) ==
  PostHand(e, m, o) \/ QKeep(e, m, o) \/ Refused(e, RingFull(QueueOf(e)))

PostReturn(t) ==
  /\ IF OSEventTbl[arg[t]] # {} THEN Reschedule(t) ELSE Return(t)
  /\ UNCHANGED <<cpuVars, tblVars, boxVars>>

(* OSMboxPost and OSMboxPostOpt; OSQPost, OSQPostFront and OSQPostOpt. *)
MboxPost(t, m, o) ==
  At(t, "mboxPost") /\ MboxRegion(arg[t], m, o) /\ PostReturn(t)

OSQPost(t, m) == At(t, "qPost") /\ QRegion(arg[t], m, {}) /\ PostReturn(t)

OSQPostFront(t, m) ==
  At(t, "qPostFront") /\ QRegion(arg[t], m, {"FRONT"}) /\ PostReturn(t)

OSQPostOpt(t, m, o) == At(t, "qPost") /\ QRegion(arg[t], m, o) /\ PostReturn(t)

(* A post in an interrupt handler, where OS_Sched() does nothing. *)
IrqMsgPost(e, m) ==
  /\ irq
  /\ \/ OSEventType[e] = "MBOX" /\ MboxRegion(e, m, {})
     \/ OSEventType[e] = "Q" /\ QRegion(e, m, {})
  /\ UNCHANGED <<cpuVars, tblVars, pc, arg, boxVars>>

OSQFlush(t) ==
  /\ At(t, "qFlush")
  /\ SetRing(arg[t], NewRing(QueueOf(arg[t]).Tbl))
  /\ Return(t)
  /\ UNCHANGED <<OSRdyTbl, cpuVars, tblVars, tcbVars, OSEventTbl, boxVars,
                 OSEventPtr, OSQFreeList, OSTCBMsg>>

-----------------------------------------------------------------------------
(* Creation: a block is unlinked in a critical region and filled in after  *)
(* it; a queue also needs an OS_Q, or gives the block back.                *)
BoxTake(t, label) ==
  /\ Calling(t) /\ OSIntNesting = 0
  /\ OSEventFreeList \in Event     \* neither empty nor corrupt
  /\ OSEventFreeList' = OSEventPtr[OSEventFreeList]
  /\ Goto(t, label, OSEventFreeList)
  /\ UNCHANGED <<OSRdyTbl, cpuVars, tblVars, tcbVars, OSEventTbl, OSEventType,
                 OSEventPtr, qVars, OSTCBMsg>>

MboxCreate(t, m) ==
  LET e == arg[t]
  IN  /\ At(t, "mboxInit")
      /\ OSEventType' = [OSEventType EXCEPT ![e] = "MBOX"]
      /\ OSEventPtr' = [OSEventPtr EXCEPT ![e] = m]
      /\ OSEventTbl' = [OSEventTbl EXCEPT ![e] = {}]
      /\ Return(t)
      /\ UNCHANGED <<OSRdyTbl, cpuVars, tblVars, tcbVars, OSEventFreeList, qVars,
                     OSTCBMsg>>

(* Slip: without an OS_Q the block is not given back. *)
QcbTakeLosesBlock(t) ==
  LET e == arg[t]
  IN  /\ At(t, "qcbTake")
      /\ \/ \E q \in OSQFreeList :
              /\ OSQFreeList' = OSQFreeList \ {q}
              /\ OSEventPtr' = [OSEventPtr EXCEPT ![e] = q]
              /\ Goto(t, "qFill", e)
         \/ /\ OSQFreeList = {}
            /\ Return(t)
            /\ UNCHANGED <<OSQFreeList, OSEventPtr>>
      /\ UNCHANGED <<OSRdyTbl, cpuVars, tblVars, tcbVars, OSEventTbl, boxVars,
                     OSQ, OSTCBMsg>>

(* Nobody reads OSEventPtr of the block before its type is set in QCreate, *)
(* so it stands for the local variable pq until then.                      *)
QcbTake(t) ==
  LET e == arg[t]
  IN  /\ At(t, "qcbTake")
      /\ \/ \E q \in OSQFreeList :
              /\ OSQFreeList' = OSQFreeList \ {q}
              /\ OSEventPtr' = [OSEventPtr EXCEPT ![e] = q]
              /\ Goto(t, "qFill", e)
              /\ UNCHANGED OSEventFreeList
         \/ /\ OSQFreeList = {}
            /\ OSEventPtr' = [OSEventPtr EXCEPT ![e] = OSEventFreeList]
            /\ OSEventFreeList' = e
            /\ Return(t)
            /\ UNCHANGED OSQFreeList
      /\ UNCHANGED <<OSRdyTbl, cpuVars, tblVars, tcbVars, OSEventTbl, OSEventType,
                     OSQ, OSTCBMsg>>

QCreate(t) ==
  LET e == arg[t]
  IN  /\ At(t, "qFill")
      /\ SetRing(e, NewRing(QueueOf(e).Tbl))
      /\ OSEventType' = [OSEventType EXCEPT ![e] = "Q"]
      /\ OSEventTbl' = [OSEventTbl EXCEPT ![e] = {}]
      /\ Return(t)
      /\ UNCHANGED <<OSRdyTbl, cpuVars, tblVars, tcbVars, OSEventFreeList,
                     OSEventPtr, OSQFreeList, OSTCBMsg>>

(* The deletion of a box that tasks wait on is refused or sends them away. *)
BoxFree(t, opt) ==
  LET e == arg[t]
      W == OSEventTbl[e]
  IN  IF opt = "OS_DEL_NO_PEND" /\ W # {}
      THEN Return(t) /\ UNCHANGED <<OSRdyTbl, tcbVars, OSEventTbl, boxVars,
                                    OSEventPtr, OSTCBMsg>>
      ELSE /\ EventTaskRdy(e, W, TypeOf(pc[t]))
           /\ OSTCBMsg' = [p \in Task |-> IF p \in W THEN None ELSE OSTCBMsg[p]]
           /\ OSEventType' = [OSEventType EXCEPT ![e] = "UNUSED"]
           /\ OSEventPtr' = [OSEventPtr EXCEPT ![e] = OSEventFreeList]
           /\ OSEventFreeList' = e
           /\ IF W # {} THEN Reschedule(t) ELSE Return(t)

MboxDel(t, opt) ==
  /\ At(t, "mboxDel") /\ Inside(arg[t]) = {t}
  /\ BoxFree(t, opt)
  /\ UNCHANGED <<cpuVars, tblVars, qVars>>

QDel(t, opt) ==
  LET e == arg[t]
  IN  /\ At(t, "qDel") /\ Inside(e) = {t}
      /\ BoxFree(t, opt)
      /\ OSQFreeList' = IF opt = "OS_DEL_NO_PEND" /\ OSEventTbl[e] # {}
                        THEN OSQFreeList ELSE OSQFreeList \cup {OSEventPtr[e]}
      /\ UNCHANGED <<cpuVars, tblVars, OSQ>>

-----------------------------------------------------------------------------
(* Each block of the free list points to the next, in some order. *)
FreeListOf(S, head, ptr) ==
  LET n == Cardinality(S)
  IN  \E f \in [1 .. n -> S] :
        /\ \A i, j \in 1 .. n : i # j => f[i] # f[j]
        /\ head = IF n = 0 THEN None ELSE f[1]
        /\ \A i \in 1 .. n : ptr[f[i]] = IF i = n THEN None ELSE f[i + 1]

InitType(e) == IF e \in MboxInit THEN "MBOX" ELSE IF e \in QInit THEN "Q" ELSE "UNUSED"

Init ==
  /\ CoreInit
  /\ OSEventType = [e \in Event |-> InitType(e)]
  /\ OSEventFreeList \in Event \cup {None}
  /\ OSEventPtr \in [Event -> Event \cup Qcb \cup {None}]
  /\ FreeListOf(Event \ (MboxInit \cup QInit), OSEventFreeList, OSEventPtr)
  /\ \A e \in MboxInit : OSEventPtr[e] = None
  /\ \A e \in QInit : OSEventPtr[e] \in Qcb
  /\ \A e, f \in QInit : e # f => OSEventPtr[e] # OSEventPtr[f]
  /\ OSQFreeList = Qcb \ {OSEventPtr[e] : e \in QInit}
  /\ \E m \in Msg : OSQ = [q \in Qcb |-> NewRing([i \in Slot |-> m])]
  /\ OSTCBMsg = [t \in Task |-> None]

(* OS_TCBInit clears OSTCBMsg of the task it makes. *)
CreatedNoMsg ==
  OSTCBMsg' = [t \in Task |-> IF ~Used(t) /\ Used(t)' THEN None ELSE OSTCBMsg[t]]

MsgKernel(t) ==
  \/ MboxTake(t) \/ QTake(t) \/ QAcceptNone(t) \/ MsgPended(t) \/ OSQFlush(t)
  \/ QcbTake(t) \/ QCreate(t)
  \/ \E n \in 0 .. MaxDly : MsgWait(t, n)
  \/ \E m \in Msg : \/ OSQPost(t, m) \/ OSQPostFront(t, m)
                    \/ MboxCreate(t, m)
                    \/ \E o \in PostOpts \cup {{}} : MboxPost(t, m, o)
                    \/ \E o \in PostOpts : OSQPostOpt(t, m, o)
  \/ MboxCreate(t, None)
  \/ \E opt \in DelOpts : MboxDel(t, opt) \/ QDel(t, opt)

Next ==
  \/ CoreNext /\ CreatedNoMsg /\ UNCHANGED <<boxVars, OSEventPtr, qVars>>
  \/ \E e \in IrqEvent, m \in Msg : IrqMsgPost(e, m)
  \/ \E t \in Task : \/ MsgKernel(t)
                     \/ MboxInit # {} /\ BoxTake(t, "mboxInit")
                     \/ QInit # {} /\ BoxTake(t, "qcbTake")
                     \/ \E f \in Regions, e \in Event : MsgCall(t, f, e)

Spec == Init /\ [][Next]_vars

-----------------------------------------------------------------------------
Label == {"user", "sched", "schedPend", "pended", "tcbTake", "tcbLink",
          "unreserve", "tcbFree", "mboxInit", "qcbTake", "qFill"} \cup Regions

TypeOK ==
  /\ OSTCBStat \in [Task -> SUBSET Stat]
  /\ OSEventTbl \in [Event -> SUBSET Task]
  /\ pc \in [Task -> Label]
  /\ arg \in [Task -> Event \cup Task \cup {None}]
  /\ OSEventType \in [Event -> {"MBOX", "Q", "UNUSED"}]
  /\ OSEventPtr \in [Event -> Event \cup Qcb \cup Msg \cup {None}]
  /\ OSEventFreeList \in Event \cup {None}
  /\ OSQFreeList \subseteq Qcb
  /\ OSQ \in [Qcb -> [In : Slot, Out : Slot, Entries : 0 .. QSize,
                      Tbl : [Slot -> Msg]]]
  /\ OSTCBMsg \in [Task -> Msg \cup {None}]

(* What is in a box, oldest message first. *)
Kept(e) ==
  IF OSEventType[e] = "MBOX"
  THEN IF OSEventPtr[e] = None THEN << >> ELSE <<OSEventPtr[e]>>
  ELSE IF OSEventType[e] = "Q"
  THEN [i \in 1 .. QueueOf(e).Entries |->
          QueueOf(e).Tbl[(QueueOf(e).Out + i - 1) % QSize]]
  ELSE << >>

BeingDeleted(p) == \E t \in Task : pc[t] = "tcbFree" /\ arg[t] = p

Handed == [e \in Event |->
             [t \in {u \in Task : /\ pc[u] \in {"schedPend", "pended"}
                                  /\ arg[u] = e /\ u \notin OSEventTbl[e]
                                  /\ ~BeingDeleted(u)} |-> OSTCBMsg[t]]]

(***************************************************************************)
(* Mailboxes and queues implement MessageBox: the ring keeps its order     *)
(* when posts at the back, posts at the front and pends wrap it in any     *)
(* order, and a message handed over while the receiver has timed out or is *)
(* suspended is put into that task's TCB and no other's.  What a pend and  *)
(* a post return is not part of the abstract state: the next two           *)
(* properties are about that.                                              *)
(***************************************************************************)
Abstract == INSTANCE MessageBox
              WITH Box <- Event, Null <- None, kept <- [e \in Event |-> Kept(e)],
                   waiting <- OSEventTbl, handed <- Handed
ImplementsMessageBox == Abstract!Spec

(***************************************************************************)
(* OSMboxPend and OSQPend report OS_TIMEOUT exactly to the tasks no post   *)
(* and no deletion has taken off the wait list, and such a task has no     *)
(* message: a post between the tick that times the waiter out and the      *)
(* moment it runs again is delivered, not swallowed by the timeout.        *)
(***************************************************************************)
TimeoutOrMessage ==
  \A t \in Task : At(t, "pended") =>
    /\ OSTCBPendTO[t] <=> t \in OSEventTbl[arg[t]]
    /\ OSTCBPendTO[t] => OSTCBMsg[t] = None

(***************************************************************************)
(* A task's post returns OS_MBOX_FULL or OS_Q_FULL only if nobody waits    *)
(* and the box holds all it can; otherwise the message is now in the TCB   *)
(* of a task that waited, or one of those kept, whichever way posts and    *)
(* pends, a flush or a new creation have left the ring.  (A refusal in an  *)
(* interrupt handler changes nothing at all: no property of steps sees it.)*)
(***************************************************************************)
Capacity(e) == IF OSEventType[e] = "MBOX" THEN 1 ELSE QSize
Posting(t) == At(t, "mboxPost") \/ At(t, "qPost") \/ At(t, "qPostFront")

RefusedOnlyFull ==
  [][\A t \in Task, e \in Event :
       Posting(t) /\ arg[t] = e /\ pc'[t] # pc[t] =>
         \/ \E u \in OSEventTbl[e] : u \notin OSEventTbl'[e] /\ OSTCBMsg'[u] \in Msg
         \/ Len(Kept(e)') = Len(Kept(e)) + 1
         \/ OSEventTbl[e] = {} /\ Len(Kept(e)) = Capacity(e)]_vars

(***************************************************************************)
(* Every event block is in use, being filled in or on the free list, and   *)
(* every OS_Q belongs to one queue or is free: creations that fail half    *)
(* way and deletions lose none and hand none out twice.                    *)
(***************************************************************************)
FreeBlocks ==
  LET n == Cardinality(Event)
      at[i \in 0 .. n] == IF i = 0 THEN OSEventFreeList
                          ELSE IF at[i - 1] \in Event THEN OSEventPtr[at[i - 1]]
                          ELSE None
  IN  {at[i] : i \in 0 .. n} \ {None}

BlocksConserved ==
  LET filling(l) == {arg[t] : t \in {u \in Task : pc[u] \in l}}
      owned == {e \in Event : OSEventType[e] = "Q"} \cup filling({"qFill"})
  IN  /\ TypeOK
      /\ FreeBlocks = {e \in Event : OSEventType[e] = "UNUSED"}
                        \ filling({"mboxInit", "qcbTake", "qFill"})
      /\ \A e, f \in owned : e # f => OSEventPtr[e] # OSEventPtr[f]
      /\ OSQFreeList = Qcb \ {OSEventPtr[e] : e \in owned}

=============================================================================
