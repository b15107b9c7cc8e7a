----------------------------- MODULE SysTimeouts -----------------------------
(***************************************************************************)
(* lwIP's timeouts (sys.c) over the kernel (sys_arch.c), with the timers   *)
(* of the tcpip thread (tcpip.c), of the reassembly of fragments           *)
(* (ip_frag.c) and of net_startup (ethernetif.c), and the waits with a     *)
(* timeout of lwip_select and sys_msleep.                                  *)
(*                                                                         *)
(* Each thread of lwIP has a list of timeouts, an entry's time relative to *)
(* the entry before it.  Time passes only while the thread waits for a     *)
(* message or a semaphore: it waits no longer than the first entry says,   *)
(* and when the kernel reports a timeout it runs that entry's handler.     *)
(*                                                                         *)
(* A thread's list is its own, so a call of sys.c is one step; the threads *)
(* meet in the pool of entries, in the semaphores and in the mailbox of    *)
(* the tcpip thread.  A task that lwIP did not create has no list:         *)
(* sys_arch_timeouts gives it null_timeouts, emptied at every call.        *)
(*                                                                         *)
(* left is not in the program: the milliseconds until the entry is due.    *)
(***************************************************************************)
EXTENDS Integers, Sequences, FiniteSets, FiniteSetsExt, SequencesExt

CONSTANTS
    Tcpip,            \* the thread that runs tcpip_thread
    Sleeper,          \* other threads of lwIP, which wait with a timeout
    Outsider,         \* the task of the application, or none
    Starter,          \* the task that calls net_startup
    MEMP_NUM_SYS_TIMEOUT,
    MsPerTick,        \* 1000 / OS_TICKS_PER_SEC
    TCP_TMR_INTERVAL, IP_REASS_TMO, IP_REASS_MAXAGE,
    StartupInterval,  \* ARP_TMR_INTERVAL, and the 5000 of tcp_timeout
    SleepMs,          \* the timeouts of sys_sem_wait_timeout
    Message,          \* what other threads send to the tcpip thread
    MaxMbox           \* bound: messages waiting

Task == {Tcpip} \cup Sleeper \cup Outsider
Interval == {TCP_TMR_INTERVAL, IP_REASS_TMO, StartupInterval} \cup SleepMs
Startup == {"arp_timer", "tcp_timeout"}
Handler == Startup \cup {"tcpip_tcp_timer", "ip_reass_timer", "sswt_handler"}

ASSUME TimeoutAssumption ==
    /\ Interval \subseteq Nat /\ MEMP_NUM_SYS_TIMEOUT \in Nat
    /\ MsPerTick \in Nat \ {0} /\ IP_REASS_MAXAGE \in Nat \ {0}
    /\ Tcpip \notin Sleeper \cup Outsider /\ Sleeper \cap Outsider = {}
    /\ Cardinality(Outsider) <= 1
    /\ Starter \in Sleeper \cup Outsider
    /\ Message \subseteq {"connect", "close", "fragment"} /\ MaxMbox \in Nat
    /\ IsFiniteSet(Sleeper) /\ IsFiniteSet(SleepMs)

VARIABLES
    timeouts,   \* task -> lwip_threads[...].timeouts, or null_timeouts
    free,       \* entries in the pool MEMP_SYS_TIMEOUT
    pc,         \* where a task is in sys_mbox_fetch, sys_sem_wait
    dly,        \* ticks until the kernel ends its wait, 0: none
    timeflag,   \* task -> sswt_cb.timeflag of its call
    cnt,        \* task -> count of the semaphore it waits for
    signalled,  \* task -> whether its semaphore was signalled for an event
    mbox,       \* messages for the tcpip thread
    pcbs,       \* tcp_active_pcbs || tcp_tw_pcbs
    tcpip_tcp_timer_active,
    ip_reasstmr,
    started     \* whether net_startup has been called

vars == <<timeouts, free, pc, dly, timeflag, cnt, signalled, mbox, pcbs,
          tcpip_tcp_timer_active, ip_reasstmr, started>>
waiting == <<pc, dly, timeflag, cnt, signalled>>
stack == <<pcbs, tcpip_tcp_timer_active, ip_reasstmr>>

Entry == [time : Nat, h : Handler, left : Nat]

TypeOK ==
    /\ timeouts \in [Task -> Seq(Entry)] /\ free \in 0 .. MEMP_NUM_SYS_TIMEOUT
    /\ pc \in [Task -> {"run", "again", "pend", "timedout", "expired", "got"}]
    /\ dly \in [Task -> Nat] /\ cnt \in [Task -> 0 .. 2]
    /\ timeflag \in [Task -> BOOLEAN] /\ signalled \in [Task -> BOOLEAN]
    /\ mbox \in Seq(Message) /\ Len(mbox) <= MaxMbox
    /\ pcbs \in BOOLEAN /\ tcpip_tcp_timer_active \in BOOLEAN
    /\ ip_reasstmr \in 0 .. IP_REASS_MAXAGE /\ started \in BOOLEAN

Init ==
    /\ timeouts = [t \in Task |-> <<>>] /\ free = MEMP_NUM_SYS_TIMEOUT
    /\ pc = [t \in Task |-> IF t = Tcpip THEN "again" ELSE "run"]
    /\ dly = [t \in Task |-> 0] /\ cnt = [t \in Task |-> 0]
    /\ timeflag = [t \in Task |-> FALSE] /\ signalled = [t \in Task |-> FALSE]
    /\ mbox = <<>> /\ pcbs = FALSE /\ tcpip_tcp_timer_active = FALSE
    /\ ip_reasstmr = 0 /\ started = FALSE

-----------------------------------------------------------------------------
(* The lists.  L is a pair: a list and the entries free in the pool. *)

List(t) == IF t \in Outsider THEN <<>> ELSE timeouts[t]

Of(t) == [list |-> List(t), free |-> free]

(* Before(list)[i]: the time until the i-th entry, counted from the first. *)
Before(list) ==
    LET before[i \in 0 .. Len(list)] ==
            IF i = 0 THEN 0 ELSE before[i - 1] + list[i].time
    IN  before

(* The place of a timeout of ms: behind the last entry it is not before. *)
Place(list, ms) ==
    Min({i \in 0 .. Len(list) :
            i = Len(list) \/ Before(list)[i + 1] > ms})

Put(list, h, ms) ==
    LET i == Place(list, ms)
        rest == ms - Before(list)[i]
    IN  [j \in 1 .. Len(list) + 1 |->
            IF j <= i THEN list[j]
            ELSE IF j = i + 1 THEN [time |-> rest, h |-> h, left |-> ms]
            ELSE IF j = i + 2 THEN [list[i + 1] EXCEPT !.time = @ - rest]
            ELSE list[j - 1]]

(* sys_timeout: nothing tells the caller that the pool was empty. *)
SysTimeout(L, h, ms) ==
    IF L.free = 0 THEN L
    ELSE [list |-> Put(L.list, h, ms), free |-> L.free - 1]

Armed(list, h) == \E i \in 1 .. Len(list) : list[i].h = h

(* sys_untimeout that does not give the entry's time to the next one. *)
SysUntimeoutHasty(L, h) ==
    [list |-> SelectSeq(L.list, LAMBDA e : e.h # h),
     free |-> IF Armed(L.list, h) THEN L.free + 1 ELSE L.free]

(* sys_untimeout: the first entry of the handler. *)
SysUntimeout(L, h) ==
    IF ~Armed(L.list, h) THEN L
    ELSE LET i == Min({j \in 1 .. Len(L.list) : L.list[j].h = h})
         IN  [list |-> [j \in 1 .. Len(L.list) - 1 |->
                            IF j < i THEN L.list[j]
                            ELSE IF j > i THEN L.list[j + 1]
                            ELSE [L.list[i + 1] EXCEPT !.time = @ + L.list[i].time]],
              free |-> L.free + 1]

Pop(L) == [list |-> Tail(L.list), free |-> L.free + 1]

SetList(t, L) ==
    /\ timeouts' = [timeouts EXCEPT ![t] = L.list]
    /\ free' = L.free

-----------------------------------------------------------------------------
(* Waiting: sys_mbox_fetch and sys_sem_wait *)

(* Without the line that makes 0 a tick: the kernel takes 0 for ever. *)
TicksFloor(ms) == ms \div MsPerTick

(* FetchMailBox and WaitSemaphore (system.c): milliseconds into ticks. *)
Ticks(ms) == IF ms \in 1 .. MsPerTick - 1 THEN 1 ELSE ms \div MsPerTick

Ready(t) == IF t = Tcpip THEN mbox # <<>> ELSE cnt[t] > 0

Take(t) ==
    cnt' = IF t = Tcpip THEN cnt ELSE [cnt EXCEPT ![t] = @ - 1]

(* Without the test of the first entry's time: 0 is for ever. *)
WaitAnyTime(t) ==
    LET list == List(t)
        now == FALSE
    IN  /\ pc[t] = "again"
        /\ timeouts' = [timeouts EXCEPT ![t] = list]
        /\ \/ /\ now
              /\ pc' = [pc EXCEPT ![t] = "expired"]
              /\ UNCHANGED <<dly, cnt>>
           \/ /\ ~now /\ Ready(t)
              /\ pc' = [pc EXCEPT ![t] = "got"]
              /\ Take(t)
              /\ UNCHANGED dly
           \/ /\ ~now /\ ~Ready(t)
              /\ pc' = [pc EXCEPT ![t] = "pend"]
              /\ dly' = [dly EXCEPT ![t] =
                            IF list = <<>> THEN 0 ELSE Ticks(list[1].time)]
              /\ UNCHANGED cnt
        /\ UNCHANGED <<free, timeflag, signalled, mbox, stack, started>>

(* To `again:' and into the kernel: wait for the first entry's time, or    *)
(* for ever; an entry whose time is 0 runs before anything is fetched.     *)
Wait(t) ==
    LET list == List(t)
        now == list # <<>> /\ list[1].time = 0
    IN  /\ pc[t] = "again"
        /\ timeouts' = [timeouts EXCEPT ![t] = list]
        /\ \/ /\ now
              /\ pc' = [pc EXCEPT ![t] = "expired"]
              /\ UNCHANGED <<dly, cnt>>
           \/ /\ ~now /\ Ready(t)
              /\ pc' = [pc EXCEPT ![t] = "got"]
              /\ Take(t)
              /\ UNCHANGED dly
           \/ /\ ~now /\ ~Ready(t)
              /\ pc' = [pc EXCEPT ![t] = "pend"]
              /\ dly' = [dly EXCEPT ![t] =
                            IF list = <<>> THEN 0 ELSE Ticks(list[1].time)]
              /\ UNCHANGED cnt
        /\ UNCHANGED <<free, timeflag, signalled, mbox, stack, started>>

(* A message or a signal for a task.  One whose wait has timed out and     *)
(* that has not run yet gets it as well (OSQPost, OSSemPost).              *)
Wake(t) ==
    IF pc[t] \in {"pend", "timedout"}
    THEN /\ pc' = [pc EXCEPT ![t] = "got"]
         /\ dly' = [dly EXCEPT ![t] = 0]
         /\ UNCHANGED cnt
    ELSE /\ UNCHANGED <<pc, dly>>
         /\ cnt' = IF t = Tcpip THEN cnt ELSE [cnt EXCEPT ![t] = @ + 1]

(* OSTimeTick *)
Tick ==
    /\ dly' = [t \in Task |-> IF dly[t] = 0 THEN 0 ELSE dly[t] - 1]
    /\ pc' = [t \in Task |-> IF dly[t] = 1 THEN "timedout" ELSE pc[t]]
    /\ timeouts' = [t \in Task |->
          [i \in 1 .. Len(timeouts[t]) |->
              [timeouts[t][i] EXCEPT
                  !.left = IF @ > MsPerTick THEN @ - MsPerTick ELSE 0]]]
    /\ UNCHANGED <<free, timeflag, cnt, signalled, mbox, stack, started>>

-----------------------------------------------------------------------------
(* The handlers; L is the list without the entry that went off. *)

(* tcp_tmr may end the last connection. *)
TcpipTcpTimer(t, L) ==
    \E p \in {pcbs, FALSE} :
        /\ pcbs' = p
        /\ tcpip_tcp_timer_active' = p
        /\ SetList(t, IF p THEN SysTimeout(L, "tcpip_tcp_timer", TCP_TMR_INTERVAL)
                           ELSE L)
        /\ UNCHANGED <<ip_reasstmr, timeflag, cnt>>

IpReassTimer(t, L) ==
    /\ ip_reasstmr' = IF ip_reasstmr = 0 THEN 0 ELSE ip_reasstmr - 1
    /\ SetList(t, IF ip_reasstmr > 1
                  THEN SysTimeout(L, "ip_reass_timer", IP_REASS_TMO) ELSE L)
    /\ UNCHANGED <<pcbs, tcpip_tcp_timer_active, timeflag, cnt>>

StartupTimer(t, h, L) ==
    /\ SetList(t, SysTimeout(L, h, StartupInterval))
    /\ UNCHANGED <<stack, timeflag, cnt>>

SswtHandler(t, L) ==
    /\ SetList(t, L)
    /\ timeflag' = [timeflag EXCEPT ![t] = TRUE]
    /\ cnt' = [cnt EXCEPT ![t] = @ + 1]
    /\ UNCHANGED stack

(* The wait is over and brought nothing: run the first entry's handler. *)
Fire(t) ==
    /\ pc[t] \in {"timedout", "expired"}
    /\ LET h == timeouts[t][1].h
           L == Pop([list |-> timeouts[t], free |-> free])
       IN  \/ h = "tcpip_tcp_timer" /\ TcpipTcpTimer(t, L)
           \/ h = "ip_reass_timer" /\ IpReassTimer(t, L)
           \/ h \in Startup /\ StartupTimer(t, h, L)
           \/ h = "sswt_handler" /\ SswtHandler(t, L)
    /\ pc' = [pc EXCEPT ![t] = "again"]
    /\ UNCHANGED <<dly, signalled, mbox, started>>

-----------------------------------------------------------------------------
(* The tcpip thread *)

Post(m) ==
    /\ Len(mbox) < MaxMbox
    /\ mbox' = Append(mbox, m)
    /\ Wake(Tcpip)
    /\ UNCHANGED <<timeouts, free, timeflag, signalled, stack, started>>

(* tcp_timer_needed, when a connection comes into the lists *)
TcpTimerNeeded ==
    /\ pcbs' = TRUE
    /\ tcpip_tcp_timer_active' = TRUE
    /\ SetList(Tcpip, IF tcpip_tcp_timer_active THEN Of(Tcpip)
           ELSE SysTimeout(Of(Tcpip), "tcpip_tcp_timer", TCP_TMR_INTERVAL))
    /\ UNCHANGED ip_reasstmr

(* ip_reass that leaves the timer of a complete datagram behind. *)
IpReassForget ==
    /\ SetList(Tcpip, IF ip_reasstmr = 0
          THEN SysTimeout(Of(Tcpip), "ip_reass_timer", IP_REASS_TMO) ELSE Of(Tcpip))
    /\ \/ ip_reasstmr' = IF ip_reasstmr = 0 THEN IP_REASS_MAXAGE ELSE ip_reasstmr
       \/ ip_reasstmr' = 0
    /\ UNCHANGED <<pcbs, tcpip_tcp_timer_active>>

(* ip_reass: a fragment starts a datagram if none is being put together;   *)
(* with it the datagram may be complete, or lie outside of the buffer.     *)
IpReass ==
    LET begun == IF ip_reasstmr = 0
                 THEN SysTimeout(Of(Tcpip), "ip_reass_timer", IP_REASS_TMO)
                 ELSE Of(Tcpip)
    IN  /\ \/ /\ SetList(Tcpip, begun)
              /\ ip_reasstmr' = IF ip_reasstmr = 0 THEN IP_REASS_MAXAGE
                                                   ELSE ip_reasstmr
           \/ /\ SetList(Tcpip, SysUntimeout(begun, "ip_reass_timer"))
              /\ ip_reasstmr' = 0
        /\ UNCHANGED <<pcbs, tcpip_tcp_timer_active>>

Handle ==
    /\ pc[Tcpip] = "got"
    /\ pc' = [pc EXCEPT ![Tcpip] = "again"]
    /\ mbox' = Tail(mbox)
    /\ \/ Head(mbox) = "connect" /\ TcpTimerNeeded
       \/ Head(mbox) = "fragment" /\ IpReass
       \/ /\ Head(mbox) = "close"
          /\ pcbs' = FALSE
          /\ UNCHANGED <<timeouts, free, tcpip_tcp_timer_active, ip_reasstmr>>
    /\ UNCHANGED <<dly, timeflag, cnt, signalled, started>>

-----------------------------------------------------------------------------
(* The other tasks *)

(* sys_sem_wait_timeout on a new semaphore: lwip_select, sys_msleep *)
SemWaitTimeout(t, ms) ==
    /\ pc[t] = "run"
    /\ pc' = [pc EXCEPT ![t] = "again"]
    /\ timeflag' = [timeflag EXCEPT ![t] = FALSE]
    /\ signalled' = [signalled EXCEPT ![t] = FALSE]
    /\ SetList(t, IF ms > 0 THEN SysTimeout(Of(t), "sswt_handler", ms) ELSE Of(t))
    /\ UNCHANGED <<dly, cnt, mbox, stack, started>>

(* event_callback: once for a call of lwip_select *)
Signal(t) ==
    /\ pc[t] \in {"again", "pend", "timedout", "expired"} /\ ~signalled[t]
    /\ signalled' = [signalled EXCEPT ![t] = TRUE]
    /\ Wake(t)
    /\ UNCHANGED <<timeouts, free, timeflag, mbox, stack, started>>

(* sys_sem_wait_timeout that removes nothing after a signal. *)
ReturnQuick(t) ==
    /\ t # Tcpip /\ pc[t] = "got"
    /\ pc' = [pc EXCEPT ![t] = "run"]
    /\ cnt' = [cnt EXCEPT ![t] = 0]
    /\ UNCHANGED <<timeouts, free, dly, timeflag, signalled, mbox, stack, started>>

(* The end of sys_sem_wait_timeout; the semaphore is freed. *)
Return(t) ==
    /\ t # Tcpip /\ pc[t] = "got"
    /\ pc' = [pc EXCEPT ![t] = "run"]
    /\ cnt' = [cnt EXCEPT ![t] = 0]
    /\ SetList(t, IF timeflag[t] THEN [list |-> timeouts[t], free |-> free]
                  ELSE SysUntimeout(Of(t), "sswt_handler"))
    /\ UNCHANGED <<dly, timeflag, signalled, mbox, stack, started>>

(* The two timeouts that net_startup sets; each call of an outsider's      *)
(* sys_timeout begins with an empty list.                                  *)
NetStartup(t) ==
    LET first == SysTimeout(Of(t), "arp_timer", StartupInterval)
        then == IF t \in Outsider THEN [first EXCEPT !.list = <<>>] ELSE first
    IN  /\ t = Starter /\ ~started /\ pc[t] = "run"
        /\ started' = TRUE
        /\ SetList(t, SysTimeout(then, "tcp_timeout", StartupInterval))
        /\ UNCHANGED <<waiting, mbox, stack>>

-----------------------------------------------------------------------------
Next ==
    \/ Tick \/ Handle
    \/ \E m \in Message : Post(m)
    \/ \E t \in Task : Wait(t) \/ Fire(t)
    \/ \E t \in Sleeper \cup Outsider :
          \/ Signal(t) \/ Return(t) \/ NetStartup(t)
          \/ \E ms \in SleepMs : SemWaitTimeout(t, ms)

(* The clock goes on, and a task that may run runs some time. *)
Fairness ==
    /\ WF_vars(Tick) /\ WF_vars(Handle)
    /\ \A t \in Task : WF_vars(Wait(t)) /\ WF_vars(Fire(t)) /\ WF_vars(Return(t))

Spec == Init /\ [][Next]_vars
FairSpec == Spec /\ Fairness

-----------------------------------------------------------------------------
(* Properties *)

TimersOf(t) ==
    {[task |-> t, h |-> timeouts[t][i].h, left |-> timeouts[t][i].left] :
        i \in 1 .. Len(timeouts[t])}

Abstract == INSTANCE TimerSet WITH
    armed <- UNION {TimersOf(t) : t \in Task}, MaxMs <- Max(Interval)

(* Whose handler is about to run *)
Due == {[task |-> t, h |-> timeouts[t][1].h, left |-> timeouts[t][1].left] :
           t \in {u \in Task : pc[u] \in {"timedout", "expired"}}}

(* The lists of relative times implement a set of timers: whatever is put  *)
(* in, taken out or waited for half, no handler runs before its time, none *)
(* runs twice, and none runs after sys_untimeout.                          *)
ImplementsTimers == Abstract!Spec /\ [](\A x \in Due : x.left = 0)

(* The flags and counters that stand for a timer agree with the lists: TCP *)
(* has its timer as long as it has connections, a datagram that is being   *)
(* put together will be given up, and the timers of net_startup, once      *)
(* started, stay (tcpip.c, ip_frag.c, ethernetif.c).                       *)
TimersAlive ==
    /\ TypeOK
    /\ pcbs => tcpip_tcp_timer_active
    /\ tcpip_tcp_timer_active = Armed(timeouts[Tcpip], "tcpip_tcp_timer")
    /\ (ip_reasstmr > 0) = Armed(timeouts[Tcpip], "ip_reass_timer")
    /\ started => \A h \in Startup : Armed(timeouts[Starter], h)

(* An sswt entry holds the address of a variable of sys_sem_wait_timeout:  *)
(* it exists only while that call lasts and has not timed out; and no      *)
(* entry is lost from the pool.                                            *)
NoDanglingTimeout ==
    /\ \A t \in Task : Armed(timeouts[t], "sswt_handler") =>
          pc[t] # "run" /\ ~timeflag[t]
    /\ free + Cardinality(UNION {{t} \X DOMAIN timeouts[t] : t \in Task})
          = MEMP_NUM_SYS_TIMEOUT

(* Every wait with a timeout ends, signal or not, although the thread's    *)
(* other timers keep going off and shift each other's times.               *)
WaitEnds == \A t \in Sleeper \cup Outsider :
    Armed(timeouts[t], "sswt_handler") ~> pc[t] = "run"

(* When messages stop coming, a timer of the tcpip thread that is due goes *)
(* off.  (While they keep coming it need not: sys_arch_mbox_fetch says     *)
(* that no time has passed, so the first entry's time starts again.)       *)
FiresWhenQuiet ==
    <>[](mbox = <<>>) => \A h \in Handler :
        []<>(\A i \in 1 .. Len(timeouts[Tcpip]) :
                timeouts[Tcpip][i].h = h => timeouts[Tcpip][i].left > 0)

(* etharp_tmr "should be called every" five seconds "in order to expire    *)
(* entries in the ARP table" (etharp.c:136), so its timer stays armed.     *)
ArpTimerArmed == started => Armed(timeouts[Starter], "arp_timer")
=============================================================================
