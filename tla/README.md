# stdapi in TLA+

This directory holds a verification project for *stdapi*, the SDK of the AT91
development board in this repository: TLA+ models of its kernel (uC/OS-II), its
ring queue, its memory allocator, its device framework, and of the TCP, the
timeouts and the sockets of its lwIP stack, TLC configurations that check them on small instances, and TLAPS proofs of the properties that
matter most, for every value of the constants. Paths are relative to the
repository: `src/` has the C and assembly files, `inc/` the headers.

Contents:

1. [The system](#1-the-system): components, state, interaction, what is hard
2. [How the code is modelled](#2-how-the-code-is-modelled)
3. [The modules](#3-the-modules)
4. [The runs](#4-the-runs): bounds, what each shows, why the bounds are enough
5. [Fairness](#5-fairness)
6. [The proofs](#6-the-proofs)
7. [Where the code departs from its documentation](#7-where-the-code-departs-from-its-documentation)
8. [Calls the code does not cope with](#8-calls-the-code-does-not-cope-with)
9. [What is not modelled](#9-what-is-not-modelled)
10. [Plan](#10-plan)
11. [Running it](#11-running-it)

## 1. The system

An application is a set of uC/OS-II tasks, each with a priority of its own, on
one ARM core. Below the tasks are the kernel and the interrupt handlers; beside
the kernel are the SDK's services (devices, memory, queues, timers, handles for
kernel objects, keyboard, display) and the lwIP stack with its own thread.

### Components

The configuration (`inc/os_cfg.h`, `inc/lwipopts.h`) compiles in semaphores,
mailboxes, queues, mutexes and memory partitions, TCP and UDP; event flags and
DHCP are compiled out.

| component | source | state | operations |
|---|---|---|---|
| kernel core | `os_core.c`, `os_cpu_a.s`, `cstartup_flash.s` | ready list `OSRdyTbl`, the running task, `OSIntNesting`, `OSLockNesting`, TCBs and `OSTCBPrioTbl`, a wait list per event | `OS_Sched`, lock and unlock, interrupt entry and its two exits, `OSTimeTick`, `OS_EventTaskRdy/Wait/TO`, `OS_TCBInit` |
| tasks and time | `os_task.c`, `os_time.c` | the same TCBs: status, delay, timeout flag | create, delete, suspend, resume, change priority, delay, resume a delay |
| semaphores | `os_sem.c` | type, count and wait list of an event block, the list of free blocks | create, delete, pend, accept, post, set |
| mailboxes, queues | `os_mbox.c`, `os_q.c` | the message, or an `OS_Q` with a ring of messages; `OSTCBMsg` | create, delete, pend, accept, post (front, to all), flush |
| mutexes | `os_mutex.c` | owner, its own priority and the inheritance priority (PIP) | create, delete, pend, accept, post |
| memory partitions | `os_mem.c` | a linked list of free blocks | create, get, put |
| ring queue | `queue.c` | `TQueue`: a buffer, `Head`, `Tail`, `Count` | initialise, push, pop, full, empty |
| memory allocator | `memory.c` | a list of blocks in address order, a semaphore, counters | allocate, reallocate, free |
| device framework | `device.c` | a table of drivers with an open flag and a semaphore each | register, unregister, open, close, read/write/seek/ioctl |
| system objects | `system.c` | tables of handles for semaphores, queues, threads, timers | create, close, wait, post |
| timers | `timer.c` | a table counted down by the handler of TC1 | create, release, set, reset |
| debug output | `debug.c` | a ring of lines that one task prints | `debugf` |
| keyboard, serial | `keyboard.c`, `hotkey.c`, `serial.c` | a ring that a handler fills | scan or receive, read |
| lwIP | `sys*.c`, `tcpip.c`, `tcp*.c`, `mem*.c`, `pbuf.c`, ... | buffers, pools, timeout lists, connections, ARP table | a thread that handles messages, packets and timeouts |
| display, conversions | `gbase.c`, `lcd.c`, `kprintf.c`, ... | none that outlives a call, or pixels | drawing, formatting |

`PROJECT.json` has the full list with the files of each component.

### Interaction

* **Tasks and kernel.** A task enters the kernel by a call, which changes the
  state inside one or several critical regions (interrupts off) and often ends
  with `OS_Sched()`. A pend has a second half, after the switch back.
* **Handlers and kernel.** The tick (TC0) counts delays down, one TCB per
  critical region, and leaves through `OSIntExit`. All other handlers run under
  `irq_manager` and leave through `IRQ_EXIT`, which does not reschedule. They
  signal semaphores (`isr_eth`) and push into rings (keyboard, UART).
* **Services and kernel.** `device.c`, `memory.c`, `system.c` and lwIP use the
  kernel's semaphores and queues; `newlib.c` passes `open`, `read`, `malloc`,
  `free` on to the device framework and the allocator.
* **Rings.** `TQueue` has no lock: the producer is a handler (or runs with
  interrupts off), the consumer a task.
* **lwIP.** API calls become messages to the tcpip thread over a queue
  (`sys_arch.c`), answers come back over a semaphore or a queue; the network
  interface's thread feeds packets in the same way. The tcpip thread calls back
  into `sockets.c` (`event_callback`), which wakes the tasks asleep in
  `lwip_select`; these may be more urgent than it and run before the call
  returns. Every thread of lwIP has a list of timeouts, whose handlers run inside
  whatever wait of the thread they expire in.

### What is hard, and what makes each component correct

* *Interleaving.* Between any two critical regions of a call the tick, a handler
  and then a more urgent task may run. The ready list is maintained by seven
  functions, each with a test of its own ("is it also suspended? also delayed?
  also waiting?"). **It must hold exactly the runnable tasks; the most urgent of
  them must get the CPU; a wakeup must not be lost.**
* *Timeouts.* A task whose wait timed out is ready but stays in the wait list
  until it runs, so a post may still choose it. **It must then get the event and
  not a timeout; a timed-out call must not swallow a message.**
* *Checks outside of the region.* Every event function tests `OSEventType`
  before it disables interrupts; `device.c` tests `Opened` before it pends.
  **The test must still be true when it is relied on** — it is not always, see
  section 7.
* *Half-finished operations.* `OSTaskCreate`, `OSQCreate` and `OpenDevice`
  allocate in one step and use in another; each has an error path. **No TCB,
  event block, `OS_Q` or semaphore may be lost or handed out twice.**
* *Priorities that change.* A mutex raises its owner wherever that is: ready,
  delayed, suspended, or in another wait list. **The owner must be at least as
  urgent as the waiters, get its own priority back, and stay findable.**
* *Boundaries.* A full ring in either direction, a semaphore at its maximum, a
  block of memory that just fits, sizes whose sum wraps around.
* *An unreliable network.* Segments are lost, doubled and overtaken; a timer may
  fire while the answer is on its way. **What an application receives is what the
  other one wrote; the two ends never lose each other.**
* *Callbacks.* An event is counted for a connection before its socket exists, in
  several places, by several tasks. **The counts must match the messages; nobody
  sleeps over data; nothing that was freed is used.**
* *Relative times.* A list of differences is inserted into, shortened, and counted
  down by a wait that was interrupted. **No timer early, none lost, none twice.**
* *Long sequences.* Many frees in any order, then a reallocation: **the blocks
  of the allocator must still tile the memory and no task's block may move.**

`PROJECT.json` lists the hazards at their lines with the properties that cover
each, or the reason why none does.

## 2. How the code is modelled

* **One step per critical region.** The region between `OS_ENTER_CRITICAL` and
  `OS_EXIT_CRITICAL` is atomic on this single-core processor, and everything
  outside of a region may be interrupted. So a kernel call is a sequence of
  actions: the tests before the region (`SemCall`, `MsgCall`, `MutexCall`), the
  region (`SemTake`, `SemWait`, `SemPost`, ...), `OS_Sched`, and the second half of
  a pend (`SemPended`, `MsgPended`, `Pended`). `pc[t]` is where task `t` is,
  `arg[t]` the event or the task its call is about.
* **One CPU.** A task takes a step only if it is `OSPrioCur` and no handler is
  active. That a task keeps its place in a call while it is switched out is what
  `pc` stands for; the stacks and registers are left out.
* **Interrupts.** `irq` is a handler below `irq_manager`, `tick` the clock's
  handler. A handler may come whenever no region is active. The tick has the
  lowest level of the interrupt controller and `OSTimeTick` enables interrupts
  between two TCBs, so other handlers nest on it and not the reverse. Two of
  those other handlers never nest on each other (they run with interrupts off).
* **Names.** In `OsCore` a task is its priority: without mutexes and
  `OSTaskChangePrio`, which nothing in this repository but the kernel itself
  uses, a priority never changes hands while a task lives. `OsMutex` is the model
  in which it does, and there a task is its TCB.
* **Data.** The ready and wait bitmaps (`OSRdyGrp`/`OSRdyTbl`, `OSUnMapTbl`) are
  sets of priorities and `Highest`; linked lists of free blocks are pointers where
  their order can matter (`OSEventFreeList`) and a number or a set where it cannot
  (`OSTCBFree`, `OSQFreeList`). Messages and items are model values.
* **Errors.** A call that returns an error before it changes anything is not a
  step. Where an error is found inside a region (full, not the owner, tasks
  waiting) it is a branch of that region, because the call gets there in several
  steps and the state may have changed in between.
* **lwIP.** Its threads share little, so a step is an access to something shared:
  in `SysTimeouts` a call of `sys.c`, in `Sockets` a region under `selectsem` or an
  operation on a mailbox, in `Tcp` a whole segment or a timer of one host (the tcpip
  thread does one thing at a time). The kernel's semaphores and mailboxes are
  taken as `CountingSemaphore` and `MessageBox` state them: a counter and a sequence.
* **The application is arbitrary.** A task that is not in a call may make any
  call with any argument, within the constants of the configuration. Exceptions
  are named by constants or by guards with a comment: a call that would block with
  the scheduler locked (`MayBlock`), the calls of section 8.

Definitions marked `Slip:` in a comment are not part of any specification. Each
is a plausible mistake in one definition of the model; the list of `mutants` in
`PROJECT.json` says which property each of them violates when it takes the place
of the right definition. They show that the properties depend on the code.

## 3. The modules

```
OsCore <- OsTask <- OsSem  <- MCOsSem,  OsSem_proofs
                \      \.. CountingSemaphore     (.. : implements)
                 \<- OsMsg  <- MCOsMsg, OsMsg_proofs
                        \.. MessageBox
OsMutex <- MCOsMutex, OsMutex_proofs .. MutexLock
Queue   <- MCQueue, Queue_proofs     .. BoundedFifo
Memory  <- MCMemory, Memory_proofs   .. MemoryPool
Device  <- MCDevice, Device_proofs   (its semaphores as CountingSemaphore states them)
Tcp     <- MCTcp            .. ByteStream
SysTimeouts <- MCSysTimeouts, SysTimeouts_proofs .. TimerSet
Sockets <- MCSockets, SocketsInvariants <- Sockets_proofs
                            (over the tcpip thread; connections as Tcp leaves them)
```

**`OsCore`** — the state every part of the kernel shares, `EventTaskRdy`,
`EventTaskWait`, `EventTO`, the scheduler, the scheduler lock and the interrupts.
`TickOne(p)` is one round of `OSTimeTick`'s loop; `tickLeft` the TCBs still to
come (those without a delay are skipped when the tick starts, and again if a
handler has taken the delay away meanwhile). `OSIntExit` dispatches; `IrqExit`
does not, as `IRQ_EXIT` in `cstartup_flash.s` does not.

**`OsTask`** — `OSTimeDly`, `OSTimeDlyResume`, `OSTaskSuspend`, `OSTaskResume`,
`OSTaskCreate` in its steps (reserve the priority, take a TCB or give the
priority back, link the TCB) and `OSTaskDel` in its two: `TaskDelUnlink` until
`OS_Dummy`, where interrupts come in with the scheduler locked, and
`TaskDelFree`. A task may delete itself, and one that waits or has timed out.

**`OsSem`** — all functions of `os_sem.c`: `SemTake`/`SemWait`/`SemPended`
are `OSSemPend`, `SemTake`/`SemAcceptNone` are `OSSemAccept`, `SemPost` and
`IrqPost` are `OSSemPost` in a task and in a handler, `SemSet`, `EventTake` and
`SemCreate` are `OSSemCreate`, `SemDel` is `OSSemDel` with both options.
The specification composes core, tasks and semaphores.

**`CountingSemaphore`** — what a semaphore promises: units are conserved, a
signal goes to the most urgent waiter and to nobody else, who gives up takes
nothing along. In `OsSem`'s refinement a task is *granted* a unit while it is
inside the pend and no longer listed; a task that timed out is still *waiting*,
which is what makes the late post right.

**`OsMsg`** — mailboxes and queues with all their functions. `OSEventPtr`
is the union that it is in the code: a message, an `OS_Q`, or the next free
block. The ring of an `OS_Q` has its pointers as indices. `OSQPost`,
`OSQPostFront` and `OSQPostOpt` share one region operator; `QcbTake` is the half of
`OSQCreate` that may find no `OS_Q` left and gives the event block back.

**`MessageBox`** — a box keeps messages in order while nobody waits, and hands
each message to the most urgent waiter, or to all waiters, otherwise.

**`OsMutex`** — mutexes with inheritance, `OSTaskChangePrio`, and the tasks'
delays, suspensions and semaphores as the circumstances under which a priority
changes. The tick is one step here and no other handler runs: `OsCore` covers
those interleavings, and this model the ones in which priorities move.
`MovedRdy` and `MovedWait` are the bit that a changed priority moves in the
ready list or in a wait list.

**`MutexLock`** — one owner at a time; a release makes the most urgent waiter
the owner at once.

**`Queue`** — `queue.c` with `PopQueue` split at every store that a handler can
see (`PopCheck`, `PopCopy`, `PopAdvance`, `PopWrap`: `head` is `Count` between the
last two) and `PushQueue` as one step, because handlers are not interrupted by
consumers. `IsQueueFull` handles the moment in which `head` is `Count`.
**`BoundedFifo`** is the buffer of `Count - 1` items that it implements.

**`Memory`** — `memory.c`: first fit cut from the end of a free block (`Split`),
forward merging when a block is freed (`EasyMerged`), a full merge when an
allocation finds nothing (`Merged`; it then still returns NULL), `ReallocMemory` in
place or as a free and an allocation with a gap between them. Addresses count
chunks; sizes are `UINT`s and wrap (`Word`). `held` is the
environment: the pointers each task was given and not given back.
**`MemoryPool`** — a run of chunks is taken as a whole, by nobody else, and
stays as it is until it is given back as a whole.

**`Device`** — `device.c`: the table, `OpenDevice` in four steps (find, create
the semaphore, mark, the driver's `Open`, with its failure path into
`CloseDevice`), the four calls as one operation in four steps (test, pend, driver,
post), `CloseDevice` in five (test, clear the flag, pend, release, delete the
semaphore until that is not refused).

**`Tcp`** — `tcp.c`, `tcp_in.c`, `tcp_out.c`: two hosts that both run this code, one
connection, and between them a network that loses, doubles and reorders. An
operator on a control block returns the block the C function leaves, with the
segments handed to `ip_output` in `out`: `Enqueue`, `Output`, `RexmitRto`, `Rexmit`,
`ReceiveAck` (window update, duplicate and new acknowledgements, the `unsent`
queue), `ReceiveData` (trimming, the sequence test, delivery), and one `Input...` per
state of `tcp_process`. `Input` is `tcp_input` from the search for the block to
the output at its end. The actions are `Input`, the application's `Connect`, `Write`,
`Recved`, `Close`, `Abort`, the timers `FastTimer`, `SlowTimer`, `GiveUp`, and `Lose`.
Sequence numbers, the window, the congestion window and the send buffer are the code's,
modulo `Modulus`. Time is left out: in a block's turn of the slow timer the retransmission
timer may have expired, or it has not and the poll has `tcp_output` send what a write has
held back, behind what is unacknowledged and without sending that again.
**`ByteStream`** — what the two applications are promised: each direction a stream
of bytes, its end after the last of them.

**`SysTimeouts`** — `sys.c`'s lists of relative times per thread, the waits of
`sys_arch.c` on a mailbox or a semaphore, each of which is `again` (look at the list),
`pend`, and `got`, `expired` (run the head's handler, wait again) or `timedout`; the
handlers that arm, re-arm and cancel timers: TCP's (`tcpip.c`), the reassembly's
(`ip_frag.c`), the start-up's (`ethernetif.c`) and that of `sys_sem_wait_timeout`.
`left` is a ghost: the milliseconds until an entry is due. **`TimerSet`** — a
set of timers, each of which goes off at most once for each time it is armed, never
before its time and never after it was cancelled.

**`Sockets`** — `sockets.c` over `api_lib.c` and `api_msg.c`, on a server: tasks
that accept, receive, send, select and close, and the tcpip thread that does the
work. `todo[t]` is what is left of the functions that task `t` is in, as a sequence of
operations: a function that is called puts its operations in front. So a callback of
the tcpip thread may be anywhere in `event_callback` when a more urgent task runs.
A region under `selectsem` is one step; `socksem` is held over many and has a holder.
Tasks are urgent (above the tcpip thread, as the application's main task) or
threads of lwIP (below it): a step of a task needs everything above it to be waiting.
`netconn_delete` is in its parts: the message to the tcpip thread, the draining of the two
mailboxes with the deletion of connections nobody accepted, the last callback.

The `MC*` modules instantiate these for TLC; they add a view and a symmetry
set for `Memory`, the bytes and first sequence numbers for `Tcp`, and what each task
calls for `Sockets`.

## 4. The runs

Priorities are numbers, a smaller one is more urgent; `9` (`20` in the mutex run)
is the idle task, which is always ready. State counts are TLC's distinct states.

| run | instance | what it shows | states |
|---|---|---|---|
| `sem` | tasks 1–3, one semaphore, counts to 1, timeouts of 1 tick, a handler that posts, suspension of the most urgent task, scheduler lock | ready list, wait lists, lost wakeups, timeouts against posts; delays end; `OsSem` implements `CountingSemaphore` | 56,090 |
| `kernel_del` | tasks 1–3 (1 is created later, no spare TCB), tasks 1 and 2 deletable, one semaphore created and deleted, no posting handler | only ready tasks run, no TCB is lost, wait lists survive deletions, the most urgent task runs | 110,240 |
| `mbox` | tasks 1–3, one mailbox, two messages, a posting handler, broadcasts, suspension and deletion of task 2, deletion and creation of the mailbox | `OsMsg` implements `MessageBox`; a timeout swallows no message | 207,376 |
| `msg_queue` | tasks 1 and 2, two event blocks, one `OS_Q` of three entries, posts at both ends and to all, flush, deletion | `OsMsg` implements `MessageBox`; only a full queue refuses a message; no event block and no `OS_Q` is lost | 364,080 |
| `mutex` | tasks 10–12, one mutex with PIP 2, one semaphore, one free priority, timeouts, suspension | inheritance, return of priorities, ownership; `OsMutex` implements `MutexLock` | 249,083 |
| `queue` | four slots, two kinds of item | `Queue` implements `BoundedFifo`; the copy is the oldest item | 1,600 |
| `device` | three tasks, two slots, two names, two semaphores; closes at any moment of the others' calls (`closeLate`) | nobody in a driver before its `Open` or after its `Release`; `CloseDevice` ends unless a call is between its test and the semaphore when the flag is cleared | 23,891 |
| `memory` | two tasks, five chunks, sizes for blocks of one, two and three chunks | room for what was asked; `Memory` implements `MemoryPool` | 19,213 |
| `tcp` | segments of two bytes, a window of three, numbers that wrap; three bytes one way and both sides close or one aborts, or five bytes one way in writes of one and three, or two bytes each way; one fault: a segment lost, doubled or overtaken, a timer (delayed acknowledgement, retransmission) that is early, or an abort | nothing acknowledged is lost, the ends stay synchronised, the window is kept, the queues stay in order; `Tcp` implements `ByteStream` | 359,998 |
| `timeouts` | the tcpip thread with TCP's and the reassembly's timers, one more thread with the start-up timers and waits of 1 and 4 ms (2 ms ticks) | no timer is lost, early or dangling; waits end; due timers fire when messages stop; `SysTimeouts` implements `TimerSet` | 240,434 |
| `sockets` | one urgent task (select, recv, close), one thread (accept, recv, send, select, close), one connection beside the listening one, three segments from the network | counts match messages, no select sleeps over data, no signal to a select that has left, nothing freed is used, every close returns | 160,327 |
| `sockets_early` | the same with data between two statements of `lwip_accept` | expected violation, section 7 | |

### The properties

Kernel and semaphores (`OsSem`):

* `ReadyExact` — the ready list holds exactly the existing tasks that are not
  pending, suspended, delayed or being deleted, after any order of ticks, posts,
  suspensions, resumptions, delays and deletions.
* `OnlyReadyRuns` — the running task is ready unless it is on its way into
  `OS_Sched` (`Leaving`); `HighestRuns` — it is the most urgent ready one.
* `WaitListed` — an entry in a wait list belongs to an existing task that is in
  the pend on that event; `BlockedIsListed` — the converse for blocked tasks.
* `NoLostWakeup` — a semaphore with units has no waiters.
* `TimeoutOrGrant` — a pend reports a timeout exactly if nobody handed it a unit,
  also when the post falls between the tick and the task's next step.
* `TcbConserved` — free, used and half-created TCBs add up.
* `DelayEnds` — liveness, section 5.
* `ImplementsSemaphore` — refinement of `CountingSemaphore`.

Messages (`OsMsg`):

* `ImplementsMessageBox` — a message lies in the box only while nobody waits, a post hands
  it to the most urgent waiter or to all, a pend returns what it was handed and nothing
  older: each is a step of `MessageBox`. What a pend reports and whether a post was refused
  are not part of the abstract state; the next two properties are about these.
* `TimeoutOrMessage` — a pend reports a timeout exactly if nothing took the task off the
  wait list, and then it has no message: a post between the tick and the task's next step
  is delivered, not swallowed. Both kinds of box share this part of the pend (`MsgPended`).
* `RefusedOnlyFull` — a task's post that neither reaches a waiter nor is kept finds no
  waiter and a full box. A handler's refused post changes nothing, so no property
  of steps can see it; it runs the same region (`PostRegion`).
* `BlocksConserved` — of both kinds of control block, through creations that fail half-way.

Mutexes (`OsMutex`): `WaitListed`, `Inheritance` (the owner is at least as
urgent as every waiter), `RaisedOnlyOwner` (a PIP in use belongs to the owner),
`ImplementsLock`.

Devices: `DriverWhileOpen`, `CloseEnds`. Memory: `RoomForRequest`,
`ImplementsPool` (no block is lost, shared, or merged while in use). Ring:
`CopiedIsOldest`, `ImplementsFifo`.

TCP (`Tcp`): `NothingLost` (a byte that was written is in the sender's queues or was
received), `Synchronised` (what one end expects lies between what the other knows to be
acknowledged and the highest it has sent), `WindowRespected`, `InSequenceOrder` (of
`unacked` and `unsent`), `ImplementsByteStream`.

Timeouts (`SysTimeouts`): `TimersAlive` (flags and counters agree with the lists, no
periodic timer is lost), `NoDanglingTimeout` (a pointer into the stack of
`sys_sem_wait_timeout` is armed only during the call; the pool loses no entry),
`ImplementsTimers`, `WaitEnds`, `FiresWhenQuiet`.

Sockets (`Sockets`): `EventsCounted` (counts, messages, and callbacks under way add
up, also before the socket exists), `NoSleepOverData`, `NoStaleSignal` (the semaphore on a
select's stack is signalled once and while it exists), `NoFreedConn`, `CloseReturns`.

Each module has one type invariant `TypeOK` (none in `Tcp`, whose operators return
whole records). All are theorems; that of `Sockets` is a part of `FreedConnsUnused`. In `OsSem`, `Queue` and
`Device` no run needs the type invariant any more; elsewhere it is a conjunct of one checked
invariant of its module (`BlocksConserved`, `WaitListed`, `RoomForRequest`, `TimersAlive`,
`NoFreedConn`). `SemsOwned` (of `Device`) and the `OnlyReadyRuns` of `OsMutex` are proved and in no run.

### The bounds, and why they are enough

* *Tasks.* The properties relate at most a waiter, a more urgent waiter or
  owner, and a third task that posts, suspends, deletes or is preempted: three
  application tasks. Where a handler plays the third part two do. What the proofs
  of section 6 establish holds for any number.
* *Delays and timeouts* (`MaxDly` 1). Ticks come at any time, so a longer delay is
  more ticks without a new order of events: between any two steps a task may be
  delayed still, or expire.
* *Counts* (`MaxCnt` 1, 65535 in the code). Empty and full, with the refused post
  at the limit. The proofs of section 6 hold for every count.
* *Scheduler lock* (`MaxLock` 1). `OSSchedLock` nests by counting; its limit of 255
  is far away and not modelled.
* *Events.* One, or two where the free list matters. The event functions
  take no second event, so more of them only multiply the states.
* *Messages* (2) and *entries* (1 for the mailbox, 3 for the queue, 4 slots for
  the ring). With two distinct messages a lost, repeated or swapped one shows; a
  ring of three wraps in both directions with something in between.
* *Boot state.* All tasks ready and nothing created but the listed events. Every
  other state in use is reached from it.
* *Memory.* Five chunks and blocks of up to three: the first chunk is never
  given away, so the rest holds one block of three and a small one, or several
  small ones: full, fragmented and mergeable. `Word` is 256, not 2^32; with
  these sizes no sum reaches it, as in the program. `View` drops `TotalBlocks`, which is
  written and never read and would count down for ever; `TaskSymmetry` is sound as
  nothing orders the two tasks and no liveness is checked.
* *Devices.* Two slots and two names: a name may come back in another slot. Of three tasks
  one is in the driver, one waits or has only passed the test, and one closes.
* *TCP.* Three plans, one of which the applications follow. Three bytes written at once are
  cut into a full segment and one of a byte, and up to three are on their way at once while the connection closes.
  With this window five bytes one way are the fewest with which a segment is chained to after a
  timeout and an acknowledgement of its first sending then covers part of it (`UnsentAcked` keeps
  it, `Fits` wraps as `tcp_output` does, `Trim` cuts it on arrival): one byte opens
  the congestion window, then a full segment and one of one byte are out, of which the
  timeout sends only the first again. In the third plan data acknowledge data. One fault of any kind at any
  moment is enough for a retransmission that meets the original, a fast
  retransmission (`DupThreshold` 2, so that it is reached), an acknowledgement
  that overtakes another, a FIN that is lost, doubled or ahead of data.
  The client's first number is two below `Modulus`, so that the numbers wrap in
  the middle of the data. `MaxRtx` 1: a second timeout gives up.
  `WindowRespected` is about a side whose peer writes nothing: when both sides send, a segment
  that is sent again has an old sequence number and a new acknowledgement;
  `tcp_receive` takes the acknowledgement and, as RFC 793 says, not the window
  (`src/tcp_in.c:640`), so that the sender adds an old window to the new number and goes
  beyond what the receiver offers, which trims it. So is `InSequenceOrder`: a segment with data announces
  a window below the segment size as none (`src/tcp_out.c:532`) and an acknowledgement as it is, so that the window
  shrinks, `tcp_rexmit` puts the oldest segment back into `unsent`, and `tcp_output` may not
  send it before younger ones in `unacked`. TLC finds this with a window of two, three bytes one
  way, one the other, and a FIN.
* *Timeouts.* The intervals are small and different enough to be before, equal to and
  after each other, and one (1 ms) is shorter than a tick. Five entries
  in the pool are as many as there are timers; one message waiting at a time.
  lwIP's own intervals are multiples of the tick of 10 ms; the time an application waits
  in a `select` is its own choice. A wait is rounded down to ticks (`src/system.c:882`),
  and so is what is taken off the next entry when it is over; an entry behind one of
  an odd length can then go off early by less than a tick. With `SleepMs = {1, 4}` no
  such order of entries exists, with `{1, 3}` and with `{1, 6}` there is one, and `ImplementsTimers`
  is violated. The theorem `TimeoutsImplementTimers` says that odd lengths are the only reason.
* *Sockets.* `Size` 2, as many sockets as netconns, as in `lwipopts.h`: one
  listens, one is accepted, deleted and accepted again. Three segments are
  enough for a handshake, data and an end, or for two connections with data or an end
  between them; after them the
  system becomes quiet, which is what a sleeper needs to sleep for ever.

`CHECK_DEADLOCK` is on in the runs of the kernel and the SDK: the idle task's ticks, a
further call or a further push are always possible. It is off for `tcp`
(the connection ends, or is idle, and does not start again) and for `sockets` (when the traffic is
over and every task waits in `accept`, `recv` or `select`, nothing happens any more).

## 5. Fairness

`sem` checks `DelayEnds` under `FairSpec`. It assumes, in `OsSem!Fairness`:

* handlers end (`WF` of `IrqExit`), and the tick's own steps get done and the
  timer keeps firing (`SF` of `TickEntry` and of `TickStep`: nested handlers may hold
  the tick up again and again, but do not starve it);
* a task that is inside a kernel call and gets the CPU again and again gets to its
  next step (`SF` of `KernelStep`): interrupts leave the processor some time;
* whoever locked the scheduler unlocks it (`os_core.c`: the calls "MUST" be used in
  pair). Nothing else is assumed of the application: it may never make
  another call.

`device` assumes weak fairness of the steps of a task
inside the framework (`Inside(t)`): priorities are not part of that model, no task
is delayed for ever by another one, and a driver's function returns.

`timeouts` assumes that the clock goes on and that a task that may run does run
(`WF` of `Tick`, `Handle`, `Wait`, `Fire`, `Return`): the tcpip thread is among the most
urgent tasks, and the others get the CPU when it waits. Nothing is assumed of those
who post and signal. `FiresWhenQuiet` needs the messages to end: the wait for a
message returns 0 and not the time it took (`src/sys_arch.c:194`), so every message
starts the first timer's time again and a steady stream of them keeps every timer
from firing. Without the premise the property is violated.

`sockets` assumes `WF` of each kind of step of each task and of the tcpip thread. A step
is enabled only while nothing more urgent can go on, so this says that whatever is more
urgent waits again some time, which the bounded traffic ensures. It is not
assumed that any application calls anything.

## 6. The proofs

TLAPS checks the following for **every** value of the constants: any set of
tasks, events, devices or threads, any initial semaphores, any bound on delays, counts,
locks and queues, any calls of the application, interrupts anywhere. The hypotheses beyond
the modules' assumptions are in the last column.

| module | theorem | states | if |
|---|---|---|---|
| `OsSem_proofs` | `KernelType` | `[]TypeOK` | |
| | `ReadyListExact` | `[]ReadyExact` | |
| | `OnlyReadyTasksRun` | `[]OnlyReadyRuns` | |
| | `WaitersListed` | `[]WaitListed` | |
| | `NoWakeupLost` | `[]NoLostWakeup` | |
| | `TcbsNotDoubled` | `[]TcbNotDoubled` | |
| | `TcbsConserved` | `[]TcbConserved` | `[]NoCreatorDeleted` |
| | `MostUrgentRuns` | `[]HighestRuns` | `IrqEvent = {}` |
| | `TimeoutOrGrantWithoutDel` | `[]TimeoutOrGrant` | `DelOpts = {}` |
| | `BlockedIsListedWithoutDel` | `[]BlockedIsListed` | `DelOpts = {}` |
| | `WaitsOnSemaphoresWithoutDel` | `[]WaitsOnlyOnSemaphores` | `DelOpts = {}` |
| | `SemaphoresImplement` | `ImplementsSemaphore` | `DelOpts = {}` |
| `OsMsg_proofs` | `BoxInvariant`, `BoxTypes` | `[]IInv`, `[]TypeOK` | |
| | `BlocksAreConserved` | `[]BlocksConserved` | `[]NoFillerDeleted` |
| | `MessageBoxesImplement` | `ImplementsMessageBox` | |
| | `MessageOrTimeout` | `[]TimeoutOrMessage` | |
| | `OnlyFullRefuses` | `RefusedOnlyFull` | |
| `Memory_proofs` | `AllocatorInvariant` | `[]IInv` | |
| | `EveryRequestHasRoom` | `[]RoomForRequest` | |
| | `AllocatorImplementsPool` | `ImplementsPool` | |
| `Queue_proofs` | `QueueType`, `PopTakesOldest` | `[]TypeOK`, `[]CopiedIsOldest` | |
| | `RingIsFifo` | `ImplementsFifo` | |
| `Device_proofs` | `DeviceType` | `[]TypeOK` | `Allowed \subseteq {"closeLate"}` |
| | `DriverOnlyWhileOpen` | `[]DriverWhileOpen` | `Allowed \subseteq {"closeLate"}` |
| | `SemaphoresOwned` | `[]SemsOwned` | `Allowed \subseteq {"closeLate"}` |
| | `OneTaskInDriver` | `[]OneInDriver` | `Allowed \subseteq {"closeLate"}` |
| `OsMutex_proofs` | `MutexType` | `[]TypeOK` | `Allowed \subseteq {"changeWaiter"}` |
| | `MutexWaitersListed` | `[]WaitListed` | `Allowed \subseteq {"changeWaiter"}` |
| | `RaisedWhileOwner` | `[]RaisedOnlyOwner` | `Allowed \subseteq {"changeWaiter"}` |
| | `MutexOnlyReadyRuns` | `[]OnlyReadyRuns` | `Allowed \subseteq {"changeWaiter"}` |
| | `OwnerInherits` | `[]Inheritance` | `Allowed = {}`, `PipsMostUrgent` |
| | `MutexesImplement` | `ImplementsLock` | `Allowed \subseteq {"changeWaiter"}` |
| `SysTimeouts_proofs` | `TimeoutType` | `[]TypeOK` | `Outsider = {}`, `PoolSuffices` |
| | `TimersStayAlive` | `[]TimersAlive` | the same |
| | `NoTimeoutDangles` | `[]NoDanglingTimeout` | the same |
| | `NoTimeoutIsLost` | `[]RoomForEach` | the same |
| | `TimeoutsImplementTimers` | `ImplementsTimers` | the same, and every interval a multiple of a tick |
| `Sockets_proofs` | `SocketsShape` | `[](Shape /\ CallsOK)` | |
| | `SignalsInvariant` | `[]Signals` | `Alone` |
| | `OneSignalPerSelect` | `[]NoStaleSignal` | `Alone` |
| | `OwnersInvariant` | `[]Good` | `"orphan" \notin Allowed` |
| | `FreedConnsUnused` | `[]NoFreedConn` | `"orphan" \notin Allowed` |

*Assumptions.* `CoreAssumption` (tasks are naturals, the idle task is the least
urgent and exists, tasks, events and NULL differ, events are finitely many),
`TargetAssumption` (the idle task is neither suspended nor deleted),
`SemAssumption`, `CountAssumption`, `MsgAssumption`, `MemoryAssumption` (sizes do not come
near 2^32, a header is smaller than a chunk), `DeviceAssumption`, `MutexAssumption`,
`TimeoutAssumption` and `SocketsAssumption` (finitely many netconns, as many sockets). TLC evaluates them in every run.

*Hypotheses, and why the code needs them.*

* `Allowed \subseteq {...}`: of the calls of section 8 only the named ones are made. With any
  other element one of the theorems of that module is false, which TLC shows; only `closeTwice`
  is left out for the sake of the proof (`Alone`): TLC finds no violation of `DriverWhileOpen` and `SemsOwned` with it. So
  `Device`'s hold when a device is closed at any moment of any calls, unless its semaphore
  is deleted before a call that has passed the test pends on it, and `OsMutex`'s when any
  task's priority is changed, a waiter's or an owner's too, unless it has timed out and not run since.
  Only `OwnerInherits` needs that no waiter's is.
* `DelOpts = {}`: with deletions neither `TimeoutOrGrant` nor `BlockedIsListed` holds
  (section 7, point 3); `SemaphoresImplement` rests on the same invariant.
* `IrqEvent = {}`: `IRQ_EXIT` does not schedule (section 7, point 2), so after a post by
  a handler a less urgent task may go on until the next tick.
* `[]NoCreatorDeleted`: a task that is deleted between taking a TCB and linking it takes the
  TCB along. That is the only way to lose one; none is ever doubled.
* `[]NoFillerDeleted`: in the same way `OSTaskDel` of a task between taking an event block
  and giving it its type loses the block (and the `OS_Q`). Nothing else of
  `OsMsg_proofs` depends on it; `BoxInvariant` and the refinement hold with such deletions.
* `PipsMostUrgent`: `OSMutexCreate` assumes a PIP "LOWER in value than ANY of the tasks competing
  for the mutex" (`src/os_mutex.c:108`) and cannot check it.
* `Outsider = {}`: lwIP's timers are started by its own threads (section 7, point 6).
* `PoolSuffices`: the pool has an entry for each timer there can be, which are TCP's, the
  reassembly's, two of the interface's and one per thread that waits.
  `MEMP_NUM_SYS_TIMEOUT` is 6 (`inc/lwipopts.h:113`): enough for two such threads.
  With fewer, `sys_timeout` gives up silently and the timer is gone.
* Multiples of a tick: see the bounds of `timeouts` in section 4.
* `Alone`: urgent tasks call `lwip_select` without a timeout (with one,
  `NoStaleSignal` is false, section 8), and no thread of lwIP selects while another one
  receives or accepts. The run's instance has it. The second half is what this proof needs
  and may be more than the code does: TLC finds no violation with a thread that selects and one that
  makes all other calls. There a thread's own `event_callback` has nobody to wake, but only
  because `rcvevent` is as large as the messages, which is `EventsCounted` and not proved.
* `"orphan" \notin Allowed`: no handshake completes after its listener was deleted; with one
  `NoFreedConn` is false (section 8). Data in the middle of the addition and selects that time
  out do not matter to it.

*Kernel.* None of the five invariants is inductive. `IInv` joins them with

* `NestingOK`: `OSIntNesting` counts the active handlers;
* `IdleOK`: the idle task exists, is ready and is in no call, so the ready list is
  never empty and `Highest` is defined (`HighestReady`);
* `ArgOK`, `CreateOK`: a call is about an event or a task as it should be, and
  a priority that is being given to a new task is reserved, for one creator;
* `DelOK`: a deletion in progress holds the scheduler lock, belongs to the running
  task, and its victim is unlisted, undelayed and not timed out, so that no tick
  and no post can revive it before its TCB is freed;
* `DeadOK`: a task that does not exist has no status, delay or timeout;
* `PendOK`: the pending status and the timeout flag exclude each other, both
  exist only inside a pend, and a listed task has one of the two — this is what
  ties a wait list to the status `OS_EventTaskRdy` clears;
* `CurOK`: the running task is ready unless it is about to give the CPU up, and
  with the scheduler locked it does not give it up.

Each action preserves `IInv` by a lemma of its own, most of them over the two or
three conjuncts it can disturb; `SpecIInv` puts them together. `HighestIn` rests on
the library's theorem that `<` on the naturals is well-founded.

*Timeouts of semaphores.* The invariant `DInv` adds the free list: a set of blocks closed
under its links, of which no two have the same successor (`FreeList`), so that a creation
can neither hand out a block that is in use nor one that another task is filling in; and
`ListedOK`: who has the pending status or the timeout is in the list of the event it called
with.

*Semaphores as `CountingSemaphore`.* Under `IInv` and `DInv` each step of the kernel does one of
few things to the abstract state: nothing (`SamePends`), a unit taken or counted,
a task that starts to wait, one that is granted a unit, one that leaves. The lemmas name
these effects, each action is shown to have one of them, and the effect to be a step of
`CountingSemaphore`. A deleted task, a suspended one and one that timed out are the
cases in which it is not obvious who was granted what.

*TCBs and scheduling.* `Total` is the free TCBs and the cardinalities of two sets of tasks, those
that exist and those that hold a TCB to fill in; each step changes each by at most one
element (`TcbStep`). `MostUrgent` strengthens `HighestRuns` to the moments at which it is false:
what a step readied is more urgent than the running task only while the scheduler is
locked, the tick is active, or the running task is on its way into `OS_Sched`.

*Mailboxes and message queues.* `IInv` is the invariant of the kernel core for these events (`KInv`, the
parts above; the status of a waiter is the type of its box, which is why a box may not be
deleted between a call's test and its region, `RegionOK`), and of the boxes, `MInv`: a
block that is being filled in is one task's (`FillOK`), each queue, also one in the
making, has an `OS_Q` of its own, which is not free (`OwnOK`), and `OSQIn` is where `OSQOut` and the number of
entries put it (`RingOK`). `FreeOK` says that a part of the spare blocks makes up the free list;
`AllFree`, which conserves the blocks, that all of them do.
What lies in a ring is the sequence `InRing`, by residues; `RingOut`, `RingIn` and
`RingFront` say what the three stores do to it on either side of the wrap: `Tail`, `Append` and a new first message.
For the refinement the hard part is who holds a message. A task `Has` one from the moment it is taken out of
the wait list until it leaves the pend; a timeout, a suspension, a resumption and a deletion
each leave the map from holders to messages as it was or end one entry. A step is one of
`Fetch`, `Keep`, `Clear`, `Wait`, `Serve`, `Broadcast`, `Close`, `Return`, `GiveUp` or
nothing for the abstract box, with a lemma for each. `MessageOrTimeout` has an invariant of its own,
`TInv`: who is in a pend and not listed has been taken off by a post or a deletion, which
cleared its timeout, and who is listed has no message. `OnlyFullRefuses` goes through the
regions of the three posts: each hands the message on, adds it to `Kept`, or finds the box full.

*Allocator.* `IInv` says that the list tiles the memory from 0 to `MaxChunks` and never begins with an
allocated block (`ListOK`, from which it is never empty and addresses name blocks), that each pointer somebody
holds leads to one allocated block with room (`HeldOK`) and that who is inside a free or
a realloc still holds the pointer (`CallOK`). `Merged` is a recursive function over the
list. That it keeps a tiling a tiling and all allocated blocks as they are is proved by `SetInduction` (below)
over the number of blocks it has gone through, and `EasyMerged` is the same for the middle
of three parts. So every step allocates one block, releases one or keeps them
all (`PoolStep`), which is what `MemoryPool` says of the chunks.

*Ring.* `PopInProgress` says that the ring stays non-empty between the test and
`++Head` and that the copy stays the item at `Head`: the producer never writes there. For the
refinement the contents are `Ring(b, h, t)`, the items from one index to the other modulo `Count`;
the lemmas say what a push at `t` and an advance of `h` do to it, with and without a wrap.

*Devices.* The tests of `Opened` are made long before they are relied on. `IInv` says what keeps
them true: at most one task opens or closes a device (`Alone`), whoever has passed the test
finds the driver open or `CloseDevice` before the deletion of the semaphore, which it keeps taken
(`Dying`, in `CallOK`), a semaphore has one device and a
device in use one semaphore (`SlotOK`, `SemOK`), and the semaphore is a lock: one
task at most is past it, and then its count is 0 (`HoldOK`).

*Mutexes.* The kernel names a task by its priority in four places (the ready list, the wait lists,
`OSTCBPrioTbl`, the count of a mutex), and the priority changes under all of them. `IInv` says that each
name still leads to the task it was written for: `PrioOK` (the table finds every task;
a second entry of a task is the one its mutex gives back), `FreeOK` and `OwnOK` (an owner has the
PIP or its own priority, which nobody took meanwhile; it owns one mutex and waits for
nothing), `WaitOK` (listed means inside the pend, under the present priority), `ReadyOK`, `IdleOK`,
`CallOK` (a PIP being created is reserved, for one task), `CurOK` (`OSPrioCur` is the running
task's or nobody's: `OS_Sched` cannot mistake another task for it). `Inheritance` is inductive relative to `IInv`.
For `MutexLock` every step is quiet but the four that move a mutex or its waiters and
`OSTaskChangePrio`, which renames a waiter in its list (`QuietOrNot`).

*Timeouts of lwIP.* A list holds differences, so its meaning is in the sums `Before(list)[i]`. The
first part of the module is about these: what `sys_timeout` (`Put`), `sys_untimeout` and the removal
of the head do to the handlers and to the sums. They are defined by a recursive function; what is proved
of them rests on `SetInduction`, a set of naturals that holds 0 and every successor, which the
well-foundedness of `<` gives by a least counterexample. `IInv` is the lists (no handler twice,
only the thread's own, `ListOK`), the pool (free and listed entries add up), `FlagsOK`, `CallOK` (the count
of a wait's semaphore is at most the event and the timeout, each once: after both it is
gone) and `WaitOK` (who can wake without a message has an entry to run). `RoomForTimers`
counts: the entries inject into the timers there can be, so one that is not armed leaves
a free entry. For the refinement `TimeOK` relates the sums to the ghost `left`: no timer has longer to go than
the times up to its entry, corrected in a waiting thread by the part of the wait that
is over. That the wait is a whole number of ticks is where the multiples are needed.
The effects of a step (`Quiet`: timers armed or cancelled; one that goes off; a tick) are named as above.

*Sockets.* The invariants, their parts and what an operation's step comes to are defined in
`SocketsInvariants`; `Sockets_proofs` proves them. `Shape` gives the operations their types and their order. `Follows` says what may stand
behind what in `todo`; `Behind` is what a step does to it, and each operation is shown to
be such a step with a few named operations put in front (`Steps`). `CallsOK` is the caller's rule: a socket
that a call is on stays, and no second call is on it. For `NoStaleSignal` the invariant
follows the signal from the region that chooses a select to the one that signals it: `SignalsOK`
(whom somebody is about to signal is on the list, marked, not signalled, and no one else's), `SignalsFirst` (such
a step is always the next one of its task) and `Callers` (which calls lead there). `NobodySignals`
is the argument: a task that could leave while it is chosen would have to run before a more
urgent one that has only to signal it.

For `NoFreedConn` the invariant `Good` adds `Owners`. `Homes` is its centre: a netconn in use is in one
place, which is a socket, the mailbox of the listening netconn, an offer of the tcpip thread on its way there, or
the hands of one task that took it out and has not published or freed it yet (`Guest`); and what is in
one place is in use. The places overlap at one point, which `Stale` takes out: between
`netconn_delete` and the clearing of the socket in `lwip_close` the socket still names a netconn that is free
and may be another's by then. `UsesOK` ties the operations to the places (a
task works on the netconn of its socket or on its guest), `OrderOK` says that the free is the last
of them. The rest is what makes that free safe: a netconn with a request or an answer under way has its one
task waiting (`RequestsOK`); while the tcpip thread still has something to do about a netconn
it is in use, and after `netconn_delete`'s request was handled, with the PCB gone, nothing more is
begun (`TcpipOK`, `DeleteOK`); only the listening netconn has a mailbox of netconns, and it is
empty when that one is freed (`QueueOK`). `WriteOK` keeps the send buffer and the semaphore in their ranges. There is a
lemma for each operation, named `...Owners`; `GoodNext` puts them together.

*Only model-checked.* Liveness (`DelayEnds`, `CloseEnds`, `WaitEnds`, `FiresWhenQuiet`,
`CloseReturns`): `ENABLED` and fairness are out of reach of the prover. Of `Sockets`, `EventsCounted` and
`NoSleepOverData`: they add up the operations of all tasks, cardinalities of sets that every step
changes. Everything
about `Tcp`: its segments are cut, joined and trimmed with numbers that wrap, by folds over
queues, for which the induction would have to be done by hand for each fold. What is proved of recursive definitions is over numbers, by a least counterexample as above.
The proofs use the specifications without symmetry, view or fairness.

## 7. Where the code departs from its documentation

One run ends with a counterexample, as expected; five more departures are found with
the modules and a changed constant, and are not among the runs.

1. **`sockets_early`** (`NoSleepOverData`). `lwip_accept` adds `-1 - newconn->socket` to
   the new socket's `rcvevent` and then overwrites `newconn->socket`
   (`src/sockets.c:201`), holding `socksem`; `event_callback` counts `conn->socket` down
   (`src/sockets.c:821`) without it. A segment that the tcpip thread handles between
   the two statements is counted in the field that is then overwritten: its data
   lie in `recvmbox`, `rcvevent` is 0, and a `select` sleeps over them until more
   come. `sockets.c:815` says "Data comes in right away after an accept, even
   though the server task might not have created a new socket yet. Just count down
   (or up) if that's the case and we will use the data later".
2. **A handler's exit** (`OsSem`, `MCKernelDel.cfg` with `IrqEvent = {e1}`: `HighestRuns`
   is violated). A handler posts a semaphore; a more urgent task becomes ready; the
   handler returns through `IRQ_EXIT` (`src/cstartup_flash.s:78`), which decrements
   `OSIntNesting` and goes back to the interrupted task. `os_core.c:289` says "You MUST
   still call OSIntExit() even though you increment OSIntNesting directly". The readied
   task waits until the next tick or kernel call.
3. **A pend and a deletion** (`OsSem`, `MCSem.cfg` with `DelOpts = {"OS_DEL_NO_PEND"}`:
   `WaitsOnlyOnSemaphores`). `OSSemPend` reads `OSEventType` (`src/os_sem.c:284`) before it
   disables interrupts. Preempted there while the semaphore is deleted, it waits on a
   block of the free list, though `os_sem.c:256` promises `OS_ERR_EVENT_TYPE`. The
   other event functions test in the same way. With deletions out of the way the
   opposite is a theorem (`WaitsOnSemaphoresWithoutDel`).
4. **A call and a close** (`Device`: `CloseEnds` without its premise). A call tests
   `Opened` and pends later (`src/device.c:308`). If `CloseDevice` clears the flag and
   takes the semaphore in between, the call waits for a semaphore that nobody will
   signal, and `CloseDevice`'s `OSSemDel(OS_DEL_NO_PEND)` is refused in every round of
   its loop. If the call has not pended yet when the semaphore is deleted (`deleteBusy` as
   well), it pends on an event that is no longer one, does not look at the error, and enters
   the driver: `DriverWhileOpen` is violated. `device.c:235` says that the flag is cleared "to keep other threads from
   waiting for the semaphore" (in Chinese).
5. **A FIN ahead of its data** (`Tcp`, `MCTcp.cfg`: `ReceivedOnce`). `tcp_process` looks at
   the FIN flag of the segment (`src/tcp_in.c:549`), not at whether `tcp_receive` took the
   segment. A FIN that overtakes data moves the state to CLOSE_WAIT, in which `rcv_nxt`
   does not advance any more (`src/tcp_in.c:945`): the data that come later are never
   acknowledged, and each retransmission of them is handed to the application again. `ByteStream`
   promises nothing for a direction on which this has happened (`broken`, the ghost `skipped` of `Tcp`).
6. **Timers outside of lwIP's threads** (`SysTimeouts`, `MCTimeouts.cfg` with
   `Sleeper = {}`, `Outsider = {main}`, `Starter = main`: `ArpTimerArmed`).
   `sys_arch_timeouts` gives every task that lwIP did not create the same
   `null_timeouts`, emptied at each call (`src/sys_arch.c:311`). If the application's
   own task calls `net_startup`, the second `sys_timeout` loses the first: ARP
   entries never expire, though `etharp.c:136` says `etharp_tmr` "should be called every"
   five seconds.

## 8. Calls the code does not cope with

The contract of some functions excludes calls that the code does not refuse. The
models have them behind guards, and a constant `Allowed` lets them in, to
explore what they would do. A property that fails then is a statement about the
contract, not a finding:

| module | element of `Allowed` | what fails with it |
|---|---|---|
| `OsMutex` | `deleteOwned` — delete a mutex that is owned | `RaisedOnlyOwner`: the owner stays raised and the PIP's table entry is cleared under it |
| | `acceptNested` — `OSMutexAccept` of a second mutex by an owner | with two mutexes `Inheritance`: a raised priority is saved as the owner's own |
| | `suspendCreated` — a raised task suspends itself by the priority it was created with | `OnlyReadyRuns`: it is not recognised as the caller |
| | `changeTimedOut` — `OSTaskChangePrio` of a task that timed out and has not run | `WaitListed`: its old priority stays listed |
| | `changeWaiter` — `OSTaskChangePrio` of a mutex's waiter | `Inheritance`: the owner is not raised again |
| `Device` | `openRace` — two tasks open one device | `DriverWhileOpen`, `SemsOwned`: two semaphores, two `Open`s |
| | `reopen` — open a device that was closed, without registering it again | `SemsOwned`: the magic number is gone, so every call, also the close, is refused |
| | `closeTwice` — two tasks close one device | `CloseEnds`: the second waits for the semaphore that the first keeps, whose `OSSemDel` is refused for ever |
| | `closeLate` — clear the flag while a call is past its test and does not have the semaphore | `CloseEnds` without its premise (section 7); the run has this element |
| | `deleteBusy` — with `closeLate`, delete the semaphore before such a call pends on it | `DriverWhileOpen` (section 7) |
| `Sockets` | `early` — data in the middle of `lwip_accept`'s addition | `NoSleepOverData`, `EventsCounted` (section 7) |
| | `orphan` — a handshake completes after its listener was deleted: the connection has copied the listener's `callback_arg` (`src/tcp_in.c:382`) | `NoFreedConn`: `accept_function` uses a freed netconn |
| | `timeout` — a `select` of an urgent task times out and returns between the search of the list and the signal (`src/sockets.c:881`) | `NoStaleSignal`: a semaphore that was freed is signalled |

In `OsMsg` and `OsMutex` an event is deleted only while no other task is between
its type test and its region (`Inside`): otherwise a link of the free list is taken
for a message or an `OS_Q`, and what follows from that is undefined. `OsSem` has no
such guard: there the outcome is defined, and it is point 3 of section 7.

## 9. What is not modelled

* **Registers and stacks** (`os_cpu_a.s`, `os_cpu_c.c`, `cstartup_flash.s` beyond
  entry and exit), the interrupt controller, the boot sequence, `OSStatInit` and
  the idle counter.
* **Event flags** and **DHCP**: compiled out.
* **Queries** (`OSSemQuery` and the like, `QueryMemoryInformation`): they change
  nothing. `OSTaskDelReq`, stack checking, `OSTimeDlyHMSM` (a loop of `OSTimeDly`),
  `OSTimeGet/Set`.
* **The 8-bit wrap of `OSLockNesting`** and sizes near 2^32 in `AllocMemory`: the
  latter are excluded by `MemoryAssumption`.
* **A task deleted inside `OSTaskCreate`** takes its reservation, and perhaps a
  TCB, with it. In `kernel_del` there is no spare TCB, so whoever has taken one in
  a creation is the only task that could be deleted or delete, and
  `TcbConserved` is not disturbed by this; a reservation may be lost there as it is
  in the code.
* **Drawing, formatting, checksums, DES, board drivers, vendored start-up code**:
  sequential, without state that other components share, or bit-level.
* **TCP**: one connection, no keepalive probes, no allocation failures but a refused
  `tcp_write`, no clock (so no round trip estimate). The out-of-sequence queue is
  compiled out (`TCP_QUEUE_OOSEQ` 0).
* **Timeouts**: one task outside of lwIP at most (two would race on `null_timeouts`,
  and one of them may follow a null pointer in `sys.c:163`); the loop interface's 1 ms
  timer; a message pool that is empty (`src/tcpip.c:184`: the message is dropped and
  its sender waits for an answer that never comes).
* **Sockets**: the client's calls, UDP and raw netconns, `MSG_DONTWAIT`, options and
  resets (`err_tcp` posts NULL into `conn->mbox`, where a later call takes it for its
  answer, `src/api_msg.c:187`; `netconn_recv` frees `recvmbox` before it clears the
  pointer, `src/api_lib.c:549`). Two calls on one socket at a time, `lwip_select`
  apart. What is left in `lastdata` is not signalled to another task's `select` that is
  already asleep (`src/sockets.c:437`); `NoSleepOverData` is about the mailboxes and the
  send buffer. `alloc_socket` always finds a socket, because there are as many
  as netconns and `lwip_close` frees both under `socksem`.
* **System objects, software timers, debug output, keyboard, serial ports, lwIP's
  buffers, UDP, ARP**: not yet; see the plan. Each is `not_modelled` in `PROJECT.json`
  with its reason.

The map covers a small share of the repository's lines: almost half of them are one font table
(`inc/songti_16x16.h`, 35,360 lines), and most of the rest is the display, board
and chip definitions, compiled-out protocols and tables.

## 10. Plan

Done, in this order: `OsCore`, `OsTask`, `OsSem` with proofs; `Queue` with proofs;
`OsMsg`; `OsMutex`; `Device`; `Memory`; `Tcp`; `SysTimeouts`; `Sockets`; then proofs for
`Device`, `OsMutex`, `SysTimeouts`, the refinement of the semaphores and the ring, `Memory`, `OsMsg` and the signals and netconns of `Sockets`.
Next, the most valuable first:

1. **Proofs**: `EventsCounted` and `NoSleepOverData` of `Sockets`; `Tcp`.
2. **lwIP's buffers**: `Pbuf`, `Memp`, `Mem`: reference counts of chains,
   pools, the heap with its `lfree` pointer; no leak, no use after free, the heap
   tiled. `MemoryPool` is the abstract specification of `Mem` as well.
3. **Reassembly and ARP**: `IpFrag` (`ip_frag.c`, holes and overlaps), `Etharp` (table
   of entries that are pending, stable and expire by timer).
4. **SDK services**: `SysObjects` (`system.c`: handles over kernel objects), `Timer`
   (`timer.c` against its handler), `Debug` (composition of `Queue` and `Memory`),
   `OsMem`, `Hotkey`, `List`.

The run of a new component replaces or joins an older one where one composed
instance answers both questions (`Debug` over `Queue`, `IpFrag` over `SysTimeouts`), so that the
whole suite stays a matter of minutes.

## 11. Running it

```
tlc -workers 2 -config MCSem.cfg MCOsSem      # every run of PROJECT.json likewise
tlapm OsSem_proofs.tla                        # every *_proofs module likewise
```

`PROJECT.json` lists the components with their files, the runs with their
properties, the mutants, the lines of code each definition stands for (`map`),
the hazards and the theorems.
