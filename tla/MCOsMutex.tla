----------------------------- MODULE MCOsMutex -----------------------------
(***************************************************************************)
(* The mutexes for TLC: three application tasks of different urgency and   *)
(* the idle task, a mutex, a semaphore and a free priority.  The PIP is    *)
(* more urgent than all tasks, as OSMutexCreate's comment asks for.        *)
(***************************************************************************)
EXTENDS OsMutex
=============================================================================
