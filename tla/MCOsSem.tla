------------------------------ MODULE MCOsSem ------------------------------
(***************************************************************************)
(* Instances of the kernel for TLC; each .cfg says which calls the         *)
(* application makes.  Two or three application tasks of different urgency *)
(* and the idle task, one or two event blocks: enough for a waiter, a more *)
(* urgent waiter, and a third party that posts, suspends, deletes or is    *)
(* preempted by the tick between any two critical regions.                 *)
(***************************************************************************)
EXTENDS OsSem
=============================================================================
