------------------------------ MODULE TimerSet ------------------------------
(***************************************************************************)
(* What lwIP's timeouts promise: a timer is armed at most once for a task, *)
(* it goes off at most once for every time it is armed, never before its   *)
(* time, and a timer that was cancelled does not go off.  A handler may    *)
(* arm a timer of its own task again.                                      *)
(***************************************************************************)
EXTENDS Naturals

CONSTANTS Task, Handler, MsPerTick, MaxMs

VARIABLE armed \* the timers: whose, which one, how long still (milliseconds)

Timer == [task : Task, h : Handler, left : 0 .. MaxMs]

Init == armed = {}

Same(x, y) == x.task = y.task /\ x.h = y.h

(* Timers of one task are set: none of them is armed already. *)
Arm(t) ==
    LET new == armed' \ armed
    IN  /\ armed \subseteq armed'
        /\ \A x \in new : x \in Timer /\ x.task = t
        /\ \A x \in new, y \in armed' : Same(x, y) => x = y

Cancel == \E x \in armed : armed' = armed \ {x}

(* A timer goes off; what its handler sets is there when it returns. *)
GoOff == \E x \in armed :
    /\ x.left = 0
    /\ \/ armed' = armed \ {x}
       \/ \E ms \in 0 .. MaxMs :
             armed' = (armed \ {x}) \cup {[x EXCEPT !.left = ms]}

Tick == armed' =
    {[x EXCEPT !.left = IF @ > MsPerTick THEN @ - MsPerTick ELSE 0] : x \in armed}

Next == (\E t \in Task : Arm(t)) \/ Cancel \/ GoOff \/ Tick

Spec == Init /\ [][Next]_armed
=============================================================================
