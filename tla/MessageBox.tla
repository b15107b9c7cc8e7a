----------------------------- MODULE MessageBox -----------------------------
(***************************************************************************)
(* What a mailbox or a message queue of the kernel promises: messages are  *)
(* kept in order and none is lost, repeated or made up; while a task waits *)
(* nothing is kept, and a message goes to the most urgent waiter, or to    *)
(* all of them when it is broadcast.  What a call reports to its caller    *)
(* (a timeout, a full box) is not part of this state.                      *)
(***************************************************************************)
EXTENDS Naturals, Sequences

CONSTANTS Task, Box, Msg, Null

VARIABLES kept,       \* the messages in each box, oldest first
          waiting,    \* the tasks waiting at each box
          handed      \* per box and task: the message handed over (or Null)

vars == <<kept, waiting, handed>>

NoTask == [t \in {} |-> Null]

Init == /\ kept = [b \in Box |-> << >>]
        /\ waiting = [b \in Box |-> {}]
        /\ handed = [b \in Box |-> NoTask]

Fetch(b) == /\ kept[b] # << >>
            /\ kept' = [kept EXCEPT ![b] = Tail(@)]
            /\ UNCHANGED <<waiting, handed>>

Wait(b, t) == /\ kept[b] = << >>
              /\ \A c \in Box : t \notin waiting[c] \cup DOMAIN handed[c]
              /\ waiting' = [waiting EXCEPT ![b] = @ \cup {t}]
              /\ UNCHANGED <<kept, handed>>

Keep(b, m) == /\ waiting[b] = {}
              /\ \/ kept' = [kept EXCEPT ![b] = Append(@, m)]
                 \/ kept' = [kept EXCEPT ![b] = <<m>> \o @]
              /\ UNCHANGED <<waiting, handed>>

Hand(b, m, S) ==
  /\ waiting' = [waiting EXCEPT ![b] = @ \ S]
  /\ handed' = [handed EXCEPT ![b] =
                  [t \in S \cup DOMAIN @ |-> IF t \in S THEN m ELSE @[t]]]
  /\ UNCHANGED kept

Serve(b, m) == \E t \in waiting[b] : /\ \A u \in waiting[b] : t <= u
                                     /\ Hand(b, m, {t})

Broadcast(b, m) == waiting[b] # {} /\ Hand(b, m, waiting[b])

Return(b, t) == /\ t \in DOMAIN handed[b]
                /\ handed' = [handed EXCEPT ![b] =
                                [u \in DOMAIN @ \ {t} |-> @[u]]]
                /\ UNCHANGED <<kept, waiting>>

GiveUp(b, t) == /\ t \in waiting[b]
                /\ waiting' = [waiting EXCEPT ![b] = @ \ {t}]
                /\ UNCHANGED <<kept, handed>>

(* A box that is flushed, or closed and perhaps opened again, starts empty *)
(* and sends away whoever still waits with nothing.                        *)
Clear(b) == /\ kept' = [kept EXCEPT ![b] = << >>]
            /\ UNCHANGED <<waiting, handed>>
Close(b) == /\ kept' = [kept EXCEPT ![b] = << >>]
            /\ waiting' = [waiting EXCEPT ![b] = {}]
            /\ handed' = [handed EXCEPT ![b] =
                 [t \in waiting[b] \cup DOMAIN @ |->
                    IF t \in waiting[b] THEN Null ELSE @[t]]]

Next == \E b \in Box :
          \/ Fetch(b) \/ Clear(b) \/ Close(b)
          \/ \E t \in Task : Wait(b, t) \/ Return(b, t) \/ GiveUp(b, t)
          \/ \E m \in Msg : Keep(b, m) \/ Serve(b, m) \/ Broadcast(b, m)

Spec == Init /\ [][Next]_vars
=============================================================================
