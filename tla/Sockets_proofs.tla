--------------------------- MODULE Sockets_proofs ---------------------------
(***************************************************************************)
(* Proofs about the sockets, for any tasks and threads, any number of      *)
(* netconns and any calls, whatever the network sends.                     *)
(***************************************************************************)
EXTENDS SocketsInvariants, FiniteSetTheorems, WellFoundedInduction, TLAPS

-----------------------------------------------------------------------------
(* The operations of the tasks, and those of the tcpip thread *)

LEMMA TaskOp ==
    ASSUME NEW o \in TaskOps
    PROVE  /\ HasC(o) <=> o.op \in CallNames \cup {"event", "ask", "adopt", "publish"}
           /\ HasC(o) => o.c \in Conn
           /\ o.op \in CallNames => o = Op(o.op, o.c)
           /\ o.op = "event" => o = Event(o.c, "RCVMINUS")
           /\ o.op = "count" => o = Count(o.s, "RCVMINUS")
           /\ o.op \in {"adopt", "publish", "count", "search", "copy", "close", "closed", "return"}
                => o.s \in Socket
           /\ o.op = "adopt" => o = Adopt(o.c, o.s)
           /\ o.op = "publish" => o = Publish(o.c, o.s)
           /\ o.op = "return" => o = Return(o.s)
           /\ o.op = "signal" => o = Signal(o.t) /\ o.t \in Task
           /\ o.op = "ask" => o.type \in {"DELCONN", "RECV", "WRITE"}
           /\ o.op \in CallNames \cup EndNames \cup {"event", "count", "search", "copy", "close",
                         "closed", "signal", "ask", "adopt", "publish"}
  BY SMTT(60) DEF TaskOps, HasC, Op, Event, Count, Adopt, Publish, Return, Signal, CallNames, EndNames

LEMMA TcpipOp ==
    ASSUME NEW o \in TcpipOps
    PROVE  /\ HasC(o) <=> o.op \in {"event", "countdown", "answer", "post", "offer"}
           /\ HasC(o) => o.c \in Conn
           /\ o.op = "event" => o = Event(o.c, o.evt) /\ o.evt \in {"RCVPLUS", "SENDPLUS", "SENDMINUS"}
           /\ o.op = "count" => o = Count(o.s, o.evt) /\ o.evt \in {"RCVPLUS", "SENDPLUS", "SENDMINUS"}
           /\ o.op \in {"count", "search"} => o.s \in Socket
           /\ o.op = "answer" => o = Op("answer", o.c)
           /\ o.op = "countdown" => o = CountDown(o.c)
           /\ o.op = "post" => o = Post(o.c, o.m) /\ o.m \in {"data", "fin"}
           /\ o.op = "offer" => o = Offer(o.c, o.new) /\ o.new \in Conn
           /\ o.op = "signal" => o = Signal(o.t) /\ o.t \in Task
           /\ o.op \in {"event", "countdown", "answer", "count", "search", "signal", "post", "offer"}
  BY SMTT(60) DEF TcpipOps, HasC, Op, Event, Count, CountDown, Post, Offer, Signal

-----------------------------------------------------------------------------
(* What a step does to the operations of a task *)

LEMMA SeqThen ==
    ASSUME NEW S, NEW s \in Seq(S), s # <<>>, NEW ops \in Seq(S), NEW r, r = ops \o Tail(s)
    PROVE  r \in Seq(S) /\ Behind(r, ops, s)
  <1>1. Tail(s) \in Seq(S) /\ Len(Tail(s)) = Len(s) - 1 /\ Len(s) \in Nat \ {0}
        /\ \A i \in 1 .. Len(s) - 1 : Tail(s)[i] = s[i + 1]
    OBVIOUS
  <1>2. /\ r \in Seq(S) /\ Len(r) = Len(ops) + Len(Tail(s))
        /\ \A i \in 1 .. Len(ops) : r[i] = ops[i]
        /\ \A i \in 1 .. Len(Tail(s)) : r[Len(ops) + i] = Tail(s)[i]
    BY <1>1
  <1>3. Len(ops) \in Nat OBVIOUS
  <1>4. ASSUME NEW i \in 2 .. Len(s) PROVE r[Len(ops) + i - 1] = s[i]
    <2>1. i - 1 \in 1 .. Len(Tail(s)) /\ i - 1 + 1 = i /\ Len(ops) + i - 1 = Len(ops) + (i - 1)
      BY <1>1, <1>3
    <2> QED BY <1>1, <1>2, <2>1
  <1>5. ASSUME NEW j \in 1 .. Len(r), j \notin 1 .. Len(ops)
        PROVE  j - Len(ops) + 1 \in 2 .. Len(s) /\ r[j] = s[j - Len(ops) + 1]
    <2>1. j - Len(ops) + 1 \in 2 .. Len(s) /\ Len(ops) + (j - Len(ops) + 1) - 1 = j
      BY <1>1, <1>2, <1>3, <1>5
    <2> QED BY <1>4, <2>1
  <1> QED BY <1>1, <1>2, <1>4, <1>5 DEF Behind

LEMMA ExceptType ==
    ASSUME NEW D, NEW S, NEW f \in [D -> S], NEW d \in D, NEW v \in S
    PROVE  [f EXCEPT ![d] = v] \in [D -> S]
  OBVIOUS

LEMMA ThenTask ==
    ASSUME OpTypes, NEW t \in Task, todo[t] # <<>>, NEW ops \in Seq(TaskOps), Then(t, ops)
    PROVE  /\ todo' \in [Task \cup {Tcpip} -> Seq(TaskOps \cup TcpipOps)]
           /\ todo'[t] \in Seq(TaskOps) /\ Leaves(t, ops)
           /\ \A u \in (Task \cup {Tcpip}) \ {t} : todo'[u] = todo[u]
  <1>1. todo[t] \in Seq(TaskOps) BY DEF OpTypes
  <1>2. /\ todo'[t] = ops \o Tail(todo[t])
        /\ \A u \in (Task \cup {Tcpip}) \ {t} : todo'[u] = todo[u]
        /\ todo' = [todo EXCEPT ![t] = ops \o Tail(todo[t])]
    BY DEF Then, OpTypes
  <1>3. ops \o Tail(todo[t]) \in Seq(TaskOps) /\ Leaves(t, ops)
    BY <1>1, <1>2, SeqThen DEF Leaves
  <1>4. Seq(TaskOps) \subseteq Seq(TaskOps \cup TcpipOps) OBVIOUS
  <1>5. todo' \in [Task \cup {Tcpip} -> Seq(TaskOps \cup TcpipOps)]
    <2>1. ops \o Tail(todo[t]) \in Seq(TaskOps \cup TcpipOps) /\ t \in Task \cup {Tcpip}
      BY <1>3, <1>4
    <2>2. todo \in [Task \cup {Tcpip} -> Seq(TaskOps \cup TcpipOps)] BY DEF OpTypes
    <2>3. [todo EXCEPT ![t] = ops \o Tail(todo[t])]
             \in [Task \cup {Tcpip} -> Seq(TaskOps \cup TcpipOps)]
      BY <2>1, <2>2, ExceptType, Zenon
    <2> QED BY <1>2, <2>3
  <1> QED BY <1>2, <1>3, <1>5

LEMMA ThenTcpip ==
    ASSUME OpTypes, todo[Tcpip] # <<>>, NEW ops \in Seq(TcpipOps), Then(Tcpip, ops)
    PROVE  /\ todo' \in [Task \cup {Tcpip} -> Seq(TaskOps \cup TcpipOps)]
           /\ todo'[Tcpip] \in Seq(TcpipOps) /\ Leaves(Tcpip, ops)
           /\ \A u \in Task : todo'[u] = todo[u]
  <1>1. todo[Tcpip] \in Seq(TcpipOps) BY DEF OpTypes
  <1>2. /\ todo'[Tcpip] = ops \o Tail(todo[Tcpip])
        /\ \A u \in Task : todo'[u] = todo[u]
        /\ todo' = [todo EXCEPT ![Tcpip] = ops \o Tail(todo[Tcpip])]
    BY SocketsAssumption DEF Then, OpTypes
  <1>3. ops \o Tail(todo[Tcpip]) \in Seq(TcpipOps) /\ Leaves(Tcpip, ops)
    BY <1>1, <1>2, SeqThen DEF Leaves
  <1>4. Seq(TcpipOps) \subseteq Seq(TaskOps \cup TcpipOps) OBVIOUS
  <1>5. todo' \in [Task \cup {Tcpip} -> Seq(TaskOps \cup TcpipOps)]
    <2>1. /\ ops \o Tail(todo[Tcpip]) \in Seq(TaskOps \cup TcpipOps)
          /\ Tcpip \in Task \cup {Tcpip}
      BY <1>3, <1>4
    <2>2. todo \in [Task \cup {Tcpip} -> Seq(TaskOps \cup TcpipOps)] BY DEF OpTypes
    <2>3. [todo EXCEPT ![Tcpip] = ops \o Tail(todo[Tcpip])]
             \in [Task \cup {Tcpip} -> Seq(TaskOps \cup TcpipOps)]
      BY <2>1, <2>2, ExceptType, Zenon
    <2> QED BY <1>2, <2>3
  <1> QED BY <1>2, <1>3, <1>5

(* The same for the operations a call or a handler begins with *)
LEMMA CallTask ==
    ASSUME OpTypes, NEW t \in Task, NEW ops \in Seq(TaskOps), Call(t, ops)
    PROVE  /\ todo' \in [Task \cup {Tcpip} -> Seq(TaskOps \cup TcpipOps)]
           /\ todo'[t] = ops /\ \A u \in (Task \cup {Tcpip}) \ {t} : todo'[u] = todo[u]
  <1>1. ops \in Seq(TaskOps \cup TcpipOps) OBVIOUS
  <1> QED BY <1>1 DEF Call, OpTypes

LEMMA BeginTcpip ==
    ASSUME OpTypes, NEW ops \in Seq(TcpipOps), Begin(ops)
    PROVE  /\ todo' \in [Task \cup {Tcpip} -> Seq(TaskOps \cup TcpipOps)]
           /\ todo'[Tcpip] = ops /\ \A u \in Task : todo'[u] = todo[u]
  <1>1. ops \in Seq(TaskOps \cup TcpipOps) OBVIOUS
  <1> QED BY <1>1, SocketsAssumption DEF Begin, OpTypes

-----------------------------------------------------------------------------
(* The order of a task's operations *)

LEMMA OneOrMore ==
    ASSUME NEW n \in Nat, n > 0
    PROVE  n = 1 \/ n > 1
  OBVIOUS

LEMMA OrderedThen ==
    ASSUME NEW q \in Seq(TaskOps), q # <<>>, Ordered(q), q[1].op \notin EndNames,
           NEW ops \in Seq(TaskOps), Fits(ops, q[2]), NEW r \in Seq(TaskOps), Behind(r, ops, q)
    PROVE  /\ Ordered(r) /\ Len(q) > 1 /\ Len(r) > 0
           /\ r[1].op \notin {"asleep", "leave"}
  <1>0. Len(ops) \in Nat /\ Len(q) \in Nat /\ Len(r) \in Nat /\ Len(q) > 0 OBVIOUS
  <1>1. Len(q) > 1
    <2>1. 1 \in 1 .. Len(q) BY <1>0
    <2>2. Len(q) # 1 BY <2>1, Zenon DEF Ordered
    <2> QED BY <1>0, <2>2, OneOrMore, Zenon
  <1>2. /\ Len(r) = Len(ops) + Len(q) - 1
        /\ \A i \in 1 .. Len(ops) : r[i] = ops[i]
        /\ \A i \in 2 .. Len(q) : r[Len(ops) + i - 1] = q[i]
        /\ \A j \in 1 .. Len(r) :
              \/ j \in 1 .. Len(ops)
              \/ j - Len(ops) + 1 \in 2 .. Len(q) /\ r[j] = q[j - Len(ops) + 1]
    BY Zenon DEF Behind
  <1>3. ASSUME NEW i \in 1 .. Len(r)
        PROVE  /\ r[i].op \in EndNames <=> i = Len(r)
               /\ r[i].op \in {"asleep", "leave"} => i = 1
    <2>1. CASE i \in 1 .. Len(ops)
      <3>1. i # Len(r) /\ r[i].op \notin EndNames BY <1>0, <1>1, <1>2, <2>1 DEF Fits
      <3> QED BY <3>1 DEF EndNames
    <2>2. CASE i \notin 1 .. Len(ops)
      <3>1. i - Len(ops) + 1 \in 2 .. Len(q) /\ r[i] = q[i - Len(ops) + 1] /\ (i - Len(ops) + 1 = Len(q) <=> i = Len(r))
              /\ i - Len(ops) + 1 \in 1 .. Len(q) /\ i - Len(ops) + 1 # 1
        BY <1>0, <1>1, <1>2, <2>2
      <3> QED BY <1>2, <3>1 DEF Ordered
    <2> QED BY <2>1, <2>2
  <1>4. ASSUME NEW i \in 1 .. Len(r) - 1 PROVE Follows(r[i], r[i + 1])
    <2>1. CASE i < Len(ops)
      <3>1. i \in 1 .. Len(ops) /\ i + 1 \in 1 .. Len(ops) /\ i \in 1 .. Len(ops) - 1
        BY <2>1
      <3>2. r[i] = ops[i] /\ r[i + 1] = ops[i + 1] BY <1>2, <3>1
      <3> QED BY <3>1, <3>2 DEF Fits
    <2>2. CASE i = Len(ops)
      <3>1. i \in 1 .. Len(ops) /\ 2 \in 2 .. Len(q) /\ Len(ops) + 2 - 1 = i + 1 /\ Len(ops) > 0
        BY <1>1, <2>2
      <3>2. r[i] = ops[Len(ops)] /\ r[i + 1] = q[2] BY <1>2, <3>1, <2>2
      <3> QED BY <3>1, <3>2 DEF Fits
    <2>3. CASE i > Len(ops)
      <3>1. /\ i - Len(ops) + 1 \in 1 .. Len(q) - 1 /\ i - Len(ops) + 1 \in 2 .. Len(q) /\ (i - Len(ops) + 1) + 1 \in 2 .. Len(q)
            /\ Len(ops) + (i - Len(ops) + 1) - 1 = i /\ Len(ops) + ((i - Len(ops) + 1) + 1) - 1 = i + 1
        BY <1>0, <1>1, <1>2, <2>3
      <3>2. r[i] = q[i - Len(ops) + 1] /\ r[i + 1] = q[(i - Len(ops) + 1) + 1] BY <1>2, <3>1
      <3> QED BY <3>1, <3>2 DEF Ordered
    <2> QED BY <2>1, <2>2, <2>3
  <1>5. ASSUME NEW i \in 1 .. Len(r) - 2 PROVE Drained(r[i], r[i + 2])
    <2>1. CASE i + 2 <= Len(ops)
      <3>1. i \in 1 .. Len(ops) /\ i + 2 \in 1 .. Len(ops) /\ i \in 1 .. Len(ops) - 2
        BY <2>1
      <3>2. r[i] = ops[i] /\ r[i + 2] = ops[i + 2] BY <1>2, <3>1
      <3> QED BY <3>1, <3>2 DEF Fits
    <2>2. CASE i = Len(ops) \/ i + 1 = Len(ops)
      <3>1. i \in 1 .. Len(ops) /\ Len(ops) > 0 /\ (i + 1 = Len(ops) => Len(ops) > 1 /\ i = Len(ops) - 1)
        BY <2>2
      <3>2. r[i] = ops[i] BY <1>2, <3>1
      <3>3. r[i].op # "ask" BY <3>1, <3>2, <2>2 DEF Fits
      <3> QED BY <3>3 DEF Drained
    <2>3. CASE i > Len(ops)
      <3>1. /\ i - Len(ops) + 1 \in 1 .. Len(q) - 2 /\ i - Len(ops) + 1 \in 2 .. Len(q) /\ (i - Len(ops) + 1) + 2 \in 2 .. Len(q)
            /\ Len(ops) + (i - Len(ops) + 1) - 1 = i /\ Len(ops) + ((i - Len(ops) + 1) + 2) - 1 = i + 2
        BY <1>0, <1>1, <1>2, <2>3
      <3>2. r[i] = q[i - Len(ops) + 1] /\ r[i + 2] = q[(i - Len(ops) + 1) + 2] BY <1>2, <3>1
      <3> QED BY <3>1, <3>2 DEF Ordered
    <2> QED BY <2>1, <2>2, <2>3
  <1>6. Ordered(r) BY <1>3, <1>4, <1>5 DEF Ordered
  <1>7. r[1].op \notin {"asleep", "leave"}
    <2>1. CASE Len(ops) = 0
      <3>1. r[1] = q[2] /\ 2 \in 1 .. Len(q) BY <1>0, <1>1, <1>2, <2>1
      <3> QED BY <3>1 DEF Ordered
    <2>2. CASE Len(ops) > 0
      <3>1. 1 \in 1 .. Len(ops) /\ r[1] = ops[1] BY <1>2, <2>2
      <3> QED BY <3>1 DEF Fits, EndNames
    <2>3. Len(ops) = 0 \/ Len(ops) > 0 OBVIOUS
    <2> QED BY <2>1, <2>2, <2>3
  <1> QED BY <1>0, <1>1, <1>2, <1>6, <1>7

(* A task goes from one operation inside a call to the next. *)
LEMMA Inside ==
    ASSUME OpTypes, Grammar, NEW t \in Task, todo[t] # <<>>, todo[t][1].op \notin EndNames,
           NEW ops \in Seq(TaskOps), Then(t, ops), Fits(ops, todo[t][2])
    PROVE  /\ OpTypes' /\ Grammar' /\ Leaves(t, ops)
           /\ Len(todo[t]) > 1 /\ Len(todo'[t]) > 0
           /\ \A u \in (Task \cup {Tcpip}) \ {t} : todo'[u] = todo[u]
           /\ \A u \in Task : InSelect(u)' <=> InSelect(u)
  <1>1. /\ todo' \in [Task \cup {Tcpip} -> Seq(TaskOps \cup TcpipOps)]
        /\ todo'[t] \in Seq(TaskOps) /\ Leaves(t, ops)
        /\ \A u \in (Task \cup {Tcpip}) \ {t} : todo'[u] = todo[u]
    BY ThenTask
  <1>2. OpTypes' BY <1>1, SocketsAssumption DEF OpTypes
  <1>3. /\ Ordered(todo[t]) /\ todo[t] \in Seq(TaskOps)
        /\ todo'[t] \in Seq(TaskOps) /\ Behind(todo'[t], ops, todo[t])
    BY <1>1 DEF Grammar, OpTypes, Leaves, Behind
  <1>4. /\ Ordered(todo'[t]) /\ Len(todo[t]) > 1 /\ Len(todo'[t]) > 0
        /\ todo'[t][1].op \notin {"asleep", "leave"}
    BY <1>3, OrderedThen
  <1>5. Grammar'
    <2>1. ASSUME NEW u \in Task PROVE Ordered(todo'[u]) BY <1>1, <1>4 DEF Grammar
    <2> QED BY <2>1 DEF Grammar, Ordered, Follows, Drained
  <1>6. todo[t][1].op \notin {"asleep", "leave"} /\ todo'[t] # <<>> BY <1>4 DEF EndNames
  <1>7. ASSUME NEW u \in Task PROVE InSelect(u)' <=> InSelect(u)
    BY <1>1, <1>4, <1>6 DEF InSelect
  <1> QED BY <1>1, <1>2, <1>4, <1>5, <1>7

-----------------------------------------------------------------------------
(* Types and order, an operation at a time *)

LEMMA SizeType == Size \in Nat /\ Size > 0 /\ 0 \in Socket
  <1>1. Cardinality(Conn) \in Nat /\ Cardinality(Conn) # 0
    BY SocketsAssumption, FS_CardinalityType, FS_EmptySet
  <1> QED BY <1>1, SocketsAssumption DEF Socket

LEMMA FirstOp ==
    ASSUME OpTypes, Grammar, NEW t \in Task, NEW name, Doing(t, name)
    PROVE  /\ todo[t] # <<>> /\ Next1(t) = todo[t][1] /\ todo[t][1].op = name
           /\ todo[t][1] \in TaskOps
           /\ name \notin EndNames => /\ todo[t][2] \in TaskOps
                                      /\ Follows(todo[t][1], todo[t][2])
           /\ name \in EndNames => Len(todo[t]) = 1
  <1>1. todo[t] \in Seq(TaskOps) /\ todo[t] # <<>> /\ Next1(t) = todo[t][1]
    BY DEF OpTypes, Doing, Next1
  <1>2. /\ 1 \in 1 .. Len(todo[t]) /\ todo[t][1] \in TaskOps
        /\ Len(todo[t]) \in Nat /\ Len(todo[t]) > 0
    BY <1>1
  <1>3. Ordered(todo[t]) BY DEF Grammar
  <1>4. name \in EndNames <=> 1 = Len(todo[t]) BY <1>1, <1>2, <1>3 DEF Ordered, Doing
  <1>5. ASSUME 1 # Len(todo[t])
        PROVE  todo[t][2] \in TaskOps /\ Follows(todo[t][1], todo[t][2])
    <2>0. Len(todo[t]) > 1 BY <1>2, <1>5, OneOrMore, Zenon
    <2>1. 2 \in 1 .. Len(todo[t]) /\ 1 \in 1 .. Len(todo[t]) - 1 /\ 1 + 1 = 2 BY <1>2, <2>0
    <2> QED BY <1>1, <1>3, <2>1 DEF Ordered
  <1> QED BY <1>1, <1>2, <1>4, <1>5 DEF Doing

LEMMA FirstTcpip ==
    ASSUME OpTypes, NEW name, Doing(Tcpip, name)
    PROVE  /\ todo[Tcpip] # <<>> /\ Next1(Tcpip) = todo[Tcpip][1] /\ todo[Tcpip][1].op = name
           /\ todo[Tcpip][1] \in TcpipOps
  BY DEF OpTypes, Doing, Next1

LEMMA FitsNothing == ASSUME NEW p PROVE Fits(<<>>, p) /\ <<>> \in Seq(TaskOps)
  BY DEF Fits

LEMMA FitsOne ==
    ASSUME NEW o \in TaskOps, NEW p, o.op \notin EndNames, o.op # "ask", Follows(o, p)
    PROVE  Fits(<<o>>, p) /\ <<o>> \in Seq(TaskOps)
  BY DEF Fits

LEMMA FitsTwo ==
    ASSUME NEW o \in TaskOps, NEW n \in TaskOps, NEW p, {o.op, n.op} \cap (EndNames \cup {"ask"}) = {},
           Follows(o, n), Follows(n, p)
    PROVE  Fits(<<o, n>>, p) /\ <<o, n>> \in Seq(TaskOps)
  <1>1. Len(<<o, n>>) = 2 /\ <<o, n>>[1] = o /\ <<o, n>>[2] = n OBVIOUS
  <1> QED BY <1>1 DEF Fits

(* The step of a plain operation: it leaves lwip_select's list alone. *)
LEMMA Plain ==
    ASSUME Shape, NEW t \in Task, NEW name, name \notin EndNames, Doing(t, name),
           NEW ops \in Seq(TaskOps), Then(t, ops), Fits(ops, todo[t][2]),
           UNCHANGED select_cb_list, DataTypes'
    PROVE  /\ Shape' /\ Leaves(t, ops) /\ Len(todo[t]) > 1 /\ Len(todo'[t]) > 0
           /\ \A u \in (Task \cup {Tcpip}) \ {t} : todo'[u] = todo[u]
           /\ \A u \in Task : InSelect(u)' <=> InSelect(u)
  <1>1. todo[t] # <<>> /\ todo[t][1].op \notin EndNames BY FirstOp DEF Shape
  <1>2. /\ OpTypes' /\ Grammar' /\ Leaves(t, ops) /\ Len(todo[t]) > 1 /\ Len(todo'[t]) > 0
        /\ \A u \in (Task \cup {Tcpip}) \ {t} : todo'[u] = todo[u]
        /\ \A u \in Task : InSelect(u)' <=> InSelect(u)
    BY <1>1, Inside DEF Shape
  <1>3. ListOK' BY <1>2 DEF Shape, ListOK, Listed
  <1> QED BY <1>2, <1>3 DEF Shape

-----------------------------------------------------------------------------
(* Callbacks *)

LEMMA LeastIn ==
    ASSUME NEW S \in SUBSET Nat, S # {}
    PROVE  \E n \in S : \A k \in S : n <= k
  <1>1. PICK n \in S : \A k \in S : <<k, n>> \notin OpToRel(<, Nat)
    BY WFMin, NatLessThanWellFounded
  <1>2. \A k \in S : k \in Nat /\ n \in Nat /\ ~(k < n) BY <1>1 DEF OpToRel
  <1> QED BY <1>2

LEMMA ToWakeIs ==
    ASSUME DataTypes, NEW s, Waiting(s) # {}
    PROVE  ToWake(s) \in Task /\ Listed(ToWake(s)) /\ ~scb[ToWake(s)].sem_signalled
  <1>1. select_cb_list \in Seq(Task) BY DEF DataTypes
  <1>2. /\ Waiting(s) \subseteq 1 .. Len(select_cb_list) /\ Waiting(s) \subseteq Nat
        /\ DOMAIN select_cb_list = 1 .. Len(select_cb_list)
    BY <1>1 DEF Waiting
  <1>3. \E i \in Waiting(s) : \A j \in Waiting(s) : i <= j BY <1>2, LeastIn
  <1>4. PICK k \in Waiting(s) : ToWake(s) = select_cb_list[k] BY <1>3 DEF ToWake
  <1>5. k \in 1 .. Len(select_cb_list) /\ WaitsFor(select_cb_list[k], s)
    BY <1>2, <1>4 DEF Waiting
  <1>6. select_cb_list[k] \in Task BY <1>1, <1>5
  <1> QED BY <1>4, <1>5, <1>6 DEF WaitsFor, Listed

LEMMA ConnSame ==
    ASSUME DataTypes
    PROVE  \A c \in Conn : conn[c] = [conn[c] EXCEPT !.socket = conn[c].socket]
  BY DEF DataTypes, ConnType

LEMMA CallbackIs ==
    ASSUME Shape, NEW t \in Task \cup {Tcpip}, Callback(t)
    PROVE  /\ DataTypes' /\ UNCHANGED <<select_cb_list, socksem, mbox, traffic>>
           /\ todo[t] # <<>> /\ Next1(t) = todo[t][1]
           /\ \E ops : Then(t, ops) /\ CallbackOps(t, todo[t][1], ops)
           /\ SameConns
  <1>1. todo[t] # <<>> /\ Next1(t) = todo[t][1]
    <2>1. todo[t] # <<>>
      BY DEF Callback, EventCallback, CountDownEarly, CountEvent, SearchList, SignalSelect, Doing
    <2>2. todo[t] \in Seq(TaskOps \cup TcpipOps) BY DEF Shape, OpTypes
    <2> QED BY <2>1, <2>2 DEF Next1
  <1>2. todo[t][1] \in TaskOps \cup TcpipOps BY <1>1 DEF Shape, OpTypes
  <1> DEFINE o == todo[t][1]
  <1>3. /\ o.op \in {"event", "countdown"} => o.c \in Conn
        /\ o.op \in {"count", "search"} => o.s \in Socket
        /\ o.op = "signal" => o.t \in Task
    <2>1. CASE o \in TaskOps BY <2>1, TaskOp DEF CallNames, EndNames
    <2>2. CASE o \in TcpipOps BY <2>2, TcpipOp
    <2> QED BY <1>2, <2>1, <2>2
  <1>4. CASE EventCallback(t)
    <2>1. conn[o.c] \in ConnType /\ conn[o.c].socket \in Int /\ conn[o.c].socket < Size
      BY <1>1, <1>3, <1>4 DEF EventCallback, Doing, Shape, DataTypes, ConnType, Numbers
    <2>2. ~(conn[o.c].socket < 0) => conn[o.c].socket \in Socket
      BY <2>1, SizeType DEF Socket
    <2>3. DataTypes' /\ UNCHANGED <<select_cb_list, socksem, mbox, traffic>>
      BY <1>4 DEF EventCallback, select, Shape, DataTypes
    <2>6. UNCHANGED <<sockets, conn, scb>> BY <1>4 DEF EventCallback, select
    <2>7. SameConns BY <2>6, ConnSame DEF SameConns, Shape
    <2>4. o.op = "event" BY <1>1, <1>4 DEF EventCallback, Doing
    <2>5. \E ops : Then(t, ops) /\ CallbackOps(t, o, ops)
      <3>1. CASE conn[o.c].socket < 0 /\ o.evt = "RCVPLUS"
        BY <1>1, <1>4, <2>4, <2>6, <3>1 DEF EventCallback, CallbackOps
      <3>2. CASE conn[o.c].socket < 0 /\ o.evt # "RCVPLUS"
        BY <1>1, <1>4, <2>4, <2>6, <3>2 DEF EventCallback, CallbackOps
      <3>3. CASE ~(conn[o.c].socket < 0) /\ sockets[conn[o.c].socket].conn = NULL
        BY <1>1, <1>4, <2>4, <2>6, <3>3 DEF EventCallback, CallbackOps
      <3>4. CASE ~(conn[o.c].socket < 0) /\ sockets[conn[o.c].socket].conn # NULL
        BY <1>1, <1>4, <2>2, <2>4, <2>6, <3>4 DEF EventCallback, CallbackOps
      <3> QED BY <3>1, <3>2, <3>3, <3>4
    <2> QED BY <1>1, <2>3, <2>5, <2>7
  <1>5. CASE CountDownEarly(t)
    <2>1. o.op = "countdown" /\ Then(t, <<>>) /\ UNCHANGED <<select_cb_list, socksem, mbox, traffic>>
          /\ UNCHANGED <<sockets, scb>> /\ conn' = [conn EXCEPT ![o.c].socket = @ - 1]
      BY <1>1, <1>5 DEF CountDownEarly, Doing, select
    <2>2. conn[o.c] \in ConnType /\ conn \in [Conn -> ConnType] /\ o.c \in Conn
      BY <1>3, <2>1 DEF Shape, DataTypes
    <2>3. [conn[o.c] EXCEPT !.socket = @ - 1] \in ConnType
      <3>1. conn[o.c].socket \in Numbers BY <2>2 DEF ConnType
      <3>2. conn[o.c].socket - 1 \in Numbers BY <3>1, SizeType DEF Numbers
      <3> QED BY <2>2, <3>2 DEF ConnType
    <2>4. conn' \in [Conn -> ConnType] BY <2>1, <2>2, <2>3
    <2>5. \A c \in Conn : conn'[c] = [conn[c] EXCEPT !.socket = conn'[c].socket]
      <3>1. ASSUME NEW c \in Conn PROVE conn'[c] = [conn[c] EXCEPT !.socket = conn'[c].socket]
        <4>1. CASE c = o.c BY <2>1, <2>2, <4>1 DEF ConnType
        <4>2. CASE c # o.c
          <5>1. conn'[c] = conn[c] BY <2>1, <2>2, <4>2
          <5> QED BY <5>1, ConnSame DEF Shape
        <4> QED BY <4>1, <4>2
      <3> QED BY <3>1
    <2>6. SameConns BY <2>1, <2>5 DEF SameConns
    <2>7. DataTypes' BY <2>1, <2>4 DEF Shape, DataTypes
    <2>8. CallbackOps(t, o, <<>>) BY <2>1 DEF CallbackOps
    <2> QED BY <1>1, <2>1, <2>6, <2>7, <2>8
  <1>6. CASE CountEvent(t)
    <2> DEFINE s == o.s
    <2>1. /\ o.op = "count" /\ Then(t, <<Search(o.s)>>)
          /\ UNCHANGED <<select_cb_list, socksem, mbox, traffic, conn, scb>>
      BY <1>1, <1>6 DEF CountEvent, Doing, select
    <2>2. o.s \in Socket /\ sockets[o.s] \in SocketType /\ sockets \in [Socket -> SocketType]
      BY <1>3, <2>1 DEF Shape, DataTypes
    <2>3. sockets' \in [Socket -> SocketType]
      <3>1. PICK r, b : sockets' = [sockets EXCEPT ![o.s].rcvevent = r, ![o.s].sendevent = b]
                        /\ r \in Int /\ b \in BOOLEAN
        <4>1. sockets' = [sockets EXCEPT
                ![o.s].rcvevent = CASE o.evt = "RCVPLUS" -> @ + 1
                                    [] o.evt = "RCVMINUS" -> @ - 1
                                    [] OTHER -> @,
                ![o.s].sendevent = (@ \/ o.evt = "SENDPLUS") /\ o.evt # "SENDMINUS"]
          BY <1>1, <1>6 DEF CountEvent
        <4>2. sockets[o.s].rcvevent \in Int /\ sockets[o.s].sendevent \in BOOLEAN
          BY <2>2 DEF SocketType
        <4>3. CASE o.evt = "RCVPLUS"
          <5>1. sockets' = [sockets EXCEPT ![o.s].rcvevent = sockets[o.s].rcvevent + 1,
                                           ![o.s].sendevent = sockets[o.s].sendevent]
            BY <4>1, <4>2, <4>3
          <5>2. sockets[o.s].rcvevent + 1 \in Int BY <4>2
          <5> QED BY <4>2, <5>1, <5>2, Zenon
        <4>4. CASE o.evt = "RCVMINUS"
          <5>1. sockets' = [sockets EXCEPT ![o.s].rcvevent = sockets[o.s].rcvevent - 1,
                                           ![o.s].sendevent = sockets[o.s].sendevent]
            BY <4>1, <4>2, <4>4
          <5>2. sockets[o.s].rcvevent - 1 \in Int BY <4>2
          <5> QED BY <4>2, <5>1, <5>2, Zenon
        <4>5. CASE o.evt # "RCVPLUS" /\ o.evt # "RCVMINUS" BY <4>1, <4>2, <4>5
        <4> QED BY <4>3, <4>4, <4>5
      <3>2. [sockets[o.s] EXCEPT !.rcvevent = r, !.sendevent = b] \in SocketType
        BY <2>2, <3>1 DEF SocketType
      <3> QED BY <2>2, <3>1, <3>2
    <2>4. \A r \in Socket : sockets'[r].conn = sockets[r].conn
      <3>1. PICK b, n : sockets' = [sockets EXCEPT ![o.s].rcvevent = n, ![o.s].sendevent = b]
        <4>1. sockets' = [sockets EXCEPT
                ![o.s].rcvevent = CASE o.evt = "RCVPLUS" -> @ + 1
                                    [] o.evt = "RCVMINUS" -> @ - 1
                                    [] OTHER -> @,
                ![o.s].sendevent = (@ \/ o.evt = "SENDPLUS") /\ o.evt # "SENDMINUS"]
          BY <1>1, <1>6 DEF CountEvent
        <4> QED BY <4>1, Zenon
      <3> QED BY <2>2, <3>1 DEF SocketType
    <2>5. SameConns BY <2>1, <2>4, ConnSame DEF SameConns, Shape
    <2>6. CallbackOps(t, o, <<Search(o.s)>>) BY <2>1 DEF CallbackOps
    <2>7. DataTypes' BY <2>1, <2>3 DEF Shape, DataTypes
    <2> QED BY <1>1, <2>1, <2>5, <2>6, <2>7
  <1>7. CASE SearchList(t)
    <2>1. o.op = "search" /\ UNCHANGED <<sockets, conn, select_cb_list, socksem, mbox, traffic>>
      BY <1>1, <1>7 DEF SearchList, Doing
    <2>4. SameConns BY <2>1, ConnSame DEF SameConns, Shape
    <2>2. CASE Waiting(o.s) = {} /\ Then(t, <<>>) /\ UNCHANGED scb
      BY <1>1, <2>1, <2>2, <2>4 DEF CallbackOps, Shape, DataTypes
    <2>3. CASE /\ Waiting(o.s) # {}
               /\ scb' = [scb EXCEPT ![ToWake(o.s)].sem_signalled = TRUE]
               /\ Then(t, <<Signal(ToWake(o.s)), Search(o.s)>>)
      <3>1. ToWake(o.s) \in Task BY <2>3, ToWakeIs DEF Shape
      <3>2. scb' \in [Task -> ScbType] BY <2>3, <3>1 DEF Shape, DataTypes, ScbType
      <3> QED BY <1>1, <2>1, <2>3, <2>4, <3>1, <3>2 DEF CallbackOps, Shape, DataTypes
    <2> QED BY <1>1, <1>7, <2>2, <2>3 DEF SearchList
  <1>8. CASE SignalSelect(t)
    <2>1. /\ o.op = "signal" /\ Then(t, <<>>)
          /\ scb' = [scb EXCEPT ![o.t].sem = @ + 1]
          /\ UNCHANGED <<sockets, conn, select_cb_list, socksem, mbox, traffic>>
      BY <1>1, <1>8 DEF SignalSelect, Doing
    <2>2. o.t \in Task /\ scb[o.t] \in ScbType /\ scb \in [Task -> ScbType]
      BY <1>3, <2>1 DEF Shape, DataTypes
    <2>3. [scb[o.t] EXCEPT !.sem = @ + 1] \in ScbType BY <2>2 DEF ScbType
    <2>4. scb' \in [Task -> ScbType] BY <2>1, <2>2, <2>3
    <2>5. SameConns BY <2>1, ConnSame DEF SameConns, Shape
    <2> QED BY <1>1, <2>1, <2>2, <2>4, <2>5 DEF CallbackOps, Shape, DataTypes
  <1> QED BY <1>4, <1>5, <1>6, <1>7, <1>8 DEF Callback

LEMMA PlainSteps ==
    ASSUME Shape, NEW t \in Task, NEW name, name \notin EndNames, Doing(t, name),
           NEW ops \in Seq(TaskOps), Then(t, ops), Fits(ops, todo[t][2]),
           UNCHANGED select_cb_list, DataTypes'
    PROVE  Shape' /\ Steps(t, ops)
  <1>1. todo[t] # <<>> BY DEF Doing
  <1> QED BY <1>1, Plain DEF Steps

LEMMA TaskCallback ==
    ASSUME Shape, NEW t \in Task, Callback(t)
    PROVE  /\ Shape' /\ SameConns /\ UNCHANGED <<select_cb_list, socksem, mbox, traffic>>
           /\ \E ops \in Seq(TaskOps) : Steps(t, ops) /\ CallbackOps(t, todo[t][1], ops)
  <1>1. /\ DataTypes' /\ UNCHANGED <<select_cb_list, socksem, mbox, traffic>>
        /\ todo[t] # <<>> /\ Next1(t) = todo[t][1]
        /\ \E ops : Then(t, ops) /\ CallbackOps(t, todo[t][1], ops)
        /\ SameConns
    BY CallbackIs
  <1>2. PICK ops : Then(t, ops) /\ CallbackOps(t, todo[t][1], ops) BY <1>1
  <1> DEFINE o == todo[t][1]
  <1>3. Doing(t, o.op) BY <1>1 DEF Doing
  <1>4. o.op \in {"event", "search", "countdown", "signal", "count"} /\ o.op \notin EndNames
    BY <1>2 DEF CallbackOps, EndNames
  <1>5. o \in TaskOps /\ todo[t][2] \in TaskOps /\ Follows(o, todo[t][2])
    BY <1>3, <1>4, FirstOp DEF Shape
  <1>6. /\ o.op \in {"event", "count"} => o.evt = "RCVMINUS"
        /\ o.op \in {"count", "search"} => o.s \in Socket
    BY <1>5, TaskOp DEF Event, Count
  <1>7. ops \in Seq(TaskOps) /\ Fits(ops, todo[t][2])
    <2>1. CASE ops = <<>> BY <2>1, FitsNothing
    <2>2. CASE o.op = "event" /\ conn[o.c].socket \in Socket
               /\ ops = <<Count(conn[o.c].socket, o.evt)>>
      <3> DEFINE n == Count(conn[o.c].socket, "RCVMINUS")
      <3>1. n \in TaskOps /\ n.op = "count" /\ ops = <<n>> BY <1>6, <2>2 DEF Count, TaskOps
      <3>2. Follows(n, todo[t][2]) /\ n.op \notin EndNames /\ n.op # "ask"
        BY <1>5, <2>2, <3>1 DEF Follows, EndNames
      <3> QED BY <3>1, <3>2, FitsOne
    <2>3. CASE o.op = "count" /\ ops = <<Search(o.s)>>
      <3>1. Search(o.s) \in TaskOps /\ Search(o.s).op = "search"
        BY <1>6, <2>3 DEF Search, TaskOps
      <3>2. Follows(Search(o.s), todo[t][2]) /\ Search(o.s).op \notin EndNames /\ Search(o.s).op # "ask"
        BY <1>5, <2>3, <3>1 DEF Follows, EndNames
      <3> QED BY <2>3, <3>1, <3>2, FitsOne
    <2>4. CASE /\ o.op = "search" /\ ops = <<Signal(ToWake(o.s)), Search(o.s)>>
               /\ ToWake(o.s) \in Task
      <3>1. /\ Search(o.s) \in TaskOps /\ Search(o.s).op = "search"
            /\ Signal(ToWake(o.s)) \in TaskOps /\ Signal(ToWake(o.s)).op = "signal"
        BY <1>6, <2>4 DEF Search, Signal, TaskOps
      <3>2. /\ Follows(Search(o.s), todo[t][2]) /\ Follows(Signal(ToWake(o.s)), Search(o.s))
            /\ {Search(o.s).op, Signal(ToWake(o.s)).op} \cap (EndNames \cup {"ask"}) = {}
        BY <1>5, <2>4, <3>1 DEF Follows, EndNames
      <3> QED BY <2>4, <3>1, <3>2, FitsTwo
    <2> QED BY <1>2, <1>6, <2>1, <2>2, <2>3, <2>4 DEF CallbackOps
  <1>8. Shape' /\ Steps(t, ops) BY <1>1, <1>2, <1>3, <1>4, <1>7, PlainSteps
  <1> QED BY <1>1, <1>2, <1>7, <1>8

LEMMA TcpipShape ==
    ASSUME Shape, UNCHANGED select_cb_list, DataTypes', \A u \in Task : todo'[u] = todo[u],
           todo' \in [Task \cup {Tcpip} -> Seq(TaskOps \cup TcpipOps)], todo'[Tcpip] \in Seq(TcpipOps)
    PROVE  Shape'
  <1>1. OpTypes' BY DEF Shape, OpTypes
  <1>2. Grammar'
    <2>1. ASSUME NEW u \in Task PROVE Ordered(todo'[u]) BY DEF Shape, Grammar
    <2> QED BY <2>1 DEF Grammar, Ordered, Follows, Drained
  <1>3. ListOK' BY DEF Shape, ListOK, Listed, InSelect
  <1> QED BY <1>1, <1>2, <1>3 DEF Shape

LEMMA TcpipThen ==
    ASSUME Shape, UNCHANGED select_cb_list, DataTypes', todo[Tcpip] # <<>>,
           NEW ops \in Seq(TcpipOps), Then(Tcpip, ops)
    PROVE  Shape' /\ TcpipSteps(ops)
  <1>1. todo[Tcpip] \in Seq(TcpipOps) /\ todo[Tcpip][1] \in TcpipOps BY DEF Shape, OpTypes
  <1>2. /\ todo' \in [Task \cup {Tcpip} -> Seq(TaskOps \cup TcpipOps)]
        /\ todo'[Tcpip] \in Seq(TcpipOps) /\ Leaves(Tcpip, ops)
        /\ \A u \in Task : todo'[u] = todo[u]
    BY ThenTcpip DEF Shape
  <1> QED BY <1>1, <1>2, TcpipShape DEF TcpipSteps

LEMMA TcpipCallback ==
    ASSUME Shape, Callback(Tcpip)
    PROVE  /\ Shape' /\ SameConns /\ UNCHANGED <<select_cb_list, socksem, mbox, traffic>>
           /\ \E ops \in Seq(TcpipOps) : TcpipSteps(ops) /\ CallbackOps(Tcpip, todo[Tcpip][1], ops)
  <1>1. /\ DataTypes' /\ UNCHANGED <<select_cb_list, socksem, mbox, traffic>>
        /\ todo[Tcpip] # <<>> /\ Next1(Tcpip) = todo[Tcpip][1]
        /\ \E ops : Then(Tcpip, ops) /\ CallbackOps(Tcpip, todo[Tcpip][1], ops)
        /\ SameConns
    BY CallbackIs
  <1>2. PICK ops : Then(Tcpip, ops) /\ CallbackOps(Tcpip, todo[Tcpip][1], ops) BY <1>1
  <1> DEFINE o == todo[Tcpip][1]
  <1>3. o \in TcpipOps BY <1>1 DEF Shape, OpTypes
  <1>4. /\ o.op \in {"count", "search"} => o.s \in Socket
        /\ o.op = "event" => o.c \in Conn
        /\ o.op \in {"event", "count"} => o.evt \in {"RCVPLUS", "SENDPLUS", "SENDMINUS"}
    BY <1>3, TcpipOp
  <1>5. ops \in Seq(TcpipOps)
    <2>1. CASE ops = <<>> BY <2>1
    <2>2. CASE o.op = "event" /\ conn[o.c].socket \in Socket
               /\ ops = <<Count(conn[o.c].socket, o.evt)>>
      <3>1. Count(conn[o.c].socket, o.evt) \in TcpipOps BY <1>4, <2>2 DEF Count, TcpipOps
      <3> QED BY <2>2, <3>1
    <2>3. CASE o.op = "count" /\ ops = <<Search(o.s)>>
      <3>1. Search(o.s) \in TcpipOps BY <1>4, <2>3 DEF Search, TcpipOps
      <3> QED BY <2>3, <3>1
    <2>4. CASE /\ o.op = "search" /\ ops = <<Signal(ToWake(o.s)), Search(o.s)>>
               /\ ToWake(o.s) \in Task
      <3>1. Search(o.s) \in TcpipOps /\ Signal(ToWake(o.s)) \in TcpipOps
        BY <1>4, <2>4 DEF Search, Signal, TcpipOps
      <3> QED BY <2>4, <3>1
    <2>5. CASE o.op = "event" /\ ops = <<CountDown(o.c)>>
      <3>1. CountDown(o.c) \in TcpipOps BY <1>4, <2>5 DEF CountDown, TcpipOps
      <3> QED BY <2>5, <3>1
    <2> QED BY <1>2, <2>1, <2>2, <2>3, <2>4, <2>5 DEF CallbackOps
  <1> QED BY <1>1, <1>2, <1>5, TcpipThen

-----------------------------------------------------------------------------
(* Operations on netconns *)

LEMMA ConnData ==
    ASSUME Shape, UNCHANGED <<sockets, select, socksem, traffic>>, conn' \in [Conn -> ConnType],
           mbox' \in Seq(Message)
    PROVE  DataTypes' /\ UNCHANGED <<select_cb_list, scb>>
  BY DEF Shape, DataTypes, select

LEMMA OnConnOp ==
    ASSUME Shape, NEW t \in Task, NEW c \in Conn, OnConn(t, c), NEW name \in CallNames \cup {"ask"},
           Doing(t, name)
    PROVE  /\ name \notin EndNames /\ todo[t] # <<>> /\ todo[t][1] \in TaskOps
           /\ todo[t][1].op = name /\ todo[t][1].c = c /\ Next1(t) = todo[t][1]
           /\ name \in CallNames => todo[t][1] = Op(name, c)
           /\ todo[t][2] \in TaskOps /\ Follows(todo[t][1], todo[t][2])
           /\ conn \in [Conn -> ConnType] /\ conn[c] \in ConnType /\ mbox \in Seq(Message)
  <1>1. name \notin EndNames BY DEF CallNames, EndNames
  <1>2. /\ todo[t] # <<>> /\ Next1(t) = todo[t][1] /\ todo[t][1].op = name /\ todo[t][1] \in TaskOps
        /\ todo[t][2] \in TaskOps /\ Follows(todo[t][1], todo[t][2])
    BY <1>1, FirstOp DEF Shape
  <1>3. todo[t][1].c = c BY <1>2 DEF OnConn
  <1>4. name \in CallNames => todo[t][1] = Op(name, c) BY <1>2, <1>3, TaskOp
  <1>5. conn \in [Conn -> ConnType] /\ mbox \in Seq(Message) BY DEF Shape, DataTypes
  <1> QED BY <1>1, <1>2, <1>3, <1>4, <1>5

LEMMA AwaitIs ==
    ASSUME Shape, NEW t \in Task, NEW c \in Conn, OnConn(t, c), Await(t, c)
    PROVE  /\ Shape' /\ Steps(t, <<>>) /\ todo[t][1] = Op("await", c)
           /\ conn' = [conn EXCEPT ![c].reply = @ - 1] /\ conn[c] \in ConnType
           /\ UNCHANGED <<sockets, select_cb_list, scb, socksem, mbox, traffic>>
  <1>1. Doing(t, "await") /\ Then(t, <<>>) /\ UNCHANGED mbox
        /\ conn' = [conn EXCEPT ![c].reply = @ - 1]
    BY DEF Await
  <1>2. "await" \in CallNames \cup {"ask"} /\ "await" \in CallNames BY DEF CallNames
  <1>3. /\ "await" \notin EndNames /\ todo[t][1] = Op("await", c)
        /\ conn \in [Conn -> ConnType] /\ conn[c] \in ConnType /\ mbox \in Seq(Message)
    BY <1>1, <1>2, OnConnOp
  <1>4. conn' \in [Conn -> ConnType]
    <2>1. conn[c].reply - 1 \in Int /\ conn[c].reply \in Int BY <1>3 DEF ConnType
    <2>2. [conn[c] EXCEPT !.reply = conn[c].reply - 1] \in ConnType
      BY <1>3, <2>1 DEF ConnType
    <2> QED BY <1>1, <1>3, <2>1, <2>2
  <1>5. UNCHANGED <<sockets, select, socksem, traffic>> BY DEF OnConn
  <1>6. DataTypes' /\ UNCHANGED <<select_cb_list, scb>> BY <1>1, <1>3, <1>4, <1>5, ConnData
  <1>7. Shape' /\ Steps(t, <<>>) BY <1>1, <1>3, <1>6, PlainSteps, FitsNothing
  <1> QED BY <1>1, <1>3, <1>5, <1>6, <1>7

LEMMA FreeMboxIs ==
    ASSUME Shape, NEW t \in Task, NEW c \in Conn, OnConn(t, c), FreeMbox(t, c)
    PROVE  /\ Shape' /\ Steps(t, <<>>) /\ todo[t][1] = Op("freembox", c)
           /\ conn' = [conn EXCEPT ![c].recv = FALSE] /\ conn[c] \in ConnType
           /\ UNCHANGED <<sockets, select_cb_list, scb, socksem, mbox, traffic>>
  <1>1. Doing(t, "freembox") /\ Then(t, <<>>) /\ UNCHANGED mbox
        /\ conn' = [conn EXCEPT ![c].recv = FALSE]
    BY DEF FreeMbox
  <1>2. "freembox" \in CallNames \cup {"ask"} /\ "freembox" \in CallNames BY DEF CallNames
  <1>3. /\ "freembox" \notin EndNames /\ todo[t][1] = Op("freembox", c)
        /\ conn \in [Conn -> ConnType] /\ conn[c] \in ConnType /\ mbox \in Seq(Message)
    BY <1>1, <1>2, OnConnOp
  <1>4. conn' \in [Conn -> ConnType] BY <1>1, <1>3, SizeType DEF ConnType
  <1>5. UNCHANGED <<sockets, select, socksem, traffic>> BY DEF OnConn
  <1>6. DataTypes' /\ UNCHANGED <<select_cb_list, scb>> BY <1>1, <1>3, <1>4, <1>5, ConnData
  <1>7. Shape' /\ Steps(t, <<>>) BY <1>1, <1>3, <1>6, PlainSteps, FitsNothing
  <1> QED BY <1>1, <1>3, <1>5, <1>6, <1>7

LEMMA FreeSemIs ==
    ASSUME Shape, NEW t \in Task, NEW c \in Conn, OnConn(t, c), FreeSem(t, c)
    PROVE  /\ Shape' /\ Steps(t, <<>>) /\ todo[t][1] = Op("freesem", c)
           /\ conn' = [conn EXCEPT ![c].sem = -1] /\ conn[c] \in ConnType
           /\ UNCHANGED <<sockets, select_cb_list, scb, socksem, mbox, traffic>>
  <1>1. Doing(t, "freesem") /\ Then(t, <<>>) /\ UNCHANGED mbox
        /\ conn' = [conn EXCEPT ![c].sem = -1]
    BY DEF FreeSem
  <1>2. "freesem" \in CallNames \cup {"ask"} /\ "freesem" \in CallNames BY DEF CallNames
  <1>3. /\ "freesem" \notin EndNames /\ todo[t][1] = Op("freesem", c)
        /\ conn \in [Conn -> ConnType] /\ conn[c] \in ConnType /\ mbox \in Seq(Message)
    BY <1>1, <1>2, OnConnOp
  <1>4. conn' \in [Conn -> ConnType]
    <2>1. -1 \in Int /\ conn[c].sem \in Int BY <1>3 DEF ConnType
    <2>2. [conn[c] EXCEPT !.sem = -1] \in ConnType BY <1>3, <2>1 DEF ConnType
    <2> QED BY <1>1, <1>3, <2>1, <2>2
  <1>5. UNCHANGED <<sockets, select, socksem, traffic>> BY DEF OnConn
  <1>6. DataTypes' /\ UNCHANGED <<select_cb_list, scb>> BY <1>1, <1>3, <1>4, <1>5, ConnData
  <1>7. Shape' /\ Steps(t, <<>>) BY <1>1, <1>3, <1>6, PlainSteps, FitsNothing
  <1> QED BY <1>1, <1>3, <1>5, <1>6, <1>7

LEMMA FreeNetconnIs ==
    ASSUME Shape, NEW t \in Task, NEW c \in Conn, OnConn(t, c), FreeNetconn(t, c)
    PROVE  /\ Shape' /\ Steps(t, <<>>) /\ todo[t][1] = Op("free", c)
           /\ conn' = [conn EXCEPT ![c] = FreeConn] /\ conn[c] \in ConnType
           /\ UNCHANGED <<sockets, select_cb_list, scb, socksem, mbox, traffic>>
  <1>1. Doing(t, "free") /\ Then(t, <<>>) /\ UNCHANGED mbox
        /\ conn' = [conn EXCEPT ![c] = FreeConn]
    BY DEF FreeNetconn
  <1>2. "free" \in CallNames \cup {"ask"} /\ "free" \in CallNames BY DEF CallNames
  <1>3. /\ "free" \notin EndNames /\ todo[t][1] = Op("free", c)
        /\ conn \in [Conn -> ConnType] /\ conn[c] \in ConnType /\ mbox \in Seq(Message)
    BY <1>1, <1>2, OnConnOp
  <1>4. conn' \in [Conn -> ConnType]
    BY <1>1, <1>3, SizeType DEF ConnType, FreeConn, Numbers, Room
  <1>5. UNCHANGED <<sockets, select, socksem, traffic>> BY DEF OnConn
  <1>6. DataTypes' /\ UNCHANGED <<select_cb_list, scb>> BY <1>1, <1>3, <1>4, <1>5, ConnData
  <1>7. Shape' /\ Steps(t, <<>>) BY <1>1, <1>3, <1>6, PlainSteps, FitsNothing
  <1> QED BY <1>1, <1>3, <1>5, <1>6, <1>7

LEMMA AskIs ==
    ASSUME Shape, NEW t \in Task, NEW c \in Conn, OnConn(t, c), Ask(t, c)
    PROVE  /\ Shape' /\ Steps(t, <<>>)
           /\ todo[t][1].op = "ask" /\ todo[t][1].c = c
           /\ todo[t][1].type \in {"DELCONN", "RECV", "WRITE"}
           /\ mbox' = Append(mbox, [type |-> todo[t][1].type, c |-> c])
           /\ UNCHANGED <<sockets, conn, select_cb_list, scb, socksem, traffic>>
  <1>1. Doing(t, "ask") /\ Then(t, <<>>) /\ UNCHANGED conn
        /\ mbox' = Append(mbox, [type |-> Next1(t).type, c |-> c])
    BY DEF Ask
  <1>2. /\ "ask" \notin EndNames /\ todo[t][1] \in TaskOps /\ todo[t][1].op = "ask"
        /\ todo[t][1].c = c /\ Next1(t) = todo[t][1]
        /\ conn \in [Conn -> ConnType] /\ mbox \in Seq(Message)
    BY <1>1, OnConnOp
  <1>3. todo[t][1].type \in {"DELCONN", "RECV", "WRITE"} BY <1>2, TaskOp
  <1>4. mbox' \in Seq(Message)
    <2>1. [type |-> todo[t][1].type, c |-> c] \in Message BY <1>3 DEF Message
    <2> QED BY <1>1, <1>2, <2>1
  <1>5. UNCHANGED <<sockets, select, socksem, traffic>> BY DEF OnConn
  <1>6. DataTypes' /\ UNCHANGED <<select_cb_list, scb>> BY <1>1, <1>2, <1>4, <1>5, ConnData
  <1>7. Shape' /\ Steps(t, <<>>) BY <1>1, <1>2, <1>6, PlainSteps, FitsNothing
  <1> QED BY <1>1, <1>2, <1>3, <1>5, <1>6, <1>7

LEMMA OfFour ==
    ASSUME NEW i \in 1 .. 4
    PROVE  (i = 1 /\ i + 1 = 2) \/ (i = 2 /\ i + 1 = 3) \/ (i = 3 /\ i + 1 = 4) \/ (i = 4 /\ i + 1 = 5)
  OBVIOUS

LEMMA OfThree ==
    ASSUME NEW i \in 1 .. 3
    PROVE  (i = 1 /\ i + 2 = 3) \/ (i = 2 /\ i + 2 = 4) \/ (i = 3 /\ i + 2 = 5)
  OBVIOUS

LEMMA ConcatIs ==
    ASSUME NEW S, NEW s \in Seq(S), NEW r \in Seq(S)
    PROVE  /\ s \o r \in Seq(S) /\ Len(s \o r) = Len(s) + Len(r)
           /\ \A i \in 1 .. Len(s) : (s \o r)[i] = s[i]
           /\ \A i \in 1 .. Len(r) : (s \o r)[Len(s) + i] = r[i]
  OBVIOUS

LEMMA RequestIs ==
    ASSUME NEW c \in Conn, NEW type \in {"DELCONN", "RECV", "WRITE"}
    PROVE  /\ Request(type, c) \in Seq(TaskOps) /\ Len(Request(type, c)) = 2
           /\ Request(type, c)[1] = Asks(c, type) /\ Request(type, c)[2] = Op("await", c)
           /\ Asks(c, type) \in TaskOps /\ Op("await", c) \in TaskOps
  <1>1. Asks(c, type) \in TaskOps /\ Op("await", c) \in TaskOps
    BY DEF Asks, Op, TaskOps, CallNames
  <1>2. Request(type, c) = <<Asks(c, type), Op("await", c)>> BY DEF Request, Asks
  <1> QED BY <1>1, <1>2

LEMMA OpTypes1 ==
    ASSUME NEW c \in Conn, NEW name \in CallNames
    PROVE  Op(name, c) \in TaskOps /\ Op(name, c).op = name /\ Op(name, c).c = c
  BY DEF TaskOps, Op

LEMMA WritingIs ==
    ASSUME NEW c \in Conn
    PROVE  /\ Writing(c) \in Seq(TaskOps) /\ Len(Writing(c)) = 3
           /\ Writing(c)[1] = Asks(c, "WRITE") /\ Writing(c)[2] = Op("await", c)
           /\ Writing(c)[3] = Op("freesem", c)
  <1>1. "freesem" \in CallNames BY DEF CallNames
  <1>2. /\ <<Op("freesem", c)>> \in Seq(TaskOps) /\ Len(<<Op("freesem", c)>>) = 1
        /\ <<Op("freesem", c)>>[1] = Op("freesem", c)
    BY <1>1, OpTypes1
  <1> DEFINE r == Request("WRITE", c)
             f == <<Op("freesem", c)>>
  <1>3. r \in Seq(TaskOps) /\ Len(r) = 2 /\ r[1] = Asks(c, "WRITE") /\ r[2] = Op("await", c)
    BY RequestIs
  <1> HIDE DEF r, f
  <1>4. /\ r \o f \in Seq(TaskOps) /\ Len(r \o f) = 3
        /\ (r \o f)[1] = r[1] /\ (r \o f)[2] = r[2] /\ (r \o f)[2 + 1] = f[1]
    BY <1>2, <1>3, ConcatIs DEF f
  <1> QED BY <1>2, <1>3, <1>4 DEF Writing, r, f

(* netconn_delete: the request, and then what is freed *)
LEMMA DeleteIs ==
    ASSUME NEW c \in Conn
    PROVE  /\ Delete(c) \in Seq(TaskOps) /\ Len(Delete(c)) = 4
           /\ Delete(c)[1] = Asks(c, "DELCONN") /\ Delete(c)[2] = Op("await", c)
           /\ Delete(c)[3] = Op("drain", c) /\ Delete(c)[4] = Op("free", c)
  <1> DEFINE r == Request("DELCONN", c)
             f == <<Op("drain", c), Op("free", c)>>
  <1>1. "drain" \in CallNames /\ "free" \in CallNames BY DEF CallNames
  <1>2. f \in Seq(TaskOps) /\ Len(f) = 2 /\ f[1] = Op("drain", c) /\ f[2] = Op("free", c)
    BY <1>1, OpTypes1
  <1>3. r \in Seq(TaskOps) /\ Len(r) = 2 /\ r[1] = Asks(c, "DELCONN") /\ r[2] = Op("await", c)
    BY RequestIs
  <1> HIDE DEF r, f
  <1>4. /\ r \o f \in Seq(TaskOps) /\ Len(r \o f) = 4
        /\ (r \o f)[1] = r[1] /\ (r \o f)[2] = r[2]
        /\ (r \o f)[2 + 1] = f[1] /\ (r \o f)[2 + 2] = f[2]
    <2>1. /\ r \o f \in Seq(TaskOps) /\ Len(r \o f) = Len(r) + Len(f)
          /\ \A i \in 1 .. Len(r) : (r \o f)[i] = r[i]
          /\ \A i \in 1 .. Len(f) : (r \o f)[Len(r) + i] = f[i]
      <3>1. r \in Seq(TaskOps) /\ f \in Seq(TaskOps) BY <1>2, <1>3
      <3> QED BY <3>1, ConcatIs
    <2>2. {1, 2} \subseteq 1 .. Len(r) /\ {1, 2} \subseteq 1 .. Len(f) /\ Len(r) + Len(f) = 4
      BY <1>2, <1>3
    <2> QED BY <1>2, <1>3, <2>1, <2>2, Zenon
  <1> QED BY <1>2, <1>3, <1>4 DEF Delete, r, f

LEMMA DeleteThen ==
    ASSUME NEW c \in Conn, NEW o \in TaskOps
    PROVE  LET q == Delete(c) \o <<o>>
           IN  /\ q \in Seq(TaskOps) /\ Len(q) = 5
               /\ q[1] = Asks(c, "DELCONN") /\ q[2] = Op("await", c)
               /\ q[3] = Op("drain", c) /\ q[4] = Op("free", c) /\ q[5] = o
  <1> DEFINE r == Delete(c)
             f == <<o>>
  <1>1. f \in Seq(TaskOps) /\ Len(f) = 1 /\ f[1] = o OBVIOUS
  <1>2. /\ r \in Seq(TaskOps) /\ Len(r) = 4 /\ r[1] = Asks(c, "DELCONN") /\ r[2] = Op("await", c)
        /\ r[3] = Op("drain", c) /\ r[4] = Op("free", c)
    BY DeleteIs
  <1> HIDE DEF r, f
  <1>3. /\ r \o f \in Seq(TaskOps) /\ Len(r \o f) = 5
        /\ (r \o f)[1] = r[1] /\ (r \o f)[2] = r[2] /\ (r \o f)[3] = r[3] /\ (r \o f)[4] = r[4]
        /\ (r \o f)[4 + 1] = f[1]
    <2>1. /\ r \o f \in Seq(TaskOps) /\ Len(r \o f) = Len(r) + Len(f)
          /\ \A i \in 1 .. Len(r) : (r \o f)[i] = r[i]
          /\ \A i \in 1 .. Len(f) : (r \o f)[Len(r) + i] = f[i]
      <3>1. r \in Seq(TaskOps) /\ f \in Seq(TaskOps) BY <1>1, <1>2
      <3> QED BY <3>1, ConcatIs
    <2>2. {1, 2, 3, 4} \subseteq 1 .. Len(r) /\ 1 \in 1 .. Len(f) /\ Len(r) + Len(f) = 5
      BY <1>1, <1>2
    <2> QED BY <1>1, <1>2, <2>1, <2>2, Zenon
  <1> QED BY <1>1, <1>2, <1>3 DEF r, f

LEMMA FitsThree ==
    ASSUME NEW q \in Seq(TaskOps), Len(q) = 3, NEW p,
           q[1].op \notin EndNames, {q[2].op, q[3].op} \cap (EndNames \cup {"ask"}) = {},
           Follows(q[1], q[2]), Follows(q[2], q[3]), Follows(q[3], p), Drained(q[1], q[3])
    PROVE  Fits(q, p)
  <1>1. ASSUME NEW i \in 1 .. Len(q) PROVE i = 1 \/ i = 2 \/ i = 3 OBVIOUS
  <1>2. ASSUME NEW i \in 1 .. Len(q) - 1 PROVE (i = 1 /\ i + 1 = 2) \/ (i = 2 /\ i + 1 = 3)
    OBVIOUS
  <1>3. ASSUME NEW i \in 1 .. Len(q) - 2 PROVE (i = 1 /\ i + 2 = 3) OBVIOUS
  <1> QED BY <1>1, <1>2, <1>3 DEF Fits

LEMMA FitsFour ==
    ASSUME NEW q \in Seq(TaskOps), Len(q) = 4, NEW p, q[1].op \notin EndNames \cup {"ask"},
           q[2].op \notin EndNames, {q[3].op, q[4].op} \cap (EndNames \cup {"ask"}) = {},
           Follows(q[1], q[2]), Follows(q[2], q[3]), Follows(q[3], q[4]), Follows(q[4], p),
           Drained(q[2], q[4])
    PROVE  Fits(q, p)
  <1>1. ASSUME NEW i \in 1 .. Len(q) PROVE i = 1 \/ i = 2 \/ i = 3 \/ i = 4 OBVIOUS
  <1>2. ASSUME NEW i \in 1 .. Len(q) - 1
        PROVE  (i = 1 /\ i + 1 = 2) \/ (i = 2 /\ i + 1 = 3) \/ (i = 3 /\ i + 1 = 4)
    OBVIOUS
  <1>3. ASSUME NEW i \in 1 .. Len(q) - 2 PROVE (i = 1 /\ i + 2 = 3) \/ (i = 2 /\ i + 2 = 4)
    OBVIOUS
  <1>4. \A i \in 1 .. Len(q) - 2 : Drained(q[i], q[i + 2]) BY <1>3 DEF Drained
  <1> QED BY <1>1, <1>2, <1>4 DEF Fits

LEMMA FitsDelete ==
    ASSUME NEW c \in Conn, NEW o \in TaskOps, NEW p, o.op \in {"drain", "closed"}, Follows(o, p)
    PROVE  Fits(Delete(c) \o <<o>>, p)
  <1> DEFINE q == Delete(c) \o <<o>>
  <1>1. /\ q \in Seq(TaskOps) /\ Len(q) = 5
        /\ q[1] = Asks(c, "DELCONN") /\ q[2] = Op("await", c)
        /\ q[3] = Op("drain", c) /\ q[4] = Op("free", c) /\ q[5] = o
    BY DeleteThen
  <1> HIDE DEF q
  <1>2. /\ q[1].op = "ask" /\ q[1].c = c /\ q[1].type = "DELCONN" /\ q[2].op = "await" /\ q[2].c = c
        /\ q[3].op = "drain" /\ q[3].c = c /\ q[4].op = "free"
    BY <1>1 DEF Asks, Op
  <1>3. ASSUME NEW i \in 1 .. Len(q) PROVE i = 1 \/ i = 2 \/ i = 3 \/ i = 4 \/ i = 5 BY <1>1
  <1>4. ASSUME NEW i \in 1 .. Len(q) PROVE q[i].op \notin EndNames
    BY <1>1, <1>2, <1>3 DEF EndNames
  <1>5. /\ Follows(q[1], q[2]) /\ Follows(q[2], q[3]) /\ Follows(q[3], q[4]) /\ Follows(q[4], q[5])
        /\ Drained(q[1], q[3]) /\ Drained(q[2], q[4]) /\ Drained(q[3], q[5])
    BY <1>1, <1>2 DEF Follows, Drained
  <1>6. ASSUME NEW i \in 1 .. Len(q) - 1 PROVE Follows(q[i], q[i + 1])
    <2>1. \/ (i = 1 /\ i + 1 = 2) \/ (i = 2 /\ i + 1 = 3) \/ (i = 3 /\ i + 1 = 4) \/ (i = 4 /\ i + 1 = 5)
      <3>1. Len(q) - 1 = 4 BY <1>1
      <3>2. i \in 1 .. 4 BY <3>1
      <3> QED BY <3>2, OfFour, Zenon
    <2> QED BY <1>5, <2>1
  <1>7. ASSUME NEW i \in 1 .. Len(q) - 2 PROVE Drained(q[i], q[i + 2])
    <2>1. (i = 1 /\ i + 2 = 3) \/ (i = 2 /\ i + 2 = 4) \/ (i = 3 /\ i + 2 = 5)
      <3>1. Len(q) - 2 = 3 BY <1>1
      <3>2. i \in 1 .. 3 BY <3>1
      <3> QED BY <3>2, OfThree, Zenon
    <2> QED BY <1>5, <2>1
  <1>8. q[Len(q)].op # "ask" /\ Follows(q[Len(q)], p) /\ q[Len(q) - 1].op # "ask"
    <2>1. Len(q) - 1 = 4 BY <1>1
    <2> QED BY <1>1, <1>2, <2>1
  <1> QED BY <1>4, <1>6, <1>7, <1>8 DEF Fits, q

LEMMA TakeIs ==
    ASSUME Shape, NEW t \in Task, NEW c \in Conn, OnConn(t, c), Take(t, c)
    PROVE  LET new == Head(conn[c].acceptmbox)
           IN  /\ Shape' /\ Steps(t, <<Event(c, "RCVMINUS"), Op("alloc", new)>>)
               /\ todo[t][1] = Op("take", c) /\ conn[c] \in ConnType
               /\ conn[c].acceptmbox # <<>> /\ new \in Conn
               /\ conn' = [conn EXCEPT ![c].acceptmbox = Tail(@)]
               /\ UNCHANGED <<sockets, select_cb_list, scb, socksem, mbox, traffic>>
  <1> DEFINE new == Head(conn[c].acceptmbox)
  <1>1. /\ Doing(t, "take") /\ Then(t, <<Event(c, "RCVMINUS"), Op("alloc", new)>>)
        /\ UNCHANGED mbox /\ conn' = [conn EXCEPT ![c].acceptmbox = Tail(@)]
    BY DEF Take
  <1>2. "take" \in CallNames \cup {"ask"} /\ "take" \in CallNames BY DEF CallNames
  <1>3. /\ "take" \notin EndNames /\ todo[t][1] = Op("take", c) /\ todo[t][1].op = "take"
        /\ conn \in [Conn -> ConnType] /\ conn[c] \in ConnType /\ mbox \in Seq(Message)
        /\ Follows(todo[t][1], todo[t][2])
    BY <1>1, <1>2, OnConnOp
  <1>4. conn[c].acceptmbox # <<>> BY <1>1 DEF OnConn, Blocked
  <1>5. conn[c].acceptmbox \in Seq(Conn) BY <1>3 DEF ConnType
  <1>6. new \in Conn /\ Tail(conn[c].acceptmbox) \in Seq(Conn) BY <1>4, <1>5
  <1>7. conn' \in [Conn -> ConnType]
    <2>1. [conn[c] EXCEPT !.acceptmbox = Tail(conn[c].acceptmbox)] \in ConnType
      BY <1>3, <1>6 DEF ConnType
    <2> QED BY <1>1, <1>3, <2>1
  <1>8. UNCHANGED <<sockets, select, socksem, traffic>> BY DEF OnConn
  <1>9. DataTypes' /\ UNCHANGED <<select_cb_list, scb>> BY <1>1, <1>3, <1>7, <1>8, ConnData
  <1>10. /\ Fits(<<Event(c, "RCVMINUS"), Op("alloc", new)>>, todo[t][2])
         /\ <<Event(c, "RCVMINUS"), Op("alloc", new)>> \in Seq(TaskOps)
    <2>1. /\ Event(c, "RCVMINUS") \in TaskOps /\ Event(c, "RCVMINUS").op = "event"
          /\ Op("alloc", new) \in TaskOps /\ Op("alloc", new).op = "alloc"
      BY <1>6 DEF TaskOps, Event, Op, CallNames
    <2>2. /\ {Event(c, "RCVMINUS").op, Op("alloc", new).op} \cap (EndNames \cup {"ask"}) = {}
          /\ Follows(Event(c, "RCVMINUS"), Op("alloc", new)) /\ Follows(Op("alloc", new), todo[t][2])
      BY <1>3, <2>1 DEF Follows, EndNames
    <2> QED BY <2>1, <2>2, FitsTwo
  <1>11. Shape' /\ Steps(t, <<Event(c, "RCVMINUS"), Op("alloc", new)>>)
    BY <1>1, <1>3, <1>9, <1>10, PlainSteps
  <1> QED BY <1>1, <1>3, <1>4, <1>6, <1>8, <1>9, <1>11

LEMMA WriteIs ==
    ASSUME Shape, NEW t \in Task, NEW c \in Conn, OnConn(t, c), Write(t, c)
    PROVE  /\ Shape' /\ Steps(t, <<Op("room", c)>>) /\ todo[t][1] = Op("write", c)
           /\ conn[c] \in ConnType
           /\ conn' = [conn EXCEPT ![c].sem = IF @ = -1 THEN 0 ELSE @]
           /\ UNCHANGED <<sockets, select_cb_list, scb, socksem, mbox, traffic>>
  <1>1. /\ Doing(t, "write") /\ Then(t, <<Op("room", c)>>) /\ UNCHANGED mbox
        /\ conn' = [conn EXCEPT ![c].sem = IF @ = -1 THEN 0 ELSE @]
    BY DEF Write
  <1>2. "write" \in CallNames \cup {"ask"} /\ "write" \in CallNames BY DEF CallNames
  <1>3. /\ "write" \notin EndNames /\ todo[t][1] = Op("write", c) /\ todo[t][1].op = "write"
        /\ conn \in [Conn -> ConnType] /\ conn[c] \in ConnType /\ mbox \in Seq(Message)
        /\ Follows(todo[t][1], todo[t][2])
    BY <1>1, <1>2, OnConnOp
  <1>4. conn' \in [Conn -> ConnType]
    <2>1. conn[c].sem \in Int /\ conn[c].sem = conn[c].sem /\ 0 \in Int BY <1>3 DEF ConnType
    <2>2. [conn[c] EXCEPT !.sem = 0] \in ConnType /\ [conn[c] EXCEPT !.sem = conn[c].sem] \in ConnType
      BY <1>3, <2>1 DEF ConnType
    <2>3. CASE conn[c].sem = -1
      <3>1. conn' = [conn EXCEPT ![c] = [conn[c] EXCEPT !.sem = 0]] BY <1>1, <1>3, <2>3
      <3> QED BY <1>3, <2>2, <3>1
    <2>4. CASE conn[c].sem # -1
      <3>1. conn' = [conn EXCEPT ![c] = [conn[c] EXCEPT !.sem = conn[c].sem]]
        BY <1>1, <1>3, <2>4
      <3> QED BY <1>3, <2>2, <3>1
    <2> QED BY <2>3, <2>4
  <1>5. UNCHANGED <<sockets, select, socksem, traffic>> BY DEF OnConn
  <1>6. DataTypes' /\ UNCHANGED <<select_cb_list, scb>> BY <1>1, <1>3, <1>4, <1>5, ConnData
  <1>7. Fits(<<Op("room", c)>>, todo[t][2]) /\ <<Op("room", c)>> \in Seq(TaskOps)
    <2>1. Op("room", c) \in TaskOps /\ Op("room", c).op = "room"
      BY DEF TaskOps, Op, CallNames
    <2>2. Follows(Op("room", c), todo[t][2]) /\ Op("room", c).op \notin EndNames
          /\ Op("room", c).op # "ask"
      BY <1>3, <2>1 DEF Follows, EndNames
    <2> QED BY <2>1, <2>2, FitsOne
  <1>8. Shape' /\ Steps(t, <<Op("room", c)>>) BY <1>1, <1>3, <1>6, <1>7, PlainSteps
  <1> QED BY <1>1, <1>3, <1>5, <1>6, <1>8

LEMMA WaitForRoomIs ==
    ASSUME Shape, NEW t \in Task, NEW c \in Conn, OnConn(t, c), WaitForRoom(t, c)
    PROVE  /\ Shape' /\ todo[t][1] = Op("room", c) /\ conn[c] \in ConnType
           /\ \/ /\ conn[c].sndbuf = 0 /\ conn[c].sem # 0
                 /\ conn' = [conn EXCEPT ![c].sem = @ - 1] /\ UNCHANGED todo
              \/ conn[c].sndbuf # 0 /\ Steps(t, Writing(c)) /\ UNCHANGED conn
           /\ UNCHANGED <<sockets, select_cb_list, scb, socksem, mbox, traffic>>
  <1>1. /\ Doing(t, "room") /\ UNCHANGED mbox
        /\ IF conn[c].sndbuf = 0
           THEN conn' = [conn EXCEPT ![c].sem = @ - 1] /\ UNCHANGED todo
           ELSE Then(t, Request("WRITE", c) \o <<Op("freesem", c)>>) /\ UNCHANGED conn
    BY DEF WaitForRoom
  <1>2. "room" \in CallNames \cup {"ask"} /\ "room" \in CallNames BY DEF CallNames
  <1>3. /\ "room" \notin EndNames /\ todo[t][1] = Op("room", c) /\ todo[t][1].op = "room"
        /\ Next1(t) = todo[t][1] /\ todo[t][1].c = c
        /\ conn \in [Conn -> ConnType] /\ conn[c] \in ConnType /\ mbox \in Seq(Message)
        /\ Follows(todo[t][1], todo[t][2])
    BY <1>1, <1>2, OnConnOp
  <1>4. UNCHANGED <<sockets, select, socksem, traffic>> BY DEF OnConn
  <1>5. CASE conn[c].sndbuf = 0
    <2>1. conn' = [conn EXCEPT ![c].sem = @ - 1] /\ UNCHANGED todo BY <1>1, <1>5
    <2>2. conn' \in [Conn -> ConnType]
      <3>1. conn[c].sem - 1 \in Int BY <1>3 DEF ConnType
      <3>2. [conn[c] EXCEPT !.sem = conn[c].sem - 1] \in ConnType BY <1>3, <3>1 DEF ConnType
      <3> QED BY <1>3, <2>1, <3>2
    <2>3. DataTypes' /\ UNCHANGED <<select_cb_list, scb>>
      BY <1>1, <1>3, <1>4, <2>2, ConnData
    <2>4. Shape'
      BY <2>1, <2>3 DEF Shape, OpTypes, Grammar, Ordered, Follows, Drained, ListOK, Listed, InSelect
    <2>5. conn[c].sem # 0 BY <1>1, <1>3, <1>5 DEF OnConn, Blocked
    <2> QED BY <1>1, <1>3, <1>4, <1>5, <2>1, <2>3, <2>4, <2>5
  <1>6. CASE conn[c].sndbuf # 0
    <2>1. Then(t, Writing(c)) /\ UNCHANGED conn BY <1>1, <1>6 DEF Writing
    <2>2. DataTypes' /\ UNCHANGED <<select_cb_list, scb>>
      BY <1>1, <1>3, <1>4, <2>1, ConnData
    <2>3. Fits(Writing(c), todo[t][2]) /\ Writing(c) \in Seq(TaskOps)
      <3> DEFINE q == Writing(c)
      <3>1. /\ q \in Seq(TaskOps) /\ Len(q) = 3 /\ q[1] = Asks(c, "WRITE")
            /\ q[2] = Op("await", c) /\ q[3] = Op("freesem", c)
        BY WritingIs
      <3> HIDE DEF q
      <3>2. /\ q[1].op = "ask" /\ q[1].c = c /\ q[1].type = "WRITE" /\ q[2].op = "await"
            /\ q[2].c = c /\ q[3].op = "freesem" /\ q[3].c = c
        BY <3>1 DEF Asks, Op
      <3>3. /\ Follows(q[1], q[2]) /\ Follows(q[2], q[3]) /\ Follows(q[3], todo[t][2])
            /\ Drained(q[1], q[3])
            /\ q[1].op \notin EndNames /\ {q[2].op, q[3].op} \cap (EndNames \cup {"ask"}) = {}
        BY <1>3, <3>1, <3>2 DEF Follows, Drained, EndNames
      <3>4. Fits(q, todo[t][2]) BY <3>1, <3>3, FitsThree
      <3> QED BY <3>1, <3>4 DEF q
    <2>4. Shape' /\ Steps(t, Writing(c)) BY <1>1, <1>3, <2>1, <2>2, <2>3, PlainSteps
    <2> QED BY <1>1, <1>3, <1>4, <1>6, <2>1, <2>2, <2>4
  <1> QED BY <1>5, <1>6

LEMMA ReceivingIs ==
    ASSUME NEW c \in Conn, NEW s \in Socket
    PROVE  LET q == Receiving(c, s)
           IN  /\ q \in Seq(TaskOps) /\ Len(q) = 4
               /\ q[1] = Event(c, "RCVMINUS") /\ q[2] = Asks(c, "RECV") /\ q[3] = Op("await", c)
               /\ q[4] = [op |-> "copy", s |-> s]
  <1> DEFINE e == <<Event(c, "RCVMINUS")>>
             r == Request("RECV", c)
             f == <<[op |-> "copy", s |-> s]>>
  <1>1. e \in Seq(TaskOps) /\ Len(e) = 1 /\ e[1] = Event(c, "RCVMINUS")
    <2>1. Event(c, "RCVMINUS") \in TaskOps BY DEF TaskOps, Event
    <2> QED BY <2>1
  <1>2. r \in Seq(TaskOps) /\ Len(r) = 2 /\ r[1] = Asks(c, "RECV") /\ r[2] = Op("await", c)
    BY RequestIs
  <1>3. f \in Seq(TaskOps) /\ Len(f) = 1 /\ f[1] = [op |-> "copy", s |-> s]
    <2>1. [op |-> "copy", s |-> s] \in TaskOps BY DEF TaskOps
    <2> QED BY <2>1
  <1> HIDE DEF e, r, f
  <1>4. /\ e \o r \in Seq(TaskOps) /\ Len(e \o r) = 3
        /\ (e \o r)[1] = e[1] /\ (e \o r)[1 + 1] = r[1] /\ (e \o r)[1 + 2] = r[2]
    <2>1. /\ e \o r \in Seq(TaskOps) /\ Len(e \o r) = Len(e) + Len(r)
          /\ \A i \in 1 .. Len(e) : (e \o r)[i] = e[i]
          /\ \A i \in 1 .. Len(r) : (e \o r)[Len(e) + i] = r[i]
      <3>1. e \in Seq(TaskOps) /\ r \in Seq(TaskOps) BY <1>1, <1>2
      <3> QED BY <3>1, ConcatIs
    <2>2. 1 \in 1 .. Len(e) /\ {1, 2} \subseteq 1 .. Len(r) /\ Len(e) + Len(r) = 3
      BY <1>1, <1>2
    <2> QED BY <1>1, <1>2, <2>1, <2>2, Zenon
  <1> DEFINE g == e \o r
  <1>5. /\ g \in Seq(TaskOps) /\ Len(g) = 3 /\ g[1] = Event(c, "RCVMINUS")
        /\ g[2] = Asks(c, "RECV") /\ g[3] = Op("await", c)
    BY <1>1, <1>2, <1>4
  <1> HIDE DEF g
  <1>6. /\ g \o f \in Seq(TaskOps) /\ Len(g \o f) = 4
        /\ (g \o f)[1] = g[1] /\ (g \o f)[2] = g[2] /\ (g \o f)[3] = g[3] /\ (g \o f)[3 + 1] = f[1]
    <2>1. /\ g \o f \in Seq(TaskOps) /\ Len(g \o f) = Len(g) + Len(f)
          /\ \A i \in 1 .. Len(g) : (g \o f)[i] = g[i]
          /\ \A i \in 1 .. Len(f) : (g \o f)[Len(g) + i] = f[i]
      <3>1. g \in Seq(TaskOps) /\ f \in Seq(TaskOps) BY <1>3, <1>5
      <3> QED BY <3>1, ConcatIs
    <2>2. {1, 2, 3} \subseteq 1 .. Len(g) /\ 1 \in 1 .. Len(f) /\ Len(g) + Len(f) = 4
      BY <1>3, <1>5
    <2> QED BY <1>3, <1>5, <2>1, <2>2, Zenon
  <1>7. Receiving(c, s) = g \o f BY DEF Receiving, g, e, r, f
  <1> QED BY <1>3, <1>5, <1>6, <1>7

LEMMA FetchIs ==
    ASSUME Shape, NEW t \in Task, NEW c \in Conn, OnConn(t, c), Fetch(t, c)
    PROVE  /\ Shape' /\ todo[t][1] = Op("fetch", c) /\ conn[c] \in ConnType
           /\ conn[c].recvmbox # <<>>
           /\ conn' = [conn EXCEPT ![c].recvmbox = Tail(@)]
           /\ \/ Steps(t, <<Event(c, "RCVMINUS"), Op("freembox", c)>>)
              \/ /\ todo[t][2] = Return(todo[t][2].s) /\ todo[t][2].s \in Socket
                 /\ Steps(t, Receiving(c, todo[t][2].s))
           /\ UNCHANGED <<sockets, select_cb_list, scb, socksem, mbox, traffic>>
  <1>1. /\ Doing(t, "fetch") /\ UNCHANGED mbox /\ conn' = [conn EXCEPT ![c].recvmbox = Tail(@)]
        /\ Then(t, IF Head(conn[c].recvmbox) = "fin"
                   THEN <<Event(c, "RCVMINUS"), Op("freembox", c)>>
                   ELSE Receiving(c, Last(todo[t]).s))
    BY DEF Fetch, Receiving, Copying
  <1>2. "fetch" \in CallNames \cup {"ask"} /\ "fetch" \in CallNames BY DEF CallNames
  <1>3. /\ "fetch" \notin EndNames /\ todo[t][1] = Op("fetch", c) /\ todo[t][1].op = "fetch"
        /\ conn \in [Conn -> ConnType] /\ conn[c] \in ConnType /\ mbox \in Seq(Message)
        /\ Follows(todo[t][1], todo[t][2]) /\ todo[t][2] \in TaskOps
    BY <1>1, <1>2, OnConnOp
  <1>4. conn[c].recvmbox # <<>> BY <1>1 DEF OnConn, Blocked
  <1>5. conn' \in [Conn -> ConnType]
    <2>1. conn[c].recvmbox \in Seq({"data", "fin"}) BY <1>3 DEF ConnType
    <2>2. Tail(conn[c].recvmbox) \in Seq({"data", "fin"}) BY <1>4, <2>1
    <2>3. [conn[c] EXCEPT !.recvmbox = Tail(conn[c].recvmbox)] \in ConnType
      BY <1>3, <2>2 DEF ConnType
    <2> QED BY <1>1, <1>3, <2>3
  <1>6. UNCHANGED <<sockets, select, socksem, traffic>> BY DEF OnConn
  <1>7. DataTypes' /\ UNCHANGED <<select_cb_list, scb>> BY <1>1, <1>3, <1>5, <1>6, ConnData
  <1>8. /\ todo[t][2].op = "return" /\ todo[t][2] = Return(todo[t][2].s)
        /\ todo[t][2].s \in Socket
    <2>1. todo[t][2].op = "return" BY <1>3 DEF Follows
    <2> QED BY <1>3, <2>1, TaskOp
  <1>9. Last(todo[t]) = todo[t][2]
    <2>1. todo[t] \in Seq(TaskOps) /\ Len(todo[t]) \in Nat /\ Len(todo[t]) > 0 /\ Ordered(todo[t])
      BY <1>1, FirstOp DEF Shape, OpTypes, Grammar
    <2>2. 1 \in 1 .. Len(todo[t]) /\ Len(todo[t]) # 1 BY <1>3, <2>1 DEF Ordered
    <2>3. Len(todo[t]) > 1 BY <2>1, <2>2, OneOrMore, Zenon
    <2>4. 2 \in 1 .. Len(todo[t]) BY <2>1, <2>3
    <2>5. 2 = Len(todo[t]) BY <1>8, <2>1, <2>4 DEF Ordered, EndNames
    <2> QED BY <2>5 DEF Last
  <1>10. CASE Head(conn[c].recvmbox) = "fin"
    <2>1. Then(t, <<Event(c, "RCVMINUS"), Op("freembox", c)>>) BY <1>1, <1>10
    <2>2. /\ Event(c, "RCVMINUS") \in TaskOps /\ Event(c, "RCVMINUS").op = "event"
          /\ Op("freembox", c) \in TaskOps /\ Op("freembox", c).op = "freembox"
      BY DEF TaskOps, Event, Op, CallNames
    <2>3. /\ {Event(c, "RCVMINUS").op, Op("freembox", c).op} \cap (EndNames \cup {"ask"}) = {}
          /\ Follows(Event(c, "RCVMINUS"), Op("freembox", c)) /\ Follows(Op("freembox", c), todo[t][2])
      BY <1>3, <2>2 DEF Follows, EndNames
    <2>4. /\ Fits(<<Event(c, "RCVMINUS"), Op("freembox", c)>>, todo[t][2])
          /\ <<Event(c, "RCVMINUS"), Op("freembox", c)>> \in Seq(TaskOps)
      BY <2>2, <2>3, FitsTwo
    <2>5. Shape' /\ Steps(t, <<Event(c, "RCVMINUS"), Op("freembox", c)>>)
      BY <1>1, <1>3, <1>7, <2>1, <2>4, PlainSteps
    <2> QED BY <1>1, <1>3, <1>4, <1>6, <1>7, <2>5
  <1>11. CASE Head(conn[c].recvmbox) # "fin"
    <2> DEFINE q == Receiving(c, todo[t][2].s)
    <2>1. Then(t, q) BY <1>1, <1>9, <1>11
    <2>2. /\ q \in Seq(TaskOps) /\ Len(q) = 4
          /\ q[1] = Event(c, "RCVMINUS") /\ q[2] = Asks(c, "RECV") /\ q[3] = Op("await", c)
          /\ q[4] = [op |-> "copy", s |-> todo[t][2].s]
      BY <1>8, ReceivingIs
    <2> HIDE DEF q
    <2>3. /\ q[1].op = "event" /\ q[2].op = "ask" /\ q[2].type = "RECV" /\ q[2].c = c
          /\ q[3].op = "await" /\ q[3].c = c /\ q[4].op = "copy" /\ q[4].s = todo[t][2].s
      BY <2>2 DEF Event, Asks, Op
    <2>4. /\ Follows(q[1], q[2]) /\ Follows(q[2], q[3]) /\ Follows(q[3], q[4])
          /\ Follows(q[4], todo[t][2]) /\ Drained(q[2], q[4])
          /\ q[1].op \notin EndNames \cup {"ask"} /\ q[2].op \notin EndNames
          /\ {q[3].op, q[4].op} \cap (EndNames \cup {"ask"}) = {}
      BY <1>8, <2>2, <2>3 DEF Follows, Drained, EndNames
    <2>5. Fits(q, todo[t][2]) BY <2>2, <2>4, FitsFour
    <2>6. Shape' /\ Steps(t, q) BY <1>1, <1>3, <1>7, <2>1, <2>2, <2>5, PlainSteps
    <2> QED BY <1>1, <1>3, <1>4, <1>6, <1>7, <1>8, <2>6 DEF q
  <1> QED BY <1>10, <1>11

LEMMA DrainIs ==
    ASSUME Shape, NEW t \in Task, NEW c \in Conn, OnConn(t, c), Drain(t, c)
    PROVE  /\ Shape' /\ todo[t][1] = Op("drain", c) /\ conn[c] \in ConnType
           /\ \/ LET new == Head(conn[c].acceptmbox)
                 IN  /\ conn[c].acceptmbox # <<>> /\ new \in Conn
                     /\ conn' = [conn EXCEPT ![c].acceptmbox = Tail(@)]
                     /\ Steps(t, Delete(new) \o <<Op("drain", c)>>)
              \/ /\ conn[c].acceptmbox = <<>>
                 /\ conn' = [conn EXCEPT ![c].recvmbox = <<>>, ![c].recv = FALSE]
                 /\ Steps(t, <<>>)
           /\ UNCHANGED <<sockets, select_cb_list, scb, socksem, mbox, traffic>>
  <1> DEFINE new == Head(conn[c].acceptmbox)
  <1>1. /\ Doing(t, "drain") /\ UNCHANGED mbox
        /\ \/ /\ conn[c].acceptmbox # <<>>
              /\ conn' = [conn EXCEPT ![c].acceptmbox = Tail(@)]
              /\ Then(t, Delete(new) \o <<Op("drain", c)>>)
           \/ /\ conn[c].acceptmbox = <<>>
              /\ conn' = [conn EXCEPT ![c].recvmbox = <<>>, ![c].recv = FALSE]
              /\ Then(t, <<>>)
    BY DEF Drain
  <1>2. "drain" \in CallNames \cup {"ask"} /\ "drain" \in CallNames BY DEF CallNames
  <1>3. /\ "drain" \notin EndNames /\ todo[t][1] = Op("drain", c) /\ todo[t][1].op = "drain"
        /\ conn \in [Conn -> ConnType] /\ conn[c] \in ConnType /\ mbox \in Seq(Message)
        /\ Follows(todo[t][1], todo[t][2]) /\ todo[t][1] \in TaskOps
    BY <1>1, <1>2, OnConnOp
  <1>4. UNCHANGED <<sockets, select, socksem, traffic>> BY DEF OnConn
  <1>5. CASE /\ conn[c].acceptmbox # <<>>
             /\ conn' = [conn EXCEPT ![c].acceptmbox = Tail(@)]
             /\ Then(t, Delete(new) \o <<Op("drain", c)>>)
    <2>1. conn[c].acceptmbox \in Seq(Conn) BY <1>3 DEF ConnType
    <2>2. new \in Conn /\ Tail(conn[c].acceptmbox) \in Seq(Conn) BY <1>5, <2>1
    <2>3. [conn[c] EXCEPT !.acceptmbox = Tail(conn[c].acceptmbox)] \in ConnType
      BY <1>3, <2>2 DEF ConnType
    <2>4. conn' \in [Conn -> ConnType] BY <1>3, <1>5, <2>3
    <2>5. DataTypes' /\ UNCHANGED <<select_cb_list, scb>>
      BY <1>1, <1>3, <1>4, <2>4, ConnData
    <2> HIDE DEF new
    <2>6. Op("drain", c) \in TaskOps /\ Op("drain", c).op \in {"drain", "closed"} BY <1>3
    <2>7. Fits(Delete(new) \o <<Op("drain", c)>>, todo[t][2])
      BY <1>3, <2>2, <2>6, FitsDelete
    <2>8. Delete(new) \o <<Op("drain", c)>> \in Seq(TaskOps) BY <2>2, <2>6, DeleteThen
    <2>9. Shape' /\ Steps(t, Delete(new) \o <<Op("drain", c)>>)
      BY <1>1, <1>3, <1>5, <2>5, <2>7, <2>8, PlainSteps DEF new
    <2> QED BY <1>1, <1>3, <1>4, <1>5, <2>2, <2>5, <2>9 DEF new
  <1>6. CASE /\ conn[c].acceptmbox = <<>>
             /\ conn' = [conn EXCEPT ![c].recvmbox = <<>>, ![c].recv = FALSE]
             /\ Then(t, <<>>)
    <2>1. [conn[c] EXCEPT !.recvmbox = <<>>, !.recv = FALSE] \in ConnType
      <3>1. <<>> \in Seq({"data", "fin"}) /\ FALSE \in BOOLEAN OBVIOUS
      <3>2. [conn[c] EXCEPT !.recvmbox = <<>>] \in ConnType BY <1>3, <3>1 DEF ConnType
      <3>3. [conn[c] EXCEPT !.recvmbox = <<>>, !.recv = FALSE]
               = [[conn[c] EXCEPT !.recvmbox = <<>>] EXCEPT !.recv = FALSE]
        BY <1>3 DEF ConnType
      <3> QED BY <3>1, <3>2, <3>3 DEF ConnType
    <2>2. conn' \in [Conn -> ConnType] BY <1>3, <1>6, <2>1
    <2>3. DataTypes' /\ UNCHANGED <<select_cb_list, scb>>
      BY <1>1, <1>3, <1>4, <2>2, ConnData
    <2>4. Shape' /\ Steps(t, <<>>) BY <1>1, <1>3, <1>6, <2>3, PlainSteps, FitsNothing
    <2> QED BY <1>1, <1>3, <1>4, <1>6, <2>3, <2>4
  <1> QED BY <1>1, <1>5, <1>6

-----------------------------------------------------------------------------
(* Operations on sockets *)

LEMMA SocketData ==
    ASSUME Shape, UNCHANGED <<select, mbox, traffic>>, conn' \in [Conn -> ConnType],
           sockets' \in [Socket -> SocketType], socksem' \in Task \cup {NULL}
    PROVE  DataTypes' /\ UNCHANGED <<select_cb_list, scb, mbox, traffic>>
  BY DEF Shape, DataTypes, select

LEMMA OnSocketOp ==
    ASSUME Shape, NEW t \in Task, NEW name,
           name \in {"copy", "alloc", "adopt", "publish", "close", "closed"}, Doing(t, name)
    PROVE  /\ name \notin EndNames /\ todo[t] # <<>> /\ todo[t][1] \in TaskOps
           /\ todo[t][1].op = name /\ Next1(t) = todo[t][1]
           /\ name # "copy" /\ name # "close" /\ name # "closed" => todo[t][1].c \in Conn
           /\ name # "alloc" => todo[t][1].s \in Socket
           /\ todo[t][2] \in TaskOps /\ todo[t][2] = Return(todo[t][2].s)
           /\ name \in {"copy", "close", "closed"} => todo[t][2] = Return(todo[t][1].s)
           /\ todo[t][2].op = "return" /\ Follows(todo[t][1], todo[t][2])
           /\ conn \in [Conn -> ConnType] /\ sockets \in [Socket -> SocketType]
  <1>1. name \notin EndNames BY DEF EndNames
  <1>2. /\ todo[t] # <<>> /\ Next1(t) = todo[t][1] /\ todo[t][1].op = name /\ todo[t][1] \in TaskOps
        /\ todo[t][2] \in TaskOps /\ Follows(todo[t][1], todo[t][2])
    BY <1>1, FirstOp DEF Shape
  <1>3. /\ name # "copy" /\ name # "close" /\ name # "closed" => todo[t][1].c \in Conn
        /\ name # "alloc" => todo[t][1].s \in Socket
    BY <1>2, TaskOp DEF CallNames
  <1>4. /\ todo[t][2].op = "return"
        /\ name \in {"copy", "close", "closed"} => todo[t][2] = Return(todo[t][1].s)
    BY <1>2 DEF Follows
  <1>5. todo[t][2] = Return(todo[t][2].s) BY <1>2, <1>4, TaskOp
  <1>6. conn \in [Conn -> ConnType] /\ sockets \in [Socket -> SocketType]
    BY DEF Shape, DataTypes
  <1> QED BY <1>1, <1>2, <1>3, <1>4, <1>5, <1>6

LEMMA CopyIs ==
    ASSUME Shape, NEW t \in Task, NEW s \in Socket, OnSocket(t, s), Copy(t, s)
    PROVE  /\ Shape' /\ Steps(t, <<>>) /\ todo[t][1].op = "copy" /\ todo[t][1].s = s
           /\ \E rest \in BOOLEAN : sockets' = [sockets EXCEPT ![s].lastdata = rest]
           /\ UNCHANGED <<conn, select_cb_list, scb, socksem, mbox, traffic>>
  <1>1. /\ Doing(t, "copy") /\ Then(t, <<>>) /\ UNCHANGED <<conn, socksem>>
        /\ \E rest \in BOOLEAN : sockets' = [sockets EXCEPT ![s].lastdata = rest]
    BY DEF Copy
  <1>2. /\ "copy" \notin EndNames /\ todo[t][1].op = "copy" /\ Next1(t) = todo[t][1]
        /\ conn \in [Conn -> ConnType] /\ sockets \in [Socket -> SocketType]
    BY <1>1, OnSocketOp
  <1>3. sockets' \in [Socket -> SocketType] BY <1>1, <1>2 DEF SocketType
  <1>4. DataTypes' /\ UNCHANGED <<select_cb_list, scb, mbox, traffic>>
    BY <1>1, <1>2, <1>3, SocketData DEF OnSocket, Shape, DataTypes
  <1>5. Shape' /\ Steps(t, <<>>) BY <1>1, <1>2, <1>4, PlainSteps, FitsNothing
  <1> QED BY <1>1, <1>2, <1>4, <1>5 DEF OnSocket

LEMMA ClosedIs ==
    ASSUME Shape, NEW t \in Task, NEW s \in Socket, OnSocket(t, s), Closed(t, s)
    PROVE  /\ Shape' /\ Steps(t, <<>>) /\ todo[t][1].op = "closed" /\ todo[t][1].s = s
           /\ todo[t][2] = Return(s)
           /\ sockets' = [sockets EXCEPT ![s].conn = NULL, ![s].lastdata = FALSE]
           /\ socksem' = NULL /\ UNCHANGED <<conn, select_cb_list, scb, mbox, traffic>>
  <1>1. /\ Doing(t, "closed") /\ Then(t, <<>>) /\ socksem' = NULL /\ UNCHANGED conn
        /\ sockets' = [sockets EXCEPT ![s].conn = NULL, ![s].lastdata = FALSE]
    BY DEF Closed
  <1>2. /\ "closed" \notin EndNames /\ todo[t][1].op = "closed" /\ Next1(t) = todo[t][1]
        /\ conn \in [Conn -> ConnType] /\ sockets \in [Socket -> SocketType]
        /\ todo[t][2] = Return(todo[t][1].s)
    BY <1>1, OnSocketOp
  <1>3. sockets' \in [Socket -> SocketType] BY <1>1, <1>2 DEF SocketType
  <1>4. DataTypes' /\ UNCHANGED <<select_cb_list, scb, mbox, traffic>>
    BY <1>1, <1>2, <1>3, SocketData DEF OnSocket
  <1>5. Shape' /\ Steps(t, <<>>) BY <1>1, <1>2, <1>4, PlainSteps, FitsNothing
  <1> QED BY <1>1, <1>2, <1>4, <1>5 DEF OnSocket

LEMMA PublishIs ==
    ASSUME Shape, NEW t \in Task, NEW s \in Socket, OnSocket(t, s), PublishSocket(t, s)
    PROVE  LET c == todo[t][1].c
           IN  /\ Shape' /\ Steps(t, <<>>) /\ c \in Conn /\ todo[t][1] = Publish(c, s)
               /\ socksem' = NULL /\ conn' = [conn EXCEPT ![c].socket = s]
               /\ UNCHANGED <<sockets, select_cb_list, scb, mbox, traffic>>
  <1> DEFINE c == todo[t][1].c
  <1>1. /\ Doing(t, "publish") /\ Then(t, <<>>) /\ socksem' = NULL /\ UNCHANGED sockets
        /\ conn' = [conn EXCEPT ![Next1(t).c].socket = s]
    BY DEF PublishSocket
  <1>2. /\ "publish" \notin EndNames /\ todo[t][1].op = "publish" /\ Next1(t) = todo[t][1]
        /\ c \in Conn /\ todo[t][1] \in TaskOps
        /\ conn \in [Conn -> ConnType] /\ sockets \in [Socket -> SocketType]
    BY <1>1, OnSocketOp
  <1>3. todo[t][1] = Publish(c, s) BY <1>2, TaskOp DEF OnSocket
  <1>4. conn' = [conn EXCEPT ![c].socket = s] BY <1>1, <1>2
  <1>5. conn' \in [Conn -> ConnType]
    <2>1. s \in Numbers /\ conn[c] \in ConnType BY <1>2, SizeType DEF Socket, Numbers
    <2>2. [conn[c] EXCEPT !.socket = s] \in ConnType BY <2>1 DEF ConnType
    <2> QED BY <1>2, <1>4, <2>2
  <1>6. DataTypes' /\ UNCHANGED <<select_cb_list, scb, mbox, traffic>>
    BY <1>1, <1>2, <1>5, SocketData DEF OnSocket
  <1>7. Shape' /\ Steps(t, <<>>) BY <1>1, <1>2, <1>6, PlainSteps, FitsNothing
  <1> QED BY <1>1, <1>2, <1>3, <1>4, <1>6, <1>7

LEMMA AdoptIs ==
    ASSUME Shape, NEW t \in Task, NEW s \in Socket, OnSocket(t, s), AdoptEvents(t, s)
    PROVE  LET c == todo[t][1].c
           IN  /\ Shape' /\ Steps(t, <<Publish(c, s)>>) /\ c \in Conn /\ todo[t][1] = Adopt(c, s)
               /\ socksem = NULL /\ socksem' = t
               /\ sockets' = [sockets EXCEPT ![s].rcvevent = @ - 1 - conn[c].socket]
               /\ UNCHANGED <<conn, select_cb_list, scb, mbox, traffic>>
  <1> DEFINE c == todo[t][1].c
  <1>1. /\ Doing(t, "adopt") /\ Then(t, <<Publish(Next1(t).c, s)>>) /\ socksem' = t /\ UNCHANGED conn
        /\ sockets' = [sockets EXCEPT ![s].rcvevent = @ - 1 - conn[Next1(t).c].socket]
    BY DEF AdoptEvents
  <1>2. /\ "adopt" \notin EndNames /\ todo[t][1].op = "adopt" /\ Next1(t) = todo[t][1]
        /\ c \in Conn /\ todo[t][1] \in TaskOps /\ todo[t][2].op = "return"
        /\ conn \in [Conn -> ConnType] /\ sockets \in [Socket -> SocketType]
    BY <1>1, OnSocketOp
  <1>3. todo[t][1] = Adopt(c, s) BY <1>2, TaskOp DEF OnSocket
  <1>4. sockets' = [sockets EXCEPT ![s].rcvevent = @ - 1 - conn[c].socket] BY <1>1, <1>2
  <1>5. sockets' \in [Socket -> SocketType]
    <2>1. conn[c].socket \in Int /\ sockets[s].rcvevent \in Int /\ sockets[s] \in SocketType
      BY <1>2 DEF ConnType, Numbers, SocketType
    <2>2. sockets[s].rcvevent - 1 - conn[c].socket \in Int BY <2>1
    <2>3. [sockets[s] EXCEPT !.rcvevent = sockets[s].rcvevent - 1 - conn[c].socket] \in SocketType
      BY <2>1, <2>2 DEF SocketType
    <2> QED BY <1>2, <1>4, <2>3
  <1>6. DataTypes' /\ UNCHANGED <<select_cb_list, scb, mbox, traffic>>
    BY <1>1, <1>2, <1>5, SocketData DEF OnSocket
  <1>7. Fits(<<Publish(c, s)>>, todo[t][2]) /\ <<Publish(c, s)>> \in Seq(TaskOps)
    <2>1. Publish(c, s) \in TaskOps /\ Publish(c, s).op = "publish"
      BY <1>2 DEF Publish, TaskOps
    <2>2. Follows(Publish(c, s), todo[t][2]) /\ Publish(c, s).op \notin EndNames
          /\ Publish(c, s).op # "ask"
      BY <1>2, <2>1 DEF Follows, EndNames
    <2> QED BY <2>1, <2>2, FitsOne
  <1>8. Then(t, <<Publish(c, s)>>) BY <1>1, <1>2
  <1>9. Shape' /\ Steps(t, <<Publish(c, s)>>) BY <1>1, <1>2, <1>6, <1>7, <1>8, PlainSteps
  <1>10. socksem = NULL BY <1>1 DEF OnSocket, Blocked
  <1> QED BY <1>1, <1>2, <1>3, <1>4, <1>6, <1>9, <1>10

LEMMA AllocIs ==
    ASSUME Shape, NEW t \in Task, UNCHANGED <<select, mbox, traffic>>, AllocSocket(t)
    PROVE  LET c == todo[t][1].c
           IN  /\ Shape' /\ c \in Conn /\ todo[t][1] = Op("alloc", c)
               /\ \E i \in Socket :
                    /\ sockets[i].conn = NULL /\ Steps(t, <<Adopt(c, i)>>)
                    /\ sockets' = [sockets EXCEPT ![i] = [FreeSocket EXCEPT !.conn = c]]
               /\ UNCHANGED <<conn, select_cb_list, scb, socksem, mbox, traffic>>
  <1> DEFINE c == todo[t][1].c
  <1>1. /\ Doing(t, "alloc") /\ UNCHANGED <<conn, socksem>> BY DEF AllocSocket
  <1>2. /\ "alloc" \notin EndNames /\ todo[t][1].op = "alloc" /\ Next1(t) = todo[t][1]
        /\ c \in Conn /\ todo[t][1] \in TaskOps /\ todo[t][2].op = "return"
        /\ conn \in [Conn -> ConnType] /\ sockets \in [Socket -> SocketType]
    BY <1>1, OnSocketOp
  <1>3. todo[t][1] = Op("alloc", c) BY <1>2, TaskOp DEF CallNames
  <1>4. PICK i \in Socket : /\ sockets[i].conn = NULL /\ Then(t, <<Adopt(c, i)>>)
                            /\ sockets' = [sockets EXCEPT ![i] = [FreeSocket EXCEPT !.conn = c]]
    BY <1>2 DEF AllocSocket
  <1>5. sockets' \in [Socket -> SocketType]
    <2>1. FreeSocket \in SocketType BY DEF FreeSocket, SocketType
    <2>2. [FreeSocket EXCEPT !.conn = c] \in SocketType BY <1>2, <2>1 DEF SocketType
    <2> QED BY <1>2, <1>4, <2>2
  <1>6. DataTypes' /\ UNCHANGED <<select_cb_list, scb, mbox, traffic>>
    BY <1>1, <1>2, <1>5, SocketData DEF Shape, DataTypes
  <1>7. Fits(<<Adopt(c, i)>>, todo[t][2]) /\ <<Adopt(c, i)>> \in Seq(TaskOps)
    <2>1. Adopt(c, i) \in TaskOps /\ Adopt(c, i).op = "adopt" BY <1>2 DEF Adopt, TaskOps
    <2>2. Follows(Adopt(c, i), todo[t][2]) /\ Adopt(c, i).op \notin EndNames
          /\ Adopt(c, i).op # "ask"
      BY <1>2, <2>1 DEF Follows, EndNames
    <2> QED BY <2>1, <2>2, FitsOne
  <1>8. Shape' /\ Steps(t, <<Adopt(c, i)>>) BY <1>1, <1>2, <1>4, <1>6, <1>7, PlainSteps
  <1> QED BY <1>1, <1>2, <1>3, <1>4, <1>6, <1>8

LEMMA CloseLockedIs ==
    ASSUME Shape, NEW t \in Task, NEW s \in Socket, OnSocket(t, s), CloseLocked(t, s),
           sockets[s].conn \in Conn
    PROVE  /\ Shape' /\ todo[t][1].op = "close" /\ todo[t][1].s = s /\ todo[t][2] = Return(s)
           /\ Steps(t, CloseOps(sockets[s].conn, s)) /\ socksem = NULL /\ socksem' = t
           /\ UNCHANGED <<sockets, conn, select_cb_list, scb, mbox, traffic>>
  <1> DEFINE o == [op |-> "closed", s |-> s]
             c == sockets[s].conn
  <1>1. /\ Doing(t, "close") /\ Then(t, Delete(c) \o <<o>>) /\ socksem' = t
        /\ UNCHANGED <<sockets, conn>>
    BY DEF CloseLocked
  <1>2. /\ "close" \notin EndNames /\ todo[t][1].op = "close" /\ Next1(t) = todo[t][1]
        /\ todo[t][2] = Return(todo[t][1].s) /\ todo[t][2].op = "return"
        /\ conn \in [Conn -> ConnType] /\ sockets \in [Socket -> SocketType]
    BY <1>1, OnSocketOp
  <1>3. todo[t][1].s = s BY <1>2 DEF OnSocket
  <1>4. DataTypes' /\ UNCHANGED <<select_cb_list, scb, mbox, traffic>>
    BY <1>1, <1>2, SocketData DEF OnSocket
  <1>5. o \in TaskOps /\ o.op = "closed" /\ o.s = s BY DEF TaskOps
  <1> HIDE DEF o, c
  <1>6. Follows(o, todo[t][2]) BY <1>2, <1>3, <1>5 DEF Follows
  <1>7. Fits(Delete(c) \o <<o>>, todo[t][2]) /\ Delete(c) \o <<o>> \in Seq(TaskOps)
    <2>1. c \in Conn BY DEF c
    <2> QED BY <1>5, <1>6, <2>1, FitsDelete, DeleteThen
  <1>8. Shape' /\ Steps(t, Delete(c) \o <<o>>) BY <1>1, <1>2, <1>4, <1>7, PlainSteps
  <1>9. socksem = NULL BY <1>1 DEF OnSocket, Blocked
  <1> QED BY <1>1, <1>2, <1>3, <1>4, <1>8, <1>9 DEF CloseOps, o, c

-----------------------------------------------------------------------------
(* Calls *)

LEMMA BeginsCall ==
    ASSUME Shape, NEW t \in Task, todo[t] = <<>>, NEW o \in TaskOps, NEW s \in Socket,
           o.op \in {"take", "fetch", "write", "close"}, o.op = "close" => o.s = s,
           Call(t, <<o, Return(s)>>), UNCHANGED select_cb_list, DataTypes'
    PROVE  /\ Shape' /\ todo'[t] = <<o, Return(s)>>
           /\ \A u \in (Task \cup {Tcpip}) \ {t} : todo'[u] = todo[u]
           /\ \A u \in Task : InSelect(u)' <=> InSelect(u)
  <1> DEFINE q == <<o, Return(s)>>
  <1>1. Return(s) \in TaskOps /\ Return(s).op = "return" BY DEF TaskOps, Return
  <1>2. q \in Seq(TaskOps) /\ Len(q) = 2 /\ q[1] = o /\ q[2] = Return(s) BY <1>1
  <1>3. /\ todo' \in [Task \cup {Tcpip} -> Seq(TaskOps \cup TcpipOps)]
        /\ todo'[t] = q /\ \A u \in (Task \cup {Tcpip}) \ {t} : todo'[u] = todo[u]
    BY <1>2, CallTask DEF Shape
  <1> HIDE DEF q
  <1>4. OpTypes' BY <1>2, <1>3, SocketsAssumption DEF Shape, OpTypes
  <1>5. Ordered(q)
    <2>1. ASSUME NEW i \in 1 .. Len(q) PROVE i = 1 \/ i = 2 BY <1>2
    <2>2. ASSUME NEW i \in 1 .. Len(q) - 1 PROVE i = 1 /\ i + 1 = 2 BY <1>2
    <2>3. ASSUME NEW i \in 1 .. Len(q) - 2 PROVE FALSE BY <1>2
    <2>4. Follows(q[1], q[2]) BY <1>1, <1>2 DEF Follows
    <2> QED BY <1>1, <1>2, <2>1, <2>2, <2>3, <2>4 DEF Ordered, EndNames
  <1>6. Grammar'
    <2>1. ASSUME NEW u \in Task PROVE Ordered(todo'[u]) BY <1>3, <1>5 DEF Shape, Grammar
    <2> QED BY <2>1 DEF Grammar, Ordered, Follows, Drained
  <1>7. ASSUME NEW u \in Task PROVE InSelect(u)' <=> InSelect(u) BY <1>2, <1>3 DEF InSelect
  <1>8. ListOK' BY <1>7 DEF Shape, ListOK, Listed
  <1> QED BY <1>3, <1>4, <1>6, <1>7, <1>8 DEF Shape, q

(* lwip_select adds itself, and goes from "asleep" to "leave". *)
LEMMA OneOpOrdered ==
    ASSUME NEW q \in Seq(TaskOps), Len(q) = 1, q[1].op \in EndNames
    PROVE  Ordered(q)
  <1>1. ASSUME NEW i \in 1 .. Len(q) PROVE i = 1 OBVIOUS
  <1>2. 1 .. Len(q) - 1 = {} /\ 1 .. Len(q) - 2 = {} OBVIOUS
  <1> QED BY <1>1, <1>2 DEF Ordered

LEMMA SelectOp ==
    ASSUME Shape, NEW t \in Task, NEW name \in {"asleep", "leave"},
           todo'[t] \in Seq(TaskOps), Len(todo'[t]) = 1, todo'[t][1] = [op |-> name],
           todo' \in [Task \cup {Tcpip} -> Seq(TaskOps \cup TcpipOps)],
           \A u \in (Task \cup {Tcpip}) \ {t} : todo'[u] = todo[u]
    PROVE  /\ OpTypes' /\ Grammar' /\ todo'[t] # <<>>
           /\ \A u \in Task : InSelect(u)' <=> (u = t \/ InSelect(u))
  <1>1. todo'[t][1].op = name /\ name \in EndNames BY DEF EndNames
  <1>2. Ordered(todo'[t]) /\ todo'[t] # <<>> BY <1>1, OneOpOrdered
  <1>3. OpTypes' BY SocketsAssumption DEF Shape, OpTypes
  <1>4. Grammar'
    <2>1. ASSUME NEW u \in Task PROVE Ordered(todo'[u]) BY <1>2 DEF Shape, Grammar
    <2> QED BY <2>1 DEF Grammar, Ordered, Follows, Drained
  <1>5. ASSUME NEW u \in Task PROVE InSelect(u)' <=> (u = t \/ InSelect(u))
    BY <1>1, <1>2 DEF InSelect
  <1> QED BY <1>2, <1>3, <1>4, <1>5

LEMMA PrependIs ==
    ASSUME NEW S, NEW s \in Seq(S), NEW a \in S, NEW r, r = <<a>> \o s
    PROVE  /\ r \in Seq(S) /\ Len(r) = Len(s) + 1 /\ r[1] = a
           /\ \A i \in 1 .. Len(s) : r[i + 1] = s[i]
           /\ \A j \in 1 .. Len(r) : j = 1 \/ (j - 1 \in 1 .. Len(s) /\ r[j] = s[j - 1])
  <1>1. <<a>> \in Seq(S) /\ Len(<<a>>) = 1 /\ <<a>>[1] = a /\ Len(s) \in Nat OBVIOUS
  <1>2. r \in Seq(S) /\ Len(r) = Len(s) + 1 /\ r[1] = a BY <1>1
  <1>3. ASSUME NEW i \in 1 .. Len(s) PROVE r[i + 1] = s[i] BY <1>1
  <1>4. ASSUME NEW j \in 1 .. Len(r), j # 1 PROVE j - 1 \in 1 .. Len(s) /\ r[j] = s[j - 1]
    <2>1. j - 1 \in 1 .. Len(s) /\ (j - 1) + 1 = j BY <1>1, <1>2, <1>4
    <2> QED BY <1>3, <2>1
  <1> QED BY <1>2, <1>3, <1>4

LEMMA SelectIs ==
    ASSUME Shape, NEW t \in Task, NEW R \in SUBSET Socket, NEW W \in SUBSET Socket, Select(t, R, W)
    PROVE  /\ Shape' /\ todo[t] = <<>> /\ MayRun(t) /\ "select" \in Calls[t]
           /\ todo'[t] # <<>> /\ Len(todo'[t]) = 1 /\ todo'[t][1] = [op |-> "asleep"]
           /\ \A u \in (Task \cup {Tcpip}) \ {t} : todo'[u] = todo[u]
           /\ \A u \in Task : Listed(u)' <=> (u = t \/ Listed(u))
           /\ scb' = [scb EXCEPT ![t] = [readset |-> R, writeset |-> W,
                                         sem_signalled |-> FALSE, sem |-> 0]]
           /\ UNCHANGED <<sockets, conn, socksem, mbox, traffic>>
  <1>1. /\ todo[t] = <<>> /\ MayRun(t) /\ "select" \in Calls[t]
        /\ select_cb_list' = <<t>> \o select_cb_list
        /\ scb' = [scb EXCEPT ![t] = [readset |-> R, writeset |-> W,
                                      sem_signalled |-> FALSE, sem |-> 0]]
        /\ Call(t, <<[op |-> "asleep"]>>)
        /\ UNCHANGED <<sockets, conn, socksem, mbox, traffic>>
    BY DEF Select, SelectList, Idle
  <1>2. <<[op |-> "asleep"]>> \in Seq(TaskOps)
    <2>1. [op |-> "asleep"] \in TaskOps BY DEF TaskOps
    <2> QED BY <2>1
  <1>3. /\ todo' \in [Task \cup {Tcpip} -> Seq(TaskOps \cup TcpipOps)]
        /\ todo'[t] = <<[op |-> "asleep"]>> /\ \A u \in (Task \cup {Tcpip}) \ {t} : todo'[u] = todo[u]
    BY <1>1, <1>2, CallTask DEF Shape
  <1>0. todo'[t] \in Seq(TaskOps) /\ Len(todo'[t]) = 1 /\ todo'[t][1] = [op |-> "asleep"]
    BY <1>2, <1>3
  <1>4. /\ OpTypes' /\ Grammar' /\ todo'[t] # <<>>
        /\ \A u \in Task : InSelect(u)' <=> (u = t \/ InSelect(u))
    BY <1>0, <1>3, SelectOp
  <1>5. select_cb_list \in Seq(Task) /\ Len(select_cb_list) \in Nat BY DEF Shape, DataTypes
  <1>6. /\ select_cb_list' \in Seq(Task) /\ Len(select_cb_list') = Len(select_cb_list) + 1
        /\ select_cb_list'[1] = t
        /\ \A i \in 1 .. Len(select_cb_list) : select_cb_list'[i + 1] = select_cb_list[i]
        /\ \A j \in 1 .. Len(select_cb_list') : j = 1 \/
              (j - 1 \in 1 .. Len(select_cb_list) /\ select_cb_list'[j] = select_cb_list[j - 1])
    BY <1>1, <1>5, PrependIs
  <1>7. ~Listed(t) BY <1>1 DEF Shape, ListOK, InSelect
  <1>8. ASSUME NEW u \in Task PROVE Listed(u)' <=> (u = t \/ Listed(u))
    <2>1. ASSUME Listed(u) PROVE Listed(u)'
      <3>1. PICK i \in 1 .. Len(select_cb_list) : select_cb_list[i] = u BY <2>1 DEF Listed
      <3>2. i + 1 \in 1 .. Len(select_cb_list') /\ select_cb_list'[i + 1] = u
        BY <1>5, <1>6, <3>1
      <3> QED BY <3>2 DEF Listed
    <2>2. Listed(t)'
      <3>1. 1 \in 1 .. Len(select_cb_list') BY <1>5, <1>6
      <3> QED BY <1>6, <3>1 DEF Listed
    <2>3. ASSUME Listed(u)', u # t PROVE Listed(u)
      <3>1. PICK j \in 1 .. Len(select_cb_list') : select_cb_list'[j] = u BY <2>3 DEF Listed
      <3> QED BY <1>6, <2>3, <3>1 DEF Listed
    <2> QED BY <2>1, <2>2, <2>3
  <1>9. ListOK'
    <2>1. ASSUME NEW i \in 1 .. Len(select_cb_list'), NEW j \in 1 .. Len(select_cb_list'),
                 select_cb_list'[i] = select_cb_list'[j]
          PROVE  i = j
      <3>1. CASE i = 1 /\ j = 1 BY <3>1
      <3>2. CASE i = 1 /\ j # 1 BY <1>6, <1>7, <2>1, <3>2 DEF Listed
      <3>3. CASE i # 1 /\ j = 1 BY <1>6, <1>7, <2>1, <3>3 DEF Listed
      <3>4. CASE i # 1 /\ j # 1
        <4>1. /\ i - 1 \in 1 .. Len(select_cb_list) /\ select_cb_list'[i] = select_cb_list[i - 1]
              /\ j - 1 \in 1 .. Len(select_cb_list) /\ select_cb_list'[j] = select_cb_list[j - 1]
          BY <1>6, <3>4
        <4>2. i - 1 = j - 1 BY <2>1, <4>1 DEF Shape, ListOK
        <4> QED BY <4>2
      <3> QED BY <3>1, <3>2, <3>3, <3>4
    <2>2. ASSUME NEW u \in Task PROVE Listed(u)' <=> InSelect(u)'
      BY <1>4, <1>8 DEF Shape, ListOK
    <2> QED BY <2>1, <2>2 DEF ListOK
  <1>10. DataTypes'
    <2>1. [readset |-> R, writeset |-> W, sem_signalled |-> FALSE, sem |-> 0] \in ScbType
      BY DEF ScbType
    <2> QED BY <1>1, <1>6, <2>1 DEF Shape, DataTypes
  <1> QED BY <1>0, <1>1, <1>3, <1>4, <1>8, <1>9, <1>10 DEF Shape

(* A task asleep wakes or times out. *)
LEMMA WakesIs ==
    ASSUME Shape, NEW t \in Task, Doing(t, "asleep"), Then(t, <<[op |-> "leave"]>>),
           UNCHANGED <<sockets, conn, select, socksem, mbox, traffic>>
    PROVE  /\ Shape' /\ todo[t] # <<>> /\ todo[t][1].op = "asleep" /\ Len(todo[t]) = 1
           /\ todo'[t] # <<>> /\ Len(todo'[t]) = 1 /\ todo'[t][1] = [op |-> "leave"]
           /\ \A u \in (Task \cup {Tcpip}) \ {t} : todo'[u] = todo[u]
  <1>1. todo[t] # <<>> /\ todo[t][1].op = "asleep" /\ todo[t] \in Seq(TaskOps) /\ Len(todo[t]) = 1
    BY FirstOp DEF Shape, OpTypes, EndNames
  <1>2. [op |-> "leave"] \in TaskOps /\ <<[op |-> "leave"]>> \in Seq(TaskOps)
    <2>1. [op |-> "leave"] \in TaskOps BY DEF TaskOps
    <2> QED BY <2>1
  <1>3. /\ todo' \in [Task \cup {Tcpip} -> Seq(TaskOps \cup TcpipOps)]
        /\ todo'[t] \in Seq(TaskOps) /\ Leaves(t, <<[op |-> "leave"]>>)
        /\ \A u \in (Task \cup {Tcpip}) \ {t} : todo'[u] = todo[u]
    BY <1>1, <1>2, ThenTask DEF Shape
  <1>4. Len(todo'[t]) = 1 /\ todo'[t][1] = [op |-> "leave"]
    <2> DEFINE q == <<[op |-> "leave"]>>
    <2>1. Len(q) = 1 /\ q[1] = [op |-> "leave"] /\ Leaves(t, q) BY <1>3
    <2> HIDE DEF q
    <2> QED BY <1>1, <2>1 DEF Leaves, Behind
  <1>5. /\ OpTypes' /\ Grammar' /\ todo'[t] # <<>>
        /\ \A u \in Task : InSelect(u)' <=> (u = t \/ InSelect(u))
    BY <1>3, <1>4, SelectOp
  <1>6. InSelect(t) BY <1>1 DEF InSelect
  <1>7. ListOK' BY <1>5, <1>6 DEF Shape, ListOK, Listed, select
  <1>8. DataTypes' BY DEF Shape, DataTypes, select
  <1> QED BY <1>1, <1>3, <1>4, <1>5, <1>7, <1>8 DEF Shape

LEMMA SubSeqIs ==
    ASSUME NEW S, NEW s \in Seq(S), NEW m \in 1 .. Len(s) + 1, NEW n \in 0 .. Len(s), m <= n + 1
    PROVE  /\ SubSeq(s, m, n) \in Seq(S) /\ Len(SubSeq(s, m, n)) = n - m + 1
           /\ \A i \in 1 .. n - m + 1 : SubSeq(s, m, n)[i] = s[m + i - 1]
  <1>1. SubSeq(s, m, n) = [i \in 1 .. n - m + 1 |-> s[m + i - 1]] OBVIOUS
  <1>2. \A i \in 1 .. n - m + 1 : m + i - 1 \in 1 .. Len(s) OBVIOUS
  <1>3. \A i \in 1 .. n - m + 1 : s[m + i - 1] \in S BY <1>2
  <1> QED BY <1>1, <1>3

LEMMA RemoveAtIs ==
    ASSUME NEW S, NEW s \in Seq(S), NEW k \in 1 .. Len(s), NEW r, r = RemoveAt(s, k)
    PROVE  r \in Seq(S) /\ Without(r, s, k)
  <1>1. Len(s) \in Nat /\ k \in Nat /\ 1 <= k /\ k <= Len(s) OBVIOUS
  <1> DEFINE a == SubSeq(s, 1, k - 1)
             b == SubSeq(s, k + 1, Len(s))
  <1>2. a \in Seq(S) /\ Len(a) = k - 1 /\ \A i \in 1 .. k - 1 : a[i] = s[i]
    <2>1. 1 \in 1 .. Len(s) + 1 /\ k - 1 \in 0 .. Len(s) /\ 1 <= (k - 1) + 1 BY <1>1
    <2>2. /\ a \in Seq(S) /\ Len(a) = (k - 1) - 1 + 1
          /\ \A i \in 1 .. (k - 1) - 1 + 1 : a[i] = s[1 + i - 1]
      BY <2>1, SubSeqIs
    <2>3. (k - 1) - 1 + 1 = k - 1 /\ \A i \in 1 .. k - 1 : 1 + i - 1 = i BY <1>1
    <2> QED BY <2>2, <2>3
  <1>3. b \in Seq(S) /\ Len(b) = Len(s) - k /\ \A i \in 1 .. Len(s) - k : b[i] = s[k + i]
    <2>1. k + 1 \in 1 .. Len(s) + 1 /\ Len(s) \in 0 .. Len(s) /\ k + 1 <= Len(s) + 1 BY <1>1
    <2>2. /\ b \in Seq(S) /\ Len(b) = Len(s) - (k + 1) + 1
          /\ \A i \in 1 .. Len(s) - (k + 1) + 1 : b[i] = s[(k + 1) + i - 1]
      BY <2>1, SubSeqIs
    <2>3. Len(s) - (k + 1) + 1 = Len(s) - k /\ \A i \in 1 .. Len(s) - k : (k + 1) + i - 1 = k + i
      BY <1>1
    <2> QED BY <2>2, <2>3
  <1>4. r = a \o b BY DEF RemoveAt
  <1> HIDE DEF a, b
  <1>5. /\ r \in Seq(S) /\ Len(r) = Len(a) + Len(b)
        /\ \A i \in 1 .. Len(a) : r[i] = a[i]
        /\ \A i \in 1 .. Len(b) : r[Len(a) + i] = b[i]
    <2>1. a \in Seq(S) /\ b \in Seq(S) BY <1>2, <1>3
    <2> QED BY <1>4, <2>1, ConcatIs
  <1>6. Len(a) + Len(b) = Len(s) - 1 BY <1>1, <1>2, <1>3
  <1>7. ASSUME NEW i \in 1 .. k - 1 PROVE r[i] = s[i] BY <1>2, <1>5
  <1>8. ASSUME NEW i \in k .. Len(s) - 1 PROVE r[i] = s[i + 1]
    <2>1. i - k + 1 \in 1 .. Len(s) - k /\ (k - 1) + (i - k + 1) = i /\ k + (i - k + 1) = i + 1
      BY <1>1
    <2>2. r[(k - 1) + (i - k + 1)] = b[i - k + 1] /\ b[i - k + 1] = s[k + (i - k + 1)]
      BY <1>2, <1>3, <1>5, <2>1
    <2> QED BY <2>1, <2>2
  <1> QED BY <1>5, <1>6, <1>7, <1>8 DEF Without

LEMMA LeaveIs ==
    ASSUME Shape, NEW t \in Task, LeaveSelect(t)
    PROVE  /\ Shape' /\ MayRun(t) /\ todo[t] # <<>> /\ todo[t][1].op = "leave" /\ Len(todo[t]) = 1
           /\ todo'[t] = <<>>
           /\ \A u \in (Task \cup {Tcpip}) \ {t} : todo'[u] = todo[u]
           /\ \A u \in Task : Listed(u)' <=> (u # t /\ Listed(u))
           /\ scb' = [scb EXCEPT ![t] = [readset |-> {}, writeset |-> {},
                                         sem_signalled |-> FALSE, sem |-> -1]]
           /\ UNCHANGED <<sockets, conn, socksem, mbox, traffic>>
  <1>1. /\ MayRun(t) /\ Doing(t, "leave") /\ Then(t, <<>>)
        /\ scb' = [scb EXCEPT ![t] = [readset |-> {}, writeset |-> {},
                                      sem_signalled |-> FALSE, sem |-> -1]]
        /\ UNCHANGED <<sockets, conn, socksem, mbox, traffic>>
    BY DEF LeaveSelect
  <1>2. todo[t] # <<>> /\ todo[t][1].op = "leave" /\ Len(todo[t]) = 1
    BY <1>1, FirstOp DEF Shape, EndNames
  <1>3. /\ todo' \in [Task \cup {Tcpip} -> Seq(TaskOps \cup TcpipOps)]
        /\ todo'[t] \in Seq(TaskOps) /\ Leaves(t, <<>>)
        /\ \A u \in (Task \cup {Tcpip}) \ {t} : todo'[u] = todo[u]
    BY <1>1, <1>2, ThenTask, FitsNothing DEF Shape
  <1>4. todo'[t] = <<>>
    <2>1. Len(todo'[t]) = 0 BY <1>2, <1>3 DEF Leaves, Behind
    <2> QED BY <1>3, <2>1
  <1>5. OpTypes' BY <1>3, SocketsAssumption DEF Shape, OpTypes
  <1>6. Grammar'
    <2>1. Ordered(todo'[t]) BY <1>4 DEF Ordered
    <2>2. ASSUME NEW u \in Task PROVE Ordered(todo'[u]) BY <1>3, <2>1 DEF Shape, Grammar
    <2> QED BY <2>2 DEF Grammar, Ordered, Follows, Drained
  <1>7. ASSUME NEW u \in Task PROVE InSelect(u)' <=> (u # t /\ InSelect(u))
    BY <1>3, <1>4 DEF InSelect
  <1>8. select_cb_list \in Seq(Task) /\ Len(select_cb_list) \in Nat BY DEF Shape, DataTypes
  <1>9. PICK k \in 1 .. Len(select_cb_list) :
           select_cb_list[k] = t /\ select_cb_list' = RemoveAt(select_cb_list, k)
    BY <1>8 DEF LeaveSelect
  <1>10. /\ select_cb_list' \in Seq(Task) /\ Len(select_cb_list') = Len(select_cb_list) - 1
         /\ \A i \in 1 .. k - 1 : select_cb_list'[i] = select_cb_list[i]
         /\ \A i \in k .. Len(select_cb_list) - 1 : select_cb_list'[i] = select_cb_list[i + 1]
    <2>1. select_cb_list' \in Seq(Task) /\ Without(select_cb_list', select_cb_list, k)
      BY <1>8, <1>9, RemoveAtIs, Zenon
    <2> QED BY <2>1, Zenon DEF Without
  <1>11. \A i, j \in 1 .. Len(select_cb_list) : select_cb_list[i] = select_cb_list[j] => i = j
    BY DEF Shape, ListOK
  <1>12. ASSUME NEW i \in 1 .. Len(select_cb_list')
         PROVE  /\ i < k => i \in 1 .. Len(select_cb_list) /\ select_cb_list'[i] = select_cb_list[i]
                /\ ~(i < k) => /\ i + 1 \in 1 .. Len(select_cb_list)
                               /\ select_cb_list'[i] = select_cb_list[i + 1]
    <2>1. i < k => i \in 1 .. k - 1 /\ i \in 1 .. Len(select_cb_list) BY <1>8, <1>10
    <2>2. ~(i < k) => i \in k .. Len(select_cb_list) - 1 /\ i + 1 \in 1 .. Len(select_cb_list)
      BY <1>8, <1>10
    <2> QED BY <1>10, <2>1, <2>2
  <1>13. ASSUME NEW i \in 1 .. Len(select_cb_list'), NEW j \in 1 .. Len(select_cb_list'),
                select_cb_list'[i] = select_cb_list'[j]
         PROVE  i = j
    <2>1. CASE i < k /\ j < k BY <1>11, <1>12, <1>13, <2>1
    <2>2. CASE i < k /\ ~(j < k)
      <3>1. i = j + 1 BY <1>11, <1>12, <1>13, <2>2
      <3> QED BY <2>2, <3>1
    <2>3. CASE ~(i < k) /\ j < k
      <3>1. i + 1 = j BY <1>11, <1>12, <1>13, <2>3
      <3> QED BY <2>3, <3>1
    <2>4. CASE ~(i < k) /\ ~(j < k)
      <3>1. i + 1 = j + 1 BY <1>11, <1>12, <1>13, <2>4
      <3> QED BY <3>1
    <2> QED BY <2>1, <2>2, <2>3, <2>4
  <1>14. ASSUME NEW u \in Task PROVE Listed(u)' <=> (u # t /\ Listed(u))
    <2>1. ASSUME Listed(u)' PROVE u # t /\ Listed(u)
      <3>1. PICK i \in 1 .. Len(select_cb_list') : select_cb_list'[i] = u BY <2>1 DEF Listed
      <3>2. CASE i < k
        <4>1. i \in 1 .. Len(select_cb_list) /\ select_cb_list[i] = u /\ i # k
          BY <1>12, <3>1, <3>2
        <4> QED BY <1>9, <1>11, <4>1 DEF Listed
      <3>3. CASE ~(i < k)
        <4>1. i + 1 \in 1 .. Len(select_cb_list) /\ select_cb_list[i + 1] = u /\ i + 1 # k
          BY <1>12, <3>1, <3>3
        <4> QED BY <1>9, <1>11, <4>1 DEF Listed
      <3> QED BY <3>2, <3>3
    <2>2. ASSUME u # t, Listed(u) PROVE Listed(u)'
      <3>1. PICK i \in 1 .. Len(select_cb_list) : select_cb_list[i] = u BY <2>2 DEF Listed
      <3>2. i # k BY <1>9, <2>2, <3>1
      <3>3. CASE i < k
        <4>1. i \in 1 .. k - 1 /\ i \in 1 .. Len(select_cb_list') BY <1>8, <1>10, <3>3
        <4> QED BY <1>10, <3>1, <4>1 DEF Listed
      <3>4. CASE i > k
        <4>1. /\ i - 1 \in k .. Len(select_cb_list) - 1 /\ (i - 1) + 1 = i
              /\ i - 1 \in 1 .. Len(select_cb_list')
          BY <1>8, <1>10, <3>4
        <4>2. select_cb_list'[i - 1] = select_cb_list[i] BY <1>10, <4>1
        <4> QED BY <3>1, <4>1, <4>2 DEF Listed
      <3> QED BY <3>2, <3>3, <3>4
    <2> QED BY <2>1, <2>2
  <1>15. ListOK'
    <2>1. ASSUME NEW u \in Task PROVE Listed(u)' <=> InSelect(u)'
      BY <1>7, <1>14 DEF Shape, ListOK
    <2> QED BY <1>13, <2>1 DEF ListOK
  <1>16. DataTypes'
    <2>1. [readset |-> {}, writeset |-> {}, sem_signalled |-> FALSE, sem |-> -1] \in ScbType
      BY DEF ScbType
    <2> QED BY <1>1, <1>10, <2>1 DEF Shape, DataTypes
  <1> QED BY <1>1, <1>2, <1>3, <1>4, <1>5, <1>6, <1>14, <1>15, <1>16 DEF Shape

LEMMA ReturnIs ==
    ASSUME Shape, NEW t \in Task, UNCHANGED <<select, mbox, traffic>>, ReturnFrom(t)
    PROVE  /\ Shape' /\ todo[t] # <<>> /\ todo[t][1].op = "return" /\ Len(todo[t]) = 1
           /\ todo'[t] = <<>>
           /\ \A u \in (Task \cup {Tcpip}) \ {t} : todo'[u] = todo[u]
           /\ UNCHANGED <<sockets, conn, select_cb_list, scb, socksem, mbox, traffic>>
  <1>1. Doing(t, "return") /\ Then(t, <<>>) /\ UNCHANGED <<sockets, conn, socksem>>
    BY DEF ReturnFrom
  <1>2. todo[t] # <<>> /\ todo[t][1].op = "return" /\ Len(todo[t]) = 1
    BY <1>1, FirstOp DEF Shape, EndNames
  <1>3. /\ todo' \in [Task \cup {Tcpip} -> Seq(TaskOps \cup TcpipOps)]
        /\ todo'[t] \in Seq(TaskOps) /\ Leaves(t, <<>>)
        /\ \A u \in (Task \cup {Tcpip}) \ {t} : todo'[u] = todo[u]
    BY <1>1, <1>2, ThenTask, FitsNothing DEF Shape
  <1>4. todo'[t] = <<>>
    <2>1. Len(todo'[t]) = 0 BY <1>2, <1>3 DEF Leaves, Behind
    <2> QED BY <1>3, <2>1
  <1>5. OpTypes' BY <1>3, SocketsAssumption DEF Shape, OpTypes
  <1>6. Grammar'
    <2>1. Ordered(todo'[t]) BY <1>4 DEF Ordered
    <2>2. ASSUME NEW u \in Task PROVE Ordered(todo'[u]) BY <1>3, <2>1 DEF Shape, Grammar
    <2> QED BY <2>2 DEF Grammar, Ordered, Follows, Drained
  <1>7. ASSUME NEW u \in Task PROVE InSelect(u)' <=> InSelect(u)
    BY <1>2, <1>3, <1>4 DEF InSelect
  <1>8. ListOK' BY <1>7 DEF Shape, ListOK, Listed, select
  <1>9. DataTypes' BY <1>1 DEF Shape, DataTypes, select
  <1> QED BY <1>1, <1>2, <1>3, <1>4, <1>5, <1>6, <1>8, <1>9 DEF Shape, select

-----------------------------------------------------------------------------
(* The tcpip thread's handlers *)

LEMMA BeginIs ==
    ASSUME Shape, UNCHANGED select_cb_list, DataTypes', todo[Tcpip] = <<>>,
           NEW ops \in Seq(TcpipOps), Begin(ops)
    PROVE  Shape' /\ Begins(ops)
  <1>1. /\ todo' \in [Task \cup {Tcpip} -> Seq(TaskOps \cup TcpipOps)]
        /\ todo'[Tcpip] = ops /\ \A u \in Task : todo'[u] = todo[u]
    BY BeginTcpip DEF Shape
  <1> QED BY <1>1, TcpipShape DEF Begins

LEMMA EventOp ==
    ASSUME NEW c \in Conn, NEW evt \in {"RCVPLUS", "SENDPLUS", "SENDMINUS"}
    PROVE  Event(c, evt) \in TcpipOps
  BY DEF Event, TcpipOps

LEMMA AnswerOp == ASSUME NEW c \in Conn PROVE Op("answer", c) \in TcpipOps
  BY DEF Op, TcpipOps

LEMMA OneTcpip == ASSUME NEW o \in TcpipOps PROVE <<o>> \in Seq(TcpipOps)
  OBVIOUS

LEMMA TwoTcpip ==
    ASSUME NEW o \in TcpipOps, NEW p \in TcpipOps
    PROVE  <<o, p>> \in Seq(TcpipOps)
  OBVIOUS

LEMMA ThreeTcpip ==
    ASSUME NEW o \in TcpipOps, NEW p \in TcpipOps, NEW q \in TcpipOps
    PROVE  <<o, p, q>> \in Seq(TcpipOps)
  OBVIOUS

LEMMA PairIs == ASSUME NEW S, NEW o \in S, NEW p \in S PROVE <<o>> \o <<p>> = <<o, p>>
  <1> DEFINE q == <<o>> \o <<p>>
  <1>1. <<o>> \in Seq(S) /\ <<p>> \in Seq(S) /\ Len(<<o>>) = 1 /\ <<o>>[1] = o /\ <<p>>[1] = p
    OBVIOUS
  <1>2. q \in Seq(S) /\ Len(q) = 2 /\ q[1] = o /\ q[2] = p OBVIOUS
  <1>3. q = [i \in 1 .. 2 |-> q[i]] BY <1>2
  <1> HIDE DEF q
  <1>4. q = <<o, p>> BY <1>2, <1>3
  <1> QED BY <1>4 DEF q

LEMMA NewConnType ==
    ASSUME NEW r \in ConnType
    PROVE  [r EXCEPT !.used = TRUE, !.pcb = "ESTABLISHED", !.recv = TRUE, !.sem = 0] \in ConnType
  <1>1. [r EXCEPT !.used = TRUE] \in ConnType BY DEF ConnType
  <1>2. ASSUME NEW p \in ConnType PROVE [p EXCEPT !.pcb = "ESTABLISHED"] \in ConnType
    BY DEF ConnType
  <1>3. ASSUME NEW p \in ConnType PROVE [p EXCEPT !.recv = TRUE] \in ConnType
    BY DEF ConnType
  <1>4. ASSUME NEW p \in ConnType PROVE [p EXCEPT !.sem = 0] \in ConnType
    <2>1. ASSUME NEW n \in Int PROVE [p EXCEPT !.sem = n] \in ConnType BY DEF ConnType
    <2>2. 0 \in Int OBVIOUS
    <2> QED BY <2>1, <2>2, Zenon
  <1>5. [[[[r EXCEPT !.used = TRUE] EXCEPT !.pcb = "ESTABLISHED"] EXCEPT !.recv = TRUE]
           EXCEPT !.sem = 0] \in ConnType
    BY <1>1, <1>2, <1>3, <1>4, Zenon
  <1> QED BY <1>5

LEMMA InputIs ==
    ASSUME Shape, Input
    PROVE  /\ Shape' /\ UNCHANGED <<sockets, select_cb_list, scb, socksem, mbox>>
           /\ \E c \in Conn :
                \/ \E new \in Conn : Connected(c, new)
                \/ \E m \in {"data", "fin"} : Received(c, m)
                \/ \E room \in Room : Acknowledged(c, room)
  <1>1. /\ todo[Tcpip] = <<>> /\ traffic' \in 0 .. MaxTraffic
        /\ UNCHANGED <<sockets, select_cb_list, scb, socksem, mbox>>
    BY SocketsAssumption DEF Input, select, Shape, DataTypes
  <1>2. PICK c \in Conn : \/ \E new \in Conn : Connect(c, new)
                          \/ \E m \in {"data", "fin"} : Receive(c, m)
                          \/ Sent(c)
    BY DEF Input
  <1>3. conn \in [Conn -> ConnType] /\ conn[c] \in ConnType BY DEF Shape, DataTypes
  <1>4. conn' \in [Conn -> ConnType] => DataTypes' BY <1>1 DEF Shape, DataTypes
  <1>5. CASE \E new \in Conn : Connect(c, new)
    <2>1. PICK new \in Conn : Connect(c, new) BY <1>5
    <2>2. [FreeConn EXCEPT !.used = TRUE, !.pcb = "ESTABLISHED", !.recv = TRUE, !.sem = 0] \in ConnType
      <3>1. <<>> \in Seq({"data", "fin"}) /\ <<>> \in Seq(Conn) /\ 0 \in Numbers
        BY SizeType DEF Numbers
      <3>2. FreeConn \in ConnType BY <3>1 DEF FreeConn, ConnType
      <3> QED BY <3>2, NewConnType
    <2>3. conn' \in [Conn -> ConnType] BY <1>3, <2>1, <2>2 DEF Connect
    <2>4. Offer(c, new) \in TcpipOps BY DEF Offer, TcpipOps
    <2>5. <<Event(c, "RCVPLUS"), Offer(c, new)>> \in Seq(TcpipOps)
      BY <2>4, EventOp, TwoTcpip
    <2>6. Shape' /\ Begins(<<Event(c, "RCVPLUS"), Offer(c, new)>>)
      BY <1>1, <1>4, <2>1, <2>3, <2>5, BeginIs DEF Connect
    <2>7. Connected(c, new) BY <2>1, <2>6 DEF Connect, Connected
    <2> QED BY <1>1, <2>6, <2>7
  <1>6. CASE \E m \in {"data", "fin"} : Receive(c, m)
    <2>1. PICK m \in {"data", "fin"} : Receive(c, m) BY <1>6
    <2>2. [conn[c] EXCEPT !.pcb = IF m = "fin" THEN "CLOSE_WAIT" ELSE @] \in ConnType
      BY <1>3 DEF ConnType
    <2>3. conn' \in [Conn -> ConnType] BY <1>3, <2>1, <2>2 DEF Receive
    <2>4. Post(c, m) \in TcpipOps BY DEF Post, TcpipOps
    <2>5. <<Event(c, "RCVPLUS"), Post(c, m)>> \in Seq(TcpipOps) BY <2>4, EventOp, TwoTcpip
    <2>6. Shape' /\ Begins(<<Event(c, "RCVPLUS"), Post(c, m)>>)
      BY <1>1, <1>4, <2>1, <2>3, <2>5, BeginIs DEF Receive
    <2>7. Received(c, m) BY <2>1, <2>6 DEF Receive, Received
    <2> QED BY <1>1, <2>6, <2>7
  <1>7. CASE Sent(c)
    <2>1. PICK room \in Room :
             /\ room > conn[c].sndbuf
             /\ conn' = [conn EXCEPT ![c].sndbuf = room, ![c].sem = IF @ = -1 THEN @ ELSE @ + 1]
             /\ Begin(IF room > TCP_SNDLOWAT THEN <<Event(c, "SENDPLUS")>> ELSE <<>>)
      BY <1>7 DEF Sent
    <2>2. [conn[c] EXCEPT !.sndbuf = room, !.sem = IF @ = -1 THEN @ ELSE @ + 1] \in ConnType
      <3>1. conn[c].sem \in Int /\ room \in Int BY <1>3 DEF ConnType, Room
      <3>2. CASE conn[c].sem = -1 BY <1>3, <3>1, <3>2 DEF ConnType
      <3>3. CASE conn[c].sem # -1
        <4>1. conn[c].sem + 1 \in Int BY <3>1
        <4> QED BY <1>3, <3>1, <3>3, <4>1 DEF ConnType
      <3> QED BY <3>2, <3>3
    <2>3. conn' \in [Conn -> ConnType] BY <1>3, <2>1, <2>2
    <2>4. <<Event(c, "SENDPLUS")>> \in Seq(TcpipOps) /\ <<>> \in Seq(TcpipOps)
      BY EventOp, OneTcpip
    <2>5. \/ Shape' /\ Begins(<<Event(c, "SENDPLUS")>>)
          \/ Shape' /\ Begins(<<>>)
      <3>1. CASE room > TCP_SNDLOWAT
        <4>1. Begin(<<Event(c, "SENDPLUS")>>) BY <2>1, <3>1
        <4> QED BY <1>1, <1>4, <2>3, <2>4, <4>1, BeginIs
      <3>2. CASE ~(room > TCP_SNDLOWAT)
        <4>1. Begin(<<>>) BY <2>1, <3>2
        <4> QED BY <1>1, <1>4, <2>3, <2>4, <4>1, BeginIs
      <3> QED BY <3>1, <3>2
    <2>6. Acknowledged(c, room) BY <1>7, <2>1, <2>5 DEF Sent, Acknowledged
    <2> QED BY <1>1, <2>5, <2>6
  <1> QED BY <1>2, <1>5, <1>6, <1>7

LEMMA TailIs ==
    ASSUME NEW S, NEW s \in Seq(S), s # <<>>
    PROVE  /\ Tail(s) \in Seq(S) /\ Len(Tail(s)) = Len(s) - 1 /\ Head(s) = s[1] /\ s[1] \in S
           /\ \A i \in 1 .. Len(s) - 1 : Tail(s)[i] = s[i + 1]
  OBVIOUS

LEMMA ApiMsgIs ==
    ASSUME Shape, ApiMsgInput
    PROVE  /\ Shape' /\ UNCHANGED <<sockets, select_cb_list, scb, socksem, traffic>>
           /\ mbox # <<>> /\ mbox' = Tail(mbox) /\ mbox[1] \in Message /\ Handled(mbox[1])
  <1> DEFINE m == mbox[1]
             c == mbox[1].c
  <1>1. /\ todo[Tcpip] = <<>> /\ mbox # <<>> /\ mbox' = Tail(mbox)
        /\ UNCHANGED <<sockets, select_cb_list, scb, socksem, traffic>>
    BY DEF ApiMsgInput, select
  <1>2. Head(mbox) = m /\ m \in Message /\ mbox' \in Seq(Message)
    BY <1>1 DEF Shape, DataTypes
  <1>3. c \in Conn /\ m.type \in {"DELCONN", "RECV", "WRITE"} BY <1>2 DEF Message
  <1>4. conn \in [Conn -> ConnType] /\ conn[c] \in ConnType BY <1>3 DEF Shape, DataTypes
  <1>5. conn' \in [Conn -> ConnType] => DataTypes' BY <1>1, <1>2 DEF Shape, DataTypes
  <1>6. CASE m.type = "DELCONN"
    <2>1. DoDelconn(c) BY <1>2, <1>6 DEF ApiMsgInput
    <2>2. [conn[c] EXCEPT !.pcb = NULL] \in ConnType BY <1>4 DEF ConnType
    <2>3. conn' \in [Conn -> ConnType] BY <1>3, <1>4, <2>1, <2>2 DEF DoDelconn
    <2>4. <<Event(c, "RCVPLUS"), Event(c, "SENDPLUS"), Op("answer", c)>> \in Seq(TcpipOps)
      BY <1>3, EventOp, AnswerOp, ThreeTcpip
    <2>5. Shape' /\ Begins(<<Event(c, "RCVPLUS"), Event(c, "SENDPLUS"), Op("answer", c)>>)
      BY <1>1, <1>5, <2>1, <2>3, <2>4, BeginIs DEF DoDelconn
    <2> QED BY <1>1, <1>2, <1>6, <2>1, <2>5 DEF DoDelconn, Handled
  <1>7. CASE m.type = "RECV"
    <2>1. DoRecv(c) BY <1>2, <1>7 DEF ApiMsgInput
    <2>2. <<Op("answer", c)>> \in Seq(TcpipOps) BY <1>3, AnswerOp, OneTcpip
    <2>3. Shape' /\ Begins(<<Op("answer", c)>>)
      BY <1>1, <1>4, <1>5, <2>1, <2>2, BeginIs DEF DoRecv
    <2> QED BY <1>1, <1>2, <1>7, <2>1, <2>3 DEF DoRecv, Handled
  <1>8. CASE m.type = "WRITE"
    <2>1. DoWrite(c) BY <1>2, <1>8 DEF ApiMsgInput
    <2>2. conn' = [conn EXCEPT ![c].sndbuf = @ - 1] BY <2>1 DEF DoWrite
    <2>3. conn' \in [Conn -> ConnType]
      <3>1. conn[c].sndbuf - 1 \in Int BY <1>4 DEF ConnType
      <3>2. [conn[c] EXCEPT !.sndbuf = conn[c].sndbuf - 1] \in ConnType
        BY <1>4, <3>1 DEF ConnType
      <3> QED BY <1>3, <1>4, <2>2, <3>2
    <2>4. /\ <<Op("answer", c)>> \in Seq(TcpipOps)
          /\ <<Event(c, "SENDMINUS"), Op("answer", c)>> \in Seq(TcpipOps)
      BY <1>3, EventOp, AnswerOp, OneTcpip, TwoTcpip
    <2>5. \/ Shape' /\ Begins(<<Event(c, "SENDMINUS"), Op("answer", c)>>)
          \/ Shape' /\ Begins(<<Op("answer", c)>>)
      <3>1. CASE conn[c].sndbuf - 1 <= TCP_SNDLOWAT
        <4>1. Begin(<<Event(c, "SENDMINUS")>> \o <<Op("answer", c)>>)
          BY <2>1, <3>1 DEF DoWrite
        <4>2. <<Event(c, "SENDMINUS")>> \o <<Op("answer", c)>> = <<Event(c, "SENDMINUS"), Op("answer", c)>>
          <5>1. Event(c, "SENDMINUS") \in TcpipOps /\ Op("answer", c) \in TcpipOps
            BY <1>3, EventOp, AnswerOp
          <5> QED BY <5>1, PairIs, Zenon
        <4> QED BY <1>1, <1>5, <2>3, <2>4, <4>1, <4>2, BeginIs
      <3>2. CASE ~(conn[c].sndbuf - 1 <= TCP_SNDLOWAT)
        <4>1. Begin(<<>> \o <<Op("answer", c)>>) BY <2>1, <3>2 DEF DoWrite
        <4>2. <<>> \o <<Op("answer", c)>> = <<Op("answer", c)>> OBVIOUS
        <4> QED BY <1>1, <1>5, <2>3, <2>4, <4>1, <4>2, BeginIs
      <3> QED BY <3>1, <3>2
    <2> QED BY <1>1, <1>2, <1>8, <2>2, <2>5 DEF Handled
  <1> QED BY <1>3, <1>6, <1>7, <1>8

LEMMA DeliverIs ==
    ASSUME Shape, Deliver
    PROVE  /\ Shape' /\ UNCHANGED <<sockets, select_cb_list, scb, socksem, mbox, traffic>>
           /\ TcpipSteps(<<>>) /\ todo[Tcpip][1].c \in Conn
           /\ todo[Tcpip][1].op \in {"post", "offer", "answer"} /\ Delivered(todo[Tcpip][1])
  <1> DEFINE o == todo[Tcpip][1]
             c == o.c
  <1>1. /\ Doing(Tcpip, "post") \/ Doing(Tcpip, "offer") \/ Doing(Tcpip, "answer")
        /\ UNCHANGED <<sockets, select_cb_list, scb, socksem, mbox, traffic>>
        /\ Then(Tcpip, <<>>)
    BY DEF Deliver, select
  <1>2. /\ todo[Tcpip] # <<>> /\ Next1(Tcpip) = o /\ o \in TcpipOps
        /\ o.op \in {"post", "offer", "answer"}
    BY <1>1, FirstTcpip DEF Shape
  <1>3. /\ o.op = "post" => o = Post(o.c, o.m) /\ o.m \in {"data", "fin"}
        /\ o.op = "offer" => o = Offer(o.c, o.new) /\ o.new \in Conn
        /\ o.op = "answer" => o = Op("answer", o.c)
        /\ c \in Conn
    BY <1>2, TcpipOp
  <1>4. conn \in [Conn -> ConnType] /\ conn[c] \in ConnType BY <1>3 DEF Shape, DataTypes
  <1>5. conn' \in [Conn -> ConnType] /\ Delivered(o)
    <2>1. CASE o.op = "post"
      <3>1. conn' = [conn EXCEPT ![c].recvmbox = Append(@, o.m)]
        BY <1>2, <2>1 DEF Deliver, Doing
      <3>2. Append(conn[c].recvmbox, o.m) \in Seq({"data", "fin"})
        BY <1>3, <1>4, <2>1 DEF ConnType
      <3>3. [conn[c] EXCEPT !.recvmbox = Append(conn[c].recvmbox, o.m)] \in ConnType
        BY <1>4, <3>2 DEF ConnType
      <3>4. conn' \in [Conn -> ConnType] BY <1>3, <1>4, <3>1, <3>3
      <3> QED BY <1>3, <2>1, <3>1, <3>4 DEF Delivered
    <2>2. CASE o.op = "offer"
      <3>1. conn' = [conn EXCEPT ![o.new].socket = -1, ![c].acceptmbox = Append(@, o.new)]
        BY <1>2, <2>2 DEF Deliver, Doing
      <3> DEFINE f == [conn EXCEPT ![o.new].socket = -1]
      <3>2. f \in [Conn -> ConnType]
        <4>1. -1 \in Numbers /\ conn[o.new] \in ConnType
          BY <1>3, <1>4, <2>2, SizeType DEF Numbers
        <4>2. [conn[o.new] EXCEPT !.socket = -1] \in ConnType BY <4>1 DEF ConnType
        <4> QED BY <1>3, <1>4, <2>2, <4>2
      <3>3. conn' = [f EXCEPT ![c].acceptmbox = Append(@, o.new)] BY <3>1
      <3> HIDE DEF f
      <3>4. f[c] \in ConnType /\ f[c].acceptmbox \in Seq(Conn) BY <1>3, <3>2 DEF ConnType
      <3>5. Append(f[c].acceptmbox, o.new) \in Seq(Conn) BY <1>3, <2>2, <3>4
      <3>6. [f[c] EXCEPT !.acceptmbox = Append(f[c].acceptmbox, o.new)] \in ConnType
        BY <3>4, <3>5 DEF ConnType
      <3>7. conn' \in [Conn -> ConnType] BY <1>3, <3>2, <3>3, <3>6
      <3> QED BY <1>3, <2>2, <3>1, <3>7 DEF Delivered
    <2>3. CASE o.op = "answer"
      <3>1. conn' = [conn EXCEPT ![c].reply = @ + 1] BY <1>2, <2>3 DEF Deliver, Doing
      <3>0. conn[c].reply + 1 \in Int BY <1>4 DEF ConnType
      <3>2. [conn[c] EXCEPT !.reply = conn[c].reply + 1] \in ConnType
        BY <1>4, <3>0 DEF ConnType
      <3>3. conn' \in [Conn -> ConnType] BY <1>3, <1>4, <3>1, <3>2
      <3> QED BY <1>3, <2>3, <3>1, <3>3 DEF Delivered
    <2> QED BY <1>2, <2>1, <2>2, <2>3
  <1>6. DataTypes' BY <1>1, <1>5 DEF Shape, DataTypes
  <1>7. <<>> \in Seq(TcpipOps) OBVIOUS
  <1>8. Shape' /\ TcpipSteps(<<>>) BY <1>1, <1>2, <1>6, <1>7, TcpipThen
  <1> QED BY <1>1, <1>2, <1>3, <1>5, <1>8

-----------------------------------------------------------------------------
(* The tasks' calls: one at a time on a socket, and on one that is there *)

(* A task that does an operation stays in its call. *)
LEMMA StepsCall ==
    ASSUME Shape, NEW t \in Task, NEW ops, Steps(t, ops)
    PROVE  /\ \A u \in Task : InCall(u)' <=> InCall(u)
           /\ \A u \in Task : InCall(u) => Sock(u)' = Sock(u)
           /\ InCall(t) /\ todo'[t][Len(todo'[t])] = todo[t][Len(todo[t])]
  <1>1. /\ todo[t] # <<>> /\ todo[t] \in Seq(TaskOps) /\ Len(todo[t]) > 1 /\ Len(todo'[t]) > 0
        /\ Len(todo[t]) \in Nat /\ Behind(todo'[t], ops, todo[t]) /\ ops \in Seq(TaskOps)
        /\ Len(ops) \in Nat /\ \A u \in (Task \cup {Tcpip}) \ {t} : todo'[u] = todo[u]
    BY DEF Steps, Leaves, Shape, OpTypes
  <1>2. Len(todo[t]) \in 2 .. Len(todo[t]) BY <1>1
  <1>3. /\ todo'[t][Len(ops) + Len(todo[t]) - 1] = todo[t][Len(todo[t])]
        /\ Len(todo'[t]) = Len(ops) + Len(todo[t]) - 1
    BY <1>1, <1>2 DEF Behind
  <1>4. todo'[t][Len(todo'[t])] = todo[t][Len(todo[t])] /\ todo'[t] # <<>> BY <1>1, <1>3
  <1>5. todo[t][Len(todo[t])].op = "return"
    <2>1. Ordered(todo[t]) /\ Len(todo[t]) \in 1 .. Len(todo[t]) BY <1>1 DEF Shape, Grammar
    <2>2. todo[t][Len(todo[t])].op \in EndNames /\ Len(todo[t]) # 1
      BY <1>1, <2>1 DEF Ordered
    <2>3. todo[t][Len(todo[t])].op \notin {"asleep", "leave"} BY <2>1, <2>2 DEF Ordered
    <2> QED BY <2>2, <2>3 DEF EndNames
  <1>6. ASSUME NEW u \in Task
        PROVE  (InCall(u)' <=> InCall(u)) /\ (InCall(u) => Sock(u)' = Sock(u))
    <2>1. CASE u = t BY <1>1, <1>4, <1>5, <2>1 DEF InCall, Sock
    <2>2. CASE u # t BY <1>1, <2>2 DEF InCall, Sock
    <2> QED BY <2>1, <2>2
  <1> QED BY <1>1, <1>4, <1>5, <1>6 DEF InCall

LEMMA CallSocket ==
    ASSUME Shape, NEW t \in Task, InCall(t)
    PROVE  /\ Sock(t) \in Socket /\ Len(todo[t]) \in Nat /\ Len(todo[t]) > 0
           /\ todo[t][Len(todo[t])] = Return(Sock(t))
  <1>1. /\ todo[t] \in Seq(TaskOps) /\ todo[t] # <<>> /\ todo[t][Len(todo[t])].op = "return"
        /\ Len(todo[t]) \in Nat /\ Len(todo[t]) > 0 /\ Len(todo[t]) \in 1 .. Len(todo[t])
    BY DEF InCall, Shape, OpTypes
  <1>2. todo[t][Len(todo[t])] \in TaskOps BY <1>1
  <1> QED BY <1>1, <1>2, TaskOp DEF Sock

LEMMA StepsCallsOK ==
    ASSUME Shape, CallsOK, NEW t \in Task, NEW ops, Steps(t, ops),
           \A s \in Socket : sockets[s].conn # NULL => sockets'[s].conn # NULL
    PROVE  CallsOK'
  <1>1. /\ \A u \in Task : InCall(u)' <=> InCall(u)
        /\ \A u \in Task : InCall(u) => Sock(u)' = Sock(u)
        /\ \A u \in (Task \cup {Tcpip}) \ {t} : todo'[u] = todo[u]
        /\ Len(todo[t]) > 1
    BY StepsCall DEF Steps
  <1>2. ASSUME NEW u \in Task, InCall(u)', Len(todo'[u]) > 1 PROVE sockets'[Sock(u)'].conn # NULL
    <2>1. InCall(u) /\ Sock(u)' = Sock(u) /\ Len(todo[u]) > 1 BY <1>1, <1>2
    <2>2. Sock(u) \in Socket BY <2>1, CallSocket
    <2> QED BY <2>1, <2>2 DEF CallsOK
  <1>3. ASSUME NEW u \in Task, NEW v \in Task, InCall(u)', InCall(v)', Sock(u)' = Sock(v)'
        PROVE  u = v
    BY <1>1, <1>3 DEF CallsOK
  <1> QED BY <1>2, <1>3 DEF CallsOK

(* A task ends its call, or is on its way through lwip_select. *)
LEMMA EndsCallsOK ==
    ASSUME Shape, CallsOK, NEW t \in Task, ~InCall(t)' \/ (InCall(t) /\ Len(todo'[t]) = 1 /\ Sock(t)' = Sock(t)),
           \A u \in (Task \cup {Tcpip}) \ {t} : todo'[u] = todo[u],
           \A s \in Socket : sockets[s].conn # NULL => sockets'[s].conn # NULL \/ (InCall(t) /\ s = Sock(t))
    PROVE  CallsOK'
  <1>1. ASSUME NEW u \in Task, InCall(u)', Len(todo'[u]) > 1 PROVE sockets'[Sock(u)'].conn # NULL
    <2>1. u # t BY <1>1 DEF InCall
    <2>2. InCall(u) /\ Len(todo[u]) > 1 /\ Sock(u)' = Sock(u) BY <1>1, <2>1 DEF InCall, Sock
    <2>3. Sock(u) \in Socket /\ sockets[Sock(u)].conn # NULL BY <2>2, CallSocket DEF CallsOK
    <2>4. ~(InCall(t) /\ Sock(u) = Sock(t)) BY <2>1, <2>2 DEF CallsOK
    <2> QED BY <2>2, <2>3, <2>4
  <1>2. ASSUME NEW u \in Task, NEW v \in Task, InCall(u)', InCall(v)', Sock(u)' = Sock(v)'
        PROVE  u = v
    <2>1. ASSUME NEW w \in Task, InCall(w)' PROVE InCall(w) /\ Sock(w)' = Sock(w)
      BY <2>1 DEF InCall, Sock
    <2> QED BY <1>2, <2>1 DEF CallsOK
  <1> QED BY <1>1, <1>2 DEF CallsOK

(* A task calls accept, recv, send or close on a socket. *)
LEMMA BeginCallIs ==
    ASSUME Shape, CallsOK, NEW t \in Task, BeginCall(t)
    PROVE  /\ Shape' /\ CallsOK' /\ UNCHANGED <<conn, select_cb_list, scb, socksem, mbox, traffic>>
           /\ \A s \in Socket : sockets'[s] = [sockets[s] EXCEPT !.lastdata = sockets'[s].lastdata]
           /\ \/ UNCHANGED todo
              \/ /\ todo[t] = <<>> /\ UNCHANGED sockets
                 /\ \A u \in (Task \cup {Tcpip}) \ {t} : todo'[u] = todo[u]
                 /\ \A u \in Task : InSelect(u)' <=> InSelect(u)
                 /\ \E s \in Socket, o \in TaskOps :
                      /\ Usable(s) /\ todo'[t] = <<o, Return(s)>>
                      /\ \/ /\ o = Op("take", Listener) /\ sockets[s].conn = Listener
                            /\ "accept" \in Calls[t]
                         \/ /\ o = Op("fetch", sockets[s].conn) /\ sockets[s].conn # Listener
                            /\ "recv" \in Calls[t]
                         \/ o = Op("write", sockets[s].conn) /\ sockets[s].conn # Listener
                         \/ o = [op |-> "close", s |-> s]
  <1>1. UNCHANGED <<conn, select_cb_list, scb, socksem, mbox, traffic>>
    BY DEF BeginCall, select
  <1>2. PICK s \in Socket : Accept(t, s) \/ Recv(t, s) \/ Send(t, s) \/ Close(t, s)
    BY DEF BeginCall
  <1>3. sockets \in [Socket -> SocketType] /\ sockets[s] \in SocketType
    BY DEF Shape, DataTypes
  <1>4. Usable(s) /\ Returned(s) /\ sockets[s].conn \in Conn
    <2>1. Usable(s) /\ Returned(s) BY <1>2 DEF Accept, Recv, Send, Close, Usable
    <2> QED BY <1>3, <2>1 DEF Returned, SocketType
  <1>5. CASE sockets[s].lastdata /\ sockets' = [sockets EXCEPT ![s].lastdata = FALSE] /\ UNCHANGED todo
    <2>1. /\ sockets' \in [Socket -> SocketType]
          /\ \A r \in Socket : sockets'[r].conn = sockets[r].conn
          /\ \A r \in Socket : sockets'[r] = [sockets[r] EXCEPT !.lastdata = sockets'[r].lastdata]
      BY <1>3, <1>5 DEF SocketType
    <2>2. DataTypes' BY <1>1, <2>1 DEF Shape, DataTypes
    <2>3. Shape'
      BY <1>1, <1>5, <2>2 DEF Shape, OpTypes, Grammar, Ordered, Follows, Drained, ListOK, Listed, InSelect
    <2>4. CallsOK'
      <3>1. ASSUME NEW u \in Task, InCall(u)', Len(todo'[u]) > 1 PROVE sockets'[Sock(u)'].conn # NULL
        <4>1. InCall(u) /\ Len(todo[u]) > 1 /\ Sock(u)' = Sock(u)
          BY <1>5, <3>1 DEF InCall, Sock
        <4> QED BY <2>1, <4>1, CallSocket DEF CallsOK
      <3>2. ASSUME NEW u \in Task, NEW v \in Task, InCall(u)', InCall(v)', Sock(u)' = Sock(v)'
            PROVE  u = v
        BY <1>5, <3>2 DEF CallsOK, InCall, Sock
      <3> QED BY <3>1, <3>2 DEF CallsOK
    <2> QED BY <1>1, <1>5, <2>1, <2>3, <2>4
  <1>6. ASSUME NEW o \in TaskOps, todo[t] = <<>>, UNCHANGED sockets, Call(t, <<o, Return(s)>>),
               o.op \in {"take", "fetch", "write", "close"}, o.op = "close" => o.s = s
        PROVE  /\ Shape' /\ CallsOK' /\ todo'[t] = <<o, Return(s)>>
               /\ \A u \in (Task \cup {Tcpip}) \ {t} : todo'[u] = todo[u]
               /\ \A u \in Task : InSelect(u)' <=> InSelect(u)
    <2>1. DataTypes' BY <1>1, <1>6 DEF Shape, DataTypes
    <2>2. /\ Shape' /\ todo'[t] = <<o, Return(s)>>
          /\ \A u \in (Task \cup {Tcpip}) \ {t} : todo'[u] = todo[u]
          /\ \A u \in Task : InSelect(u)' <=> InSelect(u)
      BY <1>1, <1>6, <2>1, BeginsCall
    <2>3. InCall(t)' /\ Sock(t)' = s
      <3>1. Len(todo'[t]) = 2 /\ todo'[t][2] = Return(s) /\ todo'[t] # <<>> BY <2>2
      <3> QED BY <3>1 DEF InCall, Sock, Return
    <2>4. ASSUME NEW u \in Task, InCall(u)', u # t PROVE InCall(u) /\ Sock(u)' = Sock(u) /\ Sock(u) # s
      <3>1. InCall(u) /\ Sock(u)' = Sock(u) /\ todo[u] # <<>> BY <2>2, <2>4 DEF InCall, Sock
      <3>2. todo[u][Len(todo[u])] = Return(Sock(u)) BY <3>1, CallSocket
      <3>3. Last(todo[u]) # Return(s) BY <1>4, <3>1 DEF Usable
      <3> QED BY <3>1, <3>2, <3>3 DEF Last
    <2>5. ASSUME NEW u \in Task, InCall(u)', Len(todo'[u]) > 1 PROVE sockets'[Sock(u)'].conn # NULL
      <3>1. CASE u = t BY <1>4, <1>6, <2>3, <3>1, SocketsAssumption DEF Sock
      <3>2. CASE u # t BY <1>6, <2>2, <2>4, <2>5, <3>2 DEF CallsOK
      <3> QED BY <3>1, <3>2
    <2>6. ASSUME NEW u \in Task, NEW v \in Task, InCall(u)', InCall(v)', Sock(u)' = Sock(v)'
          PROVE  u = v
      <3>1. CASE u # t /\ v # t BY <2>4, <2>6, <3>1 DEF CallsOK
      <3>2. CASE u = t /\ v # t BY <2>3, <2>4, <2>6, <3>2 DEF Sock
      <3>3. CASE u # t /\ v = t BY <2>3, <2>4, <2>6, <3>3 DEF Sock
      <3> QED BY <3>1, <3>2, <3>3
    <2>7. CallsOK' BY <2>5, <2>6 DEF CallsOK
    <2> QED BY <2>2, <2>7
  <1>7. \A r \in Socket : sockets[r] = [sockets[r] EXCEPT !.lastdata = sockets[r].lastdata]
    BY <1>3 DEF SocketType
  <1>8. Listener \in Conn /\ {"take", "fetch", "write"} \subseteq CallNames
    BY SocketsAssumption DEF CallNames
  <1>9. CASE Accept(t, s)
    <2>1. /\ todo[t] = <<>> /\ "accept" \in Calls[t] /\ sockets[s].conn = Listener
          /\ Call(t, <<Op("take", Listener), Return(s)>>) /\ UNCHANGED sockets
      BY <1>9 DEF Accept, Idle
    <2>2. Op("take", Listener) \in TaskOps /\ Op("take", Listener).op = "take"
      BY <1>8 DEF Op, TaskOps
    <2>3. /\ Shape' /\ CallsOK' /\ todo'[t] = <<Op("take", Listener), Return(s)>>
          /\ \A u \in (Task \cup {Tcpip}) \ {t} : todo'[u] = todo[u]
          /\ \A u \in Task : InSelect(u)' <=> InSelect(u)
      BY <1>6, <2>1, <2>2
    <2> QED BY <1>1, <1>4, <1>7, <2>1, <2>2, <2>3
  <1>10. CASE Recv(t, s) /\ ~sockets[s].lastdata
    <2> DEFINE o == Op("fetch", sockets[s].conn)
    <2>1. /\ todo[t] = <<>> /\ "recv" \in Calls[t] /\ sockets[s].conn # Listener
          /\ Call(t, <<o, Return(s)>>) /\ UNCHANGED sockets
      BY <1>10 DEF Recv, Idle
    <2>2. o \in TaskOps /\ o.op = "fetch" BY <1>4, <1>8 DEF Op, TaskOps
    <2>3. /\ Shape' /\ CallsOK' /\ todo'[t] = <<o, Return(s)>>
          /\ \A u \in (Task \cup {Tcpip}) \ {t} : todo'[u] = todo[u]
          /\ \A u \in Task : InSelect(u)' <=> InSelect(u)
      BY <1>6, <2>1, <2>2
    <2> QED BY <1>1, <1>4, <1>7, <2>1, <2>2, <2>3
  <1>11. CASE Send(t, s)
    <2> DEFINE o == Op("write", sockets[s].conn)
    <2>1. /\ todo[t] = <<>> /\ sockets[s].conn # Listener
          /\ Call(t, <<o, Return(s)>>) /\ UNCHANGED sockets
      BY <1>11 DEF Send, Idle
    <2>2. o \in TaskOps /\ o.op = "write" BY <1>4, <1>8 DEF Op, TaskOps
    <2>3. /\ Shape' /\ CallsOK' /\ todo'[t] = <<o, Return(s)>>
          /\ \A u \in (Task \cup {Tcpip}) \ {t} : todo'[u] = todo[u]
          /\ \A u \in Task : InSelect(u)' <=> InSelect(u)
      BY <1>6, <2>1, <2>2
    <2> QED BY <1>1, <1>4, <1>7, <2>1, <2>2, <2>3
  <1>12. CASE Close(t, s)
    <2> DEFINE o == [op |-> "close", s |-> s]
    <2>1. todo[t] = <<>> /\ Call(t, <<o, Return(s)>>) /\ UNCHANGED sockets
      BY <1>12 DEF Close, Idle
    <2>2. o \in TaskOps /\ o.op = "close" /\ o.s = s BY DEF TaskOps
    <2>3. /\ Shape' /\ CallsOK' /\ todo'[t] = <<o, Return(s)>>
          /\ \A u \in (Task \cup {Tcpip}) \ {t} : todo'[u] = todo[u]
          /\ \A u \in Task : InSelect(u)' <=> InSelect(u)
      BY <1>6, <2>1, <2>2
    <2> QED BY <1>1, <1>4, <1>7, <2>1, <2>2, <2>3
  <1>13. CASE Recv(t, s) /\ sockets[s].lastdata BY <1>5, <1>13 DEF Recv
  <1> QED BY <1>2, <1>9, <1>10, <1>11, <1>12, <1>13

-----------------------------------------------------------------------------
(* No other operation signals, and only those that receive or accept call  *)
(* event_callback.                                                         *)

LEMMA QuietOnes ==
    ASSUME NEW t \in Task, NEW ops, NEW n \in 0 .. 5, Len(ops) = n,
           \A i \in {1, 2, 3, 4, 5} : i <= n =>
                ops[i].op # "signal" /\ (ops[i].op \in Raising => todo[t][1].op \in Raising)
    PROVE  Quiet(t, ops)
  <1>1. ASSUME NEW i \in 1 .. Len(ops) PROVE i \in {1, 2, 3, 4, 5} /\ i <= n OBVIOUS
  <1> QED BY <1>1 DEF Quiet

LEMMA QuietNothing == ASSUME NEW t \in Task PROVE Quiet(t, <<>>)
  BY DEF Quiet

LEMMA QuietOne ==
    ASSUME NEW t \in Task, NEW o, o.op \notin Raising
    PROVE  Quiet(t, <<o>>)
  <1>1. \A i \in 1 .. Len(<<o>>) : <<o>>[i] = o OBVIOUS
  <1> QED BY <1>1 DEF Quiet, Raising

LEMMA QuietTwo ==
    ASSUME NEW t \in Task, NEW c, NEW p, p.op \notin Raising, todo[t][1].op \in {"take", "fetch"}
    PROVE  Quiet(t, <<Event(c, "RCVMINUS"), p>>)
  <1> DEFINE q == <<Event(c, "RCVMINUS"), p>>
  <1>1. Len(q) = 2 /\ q[1].op = "event" /\ q[2] = p BY DEF Event
  <1> HIDE DEF q
  <1>2. ASSUME NEW i \in 1 .. Len(q) PROVE i = 1 \/ i = 2 BY <1>1
  <1>3. Quiet(t, q) BY <1>1, <1>2 DEF Quiet, Raising
  <1> QED BY <1>3 DEF q

LEMMA QuietWriting ==
    ASSUME NEW t \in Task, NEW c \in Conn
    PROVE  Quiet(t, Writing(c))
  <1> DEFINE q == Writing(c)
  <1>0. Len(q) = 3 /\ q[1] = Asks(c, "WRITE") /\ q[2] = Op("await", c) /\ q[3] = Op("freesem", c)
    BY WritingIs
  <1> HIDE DEF q
  <1>1. Len(q) = 3 /\ q[1].op = "ask" /\ q[2].op = "await" /\ q[3].op = "freesem"
    BY <1>0 DEF Asks, Op
  <1>2. ASSUME NEW i \in 1 .. Len(q) PROVE i = 1 \/ i = 2 \/ i = 3 BY <1>1
  <1>3. Quiet(t, q) BY <1>1, <1>2 DEF Quiet, Raising
  <1> QED BY <1>3 DEF q

LEMMA QuietReceiving ==
    ASSUME NEW t \in Task, NEW c \in Conn, NEW s \in Socket, todo[t][1].op = "fetch"
    PROVE  Quiet(t, Receiving(c, s))
  <1> DEFINE q == Receiving(c, s)
  <1>0. /\ Len(q) = 4 /\ q[1] = Event(c, "RCVMINUS") /\ q[2] = Asks(c, "RECV")
        /\ q[3] = Op("await", c) /\ q[4] = [op |-> "copy", s |-> s]
    BY ReceivingIs
  <1> HIDE DEF q
  <1>1. /\ Len(q) = 4 /\ q[1].op = "event" /\ q[2].op = "ask" /\ q[3].op = "await"
        /\ q[4].op = "copy"
    BY <1>0 DEF Asks, Op, Event
  <1>2. ASSUME NEW i \in 1 .. Len(q) PROVE i = 1 \/ i = 2 \/ i = 3 \/ i = 4 BY <1>1
  <1>3. Quiet(t, q) BY <1>1, <1>2 DEF Quiet, Raising
  <1> QED BY <1>3 DEF q

LEMMA QuietDelete ==
    ASSUME NEW t \in Task, NEW c \in Conn, NEW o \in TaskOps, o.op \notin Raising
    PROVE  Quiet(t, Delete(c) \o <<o>>)
  <1> DEFINE q == Delete(c) \o <<o>>
  <1>0. /\ Len(q) = 5 /\ q[1] = Asks(c, "DELCONN") /\ q[2] = Op("await", c)
        /\ q[3] = Op("drain", c) /\ q[4] = Op("free", c) /\ q[5] = o
    BY DeleteThen
  <1> HIDE DEF q
  <1>1. /\ Len(q) = 5 /\ q[1].op = "ask" /\ q[2].op = "await" /\ q[3].op = "drain"
        /\ q[4].op = "free" /\ q[5] = o
    BY <1>0 DEF Asks, Op
  <1>2. ASSUME NEW i \in 1 .. Len(q) PROVE i = 1 \/ i = 2 \/ i = 3 \/ i = 4 \/ i = 5 BY <1>1
  <1>3. Quiet(t, q) BY <1>1, <1>2 DEF Quiet, Raising
  <1> QED BY <1>3 DEF q

LEMMA NetconnSteps ==
    ASSUME Shape, NEW t \in Task, NetconnStep(t)
    PROVE  \E c \in Conn : OnConn(t, c) /\ NetconnStepIs(t, c)
  BY DEF NetconnStep, OnConn, NetconnStepIs

LEMMA NetconnQuiet ==
    ASSUME Shape, CallsOK, NEW t \in Task, NetconnStep(t)
    PROVE  /\ Shape' /\ CallsOK' /\ UNCHANGED <<sockets, select_cb_list, scb, socksem, traffic>>
           /\ \/ UNCHANGED todo
              \/ \E ops : Steps(t, ops) /\ Quiet(t, ops)
  <1>1. PICK c \in Conn : OnConn(t, c) /\ NetconnStepIs(t, c) BY NetconnSteps
  <1>2. \A o \in {"room", "await", "ask", "freesem", "freembox", "drain", "alloc", "free"} : o \notin Raising
    BY DEF Raising
  <1>3. UNCHANGED sockets /\ CallsOK BY <1>1 DEF OnConn
  <1>4. /\ Shape' /\ UNCHANGED <<sockets, select_cb_list, scb, socksem, traffic>>
        /\ \/ UNCHANGED todo
           \/ \E ops : Steps(t, ops) /\ Quiet(t, ops)
    <2>1. CASE Ask(t, c) BY <1>1, <2>1, AskIs, QuietNothing
    <2>2. CASE Await(t, c) BY <1>1, <2>2, AwaitIs, QuietNothing
    <2>3. CASE Take(t, c)
      <3> DEFINE new == Head(conn[c].acceptmbox)
      <3>1. /\ Shape' /\ Steps(t, <<Event(c, "RCVMINUS"), Op("alloc", new)>>)
            /\ todo[t][1] = Op("take", c)
            /\ UNCHANGED <<sockets, select_cb_list, scb, socksem, mbox, traffic>>
        BY <1>1, <2>3, TakeIs
      <3>2. Op("alloc", new).op \notin Raising /\ todo[t][1].op \in {"take", "fetch"}
        BY <1>2, <3>1 DEF Op
      <3> QED BY <3>1, <3>2, QuietTwo
    <2>4. CASE Fetch(t, c)
      <3>1. /\ Shape' /\ todo[t][1] = Op("fetch", c)
            /\ \/ Steps(t, <<Event(c, "RCVMINUS"), Op("freembox", c)>>)
               \/ todo[t][2].s \in Socket /\ Steps(t, Receiving(c, todo[t][2].s))
            /\ UNCHANGED <<sockets, select_cb_list, scb, socksem, mbox, traffic>>
        BY <1>1, <2>4, FetchIs
      <3>2. Op("freembox", c).op \notin Raising /\ todo[t][1].op = "fetch"
        BY <1>2, <3>1 DEF Op
      <3> QED BY <3>1, <3>2, QuietTwo, QuietReceiving
    <2>5. CASE FreeMbox(t, c) BY <1>1, <2>5, FreeMboxIs, QuietNothing
    <2>6. CASE Write(t, c)
      <3>1. Op("room", c).op \notin Raising BY <1>2 DEF Op
      <3> QED BY <1>1, <2>6, <3>1, WriteIs, QuietOne
    <2>7. CASE WaitForRoom(t, c)
      <3>1. /\ Shape' /\ (UNCHANGED todo \/ Steps(t, Writing(c)))
            /\ UNCHANGED <<sockets, select_cb_list, scb, socksem, mbox, traffic>>
        BY <1>1, <2>7, WaitForRoomIs
      <3> QED BY <3>1, QuietWriting
    <2>8. CASE FreeSem(t, c) BY <1>1, <2>8, FreeSemIs, QuietNothing
    <2>9. CASE Drain(t, c)
      <3> DEFINE new == Head(conn[c].acceptmbox)
      <3>1. /\ Shape' /\ todo[t][1] = Op("drain", c)
            /\ \/ new \in Conn /\ Steps(t, Delete(new) \o <<Op("drain", c)>>)
               \/ Steps(t, <<>>)
            /\ UNCHANGED <<sockets, select_cb_list, scb, socksem, mbox, traffic>>
        BY <1>1, <2>9, DrainIs
      <3>2. Op("drain", c).op \notin Raising /\ Op("drain", c) \in TaskOps
        BY <1>2 DEF Op, TaskOps, CallNames
      <3> QED BY <3>1, <3>2, QuietDelete, QuietNothing
    <2>10. CASE FreeNetconn(t, c) BY <1>1, <2>10, FreeNetconnIs, QuietNothing
    <2> QED
      BY <1>1, <2>1, <2>2, <2>3, <2>4, <2>5, <2>6, <2>7, <2>8, <2>9, <2>10 DEF NetconnStepIs
  <1>5. CASE UNCHANGED todo
    <2>1. \A u \in Task : (InCall(u)' <=> InCall(u)) /\ Sock(u)' = Sock(u) /\ todo'[u] = todo[u]
      BY <1>5 DEF InCall, Sock
    <2>2. CallsOK' BY <1>3, <2>1 DEF CallsOK
    <2> QED BY <1>4, <2>2
  <1>6. CASE \E ops : Steps(t, ops)
    <2>1. PICK ops : Steps(t, ops) BY <1>6
    <2>2. \A s \in Socket : sockets[s].conn # NULL => sockets'[s].conn # NULL BY <1>3
    <2> QED BY <1>4, <2>1, <2>2, StepsCallsOK
  <1> QED BY <1>4, <1>5, <1>6

LEMMA SocketSteps ==
    ASSUME Shape, NEW t \in Task, SocketStep(t)
    PROVE  /\ UNCHANGED <<select, mbox, traffic>>
           /\ \/ AllocSocket(t) \/ ReturnFrom(t)
              \/ \E s \in Socket : OnSocket(t, s) /\ SocketStepIs(t, s)
  BY DEF SocketStep, OnSocket, SocketStepIs

LEMMA CloseHasConn ==
    ASSUME Shape, CallsOK, NEW t \in Task, NEW s \in Socket, OnSocket(t, s), CloseLocked(t, s)
    PROVE  sockets[s].conn \in Conn
  <1>1. Doing(t, "close") /\ Next1(t).s = s BY DEF CloseLocked, OnSocket
  <1>2. /\ todo[t] # <<>> /\ todo[t][1].s = s /\ todo[t][2] = Return(todo[t][1].s)
        /\ todo[t][1].op = "close" /\ sockets \in [Socket -> SocketType]
    BY <1>1, OnSocketOp
  <1>3. todo[t] \in Seq(TaskOps) /\ Len(todo[t]) \in Nat /\ Len(todo[t]) > 0 /\ Ordered(todo[t])
    BY <1>2 DEF Shape, OpTypes, Grammar
  <1>4. Len(todo[t]) # 1
    <2>1. 1 \in 1 .. Len(todo[t]) BY <1>3
    <2> QED BY <1>2, <1>3, <2>1 DEF Ordered, EndNames
  <1>5. Len(todo[t]) > 1 /\ 2 \in 1 .. Len(todo[t])
    <2>1. Len(todo[t]) > 1 BY <1>3, <1>4, OneOrMore, Zenon
    <2> QED BY <1>3, <2>1
  <1>6. todo[t][2].op = "return" /\ todo[t][2].s = s BY <1>2 DEF Return
  <1>7. Len(todo[t]) = 2 BY <1>3, <1>5, <1>6 DEF Ordered, EndNames
  <1>8. InCall(t) /\ Sock(t) = s BY <1>2, <1>6, <1>7 DEF InCall, Sock
  <1> QED BY <1>2, <1>5, <1>8 DEF CallsOK, SocketType

LEMMA SocketQuiet ==
    ASSUME Shape, CallsOK, NEW t \in Task, SocketStep(t)
    PROVE  /\ Shape' /\ CallsOK' /\ UNCHANGED <<select_cb_list, scb, mbox, traffic>>
           /\ \/ \E ops : Steps(t, ops) /\ Quiet(t, ops)
              \/ /\ todo[t] # <<>> /\ todo[t][1].op = "return" /\ Len(todo[t]) = 1
                 /\ todo'[t] = <<>> /\ \A u \in (Task \cup {Tcpip}) \ {t} : todo'[u] = todo[u]
  <1>1. /\ UNCHANGED <<select, mbox, traffic>>
        /\ \/ AllocSocket(t) \/ ReturnFrom(t)
           \/ \E s \in Socket : OnSocket(t, s) /\ SocketStepIs(t, s)
    BY SocketSteps
  <1>2. \A o \in {"adopt", "publish", "closed"} : o \notin Raising BY DEF Raising
  <1>3. sockets \in [Socket -> SocketType] /\ NULL \notin Conn
    BY SocketsAssumption DEF Shape, DataTypes
  <1>4. CASE AllocSocket(t)
    <2> DEFINE c == todo[t][1].c
    <2>1. /\ Shape' /\ c \in Conn /\ UNCHANGED <<select_cb_list, scb, mbox, traffic>>
          /\ \E i \in Socket :
               /\ sockets[i].conn = NULL /\ Steps(t, <<Adopt(c, i)>>)
               /\ sockets' = [sockets EXCEPT ![i] = [FreeSocket EXCEPT !.conn = c]]
      BY <1>1, <1>4, AllocIs
    <2>2. PICK i \in Socket : /\ sockets[i].conn = NULL /\ Steps(t, <<Adopt(c, i)>>)
                              /\ sockets' = [sockets EXCEPT ![i] = [FreeSocket EXCEPT !.conn = c]]
      BY <2>1
    <2>3. \A s \in Socket : sockets[s].conn # NULL => sockets'[s].conn # NULL BY <1>3, <2>2
    <2>4. Adopt(c, i).op \notin Raising BY <1>2 DEF Adopt
    <2> QED BY <2>1, <2>2, <2>3, <2>4, QuietOne, StepsCallsOK
  <1>5. CASE ReturnFrom(t)
    <2>1. /\ Shape' /\ todo[t] # <<>> /\ todo[t][1].op = "return" /\ Len(todo[t]) = 1
          /\ todo'[t] = <<>> /\ \A u \in (Task \cup {Tcpip}) \ {t} : todo'[u] = todo[u]
          /\ UNCHANGED <<sockets, conn, select_cb_list, scb, socksem, mbox, traffic>>
      BY <1>1, <1>5, ReturnIs
    <2>2. ~InCall(t)' BY <2>1 DEF InCall
    <2>3. CallsOK' BY <2>1, <2>2, EndsCallsOK
    <2> QED BY <2>1, <2>3
  <1>6. ASSUME NEW s \in Socket, OnSocket(t, s), SocketStepIs(t, s)
        PROVE  /\ Shape' /\ CallsOK' /\ UNCHANGED <<select_cb_list, scb, mbox, traffic>>
               /\ \E ops : Steps(t, ops) /\ Quiet(t, ops)
    <2>1. CASE Copy(t, s)
      <3>1. /\ Shape' /\ Steps(t, <<>>) /\ UNCHANGED <<select_cb_list, scb, mbox, traffic>>
            /\ \E rest \in BOOLEAN : sockets' = [sockets EXCEPT ![s].lastdata = rest]
        BY <1>6, <2>1, CopyIs
      <3>2. \A r \in Socket : sockets[r].conn # NULL => sockets'[r].conn # NULL
        BY <1>3, <3>1 DEF SocketType
      <3> QED BY <3>1, <3>2, QuietNothing, StepsCallsOK
    <2>2. CASE AdoptEvents(t, s)
      <3> DEFINE c == todo[t][1].c
      <3>1. /\ Shape' /\ Steps(t, <<Publish(c, s)>>) /\ UNCHANGED <<select_cb_list, scb, mbox, traffic>>
            /\ sockets' = [sockets EXCEPT ![s].rcvevent = @ - 1 - conn[c].socket]
        BY <1>6, <2>2, AdoptIs
      <3>2. \A r \in Socket : sockets[r].conn # NULL => sockets'[r].conn # NULL
        BY <1>3, <3>1 DEF SocketType
      <3>3. Publish(c, s).op \notin Raising BY <1>2 DEF Publish
      <3> QED BY <3>1, <3>2, <3>3, QuietOne, StepsCallsOK
    <2>3. CASE PublishSocket(t, s)
      <3>1. /\ Shape' /\ Steps(t, <<>>) /\ UNCHANGED <<sockets, select_cb_list, scb, mbox, traffic>>
        BY <1>6, <2>3, PublishIs
      <3> QED BY <3>1, QuietNothing, StepsCallsOK
    <2>4. CASE CloseLocked(t, s)
      <3>1. sockets[s].conn \in Conn BY <1>6, <2>4, CloseHasConn
      <3>2. /\ Shape' /\ Steps(t, CloseOps(sockets[s].conn, s))
            /\ UNCHANGED <<sockets, select_cb_list, scb, mbox, traffic>>
        BY <1>6, <2>4, <3>1, CloseLockedIs
      <3>3. [op |-> "closed", s |-> s] \in TaskOps /\ [op |-> "closed", s |-> s].op \notin Raising
        BY <1>2 DEF TaskOps
      <3>4. Quiet(t, CloseOps(sockets[s].conn, s)) BY <3>1, <3>3, QuietDelete DEF CloseOps
      <3> QED BY <3>2, <3>4, StepsCallsOK
    <2>5. CASE Closed(t, s)
      <3>1. /\ Shape' /\ Steps(t, <<>>) /\ todo[t][2] = Return(s)
            /\ sockets' = [sockets EXCEPT ![s].conn = NULL, ![s].lastdata = FALSE]
            /\ UNCHANGED <<select_cb_list, scb, mbox, traffic>>
        BY <1>6, <2>5, ClosedIs
      <3>2. \A r \in Socket : r # s => sockets'[r].conn = sockets[r].conn BY <1>3, <3>1
      <3>3. /\ todo[t] \in Seq(TaskOps) /\ Len(todo[t]) \in Nat /\ Len(todo[t]) > 1
            /\ Ordered(todo[t]) /\ 2 \in 1 .. Len(todo[t])
        BY <3>1 DEF Steps, Shape, OpTypes, Grammar
      <3>0. todo[t][2].op \in EndNames BY <3>1 DEF EndNames, Return
      <3>4. Len(todo[t]) = 2 BY <3>0, <3>3 DEF Ordered
      <3>5. InCall(t) /\ Sock(t) = s BY <3>1, <3>3, <3>4 DEF InCall, Sock, Return
      <3>6. Sock(t)' = Sock(t) /\ Len(todo'[t]) = 1
        <4>1. Len(todo'[t]) = Len(<<>>) + Len(todo[t]) - 1 /\ Len(<<>>) = 0
          BY <3>1 DEF Steps, Leaves, Behind
        <4> QED BY <3>1, <3>4, <3>5, <4>1, StepsCall
      <3>7. /\ \A u \in (Task \cup {Tcpip}) \ {t} : todo'[u] = todo[u]
            /\ \A r \in Socket : sockets[r].conn # NULL =>
                  sockets'[r].conn # NULL \/ (InCall(t) /\ r = Sock(t))
        BY <3>1, <3>2, <3>5 DEF Steps
      <3>8. CallsOK' BY <3>5, <3>6, <3>7, EndsCallsOK
      <3> QED BY <3>1, <3>8, QuietNothing
    <2> QED BY <1>6, <2>1, <2>2, <2>3, <2>4, <2>5 DEF SocketStepIs
  <1> QED BY <1>1, <1>4, <1>5, <1>6

-----------------------------------------------------------------------------
(* The invariant of types and calls *)

LEMMA SameCallsOK ==
    ASSUME Shape, CallsOK, \A u \in Task : todo'[u] = todo[u],
           \A s \in Socket : sockets'[s].conn = sockets[s].conn
    PROVE  CallsOK'
  <1>1. \A u \in Task : (InCall(u)' <=> InCall(u)) /\ Sock(u)' = Sock(u) BY DEF InCall, Sock
  <1>2. ASSUME NEW u \in Task, InCall(u)', Len(todo'[u]) > 1 PROVE sockets'[Sock(u)'].conn # NULL
    BY <1>1, <1>2, CallSocket DEF CallsOK
  <1>3. ASSUME NEW u \in Task, NEW v \in Task, InCall(u)', InCall(v)', Sock(u)' = Sock(v)'
        PROVE  u = v
    BY <1>1, <1>3 DEF CallsOK
  <1> QED BY <1>2, <1>3 DEF CallsOK

LEMMA ShapeInit == Init => Shape /\ CallsOK
  <1> SUFFICES ASSUME Init PROVE Shape /\ CallsOK OBVIOUS
  <1>1. /\ \A t \in Task \cup {Tcpip} : todo[t] = <<>>
        /\ todo = [t \in Task \cup {Tcpip} |-> <<>>] /\ select_cb_list = <<>>
    BY DEF Init
  <1>2. <<>> \in Seq(TaskOps) /\ <<>> \in Seq(TcpipOps) /\ <<>> \in Seq(TaskOps \cup TcpipOps)
    OBVIOUS
  <1>3. OpTypes BY <1>1, <1>2 DEF OpTypes
  <1>4. Grammar BY <1>1 DEF Grammar, Ordered
  <1>5. ListOK BY <1>1 DEF ListOK, Listed, InSelect
  <1>6. CallsOK BY <1>1 DEF CallsOK, InCall
  <1>7. DataTypes
    <2>1. sockets \in [Socket -> SocketType]
      <3>1. ASSUME NEW x \in Conn \cup {NULL} PROVE [FreeSocket EXCEPT !.conn = x] \in SocketType
        <4>1. FreeSocket \in SocketType BY DEF FreeSocket, SocketType
        <4> QED BY <4>1 DEF SocketType
      <3>2. \A s \in Socket : (IF s = 0 THEN Listener ELSE NULL) \in Conn \cup {NULL}
        BY SocketsAssumption
      <3> QED BY <3>1, <3>2 DEF Init
    <2>2. conn \in [Conn -> ConnType]
      <3>1. <<>> \in Seq({"data", "fin"}) /\ <<>> \in Seq(Conn) /\ 0 \in Numbers
        BY SizeType DEF Numbers
      <3>2. FreeConn \in ConnType BY <3>1 DEF FreeConn, ConnType
      <3>3. [FreeConn EXCEPT !.used = TRUE, !.pcb = "LISTEN"] \in ConnType
        BY <3>2 DEF ConnType
      <3> QED BY <3>2, <3>3 DEF Init
    <2>3. scb \in [Task -> ScbType]
      <3>1. [readset |-> {}, writeset |-> {}, sem_signalled |-> FALSE, sem |-> -1] \in ScbType
        BY DEF ScbType
      <3> QED BY <3>1 DEF Init
    <2>4. select_cb_list \in Seq(Task) /\ mbox \in Seq(Message) /\ socksem \in Task \cup {NULL}
      BY DEF Init
    <2>5. traffic \in 0 .. MaxTraffic BY SocketsAssumption DEF Init
    <2> QED BY <2>1, <2>2, <2>3, <2>4, <2>5 DEF DataTypes
  <1> QED BY <1>3, <1>4, <1>5, <1>6, <1>7 DEF Shape

LEMMA ShapeSame == ASSUME Shape, CallsOK, UNCHANGED vars PROVE Shape' /\ CallsOK'
  <1>1. UNCHANGED <<sockets, conn, select_cb_list, scb, socksem, mbox, todo, traffic>>
    BY DEF vars
  <1>2. DataTypes' /\ OpTypes' BY <1>1 DEF Shape, DataTypes, OpTypes
  <1>3. Grammar' BY <1>1 DEF Shape, Grammar, Ordered, Follows, Drained
  <1>4. ListOK' BY <1>1 DEF Shape, ListOK, Listed, InSelect
  <1>5. CallsOK' BY <1>1, SameCallsOK
  <1> QED BY <1>2, <1>3, <1>4, <1>5 DEF Shape

LEMMA CallbackCalls ==
    ASSUME Shape, CallsOK, NEW t \in Task \cup {Tcpip}, Callback(t)
    PROVE  Shape' /\ CallsOK'
  <1>1. CASE t \in Task
    <2>1. /\ Shape' /\ SameConns
          /\ \E ops \in Seq(TaskOps) : Steps(t, ops) /\ CallbackOps(t, todo[t][1], ops)
      BY <1>1, TaskCallback
    <2>2. PICK ops : Steps(t, ops) BY <2>1
    <2>3. \A s \in Socket : sockets[s].conn # NULL => sockets'[s].conn # NULL
      BY <2>1 DEF SameConns
    <2> QED BY <1>1, <2>1, <2>2, <2>3, StepsCallsOK
  <1>2. CASE t = Tcpip
    <2>1. /\ Shape' /\ SameConns /\ \A u \in Task : todo'[u] = todo[u]
      BY <1>2, TcpipCallback DEF TcpipSteps
    <2> QED BY <2>1, SameCallsOK DEF SameConns
  <1> QED BY <1>1, <1>2

LEMMA WokenIs ==
    ASSUME Shape, NEW t \in Task, Woken(t) \/ Timeout(t)
    PROVE  /\ Shape' /\ todo[t] # <<>> /\ todo[t][1].op = "asleep" /\ Len(todo[t]) = 1
           /\ todo'[t] # <<>> /\ Len(todo'[t]) = 1 /\ todo'[t][1] = [op |-> "leave"]
           /\ \A u \in (Task \cup {Tcpip}) \ {t} : todo'[u] = todo[u]
           /\ scb[t].sem > 0 \/ t \in Thread \/ "timeout" \in Allowed
           /\ UNCHANGED <<sockets, conn, select_cb_list, scb, socksem, mbox, traffic>>
  <1>1. /\ Doing(t, "asleep") /\ Then(t, <<[op |-> "leave"]>>)
        /\ UNCHANGED <<sockets, conn, select, socksem, mbox, traffic>>
        /\ scb[t].sem > 0 \/ t \in Thread \/ "timeout" \in Allowed
    BY DEF Woken, Timeout
  <1>2. UNCHANGED <<sockets, conn, select_cb_list, scb, socksem, mbox, traffic>>
    BY <1>1 DEF select
  <1> QED BY <1>1, <1>2, WakesIs

LEMMA ShapeNext == ASSUME Shape, CallsOK, Next PROVE Shape' /\ CallsOK'
  <1>1. CASE Input \/ ApiMsgInput \/ Deliver
    <2>1. Shape' /\ UNCHANGED sockets /\ \A u \in Task : todo'[u] = todo[u]
      <3>1. CASE Input BY <3>1, InputIs DEF Connected, Received, Acknowledged, Begins
      <3>2. CASE ApiMsgInput BY <3>2, ApiMsgIs DEF Handled, Begins
      <3>3. CASE Deliver BY <3>3, DeliverIs DEF TcpipSteps
      <3> QED BY <1>1, <3>1, <3>2, <3>3
    <2> QED BY <2>1, SameCallsOK
  <1>2. CASE \E t \in Task \cup {Tcpip} : Callback(t) BY <1>2, CallbackCalls
  <1>3. ASSUME NEW t \in Task, BeginCall(t) PROVE Shape' /\ CallsOK' BY <1>3, BeginCallIs
  <1>4. ASSUME NEW t \in Task, Woken(t) \/ Timeout(t) PROVE Shape' /\ CallsOK'
    <2>1. /\ Shape' /\ todo'[t] # <<>> /\ Len(todo'[t]) = 1 /\ todo'[t][1] = [op |-> "leave"]
          /\ UNCHANGED sockets /\ \A u \in (Task \cup {Tcpip}) \ {t} : todo'[u] = todo[u]
      BY <1>4, WokenIs
    <2>2. ~InCall(t)' BY <2>1 DEF InCall
    <2> QED BY <2>1, <2>2, EndsCallsOK
  <1>5. ASSUME NEW t \in Task, LeaveSelect(t) PROVE Shape' /\ CallsOK'
    <2>1. /\ Shape' /\ todo'[t] = <<>> /\ UNCHANGED sockets
          /\ \A u \in (Task \cup {Tcpip}) \ {t} : todo'[u] = todo[u]
      BY <1>5, LeaveIs
    <2>2. ~InCall(t)' BY <2>1 DEF InCall
    <2> QED BY <2>1, <2>2, EndsCallsOK
  <1>6. ASSUME NEW t \in Task, NetconnStep(t) PROVE Shape' /\ CallsOK' BY <1>6, NetconnQuiet
  <1>7. ASSUME NEW t \in Task, SocketStep(t) PROVE Shape' /\ CallsOK' BY <1>7, SocketQuiet
  <1>8. ASSUME NEW t \in Task, NEW R \in SUBSET Socket, NEW W \in SUBSET Socket, Select(t, R, W)
        PROVE  Shape' /\ CallsOK'
    <2>1. /\ Shape' /\ todo'[t] # <<>> /\ Len(todo'[t]) = 1 /\ todo'[t][1] = [op |-> "asleep"]
          /\ UNCHANGED sockets /\ \A u \in (Task \cup {Tcpip}) \ {t} : todo'[u] = todo[u]
      BY <1>8, SelectIs
    <2>2. ~InCall(t)' BY <2>1 DEF InCall
    <2> QED BY <2>1, <2>2, EndsCallsOK
  <1> QED BY <1>1, <1>2, <1>3, <1>4, <1>5, <1>6, <1>7, <1>8 DEF Next

(* The operations of the tasks and of the tcpip thread come in the order   *)
(* of the functions they are from, and the list of lwip_select is of the   *)
(* tasks in it: no call begins before the one on its socket has returned.  *)
THEOREM SocketsShape == Spec => [](Shape /\ CallsOK)
  <1>1. ASSUME Shape /\ CallsOK, [Next]_vars PROVE (Shape /\ CallsOK)'
    BY <1>1, ShapeNext, ShapeSame
  <1> QED BY <1>1, ShapeInit, PTL DEF Spec

-----------------------------------------------------------------------------
(* Signals *)

LEMMA BehindEach ==
    ASSUME NEW S, NEW q \in Seq(S), q # <<>>, NEW ops \in Seq(S), NEW r \in Seq(S), Behind(r, ops, q),
           NEW i \in 1 .. Len(r)
    PROVE  \/ i \in 1 .. Len(ops) /\ r[i] = ops[i]
           \/ \E j \in 2 .. Len(q) : j \in 1 .. Len(q) /\ r[i] = q[j]
                                     /\ (i = 1 => Len(ops) = 0)
  <1>1. Len(ops) \in Nat /\ Len(q) \in Nat /\ Len(r) \in Nat OBVIOUS
  <1>2. /\ \A k \in 1 .. Len(ops) : r[k] = ops[k]
        /\ i \in 1 .. Len(ops) \/ (i - Len(ops) + 1 \in 2 .. Len(q) /\ r[i] = q[i - Len(ops) + 1])
    BY DEF Behind
  <1>3. CASE i \in 1 .. Len(ops) BY <1>2, <1>3
  <1>4. CASE i \notin 1 .. Len(ops)
    <2>1. i - Len(ops) + 1 \in 2 .. Len(q) /\ r[i] = q[i - Len(ops) + 1] BY <1>2, <1>4
    <2>2. i - Len(ops) + 1 \in 1 .. Len(q) BY <1>1, <2>1
    <2>3. i = 1 => Len(ops) = 0 BY <1>1, <1>4
    <2> QED BY <2>1, <2>2, <2>3
  <1> QED BY <1>3, <1>4

(* What is still to do of a task or the tcpip thread after an operation *)
LEMMA SignalFromOps ==
    ASSUME NEW S, NEW q \in Seq(S), q # <<>>, NEW ops \in Seq(S), NEW r \in Seq(S), Behind(r, ops, q),
           \A i \in 1 .. Len(q) : q[i].op = "signal" => i = 1
    PROVE  \A i \in 1 .. Len(r) : r[i].op = "signal" => i \in 1 .. Len(ops) /\ r[i] = ops[i]
  <1>1. ASSUME NEW i \in 1 .. Len(r), r[i].op = "signal" PROVE i \in 1 .. Len(ops) /\ r[i] = ops[i]
    <2>1. ASSUME NEW j \in 2 .. Len(q), j \in 1 .. Len(q), r[i] = q[j] PROVE FALSE
      BY <1>1, <2>1
    <2> QED BY <2>1, BehindEach
  <1> QED BY <1>1

LEMMA SignalFirst ==
    ASSUME NEW S, NEW q \in Seq(S), q # <<>>, NEW ops \in Seq(S), NEW r \in Seq(S), Behind(r, ops, q),
           \A i \in 1 .. Len(q) : q[i].op = "signal" => i = 1,
           \A i \in 1 .. Len(ops) : ops[i].op = "signal" => i = 1
    PROVE  \A i \in 1 .. Len(r) : r[i].op = "signal" => i = 1
  <1>1. \A i \in 1 .. Len(r) : r[i].op = "signal" => i \in 1 .. Len(ops) /\ r[i] = ops[i]
    BY SignalFromOps
  <1> QED BY <1>1

LEMMA SignalNext ==
    ASSUME NEW S, NEW q \in Seq(S), q # <<>>, NEW ops \in Seq(S), NEW r \in Seq(S), Behind(r, ops, q),
           \A i \in 1 .. Len(q) : q[i].op = "signal" => i = 1,
           NEW v \in Task, r # <<>>, r[1] = Signal(v)
    PROVE  Len(ops) > 0 /\ ops[1] = Signal(v)
  <1>1. \A i \in 1 .. Len(r) : r[i].op = "signal" => i \in 1 .. Len(ops) /\ r[i] = ops[i]
    BY SignalFromOps
  <1>2. 1 \in 1 .. Len(r) /\ r[1].op = "signal" /\ Len(ops) \in Nat BY DEF Signal
  <1>3. 1 \in 1 .. Len(ops) /\ r[1] = ops[1] BY <1>1, <1>2
  <1> QED BY <1>2, <1>3

(* Only actor t has done something, and it has not chosen anybody. *)
LEMMA NothingSignalled ==
    ASSUME Signals, NEW t \in Task \cup {Tcpip}, \A u \in (Task \cup {Tcpip}) \ {t} : todo'[u] = todo[u],
           UNCHANGED <<select_cb_list, scb>>, \A v \in Task : ~Pending(t, v)',
           Leaving(t)' => Leaving(t) \/ t \notin Urgent \/ scb[t].sem = 1
    PROVE  SignalsOK'
  <1>1. \A u \in Task \cup {Tcpip}, v \in Task : Pending(u, v)' => u # t /\ Pending(u, v)
    BY DEF Pending
  <1>2. \A v \in Task : Listed(v)' <=> Listed(v) BY DEF Listed
  <1>3. ASSUME NEW v \in Urgent, Leaving(v)' PROVE scb'[v].sem = 1
    <2>1. CASE v = t BY <1>3, <2>1 DEF Signals, SignalsOK, Leaving
    <2>2. CASE v # t BY <1>3, <2>2 DEF Signals, SignalsOK, Leaving, Task
    <2> QED BY <2>1, <2>2
  <1>4. ASSUME NEW u \in Task \cup {Tcpip}, NEW w \in Task \cup {Tcpip}, NEW v \in Task,
               Pending(u, v)', Pending(w, v)'
        PROVE  u = w
    BY <1>1, <1>4 DEF Signals, SignalsOK
  <1>5. ASSUME NEW u \in Task \cup {Tcpip}, NEW v \in Task, Pending(u, v)'
        PROVE  Listed(v)' /\ scb'[v].sem_signalled /\ scb'[v].sem = 0
    BY <1>1, <1>2, <1>5 DEF Signals, SignalsOK
  <1>6. ASSUME NEW v \in Task, Listed(v)'
        PROVE  scb'[v].sem \in {0, 1} /\ (scb'[v].sem = 1 => scb'[v].sem_signalled)
    BY <1>2, <1>6 DEF Signals, SignalsOK
  <1> QED BY <1>3, <1>4, <1>5, <1>6 DEF SignalsOK

LEMMA FirstAgain ==
    ASSUME SignalsFirst, NEW t \in Task \cup {Tcpip},
           \A u \in (Task \cup {Tcpip}) \ {t} : todo'[u] = todo[u],
           \A i \in 1 .. Len(todo'[t]) : todo'[t][i].op = "signal" => i = 1
    PROVE  SignalsFirst'
  <1>1. ASSUME NEW u \in Task \cup {Tcpip}, NEW i \in 1 .. Len(todo'[u]), todo'[u][i].op = "signal"
        PROVE  i = 1
    <2>1. CASE u = t BY <1>1, <2>1
    <2>2. CASE u # t
      <3>1. todo'[u] = todo[u] BY <2>2
      <3> QED BY <1>1, <3>1 DEF SignalsFirst
    <2> QED BY <2>1, <2>2
  <1> QED BY <1>1 DEF SignalsFirst

(* A task does an operation of a call. *)
LEMMA StepsCallers ==
    ASSUME Shape, Callers, NEW t \in Task, NEW ops, Steps(t, ops), Shape',
           \A i \in 1 .. Len(ops) : ops[i].op \in Raising => todo[t][1].op \in Raising
    PROVE  Callers'
  <1>1. /\ todo[t] \in Seq(TaskOps) /\ todo[t] # <<>> /\ ops \in Seq(TaskOps) /\ todo'[t] \in Seq(TaskOps)
        /\ Behind(todo'[t], ops, todo[t]) /\ 1 \in 1 .. Len(todo[t])
    BY DEF Steps, Leaves, Shape, OpTypes
  <1>2. /\ \A u \in (Task \cup {Tcpip}) \ {t} : todo'[u] = todo[u]
        /\ \A u \in Task : InSelect(u)' <=> InSelect(u)
    BY DEF Steps
  <1>3. ASSUME NEW i \in 1 .. Len(todo'[t]), todo'[t][i].op \in Raising
        PROVE  Calls[t] \cap {"recv", "accept"} # {}
    <2>1. \/ i \in 1 .. Len(ops) /\ todo'[t][i] = ops[i]
          \/ \E j \in 2 .. Len(todo[t]) : j \in 1 .. Len(todo[t]) /\ todo'[t][i] = todo[t][j]
      BY <1>1, BehindEach
    <2>2. \E j \in 1 .. Len(todo[t]) : todo[t][j].op \in Raising BY <1>1, <1>3, <2>1
    <2> QED BY <2>2 DEF Callers
  <1>4. ASSUME NEW u \in Task, NEW i \in 1 .. Len(todo'[u]), todo'[u][i].op \in Raising
        PROVE  Calls[u] \cap {"recv", "accept"} # {}
    <2>1. CASE u = t BY <1>3, <1>4, <2>1
    <2>2. CASE u # t BY <1>2, <1>4, <2>2 DEF Callers
    <2> QED BY <2>1, <2>2
  <1>5. \A u \in Task : InSelect(u)' => "select" \in Calls[u] BY <1>2 DEF Callers
  <1> QED BY <1>4, <1>5 DEF Callers

LEMMA SameCallers ==
    ASSUME Callers, \A u \in Task : todo'[u] = todo[u]
    PROVE  Callers'
  BY DEF Callers, InSelect

LEMMA MoreThanOne == ASSUME NEW n \in Nat, n > 1 PROVE 1 \in 1 .. n /\ 1 # n
  OBVIOUS

LEMMA StepsSeq ==
    ASSUME Shape, Shape', NEW t \in Task, NEW ops, Steps(t, ops)
    PROVE  /\ todo[t] \in Seq(TaskOps) /\ todo[t] # <<>> /\ ops \in Seq(TaskOps)
           /\ todo'[t] \in Seq(TaskOps) /\ Behind(todo'[t], ops, todo[t])
           /\ \A u \in (Task \cup {Tcpip}) \ {t} : todo'[u] = todo[u]
           /\ ~Leaving(t)' /\ ~InSelect(t)
  <1>1. /\ todo[t] \in Seq(TaskOps) /\ todo[t] # <<>> /\ ops \in Seq(TaskOps) /\ todo'[t] \in Seq(TaskOps)
        /\ Behind(todo'[t], ops, todo[t]) /\ \A u \in (Task \cup {Tcpip}) \ {t} : todo'[u] = todo[u]
        /\ Len(todo[t]) > 1 /\ Ordered(todo[t]) /\ Len(todo[t]) \in Nat
        /\ InSelect(t)' <=> InSelect(t)
    BY DEF Steps, Leaves, Shape, OpTypes, Grammar
  <1>2. ~InSelect(t)
    <2>1. 1 \in 1 .. Len(todo[t]) /\ 1 # Len(todo[t]) BY <1>1, MoreThanOne, Zenon
    <2>2. todo[t][1].op \notin EndNames BY <1>1, <2>1 DEF Ordered
    <2> QED BY <2>2 DEF InSelect, EndNames
  <1>3. ~Leaving(t)' BY <1>1, <1>2 DEF Leaving, InSelect
  <1> QED BY <1>1, <1>2, <1>3

LEMMA QuietSignals ==
    ASSUME Signals, NEW t \in Task, NEW ops, Steps(t, ops), Quiet(t, ops), Shape', CallsOK',
           UNCHANGED <<select_cb_list, scb>>
    PROVE  Signals'
  <1>1. /\ todo[t] \in Seq(TaskOps) /\ todo[t] # <<>> /\ ops \in Seq(TaskOps)
        /\ todo'[t] \in Seq(TaskOps) /\ Behind(todo'[t], ops, todo[t])
        /\ \A u \in (Task \cup {Tcpip}) \ {t} : todo'[u] = todo[u]
        /\ ~Leaving(t)'
    BY StepsSeq DEF Signals
  <1>2. /\ \A i \in 1 .. Len(todo[t]) : todo[t][i].op = "signal" => i = 1
        /\ \A i \in 1 .. Len(ops) : ops[i].op = "signal" => i = 1
        /\ \A i \in 1 .. Len(ops) : ops[i].op # "signal"
        /\ \A i \in 1 .. Len(ops) : ops[i].op \in Raising => todo[t][1].op \in Raising
    BY DEF Signals, SignalsFirst, Quiet
  <1>3. /\ \A i \in 1 .. Len(todo'[t]) : todo'[t][i].op = "signal" => i = 1
        /\ \A v \in Task : todo'[t] # <<>> /\ todo'[t][1] = Signal(v) => Len(ops) > 0 /\ ops[1] = Signal(v)
    <2>1. \A i \in 1 .. Len(todo'[t]) : todo'[t][i].op = "signal" => i = 1
      BY <1>1, <1>2, SignalFirst
    <2>2. ASSUME NEW v \in Task, todo'[t] # <<>>, todo'[t][1] = Signal(v)
          PROVE  Len(ops) > 0 /\ ops[1] = Signal(v)
      BY <1>1, <1>2, <2>2, SignalNext
    <2> QED BY <2>1, <2>2
  <1>4. ASSUME NEW v \in Task PROVE ~Pending(t, v)'
    <2>1. Len(ops) > 0 => 1 \in 1 .. Len(ops) BY <1>1
    <2> QED BY <1>2, <1>3, <2>1 DEF Pending, Signal
  <1>5. SignalsFirst' BY <1>1, <1>3, FirstAgain DEF Signals
  <1>6. SignalsOK' BY <1>1, <1>4, NothingSignalled
  <1>7. Callers' BY <1>2, StepsCallers DEF Signals
  <1> QED BY <1>5, <1>6, <1>7 DEF Signals

LEMMA SignalIs == ASSUME NEW v, NEW w, Signal(v) = Signal(w) PROVE v = w
  BY DEF Signal

(* event_callback's steps, of a task or of the tcpip thread *)
LEMMA CallbackSignals ==
    ASSUME Signals, NEW t \in Task \cup {Tcpip}, NEW S, todo[t] \in Seq(S), todo[t] # <<>>,
           todo'[t] \in Seq(S), NEW ops \in Seq(S), Behind(todo'[t], ops, todo[t]),
           \A u \in (Task \cup {Tcpip}) \ {t} : todo'[u] = todo[u],
           UNCHANGED select_cb_list, CallbackOps(t, todo[t][1], ops),
           todo[t][1].op = "signal" => todo[t][1] = Signal(todo[t][1].t),
           t \in Urgent => ~Leaving(t)', DataTypes
    PROVE  /\ SignalsFirst' /\ SignalsOK'
           /\ \A i \in 1 .. Len(ops) : ops[i].op \in Raising => todo[t][1].op \in Raising
  <1> DEFINE o == todo[t][1]
             v0 == ToWake(o.s)
  <1>1. scb \in [Task -> ScbType] /\ \A v \in Task : scb[v] \in ScbType BY DEF DataTypes
  <1>2. \A i \in 1 .. Len(todo[t]) : todo[t][i].op = "signal" => i = 1
    BY DEF Signals, SignalsFirst
  <1>3. /\ SignalsOK /\ SignalsFirst
        /\ \A v \in Task : Listed(v)' <=> Listed(v)
    BY DEF Signals, Listed
  <1>4. ASSUME NEW u \in Task \cup {Tcpip}, u # t, NEW v \in Task
        PROVE  Pending(u, v)' <=> Pending(u, v)
    BY <1>4 DEF Pending
  <1>5. ASSUME NEW v \in Urgent, Leaving(v)' PROVE v # t /\ Leaving(v) /\ v \in Task /\ scb[v].sem = 1
    <2>1. v # t BY <1>5 DEF Leaving
    <2>2. Leaving(v) /\ v \in Task BY <1>5, <2>1 DEF Leaving, Task
    <2> QED BY <1>3, <2>1, <2>2 DEF SignalsOK
  <1>6. CASE UNCHANGED scb /\ \/ ops = <<>>
                              \/ \E p : ops = <<p>> /\ p.op \in {"countdown", "count", "search"}
                                        /\ o.op \in {"event", "count"}
    <2>1. ASSUME NEW i \in 1 .. Len(ops)
          PROVE  ops[i].op # "signal" /\ ops[i].op \in {"countdown", "count", "search"} /\ o.op \in Raising
      <3>1. PICK p : ops = <<p>> /\ p.op \in {"countdown", "count", "search"} /\ o.op \in {"event", "count"}
        BY <1>6, <2>1
      <3>2. ops[i] = p BY <2>1, <3>1
      <3> QED BY <3>1, <3>2 DEF Raising
    <2>2. /\ \A i \in 1 .. Len(todo'[t]) : todo'[t][i].op = "signal" => i = 1
          /\ \A v \in Task : todo'[t] # <<>> /\ todo'[t][1] = Signal(v) => Len(ops) > 0 /\ ops[1] = Signal(v)
      <3>1. \A i \in 1 .. Len(todo'[t]) : todo'[t][i].op = "signal" => i = 1
        BY <1>2, <2>1, SignalFirst
      <3>2. ASSUME NEW v \in Task, todo'[t] # <<>>, todo'[t][1] = Signal(v)
            PROVE  Len(ops) > 0 /\ ops[1] = Signal(v)
        BY <1>2, <2>1, <3>2, SignalNext
      <3> QED BY <3>1, <3>2
    <2>3. ASSUME NEW v \in Task PROVE ~Pending(t, v)'
      <3>1. Len(ops) > 0 => 1 \in 1 .. Len(ops) OBVIOUS
      <3> QED BY <2>1, <2>2, <3>1 DEF Pending, Signal
    <2>4. SignalsFirst' BY <1>3, <2>2, FirstAgain
    <2>5. Leaving(t)' => t \notin Urgent OBVIOUS
    <2>6. SignalsOK' BY <1>6, <2>3, <2>5, NothingSignalled
    <2> QED BY <2>1, <2>4, <2>6
  <1>7. CASE /\ o.op = "search" /\ ops = <<Signal(v0), Search(o.s)>> /\ Waiting(o.s) # {}
             /\ scb' = [scb EXCEPT ![v0].sem_signalled = TRUE]
    <2>1. v0 \in Task /\ Listed(v0) /\ ~scb[v0].sem_signalled BY <1>7, ToWakeIs
    <2>2. scb[v0].sem = 0 BY <1>3, <2>1 DEF SignalsOK
    <2>3. /\ scb'[v0].sem_signalled /\ scb'[v0].sem = 0
          /\ \A v \in Task : scb'[v].sem = scb[v].sem
          /\ \A v \in Task : v # v0 => scb'[v] = scb[v]
      BY <1>1, <1>7, <2>1, <2>2 DEF ScbType
    <2>4. Len(ops) = 2 /\ ops[1] = Signal(v0) /\ ops[2].op = "search" BY <1>7 DEF Search
    <2>5. ASSUME NEW i \in 1 .. Len(ops) PROVE ops[i].op = "signal" => i = 1
      <3>1. i = 1 \/ i = 2 BY <2>4
      <3> QED BY <2>4, <3>1
    <2>6. /\ \A i \in 1 .. Len(todo'[t]) : todo'[t][i].op = "signal" => i = 1
          /\ \A v \in Task : todo'[t] # <<>> /\ todo'[t][1] = Signal(v) => Len(ops) > 0 /\ ops[1] = Signal(v)
      <3>1. \A i \in 1 .. Len(todo'[t]) : todo'[t][i].op = "signal" => i = 1
        BY <1>2, <2>5, SignalFirst
      <3>2. ASSUME NEW v \in Task, todo'[t] # <<>>, todo'[t][1] = Signal(v)
            PROVE  Len(ops) > 0 /\ ops[1] = Signal(v)
        BY <1>2, <2>5, <3>2, SignalNext
      <3> QED BY <3>1, <3>2
    <2>7. ASSUME NEW v \in Task, Pending(t, v)' PROVE v = v0
      BY <2>4, <2>6, <2>7, SignalIs DEF Pending
    <2>8. ASSUME NEW u \in Task \cup {Tcpip}, NEW v \in Task, u # t, Pending(u, v)'
          PROVE  Pending(u, v) /\ v # v0
      <3>1. Pending(u, v) BY <1>4, <2>8
      <3>2. scb[v].sem_signalled BY <1>3, <3>1 DEF SignalsOK
      <3> QED BY <2>1, <3>1, <3>2
    <2>9. SignalsOK'
      <3>1. ASSUME NEW u \in Task \cup {Tcpip}, NEW w \in Task \cup {Tcpip}, NEW v \in Task,
                   Pending(u, v)', Pending(w, v)'
            PROVE  u = w
        <4>1. CASE u # t /\ w # t BY <1>3, <2>8, <3>1, <4>1 DEF SignalsOK
        <4>2. CASE u # t /\ w = t
          <5>1. Pending(t, v)' BY <3>1, <4>2 DEF Pending
          <5> QED BY <2>7, <2>8, <3>1, <4>2, <5>1
        <4>3. CASE u = t /\ w # t
          <5>1. Pending(t, v)' BY <3>1, <4>3 DEF Pending
          <5> QED BY <2>7, <2>8, <3>1, <4>3, <5>1
        <4> QED BY <4>1, <4>2, <4>3
      <3>2. ASSUME NEW u \in Task \cup {Tcpip}, NEW v \in Task, Pending(u, v)'
            PROVE  Listed(v)' /\ scb'[v].sem_signalled /\ scb'[v].sem = 0
        <4>1. CASE u = t
          <5>1. Pending(t, v)' BY <3>2, <4>1 DEF Pending
          <5>2. v = v0 BY <2>7, <5>1
          <5>3. Listed(v) BY <2>1, <5>2
          <5>4. Listed(v)' BY <1>3, <5>3
          <5> QED BY <2>3, <5>2, <5>4
        <4>2. CASE u # t BY <1>3, <2>3, <2>8, <3>2, <4>2 DEF SignalsOK
        <4> QED BY <4>1, <4>2
      <3>3. ASSUME NEW v \in Task, Listed(v)'
            PROVE  scb'[v].sem \in {0, 1} /\ (scb'[v].sem = 1 => scb'[v].sem_signalled)
        <4>1. Listed(v) BY <1>3, <3>3
        <4>2. CASE v = v0 BY <2>3, <4>2
        <4>3. CASE v # v0 BY <1>3, <2>3, <4>1, <4>3 DEF SignalsOK
        <4> QED BY <4>2, <4>3
      <3>4. ASSUME NEW v \in Urgent, Leaving(v)' PROVE scb'[v].sem = 1 BY <1>5, <2>3, <3>4
      <3> QED BY <3>1, <3>2, <3>3, <3>4 DEF SignalsOK
    <2>10. SignalsFirst' BY <1>3, <2>6, FirstAgain
    <2>11. \A i \in 1 .. Len(ops) : o.op \in Raising BY <1>7 DEF Raising
    <2> QED BY <2>9, <2>10, <2>11
  <1>8. CASE /\ o.op = "signal" /\ ops = <<>> /\ o.t \in Task
             /\ scb' = [scb EXCEPT ![o.t].sem = @ + 1]
    <2>1. Pending(t, o.t) BY <1>8 DEF Pending
    <2>2. Listed(o.t) /\ scb[o.t].sem_signalled /\ scb[o.t].sem = 0
      BY <1>3, <1>8, <2>1 DEF SignalsOK
    <2>3. /\ scb'[o.t].sem_signalled /\ scb'[o.t].sem = 1
          /\ \A v \in Task : v # o.t => scb'[v] = scb[v]
      BY <1>1, <1>8, <2>2 DEF ScbType
    <2>4. \A i \in 1 .. Len(ops) : FALSE BY <1>8
    <2>5. /\ \A i \in 1 .. Len(todo'[t]) : todo'[t][i].op = "signal" => i = 1
          /\ \A v \in Task : todo'[t] # <<>> /\ todo'[t][1] = Signal(v) => Len(ops) > 0 /\ ops[1] = Signal(v)
      <3>1. \A i \in 1 .. Len(todo'[t]) : todo'[t][i].op = "signal" => i = 1
        BY <1>2, <2>4, SignalFirst
      <3>2. ASSUME NEW v \in Task, todo'[t] # <<>>, todo'[t][1] = Signal(v)
            PROVE  Len(ops) > 0 /\ ops[1] = Signal(v)
        BY <1>2, <2>4, <3>2, SignalNext
      <3> QED BY <3>1, <3>2
    <2>6. ASSUME NEW v \in Task PROVE ~Pending(t, v)' BY <1>8, <2>5 DEF Pending
    <2>7. ASSUME NEW u \in Task \cup {Tcpip}, NEW v \in Task, Pending(u, v)'
          PROVE  u # t /\ Pending(u, v) /\ v # o.t
      <3>1. u # t BY <2>6, <2>7 DEF Pending
      <3>2. Pending(u, v) BY <1>4, <2>7, <3>1
      <3>3. v # o.t BY <1>3, <1>8, <2>1, <3>1, <3>2 DEF SignalsOK
      <3> QED BY <3>1, <3>2, <3>3
    <2>8. SignalsOK'
      <3>1. ASSUME NEW u \in Task \cup {Tcpip}, NEW w \in Task \cup {Tcpip}, NEW v \in Task,
                   Pending(u, v)', Pending(w, v)'
            PROVE  u = w
        BY <1>3, <2>7, <3>1 DEF SignalsOK
      <3>2. ASSUME NEW u \in Task \cup {Tcpip}, NEW v \in Task, Pending(u, v)'
            PROVE  Listed(v)' /\ scb'[v].sem_signalled /\ scb'[v].sem = 0
        BY <1>3, <2>3, <2>7, <3>2 DEF SignalsOK
      <3>3. ASSUME NEW v \in Task, Listed(v)'
            PROVE  scb'[v].sem \in {0, 1} /\ (scb'[v].sem = 1 => scb'[v].sem_signalled)
        <4>1. Listed(v) BY <1>3, <3>3
        <4>2. CASE v = o.t BY <2>3, <4>2
        <4>3. CASE v # o.t BY <1>3, <2>3, <4>1, <4>3 DEF SignalsOK
        <4> QED BY <4>2, <4>3
      <3>4. ASSUME NEW v \in Urgent, Leaving(v)' PROVE scb'[v].sem = 1
        <4>1. CASE v = o.t BY <2>3, <4>1
        <4>2. CASE v # o.t BY <1>5, <2>3, <3>4, <4>2
        <4> QED BY <4>1, <4>2
      <3> QED BY <3>1, <3>2, <3>3, <3>4 DEF SignalsOK
    <2>9. SignalsFirst' BY <1>3, <2>5, FirstAgain
    <2> QED BY <2>4, <2>8, <2>9
  <1>9. \/ UNCHANGED scb /\ \/ ops = <<>>
                            \/ \E p : ops = <<p>> /\ p.op \in {"countdown", "count", "search"}
                                      /\ o.op \in {"event", "count"}
        \/ /\ o.op = "search" /\ ops = <<Signal(v0), Search(o.s)>> /\ Waiting(o.s) # {}
           /\ scb' = [scb EXCEPT ![v0].sem_signalled = TRUE]
        \/ /\ o.op = "signal" /\ ops = <<>> /\ o.t \in Task
           /\ scb' = [scb EXCEPT ![o.t].sem = @ + 1]
    BY DEF CallbackOps, CountDown, Count, Search
  <1> HIDE DEF v0
  <1> QED BY <1>6, <1>7, <1>8, <1>9

LEMMA TaskCallbackSignals ==
    ASSUME Signals, NEW t \in Task, Callback(t)
    PROVE  Signals'
  <1>0. Shape /\ CallsOK /\ DataTypes BY DEF Signals, Shape
  <1>1. /\ Shape' /\ SameConns /\ UNCHANGED select_cb_list
        /\ \E ops \in Seq(TaskOps) : Steps(t, ops) /\ CallbackOps(t, todo[t][1], ops)
    BY <1>0, TaskCallback
  <1>2. PICK ops \in Seq(TaskOps) : Steps(t, ops) /\ CallbackOps(t, todo[t][1], ops) BY <1>1
  <1>3. /\ todo[t] \in Seq(TaskOps) /\ todo[t] # <<>> /\ todo'[t] \in Seq(TaskOps)
        /\ Behind(todo'[t], ops, todo[t]) /\ ~Leaving(t)'
        /\ \A u \in (Task \cup {Tcpip}) \ {t} : todo'[u] = todo[u]
    BY <1>0, <1>1, <1>2, StepsSeq
  <1>4. todo[t][1] \in TaskOps BY <1>3
  <1>5. todo[t][1].op = "signal" => todo[t][1] = Signal(todo[t][1].t) BY <1>4, TaskOp
  <1>6. /\ SignalsFirst' /\ SignalsOK'
        /\ \A i \in 1 .. Len(ops) : ops[i].op \in Raising => todo[t][1].op \in Raising
    BY <1>0, <1>1, <1>2, <1>3, <1>5, CallbackSignals
  <1>7. Callers' BY <1>0, <1>1, <1>2, <1>6, StepsCallers DEF Signals
  <1>8. CallsOK' BY <1>0, CallbackCalls
  <1> QED BY <1>1, <1>6, <1>7, <1>8 DEF Signals

(* The tcpip thread is not in Task, and is never in lwip_select. *)
LEMMA TcpipCallbackSignals ==
    ASSUME Signals, Callback(Tcpip)
    PROVE  Signals'
  <1>0. Shape /\ CallsOK /\ DataTypes BY DEF Signals, Shape
  <1>1. /\ Shape' /\ SameConns /\ UNCHANGED select_cb_list
        /\ \E ops \in Seq(TcpipOps) : TcpipSteps(ops) /\ CallbackOps(Tcpip, todo[Tcpip][1], ops)
    BY <1>0, TcpipCallback
  <1>2. PICK ops \in Seq(TcpipOps) : TcpipSteps(ops) /\ CallbackOps(Tcpip, todo[Tcpip][1], ops)
    BY <1>1
  <1>3. /\ todo[Tcpip] \in Seq(TcpipOps) /\ todo[Tcpip] # <<>> /\ todo'[Tcpip] \in Seq(TcpipOps)
        /\ todo[Tcpip][1] \in TcpipOps /\ Behind(todo'[Tcpip], ops, todo[Tcpip])
        /\ \A u \in Task : todo'[u] = todo[u]
    BY <1>1, <1>2 DEF TcpipSteps, Leaves, Shape, OpTypes
  <1>4. Tcpip \notin Urgent /\ \A u \in (Task \cup {Tcpip}) \ {Tcpip} : todo'[u] = todo[u]
    BY <1>3, SocketsAssumption DEF Task
  <1>5. todo[Tcpip][1].op = "signal" => todo[Tcpip][1] = Signal(todo[Tcpip][1].t)
    BY <1>3, TcpipOp
  <1>6. SignalsFirst' /\ SignalsOK' BY <1>0, <1>1, <1>2, <1>3, <1>4, <1>5, CallbackSignals
  <1>7. Callers' BY <1>3, SameCallers DEF Signals
  <1>8. CallsOK' BY <1>0, CallbackCalls
  <1> QED BY <1>1, <1>6, <1>7, <1>8 DEF Signals

LEMMA NoSignalOps ==
    ASSUME NEW c, NEW evt
    PROVE  /\ Event(c, evt).op # "signal" /\ Op("answer", c).op # "signal"
           /\ \A m : Post(c, m).op # "signal" /\ Offer(c, m).op # "signal"
  BY DEF Event, Op, Post, Offer

(* The tcpip thread takes up something else. *)
LEMMA BeginsSignals ==
    ASSUME Signals, Shape', NEW ops, Begins(ops), UNCHANGED <<sockets, select_cb_list, scb>>,
           \A i \in 1 .. Len(ops) : ops[i].op # "signal"
    PROVE  Signals'
  <1>0. Shape /\ CallsOK /\ SignalsFirst /\ Callers BY DEF Signals
  <1>1. /\ todo'[Tcpip] = ops /\ ops \in Seq(TcpipOps) /\ \A u \in Task : todo'[u] = todo[u]
        /\ \A u \in (Task \cup {Tcpip}) \ {Tcpip} : todo'[u] = todo[u]
    BY DEF Begins
  <1>2. CallsOK' BY <1>0, <1>1, SameCallsOK
  <1>3. Callers' BY <1>0, <1>1, SameCallers
  <1>4. SignalsFirst' BY <1>0, <1>1, FirstAgain
  <1>5. ASSUME NEW v \in Task PROVE ~Pending(Tcpip, v)'
    <2>1. ops # <<>> => 1 \in 1 .. Len(ops) BY <1>1
    <2> QED BY <1>1, <2>1 DEF Pending, Signal
  <1>6. SignalsOK' BY <1>1, <1>5, NothingSignalled, SocketsAssumption DEF Task
  <1> QED BY <1>2, <1>3, <1>4, <1>6 DEF Signals

LEMMA OfOne == ASSUME NEW o PROVE \A i \in 1 .. Len(<<o>>) : <<o>>[i] = o
  OBVIOUS

LEMMA OfTwo ==
    ASSUME NEW o, NEW p
    PROVE  \A i \in 1 .. Len(<<o, p>>) : <<o, p>>[i] = o \/ <<o, p>>[i] = p
  <1> DEFINE q == <<o, p>>
  <1>1. Len(q) = 2 /\ q[1] = o /\ q[2] = p OBVIOUS
  <1> HIDE DEF q
  <1>2. ASSUME NEW i \in 1 .. Len(q) PROVE q[i] = o \/ q[i] = p
    <2>1. i = 1 \/ i = 2 BY <1>1
    <2> QED BY <1>1, <2>1
  <1> QED BY <1>2 DEF q

LEMMA AllThree ==
    ASSUME NEW o, NEW p, NEW n
    PROVE  \A i \in 1 .. Len(<<o, p, n>>) : <<o, p, n>>[i] \in {o, p, n}
  <1> DEFINE q == <<o, p, n>>
  <1>1. Len(q) = 3 /\ q[1] = o /\ q[2] = p /\ q[3] = n OBVIOUS
  <1> HIDE DEF q
  <1>2. ASSUME NEW i \in 1 .. Len(q) PROVE q[i] \in {o, p, n}
    <2>1. i = 1 \/ i = 2 \/ i = 3 BY <1>1
    <2> QED BY <1>1, <2>1
  <1> QED BY <1>2 DEF q

LEMMA InputSignals == ASSUME Signals, Input \/ ApiMsgInput PROVE Signals'
  <1>0. Shape BY DEF Signals
  <1>1. /\ Shape' /\ UNCHANGED <<sockets, select_cb_list, scb>>
        /\ \E ops : Begins(ops) /\ \A i \in 1 .. Len(ops) : ops[i].op # "signal"
    <2>1. ASSUME NEW c, NEW evt PROVE \A i \in 1 .. Len(<<Event(c, evt)>>) : <<Event(c, evt)>>[i].op # "signal"
      BY OfOne, NoSignalOps
    <2>2. ASSUME NEW c PROVE \A i \in 1 .. Len(<<Op("answer", c)>>) : <<Op("answer", c)>>[i].op # "signal"
      BY OfOne, NoSignalOps
    <2>3. ASSUME NEW c, NEW evt, NEW p, p.op # "signal"
          PROVE  \A i \in 1 .. Len(<<Event(c, evt), p>>) : <<Event(c, evt), p>>[i].op # "signal"
      <3>1. \A i \in 1 .. Len(<<Event(c, evt), p>>) :
                <<Event(c, evt), p>>[i] = Event(c, evt) \/ <<Event(c, evt), p>>[i] = p
        BY OfTwo
      <3> QED BY <2>3, <3>1, NoSignalOps
    <2>4. CASE Input
      <3>1. /\ Shape' /\ UNCHANGED <<sockets, select_cb_list, scb>>
            /\ \E c \in Conn :
                \/ \E new \in Conn : Connected(c, new)
                \/ \E m \in {"data", "fin"} : Received(c, m)
                \/ \E room \in Room : Acknowledged(c, room)
        BY <1>0, <2>4, InputIs
      <3>2. ASSUME NEW c \in Conn, NEW new \in Conn, Connected(c, new)
            PROVE  \E ops : Begins(ops) /\ \A i \in 1 .. Len(ops) : ops[i].op # "signal"
        <4>1. Begins(<<Event(c, "RCVPLUS"), Offer(c, new)>>) /\ Offer(c, new).op # "signal"
          BY <3>2, NoSignalOps DEF Connected
        <4> QED BY <2>3, <4>1
      <3>3. ASSUME NEW c \in Conn, NEW m \in {"data", "fin"}, Received(c, m)
            PROVE  \E ops : Begins(ops) /\ \A i \in 1 .. Len(ops) : ops[i].op # "signal"
        <4>1. Begins(<<Event(c, "RCVPLUS"), Post(c, m)>>) /\ Post(c, m).op # "signal"
          BY <3>3, NoSignalOps DEF Received
        <4> QED BY <2>3, <4>1
      <3>4. ASSUME NEW c \in Conn, NEW room \in Room, Acknowledged(c, room)
            PROVE  \E ops : Begins(ops) /\ \A i \in 1 .. Len(ops) : ops[i].op # "signal"
        <4>1. Begins(<<Event(c, "SENDPLUS")>>) \/ Begins(<<>>) BY <3>4 DEF Acknowledged
        <4>2. \A i \in 1 .. Len(<<>>) : <<>>[i].op # "signal" OBVIOUS
        <4> QED BY <2>1, <4>1, <4>2
      <3> QED BY <3>1, <3>2, <3>3, <3>4
    <2>5. CASE ApiMsgInput
      <3> DEFINE c == mbox[1].c
      <3>1. Shape' /\ UNCHANGED <<sockets, select_cb_list, scb>> /\ Handled(mbox[1])
        BY <1>0, <2>5, ApiMsgIs
      <3>2. \/ Begins(<<Event(c, "RCVPLUS"), Event(c, "SENDPLUS"), Op("answer", c)>>)
            \/ Begins(<<Op("answer", c)>>)
            \/ Begins(<<Event(c, "SENDMINUS"), Op("answer", c)>>)
        BY <3>1 DEF Handled
      <3> HIDE DEF c
      <3>3. Op("answer", c).op # "signal" BY NoSignalOps
      <3>4. LET q == <<Event(c, "RCVPLUS"), Event(c, "SENDPLUS"), Op("answer", c)>>
            IN  \A i \in 1 .. Len(q) : q[i].op # "signal"
        BY AllThree, NoSignalOps
      <3> QED BY <2>2, <2>3, <3>1, <3>2, <3>3, <3>4
    <2> QED BY <2>4, <2>5
  <1> QED BY <1>1, BeginsSignals

LEMMA NothingAdded ==
    ASSUME NEW S, NEW q \in Seq(S), q # <<>>, NEW none \in Seq(S), Len(none) = 0,
           NEW r \in Seq(S), Behind(r, none, q),
           \A i \in 1 .. Len(q) : q[i].op = "signal" => i = 1
    PROVE  /\ \A i \in 1 .. Len(r) : r[i].op = "signal" => i = 1
           /\ \A v \in Task : ~(r # <<>> /\ r[1] = Signal(v))
  <1>1. ASSUME NEW i \in 1 .. Len(r) PROVE r[i].op # "signal"
    <2>1. /\ i \notin 1 .. Len(none) /\ Len(none) \in Nat /\ Len(q) \in Nat /\ i \in Int
          /\ i - Len(none) + 1 = i + 1
      OBVIOUS
    <2>2. i + 1 \in 2 .. Len(q) /\ i + 1 \in 1 .. Len(q) /\ r[i] = q[i + 1]
      BY <2>1 DEF Behind
    <2>3. PICK j \in 2 .. Len(q) : j \in 1 .. Len(q) /\ r[i] = q[j] BY <2>2
    <2>4. j # 1 OBVIOUS
    <2> QED BY <2>3, <2>4
  <1>2. r # <<>> => 1 \in 1 .. Len(r) OBVIOUS
  <1> QED BY <1>1, <1>2 DEF Signal

LEMMA DeliverSignals == ASSUME Signals, Deliver PROVE Signals'
  <1>0. Shape /\ CallsOK /\ SignalsFirst /\ Callers BY DEF Signals
  <1>1. /\ Shape' /\ UNCHANGED <<sockets, select_cb_list, scb>> /\ TcpipSteps(<<>>)
    BY <1>0, DeliverIs
  <1>2. /\ todo[Tcpip] \in Seq(TcpipOps) /\ todo[Tcpip] # <<>> /\ todo'[Tcpip] \in Seq(TcpipOps)
        /\ Behind(todo'[Tcpip], <<>>, todo[Tcpip])
        /\ \A u \in Task : todo'[u] = todo[u]
        /\ \A u \in (Task \cup {Tcpip}) \ {Tcpip} : todo'[u] = todo[u]
    BY <1>1 DEF TcpipSteps, Leaves, Shape, OpTypes
  <1>3. \A i \in 1 .. Len(todo[Tcpip]) : todo[Tcpip][i].op = "signal" => i = 1
    BY <1>0 DEF SignalsFirst
  <1>4. /\ \A i \in 1 .. Len(todo'[Tcpip]) : todo'[Tcpip][i].op = "signal" => i = 1
        /\ \A v \in Task : ~(todo'[Tcpip] # <<>> /\ todo'[Tcpip][1] = Signal(v))
    <2> DEFINE none == <<>>
    <2>1. none \in Seq(TcpipOps) /\ Len(none) = 0 /\ Behind(todo'[Tcpip], none, todo[Tcpip])
      BY <1>2
    <2> HIDE DEF none
    <2> QED BY <1>2, <1>3, <2>1, NothingAdded
  <1>5. ASSUME NEW v \in Task PROVE ~Pending(Tcpip, v)' BY <1>4 DEF Pending
  <1>6. SignalsOK' BY <1>1, <1>2, <1>5, NothingSignalled, SocketsAssumption DEF Task
  <1>7. SignalsFirst' BY <1>0, <1>2, <1>4, FirstAgain
  <1>8. CallsOK' /\ Callers' BY <1>0, <1>1, <1>2, SameCallsOK, SameCallers
  <1> QED BY <1>1, <1>6, <1>7, <1>8 DEF Signals

-----------------------------------------------------------------------------
(* The tasks' other steps *)

LEMMA SameSignals ==
    ASSUME Signals, UNCHANGED <<todo, select_cb_list, scb>>, Shape', CallsOK'
    PROVE  Signals'
  <1>1. Callers' BY SameCallers DEF Signals
  <1>2. SignalsFirst' BY DEF Signals, SignalsFirst
  <1>3. /\ \A u \in Task \cup {Tcpip}, v \in Task : Pending(u, v)' <=> Pending(u, v)
        /\ \A v \in Task : (Listed(v)' <=> Listed(v)) /\ (Leaving(v)' <=> Leaving(v))
    BY DEF Pending, Listed, Leaving
  <1>4. SignalsOK' BY <1>3 DEF Signals, SignalsOK, Task
  <1> QED BY <1>1, <1>2, <1>4 DEF Signals

(* Task t's operations become others that signal nobody. *)
LEMMA TurnsCallers ==
    ASSUME Signals, NEW t \in Task, \A u \in (Task \cup {Tcpip}) \ {t} : todo'[u] = todo[u],
           \A i \in 1 .. Len(todo'[t]) : todo'[t][i].op # "signal",
           \A i \in 1 .. Len(todo'[t]) :
                todo'[t][i].op \in Raising => Calls[t] \cap {"recv", "accept"} # {},
           InSelect(t)' => "select" \in Calls[t]
    PROVE  /\ Callers' /\ SignalsFirst'
           /\ \A v \in Task : todo'[t] \in Seq(TaskOps) => ~Pending(t, v)'
  <1>1. ASSUME NEW u \in Task
        PROVE  /\ InSelect(u)' => "select" \in Calls[u]
               /\ \A i \in 1 .. Len(todo'[u]) :
                    todo'[u][i].op \in Raising => Calls[u] \cap {"recv", "accept"} # {}
    <2>1. CASE u = t BY <2>1 DEF InSelect
    <2>2. CASE u # t
      <3>1. todo'[u] = todo[u] BY <2>2
      <3> QED BY <3>1 DEF Signals, Callers, InSelect
    <2> QED BY <2>1, <2>2
  <1>2. Callers' BY <1>1 DEF Callers
  <1>3. SignalsFirst' BY FirstAgain DEF Signals
  <1>4. ASSUME NEW v \in Task, todo'[t] \in Seq(TaskOps) PROVE ~Pending(t, v)'
    <2>1. todo'[t] # <<>> => 1 \in 1 .. Len(todo'[t]) BY <1>4
    <2> QED BY <2>1 DEF Pending, Signal
  <1> QED BY <1>2, <1>3, <1>4

LEMMA TurnsSignals ==
    ASSUME Signals, NEW t \in Task, \A u \in (Task \cup {Tcpip}) \ {t} : todo'[u] = todo[u],
           UNCHANGED <<select_cb_list, scb>>, Shape', CallsOK',
           \A i \in 1 .. Len(todo'[t]) : todo'[t][i].op # "signal",
           \A i \in 1 .. Len(todo'[t]) :
                todo'[t][i].op \in Raising => Calls[t] \cap {"recv", "accept"} # {},
           InSelect(t)' => "select" \in Calls[t],
           Leaving(t)' => t \notin Urgent \/ scb[t].sem = 1
    PROVE  Signals'
  <1>1. todo'[t] \in Seq(TaskOps) BY DEF Shape, OpTypes
  <1>2. Callers' /\ SignalsFirst' /\ \A v \in Task : ~Pending(t, v)' BY <1>1, TurnsCallers
  <1>3. SignalsOK' BY <1>2, NothingSignalled
  <1> QED BY <1>2, <1>3 DEF Signals

LEMMA BeginCallSignals == ASSUME Signals, NEW t \in Task, BeginCall(t) PROVE Signals'
  <1>1. /\ Shape' /\ CallsOK' /\ UNCHANGED <<select_cb_list, scb>>
        /\ \/ UNCHANGED todo
           \/ /\ todo[t] = <<>> /\ \A u \in (Task \cup {Tcpip}) \ {t} : todo'[u] = todo[u]
              /\ \E s \in Socket, o \in TaskOps :
                   /\ todo'[t] = <<o, Return(s)>>
                   /\ o.op \in {"take", "fetch"} => Calls[t] \cap {"recv", "accept"} # {}
                   /\ o.op \in {"take", "fetch", "write", "close"}
    BY BeginCallIs DEF Signals, Op
  <1>2. CASE UNCHANGED todo BY <1>1, <1>2, SameSignals
  <1>3. ASSUME NEW s \in Socket, NEW o \in TaskOps, todo'[t] = <<o, Return(s)>>,
               \A u \in (Task \cup {Tcpip}) \ {t} : todo'[u] = todo[u],
               o.op \in {"take", "fetch"} => Calls[t] \cap {"recv", "accept"} # {},
               o.op \in {"take", "fetch", "write", "close"}
        PROVE  Signals'
    <2>1. \A i \in 1 .. Len(todo'[t]) : todo'[t][i] = o \/ todo'[t][i] = Return(s)
      BY <1>3, OfTwo
    <2>2. Return(s).op = "return" BY DEF Return
    <2>3. /\ \A i \in 1 .. Len(todo'[t]) : todo'[t][i].op # "signal"
          /\ \A i \in 1 .. Len(todo'[t]) :
                todo'[t][i].op \in Raising => Calls[t] \cap {"recv", "accept"} # {}
      BY <1>3, <2>1, <2>2 DEF Raising
    <2>4. todo'[t][1] = o BY <1>3
    <2>5. ~InSelect(t)' /\ ~Leaving(t)' BY <1>3, <2>4 DEF InSelect, Leaving
    <2> QED BY <1>1, <1>3, <2>3, <2>5, TurnsSignals
  <1> QED BY <1>1, <1>2, <1>3

LEMMA OwnStepSignals ==
    ASSUME Signals, NEW t \in Task, NetconnStep(t) \/ SocketStep(t)
    PROVE  Signals'
  <1>1. /\ Shape' /\ CallsOK' /\ UNCHANGED <<select_cb_list, scb>>
        /\ \/ UNCHANGED todo
           \/ \E ops : Steps(t, ops) /\ Quiet(t, ops)
           \/ todo'[t] = <<>> /\ \A u \in (Task \cup {Tcpip}) \ {t} : todo'[u] = todo[u]
    BY NetconnQuiet, SocketQuiet DEF Signals
  <1>2. CASE UNCHANGED todo BY <1>1, <1>2, SameSignals
  <1>3. ASSUME NEW ops, Steps(t, ops), Quiet(t, ops) PROVE Signals'
    BY <1>1, <1>3, QuietSignals
  <1>4. CASE todo'[t] = <<>> /\ \A u \in (Task \cup {Tcpip}) \ {t} : todo'[u] = todo[u]
    <2>1. \A i \in 1 .. Len(todo'[t]) : FALSE BY <1>4
    <2>2. ~InSelect(t)' /\ ~Leaving(t)' BY <1>4 DEF InSelect, Leaving
    <2> QED BY <1>1, <1>4, <2>1, <2>2, TurnsSignals
  <1> QED BY <1>1, <1>2, <1>3, <1>4

(* An urgent task is woken by its semaphore. *)
LEMMA WokenSignals ==
    ASSUME Signals, Alone, NEW t \in Task, Woken(t) \/ Timeout(t)
    PROVE  Signals'
  <1>1. /\ Shape' /\ todo[t] # <<>> /\ todo[t][1].op = "asleep" /\ UNCHANGED <<sockets, select_cb_list, scb>>
        /\ todo'[t] # <<>> /\ Len(todo'[t]) = 1 /\ todo'[t][1] = [op |-> "leave"]
        /\ \A u \in (Task \cup {Tcpip}) \ {t} : todo'[u] = todo[u]
        /\ scb[t].sem > 0 \/ t \in Thread
    BY WokenIs DEF Signals, Alone
  <1>2. "select" \in Calls[t] /\ Listed(t)
    BY <1>1 DEF Signals, Shape, ListOK, Callers, InSelect
  <1>3. t \notin Urgent \/ scb[t].sem = 1
    <2>1. scb[t].sem \in {0, 1} BY <1>2 DEF Signals, SignalsOK
    <2> QED BY <1>1, <2>1, SocketsAssumption
  <1>4. \A i \in 1 .. Len(todo'[t]) : todo'[t][i].op = "leave" BY <1>1
  <1>5. CallsOK'
    <2>1. ~InCall(t)' BY <1>1 DEF InCall
    <2> QED BY <1>1, <2>1, EndsCallsOK DEF Signals
  <1>6. /\ \A i \in 1 .. Len(todo'[t]) : todo'[t][i].op # "signal"
        /\ \A i \in 1 .. Len(todo'[t]) : todo'[t][i].op \notin Raising
    BY <1>4 DEF Raising
  <1> QED BY <1>1, <1>2, <1>3, <1>5, <1>6, TurnsSignals

LEMMA SelectSignals ==
    ASSUME Signals, NEW t \in Task, NEW R \in SUBSET Socket, NEW W \in SUBSET Socket, Select(t, R, W)
    PROVE  Signals'
  <1>1. /\ Shape' /\ todo[t] = <<>> /\ "select" \in Calls[t] /\ UNCHANGED sockets
        /\ todo'[t] # <<>> /\ Len(todo'[t]) = 1 /\ todo'[t][1] = [op |-> "asleep"]
        /\ \A u \in (Task \cup {Tcpip}) \ {t} : todo'[u] = todo[u]
        /\ \A u \in Task : Listed(u)' <=> (u = t \/ Listed(u))
        /\ scb' = [scb EXCEPT ![t] = [readset |-> R, writeset |-> W, sem_signalled |-> FALSE, sem |-> 0]]
        /\ scb \in [Task -> ScbType] /\ todo'[t] \in Seq(TaskOps)
    <2>1. Shape BY DEF Signals
    <2>2. /\ Shape' /\ todo[t] = <<>> /\ "select" \in Calls[t] /\ UNCHANGED sockets
          /\ todo'[t] # <<>> /\ Len(todo'[t]) = 1 /\ todo'[t][1] = [op |-> "asleep"]
          /\ \A u \in (Task \cup {Tcpip}) \ {t} : todo'[u] = todo[u]
          /\ \A u \in Task : Listed(u)' <=> (u = t \/ Listed(u))
          /\ scb' = [scb EXCEPT ![t] = [readset |-> R, writeset |-> W, sem_signalled |-> FALSE, sem |-> 0]]
      BY <2>1, SelectIs
    <2>3. scb \in [Task -> ScbType] /\ todo'[t] \in Seq(TaskOps)
      BY <2>1, <2>2 DEF Shape, DataTypes, OpTypes
    <2> QED BY <2>2, <2>3
  <1>2. ~Listed(t) BY <1>1 DEF Signals, Shape, ListOK, InSelect
  <1>3. scb'[t].sem = 0 /\ \A v \in Task : v # t => scb'[v] = scb[v] BY <1>1
  <1>4. CallsOK'
    <2>1. ~InCall(t)' BY <1>1 DEF InCall
    <2> QED BY <1>1, <2>1, EndsCallsOK DEF Signals
  <1>5. \A i \in 1 .. Len(todo'[t]) : todo'[t][i].op = "asleep" BY <1>1
  <1>6. Callers' /\ SignalsFirst' /\ \A v \in Task : ~Pending(t, v)'
    <2>1. /\ \A i \in 1 .. Len(todo'[t]) : todo'[t][i].op # "signal"
          /\ \A i \in 1 .. Len(todo'[t]) : todo'[t][i].op \notin Raising
      BY <1>5 DEF Raising
    <2> QED BY <1>1, <2>1, TurnsCallers
  <1>7. ASSUME NEW u \in Task \cup {Tcpip}, NEW v \in Task, Pending(u, v)'
        PROVE  u # t /\ Pending(u, v) /\ v # t
    <2>1. u # t /\ Pending(u, v) BY <1>1, <1>6, <1>7 DEF Pending
    <2> QED BY <1>2, <2>1 DEF Signals, SignalsOK
  <1>8. ASSUME NEW u \in Task \cup {Tcpip}, NEW w \in Task \cup {Tcpip}, NEW v \in Task,
               Pending(u, v)', Pending(w, v)'
        PROVE  u = w
    BY <1>7, <1>8 DEF Signals, SignalsOK
  <1>9. ASSUME NEW u \in Task \cup {Tcpip}, NEW v \in Task, Pending(u, v)'
        PROVE  Listed(v)' /\ scb'[v].sem_signalled /\ scb'[v].sem = 0
    BY <1>1, <1>3, <1>7, <1>9 DEF Signals, SignalsOK
  <1>10. ASSUME NEW v \in Task, Listed(v)'
         PROVE  scb'[v].sem \in {0, 1} /\ (scb'[v].sem = 1 => scb'[v].sem_signalled)
    <2>1. CASE v = t BY <1>3, <2>1
    <2>2. CASE v # t BY <1>1, <1>3, <1>10, <2>2 DEF Signals, SignalsOK
    <2> QED BY <2>1, <2>2
  <1>11. ASSUME NEW v \in Urgent, Leaving(v)' PROVE scb'[v].sem = 1
    <2>1. v # t BY <1>1, <1>11 DEF Leaving
    <2>2. Leaving(v) /\ v \in Task BY <1>1, <1>11, <2>1 DEF Leaving, Task
    <2> QED BY <1>3, <2>1, <2>2 DEF Signals, SignalsOK
  <1>12. SignalsOK' BY <1>8, <1>9, <1>10, <1>11 DEF SignalsOK
  <1> QED BY <1>1, <1>4, <1>6, <1>12 DEF Signals

(* Whoever has chosen a task signals it before the task can leave: it is   *)
(* more urgent than the task, which has not been woken otherwise.          *)
LEMMA NobodySignals ==
    ASSUME Signals, Alone, NEW t \in Task, MayRun(t), todo[t] # <<>>, todo[t][1].op = "leave",
           NEW u \in Task \cup {Tcpip}, Pending(u, t)
    PROVE  FALSE
  <1>1. scb[t].sem = 0 /\ todo[u] # <<>> /\ todo[u][1].op = "signal" /\ u # t
    BY DEF Signals, SignalsOK, Pending, Signal
  <1>2. CASE t \in Urgent BY <1>1, <1>2 DEF Signals, SignalsOK, Leaving
  <1>3. CASE t \in Thread /\ u \in Urgent
    <2>1. ~Runnable(u) BY <1>3, SocketsAssumption DEF MayRun
    <2>2. Next1(u) = todo[u][1] BY DEF Next1
    <2>3. ~Blocked(u) BY <1>1, <2>2 DEF Blocked, Doing
    <2> QED BY <1>1, <2>1, <2>3 DEF Runnable
  <1>4. CASE t \in Thread /\ u \in Thread
    <2>1. u \in Task /\ todo[u] \in Seq(TaskOps) BY <1>4 DEF Task, Signals, Shape, OpTypes
    <2>2. 1 \in 1 .. Len(todo[u]) BY <1>1, <2>1
    <2>3. Calls[u] \cap {"recv", "accept"} # {}
      BY <1>1, <2>1, <2>2 DEF Signals, Callers, Raising
    <2>4. "select" \in Calls[t] BY DEF Signals, Callers, InSelect
    <2> QED BY <1>1, <1>4, <2>3, <2>4 DEF Alone
  <1>5. CASE t \in Thread /\ u = Tcpip BY <1>1, <1>5 DEF MayRun
  <1> QED BY <1>2, <1>3, <1>4, <1>5 DEF Task

LEMMA LeaveSignals == ASSUME Signals, Alone, NEW t \in Task, LeaveSelect(t) PROVE Signals'
  <1>1. /\ Shape' /\ MayRun(t) /\ todo[t] # <<>> /\ todo[t][1].op = "leave" /\ todo'[t] = <<>>
        /\ \A u \in (Task \cup {Tcpip}) \ {t} : todo'[u] = todo[u]
        /\ \A u \in Task : Listed(u)' <=> (u # t /\ Listed(u))
        /\ \A u \in Task : u # t => scb'[u] = scb[u]
        /\ UNCHANGED sockets /\ todo'[t] \in Seq(TaskOps)
    <2>1. Shape BY DEF Signals
    <2>2. /\ Shape' /\ MayRun(t) /\ todo[t] # <<>> /\ todo[t][1].op = "leave" /\ todo'[t] = <<>>
          /\ \A u \in (Task \cup {Tcpip}) \ {t} : todo'[u] = todo[u]
          /\ \A u \in Task : Listed(u)' <=> (u # t /\ Listed(u))
          /\ UNCHANGED sockets
          /\ scb' = [scb EXCEPT ![t] = [readset |-> {}, writeset |-> {},
                                        sem_signalled |-> FALSE, sem |-> -1]]
      BY <2>1, LeaveIs
    <2>3. scb \in [Task -> ScbType] /\ todo'[t] \in Seq(TaskOps)
      BY <2>1, <2>2 DEF Shape, DataTypes, OpTypes
    <2>4. \A u \in Task : u # t => scb'[u] = scb[u] BY <2>2, <2>3
    <2> QED BY <2>2, <2>3, <2>4
  <1>2. CallsOK'
    <2>1. ~InCall(t)' BY <1>1 DEF InCall
    <2> QED BY <1>1, <2>1, EndsCallsOK DEF Signals
  <1>3. Callers' /\ SignalsFirst' /\ \A v \in Task : ~Pending(t, v)'
    <2>1. (\A i \in 1 .. Len(todo'[t]) : FALSE) /\ ~InSelect(t)' BY <1>1 DEF InSelect
    <2> QED BY <1>1, <2>1, TurnsCallers
  <1>4. ASSUME NEW u \in Task \cup {Tcpip}, NEW v \in Task, Pending(u, v)'
        PROVE  Pending(u, v) /\ v # t
    <2>1. u # t /\ Pending(u, v) BY <1>1, <1>3, <1>4 DEF Pending
    <2> QED BY <1>1, <2>1, NobodySignals
  <1>5. ASSUME NEW u \in Task \cup {Tcpip}, NEW w \in Task \cup {Tcpip}, NEW v \in Task,
               Pending(u, v)', Pending(w, v)'
        PROVE  u = w
    BY <1>4, <1>5 DEF Signals, SignalsOK
  <1>6. ASSUME NEW u \in Task \cup {Tcpip}, NEW v \in Task, Pending(u, v)'
        PROVE  Listed(v)' /\ scb'[v].sem_signalled /\ scb'[v].sem = 0
    BY <1>1, <1>4, <1>6 DEF Signals, SignalsOK
  <1>7. ASSUME NEW v \in Task, Listed(v)'
        PROVE  scb'[v].sem \in {0, 1} /\ (scb'[v].sem = 1 => scb'[v].sem_signalled)
    BY <1>1, <1>7 DEF Signals, SignalsOK
  <1>8. ASSUME NEW v \in Urgent, Leaving(v)' PROVE scb'[v].sem = 1
    <2>1. v # t BY <1>1, <1>8 DEF Leaving
    <2>2. Leaving(v) /\ v \in Task BY <1>1, <1>8, <2>1 DEF Leaving, Task
    <2> QED BY <1>1, <2>1, <2>2 DEF Signals, SignalsOK
  <1>9. SignalsOK' BY <1>5, <1>6, <1>7, <1>8 DEF SignalsOK
  <1> QED BY <1>1, <1>2, <1>3, <1>9 DEF Signals

LEMMA SignalsInit == ASSUME Init PROVE Signals
  <1>1. Shape /\ CallsOK BY ShapeInit
  <1>2. \A t \in Task \cup {Tcpip} : todo[t] = <<>> BY DEF Init
  <1>3. \A t \in Task \cup {Tcpip} : \A i \in 1 .. Len(todo[t]) : FALSE BY <1>2
  <1>4. \A t \in Task : ~InSelect(t) /\ ~Listed(t) BY <1>1, <1>2 DEF InSelect, Shape, ListOK
  <1>5. Callers /\ SignalsFirst BY <1>3, <1>4 DEF Callers, SignalsFirst
  <1>6. SignalsOK BY <1>2, <1>4 DEF SignalsOK, Pending, Leaving, Task
  <1> QED BY <1>1, <1>5, <1>6 DEF Signals

(* A task asleep in lwip_select is chosen and signalled by one callback,   *)
(* and does not leave while it is chosen and not signalled yet.            *)
THEOREM SignalsInvariant == ASSUME Alone PROVE Spec => []Signals
  <1>1. ASSUME Signals, [Next]_vars PROVE Signals'
    <2>1. CASE Input \/ ApiMsgInput BY <1>1, <2>1, InputSignals
    <2>2. CASE Deliver BY <1>1, <2>2, DeliverSignals
    <2>3. ASSUME NEW t \in Task \cup {Tcpip}, Callback(t) PROVE Signals'
      <3>1. t \in Task \/ t = Tcpip OBVIOUS
      <3> QED BY <1>1, <2>3, <3>1, TaskCallbackSignals, TcpipCallbackSignals
    <2>4. ASSUME NEW t \in Task, BeginCall(t) PROVE Signals' BY <1>1, <2>4, BeginCallSignals
    <2>5. ASSUME NEW t \in Task, Woken(t) \/ Timeout(t) PROVE Signals'
      BY <1>1, <2>5, WokenSignals
    <2>6. ASSUME NEW t \in Task, LeaveSelect(t) PROVE Signals' BY <1>1, <2>6, LeaveSignals
    <2>7. ASSUME NEW t \in Task, NetconnStep(t) \/ SocketStep(t) PROVE Signals'
      BY <1>1, <2>7, OwnStepSignals
    <2>8. ASSUME NEW t \in Task, NEW R \in SUBSET Socket, NEW W \in SUBSET Socket, Select(t, R, W)
          PROVE  Signals'
      BY <1>1, <2>8, SelectSignals
    <2>9. CASE UNCHANGED vars
      <3>1. Shape' /\ CallsOK' BY <1>1, <2>9, ShapeSame DEF Signals
      <3>2. UNCHANGED <<todo, select_cb_list, scb>> BY <2>9 DEF vars
      <3> QED BY <1>1, <3>1, <3>2, SameSignals
    <2> QED BY <1>1, <2>1, <2>2, <2>3, <2>4, <2>5, <2>6, <2>7, <2>8, <2>9 DEF Next
  <1>2. Init => Signals BY SignalsInit
  <1> QED BY <1>1, <1>2, PTL DEF Spec

-----------------------------------------------------------------------------
(* One signal for one call *)

LEMMA Cards ==
    ASSUME NEW S, NEW x, \A p \in S : p = x
    PROVE  /\ S = {} \/ S = {x}
           /\ Cardinality(S) \in {0, 1}
           /\ Cardinality(S) > 0 => x \in S
  <1>1. S = {} \/ S = {x} OBVIOUS
  <1>2. Cardinality({}) = 0 /\ Cardinality({x}) = 1 BY FS_EmptySet, FS_Singleton
  <1> QED BY <1>1, <1>2

LEMMA SignalsAreOne == ASSUME Signals PROVE NoStaleSignal
  <1> SUFFICES ASSUME NEW t \in Task
               PROVE  LET mine(o) == o.op = "signal" /\ o.t = t
                          signals == Left(mine)
                      IN  IF t \in ToSet(select_cb_list)
                          THEN signals + scb[t].sem <= 1 /\ (signals > 0 => scb[t].sem_signalled)
                          ELSE signals = 0
    BY DEF NoStaleSignal
  <1> DEFINE S == {p \in Places : todo[p[1]][p[2]].op = "signal" /\ todo[p[1]][p[2]].t = t}
  <1>1. t \in ToSet(select_cb_list) <=> Listed(t)
    <2>1. DOMAIN select_cb_list = 1 .. Len(select_cb_list) BY DEF Signals, Shape, DataTypes
    <2> QED BY <2>1 DEF ToSet, Listed
  <1>2. ASSUME NEW p \in S
        PROVE  p[1] \in Task \cup {Tcpip} /\ Pending(p[1], t) /\ p = <<p[1], 1>>
    <2>1. PICK u \in Task \cup {Tcpip} : p \in {u} \X DOMAIN todo[u] BY DEF Places
    <2>2. p[1] = u /\ p[2] \in DOMAIN todo[u] /\ p = <<p[1], p[2]>> BY <2>1
    <2>3. /\ todo[u] \in Seq(TaskOps \cup TcpipOps) /\ DOMAIN todo[u] = 1 .. Len(todo[u])
          /\ u = Tcpip => todo[u] \in Seq(TcpipOps)
          /\ u \in Task => todo[u] \in Seq(TaskOps)
      BY DEF Signals, Shape, OpTypes
    <2>4. todo[u][p[2]].op = "signal" /\ todo[u][p[2]].t = t BY <2>2
    <2>5. p[2] = 1 /\ todo[u] # <<>> BY <2>2, <2>3, <2>4 DEF Signals, SignalsFirst
    <2>6. todo[u][1] = Signal(t)
      <3>1. todo[u][1] \in TaskOps \/ todo[u][1] \in TcpipOps BY <2>2, <2>3, <2>5
      <3>2. todo[u][1].op = "signal" /\ todo[u][1].t = t BY <2>4, <2>5
      <3> QED BY <3>1, <3>2, TaskOp, TcpipOp
    <2> QED BY <2>2, <2>5, <2>6 DEF Pending
  <1>3. CASE S = {}
    <2>1. Cardinality(S) = 0 BY <1>3, FS_EmptySet
    <2>2. Listed(t) => scb[t].sem \in {0, 1} BY DEF Signals, SignalsOK
    <2> HIDE DEF S
    <2>3. IF t \in ToSet(select_cb_list)
          THEN Cardinality(S) + scb[t].sem <= 1 /\ (Cardinality(S) > 0 => scb[t].sem_signalled)
          ELSE Cardinality(S) = 0
      BY <1>1, <2>1, <2>2
    <2> QED BY <2>3 DEF S, Left
  <1>4. CASE S # {}
    <2>1. PICK p \in S : TRUE BY <1>4
    <2>2. p[1] \in Task \cup {Tcpip} /\ Pending(p[1], t) /\ p = <<p[1], 1>> BY <1>2
    <2>3. \A q \in S : q = p BY <1>2, <2>2 DEF Signals, SignalsOK
    <2>4. Cardinality(S) \in {0, 1} BY <2>3, Cards
    <2>5. Listed(t) /\ scb[t].sem_signalled /\ scb[t].sem = 0 BY <2>2 DEF Signals, SignalsOK
    <2> HIDE DEF S
    <2>6. IF t \in ToSet(select_cb_list)
          THEN Cardinality(S) + scb[t].sem <= 1 /\ (Cardinality(S) > 0 => scb[t].sem_signalled)
          ELSE Cardinality(S) = 0
      BY <1>1, <2>4, <2>5
    <2> QED BY <2>6 DEF S, Left
  <1> QED BY <1>3, <1>4

(* When an urgent task waits without a timeout and the other threads of    *)
(* lwIP leave receiving to the one that selects, a semaphore is signalled  *)
(* at most once, and only for a call that is still on the list.            *)
THEOREM OneSignalPerSelect == ASSUME Alone PROVE Spec => []NoStaleSignal
  <1>1. Spec => []Signals BY SignalsInvariant
  <1>2. Signals => NoStaleSignal BY SignalsAreOne
  <1> QED BY <1>1, <1>2, PTL

-----------------------------------------------------------------------------
(* The operations of a task, as a set *)

LEMMA OpsAre ==
    ASSUME Shape, NEW t \in Task
    PROVE  /\ \A o \in Ops(t) : o \in TaskOps
           /\ \A o \in Rest(t) : o \in Ops(t)
           /\ todo[t] # <<>> => /\ todo[t][1] \in Ops(t)
                                /\ \A o \in Ops(t) : o = todo[t][1] \/ o \in Rest(t)
           /\ todo[t] = <<>> => Ops(t) = {}
  <1>1. todo[t] \in Seq(TaskOps) /\ Len(todo[t]) \in Nat BY DEF Shape, OpTypes
  <1>2. \A i \in 1 .. Len(todo[t]) : todo[t][i] \in TaskOps /\ (i = 1 \/ i \in 2 .. Len(todo[t]))
    BY <1>1
  <1>3. \A i \in 2 .. Len(todo[t]) : i \in 1 .. Len(todo[t]) BY <1>1
  <1>4. todo[t] # <<>> => 1 \in 1 .. Len(todo[t]) BY <1>1
  <1>5. todo[t] = <<>> => 1 .. Len(todo[t]) = {} BY <1>1
  <1> QED BY <1>2, <1>3, <1>4, <1>5 DEF Ops, Rest, Among, Later

LEMMA BehindAmong ==
    ASSUME NEW S, NEW q \in Seq(S), q # <<>>, NEW ops \in Seq(S), NEW r \in Seq(S), Behind(r, ops, q)
    PROVE  Among(r) = Among(ops) \cup Later(q)
  <1>1. Len(ops) \in Nat /\ Len(q) \in Nat /\ Len(r) \in Nat /\ Len(q) > 0 OBVIOUS
  <1>2. /\ Len(r) = Len(ops) + Len(q) - 1
        /\ \A i \in 1 .. Len(ops) : r[i] = ops[i]
        /\ \A i \in 2 .. Len(q) : r[Len(ops) + i - 1] = q[i]
        /\ \A j \in 1 .. Len(r) :
              \/ j \in 1 .. Len(ops)
              \/ j - Len(ops) + 1 \in 2 .. Len(q) /\ r[j] = q[j - Len(ops) + 1]
    BY Zenon DEF Behind
  <1>3. ASSUME NEW o \in Among(r) PROVE o \in Among(ops) \cup Later(q)
    <2>1. PICK i \in 1 .. Len(r) : o = r[i] BY DEF Among
    <2>2. CASE i \in 1 .. Len(ops) BY <1>2, <2>1, <2>2 DEF Among
    <2>3. CASE i \notin 1 .. Len(ops) BY <1>2, <2>1, <2>3 DEF Later
    <2> QED BY <2>2, <2>3
  <1>4. ASSUME NEW o \in Among(ops) PROVE o \in Among(r)
    <2>1. PICK i \in 1 .. Len(ops) : o = ops[i] BY DEF Among
    <2>2. i \in 1 .. Len(r) /\ r[i] = o BY <1>1, <1>2, <2>1
    <2> QED BY <2>2 DEF Among
  <1>5. ASSUME NEW o \in Later(q) PROVE o \in Among(r)
    <2>1. PICK i \in 2 .. Len(q) : o = q[i] BY DEF Later
    <2>2. Len(ops) + i - 1 \in 1 .. Len(r) /\ r[Len(ops) + i - 1] = o BY <1>1, <1>2, <2>1
    <2> QED BY <2>2 DEF Among
  <1> QED BY <1>3, <1>4, <1>5

LEMMA StepsOps ==
    ASSUME Shape, Shape', NEW t \in Task, NEW ops, Steps(t, ops)
    PROVE  /\ Ops(t)' = Among(ops) \cup Rest(t)
           /\ todo[t] # <<>> /\ todo'[t] # <<>> /\ todo[t][2] \in Rest(t)
           /\ Len(ops) > 0 => todo'[t][1] = ops[1]
           /\ Len(ops) = 0 => todo'[t][1] = todo[t][2]
           /\ \A u \in (Task \cup {Tcpip}) \ {t} : todo'[u] = todo[u]
  <1>1. /\ todo[t] \in Seq(TaskOps) /\ todo[t] # <<>> /\ ops \in Seq(TaskOps)
        /\ todo'[t] \in Seq(TaskOps) /\ Behind(todo'[t], ops, todo[t])
        /\ \A u \in (Task \cup {Tcpip}) \ {t} : todo'[u] = todo[u]
    BY StepsSeq
  <1>2. Len(todo[t]) > 1 /\ Len(todo'[t]) > 0 /\ Len(todo[t]) \in Nat /\ Len(ops) \in Nat
    BY <1>1 DEF Steps
  <1>3. Among(todo'[t]) = Among(ops) \cup Later(todo[t]) BY <1>1, BehindAmong
  <1>4. Ops(t)' = Among(todo'[t]) BY DEF Ops, Among
  <1>5. 2 \in 2 .. Len(todo[t]) /\ todo'[t] # <<>> BY <1>2
  <1>6. todo[t][2] \in Rest(t) BY <1>5 DEF Rest, Later
  <1>7. ASSUME Len(ops) > 0 PROVE todo'[t][1] = ops[1]
    <2>1. 1 \in 1 .. Len(ops) BY <1>2, <1>7
    <2> QED BY <1>1, <2>1 DEF Behind
  <1>8. ASSUME Len(ops) = 0 PROVE todo'[t][1] = todo[t][2]
    <2>1. 2 \in 2 .. Len(todo[t]) /\ Len(ops) + 2 - 1 = 1 BY <1>2, <1>8
    <2> QED BY <1>1, <2>1 DEF Behind
  <1> QED BY <1>1, <1>3, <1>4, <1>5, <1>6, <1>7, <1>8 DEF Rest

LEMMA AmongIs ==
    /\ Among(<<>>) = {}
    /\ \A o : Among(<<o>>) = {o}
    /\ \A o, p : Among(<<o, p>>) = {o, p}
  <1>1. Among(<<>>) = {} BY DEF Among
  <1>2. ASSUME NEW o PROVE Among(<<o>>) = {o}
    <2>1. 1 .. Len(<<o>>) = {1} /\ <<o>>[1] = o OBVIOUS
    <2> QED BY <2>1 DEF Among
  <1>3. ASSUME NEW o, NEW p PROVE Among(<<o, p>>) = {o, p}
    <2>1. 1 .. Len(<<o, p>>) = {1, 2} /\ <<o, p>>[1] = o /\ <<o, p>>[2] = p OBVIOUS
    <2> QED BY <2>1 DEF Among
  <1> QED BY <1>1, <1>2, <1>3

(* An operation that is not the last one is in a call. *)
LEMMA OpInCall ==
    ASSUME Shape, NEW t \in Task, NEW o \in Ops(t), o.op \notin EndNames
    PROVE  InCall(t) /\ Len(todo[t]) \in Nat /\ Len(todo[t]) > 1
  <1>1. PICK i \in 1 .. Len(todo[t]) : todo[t][i] = o BY DEF Ops, Among
  <1>2. todo[t] \in Seq(TaskOps) /\ Len(todo[t]) \in Nat /\ Ordered(todo[t])
    BY DEF Shape, OpTypes, Grammar
  <1>3. i # Len(todo[t]) /\ Len(todo[t]) \in 1 .. Len(todo[t]) /\ todo[t][Len(todo[t])].op \in EndNames
    BY <1>1, <1>2 DEF Ordered
  <1>4. Len(todo[t]) > 1 /\ todo[t] # <<>> /\ Len(todo[t]) # 1 BY <1>1, <1>2, <1>3
  <1>5. todo[t][Len(todo[t])].op \notin {"asleep", "leave"} BY <1>2, <1>3, <1>4 DEF Ordered
  <1> QED BY <1>2, <1>3, <1>4, <1>5 DEF InCall, EndNames

LEMMA ClosesCall ==
    ASSUME Shape, NEW t \in Task, NEW s, Closes(s) \in Ops(t)
    PROVE  InCall(t) /\ Len(todo[t]) > 1 /\ Sock(t) = s
  <1>1. PICK i \in 1 .. Len(todo[t]) : todo[t][i] = Closes(s) BY DEF Ops, Among
  <1>2. todo[t][i].op = "closed" /\ todo[t][i].s = s /\ "closed" \notin EndNames
    BY <1>1 DEF Closes, EndNames
  <1>3. InCall(t) /\ Len(todo[t]) > 1 /\ Len(todo[t]) \in Nat /\ Ordered(todo[t])
    BY <1>2, <1>1, OpInCall DEF Shape, Grammar
  <1>4. i \in 1 .. Len(todo[t]) - 1 /\ i + 1 \in 1 .. Len(todo[t])
    <2>1. i # Len(todo[t]) BY <1>2, <1>3 DEF Ordered
    <2> QED BY <1>3, <2>1
  <1>5. todo[t][i + 1] = Return(s) BY <1>2, <1>3, <1>4 DEF Ordered, Follows
  <1>6. todo[t][i + 1].op = "return" /\ todo[t][i + 1].s = s BY <1>5 DEF Return
  <1>7. i + 1 = Len(todo[t]) BY <1>3, <1>4, <1>6 DEF Ordered, EndNames
  <1> QED BY <1>3, <1>6, <1>7 DEF Sock

(* Only the return is behind an operation that it follows. *)
LEMMA ReturnLast ==
    ASSUME Shape, NEW t \in Task, todo[t] # <<>>, todo[t][1].op \notin EndNames, todo[t][2].op = "return"
    PROVE  Len(todo[t]) = 2 /\ Rest(t) = {todo[t][2]} /\ HasC(todo[t][2]) = FALSE
  <1>1. todo[t] \in Seq(TaskOps) /\ Len(todo[t]) \in Nat /\ Ordered(todo[t])
    BY DEF Shape, OpTypes, Grammar
  <1>2. 1 \in 1 .. Len(todo[t]) BY <1>1
  <1>3. todo[t][1] \in Ops(t) BY <1>2 DEF Ops, Among
  <1>4. Len(todo[t]) > 1 BY <1>3, OpInCall
  <1>5. 2 \in 1 .. Len(todo[t]) BY <1>1, <1>4
  <1>6. Len(todo[t]) = 2 BY <1>1, <1>5 DEF Ordered, EndNames
  <1>7. Rest(t) = {todo[t][2]}
    <2>1. 2 .. Len(todo[t]) = {2} BY <1>6
    <2> QED BY <2>1 DEF Rest, Later
  <1>8. todo[t][2] \in TaskOps BY <1>1, <1>5
  <1>9. HasC(todo[t][2]) = FALSE BY <1>8, TaskOp DEF CallNames, HasC
  <1> QED BY <1>6, <1>7, <1>9

-----------------------------------------------------------------------------
(* What leaves the netconns where they are *)

LEMMA FreesCall ==
    ASSUME Shape, NEW t \in Task, NEW c, Frees(t, c)
    PROVE  InCall(t) /\ Sock(t) \in Socket /\ c \in Conn
  <1>1. Op("free", c) \in Ops(t) /\ Op("free", c).op = "free" /\ Op("free", c).c = c
    BY DEF Frees, Op
  <1>2. InCall(t) BY <1>1, OpInCall DEF EndNames
  <1>3. Op("free", c) \in TaskOps BY <1>1, OpsAre
  <1>4. c \in Conn BY <1>1, <1>3, TaskOp DEF CallNames
  <1> QED BY <1>2, <1>4, CallSocket

LEMMA StaleSame ==
    ASSUME SameMarks, NEW s \in Socket, sockets'[s].conn = sockets[s].conn
    PROVE  Stale(s)' <=> Stale(s)
  <1>1. Closes(s).op \in Marks /\ \A c : Op("free", c).op \in Marks BY DEF Closes, Op, Marks
  <1>2. \A u \in Task : Closes(s) \in Ops(u)' <=> Closes(s) \in Ops(u) BY <1>1 DEF SameMarks
  <1>3. \A u \in Task : Op("free", sockets[s].conn) \in Ops(u)' <=> Op("free", sockets[s].conn) \in Ops(u)
    BY <1>1 DEF SameMarks
  <1>4. Stale(s)' <=> \E u \in Task : Closes(s) \in Ops(u)' /\ Op("free", sockets[s].conn) \notin Ops(u)'
    BY DEF Stale, Closes, Op
  <1> QED BY <1>2, <1>3, <1>4 DEF Stale

LEMMA SpotsSame ==
    ASSUME Shape, SameMarks, \A s \in Socket : sockets'[s].conn = sockets[s].conn
    PROVE  SameSpots
  <1>1. ASSUME NEW c \in Conn, NEW s \in Socket PROVE AtSocket(c, s)' <=> AtSocket(c, s)
    BY StaleSame DEF AtSocket
  <1>2. ASSUME NEW u \in Task, NEW c \in Conn PROVE Guest(u, c)' <=> Guest(u, c)
    <2>1. Op("alloc", c).op \in Marks /\ Op("free", c).op \in Marks BY DEF Op, Marks
    <2>2. /\ Op("alloc", c) \in Ops(u)' <=> Op("alloc", c) \in Ops(u)
          /\ Op("free", c) \in Ops(u)' <=> Op("free", c) \in Ops(u)
      BY <2>1 DEF SameMarks
    <2>3. Op("free", c) \in Ops(u) => Own(u)' = Own(u)
      BY FreesCall DEF SameMarks, Frees, Own
    <2>4. Guest(u, c)' <=> \/ Op("alloc", c) \in Ops(u)'
                           \/ Op("free", c) \in Ops(u)' /\ Own(u)' # c
      BY DEF Guest, Op
    <2> QED BY <2>2, <2>3, <2>4 DEF Guest
  <1> QED BY <1>1, <1>2 DEF SameSpots

LEMMA HomesSame ==
    ASSUME Homes, SameSpots, \A c \in Conn : conn'[c].used = conn[c].used, Queue' = Queue,
           Ops(Tcpip)' = Ops(Tcpip)
    PROVE  Homes'
  <1> SUFFICES ASSUME NEW c \in Conn
               PROVE  (/\ \A s, r \in Socket : AtSocket(c, s) /\ AtSocket(c, r) => s = r
                       /\ \A t, u \in Task : Guest(t, c) /\ Guest(u, c) => t = u
                       /\ \A s \in Socket, t \in Task : ~(AtSocket(c, s) /\ Guest(t, c))
                       /\ Queued(c) \/ Offered(c) => ~Held(c)
                       /\ ~(Queued(c) /\ Offered(c))
                       /\ conn[c].used <=> Held(c) \/ Queued(c) \/ Offered(c))'
    BY DEF Homes
  <1>1. \A s \in Socket : AtSocket(c, s)' <=> AtSocket(c, s) BY DEF SameSpots
  <1>2. \A u \in Task : Guest(u, c)' <=> Guest(u, c) BY DEF SameSpots
  <1>3. Held(c)' <=> Held(c) BY <1>1, <1>2 DEF Held
  <1>4. (Queued(c)' <=> Queued(c)) /\ (Offered(c)' <=> Offered(c)) BY DEF Queued, Offered
  <1> QED BY <1>1, <1>2, <1>3, <1>4 DEF Homes

LEMMA QueueSame ==
    ASSUME QueueOK, SameSpots, \A c \in Conn : SameUse(c)
    PROVE  QueueOK'
  <1>1. Queue' = Queue BY SocketsAssumption DEF Queue, SameUse
  <1>2. \A i, j \in 1 .. Len(Queue') : Queue'[i] = Queue'[j] => i = j BY <1>1 DEF QueueOK
  <1>3. ASSUME NEW c \in Conn, conn'[c].pcb = "LISTEN" \/ conn'[c].acceptmbox # <<>>
        PROVE  c = Listener /\ \E s \in Socket : AtSocket(c, s)'
    BY <1>3 DEF QueueOK, SameUse, SameSpots
  <1>4. \A c \in Conn : conn'[c].pcb # NULL => conn'[c].used BY DEF QueueOK, SameUse
  <1> QED BY <1>2, <1>3, <1>4 DEF QueueOK

(* The operations of the other tasks *)
LEMMA UsesKept ==
    ASSUME UsesOK, NEW t \in Task, SameTasks(t), Tcpip \notin Task,
           \A u \in Task \ {t} : \A o \in Ops(u) : Use(u, o) => Use(u, o)',
           \A o \in Ops(t)' : Use(t, o)'
    PROVE  UsesOK'
  <1>1. ASSUME NEW u \in Task, NEW o \in Ops(u)' PROVE Use(u, o)'
    <2>1. CASE u = t BY <1>1, <2>1
    <2>2. CASE u # t
      <3>1. todo'[u] = todo[u] BY <2>2 DEF SameTasks
      <3>2. Ops(u)' = Ops(u) BY <3>1 DEF Ops, Among
      <3> QED BY <1>1, <2>2, <3>2 DEF UsesOK
    <2> QED BY <2>1, <2>2
  <1> QED BY <1>1 DEF UsesOK

(* What a task does an operation on *)
LEMMA UseOf ==
    ASSUME Shape, NEW t \in Task, NEW o \in Ops(t)
    PROVE  /\ o \in TaskOps
           /\ HasC(o) => o.c \in Conn /\ o.op \notin EndNames /\ InCall(t) /\ Sock(t) \in Socket
           /\ o.op \in Adds => o.c \in Conn /\ o.s \in Socket /\ HasC(o)
  <1>1. o \in TaskOps BY OpsAre
  <1>2. HasC(o) => o.c \in Conn /\ o.op \notin EndNames
    BY <1>1, TaskOp DEF EndNames, CallNames
  <1>3. HasC(o) => InCall(t) /\ Sock(t) \in Socket BY <1>2, OpInCall, CallSocket
  <1>4. o.op \in Adds => o.s \in Socket /\ HasC(o) BY <1>1, TaskOp DEF Adds
  <1> QED BY <1>1, <1>2, <1>3, <1>4

LEMMA HoldsSame ==
    ASSUME SameSpots, NEW t \in Task, NEW c \in Conn, Sock(t) \in Socket, Sock(t)' = Sock(t)
    PROVE  Holds(t, c)' <=> Holds(t, c)
  <1>1. ASSUME NEW s, s = Sock(t), s = Sock(t)' PROVE AtSocket(c, s)' <=> AtSocket(c, Sock(t))'
    BY <1>1 DEF AtSocket, Stale, Closes, Op
  <1>2. AtSocket(c, Sock(t))' <=> AtSocket(c, Sock(t))
    <2>1. ASSUME NEW s, s = Sock(t) PROVE AtSocket(c, s)' <=> AtSocket(c, s)
      BY <2>1 DEF SameSpots
    <2> QED BY <1>1, <2>1
  <1>3. Guest(t, c)' <=> Guest(t, c) BY DEF SameSpots
  <1> QED BY <1>2, <1>3 DEF Holds

(* An operation of a task that has not done anything *)
LEMMA UseSame ==
    ASSUME Shape, NEW u \in Task, NEW o \in Ops(u), todo'[u] = todo[u], Use(u, o), SameSpots,
           o.op \in Adds => sockets'[o.s].conn = sockets[o.s].conn /\ Unused(o.s)'
    PROVE  Use(u, o)'
  <1>1. HasC(o) => o.c \in Conn /\ Sock(u) \in Socket BY UseOf
  <1>2. Sock(u)' = Sock(u) BY DEF Sock
  <1>3. HasC(o) => (Holds(u, o.c)' <=> Holds(u, o.c))
    <2>1. ASSUME NEW c, c = o.c, HasC(o) PROVE Holds(u, c)' <=> Holds(u, c)
      BY <1>1, <1>2, <2>1, HoldsSame
    <2> QED BY <2>1
  <1> QED BY <1>3 DEF Use, HasC

-----------------------------------------------------------------------------
(* A task does an operation that moves no netconn. *)

LEMMA StepsSock ==
    ASSUME Shape, NEW t \in Task, NEW ops, Steps(t, ops)
    PROVE  /\ InCall(t) /\ Len(todo[t]) \in Nat /\ Len(todo[t]) > 1 /\ Sock(t) \in Socket
           /\ \A u \in Task : (InCall(u)' <=> InCall(u)) /\ (InCall(u) => Sock(u)' = Sock(u))
           /\ \A u \in Task : u # t => todo'[u] = todo[u]
           /\ \A s : Unused(s) => Unused(s)' /\ s # Sock(t)
           /\ SameTasks(t)
  <1>1. /\ \A u \in Task : InCall(u)' <=> InCall(u)
        /\ \A u \in Task : InCall(u) => Sock(u)' = Sock(u)
        /\ InCall(t)
    BY StepsCall
  <1>2. Len(todo[t]) > 1 /\ Len(todo[t]) \in Nat /\ Sock(t) \in Socket
    BY <1>1, CallSocket DEF Steps
  <1>3. SameTasks(t) /\ \A u \in Task : u # t => todo'[u] = todo[u] BY DEF SameTasks, Steps
  <1>4. ASSUME NEW s, Unused(s) PROVE Unused(s)' /\ s # Sock(t)
    <2>1. s # Sock(t)
      <3>1. s = Sock(t) => Len(todo[t]) = 1 BY <1>1, <1>4 DEF Unused
      <3>2. Len(todo[t]) # 1 BY <1>2, MoreThanOne, Zenon
      <3> QED BY <3>1, <3>2, Zenon
    <2>2. ASSUME NEW u \in Task, InCall(u)', Sock(u)' = s PROVE Len(todo'[u]) = 1
      <3>1. InCall(u) /\ Sock(u) = s BY <1>1, <2>2
      <3>2. u # t /\ todo'[u] = todo[u] BY <1>3, <2>1, <3>1
      <3> QED BY <1>4, <3>1, <3>2 DEF Unused
    <2>3. Unused(s)' BY <2>2 DEF Unused
    <2> QED BY <2>1, <2>3
  <1> QED BY <1>1, <1>2, <1>3, <1>4

LEMMA PlainMarks ==
    ASSUME Shape, Shape', NEW t \in Task, NEW ops, Plainly(t, ops)
    PROVE  SameMarks
  <1>1. Steps(t, ops) BY DEF Plainly
  <1>2. /\ Ops(t)' = Among(ops) \cup Rest(t) /\ todo[t] # <<>>
        /\ \A u \in (Task \cup {Tcpip}) \ {t} : todo'[u] = todo[u]
    BY <1>1, StepsOps
  <1>3. /\ \A o \in Rest(t) : o \in Ops(t)
        /\ \A o \in Ops(t) : o = todo[t][1] \/ o \in Rest(t)
    BY <1>2, OpsAre
  <1>4. \A o : o.op \in Marks => (o \in Ops(t)' <=> o \in Ops(t))
    BY <1>2, <1>3 DEF Plainly, Inherits
  <1>5. ASSUME NEW u \in Task, u # t PROVE Ops(u)' = Ops(u) BY <1>2, <1>5 DEF Ops, Among
  <1>6. ASSUME NEW u \in Task, NEW c, Frees(u, c) PROVE Sock(u)' = Sock(u)
    BY <1>1, <1>6, FreesCall, StepsSock
  <1> QED BY <1>4, <1>5, <1>6 DEF SameMarks

LEMMA FreesBehind ==
    ASSUME NEW S, NEW q \in Seq(S), q # <<>>, NEW ops \in Seq(S), NEW r \in Seq(S), Behind(r, ops, q),
           FreesLast(q), FreesLast(ops),
           \A o \in Among(ops), p \in Later(q) : o.op = "free" /\ HasC(p) => p.c # o.c
    PROVE  FreesLast(r)
  <1>1. Len(ops) \in Nat /\ Len(q) \in Nat /\ Len(r) \in Nat OBVIOUS
  <1>2. /\ Len(r) = Len(ops) + Len(q) - 1
        /\ \A i \in 1 .. Len(ops) : r[i] = ops[i]
        /\ \A i \in 2 .. Len(q) : r[Len(ops) + i - 1] = q[i]
        /\ \A j \in 1 .. Len(r) :
              \/ j \in 1 .. Len(ops)
              \/ j - Len(ops) + 1 \in 2 .. Len(q) /\ r[j] = q[j - Len(ops) + 1]
    BY Zenon DEF Behind
  <1> SUFFICES ASSUME NEW i \in 1 .. Len(r), NEW j \in 1 .. Len(r), i < j, r[i].op = "free", HasC(r[j])
               PROVE  r[j].c # r[i].c
    BY DEF FreesLast
  <1>3. CASE j \in 1 .. Len(ops)
    <2>1. i \in 1 .. Len(ops) BY <1>1, <1>3
    <2> QED BY <1>2, <1>3, <2>1 DEF FreesLast
  <1>4. CASE j \notin 1 .. Len(ops) /\ i \in 1 .. Len(ops)
    <2>1. j - Len(ops) + 1 \in 2 .. Len(q) /\ r[j] = q[j - Len(ops) + 1] /\ r[i] = ops[i]
      BY <1>2, <1>4
    <2>2. r[j] \in Later(q) /\ r[i] \in Among(ops) BY <1>4, <2>1 DEF Later, Among
    <2> QED BY <2>2
  <1>5. CASE j \notin 1 .. Len(ops) /\ i \notin 1 .. Len(ops)
    <2>1. /\ j - Len(ops) + 1 \in 2 .. Len(q) /\ r[j] = q[j - Len(ops) + 1]
          /\ i - Len(ops) + 1 \in 2 .. Len(q) /\ r[i] = q[i - Len(ops) + 1]
      BY <1>2, <1>5
    <2>2. /\ j - Len(ops) + 1 \in 1 .. Len(q) /\ i - Len(ops) + 1 \in 1 .. Len(q)
          /\ i - Len(ops) + 1 < j - Len(ops) + 1
      BY <1>1, <2>1
    <2> QED BY <2>1, <2>2 DEF FreesLast
  <1> QED BY <1>3, <1>4, <1>5

LEMMA OrderThen ==
    ASSUME Shape, Shape', OrderOK, NEW t \in Task, NEW ops, Steps(t, ops), FreesLast(ops),
           \A o \in Among(ops), p \in Rest(t) : o.op = "free" /\ HasC(p) => p.c # o.c,
           \A c : Op("free", c) \in Among(ops) \cup Rest(t) => Closes(Sock(t)) \in Among(ops) \cup Rest(t)
    PROVE  OrderOK'
  <1>1. /\ todo[t] \in Seq(TaskOps) /\ todo[t] # <<>> /\ ops \in Seq(TaskOps)
        /\ todo'[t] \in Seq(TaskOps) /\ Behind(todo'[t], ops, todo[t])
        /\ \A u \in (Task \cup {Tcpip}) \ {t} : todo'[u] = todo[u]
    BY StepsSeq
  <1>2. FreesLast(todo[t]) /\ \A o \in Among(ops), p \in Later(todo[t]) : o.op = "free" /\ HasC(p) => p.c # o.c
    BY DEF OrderOK, Rest
  <1>3. FreesLast(todo'[t]) BY <1>1, <1>2, FreesBehind
  <1>4. ASSUME NEW u \in Task PROVE FreesLast(todo'[u])
    <2>1. CASE u = t BY <1>3, <2>1
    <2>2. CASE u # t BY <1>1, <2>2 DEF OrderOK
    <2> QED BY <2>1, <2>2
  <1>5. Ops(t)' = Among(ops) \cup Rest(t) /\ Sock(t)' = Sock(t) BY StepsOps, StepsSock
  <1>6. ClosesLast(t)'
    <2>1. Closes(Sock(t))' = Closes(Sock(t)) BY <1>5 DEF Closes
    <2> QED BY <1>5, <2>1 DEF ClosesLast, Op
  <1>7. ASSUME NEW u \in Task, u # t PROVE ClosesLast(u)'
    <2>1. todo'[u] = todo[u] BY <1>1, <1>7
    <2>2. Ops(u)' = Ops(u) /\ Closes(Sock(u))' = Closes(Sock(u))
      BY <2>1 DEF Ops, Among, Closes, Sock
    <2> QED BY <2>2 DEF OrderOK, ClosesLast, Op
  <1> QED BY <1>4, <1>6, <1>7 DEF OrderOK, FreesLast, HasC

LEMMA PlainUses ==
    ASSUME Shape, Shape', UsesOK, NEW t \in Task, NEW ops, Plainly(t, ops), SameSpots,
           \A s \in Socket : sockets'[s].conn = sockets[s].conn
    PROVE  UsesOK'
  <1>1. Steps(t, ops) BY DEF Plainly
  <1>2. /\ InCall(t) /\ Sock(t) \in Socket /\ SameTasks(t) /\ Sock(t)' = Sock(t)
        /\ \A s : Unused(s) => Unused(s)'
    BY <1>1, StepsSock
  <1>3. /\ Ops(t)' = Among(ops) \cup Rest(t) /\ todo[t] # <<>> BY <1>1, StepsOps
  <1>4. /\ \A o \in Rest(t) : o \in Ops(t)
        /\ todo[t][1] \in Ops(t) /\ \A o \in Ops(t) : o \in TaskOps
    BY <1>3, OpsAre
  <1>5. ASSUME NEW u \in Task, NEW o \in Ops(u), u # t, Use(u, o) PROVE Use(u, o)'
    <2>1. todo'[u] = todo[u] BY <1>2, <1>5 DEF SameTasks
    <2>2. o.op \in Adds => o.s \in Socket BY UseOf
    <2>3. o.op \in Adds => sockets'[o.s].conn = sockets[o.s].conn /\ Unused(o.s)'
      <3>1. ASSUME NEW s \in Socket, s = o.s, o.op \in Adds PROVE Unused(s)'
        BY <1>2, <1>5, <3>1 DEF Use
      <3> QED BY <2>2, <3>1
    <2> QED BY <1>5, <2>1, <2>3, UseSame
  <1>6. ASSUME NEW o \in Ops(t), Use(t, o) PROVE Use(t, o)'
    <2>1. HasC(o) => o.c \in Conn BY UseOf
    <2>2. HasC(o) => (Holds(t, o.c)' <=> Holds(t, o.c))
      <3>1. ASSUME NEW c, c = o.c, HasC(o) PROVE Holds(t, c)' <=> Holds(t, c)
        BY <1>2, <2>1, <3>1, HoldsSame
      <3> QED BY <3>1
    <2>3. o.op \in Adds => sockets'[o.s].conn = sockets[o.s].conn /\ Unused(o.s)'
      <3>1. ASSUME NEW s, s = o.s, o.op \in Adds PROVE Unused(s)' /\ s \in Socket
        BY <1>2, <1>6, <3>1, UseOf DEF Use
      <3> QED BY <3>1
    <2> QED BY <1>6, <2>2, <2>3 DEF Use, HasC
  <1>7. Use(t, todo[t][1]) BY <1>4 DEF UsesOK
  <1>8. ASSUME NEW p \in Among(ops), NEW o \in Ops(t), o = todo[t][1] PROVE Use(t, p)'
    <2>1. Use(t, o)' /\ Inherits(o, p) BY <1>6, <1>7, <1>8 DEF Plainly
    <2> QED BY <2>1 DEF Use, Inherits, HasC
  <1>9. \A o \in Ops(t)' : Use(t, o)' BY <1>3, <1>4, <1>6, <1>8 DEF UsesOK
  <1>10. Tcpip \notin Task BY SocketsAssumption
  <1> QED BY <1>2, <1>5, <1>9, <1>10, UsesKept

-----------------------------------------------------------------------------
(* What leaves the requests and the deletions as they are *)

LEMMA BeforeLast ==
    ASSUME NEW n \in Nat, n > 1
    PROVE  1 \in 1 .. n - 1 /\ 1 + 1 = 2 /\ 2 \in 1 .. n /\ 2 \in 2 .. n
  OBVIOUS

LEMMA SameOps ==
    ASSUME NEW t, NEW u, todo'[u] = todo[u]
    PROVE  /\ Ops(u)' = Ops(u)
           /\ \A c : (Frees(u, c)' <=> Frees(u, c)) /\ (Awaits(u, c)' <=> Awaits(u, c))
           /\ \A c : Gone(u, c)' <=> Gone(u, c)
  <1>1. Ops(u)' = Ops(u) BY DEF Ops, Among
  <1> QED BY <1>1 DEF Frees, Awaits, Gone, Op

LEMMA TcpipOpsAre ==
    ASSUME Shape, NEW o \in Ops(Tcpip)
    PROVE  o \in TcpipOps /\ (HasC(o) => o.c \in Conn) /\ (o.op = "offer" => HasC(o))
  <1>1. todo[Tcpip] \in Seq(TcpipOps) BY DEF Shape, OpTypes
  <1>2. o \in TcpipOps BY <1>1 DEF Ops, Among
  <1> QED BY <1>2, TcpipOp

LEMMA TcpipSame ==
    ASSUME Shape, TcpipOK, todo'[Tcpip] = todo[Tcpip],
           \A o \in Ops(Tcpip) : HasC(o) => conn'[o.c].used = conn[o.c].used /\ conn'[o.c].pcb = conn[o.c].pcb
    PROVE  TcpipOK'
  <1>1. Ops(Tcpip)' = Ops(Tcpip) BY SameOps
  <1>2. ASSUME NEW o \in Ops(Tcpip)
        PROVE  /\ o.op = "offer" => o.c = Listener /\ conn'[Listener].pcb = "LISTEN"
               /\ HasC(o) => conn'[o.c].used /\ (conn'[o.c].pcb = NULL => Op("answer", o.c) \in Ops(Tcpip)')
    <2>1. /\ o.op = "offer" => o.c = Listener /\ conn[Listener].pcb = "LISTEN"
          /\ HasC(o) => conn[o.c].used /\ (conn[o.c].pcb = NULL => Op("answer", o.c) \in Ops(Tcpip))
      BY DEF TcpipOK
    <2>2. o.op = "offer" => HasC(o) BY TcpipOpsAre
    <2>3. HasC(o) => conn'[o.c].used = conn[o.c].used /\ conn'[o.c].pcb = conn[o.c].pcb
      OBVIOUS
    <2> QED BY <1>1, <2>1, <2>2, <2>3
  <1>3. \A i \in 1 .. Len(todo'[Tcpip]) : todo'[Tcpip][i].op \in Ends => i = Len(todo'[Tcpip])
    BY DEF TcpipOK
  <1> QED BY <1>1, <1>2, <1>3 DEF TcpipOK, HasC, Op, Ends

LEMMA RequestsSame ==
    ASSUME Shape, RequestsOK, NEW t \in Task, SameTasks(t), UNCHANGED mbox,
           \A c \in Conn : /\ conn'[c].reply \in {conn[c].reply, 0}
                           /\ conn[c].pcb = NULL => conn'[c].pcb = NULL
                           /\ ~Awaits(t, c)
    PROVE  RequestsOK'
  <1>1. \A u \in Task, c \in Conn : Awaits(u, c) => /\ Awaits(u, c)'
                                                    /\ Frees(u, c)' <=> Frees(u, c)
    BY SameOps DEF SameTasks
  <1>2. Ops(Tcpip)' = Ops(Tcpip) BY SameOps, SocketsAssumption DEF SameTasks
  <1>3. \A c \in Conn : Answered(c) => Answered(c)' BY <1>1 DEF Answered
  <1>4. \A c : Asked(c)' <=> Asked(c) BY DEF Asked
  <1>5. ASSUME NEW i \in 1 .. Len(mbox), NEW m, m = mbox[i] PROVE RequestOK(m)'
    <2>1. m \in Message /\ RequestOK(m) BY <1>5 DEF Shape, DataTypes, RequestsOK
    <2>2. m.c \in Conn BY <2>1 DEF Message
    <2>3. PICK u \in Task : Awaits(u, m.c) /\ (m.type = "DELCONN" <=> Frees(u, m.c))
      BY <2>1 DEF RequestOK
    <2>4. Awaits(u, m.c)' /\ (m.type = "DELCONN" <=> Frees(u, m.c)') BY <1>1, <2>2, <2>3
    <2> QED BY <2>4 DEF RequestOK, Awaits, Frees, Op
  <1>6. ASSUME NEW c \in Conn
        PROVE  /\ Op("answer", c) \in Ops(Tcpip)' => ~Asked(c)' /\ conn'[c].reply = 0 /\ Answered(c)'
               /\ conn'[c].reply # 0 => conn'[c].reply = 1 /\ ~Asked(c)' /\ Answered(c)'
    <2>1. /\ Op("answer", c) \in Ops(Tcpip) => ~Asked(c) /\ conn[c].reply = 0 /\ Answered(c)
          /\ conn[c].reply # 0 => conn[c].reply = 1 /\ ~Asked(c) /\ Answered(c)
      BY DEF RequestsOK
    <2>2. conn'[c].reply = conn[c].reply \/ conn'[c].reply = 0 OBVIOUS
    <2> QED BY <1>2, <1>3, <1>4, <2>1, <2>2
  <1>7. \A i, j \in 1 .. Len(mbox') : mbox'[i].c = mbox'[j].c => i = j BY DEF RequestsOK
  <1>8. \A i \in 1 .. Len(mbox') : RequestOK(mbox[i])' BY <1>5
  <1> QED BY <1>6, <1>7, <1>8 DEF RequestsOK, Op

LEMMA DeleteKept ==
    ASSUME DeleteOK, NEW t \in Task, SameTasks(t),
           \A u \in Task \ {t}, c \in Conn : Gone(u, c) =>
                /\ Cleared(c) => Cleared(c)'
                /\ conn[c].acceptmbox = <<>> => conn'[c].acceptmbox = <<>>,
           \A c \in Conn : Gone(t, c)' =>
                Cleared(c)' /\ (todo'[t][1] = Op("free", c) => conn'[c].acceptmbox = <<>>)
    PROVE  DeleteOK'
  <1>1. ASSUME NEW u \in Task, NEW c \in Conn, Gone(u, c)'
        PROVE  Cleared(c)' /\ (todo'[u][1] = Op("free", c) => conn'[c].acceptmbox = <<>>)
    <2>1. CASE u = t BY <1>1, <2>1
    <2>2. CASE u # t
      <3>1. todo'[u] = todo[u] BY <2>2 DEF SameTasks
      <3>2. Gone(u, c) BY <1>1, <3>1, SameOps
      <3> QED BY <2>2, <3>1, <3>2 DEF DeleteOK
    <2> QED BY <2>1, <2>2
  <1> QED BY <1>1 DEF DeleteOK, Op

LEMMA FreeFollows ==
    ASSUME NEW o \in TaskOps, NEW c, Follows(o, Op("free", c)), o.op \notin EndNames
    PROVE  o = Op("drain", c)
  <1>1. Op("free", c).op = "free" /\ Op("free", c).c = c BY DEF Op
  <1>2. \A n, d : Op("free", c) = Op(n, d) => n = "free" /\ d = c BY DEF Op
  <1>3. o.op = "drain" BY <1>1, <1>2, TaskOp DEF Follows, CallNames, EndNames
  <1>4. Op("free", c) = Op("free", o.c) BY <1>3 DEF Follows
  <1>5. o = Op("drain", o.c) /\ o.c = c BY <1>2, <1>3, <1>4, TaskOp DEF CallNames
  <1> QED BY <1>5

(* An operation that is not about a netconn_delete's request *)
LEMMA PlainGone ==
    ASSUME Shape, Shape', NEW t \in Task, NEW ops, Plainly(t, ops), todo[t][1].op \notin {"await", "drain"},
           todo[t][1].op = "ask" => ops = <<>>, NEW c \in Conn, Gone(t, c)'
    PROVE  Gone(t, c) /\ todo'[t][1] # Op("free", c)
  <1>1. Steps(t, ops) /\ SameMarks BY PlainMarks DEF Plainly
  <1>2. /\ Ops(t)' = Among(ops) \cup Rest(t) /\ todo[t] # <<>> /\ todo'[t] # <<>>
        /\ Len(ops) > 0 => todo'[t][1] = ops[1]
        /\ Len(ops) = 0 => todo'[t][1] = todo[t][2]
        /\ ops \in Seq(TaskOps) /\ Len(todo[t]) > 1
    BY <1>1, StepsOps DEF Steps
  <1>3. /\ todo[t] \in Seq(TaskOps) /\ Ordered(todo[t]) /\ todo[t][1] \in TaskOps /\ Len(todo[t]) \in Nat
    BY <1>2 DEF Shape, OpTypes, Grammar
  <1>4. todo[t][1].op \notin EndNames /\ Follows(todo[t][1], todo[t][2])
    <2>1. 1 \in 1 .. Len(todo[t]) /\ 1 # Len(todo[t]) BY <1>2, <1>3, MoreThanOne, Zenon
    <2>2. 1 \in 1 .. Len(todo[t]) - 1 /\ 1 + 1 = 2 BY <1>2, <1>3, BeforeLast, Zenon
    <2> QED BY <1>3, <2>1, <2>2 DEF Ordered
  <1>5. Frees(t, c)
    <2>1. Op("free", c) \in Ops(t)' BY DEF Gone, Frees, Op
    <2>2. Op("free", c).op \in Marks BY DEF Op, Marks
    <2> QED BY <1>1, <2>1, <2>2 DEF SameMarks, Frees
  <1>6. todo'[t][1] # Op("free", c)
    <2>1. CASE Len(ops) > 0
      <3>1. ops[1] \in Among(ops) BY <1>2, <2>1 DEF Among
      <3>2. Op("free", c).op \in Marks BY DEF Op, Marks
      <3> QED BY <1>2, <2>1, <3>1, <3>2 DEF Plainly, Inherits
    <2>2. CASE Len(ops) = 0
      <3>1. ASSUME todo[t][2] = Op("free", c) PROVE FALSE
        <4>1. todo[t][1] = Op("drain", c) BY <1>3, <1>4, <3>1, FreeFollows
        <4> QED BY <4>1 DEF Op
      <3> QED BY <1>2, <2>2, <3>1
    <2>3. Len(ops) > 0 \/ Len(ops) = 0 BY <1>2
    <2> QED BY <2>1, <2>2, <2>3
  <1>7. ~(todo[t][1].op \in {"ask", "await"} /\ todo[t][1].c = c)
    <2>1. ASSUME todo[t][1].op = "ask", todo[t][1].c = c PROVE FALSE
      <3>1. todo'[t][1] = Op("await", c)
        <4>1. todo[t][2] = Op("await", c) BY <1>4, <2>1 DEF Follows
        <4>2. Len(ops) = 0 BY <2>1
        <4> QED BY <1>2, <4>1, <4>2
      <3>2. todo'[t][1].op = "await" /\ todo'[t][1].c = c BY <3>1 DEF Op
      <3> QED BY <3>2 DEF Gone
    <2> QED BY <2>1
  <1> QED BY <1>5, <1>6, <1>7 DEF Gone

-----------------------------------------------------------------------------
(* One task at a time works on a netconn. *)

LEMMA HolderIs ==
    ASSUME Shape, UsesOK, NEW t \in Task, NEW c, Uses(t, c)
    PROVE  c \in Conn /\ Holds(t, c) /\ InCall(t) /\ Sock(t) \in Socket
  <1>1. PICK o \in Ops(t) : HasC(o) /\ o.op \notin Others /\ o.c = c BY DEF Uses
  <1>2. c \in Conn /\ InCall(t) /\ Sock(t) \in Socket BY <1>1, UseOf
  <1>3. Holds(t, c) BY <1>1 DEF UsesOK, Use
  <1> QED BY <1>2, <1>3

LEMMA OneHolder ==
    ASSUME CallsOK, Homes, NEW c \in Conn, NEW t \in Task, InCall(t), Sock(t) \in Socket, Holds(t, c),
           NEW u \in Task, InCall(u), Sock(u) \in Socket, Holds(u, c)
    PROVE  t = u
  <1>1. /\ \A s, r \in Socket : AtSocket(c, s) /\ AtSocket(c, r) => s = r
        /\ \A v, w \in Task : Guest(v, c) /\ Guest(w, c) => v = w
        /\ \A s \in Socket, v \in Task : ~(AtSocket(c, s) /\ Guest(v, c))
    BY DEF Homes
  <1>2. AtSocket(c, Sock(t)) \/ Guest(t, c) BY DEF Holds
  <1>3. AtSocket(c, Sock(u)) \/ Guest(u, c) BY DEF Holds
  <1>4. AtSocket(c, Sock(t)) /\ AtSocket(c, Sock(u)) => Sock(t) = Sock(u) BY <1>1
  <1>5. Sock(t) = Sock(u) => t = u BY DEF CallsOK
  <1> QED BY <1>1, <1>2, <1>3, <1>4, <1>5

LEMMA OneUser ==
    ASSUME Good, NEW c, NEW t \in Task, Uses(t, c), NEW u \in Task, Uses(u, c)
    PROVE  t = u
  <1>1. /\ c \in Conn /\ Holds(t, c) /\ InCall(t) /\ Sock(t) \in Socket
        /\ Holds(u, c) /\ InCall(u) /\ Sock(u) \in Socket
    BY HolderIs DEF Good, Owners
  <1> QED BY <1>1, OneHolder DEF Good, Owners

LEMMA HeldIs ==
    ASSUME Good, NEW c, NEW t \in Task, Uses(t, c)
    PROVE  c \in Conn /\ Held(c) /\ conn[c].used /\ ~Queued(c) /\ ~Offered(c)
  <1>1. c \in Conn /\ Holds(t, c) /\ Sock(t) \in Socket BY HolderIs DEF Good, Owners
  <1>2. Held(c) BY <1>1 DEF Holds, Held
  <1> QED BY <1>1, <1>2 DEF Good, Owners, Homes

LEMMA CallNamesUse ==
    ASSUME Shape, NEW t \in Task, NEW o \in Ops(t), NEW c,
           o.op \in (CallNames \ {"alloc"}) \cup {"event", "ask"}, o.c = c
    PROVE  Uses(t, c)
  <1>1. HasC(o) /\ o.op \notin Others
    <2>1. o \in TaskOps BY OpsAre
    <2> QED BY <2>1, TaskOp DEF Others, Adds, CallNames
  <1> QED BY <1>1 DEF Uses

LEMMA AwaitsUse ==
    ASSUME Shape, NEW t \in Task, NEW c, Awaits(t, c)
    PROVE  Uses(t, c) /\ todo[t] # <<>> /\ todo[t][1].op = "await" /\ todo[t][1].c = c
  <1>1. todo[t] # <<>> /\ todo[t][1].op = "await" /\ todo[t][1].c = c BY DEF Awaits, Op
  <1>2. todo[t][1] \in Ops(t) BY <1>1, OpsAre
  <1> QED BY <1>1, <1>2, CallNamesUse DEF CallNames

LEMMA FreesUse ==
    ASSUME Shape, NEW t \in Task, NEW c, Frees(t, c)
    PROVE  Uses(t, c)
  <1>1. Op("free", c) \in Ops(t) /\ Op("free", c).op = "free" /\ Op("free", c).c = c
    BY DEF Frees, Op
  <1> QED BY <1>1, CallNamesUse DEF CallNames

-----------------------------------------------------------------------------
(* What leaves netconn_write's semaphore and room as they are *)

LEMMA WriteBy ==
    ASSUME Shape, WriteOK, NEW t \in Task, SameTasks(t), Ranges', SemOK(t)', AskOK(t)',
           \A u \in Task \ {t}, c \in Conn : Uses(u, c) =>
                /\ conn[c].sem # -1 => conn'[c].sem # -1
                /\ conn[c].sndbuf # 0 => conn'[c].sndbuf # 0,
           \A i \in 1 .. Len(mbox') : mbox'[i].type = "WRITE" => conn'[mbox'[i].c].sndbuf # 0
    PROVE  WriteOK'
  <1>1. ASSUME NEW u \in Task, u # t PROVE SemOK(u)'
    <2>1. todo'[u] = todo[u] /\ Ops(u)' = Ops(u) BY <1>1, SameOps DEF SameTasks
    <2>2. ASSUME NEW o \in Ops(u), o.op \in {"room", "freesem"} PROVE conn'[o.c].sem # -1
      <3>1. o.c \in Conn /\ Uses(u, o.c) BY <2>2, CallNamesUse, OpsAre, TaskOp DEF CallNames
      <3> QED BY <1>1, <2>2, <3>1 DEF WriteOK, SemOK
    <2> QED BY <2>1, <2>2 DEF SemOK
  <1>2. ASSUME NEW u \in Task, u # t PROVE AskOK(u)'
    <2>1. todo'[u] = todo[u] BY <1>2 DEF SameTasks
    <2>2. ASSUME NEW i \in 1 .. Len(todo[u]), todo[u][i].op = "ask", todo[u][i].type = "WRITE"
          PROVE  i = 1 /\ conn'[todo[u][i].c].sndbuf # 0
      <3>1. todo[u][i] \in Ops(u) BY DEF Ops, Among
      <3>2. Uses(u, todo[u][i].c) /\ todo[u][i].c \in Conn
        BY <2>2, <3>1, CallNamesUse, OpsAre, TaskOp
      <3>3. i = 1 /\ conn[todo[u][i].c].sndbuf # 0 BY <2>2 DEF WriteOK, AskOK
      <3> QED BY <1>2, <3>2, <3>3
    <2> QED BY <2>1, <2>2 DEF AskOK
  <1>3. \A u \in Task : SemOK(u)' /\ AskOK(u)' BY <1>1, <1>2
  <1> QED BY <1>3 DEF WriteOK, Ranges

LEMMA WriteKept ==
    ASSUME Shape, WriteOK, NEW t \in Task, SameTasks(t), UNCHANGED mbox, Ranges', SemOK(t)', AskOK(t)',
           \A u \in Task \ {t}, c \in Conn : Uses(u, c) =>
                /\ conn[c].sem # -1 => conn'[c].sem # -1
                /\ conn[c].sndbuf # 0 => conn'[c].sndbuf # 0,
           \A i \in 1 .. Len(mbox) : conn[mbox[i].c].sndbuf # 0 => conn'[mbox[i].c].sndbuf # 0
    PROVE  WriteOK'
  <1>1. \A i \in 1 .. Len(mbox') : mbox'[i].type = "WRITE" => conn'[mbox'[i].c].sndbuf # 0
    BY DEF WriteOK
  <1> QED BY <1>1, WriteBy

LEMMA SemSteps ==
    ASSUME Shape, Shape', NEW t \in Task, NEW ops, Steps(t, ops),
           \A p \in Among(ops) \cup Rest(t) : p.op \in {"room", "freesem"} => conn'[p.c].sem # -1
    PROVE  SemOK(t)'
  <1>1. Ops(t)' = Among(ops) \cup Rest(t) BY StepsOps
  <1> QED BY <1>1 DEF SemOK

LEMMA AskSteps ==
    ASSUME Shape, Shape', NEW t \in Task, NEW ops, Steps(t, ops), AskOK(t),
           \A k \in 1 .. Len(ops) : ops[k].op = "ask" /\ ops[k].type = "WRITE" =>
                k = 1 /\ conn'[ops[k].c].sndbuf # 0
    PROVE  AskOK(t)'
  <1>1. /\ todo[t] \in Seq(TaskOps) /\ todo[t] # <<>> /\ ops \in Seq(TaskOps)
        /\ todo'[t] \in Seq(TaskOps) /\ Behind(todo'[t], ops, todo[t])
    BY StepsSeq
  <1>2. ASSUME NEW i \in 1 .. Len(todo'[t]), todo'[t][i].op = "ask", todo'[t][i].type = "WRITE"
        PROVE  i = 1 /\ conn'[todo'[t][i].c].sndbuf # 0
    <2>1. \/ i \in 1 .. Len(ops) /\ todo'[t][i] = ops[i]
          \/ \E j \in 2 .. Len(todo[t]) : j \in 1 .. Len(todo[t]) /\ todo'[t][i] = todo[t][j]
                                          /\ (i = 1 => Len(ops) = 0)
      BY <1>1, BehindEach
    <2>2. CASE i \in 1 .. Len(ops) /\ todo'[t][i] = ops[i] BY <1>2, <2>2
    <2>3. CASE \E j \in 2 .. Len(todo[t]) : j \in 1 .. Len(todo[t]) /\ todo'[t][i] = todo[t][j]
      <3>1. PICK j \in 2 .. Len(todo[t]) : j \in 1 .. Len(todo[t]) /\ todo'[t][i] = todo[t][j]
        BY <2>3
      <3>2. j = 1 BY <1>2, <3>1 DEF AskOK
      <3> QED BY <3>1, <3>2
    <2> QED BY <2>1, <2>2, <2>3
  <1> QED BY <1>2 DEF AskOK

-----------------------------------------------------------------------------
(* Plain operations *)

LEMMA PlainOwners ==
    ASSUME Good, Shape', NEW t \in Task, NEW ops, Plainly(t, ops), \A c \in Conn : SameUse(c),
           \A s \in Socket : sockets'[s].conn = sockets[s].conn
    PROVE  /\ SameMarks /\ SameSpots /\ Homes' /\ QueueOK' /\ UsesOK' /\ OrderOK' /\ TcpipOK'
           /\ SameTasks(t) /\ Ops(Tcpip)' = Ops(Tcpip)
  <1>1. Shape /\ CallsOK /\ Owners /\ Steps(t, ops) BY DEF Good, Plainly
  <1>2. SameMarks BY <1>1, PlainMarks
  <1>3. SameSpots BY <1>1, <1>2, SpotsSame
  <1>4. SameTasks(t) /\ todo'[Tcpip] = todo[Tcpip] /\ Ops(Tcpip)' = Ops(Tcpip)
    BY <1>1, StepsSock, SameOps, SocketsAssumption DEF SameTasks
  <1>5. Queue' = Queue /\ \A c \in Conn : conn'[c].used = conn[c].used
    BY SocketsAssumption DEF Queue, SameUse
  <1>6. Homes' BY <1>1, <1>3, <1>4, <1>5, HomesSame DEF Owners
  <1>7. QueueOK' BY <1>1, <1>3, QueueSame DEF Owners
  <1>8. UsesOK' BY <1>1, <1>3, PlainUses DEF Owners
  <1>9. OrderOK'
    <2>1. \A o \in Among(ops) : o.op # "free" BY DEF Plainly, Inherits, Marks
    <2>2. FreesLast(ops) BY <2>1 DEF FreesLast, Among
    <2>3. ASSUME NEW c, Op("free", c) \in Among(ops) \cup Rest(t)
          PROVE  Closes(Sock(t)) \in Among(ops) \cup Rest(t)
      <3>1. todo[t] # <<>> BY <1>1 DEF Steps
      <3>2. Op("free", c) \in Ops(t) BY <1>1, <2>1, <2>3, <3>1, OpsAre DEF Op
      <3>3. Closes(Sock(t)) \in Ops(t) /\ Closes(Sock(t)).op \in Marks
        BY <1>1, <3>2 DEF Owners, OrderOK, ClosesLast, Closes, Marks
      <3> QED BY <1>1, <3>1, <3>3, OpsAre DEF Plainly
    <2> QED BY <1>1, <2>1, <2>2, <2>3, OrderThen DEF Owners
  <1>10. TcpipOK'
    <2>1. \A o \in Ops(Tcpip) : HasC(o) => SameUse(o.c) BY <1>1, TcpipOpsAre
    <2> QED BY <1>1, <1>4, <2>1, TcpipSame DEF Owners, SameUse
  <1> QED BY <1>2, <1>3, <1>4, <1>6, <1>7, <1>8, <1>9, <1>10

LEMMA ClearedSame ==
    ASSUME NEW c \in Conn, conn'[c].pcb = conn[c].pcb, Ops(Tcpip)' = Ops(Tcpip)
    PROVE  Cleared(c)' <=> Cleared(c)
  BY DEF Cleared, HasC

LEMMA PlainDelete ==
    ASSUME Good, Shape', NEW t \in Task, NEW ops, Plainly(t, ops), \A c \in Conn : SameUse(c),
           todo[t][1].op \notin {"await", "drain"}, todo[t][1].op = "ask" => ops = <<>>
    PROVE  DeleteOK'
  <1>1. Shape /\ CallsOK /\ Owners /\ Steps(t, ops) BY DEF Good, Plainly
  <1>2. SameTasks(t) /\ Ops(Tcpip)' = Ops(Tcpip)
    BY <1>1, StepsSock, SameOps, SocketsAssumption DEF SameTasks
  <1>3. \A c \in Conn : (Cleared(c)' <=> Cleared(c)) /\ conn'[c].acceptmbox = conn[c].acceptmbox
    BY <1>2, ClearedSame DEF SameUse
  <1>4. ASSUME NEW c \in Conn, Gone(t, c)'
        PROVE  Cleared(c)' /\ (todo'[t][1] = Op("free", c) => conn'[c].acceptmbox = <<>>)
    <2>1. Gone(t, c) /\ todo'[t][1] # Op("free", c) BY <1>1, <1>4, PlainGone
    <2> QED BY <1>1, <1>3, <2>1 DEF Owners, DeleteOK
  <1> QED BY <1>1, <1>2, <1>3, <1>4, DeleteKept DEF Owners

LEMMA PlainRequests ==
    ASSUME Good, Shape', NEW t \in Task, NEW ops, Plainly(t, ops), todo[t][1].op # "await",
           \A c \in Conn : SameUse(c) /\ conn'[c].reply = conn[c].reply, UNCHANGED mbox
    PROVE  RequestsOK'
  <1>1. Shape /\ CallsOK /\ Owners /\ Steps(t, ops) BY DEF Good, Plainly
  <1>2. SameTasks(t) BY <1>1, StepsSock
  <1>3. \A c \in Conn : ~Awaits(t, c) BY DEF Awaits, Op
  <1> QED BY <1>1, <1>2, <1>3, RequestsSame DEF Owners, SameUse

LEMMA MboxIs ==
    ASSUME Shape, NEW i \in 1 .. Len(mbox)
    PROVE  mbox[i] \in Message /\ mbox[i].c \in Conn /\ mbox[i].type \in {"DELCONN", "RECV", "WRITE"}
  <1>1. mbox[i] \in Message BY DEF Shape, DataTypes
  <1> QED BY <1>1 DEF Message

LEMMA PlainWrite ==
    ASSUME Good, Shape', NEW t \in Task, NEW ops, Steps(t, ops), UNCHANGED mbox,
           \A c \in Conn : conn'[c].sndbuf = conn[c].sndbuf /\ conn'[c].sem = conn[c].sem,
           \A p \in Among(ops) : /\ p.op \notin {"room", "freesem"}
                                 /\ ~(p.op = "ask" /\ p.type = "WRITE")
    PROVE  WriteOK'
  <1>1. Shape /\ WriteOK BY DEF Good, Owners
  <1>2. SameTasks(t) BY <1>1, StepsSock
  <1>3. ASSUME NEW p \in Among(ops) \cup Rest(t), p.op \in {"room", "freesem"} PROVE conn'[p.c].sem # -1
    <2>1. p \in Ops(t) BY <1>1, <1>3, OpsAre
    <2>2. p.c \in Conn BY <1>1, <1>3, <2>1, OpsAre, TaskOp DEF CallNames
    <2> QED BY <1>1, <1>3, <2>1, <2>2 DEF WriteOK, SemOK
  <1>4. SemOK(t)' BY <1>1, <1>3, SemSteps
  <1>5. AskOK(t)'
    <2>1. \A k \in 1 .. Len(ops) : ~(ops[k].op = "ask" /\ ops[k].type = "WRITE")
      BY DEF Among
    <2> QED BY <1>1, <2>1, AskSteps DEF WriteOK
  <1>6. Ranges' BY <1>1 DEF WriteOK, Ranges
  <1>7. \A i \in 1 .. Len(mbox) : conn[mbox[i].c].sndbuf # 0 => conn'[mbox[i].c].sndbuf # 0
    BY <1>1, MboxIs
  <1> QED BY <1>1, <1>2, <1>4, <1>5, <1>6, <1>7, WriteKept

LEMMA PlainAll ==
    ASSUME Good, Shape', NEW t \in Task, NEW ops, Plainly(t, ops), SameBuffers, UNCHANGED mbox,
           \A c \in Conn : SameUse(c), \A s \in Socket : sockets'[s].conn = sockets[s].conn,
           todo[t][1].op \notin {"ask", "await", "drain"},
           \A p \in Among(ops) : /\ p.op \notin {"room", "freesem"}
                                 /\ ~(p.op = "ask" /\ p.type = "WRITE")
    PROVE  Owners'
  <1>1. Steps(t, ops) BY DEF Plainly
  <1>2. Homes' /\ QueueOK' /\ UsesOK' /\ OrderOK' /\ TcpipOK' BY PlainOwners
  <1>3. DeleteOK' BY PlainDelete
  <1>4. RequestsOK' BY PlainRequests DEF SameBuffers
  <1>5. WriteOK' BY <1>1, PlainWrite DEF SameBuffers
  <1> QED BY <1>2, <1>3, <1>4, <1>5 DEF Owners

LEMMA SameConnsUse ==
    ASSUME Shape, SameConns
    PROVE  /\ \A c \in Conn : SameUse(c)
           /\ SameBuffers
  <1>1. ASSUME NEW c \in Conn
        PROVE  /\ conn'[c].used = conn[c].used /\ conn'[c].pcb = conn[c].pcb
               /\ conn'[c].acceptmbox = conn[c].acceptmbox /\ conn'[c].reply = conn[c].reply
               /\ conn'[c].sndbuf = conn[c].sndbuf /\ conn'[c].sem = conn[c].sem
    <2>1. conn[c] \in ConnType BY DEF Shape, DataTypes
    <2>2. ASSUME NEW n, NEW r \in ConnType, NEW q, q = [r EXCEPT !.socket = n]
          PROVE  /\ q.used = r.used /\ q.pcb = r.pcb /\ q.acceptmbox = r.acceptmbox
                 /\ q.reply = r.reply /\ q.sndbuf = r.sndbuf /\ q.sem = r.sem
      BY <2>2 DEF ConnType
    <2>3. conn'[c] = [conn[c] EXCEPT !.socket = conn'[c].socket] BY DEF SameConns
    <2> HIDE DEF ConnType
    <2> QED BY <2>1, <2>2, <2>3
  <1> QED BY <1>1 DEF SameUse, SameBuffers

(* event_callback's operations of a task *)
LEMMA TaskCallbackOwners == ASSUME Good, NEW t \in Task, Callback(t) PROVE Owners'
  <1>1. Shape BY DEF Good
  <1>2. /\ Shape' /\ SameConns /\ UNCHANGED mbox
        /\ \E ops \in Seq(TaskOps) : Steps(t, ops) /\ CallbackOps(t, todo[t][1], ops)
    BY <1>1, TaskCallback
  <1>3. PICK ops \in Seq(TaskOps) : Steps(t, ops) /\ CallbackOps(t, todo[t][1], ops) BY <1>2
  <1> DEFINE o == todo[t][1]
  <1>4. o \in TaskOps BY <1>1, <1>3, StepsOps, OpsAre DEF Steps
  <1>5. o.op \in {"event", "search", "countdown", "count", "signal"} BY <1>3 DEF CallbackOps
  <1>6. /\ o.op = "event" => HasC(o)
        /\ o.op \notin Marks \cup Others \cup {"ask", "await", "drain"}
    BY <1>4, <1>5, TaskOp DEF Marks, Others, Adds, CallNames
  <1>7. ASSUME NEW p \in Among(ops) PROVE p.op \in {"count", "search", "signal"} /\ ~HasC(p)
    <2>1. p \in TaskOps BY <1>7 DEF Among
    <2>2. \/ ops = <<>> \/ \E c : ops = <<CountDown(c)>> \/ \E s, e : ops = <<Count(s, e)>>
          \/ \E s : ops = <<Search(s)>> \/ \E v, r : ops = <<Signal(v), Search(r)>>
      BY <1>3 DEF CallbackOps
    <2>3. p.op \in {"countdown", "count", "search", "signal"}
      <3>1. CASE ops = <<>> BY <1>7, <3>1, AmongIs
      <3>2. CASE \E c : ops = <<CountDown(c)>> BY <1>7, <3>2, AmongIs DEF CountDown
      <3>3. CASE \E s, e : ops = <<Count(s, e)>> BY <1>7, <3>3, AmongIs DEF Count
      <3>4. CASE \E s : ops = <<Search(s)>> BY <1>7, <3>4, AmongIs DEF Search
      <3>5. CASE \E v, s : ops = <<Signal(v), Search(s)>>
        BY <1>7, <3>5, AmongIs DEF Search, Signal
      <3> QED BY <2>2, <3>1, <3>2, <3>3, <3>4, <3>5
    <2> QED BY <2>1, <2>3, TaskOp DEF CallNames, EndNames
  <1>8. Plainly(t, ops) BY <1>3, <1>6, <1>7 DEF Plainly, Inherits, Marks, Adds
  <1>9. /\ \A c \in Conn : SameUse(c)
        /\ SameBuffers /\ \A s \in Socket : sockets'[s].conn = sockets[s].conn
    BY <1>1, <1>2, SameConnsUse DEF SameConns
  <1> QED BY <1>2, <1>6, <1>7, <1>8, <1>9, PlainAll

-----------------------------------------------------------------------------
(* The operations that are plain *)

LEMMA FirstIs ==
    ASSUME Shape, NEW t \in Task, NEW ops, Steps(t, ops)
    PROVE  todo[t] # <<>> /\ todo[t][1] \in TaskOps /\ todo[t][1] \in Ops(t) /\ conn \in [Conn -> ConnType]
  <1>1. todo[t] # <<>> /\ conn \in [Conn -> ConnType] BY DEF Steps, Shape, DataTypes
  <1> QED BY <1>1, OpsAre

LEMMA FreeMboxOwners ==
    ASSUME Good, NEW t \in Task, NEW c \in Conn, OnConn(t, c), FreeMbox(t, c)
    PROVE  Owners'
  <1>1. /\ Shape /\ Shape' /\ Steps(t, <<>>) /\ todo[t][1] = Op("freembox", c)
        /\ conn' = [conn EXCEPT ![c].recv = FALSE] /\ UNCHANGED <<sockets, mbox>>
    BY FreeMboxIs DEF Good
  <1>2. conn \in [Conn -> ConnType] BY <1>1, FirstIs
  <1>3. SameBuffers /\ \A d \in Conn : SameUse(d)
    BY <1>1, <1>2 DEF SameBuffers, SameUse, ConnType
  <1>4. Plainly(t, <<>>) BY <1>1, AmongIs DEF Plainly, Op, Marks
  <1> QED BY <1>1, <1>3, <1>4, AmongIs, PlainAll DEF Op

LEMMA CopyOwners ==
    ASSUME Good, NEW t \in Task, NEW s \in Socket, OnSocket(t, s), Copy(t, s)
    PROVE  Owners'
  <1>1. /\ Shape /\ Shape' /\ Steps(t, <<>>) /\ todo[t][1].op = "copy"
        /\ \E rest \in BOOLEAN : sockets' = [sockets EXCEPT ![s].lastdata = rest]
        /\ UNCHANGED <<conn, mbox>>
    BY CopyIs DEF Good
  <1>2. \A r \in Socket : sockets'[r].conn = sockets[r].conn
    <2>1. sockets \in [Socket -> SocketType] BY <1>1 DEF Shape, DataTypes
    <2> QED BY <1>1, <2>1 DEF SocketType
  <1>3. SameBuffers /\ \A d \in Conn : SameUse(d) BY <1>1 DEF SameBuffers, SameUse
  <1>4. Plainly(t, <<>>) BY <1>1, AmongIs DEF Plainly, Marks
  <1> QED BY <1>1, <1>2, <1>3, <1>4, AmongIs, PlainAll

LEMMA AdoptOwners ==
    ASSUME Good, NEW t \in Task, NEW s \in Socket, OnSocket(t, s), AdoptEvents(t, s)
    PROVE  Owners'
  <1> DEFINE c == todo[t][1].c
  <1>1. /\ Shape /\ Shape' /\ Steps(t, <<Publish(c, s)>>) /\ todo[t][1] = Adopt(c, s)
        /\ sockets' = [sockets EXCEPT ![s].rcvevent = @ - 1 - conn[c].socket]
        /\ UNCHANGED <<conn, mbox>>
    BY AdoptIs DEF Good
  <1>2. \A r \in Socket : sockets'[r].conn = sockets[r].conn
    <2>1. sockets \in [Socket -> SocketType] BY <1>1 DEF Shape, DataTypes
    <2> QED BY <1>1, <2>1 DEF SocketType
  <1>3. SameBuffers /\ \A d \in Conn : SameUse(d) BY <1>1 DEF SameBuffers, SameUse
  <1>4. todo[t][1].op = "adopt" /\ todo[t][1].s = s BY <1>1 DEF Adopt
  <1>5. \A p \in Among(<<Publish(c, s)>>) : p.op = "publish" /\ p.c = c /\ p.s = s
    <2>1. \A p \in Among(<<Publish(c, s)>>) : p = Publish(c, s) BY AmongIs
    <2> QED BY <2>1 DEF Publish
  <1>6. Plainly(t, <<Publish(c, s)>>)
    <2>1. \A p \in Among(<<Publish(c, s)>>) : Inherits(todo[t][1], p)
      BY <1>4, <1>5 DEF Inherits, Marks, Others, Adds
    <2> QED BY <1>1, <1>4, <2>1 DEF Plainly, Marks
  <1> QED BY <1>1, <1>2, <1>3, <1>4, <1>5, <1>6, PlainAll

LEMMA PublishOwners ==
    ASSUME Good, NEW t \in Task, NEW s \in Socket, OnSocket(t, s), PublishSocket(t, s)
    PROVE  Owners'
  <1> DEFINE c == todo[t][1].c
  <1>1. /\ Shape /\ Shape' /\ Steps(t, <<>>) /\ c \in Conn /\ todo[t][1] = Publish(c, s)
        /\ conn' = [conn EXCEPT ![c].socket = s]
        /\ UNCHANGED <<sockets, mbox>>
    BY PublishIs DEF Good
  <1>2. conn \in [Conn -> ConnType] BY <1>1, FirstIs
  <1>3. SameBuffers /\ \A d \in Conn : SameUse(d)
    BY <1>1, <1>2 DEF SameBuffers, SameUse, ConnType
  <1>4. todo[t][1].op = "publish" BY <1>1 DEF Publish
  <1>5. Plainly(t, <<>>) BY <1>1, <1>4, AmongIs DEF Plainly, Marks
  <1> QED BY <1>1, <1>3, <1>4, <1>5, AmongIs, PlainAll

LEMMA FetchOwners ==
    ASSUME Good, NEW t \in Task, NEW c \in Conn, OnConn(t, c), Fetch(t, c)
    PROVE  Owners'
  <1>1. /\ Shape /\ Shape' /\ todo[t][1] = Op("fetch", c)
        /\ conn' = [conn EXCEPT ![c].recvmbox = Tail(@)]
        /\ \/ Steps(t, <<Event(c, "RCVMINUS"), Op("freembox", c)>>)
           \/ /\ todo[t][2].s \in Socket
              /\ Steps(t, Receiving(c, todo[t][2].s))
        /\ UNCHANGED <<sockets, mbox>>
    BY FetchIs DEF Good
  <1>2. PICK ops : /\ Steps(t, ops)
                   /\ \/ ops = <<Event(c, "RCVMINUS"), Op("freembox", c)>>
                      \/ \E s \in Socket : ops = Receiving(c, s)
    BY <1>1
  <1>3. conn \in [Conn -> ConnType] /\ todo[t][1] \in TaskOps BY <1>1, <1>2, FirstIs
  <1>4. SameBuffers /\ \A d \in Conn : SameUse(d)
    BY <1>1, <1>3 DEF SameBuffers, SameUse, ConnType
  <1>5. todo[t][1].op = "fetch" /\ todo[t][1].c = c /\ HasC(todo[t][1]) BY <1>1 DEF Op, HasC
  <1>6. ASSUME NEW p \in Among(ops)
        PROVE  /\ p.op \in {"event", "freembox", "ask", "await", "copy"}
               /\ p.op # "copy" => p.c = c
               /\ p.op = "ask" => p.type = "RECV"
    <2>1. CASE ops = <<Event(c, "RCVMINUS"), Op("freembox", c)>>
      <3>1. p = Event(c, "RCVMINUS") \/ p = Op("freembox", c) BY <1>6, <2>1, AmongIs
      <3> QED BY <3>1 DEF Event, Op
    <2>2. CASE \E s \in Socket : ops = Receiving(c, s)
      <3>1. PICK s \in Socket : ops = Receiving(c, s) BY <2>2
      <3>2. /\ Len(ops) = 4 /\ ops[1] = Event(c, "RCVMINUS") /\ ops[2] = Asks(c, "RECV")
            /\ ops[3] = Op("await", c) /\ ops[4] = [op |-> "copy", s |-> s]
        BY <3>1, ReceivingIs
      <3>3. PICK i \in 1 .. Len(ops) : p = ops[i] BY <1>6 DEF Among
      <3>4. i \in {1, 2, 3, 4} BY <3>2, <3>3
      <3>5. \/ p = Event(c, "RCVMINUS") \/ p = Asks(c, "RECV") \/ p = Op("await", c)
            \/ p = [op |-> "copy", s |-> s]
        BY <3>2, <3>3, <3>4
      <3> QED BY <3>5 DEF Event, Op, Asks
    <2> QED BY <1>2, <2>1, <2>2
  <1>7. ASSUME NEW p \in Among(ops) PROVE Inherits(todo[t][1], p)
    <2>1. p \in TaskOps BY <1>2, <1>7 DEF Steps, Among
    <2>2. p.op = "copy" => ~HasC(p) BY <2>1, TaskOp DEF CallNames
    <2> QED BY <1>5, <1>6, <1>7, <2>2 DEF Inherits, Marks, Others, Adds
  <1>8. Plainly(t, ops) BY <1>2, <1>5, <1>7 DEF Plainly, Marks
  <1>9. \A p \in Among(ops) : p.op \notin {"room", "freesem"} /\ ~(p.op = "ask" /\ p.type = "WRITE")
    BY <1>6
  <1> QED BY <1>1, <1>4, <1>5, <1>8, <1>9, PlainAll

-----------------------------------------------------------------------------
(* netconn_write, and the requests *)

LEMMA FirstFollows ==
    ASSUME Shape, NEW t \in Task, NEW ops, Steps(t, ops)
    PROVE  /\ todo[t][1].op \notin EndNames /\ Follows(todo[t][1], todo[t][2])
           /\ todo[t][2] \in TaskOps /\ Len(todo[t]) \in Nat /\ Len(todo[t]) > 1
  <1>1. /\ todo[t] \in Seq(TaskOps) /\ Ordered(todo[t]) /\ Len(todo[t]) \in Nat /\ Len(todo[t]) > 1
    BY DEF Steps, Shape, OpTypes, Grammar
  <1>2. 1 \in 1 .. Len(todo[t]) /\ 1 # Len(todo[t]) BY <1>1, MoreThanOne, Zenon
  <1>3. 1 \in 1 .. Len(todo[t]) - 1 /\ 1 + 1 = 2 /\ 2 \in 1 .. Len(todo[t])
    BY <1>1, BeforeLast, Zenon
  <1> QED BY <1>1, <1>2, <1>3 DEF Ordered

LEMMA SndbufIs ==
    ASSUME Good
    PROVE  conn \in [Conn -> ConnType] /\ \A c \in Conn : conn[c].sem \in Nat \cup {-1} /\ conn[c].sndbuf \in Room
  BY DEF Good, Shape, DataTypes, Owners, WriteOK, Ranges

LEMMA NotOther ==
    ASSUME Good, NEW t \in Task, NEW c, Uses(t, c), NEW u \in Task, u # t
    PROVE  ~Uses(u, c)
  BY OneUser

LEMMA FreeSemOwners ==
    ASSUME Good, NEW t \in Task, NEW c \in Conn, OnConn(t, c), FreeSem(t, c)
    PROVE  Owners'
  <1>1. /\ Shape /\ Shape' /\ Steps(t, <<>>) /\ todo[t][1] = Op("freesem", c)
        /\ conn' = [conn EXCEPT ![c].sem = -1] /\ UNCHANGED <<sockets, mbox>>
    BY FreeSemIs DEF Good
  <1>2. conn \in [Conn -> ConnType] /\ todo[t][1] \in Ops(t) /\ todo[t] # <<>>
    BY <1>1, FirstIs
  <1>3. /\ \A d \in Conn : SameUse(d) /\ conn'[d].reply = conn[d].reply /\ conn'[d].sndbuf = conn[d].sndbuf
        /\ \A d \in Conn : d # c => conn'[d].sem = conn[d].sem
        /\ conn'[c].sem = -1
    BY <1>1, <1>2 DEF SameUse, ConnType
  <1>4. todo[t][1].op = "freesem" /\ todo[t][1].c = c BY <1>1 DEF Op
  <1>5. Plainly(t, <<>>) BY <1>1, <1>4, AmongIs DEF Plainly, Marks
  <1>6. Homes' /\ QueueOK' /\ UsesOK' /\ OrderOK' /\ TcpipOK' /\ SameTasks(t)
    BY <1>1, <1>3, <1>5, PlainOwners
  <1>7. DeleteOK' /\ RequestsOK' BY <1>1, <1>3, <1>4, <1>5, PlainDelete, PlainRequests
  <1>8. todo[t][2].op = "return" /\ "freesem" \notin EndNames
    BY <1>1, <1>4, FirstFollows DEF EndNames, Follows
  <1>9. \A p \in Among(<<>>) \cup Rest(t) : p.op = "return"
    BY <1>1, <1>2, <1>4, <1>8, ReturnLast, AmongIs
  <1>10. SemOK(t)' BY <1>1, <1>9, SemSteps
  <1>11. AskOK(t)' BY <1>1, AskSteps DEF Good, Owners, WriteOK
  <1>12. Uses(t, c) BY <1>1, <1>2, <1>4, CallNamesUse DEF CallNames
  <1>13. \A u \in Task \ {t}, d \in Conn : Uses(u, d) => d # c BY <1>12, NotOther
  <1>14. Ranges' BY <1>3, SndbufIs DEF Ranges
  <1>15. \A i \in 1 .. Len(mbox) : mbox[i].c \in Conn BY <1>1, MboxIs
  <1>16. WriteOK BY DEF Good, Owners
  <1>17. WriteOK' BY <1>1, <1>3, <1>6, <1>10, <1>11, <1>13, <1>14, <1>15, <1>16, WriteKept
  <1> QED BY <1>6, <1>7, <1>17 DEF Owners

LEMMA WriteOwners ==
    ASSUME Good, NEW t \in Task, NEW c \in Conn, OnConn(t, c), Write(t, c)
    PROVE  Owners'
  <1>1. /\ Shape /\ Shape' /\ Steps(t, <<Op("room", c)>>) /\ todo[t][1] = Op("write", c)
        /\ conn' = [conn EXCEPT ![c].sem = IF @ = -1 THEN 0 ELSE @] /\ UNCHANGED <<sockets, mbox>>
    BY WriteIs DEF Good
  <1>2. conn \in [Conn -> ConnType] /\ todo[t][1] \in Ops(t) /\ todo[t] # <<>> /\ todo[t][1] \in TaskOps
    BY <1>1, FirstIs
  <1>3. /\ \A d \in Conn : SameUse(d) /\ conn'[d].reply = conn[d].reply /\ conn'[d].sndbuf = conn[d].sndbuf
        /\ \A d \in Conn : d # c => conn'[d].sem = conn[d].sem
        /\ conn'[c].sem = IF conn[c].sem = -1 THEN 0 ELSE conn[c].sem
    BY <1>1, <1>2 DEF SameUse, ConnType
  <1>4. todo[t][1].op = "write" /\ todo[t][1].c = c /\ HasC(todo[t][1]) BY <1>1 DEF Op, HasC
  <1>5. \A p \in Among(<<Op("room", c)>>) : p.op = "room" /\ p.c = c
    <2>1. \A p \in Among(<<Op("room", c)>>) : p = Op("room", c) BY AmongIs
    <2> QED BY <2>1 DEF Op
  <1>6. Plainly(t, <<Op("room", c)>>)
    <2>1. \A p \in Among(<<Op("room", c)>>) : Inherits(todo[t][1], p)
      BY <1>4, <1>5 DEF Inherits, Marks, Others, Adds
    <2> QED BY <1>1, <1>4, <2>1 DEF Plainly, Marks
  <1>7. Homes' /\ QueueOK' /\ UsesOK' /\ OrderOK' /\ TcpipOK' /\ SameTasks(t)
    BY <1>1, <1>3, <1>6, PlainOwners
  <1>8. DeleteOK' /\ RequestsOK' BY <1>1, <1>3, <1>4, <1>6, PlainDelete, PlainRequests
  <1>9. todo[t][2].op = "return" /\ "write" \notin EndNames
    BY <1>1, <1>4, FirstFollows DEF EndNames, Follows
  <1>10. \A p \in Rest(t) : p.op = "return" BY <1>1, <1>2, <1>4, <1>9, ReturnLast
  <1>11. conn'[c].sem # -1 /\ \A d \in Conn : conn[d].sem # -1 => conn'[d].sem # -1 BY <1>3
  <1>12. \A p \in Among(<<Op("room", c)>>) \cup Rest(t) : p.op \in {"room", "freesem"} => conn'[p.c].sem # -1
    BY <1>5, <1>10, <1>11
  <1>13. SemOK(t)' BY <1>1, <1>12, SemSteps
  <1>14. AskOK(t)'
    <2>1. \A k \in 1 .. Len(<<Op("room", c)>>) : <<Op("room", c)>>[k].op # "ask"
      BY <1>5 DEF Among
    <2> QED BY <1>1, <2>1, AskSteps DEF Good, Owners, WriteOK
  <1>15. Ranges' BY <1>3, SndbufIs DEF Ranges
  <1>16. WriteOK /\ \A i \in 1 .. Len(mbox) : mbox[i].c \in Conn
    BY <1>1, MboxIs DEF Good, Owners
  <1>17. WriteOK' BY <1>1, <1>3, <1>7, <1>11, <1>13, <1>14, <1>15, <1>16, WriteKept
  <1> QED BY <1>7, <1>8, <1>17 DEF Owners

(* The tasks do nothing, and no socket gets another netconn. *)
LEMMA TasksStill ==
    ASSUME Shape, UsesOK, OrderOK, \A u \in Task : todo'[u] = todo[u],
           \A s \in Socket : sockets'[s].conn = sockets[s].conn
    PROVE  SameMarks /\ SameSpots /\ UsesOK' /\ OrderOK'
  <1>1. \A u \in Task : Ops(u)' = Ops(u) /\ Sock(u)' = Sock(u) /\ (InCall(u)' <=> InCall(u))
    BY SameOps DEF Sock, InCall
  <1>2. SameMarks BY <1>1 DEF SameMarks
  <1>3. SameSpots BY <1>2, SpotsSame
  <1>4. ASSUME NEW u \in Task, NEW o \in Ops(u)' PROVE Use(u, o)'
    <2>1. o \in Ops(u) /\ Use(u, o) BY <1>1, <1>4 DEF UsesOK
    <2>2. o.op \in Adds => o.s \in Socket BY <2>1, UseOf
    <2>3. o.op \in Adds => sockets'[o.s].conn = sockets[o.s].conn /\ Unused(o.s)'
      <3>1. ASSUME NEW s \in Socket, s = o.s, o.op \in Adds PROVE Unused(s)'
        BY <1>1, <2>1, <3>1 DEF Use, Unused
      <3> QED BY <2>2, <3>1
    <2> QED BY <1>3, <2>1, <2>3, UseSame
  <1>5. UsesOK' BY <1>4 DEF UsesOK
  <1>6. OrderOK'
    <2>1. \A u \in Task : ClosesLast(u)' BY <1>1 DEF OrderOK, ClosesLast, Closes, Op
    <2> QED BY <2>1 DEF OrderOK, FreesLast, HasC
  <1> QED BY <1>2, <1>3, <1>5, <1>6

LEMMA WaitsOwners ==
    ASSUME Good, NEW t \in Task, NEW c \in Conn, todo[t] # <<>>, todo[t][1] = Op("room", c),
           conn[c].sndbuf = 0, conn[c].sem # 0, conn' = [conn EXCEPT ![c].sem = @ - 1],
           UNCHANGED <<todo, sockets, mbox>>
    PROVE  Owners'
  <1>1. Shape /\ Owners /\ conn \in [Conn -> ConnType] /\ todo[t][1] \in Ops(t)
    BY OpsAre DEF Good, Shape, DataTypes
  <1>2. /\ \A d \in Conn : SameUse(d) /\ conn'[d].reply = conn[d].reply /\ conn'[d].sndbuf = conn[d].sndbuf
        /\ \A d \in Conn : d # c => conn'[d].sem = conn[d].sem
        /\ conn'[c].sem = conn[c].sem - 1
    BY <1>1 DEF SameUse, ConnType
  <1>3. SameTasks(t) /\ \A u \in Task \cup {Tcpip} : Ops(u)' = Ops(u)
    BY SameOps DEF SameTasks
  <1>4. SameSpots /\ UsesOK' /\ OrderOK' BY <1>1, TasksStill DEF Owners
  <1>5. Homes'
    <2>1. Queue' = Queue /\ \A d \in Conn : conn'[d].used = conn[d].used
      BY <1>2, SocketsAssumption DEF Queue, SameUse
    <2> QED BY <1>1, <1>3, <1>4, <2>1, HomesSame DEF Owners
  <1>6. QueueOK' BY <1>1, <1>2, <1>4, QueueSame DEF Owners
  <1>7. TcpipOK'
    <2>1. \A o \in Ops(Tcpip) : HasC(o) => SameUse(o.c) BY <1>1, <1>2, TcpipOpsAre
    <2> QED BY <1>1, <2>1, TcpipSame DEF Owners, SameUse
  <1>8. todo[t][1].op = "room" /\ todo[t][1].c = c BY DEF Op
  <1>9. RequestsOK'
    <2>1. \A d \in Conn : ~Awaits(t, d) BY <1>8 DEF Awaits, Op
    <2> QED BY <1>1, <1>2, <1>3, <2>1, RequestsSame DEF Owners, SameUse
  <1>10. DeleteOK'
    <2>1. \A d \in Conn : (Cleared(d)' <=> Cleared(d)) /\ conn'[d].acceptmbox = conn[d].acceptmbox
      BY <1>2, <1>3, ClearedSame DEF SameUse
    <2>2. \A d \in Conn : Gone(t, d)' <=> Gone(t, d) BY SameOps
    <2> QED BY <1>1, <1>3, <2>1, <2>2, DeleteKept DEF Owners, DeleteOK
  <1>11. conn[c].sem # -1 /\ conn[c].sem \in Nat \cup {-1} /\ WriteOK
    BY <1>1, <1>8, SndbufIs DEF Owners, WriteOK, SemOK
  <1>12. conn'[c].sem \in Nat BY <1>2, <1>11
  <1>13. Ranges' /\ \A d \in Conn : conn[d].sem # -1 => conn'[d].sem # -1
    BY <1>2, <1>11, <1>12, SndbufIs DEF Ranges
  <1>14. SemOK(t)'
    <2>1. ASSUME NEW o \in Ops(t), o.op \in {"room", "freesem"} PROVE conn'[o.c].sem # -1
      <3>1. o.c \in Conn BY <1>1, <2>1, OpsAre, TaskOp DEF CallNames
      <3> QED BY <1>11, <1>13, <2>1, <3>1 DEF WriteOK, SemOK
    <2> QED BY <1>3, <2>1 DEF SemOK
  <1>15. AskOK(t)'
    <2>1. ASSUME NEW i \in 1 .. Len(todo[t]), todo[t][i].op = "ask", todo[t][i].type = "WRITE"
          PROVE  i = 1 /\ conn'[todo[t][i].c].sndbuf # 0
      <3>1. todo[t][i] \in Ops(t) BY DEF Ops, Among
      <3>2. todo[t][i].c \in Conn BY <1>1, <2>1, <3>1, OpsAre, TaskOp
      <3> QED BY <1>2, <1>11, <2>1, <3>2 DEF WriteOK, AskOK
    <2> QED BY <2>1 DEF AskOK
  <1>16. \A i \in 1 .. Len(mbox) : mbox[i].c \in Conn BY <1>1, MboxIs
  <1>17. WriteOK' BY <1>1, <1>2, <1>3, <1>11, <1>13, <1>14, <1>15, <1>16, WriteKept
  <1> QED BY <1>4, <1>5, <1>6, <1>7, <1>9, <1>10, <1>17 DEF Owners

LEMMA WritesOwners ==
    ASSUME Good, Shape', NEW t \in Task, NEW c \in Conn, todo[t][1] = Op("room", c), conn[c].sndbuf # 0,
           Steps(t, Writing(c)), UNCHANGED <<conn, sockets, mbox>>
    PROVE  Owners'
  <1>1. Shape /\ Owners /\ conn \in [Conn -> ConnType] /\ todo[t][1] \in Ops(t) /\ todo[t] # <<>>
    BY FirstIs DEF Good
  <1>2. todo[t][1].op = "room" /\ todo[t][1].c = c /\ HasC(todo[t][1]) BY DEF Op, HasC
  <1>3. SameBuffers /\ \A d \in Conn : SameUse(d) BY DEF SameBuffers, SameUse
  <1> DEFINE q == Writing(c)
  <1>4. q[1] = Asks(c, "WRITE") /\ q[2] = Op("await", c) /\ q[3] = Op("freesem", c) /\ Len(q) = 3
    BY WritingIs
  <1> HIDE DEF q
  <1>5. ASSUME NEW k \in 1 .. Len(q) PROVE (k = 1 /\ q[k] = Asks(c, "WRITE")) \/ q[k] = Op("await", c) \/ q[k] = Op("freesem", c)
    <2>1. k = 1 \/ k = 2 \/ k = 3 BY <1>4
    <2> QED BY <1>4, <2>1
  <1>6. \A p \in Among(q) : p.op \in {"ask", "await", "freesem"} /\ p.c = c
    BY <1>5 DEF Among, Asks, Op
  <1>7. Plainly(t, q)
    <2>1. \A p \in Among(q) : Inherits(todo[t][1], p)
      BY <1>2, <1>6 DEF Inherits, Marks, Others, Adds
    <2> QED BY <1>2, <2>1 DEF Plainly, Marks, q
  <1>8. Homes' /\ QueueOK' /\ UsesOK' /\ OrderOK' /\ TcpipOK' /\ SameTasks(t)
    BY <1>3, <1>7, PlainOwners
  <1>9. DeleteOK' /\ RequestsOK'
    BY <1>2, <1>3, <1>7, PlainDelete, PlainRequests DEF SameBuffers
  <1>10. WriteOK BY <1>1 DEF Owners
  <1>11. conn[c].sem # -1 BY <1>1, <1>2, <1>10 DEF WriteOK, SemOK
  <1>12. Steps(t, q) BY DEF q
  <1>13. SemOK(t)'
    <2>1. \A p \in Rest(t) : p \in Ops(t) BY <1>1, OpsAre
    <2>2. \A p \in Among(q) \cup Rest(t) : p.op \in {"room", "freesem"} => conn'[p.c].sem # -1
      BY <1>6, <1>10, <1>11, <2>1 DEF WriteOK, SemOK
    <2> QED BY <1>1, <1>12, <2>2, SemSteps
  <1>14. AskOK(t)'
    <2>1. \A k \in 1 .. Len(q) : q[k].op = "ask" => k = 1 /\ q[k].c = c BY <1>5 DEF Op, Asks
    <2> QED BY <1>1, <1>10, <1>12, <2>1, AskSteps DEF WriteOK
  <1>15. Ranges' BY <1>10 DEF WriteOK, Ranges
  <1>16. WriteOK' BY <1>1, <1>8, <1>10, <1>13, <1>14, <1>15, WriteKept
  <1> QED BY <1>8, <1>9, <1>16 DEF Owners

LEMMA WaitForRoomOwners ==
    ASSUME Good, NEW t \in Task, NEW c \in Conn, OnConn(t, c), WaitForRoom(t, c)
    PROVE  Owners'
  <1>1. Shape BY DEF Good
  <1>2. /\ Shape' /\ todo[t][1] = Op("room", c) /\ UNCHANGED <<sockets, mbox>>
        /\ \/ /\ conn[c].sndbuf = 0 /\ conn[c].sem # 0
              /\ conn' = [conn EXCEPT ![c].sem = @ - 1] /\ UNCHANGED todo
           \/ conn[c].sndbuf # 0 /\ Steps(t, Writing(c)) /\ UNCHANGED conn
    BY <1>1, WaitForRoomIs
  <1>3. todo[t] # <<>> BY DEF OnConn
  <1> QED BY <1>2, <1>3, WaitsOwners, WritesOwners

(* A request is netconn_delete's if its netconn is freed afterwards. *)
LEMMA AskKind ==
    ASSUME Shape, NEW t \in Task, todo[t] # <<>>, todo[t][1].op = "ask", NEW c, todo[t][1].c = c
    PROVE  todo[t][1].type = "DELCONN" <=> Frees(t, c)
  <1> DEFINE q == todo[t]
             n == Len(q)
  <1>1. q \in Seq(TaskOps) /\ Ordered(q) /\ n \in Nat /\ n > 0
    BY DEF Shape, OpTypes, Grammar
  <1>2. q[1].op = "ask" /\ q[1].c = c OBVIOUS
  <1> HIDE DEF q
  <1>3. /\ \A i \in 1 .. n : q[i].op \in EndNames <=> i = n
        /\ \A i \in 1 .. n - 1 : Follows(q[i], q[i + 1])
        /\ \A i \in 1 .. n - 2 : Drained(q[i], q[i + 2])
    BY <1>1 DEF Ordered
  <1> HIDE DEF n
  <1>4. 1 # n /\ Follows(q[1], q[2])
    <2>1. 1 \in 1 .. n BY <1>1
    <2>2. 1 # n BY <1>2, <1>3, <2>1 DEF EndNames
    <2>3. 1 \in 1 .. n - 1 /\ 1 + 1 = 2 BY <1>1, <2>2
    <2> QED BY <1>3, <2>2, <2>3
  <1>5. q[2] = Op("await", c) /\ q[2].op = "await" /\ q[2].c = c
    BY <1>2, <1>4 DEF Follows, Op
  <1>6. 2 # n /\ Follows(q[2], q[3]) /\ Drained(q[1], q[3]) /\ 3 \in 1 .. n
    <2>1. 2 \in 1 .. n BY <1>1, <1>4
    <2>2. 2 # n BY <1>3, <1>5, <2>1 DEF EndNames
    <2>3. 2 \in 1 .. n - 1 /\ 2 + 1 = 3 /\ 1 \in 1 .. n - 2 /\ 1 + 2 = 3 /\ 3 \in 1 .. n
      BY <2>1, <2>2, <1>1
    <2> QED BY <1>3, <2>2, <2>3
  <1>7. q[3] \in {Op("drain", c), Op("freesem", c)} \/ q[3].op = "copy"
    BY <1>5, <1>6 DEF Follows
  <1>8. q[3].op \in {"drain", "freesem", "copy"} /\ (q[3].op = "drain" => q[3].c = c)
    BY <1>7 DEF Op
  <1>9. 3 # n /\ Follows(q[3], q[4]) /\ 4 \in 1 .. n
    <2>1. 3 # n BY <1>3, <1>6, <1>8 DEF EndNames
    <2>2. 3 \in 1 .. n - 1 /\ 3 + 1 = 4 /\ 4 \in 1 .. n BY <1>1, <1>6, <2>1
    <2> QED BY <1>3, <2>1, <2>2
  <1>10. ASSUME q[1].type = "DELCONN" PROVE Frees(t, c)
    <2>1. q[3].op = "drain" BY <1>2, <1>6, <1>10 DEF Drained
    <2>2. q[4] = Op("free", c) BY <1>8, <1>9, <2>1 DEF Follows
    <2> QED BY <1>9, <2>2 DEF Frees, Ops, Among, q, n
  <1>11. ASSUME q[1].type # "DELCONN", Frees(t, c) PROVE FALSE
    <2>1. q[3].op \in {"freesem", "copy"} BY <1>2, <1>6, <1>8, <1>11 DEF Drained
    <2>2. q[4].op = "return" BY <1>9, <2>1 DEF Follows
    <2>3. n = 4 BY <1>3, <1>9, <2>2 DEF EndNames
    <2>4. PICK i \in 1 .. n : q[i] = Op("free", c) BY <1>11 DEF Frees, Ops, Among, q, n
    <2>5. q[i].op = "free" BY <2>4 DEF Op
    <2>6. i = 1 \/ i = 2 \/ i = 3 \/ i = 4 BY <2>3, <2>4
    <2> QED BY <1>2, <1>5, <2>1, <2>2, <2>5, <2>6
  <1> QED BY <1>10, <1>11 DEF q

(* What a task waits for an answer about, no other task works on. *)
LEMMA AskedAwaits ==
    ASSUME Good, NEW i \in 1 .. Len(mbox)
    PROVE  \E u \in Task : /\ Awaits(u, mbox[i].c) /\ Uses(u, mbox[i].c)
                           /\ mbox[i].type = "DELCONN" <=> Frees(u, mbox[i].c)
  <1>1. RequestOK(mbox[i]) /\ Shape BY DEF Good, Owners, RequestsOK
  <1>2. PICK u \in Task : Awaits(u, mbox[i].c) /\ (mbox[i].type = "DELCONN" <=> Frees(u, mbox[i].c))
    BY <1>1 DEF RequestOK
  <1>3. Uses(u, mbox[i].c) BY <1>1, <1>2, AwaitsUse
  <1> QED BY <1>2, <1>3

LEMMA AskOwners ==
    ASSUME Good, NEW t \in Task, NEW c \in Conn, OnConn(t, c), Ask(t, c)
    PROVE  Owners'
  <1> DEFINE m == [type |-> todo[t][1].type, c |-> c]
  <1>1. /\ Shape /\ Shape' /\ Steps(t, <<>>) /\ Owners
        /\ todo[t][1].op = "ask" /\ todo[t][1].c = c
        /\ mbox' = Append(mbox, m) /\ UNCHANGED <<sockets, conn>>
    BY AskIs DEF Good, Owners
  <1>2. todo[t] # <<>> /\ todo[t][1] \in Ops(t) BY <1>1, FirstIs
  <1>3. SameBuffers /\ \A d \in Conn : SameUse(d) BY <1>1 DEF SameBuffers, SameUse
  <1>4. Plainly(t, <<>>) BY <1>1, AmongIs DEF Plainly, Marks
  <1>5. Homes' /\ QueueOK' /\ UsesOK' /\ OrderOK' /\ TcpipOK' /\ SameTasks(t) /\ SameMarks /\ Ops(Tcpip)' = Ops(Tcpip)
    BY <1>1, <1>3, <1>4, PlainOwners
  <1>6. DeleteOK' BY <1>1, <1>3, <1>4, PlainDelete
  <1>7. Uses(t, c) BY <1>1, <1>2, CallNamesUse
  <1>8. \A d : ~Awaits(t, d) BY <1>1 DEF Awaits, Op
  <1>9. \A u \in Task : ~Awaits(u, c) BY <1>1, <1>7, <1>8, AwaitsUse, OneUser
  <1>10. ~Asked(c) /\ ~Answered(c)
    <2>1. ~Answered(c) BY <1>9 DEF Answered
    <2>2. ASSUME NEW i \in 1 .. Len(mbox), mbox[i].c = c PROVE FALSE
      BY <1>9, <2>2, AskedAwaits
    <2> QED BY <2>1, <2>2 DEF Asked
  <1>11. /\ Len(mbox') = Len(mbox) + 1 /\ Len(mbox) \in Nat /\ mbox'[Len(mbox) + 1] = m
         /\ \A i \in 1 .. Len(mbox) : mbox'[i] = mbox[i]
         /\ \A i \in 1 .. Len(mbox') : i \in 1 .. Len(mbox) \/ i = Len(mbox) + 1
    <2>1. mbox \in Seq(Message) BY <1>1 DEF Shape, DataTypes
    <2> QED BY <1>1, <2>1
  <1>12. m.c = c /\ m.type = todo[t][1].type OBVIOUS
  <1> HIDE DEF m
  <1>13. \A d \in Conn : Asked(d)' <=> Asked(d) \/ d = c
    <2>1. \A d : (\E i \in 1 .. Len(mbox') : mbox'[i].c = d) <=> Asked(d) \/ d = c
      <3>1. Len(mbox) + 1 \in 1 .. Len(mbox') /\ \A i \in 1 .. Len(mbox) : i \in 1 .. Len(mbox')
        BY <1>11
      <3> QED BY <1>11, <1>12, <3>1 DEF Asked
    <2> QED BY <2>1 DEF Asked
  <1>14. \A u \in Task, d \in Conn : Awaits(u, d) => Awaits(u, d)' /\ (Frees(u, d)' <=> Frees(u, d))
    BY <1>5, <1>8, SameOps DEF SameTasks
  <1>15. \A d \in Conn : Answered(d) => Answered(d)' BY <1>1, <1>14 DEF Answered
  <1>16. \A i, j \in 1 .. Len(mbox') : mbox'[i].c = mbox'[j].c => i = j
    <2>1. \A i, j \in 1 .. Len(mbox) : mbox[i].c = mbox[j].c => i = j
      BY <1>1 DEF Owners, RequestsOK
    <2>2. \A i \in 1 .. Len(mbox) : mbox[i].c # c BY <1>10 DEF Asked
    <2> QED BY <1>11, <1>12, <2>1, <2>2
  <1>17. ASSUME NEW i \in 1 .. Len(mbox), NEW x, x = mbox[i] PROVE RequestOK(x)'
    <2>1. PICK u \in Task : Awaits(u, x.c) /\ (x.type = "DELCONN" <=> Frees(u, x.c))
      BY <1>17, AskedAwaits
    <2>2. x.c \in Conn BY <1>1, <1>17, MboxIs
    <2> QED BY <1>14, <2>1, <2>2 DEF RequestOK, Awaits, Frees, Op
  <1>18. ASSUME NEW x, x = m PROVE RequestOK(x)'
    <2>1. todo'[t][1] = Op("await", c)
      <3>1. todo[t][2] = Op("await", c) BY <1>1, FirstFollows DEF Follows
      <3> QED BY <1>1, <3>1, StepsOps
    <2>2. Awaits(t, c)'
      <3>1. todo'[t] # <<>> BY <1>1, StepsOps
      <3> QED BY <2>1, <3>1 DEF Awaits, Op
    <2>3. x.type = "DELCONN" <=> Frees(t, c) BY <1>1, <1>2, <1>12, <1>18, AskKind
    <2>4. Frees(t, c)' <=> Frees(t, c)
      <3>1. Op("free", c).op \in Marks BY DEF Op, Marks
      <3>2. Op("free", c) \in Ops(t)' <=> Op("free", c) \in Ops(t)
        BY <1>5, <3>1 DEF SameMarks
      <3> QED BY <3>2 DEF Frees, Op
    <2> QED BY <1>12, <1>18, <2>2, <2>3, <2>4 DEF RequestOK, Awaits, Frees, Op
  <1>19. ASSUME NEW i \in 1 .. Len(mbox') PROVE RequestOK(mbox[i])' BY <1>11, <1>17, <1>18
  <1>20. ASSUME NEW d \in Conn
         PROVE  /\ Op("answer", d) \in Ops(Tcpip)' => ~Asked(d)' /\ conn'[d].reply = 0 /\ Answered(d)'
                /\ conn'[d].reply # 0 => conn'[d].reply = 1 /\ ~Asked(d)' /\ Answered(d)'
    BY <1>1, <1>5, <1>10, <1>13, <1>15 DEF Owners, RequestsOK
  <1>21. RequestsOK' BY <1>16, <1>19, <1>20 DEF RequestsOK, Op
  <1>22. WriteOK BY <1>1 DEF Owners
  <1>23. SemOK(t)'
    <2>1. \A p \in Rest(t) : p \in Ops(t) BY <1>1, <1>2, OpsAre
    <2>2. \A p \in Among(<<>>) \cup Rest(t) : p.op \in {"room", "freesem"} => conn'[p.c].sem # -1
      BY <1>1, <1>22, <2>1, AmongIs DEF WriteOK, SemOK
    <2> QED BY <1>1, <2>2, SemSteps
  <1>24. AskOK(t)' BY <1>1, <1>22, AskSteps DEF WriteOK
  <1>25. Ranges' BY <1>1, <1>22 DEF WriteOK, Ranges
  <1>26. \A i \in 1 .. Len(mbox') : mbox'[i].type = "WRITE" => conn'[mbox'[i].c].sndbuf # 0
    <2>1. m.type = "WRITE" => conn[c].sndbuf # 0
      <3>1. 1 \in 1 .. Len(todo[t]) BY <1>1, FirstFollows
      <3> QED BY <1>1, <1>12, <1>22, <3>1 DEF WriteOK, AskOK
    <2> QED BY <1>1, <1>11, <1>12, <1>22, <2>1 DEF WriteOK
  <1>27. WriteOK' BY <1>1, <1>5, <1>22, <1>23, <1>24, <1>25, <1>26, WriteBy
  <1> QED BY <1>5, <1>6, <1>21, <1>27 DEF Owners

LEMMA AwaitOwners ==
    ASSUME Good, NEW t \in Task, NEW c \in Conn, OnConn(t, c), Await(t, c)
    PROVE  Owners'
  <1>1. /\ Shape /\ Shape' /\ Steps(t, <<>>) /\ Owners /\ todo[t][1] = Op("await", c)
        /\ conn' = [conn EXCEPT ![c].reply = @ - 1] /\ UNCHANGED <<sockets, mbox>>
    BY AwaitIs DEF Good, Owners
  <1>2. todo[t] # <<>> /\ todo[t][1] \in Ops(t) /\ conn \in [Conn -> ConnType]
    BY <1>1, FirstIs
  <1>3. todo[t][1].op = "await" /\ todo[t][1].c = c /\ Awaits(t, c)
    BY <1>1, <1>2 DEF Op, Awaits
  <1>4. conn[c].reply # 0 BY <1>2, <1>3 DEF OnConn, Blocked, Doing, Next1
  <1>5. /\ conn[c].reply = 1 /\ ~Asked(c) /\ Answered(c) /\ Op("answer", c) \notin Ops(Tcpip)
    BY <1>1, <1>4 DEF Owners, RequestsOK
  <1>6. Uses(t, c) BY <1>1, <1>3, AwaitsUse
  <1>7. Frees(t, c) => conn[c].pcb = NULL
    <2>1. PICK u \in Task : Awaits(u, c) /\ (Frees(u, c) => conn[c].pcb = NULL)
      BY <1>5 DEF Answered
    <2>2. u = t BY <1>1, <1>6, <2>1, AwaitsUse, OneUser
    <2> QED BY <2>1, <2>2
  <1>8. /\ \A d \in Conn : SameUse(d) /\ conn'[d].sndbuf = conn[d].sndbuf /\ conn'[d].sem = conn[d].sem
        /\ \A d \in Conn : d # c => conn'[d].reply = conn[d].reply
        /\ conn'[c].reply = 0
    <2>1. conn'[c].reply = conn[c].reply - 1 BY <1>1, <1>2 DEF ConnType
    <2> QED BY <1>1, <1>2, <1>5, <2>1 DEF SameUse, ConnType
  <1>9. Plainly(t, <<>>) BY <1>1, <1>3, AmongIs DEF Plainly, Marks
  <1>10. /\ Homes' /\ QueueOK' /\ UsesOK' /\ OrderOK' /\ TcpipOK' /\ SameTasks(t) /\ SameMarks
         /\ Ops(Tcpip)' = Ops(Tcpip)
    BY <1>1, <1>8, <1>9, PlainOwners
  <1>11. WriteOK' BY <1>1, <1>8, AmongIs, PlainWrite
  <1>12. \A d \in Conn : Awaits(t, d) => d = c BY <1>3 DEF Awaits, Op
  <1>13. \A u \in Task, d \in Conn : Awaits(u, d) /\ d # c =>
             u # t /\ Awaits(u, d)' /\ (Frees(u, d)' <=> Frees(u, d))
    BY <1>10, <1>12, SameOps DEF SameTasks
  <1>14. \A d \in Conn : d # c /\ Answered(d) => Answered(d)'
    BY <1>8, <1>13 DEF Answered, SameUse
  <1>15. ASSUME NEW i \in 1 .. Len(mbox), NEW m, m = mbox[i] PROVE RequestOK(m)'
    <2>1. PICK u \in Task : Awaits(u, m.c) /\ (m.type = "DELCONN" <=> Frees(u, m.c))
      BY <1>15, AskedAwaits
    <2>2. m.c \in Conn /\ m.c # c BY <1>1, <1>5, <1>15, MboxIs DEF Asked
    <2> QED BY <1>13, <2>1, <2>2 DEF RequestOK, Awaits, Frees, Op
  <1>16. \A d : Asked(d)' <=> Asked(d) BY <1>1 DEF Asked
  <1>17. ASSUME NEW d \in Conn
         PROVE  /\ Op("answer", d) \in Ops(Tcpip)' => ~Asked(d)' /\ conn'[d].reply = 0 /\ Answered(d)'
                /\ conn'[d].reply # 0 => conn'[d].reply = 1 /\ ~Asked(d)' /\ Answered(d)'
    <2>1. CASE d = c BY <1>5, <1>8, <1>10, <2>1
    <2>2. CASE d # c BY <1>1, <1>8, <1>10, <1>14, <1>16, <2>2 DEF Owners, RequestsOK
    <2> QED BY <2>1, <2>2
  <1>18. RequestsOK'
    <2>1. \A i, j \in 1 .. Len(mbox') : mbox'[i].c = mbox'[j].c => i = j
      BY <1>1 DEF Owners, RequestsOK
    <2>2. \A i \in 1 .. Len(mbox') : RequestOK(mbox[i])' BY <1>1, <1>15
    <2> QED BY <1>17, <2>1, <2>2 DEF RequestsOK, Op
  <1>19. \A d \in Conn : (Cleared(d)' <=> Cleared(d)) /\ conn'[d].acceptmbox = conn[d].acceptmbox
    BY <1>8, <1>10, ClearedSame DEF SameUse
  <1>20. ASSUME NEW d \in Conn, Gone(t, d)'
         PROVE  Cleared(d)' /\ (todo'[t][1] = Op("free", d) => conn'[d].acceptmbox = <<>>)
    <2>1. Frees(t, d)
      <3>1. Op("free", d) \in Ops(t)' /\ Op("free", d).op \in Marks
        BY <1>20 DEF Gone, Frees, Op, Marks
      <3> QED BY <1>10, <3>1 DEF SameMarks, Frees
    <2>2. todo'[t][1] # Op("free", d)
      <3>1. todo'[t][1] = todo[t][2] BY <1>1, StepsOps
      <3>2. todo[t][2] \in {Op("drain", c), Op("freesem", c)} \/ todo[t][2].op = "copy"
        BY <1>1, <1>3, FirstFollows DEF Follows
      <3>3. todo[t][2].op # "free" BY <3>2 DEF Op
      <3> QED BY <3>1, <3>3 DEF Op
    <2>3. CASE d = c
      <3>1. conn[c].pcb = NULL BY <1>7, <2>1, <2>3
      <3>2. \A o \in Ops(Tcpip) : HasC(o) => o.c # c BY <1>1, <1>5, <3>1 DEF Owners, TcpipOK
      <3> QED BY <1>19, <2>2, <2>3, <3>1, <3>2 DEF Cleared
    <2>4. CASE d # c
      <3>1. Gone(t, d) BY <1>3, <2>1, <2>4 DEF Gone
      <3> QED BY <1>1, <1>19, <2>2, <3>1 DEF Owners, DeleteOK
    <2> QED BY <2>3, <2>4
  <1>21. DeleteOK' BY <1>1, <1>10, <1>19, <1>20, DeleteKept DEF Owners
  <1> QED BY <1>10, <1>11, <1>18, <1>21 DEF Owners

LEMMA DrainedOwners ==
    ASSUME Good, Shape', NEW t \in Task, NEW c \in Conn, todo[t][1] = Op("drain", c), Steps(t, <<>>),
           conn[c].acceptmbox = <<>>, conn' = [conn EXCEPT ![c].recvmbox = <<>>, ![c].recv = FALSE],
           UNCHANGED <<sockets, mbox>>
    PROVE  Owners'
  <1>1. /\ Shape /\ Owners /\ todo[t] # <<>> /\ todo[t][1] \in Ops(t) /\ conn \in [Conn -> ConnType]
    BY FirstIs DEF Good
  <1>2. todo[t][1].op = "drain" /\ todo[t][1].c = c BY DEF Op
  <1>3. SameBuffers /\ \A d \in Conn : SameUse(d) BY <1>1 DEF SameUse, SameBuffers, ConnType
  <1>4. Plainly(t, <<>>) BY <1>2, AmongIs DEF Plainly, Marks
  <1>5. /\ Homes' /\ QueueOK' /\ UsesOK' /\ OrderOK' /\ TcpipOK' /\ SameTasks(t) /\ SameMarks
        /\ Ops(Tcpip)' = Ops(Tcpip)
    BY <1>3, <1>4, PlainOwners
  <1>6. WriteOK' BY <1>3, AmongIs, PlainWrite DEF SameBuffers
  <1>7. RequestsOK' BY <1>2, <1>3, <1>4, PlainRequests DEF SameBuffers
  <1>8. todo'[t][1] = Op("free", c)
    <2>1. todo[t][2] = Op("free", c) BY <1>1, <1>2, FirstFollows DEF Follows
    <2> QED BY <1>1, <2>1, StepsOps
  <1>9. \A d \in Conn : (Cleared(d)' <=> Cleared(d)) /\ conn'[d].acceptmbox = conn[d].acceptmbox
    BY <1>3, <1>5, ClearedSame DEF SameUse
  <1>10. ASSUME NEW d \in Conn, Gone(t, d)'
         PROVE  Cleared(d)' /\ (todo'[t][1] = Op("free", d) => conn'[d].acceptmbox = <<>>)
    <2>1. Frees(t, d)
      <3>1. Op("free", d) \in Ops(t)' /\ Op("free", d).op \in Marks
        BY <1>10 DEF Gone, Frees, Op, Marks
      <3> QED BY <1>5, <3>1 DEF SameMarks, Frees
    <2>2. Gone(t, d) BY <1>2, <2>1 DEF Gone
    <2>3. Cleared(d) BY <1>1, <2>2 DEF Owners, DeleteOK
    <2>4. todo'[t][1] = Op("free", d) => d = c
      <3>1. Op("free", c).c = c /\ Op("free", d).c = d BY DEF Op
      <3> QED BY <1>8, <3>1
    <2> QED BY <1>9, <2>3, <2>4
  <1>11. DeleteOK' BY <1>1, <1>5, <1>9, <1>10, DeleteKept DEF Owners
  <1> QED BY <1>5, <1>6, <1>7, <1>11 DEF Owners

-----------------------------------------------------------------------------
(* The operations that move a netconn *)

LEMMA StaleOwn ==
    ASSUME Shape, CallsOK, NEW t \in Task, InCall(t), NEW s, s = Sock(t)
    PROVE  Stale(s) <=> Closes(s) \in Ops(t) /\ Op("free", sockets[s].conn) \notin Ops(t)
  <1>1. ASSUME NEW u \in Task, Closes(s) \in Ops(u) PROVE u = t
    <2>1. InCall(u) /\ Sock(u) = s BY <1>1, ClosesCall
    <2> QED BY <2>1 DEF CallsOK
  <1> QED BY <1>1 DEF Stale

LEMMA StaleElse ==
    ASSUME Shape, Shape', NEW t \in Task, NEW ops, Steps(t, ops), NEW s, s # Sock(t),
           Closes(s) \notin Among(ops), sockets'[s].conn = sockets[s].conn
    PROVE  Stale(s)' <=> Stale(s)
  <1>1. Sock(t)' = Sock(t) /\ SameTasks(t) BY StepsSock
  <1>2. Closes(s) \notin Ops(t) BY ClosesCall
  <1>3. Closes(s)' = Closes(s) BY DEF Closes
  <1>4. Closes(s) \notin Ops(t)'
    <2>1. Ops(t)' = Among(ops) \cup Rest(t) /\ todo[t] # <<>> BY StepsOps
    <2> QED BY <1>2, <2>1, OpsAre
  <1>5. ASSUME NEW u \in Task, u # t PROVE Ops(u)' = Ops(u)
    BY <1>1, <1>5, SameOps DEF SameTasks
  <1> QED BY <1>2, <1>4, <1>5 DEF Stale, Closes, Op

(* What an operation is about is in use, and with a socket or a task. *)
LEMMA AllHeld ==
    ASSUME Good, NEW t \in Task, NEW o \in Ops(t), HasC(o)
    PROVE  o.c \in Conn /\ Held(o.c) /\ conn[o.c].used /\ ~Queued(o.c) /\ ~Offered(o.c)
  <1>1. Shape /\ Owners /\ Use(t, o) /\ o \in TaskOps BY OpsAre DEF Good, Owners, UsesOK
  <1>2. o.c \in Conn BY <1>1, UseOf
  <1>3. Held(o.c)
    <2>1. CASE o.op \notin Others
      <3>1. Uses(t, o.c) BY <2>1 DEF Uses
      <3> QED BY <3>1, HeldIs
    <2>2. CASE o.op = "alloc"
      <3>1. o = Op("alloc", o.c) BY <1>1, <2>2, TaskOp DEF CallNames
      <3> QED BY <3>1 DEF Held, Guest
    <2>3. CASE o.op \in Adds
      <3>1. sockets[o.s].conn = o.c /\ Unused(o.s) /\ o.s \in Socket
        BY <1>1, <2>3, UseOf DEF Use
      <3>2. ASSUME NEW u \in Task, Closes(o.s) \in Ops(u) PROVE FALSE
        <4>1. InCall(u) /\ Len(todo[u]) > 1 /\ Sock(u) = o.s BY <1>1, <3>2, ClosesCall
        <4>2. Len(todo[u]) = 1 BY <3>1, <4>1 DEF Unused
        <4> QED BY <4>1, <4>2
      <3>3. AtSocket(o.c, o.s) BY <3>1, <3>2 DEF AtSocket, Stale
      <3> QED BY <3>1, <3>3 DEF Held
    <2> QED BY <2>1, <2>2, <2>3 DEF Others
  <1> QED BY <1>1, <1>2, <1>3 DEF Owners, Homes

(* A netconn with connections that nobody has accepted *)
LEMMA QueueIs ==
    ASSUME Good, NEW c \in Conn, conn[c].acceptmbox # <<>>
    PROVE  /\ c = Listener /\ Queue = conn[c].acceptmbox /\ Queue \in Seq(Conn) /\ Len(Queue) \in Nat /\ Len(Queue) > 0
           /\ Head(Queue) = Queue[1] /\ Queue[1] \in Conn /\ Queued(Queue[1])
           /\ \A t \in Task : ~Guest(t, c)
           /\ c # Queue[1]
  <1>1. c = Listener /\ \E s \in Socket : AtSocket(c, s) BY DEF Good, Owners, QueueOK
  <1>2. conn[c] \in ConnType BY DEF Good, Shape, DataTypes
  <1>3. Queue = conn[c].acceptmbox /\ Queue \in Seq(Conn) BY <1>1, <1>2 DEF Queue, ConnType
  <1>4. Len(Queue) \in Nat /\ Len(Queue) > 0 /\ Head(Queue) = Queue[1] /\ 1 \in 1 .. Len(Queue) /\ Queue[1] \in Conn
    BY <1>3
  <1>5. Queued(Queue[1]) BY <1>4 DEF Queued
  <1>6. /\ \A t \in Task : ~Guest(t, c)
        /\ Held(c)
    BY <1>1 DEF Good, Owners, Homes, Held
  <1>7. c # Queue[1] BY <1>5, <1>6 DEF Good, Owners, Homes
  <1> QED BY <1>1, <1>3, <1>4, <1>5, <1>6, <1>7

(* What stays the same when no netconn changes *)
LEMMA UsualRest ==
    ASSUME Good, Shape', NEW t \in Task, NEW ops, Steps(t, ops), UNCHANGED mbox,
           todo[t][1].op # "await",
           \A c \in Conn : /\ conn'[c].used = conn[c].used /\ conn'[c].pcb = conn[c].pcb
                           /\ conn'[c].reply = conn[c].reply
                           /\ conn'[c].sndbuf = conn[c].sndbuf /\ conn'[c].sem = conn[c].sem,
           \A p \in Among(ops) : /\ p.op \notin {"room", "freesem"}
                                 /\ ~(p.op = "ask" /\ p.type = "WRITE")
    PROVE  /\ TcpipOK' /\ RequestsOK' /\ WriteOK' /\ SameTasks(t) /\ Ops(Tcpip)' = Ops(Tcpip)
           /\ \A c \in Conn : Cleared(c)' <=> Cleared(c)
  <1>1. Shape /\ Owners BY DEF Good
  <1>2. SameTasks(t) /\ todo'[Tcpip] = todo[Tcpip] /\ Ops(Tcpip)' = Ops(Tcpip)
    BY <1>1, StepsSock, SameOps, SocketsAssumption DEF SameTasks
  <1>3. TcpipOK'
    <2>1. \A o \in Ops(Tcpip) : HasC(o) => conn'[o.c].used = conn[o.c].used /\ conn'[o.c].pcb = conn[o.c].pcb
      BY <1>1, TcpipOpsAre
    <2> QED BY <1>1, <1>2, <2>1, TcpipSame DEF Owners
  <1>4. RequestsOK'
    <2>1. \A c \in Conn : ~Awaits(t, c) BY DEF Awaits, Op
    <2> QED BY <1>1, <1>2, <2>1, RequestsSame DEF Owners
  <1>5. WriteOK' BY PlainWrite
  <1>6. \A c \in Conn : Cleared(c)' <=> Cleared(c) BY <1>2, ClearedSame
  <1> QED BY <1>2, <1>3, <1>4, <1>5, <1>6

(* The operations of the other tasks, with a netconn they had before *)
LEMMA OthersUse ==
    ASSUME Good, NEW t \in Task, NEW ops, Steps(t, ops), NEW u \in Task, u # t, NEW o \in Ops(u),
           HasC(o) /\ o.op \notin Others => /\ AtSocket(o.c, Sock(u)) => AtSocket(o.c, Sock(u))'
                                            /\ Guest(u, o.c) => Guest(u, o.c)',
           \A s \in Socket : sockets[s].conn \in Conn /\ Unused(s) => sockets'[s].conn = sockets[s].conn
    PROVE  Use(u, o)'
  <1>1. Shape /\ Use(u, o) BY DEF Good, Owners, UsesOK
  <1>2. HasC(o) => o.c \in Conn BY <1>1, UseOf
  <1>3. Unused(o.s) => Unused(o.s)' BY <1>1, StepsSock
  <1>4. o.op \in Adds => sockets'[o.s].conn = o.c /\ Unused(o.s)'
    BY <1>1, <1>2, <1>3, UseOf DEF Use
  <1>5. HasC(o) /\ o.op \notin Others => Holds(u, o.c)' BY <1>1 DEF Use, Holds
  <1> QED BY <1>4, <1>5 DEF Use, HasC

LEMMA CloseOpsIs ==
    ASSUME NEW c \in Conn, NEW s \in Socket
    PROVE  /\ Among(CloseOps(c, s)) = {Asks(c, "DELCONN"), Op("await", c), Op("drain", c), Op("free", c), Closes(s)}
           /\ CloseOps(c, s)[1] = Asks(c, "DELCONN") /\ Len(CloseOps(c, s)) = 5
           /\ FreesLast(CloseOps(c, s))
  <1> DEFINE q == CloseOps(c, s)
  <1>1. Closes(s) \in TaskOps BY DEF Closes, TaskOps
  <1>2. /\ q \in Seq(TaskOps) /\ Len(q) = 5 /\ q[1] = Asks(c, "DELCONN") /\ q[2] = Op("await", c)
        /\ q[3] = Op("drain", c) /\ q[4] = Op("free", c) /\ q[5] = Closes(s)
    BY <1>1, DeleteThen DEF CloseOps, Closes
  <1> HIDE DEF q
  <1>3. \A i : i \in 1 .. Len(q) <=> i = 1 \/ i = 2 \/ i = 3 \/ i = 4 \/ i = 5 BY <1>2
  <1>4. Among(q) = {q[1], q[2], q[3], q[4], q[5]} BY <1>3 DEF Among
  <1>5. FreesLast(q)
    <2> SUFFICES ASSUME NEW i \in 1 .. Len(q), NEW j \in 1 .. Len(q), i < j, q[i].op = "free", HasC(q[j])
                 PROVE  q[j].c # q[i].c
      BY DEF FreesLast
    <2>1. i = 4 BY <1>2, <1>3 DEF Asks, Op, Closes
    <2>2. j = 5 BY <1>3, <2>1
    <2>3. ~HasC(Closes(s)) BY DEF HasC, Closes
    <2> QED BY <1>2, <2>2, <2>3
  <1> QED BY <1>2, <1>4, <1>5 DEF q

LEMMA CloseLockedOwners ==
    ASSUME Good, NEW t \in Task, NEW s \in Socket, OnSocket(t, s), CloseLocked(t, s)
    PROVE  Owners'
  <1>1. Shape /\ CallsOK /\ Owners BY DEF Good
  <1>2. PICK c \in Conn : sockets[s].conn = c BY <1>1, CloseHasConn
  <1> DEFINE ops == CloseOps(c, s)
  <1>3. /\ Shape' /\ todo[t][1].op = "close" /\ todo[t][1].s = s /\ todo[t][2] = Return(s)
        /\ Steps(t, ops) /\ UNCHANGED <<sockets, conn, mbox>>
    BY <1>1, <1>2, CloseLockedIs
  <1>4. /\ Among(ops) = {Asks(c, "DELCONN"), Op("await", c), Op("drain", c), Op("free", c), Closes(s)}
        /\ ops[1] = Asks(c, "DELCONN") /\ Len(ops) > 0 /\ FreesLast(ops)
    BY <1>2, CloseOpsIs
  <1> HIDE DEF ops
  <1>5. /\ InCall(t) /\ Sock(t)' = Sock(t) /\ SameTasks(t) /\ \A u \in Task : u # t => Sock(u)' = Sock(u)
    BY <1>1, <1>3, StepsSock DEF Sock
  <1>6. Rest(t) = {Return(s)} /\ Len(todo[t]) = 2
    <2>1. todo[t][2].op = "return" /\ todo[t] # <<>> BY <1>3 DEF Return, Steps
    <2> QED BY <1>1, <1>3, <2>1, ReturnLast DEF EndNames
  <1>7. Sock(t) = s BY <1>3, <1>6 DEF Sock, Return
  <1>8. /\ \A o \in Ops(t) : o.op \in {"close", "return"}
        /\ Ops(t)' = Among(ops) \cup {Return(s)} /\ todo'[t][1] = Asks(c, "DELCONN")
    <2>1. \A o \in Ops(t) : o = todo[t][1] \/ o = Return(s)
      BY <1>1, <1>3, <1>6, StepsOps, OpsAre
    <2> QED BY <1>1, <1>3, <1>4, <1>6, <2>1, StepsOps DEF Return
  <1>9. \A p \in Ops(t)' : \/ p.op \in {"ask", "await", "drain", "free"} /\ p.c = c
                           \/ p = Closes(s) \/ p = Return(s)
    BY <1>4, <1>8 DEF Asks, Op
  <1>10. ~Stale(s) /\ ~Stale(s)'
    <2>1. Closes(s) \notin Ops(t) BY <1>8 DEF Closes
    <2>2. ~Stale(s) BY <1>1, <1>5, <1>7, <2>1, StaleOwn
    <2>3. ASSUME NEW u \in Task, u # t PROVE Closes(s) \notin Ops(u)'
      <3>1. Ops(u)' = Ops(u) BY <1>5, <2>3, SameOps DEF SameTasks
      <3>2. Closes(s) \notin Ops(u) BY <1>1, <1>5, <1>7, <2>3, ClosesCall DEF CallsOK
      <3> QED BY <3>1, <3>2
    <2>4. Op("free", c) \in Ops(t)' BY <1>4, <1>8
    <2> QED BY <1>2, <1>3, <2>2, <2>3, <2>4 DEF Stale, Closes, Op
  <1>11. ASSUME NEW r \in Socket PROVE Stale(r)' <=> Stale(r)
    <2>1. CASE r = s BY <1>10, <2>1
    <2>2. CASE r # s
      <3>1. Closes(r) \notin Among(ops)
        <4>1. Closes(r).s = r /\ Closes(s).s = s /\ Closes(r).op = "closed" BY DEF Closes
        <4> QED BY <1>4, <2>2, <4>1 DEF Asks, Op
      <3> QED BY <1>1, <1>3, <1>7, <2>2, <3>1, StaleElse
    <2> QED BY <2>1, <2>2
  <1>12. ASSUME NEW u \in Task, NEW d \in Conn PROVE Guest(u, d)' <=> Guest(u, d)
    <2>1. CASE u = t
      <3>1. ~Guest(t, d) BY <1>8 DEF Guest, Op
      <3>2. Op("alloc", d).op = "alloc" /\ Op("free", d).op = "free" /\ Op("free", d).c = d
        BY DEF Op
      <3>3. Op("alloc", d) \notin Ops(t)' /\ (Op("free", d) \in Ops(t)' => d = c)
        BY <1>9, <3>2 DEF Closes, Return
      <3>4. Own(t)' = c BY <1>2, <1>3, <1>5, <1>7 DEF Own
      <3>5. ~Guest(t, d)' BY <3>3, <3>4 DEF Guest, Op
      <3> QED BY <2>1, <3>1, <3>5
    <2>2. CASE u # t
      <3>1. Ops(u)' = Ops(u) /\ Own(u)' = Own(u)
        BY <1>3, <1>5, <2>2, SameOps DEF SameTasks, Own
      <3> QED BY <3>1 DEF Guest, Op
    <2> QED BY <2>1, <2>2
  <1>13. SameSpots BY <1>3, <1>11, <1>12 DEF SameSpots, AtSocket
  <1>14. /\ TcpipOK' /\ RequestsOK' /\ WriteOK' /\ Ops(Tcpip)' = Ops(Tcpip)
         /\ \A d \in Conn : Cleared(d)' <=> Cleared(d)
    <2>1. \A p \in Among(ops) : /\ p.op \notin {"room", "freesem"}
                                /\ ~(p.op = "ask" /\ p.type = "WRITE")
      BY <1>4 DEF Asks, Op, Closes
    <2> QED BY <1>3, <2>1, UsualRest
  <1>15. Homes' /\ QueueOK'
    <2>1. Queue' = Queue /\ \A d \in Conn : SameUse(d) BY <1>3 DEF Queue, SameUse
    <2> QED BY <1>1, <1>3, <1>13, <1>14, <2>1, HomesSame, QueueSame DEF Owners
  <1>16. UsesOK'
    <2>1. ASSUME NEW u \in Task \ {t}, NEW o \in Ops(u) PROVE Use(u, o)'
      <3>1. HasC(o) => o.c \in Conn /\ Sock(u) \in Socket BY <1>1, UseOf
      <3>2. HasC(o) => /\ AtSocket(o.c, Sock(u)) => AtSocket(o.c, Sock(u))'
                       /\ Guest(u, o.c) => Guest(u, o.c)'
        <4>1. ASSUME NEW d \in Conn, NEW r \in Socket, r = Sock(u), r = Sock(u)'
              PROVE  AtSocket(d, r)' <=> AtSocket(d, Sock(u))'
          BY <4>1 DEF AtSocket, Stale, Closes, Op
        <4> QED BY <1>5, <1>13, <3>1, <4>1 DEF SameSpots
      <3> QED BY <1>3, <3>2, OthersUse
    <2>2. ASSUME NEW o \in Ops(t)' PROVE Use(t, o)'
      <3>1. CASE o.op \in {"ask", "await", "drain", "free"} /\ o.c = c
        <4>1. AtSocket(c, Sock(t))'
          <5>1. Stale(Sock(t))' <=> Stale(s)' BY <1>5, <1>7 DEF Stale, Closes, Op
          <5> QED BY <1>2, <1>3, <1>5, <1>7, <1>10, <5>1 DEF AtSocket
        <4> QED BY <3>1, <4>1 DEF Use, Holds, Adds
      <3>2. CASE o = Closes(s) \/ o = Return(s) BY <3>2 DEF Use, HasC, Closes, Return, Adds
      <3> QED BY <1>9, <2>2, <3>1, <3>2
    <2> QED BY <1>1, <1>5, <2>1, <2>2, UsesKept, SocketsAssumption DEF Owners
  <1>17. OrderOK'
    <2>1. \A p \in Rest(t) : ~HasC(p) /\ p.op = "return" BY <1>6 DEF HasC, Return
    <2>2. Closes(Sock(t)) \in Among(ops) BY <1>4, <1>7
    <2> QED BY <1>1, <1>3, <1>4, <2>1, <2>2, OrderThen DEF Owners
  <1>18. DeleteOK'
    <2>1. ASSUME NEW d \in Conn, Gone(t, d)' PROVE FALSE
      <3>1. Op("free", d) \in Ops(t)' /\ Op("free", d).op = "free" /\ Op("free", d).c = d
        BY <2>1 DEF Gone, Frees, Op
      <3>2. d = c BY <1>9, <3>1 DEF Closes, Return
      <3>3. todo'[t][1].op = "ask" /\ todo'[t][1].c = c BY <1>8 DEF Asks
      <3> QED BY <2>1, <3>2, <3>3 DEF Gone
    <2> QED BY <1>1, <1>3, <1>5, <1>14, <2>1, DeleteKept DEF Owners
  <1> QED BY <1>14, <1>15, <1>16, <1>17, <1>18 DEF Owners

LEMMA SpotOf ==
    ASSUME NEW u, NEW d, NEW r, r = Sock(u), Sock(u)' = Sock(u)
    PROVE  AtSocket(d, Sock(u))' <=> AtSocket(d, r)'
  BY DEF AtSocket, Stale, Closes, Op

LEMMA GuestElse ==
    ASSUME Shape, CallsOK, NEW t \in Task, SameTasks(t), NEW u \in Task, u # t, NEW d,
           \A r \in Socket : \/ sockets'[r].conn = sockets[r].conn
                             \/ InCall(t) /\ r = Sock(t)
                             \/ sockets[r].conn = NULL
    PROVE  Guest(u, d)' <=> Guest(u, d)
  <1>1. Ops(u)' = Ops(u) /\ Sock(u)' = Sock(u) BY SameOps DEF SameTasks, Sock
  <1>2. Frees(u, d) => Own(u)' = Own(u)
    <2>1. ASSUME Frees(u, d) PROVE sockets'[Sock(u)].conn = sockets[Sock(u)].conn
      <3>1. Op("free", d) \in Ops(u) /\ Op("free", d).op = "free" BY <2>1 DEF Frees, Op
      <3>2. InCall(u) /\ Len(todo[u]) > 1 /\ Sock(u) \in Socket
        BY <2>1, <3>1, FreesCall, OpInCall DEF EndNames
      <3>3. sockets[Sock(u)].conn # NULL /\ (InCall(t) => Sock(u) # Sock(t))
        BY <3>2 DEF CallsOK
      <3> QED BY <3>2, <3>3
    <2> QED BY <1>1, <2>1 DEF Own
  <1> QED BY <1>1, <1>2 DEF Guest, Frees, Op

LEMMA ClosedOwners ==
    ASSUME Good, NEW t \in Task, NEW s \in Socket, OnSocket(t, s), Closed(t, s)
    PROVE  Owners'
  <1>1. Shape /\ CallsOK /\ Owners BY DEF Good
  <1>2. /\ Shape' /\ Steps(t, <<>>) /\ todo[t][1].op = "closed" /\ todo[t][1].s = s /\ todo[t][2] = Return(s)
        /\ sockets' = [sockets EXCEPT ![s].conn = NULL, ![s].lastdata = FALSE]
        /\ UNCHANGED <<conn, mbox>>
    BY <1>1, ClosedIs
  <1>3. /\ InCall(t) /\ Sock(t)' = Sock(t) /\ SameTasks(t) /\ \A u \in Task : u # t => Sock(u)' = Sock(u)
        /\ \A r : Unused(r) => r # Sock(t)
    BY <1>1, <1>2, StepsSock DEF Sock
  <1>4. Rest(t) = {Return(s)} /\ Len(todo[t]) = 2 /\ todo[t] # <<>> /\ todo[t][1] \in TaskOps
    <2>1. todo[t][2].op = "return" BY <1>2 DEF Return
    <2> QED BY <1>1, <1>2, <2>1, ReturnLast, FirstIs DEF EndNames
  <1>5. Sock(t) = s /\ todo[t][1] = Closes(s)
    BY <1>2, <1>4 DEF Sock, Return, Closes, TaskOps, CallNames
  <1>6. /\ Ops(t) = {Closes(s), Return(s)}
        /\ Ops(t)' = {Return(s)}
    <2>1. Ops(t)' = Among(<<>>) \cup Rest(t) BY <1>1, <1>2, StepsOps
    <2>2. \A o : o \in Ops(t) <=> o = todo[t][1] \/ o \in Rest(t) BY <1>1, <1>4, OpsAre
    <2> QED BY <1>4, <1>5, <2>1, <2>2, AmongIs
  <1>7. sockets'[s].conn = NULL /\ \A r \in Socket : r # s => sockets'[r].conn = sockets[r].conn
    <2>1. sockets \in [Socket -> SocketType] BY <1>1 DEF Shape, DataTypes
    <2> QED BY <1>2, <2>1 DEF SocketType
  <1>8. \A d : Op("free", d) \notin Ops(t) /\ Op("alloc", d) \notin Ops(t)
    BY <1>6 DEF Op, Closes, Return
  <1>9. Stale(s) BY <1>6, <1>8 DEF Stale
  <1>10. ASSUME NEW r \in Socket, NEW d \in Conn PROVE AtSocket(d, r)' <=> AtSocket(d, r)
    <2>1. CASE r = s BY <1>7, <1>9, <2>1, SocketsAssumption DEF AtSocket
    <2>2. CASE r # s
      <3>1. Stale(r)' <=> Stale(r) BY <1>1, <1>2, <1>5, <1>7, <2>2, AmongIs, StaleElse
      <3> QED BY <1>7, <2>2, <3>1 DEF AtSocket
    <2> QED BY <2>1, <2>2
  <1>11. ASSUME NEW u \in Task, NEW d \in Conn PROVE Guest(u, d)' <=> Guest(u, d)
    <2>1. CASE u = t
      <3>1. Op("alloc", d) \notin Ops(t)' /\ Op("free", d) \notin Ops(t)'
        BY <1>6 DEF Op, Return
      <3> QED BY <1>8, <2>1, <3>1 DEF Guest, Op
    <2>2. CASE u # t BY <1>1, <1>3, <1>5, <1>7, <2>2, GuestElse
    <2> QED BY <2>1, <2>2
  <1>12. SameSpots BY <1>10, <1>11 DEF SameSpots
  <1>13. /\ TcpipOK' /\ RequestsOK' /\ WriteOK' /\ Ops(Tcpip)' = Ops(Tcpip)
         /\ \A d \in Conn : Cleared(d)' <=> Cleared(d)
    BY <1>2, AmongIs, UsualRest
  <1>14. Homes' /\ QueueOK'
    <2>1. Queue' = Queue /\ \A d \in Conn : SameUse(d) BY <1>2 DEF Queue, SameUse
    <2> QED BY <1>1, <1>2, <1>12, <1>13, <2>1, HomesSame, QueueSame DEF Owners
  <1>15. UsesOK'
    <2>1. ASSUME NEW u \in Task \ {t}, NEW o \in Ops(u) PROVE Use(u, o)'
      <3>1. HasC(o) => o.c \in Conn /\ Sock(u) \in Socket BY <1>1, UseOf
      <3>2. HasC(o) => /\ AtSocket(o.c, Sock(u)) => AtSocket(o.c, Sock(u))'
                       /\ Guest(u, o.c) => Guest(u, o.c)'
        BY <1>3, <1>12, <3>1, SpotOf DEF SameSpots
      <3> QED BY <1>2, <1>3, <1>5, <1>7, <3>2, OthersUse
    <2>2. \A o \in Ops(t)' : Use(t, o)' BY <1>6 DEF Use, HasC, Return, Adds
    <2> QED BY <1>1, <1>3, <2>1, <2>2, UsesKept, SocketsAssumption DEF Owners
  <1>16. OrderOK'
    <2>1. FreesLast(<<>>) BY DEF FreesLast
    <2>2. \A c : Op("free", c) \notin Among(<<>>) \cup Rest(t)
      BY <1>4, AmongIs DEF Op, Return
    <2> QED BY <1>1, <1>2, <2>1, <2>2, AmongIs, OrderThen DEF Owners
  <1>17. DeleteOK'
    <2>1. ASSUME NEW d \in Conn, Gone(t, d)' PROVE FALSE
      BY <1>6, <2>1 DEF Gone, Frees, Op, Return
    <2> QED BY <1>1, <1>2, <1>3, <1>13, <2>1, DeleteKept DEF Owners
  <1> QED BY <1>13, <1>14, <1>15, <1>16, <1>17 DEF Owners

(* A netconn has gone from a task to a socket. *)
LEMMA HomesSettled ==
    ASSUME Homes, NEW t \in Task, NEW c \in Conn, NEW i \in Socket, Guest(t, c),
           \A d \in Conn, r \in Socket : AtSocket(d, r)' <=> AtSocket(d, r) \/ (d = c /\ r = i),
           \A u \in Task, d \in Conn : Guest(u, d)' <=> Guest(u, d) /\ d # c,
           \A d \in Conn : conn'[d].used = conn[d].used, Queue' = Queue, Ops(Tcpip)' = Ops(Tcpip)
    PROVE  Homes'
  <1> SUFFICES ASSUME NEW d \in Conn
               PROVE  (/\ \A s, r \in Socket : AtSocket(d, s) /\ AtSocket(d, r) => s = r
                       /\ \A v, u \in Task : Guest(v, d) /\ Guest(u, d) => v = u
                       /\ \A s \in Socket, v \in Task : ~(AtSocket(d, s) /\ Guest(v, d))
                       /\ Queued(d) \/ Offered(d) => ~Held(d)
                       /\ ~(Queued(d) /\ Offered(d))
                       /\ conn[d].used <=> Held(d) \/ Queued(d) \/ Offered(d))'
    BY DEF Homes
  <1>1. /\ \A s, r \in Socket : AtSocket(d, s) /\ AtSocket(d, r) => s = r
        /\ \A v, u \in Task : Guest(v, d) /\ Guest(u, d) => v = u
        /\ \A s \in Socket, v \in Task : ~(AtSocket(d, s) /\ Guest(v, d))
        /\ Queued(d) \/ Offered(d) => ~Held(d)
        /\ ~(Queued(d) /\ Offered(d))
        /\ conn[d].used <=> Held(d) \/ Queued(d) \/ Offered(d)
    BY DEF Homes
  <1>2. Held(d)' <=> (\E s \in Socket : AtSocket(d, s)') \/ (\E v \in Task : Guest(v, d)')
    BY DEF Held
  <1>3. Held(d)' <=> Held(d)
    <2>1. CASE d = c BY <1>2, <2>1 DEF Held
    <2>2. CASE d # c BY <1>2, <2>2 DEF Held
    <2> QED BY <2>1, <2>2
  <1>4. (Queued(d)' <=> Queued(d)) /\ (Offered(d)' <=> Offered(d)) BY DEF Queued, Offered
  <1> QED BY <1>1, <1>3, <1>4

LEMMA AllocOwners ==
    ASSUME Good, NEW t \in Task, UNCHANGED <<select, mbox, traffic>>, AllocSocket(t)
    PROVE  Owners'
  <1>1. Shape /\ CallsOK /\ Owners BY DEF Good
  <1>2. PICK c \in Conn :
          /\ Shape' /\ todo[t][1] = Op("alloc", c)
          /\ \E i \in Socket :
               /\ sockets[i].conn = NULL /\ Steps(t, <<Adopt(c, i)>>)
               /\ sockets' = [sockets EXCEPT ![i] = [FreeSocket EXCEPT !.conn = c]]
          /\ UNCHANGED <<conn, mbox>>
    BY <1>1, AllocIs
  <1>3. PICK i \in Socket :
               /\ sockets[i].conn = NULL /\ Steps(t, <<Adopt(c, i)>>)
               /\ sockets' = [sockets EXCEPT ![i] = [FreeSocket EXCEPT !.conn = c]]
    BY <1>2
  <1>4. /\ InCall(t) /\ Sock(t)' = Sock(t) /\ SameTasks(t) /\ \A u \in Task : u # t => Sock(u)' = Sock(u)
        /\ \A u \in Task : InCall(u)' <=> InCall(u)
        /\ \A u \in Task : u # t => todo'[u] = todo[u]
    BY <1>1, <1>3, StepsSock DEF Sock
  <1>5. \A u \in Task : InCall(u) /\ Len(todo[u]) > 1 => Sock(u) # i
    BY <1>1, <1>3 DEF CallsOK
  <1>6. Len(todo[t]) > 1 /\ Sock(t) # i BY <1>3, <1>4, <1>5 DEF Steps
  <1>7. todo[t][1].op = "alloc" /\ todo[t][1].c = c BY <1>2 DEF Op
  <1>8. PICK s : Rest(t) = {todo[t][2]} /\ todo[t][2] = Return(s)
    <2>1. todo[t][2].op = "return" /\ todo[t][2] \in TaskOps /\ todo[t] # <<>>
      BY <1>1, <1>3, <1>7, FirstFollows, StepsOps DEF Follows
    <2>2. Rest(t) = {todo[t][2]} BY <1>1, <1>7, <2>1, ReturnLast DEF EndNames
    <2> QED BY <2>1, <2>2, TaskOp
  <1>9. /\ Ops(t) = {Op("alloc", c), Return(s)}
        /\ Ops(t)' = {Adopt(c, i), Return(s)} /\ todo'[t][1] = Adopt(c, i)
    <2>1. Ops(t)' = Among(<<Adopt(c, i)>>) \cup Rest(t) /\ todo[t] # <<>>
      BY <1>1, <1>2, <1>3, StepsOps
    <2>2. \A o : o \in Ops(t) <=> o = todo[t][1] \/ o \in Rest(t) BY <1>1, <2>1, OpsAre
    <2>3. todo'[t][1] = Adopt(c, i)
      <3>1. Len(<<Adopt(c, i)>>) > 0 /\ <<Adopt(c, i)>>[1] = Adopt(c, i) OBVIOUS
      <3> QED BY <1>1, <1>2, <1>3, <3>1, StepsOps
    <2> QED BY <1>2, <1>8, <2>1, <2>2, <2>3, AmongIs
  <1>10. sockets'[i].conn = c /\ \A r \in Socket : r # i => sockets'[r].conn = sockets[r].conn
    <2>1. sockets \in [Socket -> SocketType] BY <1>1 DEF Shape, DataTypes
    <2> QED BY <1>3, <2>1 DEF SocketType, FreeSocket
  <1>11. \A r : Closes(r) \notin Ops(t) /\ Closes(r) \notin Ops(t)' /\ Closes(r) \notin Among(<<Adopt(c, i)>>)
    BY <1>9, AmongIs DEF Closes, Op, Return, Adopt
  <1>12. ~Stale(i)'
    <2>1. ASSUME NEW u \in Task PROVE Closes(i) \notin Ops(u)'
      <3>1. CASE u = t BY <1>11, <3>1
      <3>2. CASE u # t
        <4>1. Ops(u)' = Ops(u) BY <1>4, <3>2, SameOps DEF SameTasks
        <4> QED BY <1>1, <1>5, <4>1, ClosesCall
      <3> QED BY <3>1, <3>2
    <2> QED BY <2>1 DEF Stale, Closes
  <1>13. ASSUME NEW r \in Socket, r # i PROVE Stale(r)' <=> Stale(r)
    <2>1. ASSUME NEW u \in Task PROVE Closes(r) \in Ops(u)' <=> Closes(r) \in Ops(u)
      <3>1. CASE u = t BY <1>11, <3>1
      <3>2. CASE u # t BY <1>4, <3>2, SameOps DEF SameTasks
      <3> QED BY <3>1, <3>2
    <2>2. ASSUME NEW u \in Task, NEW d PROVE Op("free", d) \in Ops(u)' <=> Op("free", d) \in Ops(u)
      <3>1. CASE u = t BY <1>9, <3>1 DEF Op, Adopt, Return
      <3>2. CASE u # t BY <1>4, <3>2, SameOps DEF SameTasks
      <3> QED BY <3>1, <3>2
    <2>3. Stale(r)' <=> \E u \in Task : Closes(r) \in Ops(u)' /\ Op("free", sockets'[r].conn) \notin Ops(u)'
      BY DEF Stale, Closes, Op
    <2> QED BY <1>10, <1>13, <2>1, <2>2, <2>3 DEF Stale
  <1>14. ASSUME NEW d \in Conn, NEW r \in Socket PROVE AtSocket(d, r)' <=> AtSocket(d, r) \/ (d = c /\ r = i)
    <2>1. CASE r = i BY <1>3, <1>10, <1>12, <2>1, SocketsAssumption DEF AtSocket
    <2>2. CASE r # i BY <1>10, <1>13, <2>2 DEF AtSocket
    <2> QED BY <2>1, <2>2
  <1>15. Guest(t, c) BY <1>9 DEF Guest
  <1>16. ASSUME NEW u \in Task, NEW d \in Conn PROVE Guest(u, d)' <=> Guest(u, d) /\ d # c
    <2>1. CASE u = t
      <3>1. Op("alloc", d) \notin Ops(t)' /\ Op("free", d) \notin Ops(t)'
        BY <1>9 DEF Op, Adopt, Return
      <3>2. Guest(t, d) => d = c BY <1>9 DEF Guest, Op, Return
      <3> QED BY <2>1, <3>1, <3>2 DEF Guest, Op
    <2>2. CASE u # t
      <3>1. Guest(u, d)' <=> Guest(u, d) BY <1>1, <1>3, <1>4, <1>10, <2>2, GuestElse
      <3>2. ~Guest(u, c) BY <1>1, <1>15, <2>2 DEF Owners, Homes
      <3> QED BY <3>1, <3>2
    <2> QED BY <2>1, <2>2
  <1>17. /\ TcpipOK' /\ RequestsOK' /\ WriteOK' /\ Ops(Tcpip)' = Ops(Tcpip)
         /\ \A d \in Conn : Cleared(d)' <=> Cleared(d)
    <2>1. \A p \in Among(<<Adopt(c, i)>>) : p.op = "adopt" BY AmongIs DEF Adopt
    <2> QED BY <1>2, <1>3, <1>7, <2>1, UsualRest
  <1>18. Homes'
    <2>1. Queue' = Queue /\ \A d \in Conn : conn'[d].used = conn[d].used BY <1>2 DEF Queue
    <2> QED BY <1>1, <1>14, <1>15, <1>16, <1>17, <2>1, HomesSettled DEF Owners
  <1>19. QueueOK'
    <2>1. \A d \in Conn : conn[d].pcb = "LISTEN" \/ conn[d].acceptmbox # <<>> =>
             d = Listener /\ \E r \in Socket : AtSocket(d, r)'
      BY <1>1, <1>14 DEF Owners, QueueOK
    <2>2. Queue' = Queue BY <1>2 DEF Queue
    <2> QED BY <1>1, <1>2, <2>1, <2>2 DEF Owners, QueueOK
  <1>20. UsesOK'
    <2>1. ASSUME NEW u \in Task \ {t}, NEW o \in Ops(u) PROVE Use(u, o)'
      <3>1. HasC(o) => o.c \in Conn /\ Sock(u) \in Socket BY <1>1, UseOf
      <3>2. ASSUME HasC(o), o.op \notin Others PROVE o.c # c
        <4>1. Holds(u, o.c) BY <1>1, <3>2 DEF Owners, UsesOK, Use
        <4> QED BY <1>1, <1>15, <3>1, <3>2, <4>1 DEF Holds, Owners, Homes
      <3>3. HasC(o) /\ o.op \notin Others => /\ AtSocket(o.c, Sock(u)) => AtSocket(o.c, Sock(u))'
                                             /\ Guest(u, o.c) => Guest(u, o.c)'
        BY <1>4, <1>14, <1>16, <3>1, <3>2, SpotOf
      <3> QED BY <1>3, <1>10, <3>3, OthersUse, SocketsAssumption
    <2>2. Unused(i)'
      <3>1. ASSUME NEW u \in Task, InCall(u)', Sock(u)' = i PROVE Len(todo'[u]) = 1
        <4>1. u # t /\ InCall(u) /\ Sock(u) = i /\ todo'[u] = todo[u] BY <1>4, <1>6, <3>1
        <4>2. Len(todo[u]) \in Nat /\ Len(todo[u]) > 0 /\ ~(Len(todo[u]) > 1)
          BY <1>1, <1>5, <4>1, CallSocket
        <4> QED BY <4>1, <4>2, OneOrMore, Zenon
      <3> QED BY <3>1 DEF Unused
    <2>3. Use(t, Adopt(c, i))' /\ Use(t, Return(s))'
      <3>1. Adopt(c, i).op = "adopt" /\ Adopt(c, i).c = c /\ Adopt(c, i).s = i BY DEF Adopt
      <3>2. ASSUME NEW o, o = Adopt(c, i) PROVE Use(t, o)'
        <4>1. o.op = "adopt" /\ o.c = c /\ o.s = i BY <3>1, <3>2
        <4>2. sockets'[o.s].conn = o.c /\ Unused(o.s)' BY <1>10, <2>2, <4>1
        <4> QED BY <4>1, <4>2 DEF Use, Others, Adds
      <3>3. ASSUME NEW o, o = Return(s) PROVE Use(t, o)' BY <3>3 DEF Use, HasC, Return, Adds
      <3> QED BY <3>2, <3>3 DEF Adopt, Return
    <2>4. \A o \in Ops(t)' : Use(t, o)'
      <3>1. ASSUME NEW o \in Ops(t)' PROVE Use(t, o)'
        <4>1. CASE o = Adopt(c, i) BY <2>3, <4>1 DEF Adopt
        <4>2. CASE o = Return(s) BY <2>3, <4>2 DEF Return
        <4> QED BY <1>9, <4>1, <4>2
      <3> QED BY <3>1
    <2> QED BY <1>1, <1>4, <2>1, <2>4, UsesKept, SocketsAssumption DEF Owners
  <1>21. OrderOK'
    <2>1. FreesLast(<<Adopt(c, i)>>) BY DEF FreesLast, Adopt
    <2>2. \A d : Op("free", d) \notin Among(<<Adopt(c, i)>>) \cup Rest(t)
      BY <1>8, AmongIs DEF Op, Return, Adopt
    <2>3. \A o \in Among(<<Adopt(c, i)>>) : o.op # "free" BY AmongIs DEF Adopt
    <2> QED BY <1>1, <1>2, <1>3, <2>1, <2>2, <2>3, OrderThen DEF Owners
  <1>22. DeleteOK'
    <2>1. ASSUME NEW d \in Conn, Gone(t, d)' PROVE FALSE
      BY <1>9, <2>1 DEF Gone, Frees, Op, Return, Adopt
    <2> QED BY <1>1, <1>2, <1>4, <1>17, <2>1, DeleteKept DEF Owners
  <1> QED BY <1>17, <1>18, <1>19, <1>20, <1>21, <1>22 DEF Owners

(* A task takes the first netconn of the queue. *)
LEMMA QueueTail ==
    ASSUME Good, NEW c \in Conn, conn[c].acceptmbox # <<>>, conn' = [conn EXCEPT ![c].acceptmbox = Tail(@)],
           NEW new, new = Head(conn[c].acceptmbox)
    PROVE  /\ \A d : Queued(d)' <=> Queued(d) /\ d # new
           /\ \A i, j \in 1 .. Len(Queue') : Queue'[i] = Queue'[j] => i = j
           /\ \A d \in Conn : /\ conn'[d].used = conn[d].used /\ conn'[d].pcb = conn[d].pcb
                              /\ conn'[d].reply = conn[d].reply
                              /\ conn'[d].sndbuf = conn[d].sndbuf /\ conn'[d].sem = conn[d].sem
                              /\ conn'[d].acceptmbox # <<>> => conn[d].acceptmbox # <<>>
                              /\ conn[d].acceptmbox = <<>> => conn'[d].acceptmbox = <<>>
           /\ new \in Conn /\ Queued(new) /\ c = Listener /\ c # new /\ \A t \in Task : ~Guest(t, c)
  <1>1. /\ c = Listener /\ Queue = conn[c].acceptmbox /\ Queue \in Seq(Conn) /\ Queue # <<>>
        /\ new = Queue[1] /\ new \in Conn /\ Queued(new) /\ c # new /\ \A t \in Task : ~Guest(t, c)
    BY QueueIs
  <1>2. conn \in [Conn -> ConnType] /\ \A i, j \in 1 .. Len(Queue) : Queue[i] = Queue[j] => i = j
    BY DEF Good, Shape, DataTypes, Owners, QueueOK
  <1>3. /\ conn'[c].acceptmbox = Tail(conn[c].acceptmbox)
        /\ \A d \in Conn : d # c => conn'[d].acceptmbox = conn[d].acceptmbox
        /\ \A d \in Conn : /\ conn'[d].used = conn[d].used /\ conn'[d].pcb = conn[d].pcb
                           /\ conn'[d].reply = conn[d].reply
                           /\ conn'[d].sndbuf = conn[d].sndbuf /\ conn'[d].sem = conn[d].sem
    BY <1>2 DEF ConnType
  <1>4. Queue' = Tail(Queue) BY <1>1, <1>3 DEF Queue
  <1>5. /\ Len(Queue') = Len(Queue) - 1 /\ \A i \in 1 .. Len(Queue) - 1 : Queue'[i] = Queue[i + 1]
        /\ Len(Queue) \in Nat /\ Len(Queue) > 0
    BY <1>1, <1>4, TailIs
  <1>6. ASSUME NEW d PROVE Queued(d)' <=> Queued(d) /\ d # new
    <2>1. ASSUME Queued(d)' PROVE Queued(d) /\ d # new
      <3>1. PICK i \in 1 .. Len(Queue') : Queue'[i] = d BY <2>1 DEF Queued
      <3>2. i + 1 \in 1 .. Len(Queue) /\ Queue[i + 1] = d /\ i + 1 # 1 /\ 1 \in 1 .. Len(Queue)
        BY <1>5, <3>1
      <3> QED BY <1>1, <1>2, <3>2 DEF Queued
    <2>2. ASSUME Queued(d), d # new PROVE Queued(d)'
      <3>1. PICK i \in 1 .. Len(Queue) : Queue[i] = d BY <2>2 DEF Queued
      <3>2. i # 1 BY <1>1, <2>2, <3>1
      <3>3. i - 1 \in 1 .. Len(Queue) - 1 /\ i - 1 + 1 = i BY <1>5, <3>1, <3>2
      <3>4. i - 1 \in 1 .. Len(Queue') /\ Queue'[i - 1] = d BY <1>5, <3>1, <3>3
      <3> QED BY <3>4 DEF Queued
    <2> QED BY <2>1, <2>2
  <1>7. ASSUME NEW i \in 1 .. Len(Queue'), NEW j \in 1 .. Len(Queue'), Queue'[i] = Queue'[j] PROVE i = j
    <2>1. i + 1 \in 1 .. Len(Queue) /\ j + 1 \in 1 .. Len(Queue) /\ Queue[i + 1] = Queue[j + 1]
      BY <1>5, <1>7
    <2>2. i + 1 = j + 1 BY <1>2, <2>1
    <2> QED BY <2>2
  <1> QED BY <1>1, <1>3, <1>6, <1>7

LEMMA HomesTaken ==
    ASSUME Homes, NEW t \in Task, NEW new \in Conn, Queued(new),
           \A d \in Conn, r \in Socket : AtSocket(d, r)' <=> AtSocket(d, r),
           \A u \in Task, d \in Conn : Guest(u, d)' <=> Guest(u, d) \/ (u = t /\ d = new),
           \A d \in Conn : conn'[d].used = conn[d].used,
           \A d : Queued(d)' <=> Queued(d) /\ d # new,
           Ops(Tcpip)' = Ops(Tcpip)
    PROVE  Homes'
  <1> SUFFICES ASSUME NEW d \in Conn
               PROVE  (/\ \A s, r \in Socket : AtSocket(d, s) /\ AtSocket(d, r) => s = r
                       /\ \A v, u \in Task : Guest(v, d) /\ Guest(u, d) => v = u
                       /\ \A s \in Socket, v \in Task : ~(AtSocket(d, s) /\ Guest(v, d))
                       /\ Queued(d) \/ Offered(d) => ~Held(d)
                       /\ ~(Queued(d) /\ Offered(d))
                       /\ conn[d].used <=> Held(d) \/ Queued(d) \/ Offered(d))'
    BY DEF Homes
  <1>1. /\ \A s, r \in Socket : AtSocket(d, s) /\ AtSocket(d, r) => s = r
        /\ \A v, u \in Task : Guest(v, d) /\ Guest(u, d) => v = u
        /\ \A s \in Socket, v \in Task : ~(AtSocket(d, s) /\ Guest(v, d))
        /\ Queued(d) \/ Offered(d) => ~Held(d)
        /\ ~(Queued(d) /\ Offered(d))
        /\ conn[d].used <=> Held(d) \/ Queued(d) \/ Offered(d)
    BY DEF Homes
  <1>2. Held(d)' <=> (\E s \in Socket : AtSocket(d, s)') \/ (\E v \in Task : Guest(v, d)')
    BY DEF Held
  <1>3. Held(d)' <=> Held(d) \/ d = new BY <1>2 DEF Held
  <1>4. (Queued(d)' <=> Queued(d) /\ d # new) /\ (Offered(d)' <=> Offered(d)) BY DEF Offered
  <1>5. d = new => (\A s \in Socket : ~AtSocket(d, s)) /\ (\A v \in Task : ~Guest(v, d))
    BY <1>1 DEF Held
  <1> QED BY <1>1, <1>3, <1>4, <1>5

LEMMA QueueKept ==
    ASSUME QueueOK, \A d \in Conn, r \in Socket : AtSocket(d, r)' <=> AtSocket(d, r),
           \A i, j \in 1 .. Len(Queue') : Queue'[i] = Queue'[j] => i = j,
           \A d \in Conn : /\ conn'[d].used = conn[d].used /\ conn'[d].pcb = conn[d].pcb
                           /\ conn'[d].acceptmbox # <<>> => conn[d].acceptmbox # <<>>
    PROVE  QueueOK'
  <1>1. ASSUME NEW d \in Conn, conn'[d].pcb = "LISTEN" \/ conn'[d].acceptmbox # <<>>
        PROVE  d = Listener /\ \E r \in Socket : AtSocket(d, r)'
    BY <1>1 DEF QueueOK
  <1>2. \A d \in Conn : conn'[d].pcb # NULL => conn'[d].used BY DEF QueueOK
  <1> QED BY <1>1, <1>2 DEF QueueOK

LEMMA TakeOwners ==
    ASSUME Good, NEW t \in Task, NEW c \in Conn, OnConn(t, c), Take(t, c)
    PROVE  Owners'
  <1>1. Shape /\ CallsOK /\ Owners BY DEF Good
  <1>2. PICK new : new = Head(conn[c].acceptmbox) OBVIOUS
  <1> DEFINE ops == <<Event(c, "RCVMINUS"), Op("alloc", new)>>
  <1>3. /\ Shape' /\ Steps(t, ops) /\ todo[t][1] = Op("take", c)
        /\ conn[c].acceptmbox # <<>>
        /\ conn' = [conn EXCEPT ![c].acceptmbox = Tail(@)]
        /\ UNCHANGED <<sockets, mbox>>
    BY <1>1, <1>2, TakeIs
  <1>4. /\ \A d : Queued(d)' <=> Queued(d) /\ d # new
        /\ \A i, j \in 1 .. Len(Queue') : Queue'[i] = Queue'[j] => i = j
        /\ \A d \in Conn : /\ conn'[d].used = conn[d].used /\ conn'[d].pcb = conn[d].pcb
                           /\ conn'[d].reply = conn[d].reply
                           /\ conn'[d].sndbuf = conn[d].sndbuf /\ conn'[d].sem = conn[d].sem
                           /\ conn'[d].acceptmbox # <<>> => conn[d].acceptmbox # <<>>
                           /\ conn[d].acceptmbox = <<>> => conn'[d].acceptmbox = <<>>
        /\ new \in Conn /\ Queued(new) /\ c = Listener /\ c # new
    BY <1>2, <1>3, QueueTail
  <1>5. /\ InCall(t) /\ Sock(t)' = Sock(t) /\ SameTasks(t) /\ \A u \in Task : u # t => Sock(u)' = Sock(u)
        /\ Sock(t) \in Socket
    BY <1>1, <1>3, StepsSock DEF Sock
  <1>6. todo[t][1].op = "take" /\ todo[t][1].c = c /\ todo[t] # <<>> /\ todo[t][1] \in Ops(t)
    BY <1>1, <1>3, FirstIs DEF Op
  <1>7. PICK s : Rest(t) = {todo[t][2]} /\ todo[t][2] = Return(s)
    <2>1. todo[t][2].op = "return" /\ todo[t][2] \in TaskOps /\ todo[t] # <<>>
      BY <1>1, <1>3, <1>6, FirstFollows, StepsOps DEF Follows
    <2>2. Rest(t) = {todo[t][2]} BY <1>1, <1>6, <2>1, ReturnLast DEF EndNames
    <2> QED BY <2>1, <2>2, TaskOp
  <1>8. Among(ops) = {Event(c, "RCVMINUS"), Op("alloc", new)} BY AmongIs
  <1> HIDE DEF ops
  <1>9. /\ Ops(t) = {Op("take", c), Return(s)}
        /\ Ops(t)' = {Event(c, "RCVMINUS"), Op("alloc", new), Return(s)}
    <2>1. Ops(t)' = Among(ops) \cup Rest(t) BY <1>1, <1>3, StepsOps
    <2>2. \A o : o \in Ops(t) <=> o = todo[t][1] \/ o \in Rest(t) BY <1>1, <1>6, OpsAre
    <2> QED BY <1>3, <1>7, <1>8, <2>1, <2>2
  <1>10. ASSUME NEW r PROVE Stale(r)' <=> Stale(r)
    <2>1. Closes(r) \notin Ops(t) /\ Closes(r) \notin Ops(t)'
      BY <1>9 DEF Closes, Op, Return, Event
    <2>2. ASSUME NEW u \in Task, u # t PROVE Ops(u)' = Ops(u)
      BY <1>5, <2>2, SameOps DEF SameTasks
    <2> QED BY <1>3, <2>1, <2>2 DEF Stale, Closes, Op
  <1>11. \A d \in Conn, r \in Socket : AtSocket(d, r)' <=> AtSocket(d, r)
    BY <1>3, <1>10 DEF AtSocket
  <1>12. ASSUME NEW u \in Task, NEW d \in Conn PROVE Guest(u, d)' <=> Guest(u, d) \/ (u = t /\ d = new)
    <2>1. CASE u = t
      <3>1. ~Guest(t, d) BY <1>9 DEF Guest, Op, Return
      <3>2. /\ Op("alloc", d) \in Ops(t)' <=> d = new
            /\ Op("free", d) \notin Ops(t)'
        BY <1>9 DEF Op, Return, Event
      <3>3. Guest(t, d)' <=> d = new BY <3>2 DEF Guest, Op
      <3> QED BY <2>1, <3>1, <3>3
    <2>2. CASE u # t BY <1>1, <1>3, <1>5, <2>2, GuestElse
    <2> QED BY <2>1, <2>2
  <1>13. /\ TcpipOK' /\ RequestsOK' /\ WriteOK' /\ Ops(Tcpip)' = Ops(Tcpip)
         /\ \A d \in Conn : Cleared(d)' <=> Cleared(d)
    <2>1. \A p \in Among(ops) : p.op \in {"event", "alloc"} BY <1>8 DEF Event, Op
    <2> QED BY <1>3, <1>4, <1>6, <2>1, UsualRest
  <1>14. Homes' /\ QueueOK'
    BY <1>1, <1>4, <1>11, <1>12, <1>13, HomesTaken, QueueKept DEF Owners
  <1>15. UsesOK'
    <2>1. ASSUME NEW u \in Task \ {t}, NEW o \in Ops(u) PROVE Use(u, o)'
      <3>1. HasC(o) => o.c \in Conn /\ Sock(u) \in Socket BY <1>1, UseOf
      <3>2. HasC(o) => /\ AtSocket(o.c, Sock(u)) => AtSocket(o.c, Sock(u))'
                       /\ Guest(u, o.c) => Guest(u, o.c)'
        BY <1>5, <1>11, <1>12, <3>1, SpotOf
      <3> QED BY <1>3, <3>2, OthersUse
    <2>2. ASSUME NEW o \in Ops(t)' PROVE Use(t, o)'
      <3>1. CASE o = Event(c, "RCVMINUS")
        <4>1. Use(t, todo[t][1]) BY <1>1, <1>6 DEF Owners, UsesOK
        <4>2. Holds(t, c) BY <1>3, <1>6, <4>1 DEF Use, Others, Adds, HasC, Op
        <4>3. Holds(t, c)' BY <1>5, <1>11, <1>12, <4>2, SpotOf DEF Holds
        <4>4. o.op = "event" /\ o.c = c BY <3>1 DEF Event
        <4> QED BY <4>3, <4>4 DEF Use, Adds
      <3>2. CASE o = Op("alloc", new) BY <3>2 DEF Use, Others, Adds, Op
      <3>3. CASE o = Return(s) BY <3>3 DEF Use, HasC, Return, Adds
      <3> QED BY <1>9, <3>1, <3>2, <3>3
    <2> QED BY <1>1, <1>5, <2>1, <2>2, UsesKept, SocketsAssumption DEF Owners
  <1>16. OrderOK'
    <2>1. \A o \in Among(ops) : o.op # "free" BY <1>8 DEF Event, Op
    <2>2. FreesLast(ops) BY <2>1 DEF FreesLast, Among
    <2>3. \A d : Op("free", d) \notin Among(ops) \cup Rest(t) BY <1>7, <2>1 DEF Op, Return
    <2> QED BY <1>1, <1>3, <2>1, <2>2, <2>3, OrderThen DEF Owners
  <1>17. DeleteOK'
    <2>1. ASSUME NEW d \in Conn, Gone(t, d)' PROVE FALSE
      BY <1>9, <2>1 DEF Gone, Frees, Op, Return, Event
    <2> QED BY <1>1, <1>4, <1>5, <1>13, <2>1, DeleteKept DEF Owners
  <1> QED BY <1>13, <1>14, <1>15, <1>16, <1>17 DEF Owners

LEMMA DrainOpsIs ==
    ASSUME NEW c \in Conn, NEW new \in Conn, c # new
    PROVE  LET q == Delete(new) \o <<Op("drain", c)>>
           IN  /\ Among(q) = {Asks(new, "DELCONN"), Op("await", new), Op("drain", new), Op("free", new), Op("drain", c)}
               /\ q[1] = Asks(new, "DELCONN") /\ Len(q) = 5 /\ FreesLast(q)
  <1> DEFINE q == Delete(new) \o <<Op("drain", c)>>
  <1>1. Op("drain", c) \in TaskOps BY OpTypes1 DEF CallNames
  <1>2. /\ q \in Seq(TaskOps) /\ Len(q) = 5 /\ q[1] = Asks(new, "DELCONN") /\ q[2] = Op("await", new)
        /\ q[3] = Op("drain", new) /\ q[4] = Op("free", new) /\ q[5] = Op("drain", c)
    BY <1>1, DeleteThen
  <1> HIDE DEF q
  <1>3. \A i : i \in 1 .. Len(q) <=> i = 1 \/ i = 2 \/ i = 3 \/ i = 4 \/ i = 5 BY <1>2
  <1>4. Among(q) = {q[1], q[2], q[3], q[4], q[5]} BY <1>3 DEF Among
  <1>5. FreesLast(q)
    <2> SUFFICES ASSUME NEW i \in 1 .. Len(q), NEW j \in 1 .. Len(q), i < j, q[i].op = "free", HasC(q[j])
                 PROVE  q[j].c # q[i].c
      BY DEF FreesLast
    <2>1. i = 4 BY <1>2, <1>3 DEF Asks, Op
    <2>2. j = 5 BY <1>3, <2>1
    <2>3. q[4].c = new /\ q[5].c = c BY <1>2 DEF Op
    <2> QED BY <2>1, <2>2, <2>3
  <1> QED BY <1>2, <1>4, <1>5 DEF q

(* netconn_delete takes a connection that nobody has accepted. *)
LEMMA DrainingOwners ==
    ASSUME Good, Shape', NEW t \in Task, NEW c \in Conn, todo[t][1] = Op("drain", c),
           conn[c].acceptmbox # <<>>, conn' = [conn EXCEPT ![c].acceptmbox = Tail(@)],
           NEW new, new = Head(conn[c].acceptmbox),
           Steps(t, Delete(new) \o <<Op("drain", c)>>), UNCHANGED <<sockets, mbox>>
    PROVE  Owners'
  <1> DEFINE ops == Delete(new) \o <<Op("drain", c)>>
  <1>1. Shape /\ CallsOK /\ Owners /\ Steps(t, ops) BY DEF Good
  <1>2. /\ \A d : Queued(d)' <=> Queued(d) /\ d # new
        /\ \A i, j \in 1 .. Len(Queue') : Queue'[i] = Queue'[j] => i = j
        /\ \A d \in Conn : /\ conn'[d].used = conn[d].used /\ conn'[d].pcb = conn[d].pcb
                           /\ conn'[d].reply = conn[d].reply
                           /\ conn'[d].sndbuf = conn[d].sndbuf /\ conn'[d].sem = conn[d].sem
                           /\ conn'[d].acceptmbox # <<>> => conn[d].acceptmbox # <<>>
                           /\ conn[d].acceptmbox = <<>> => conn'[d].acceptmbox = <<>>
        /\ new \in Conn /\ Queued(new) /\ c = Listener /\ c # new /\ \A u \in Task : ~Guest(u, c)
    BY QueueTail
  <1>3. /\ Among(ops) = {Asks(new, "DELCONN"), Op("await", new), Op("drain", new), Op("free", new), Op("drain", c)}
        /\ ops[1] = Asks(new, "DELCONN") /\ Len(ops) > 0 /\ FreesLast(ops)
    BY <1>2, DrainOpsIs
  <1> HIDE DEF ops
  <1>4. /\ InCall(t) /\ Sock(t)' = Sock(t) /\ SameTasks(t) /\ \A u \in Task : u # t => Sock(u)' = Sock(u)
        /\ Sock(t) \in Socket
    BY <1>1, StepsSock DEF Sock
  <1>5. todo[t][1].op = "drain" /\ todo[t][1].c = c /\ todo[t] # <<>> /\ todo[t][1] \in Ops(t)
    BY <1>1, FirstIs DEF Op
  <1>6. todo[t][2] = Op("free", c) /\ todo[t][2] \in Rest(t)
    BY <1>1, <1>5, FirstFollows, StepsOps DEF Follows
  <1>7. /\ Ops(t)' = Among(ops) \cup Rest(t) /\ todo'[t][1] = Asks(new, "DELCONN")
        /\ \A o \in Rest(t) : o \in Ops(t)
        /\ \A o \in Ops(t) : o = todo[t][1] \/ o \in Rest(t)
    BY <1>1, <1>3, <1>5, StepsOps, OpsAre
  <1>8. AtSocket(c, Sock(t)) /\ Own(t) = c
    <2>1. Uses(t, c) BY <1>1, <1>5, CallNamesUse DEF CallNames
    <2>2. Holds(t, c) BY <1>1, <2>1, HolderIs DEF Owners
    <2> QED BY <1>2, <2>2 DEF Holds, AtSocket, Own
  <1>9. \A d : /\ Op("free", d) \in Ops(t)' <=> Op("free", d) \in Ops(t) \/ d = new
               /\ Op("alloc", d) \in Ops(t)' <=> Op("alloc", d) \in Ops(t)
               /\ Closes(d) \in Ops(t)' <=> Closes(d) \in Ops(t)
               /\ Closes(d) \notin Among(ops)
    <2>1. \A o : o.op \in Marks => (o \in Ops(t) <=> o \in Rest(t)) BY <1>5, <1>7 DEF Marks
    <2>2. \A d : Op("free", d).op \in Marks /\ Op("alloc", d).op \in Marks /\ Closes(d).op \in Marks
      BY DEF Marks, Op, Closes
    <2>3. \A d : Op("free", d) \in Among(ops) <=> d = new BY <1>3 DEF Op, Asks
    <2>4. \A d : Op("alloc", d) \notin Among(ops) /\ Closes(d) \notin Among(ops)
      BY <1>3 DEF Op, Asks, Closes
    <2> QED BY <1>7, <2>1, <2>2, <2>3, <2>4
  <1>10. ASSUME NEW r \in Socket PROVE Stale(r)' <=> Stale(r)
    <2>1. CASE r # Sock(t) BY <1>1, <1>9, <2>1, StaleElse
    <2>2. CASE r = Sock(t)
      <3>1. sockets[r].conn = c /\ sockets'[r].conn = c BY <1>8, <2>2 DEF Own
      <3>2. Closes(r) \in Ops(t)' /\ Op("free", c) \notin Ops(t)' <=> Closes(r) \in Ops(t) /\ Op("free", c) \notin Ops(t)
        BY <1>2, <1>9
      <3>3. ASSUME NEW u \in Task, u # t PROVE Ops(u)' = Ops(u)
        BY <1>4, <3>3, SameOps DEF SameTasks
      <3> QED BY <3>1, <3>2, <3>3 DEF Stale, Closes, Op
    <2> QED BY <2>1, <2>2
  <1>11. \A d \in Conn, r \in Socket : AtSocket(d, r)' <=> AtSocket(d, r)
    BY <1>10 DEF AtSocket
  <1>12. Own(t)' = c BY <1>4, <1>8 DEF Own
  <1>13. ASSUME NEW u \in Task, NEW d \in Conn PROVE Guest(u, d)' <=> Guest(u, d) \/ (u = t /\ d = new)
    <2>1. CASE u = t
      <3>1. Guest(t, d)' <=> Op("alloc", d) \in Ops(t)' \/ (Op("free", d) \in Ops(t)' /\ c # d)
        BY <1>12 DEF Guest, Op
      <3> QED BY <1>2, <1>8, <1>9, <2>1, <3>1 DEF Guest
    <2>2. CASE u # t BY <1>1, <1>4, <2>2, GuestElse
    <2> QED BY <2>1, <2>2
  <1>14. /\ TcpipOK' /\ RequestsOK' /\ WriteOK' /\ Ops(Tcpip)' = Ops(Tcpip)
         /\ \A d \in Conn : Cleared(d)' <=> Cleared(d)
    <2>1. \A p \in Among(ops) : /\ p.op \notin {"room", "freesem"}
                                /\ ~(p.op = "ask" /\ p.type = "WRITE")
      BY <1>3 DEF Asks, Op
    <2> QED BY <1>1, <1>2, <1>5, <2>1, UsualRest
  <1>15. Homes' /\ QueueOK'
    BY <1>1, <1>2, <1>11, <1>13, <1>14, HomesTaken, QueueKept DEF Owners
  <1>16. ASSUME NEW d \in Conn, NEW u \in Task, NEW r, r = Sock(u), r \in Socket PROVE Holds(u, d) => Holds(u, d)'
    <2>1. Sock(u)' = Sock(u) BY <1>4
    <2>2. AtSocket(d, Sock(u))' <=> AtSocket(d, r)' BY <1>16, <2>1, SpotOf
    <2> QED BY <1>11, <1>13, <1>16, <2>2 DEF Holds
  <1>17. UsesOK'
    <2>1. ASSUME NEW u \in Task \ {t}, NEW o \in Ops(u) PROVE Use(u, o)'
      <3>1. HasC(o) => o.c \in Conn /\ Sock(u) \in Socket BY <1>1, UseOf
      <3>2. HasC(o) => /\ AtSocket(o.c, Sock(u)) => AtSocket(o.c, Sock(u))'
                       /\ Guest(u, o.c) => Guest(u, o.c)'
        BY <1>4, <1>11, <1>13, <3>1, SpotOf
      <3> QED BY <1>1, <3>2, OthersUse
    <2>2. ASSUME NEW o \in Ops(t) PROVE Use(t, o)'
      <3>1. HasC(o) => o.c \in Conn BY <1>1, UseOf
      <3>2. Use(t, o) BY <1>1 DEF Owners, UsesOK
      <3>3. o.op \in Adds => Unused(o.s)' /\ sockets'[o.s].conn = o.c
        <4>1. o.op \in Adds => Unused(o.s) /\ sockets[o.s].conn = o.c BY <3>2 DEF Use
        <4>2. Unused(o.s) => Unused(o.s)' BY <1>1, StepsSock
        <4> QED BY <4>1, <4>2
      <3>4. HasC(o) /\ o.op \notin Others => Holds(t, o.c)'
        BY <1>4, <1>16, <3>1, <3>2 DEF Use
      <3> QED BY <3>3, <3>4 DEF Use, HasC
    <2>3. ASSUME NEW o \in Among(ops) PROVE Use(t, o)'
      <3>1. CASE o = Op("drain", c)
        <4>1. o \in Ops(t) BY <1>5, <3>1
        <4> QED BY <2>2, <4>1
      <3>2. CASE o # Op("drain", c)
        <4>1. o.c = new /\ o.op \in {"ask", "await", "drain", "free"}
          BY <1>3, <2>3, <3>2 DEF Op, Asks
        <4>2. Holds(t, new)' BY <1>2, <1>13 DEF Holds
        <4> QED BY <4>1, <4>2 DEF Use, Adds
      <3> QED BY <3>1, <3>2
    <2>4. \A o \in Ops(t)' : Use(t, o)' BY <1>7, <2>2, <2>3
    <2> QED BY <1>1, <1>4, <2>1, <2>4, UsesKept, SocketsAssumption DEF Owners
  <1>18. OrderOK'
    <2>1. ASSUME NEW p \in Rest(t), HasC(p) PROVE p.c # new
      <3>1. p \in Ops(t) BY <1>7
      <3> QED BY <1>2, <2>1, <3>1, AllHeld
    <2>2. \A o \in Among(ops) : o.op = "free" => o.c = new BY <1>3 DEF Asks, Op
    <2>3. Closes(Sock(t)) \in Rest(t)
      <3>1. Op("free", c) \in Ops(t) BY <1>6, <1>7
      <3>2. Closes(Sock(t)) \in Ops(t) BY <1>1, <3>1 DEF Owners, OrderOK, ClosesLast
      <3> QED BY <1>5, <1>7, <3>2 DEF Closes
    <2> QED BY <1>1, <1>3, <2>1, <2>2, <2>3, OrderThen DEF Owners
  <1>19. DeleteOK'
    <2>1. ASSUME NEW d \in Conn, Gone(t, d)'
          PROVE  Cleared(d)' /\ (todo'[t][1] = Op("free", d) => conn'[d].acceptmbox = <<>>)
      <3>1. Op("free", d) \in Ops(t) \/ d = new BY <1>9, <2>1 DEF Gone, Frees, Op
      <3>2. todo'[t][1].op = "ask" /\ todo'[t][1].c = new /\ Op("free", d).op = "free"
        BY <1>7 DEF Asks, Op
      <3>3. d # new BY <2>1, <3>2 DEF Gone
      <3>4. Gone(t, d) BY <1>5, <3>1, <3>3 DEF Gone, Frees
      <3> QED BY <1>1, <1>14, <3>2, <3>4 DEF Owners, DeleteOK
    <2> QED BY <1>1, <1>2, <1>4, <1>14, <2>1, DeleteKept DEF Owners
  <1> QED BY <1>14, <1>15, <1>17, <1>18, <1>19 DEF Owners

LEMMA DrainOwners ==
    ASSUME Good, NEW t \in Task, NEW c \in Conn, OnConn(t, c), Drain(t, c)
    PROVE  Owners'
  <1>1. Shape BY DEF Good
  <1>2. PICK new : new = Head(conn[c].acceptmbox) OBVIOUS
  <1>3. /\ Shape' /\ todo[t][1] = Op("drain", c) /\ UNCHANGED <<sockets, mbox>>
        /\ \/ /\ conn[c].acceptmbox # <<>>
              /\ conn' = [conn EXCEPT ![c].acceptmbox = Tail(@)]
              /\ Steps(t, Delete(new) \o <<Op("drain", c)>>)
           \/ /\ conn[c].acceptmbox = <<>>
              /\ conn' = [conn EXCEPT ![c].recvmbox = <<>>, ![c].recv = FALSE]
              /\ Steps(t, <<>>)
    BY <1>1, <1>2, DrainIs
  <1> QED BY <1>2, <1>3, DrainingOwners, DrainedOwners

(* netconn_delete's end: the netconn is in no place any more. *)
LEMMA HomesFreed ==
    ASSUME Homes, NEW c \in Conn, Held(c),
           \A d \in Conn, r \in Socket : AtSocket(d, r)' <=> AtSocket(d, r) /\ d # c,
           \A u \in Task, d \in Conn : Guest(u, d)' <=> Guest(u, d) /\ d # c,
           \A d \in Conn : conn'[d].used <=> conn[d].used /\ d # c,
           Queue' = Queue, Ops(Tcpip)' = Ops(Tcpip)
    PROVE  Homes'
  <1> SUFFICES ASSUME NEW d \in Conn
               PROVE  (/\ \A s, r \in Socket : AtSocket(d, s) /\ AtSocket(d, r) => s = r
                       /\ \A v, u \in Task : Guest(v, d) /\ Guest(u, d) => v = u
                       /\ \A s \in Socket, v \in Task : ~(AtSocket(d, s) /\ Guest(v, d))
                       /\ Queued(d) \/ Offered(d) => ~Held(d)
                       /\ ~(Queued(d) /\ Offered(d))
                       /\ conn[d].used <=> Held(d) \/ Queued(d) \/ Offered(d))'
    BY DEF Homes
  <1>1. /\ \A s, r \in Socket : AtSocket(d, s) /\ AtSocket(d, r) => s = r
        /\ \A v, u \in Task : Guest(v, d) /\ Guest(u, d) => v = u
        /\ \A s \in Socket, v \in Task : ~(AtSocket(d, s) /\ Guest(v, d))
        /\ Queued(d) \/ Offered(d) => ~Held(d)
        /\ ~(Queued(d) /\ Offered(d))
        /\ conn[d].used <=> Held(d) \/ Queued(d) \/ Offered(d)
    BY DEF Homes
  <1>2. Held(d)' <=> (\E s \in Socket : AtSocket(d, s)') \/ (\E v \in Task : Guest(v, d)')
    BY DEF Held
  <1>3. Held(d)' <=> Held(d) /\ d # c BY <1>2 DEF Held
  <1>4. (Queued(d)' <=> Queued(d)) /\ (Offered(d)' <=> Offered(d)) BY DEF Queued, Offered
  <1> QED BY <1>1, <1>3, <1>4

LEMMA FreeNetconnOwners ==
    ASSUME Good, NEW t \in Task, NEW c \in Conn, OnConn(t, c), FreeNetconn(t, c)
    PROVE  Owners'
  <1>1. Shape /\ CallsOK /\ Owners BY DEF Good
  <1>2. /\ Shape' /\ Steps(t, <<>>) /\ todo[t][1] = Op("free", c)
        /\ conn' = [conn EXCEPT ![c] = FreeConn] /\ UNCHANGED <<sockets, mbox>>
    BY <1>1, FreeNetconnIs
  <1>3. /\ InCall(t) /\ Sock(t)' = Sock(t) /\ SameTasks(t) /\ \A u \in Task : u # t => Sock(u)' = Sock(u)
        /\ Sock(t) \in Socket
    BY <1>1, <1>2, StepsSock DEF Sock
  <1>4. /\ todo[t][1].op = "free" /\ todo[t][1].c = c /\ todo[t] # <<>> /\ todo[t][1] \in Ops(t)
        /\ conn \in [Conn -> ConnType]
    BY <1>1, <1>2, FirstIs DEF Op
  <1>5. /\ Ops(t)' = Rest(t) /\ todo'[t][1] = todo[t][2]
        /\ \A o \in Rest(t) : o \in Ops(t)
        /\ \A o \in Ops(t) : o = Op("free", c) \/ o \in Rest(t)
    <2>1. Ops(t)' = Among(<<>>) \cup Rest(t) /\ (Len(<<>>) = 0 => todo'[t][1] = todo[t][2])
      BY <1>1, <1>2, StepsOps
    <2>2. Len(<<>>) = 0 /\ Among(<<>>) = {} BY AmongIs
    <2>3. /\ \A o \in Rest(t) : o \in Ops(t)
          /\ \A o \in Ops(t) : o = todo[t][1] \/ o \in Rest(t)
      BY <1>1, <1>4, OpsAre
    <2> QED BY <1>2, <2>1, <2>2, <2>3
  <1>6. ASSUME NEW p \in Rest(t), HasC(p) PROVE p.c # c
    <2>1. PICK j \in 2 .. Len(todo[t]) : p = todo[t][j] BY DEF Rest, Later
    <2>2. Len(todo[t]) \in Nat /\ 1 \in 1 .. Len(todo[t]) /\ j \in 1 .. Len(todo[t]) /\ 1 < j
      BY <1>1, <1>4, <2>1 DEF Shape, OpTypes
    <2>3. FreesLast(todo[t]) BY <1>1 DEF Owners, OrderOK
    <2> QED BY <1>4, <1>6, <2>1, <2>2, <2>3 DEF FreesLast
  <1>7. Op("free", c) \notin Ops(t)' /\ Op("alloc", c) \notin Ops(t)'
    <2>1. /\ HasC(Op("free", c)) /\ Op("free", c).c = c
          /\ HasC(Op("alloc", c)) /\ Op("alloc", c).c = c
      BY DEF HasC, Op
    <2> QED BY <1>5, <1>6, <2>1
  <1>8. /\ \A d : d # c => (Op("free", d) \in Ops(t)' <=> Op("free", d) \in Ops(t))
        /\ \A d : Op("alloc", d) \in Ops(t)' <=> Op("alloc", d) \in Ops(t)
        /\ \A d : Closes(d) \in Ops(t)' <=> Closes(d) \in Ops(t)
    BY <1>5 DEF Op, Closes
  <1>9. Frees(t, c) /\ Closes(Sock(t)) \in Ops(t)
    <2>1. Op("free", c) \in Ops(t) BY <1>2, <1>4
    <2> QED BY <1>1, <2>1 DEF Frees, Owners, OrderOK, ClosesLast
  <1>10. Cleared(c) /\ conn[c].acceptmbox = <<>>
    <2>1. Gone(t, c) BY <1>4, <1>9 DEF Gone
    <2> QED BY <1>1, <1>2, <2>1 DEF Owners, DeleteOK
  <1>11. Uses(t, c) /\ Holds(t, c) /\ Held(c) /\ conn[c].used
    BY <1>1, <1>9, FreesUse, HolderIs, HeldIs DEF Owners
  <1>12. conn'[c] = FreeConn /\ \A d \in Conn : d # c => conn'[d] = conn[d] BY <1>2, <1>4
  <1>13. /\ conn'[c].used = FALSE /\ conn'[c].pcb = NULL /\ conn'[c].acceptmbox = <<>>
         /\ conn'[c].reply = 0 /\ conn'[c].sndbuf = 2 /\ conn'[c].sem = -1
    BY <1>12 DEF FreeConn
  <1>14. ASSUME NEW d \in Conn, NEW r \in Socket PROVE AtSocket(d, r)' <=> AtSocket(d, r) /\ d # c
    <2>1. CASE r = Sock(t)
      <3>1. ASSUME NEW u \in Task, u # t PROVE Ops(u)' = Ops(u) /\ Closes(r) \notin Ops(u)
        BY <1>1, <1>3, <2>1, <3>1, SameOps, ClosesCall DEF SameTasks, CallsOK
      <3>2. Stale(r)' <=> Closes(r) \in Ops(t)' /\ Op("free", sockets[r].conn) \notin Ops(t)'
        BY <1>2, <3>1 DEF Stale, Closes, Op
      <3>3. Stale(r) <=> Closes(r) \in Ops(t) /\ Op("free", sockets[r].conn) \notin Ops(t)
        BY <1>1, <1>3, <2>1, StaleOwn
      <3>4. CASE d = c
        <4>1. ~AtSocket(d, r)' BY <1>2, <1>7, <1>8, <1>9, <2>1, <3>2, <3>4 DEF AtSocket
        <4> QED BY <3>4, <4>1
      <3>5. CASE d # c BY <1>2, <1>8, <3>2, <3>3, <3>5 DEF AtSocket
      <3> QED BY <3>4, <3>5
    <2>2. CASE r # Sock(t)
      <3>1. Stale(r)' <=> Stale(r) BY <1>1, <1>2, <2>2, AmongIs, StaleElse
      <3>2. ~AtSocket(c, r) BY <1>1, <1>3, <1>11, <2>2 DEF Holds, Owners, Homes
      <3> QED BY <1>2, <3>1, <3>2 DEF AtSocket
    <2> QED BY <2>1, <2>2
  <1>15. ASSUME NEW u \in Task, NEW d \in Conn PROVE Guest(u, d)' <=> Guest(u, d) /\ d # c
    <2>1. CASE u = t
      <3>1. Own(t)' = Own(t) BY <1>2, <1>3 DEF Own
      <3>2. Guest(t, d)' <=> Op("alloc", d) \in Ops(t)' \/ (Op("free", d) \in Ops(t)' /\ Own(t) # d)
        BY <3>1 DEF Guest, Op
      <3> QED BY <1>7, <1>8, <2>1, <3>2 DEF Guest
    <2>2. CASE u # t
      <3>1. Guest(u, d)' <=> Guest(u, d) BY <1>1, <1>2, <1>3, <2>2, GuestElse
      <3>2. ~Guest(u, c) BY <1>1, <1>3, <1>11, <2>2 DEF Holds, Owners, Homes
      <3> QED BY <3>1, <3>2
    <2> QED BY <2>1, <2>2
  <1>16. Queue' = Queue BY <1>10, <1>12, <1>13, SocketsAssumption DEF Queue
  <1>17. todo'[Tcpip] = todo[Tcpip] /\ Ops(Tcpip)' = Ops(Tcpip)
    BY <1>3, SameOps, SocketsAssumption DEF SameTasks
  <1>18. Homes'
    <2>1. \A d \in Conn : conn'[d].used <=> conn[d].used /\ d # c BY <1>12, <1>13
    <2> QED BY <1>1, <1>11, <1>14, <1>15, <1>16, <1>17, <2>1, HomesFreed DEF Owners
  <1>19. QueueOK'
    <2>1. \A i, j \in 1 .. Len(Queue') : Queue'[i] = Queue'[j] => i = j
      BY <1>1, <1>16 DEF Owners, QueueOK
    <2>2. ASSUME NEW d \in Conn, conn'[d].pcb = "LISTEN" \/ conn'[d].acceptmbox # <<>>
          PROVE  d = Listener /\ \E r \in Socket : AtSocket(d, r)'
      <3>1. d # c BY <1>13, <2>2 DEF NULL
      <3> QED BY <1>1, <1>12, <1>14, <2>2, <3>1 DEF Owners, QueueOK
    <2>3. \A d \in Conn : conn'[d].pcb # NULL => conn'[d].used
      BY <1>1, <1>12, <1>13 DEF Owners, QueueOK
    <2> QED BY <2>1, <2>2, <2>3 DEF QueueOK
  <1>20. ASSUME NEW u \in Task, NEW o \in Ops(u), u # t, HasC(o), o.op \notin Others PROVE o.c # c
    BY <1>11, <1>20, NotOther DEF Uses
  <1>21. UsesOK'
    <2>1. ASSUME NEW u \in Task \ {t}, NEW o \in Ops(u) PROVE Use(u, o)'
      <3>1. HasC(o) => o.c \in Conn /\ Sock(u) \in Socket BY <1>1, UseOf
      <3>2. HasC(o) /\ o.op \notin Others => /\ AtSocket(o.c, Sock(u)) => AtSocket(o.c, Sock(u))'
                                             /\ Guest(u, o.c) => Guest(u, o.c)'
        BY <1>3, <1>14, <1>15, <1>20, <3>1, SpotOf
      <3> QED BY <1>2, <3>2, OthersUse
    <2>2. ASSUME NEW o \in Rest(t) PROVE Use(t, o)'
      <3>1. o \in Ops(t) /\ Use(t, o) BY <1>1, <1>5 DEF Owners, UsesOK
      <3>2. HasC(o) => o.c \in Conn /\ o.c # c BY <1>1, <1>6, <3>1, UseOf
      <3>3. o.op \in Adds => Unused(o.s)' /\ sockets'[o.s].conn = o.c
        <4>1. Unused(o.s) => Unused(o.s)' BY <1>1, <1>2, StepsSock
        <4> QED BY <1>2, <3>1, <4>1 DEF Use
      <3>4. HasC(o) /\ o.op \notin Others => Holds(t, o.c)'
        BY <1>3, <1>14, <1>15, <3>1, <3>2, SpotOf DEF Use, Holds
      <3> QED BY <3>3, <3>4 DEF Use, HasC
    <2> QED BY <1>1, <1>3, <1>5, <2>1, <2>2, UsesKept, SocketsAssumption DEF Owners
  <1>22. OrderOK'
    <2>1. FreesLast(<<>>) BY DEF FreesLast
    <2>2. Closes(Sock(t)) \in Rest(t) BY <1>5, <1>9 DEF Closes, Op
    <2> QED BY <1>1, <1>2, <2>1, <2>2, AmongIs, OrderThen DEF Owners
  <1>23. TcpipOK'
    <2>1. ASSUME NEW o \in Ops(Tcpip), HasC(o)
          PROVE  conn'[o.c].used = conn[o.c].used /\ conn'[o.c].pcb = conn[o.c].pcb
      <3>1. o.c \in Conn /\ o.c # c BY <1>1, <1>10, <2>1, TcpipOpsAre DEF Cleared
      <3> QED BY <1>12, <3>1
    <2> QED BY <1>1, <1>17, <2>1, TcpipSame DEF Owners
  <1>24. RequestsOK'
    <2>1. \A d \in Conn : ~Awaits(t, d) BY <1>4 DEF Awaits, Op
    <2>2. \A d \in Conn : /\ conn'[d].reply \in {conn[d].reply, 0}
                          /\ conn[d].pcb = NULL => conn'[d].pcb = NULL
      BY <1>12, <1>13
    <2> QED BY <1>1, <1>2, <1>3, <2>1, <2>2, RequestsSame DEF Owners
  <1>25. \A d \in Conn : Cleared(d) => Cleared(d)' BY <1>12, <1>13, <1>17 DEF Cleared, HasC
  <1>26. DeleteOK'
    <2>1. ASSUME NEW d \in Conn, Gone(t, d)'
          PROVE  Cleared(d)' /\ (todo'[t][1] = Op("free", d) => conn'[d].acceptmbox = <<>>)
      <3>1. Op("free", d) \in Ops(t)' BY <2>1 DEF Gone, Frees, Op
      <3>2. d # c /\ Op("free", d) \in Ops(t) BY <1>5, <1>7, <3>1
      <3>3. Gone(t, d) BY <1>4, <3>2 DEF Gone, Frees
      <3>4. todo'[t][1] # Op("free", d)
        <4>1. todo[t][2].op \in {"drain", "closed"}
          BY <1>1, <1>2, <1>4, FirstFollows DEF Follows
        <4> QED BY <1>5, <4>1 DEF Op
      <3> QED BY <1>1, <1>25, <3>3, <3>4 DEF Owners, DeleteOK
    <2>2. \A d \in Conn : conn[d].acceptmbox = <<>> => conn'[d].acceptmbox = <<>>
      BY <1>12, <1>13
    <2> QED BY <1>1, <1>3, <1>25, <2>1, <2>2, DeleteKept DEF Owners
  <1>27. WriteOK'
    <2>1. WriteOK BY <1>1 DEF Owners
    <2>2. SemOK(t)'
      <3>1. ASSUME NEW p \in Rest(t), p.op \in {"room", "freesem"} PROVE conn'[p.c].sem # -1
        <4>1. p \in Ops(t) /\ HasC(p) /\ p.c \in Conn
          BY <1>1, <1>5, <3>1, OpsAre, TaskOp DEF CallNames
        <4> QED BY <1>6, <1>12, <2>1, <3>1, <4>1 DEF WriteOK, SemOK
      <3> QED BY <1>1, <1>2, <3>1, AmongIs, SemSteps
    <2>3. AskOK(t)' BY <1>1, <1>2, <2>1, AskSteps DEF WriteOK
    <2>4. Ranges' BY <1>12, <1>13, <2>1 DEF WriteOK, Ranges, Room
    <2>5. ASSUME NEW u \in Task \ {t}, NEW d \in Conn, Uses(u, d) PROVE d # c
      BY <1>11, <2>5, NotOther
    <2>6. \A i \in 1 .. Len(mbox) : conn[mbox[i].c].sndbuf # 0 => conn'[mbox[i].c].sndbuf # 0
      BY <1>1, <1>12, <1>13, MboxIs
    <2> QED BY <1>1, <1>2, <1>3, <1>12, <2>1, <2>2, <2>3, <2>4, <2>5, <2>6, WriteKept
  <1> QED BY <1>18, <1>19, <1>21, <1>22, <1>23, <1>24, <1>26, <1>27 DEF Owners

-----------------------------------------------------------------------------
(* The beginning and the end of a call, and lwip_select *)

LEMMA StillOwners ==
    ASSUME Good, UNCHANGED <<conn, todo, mbox>>, \A s \in Socket : sockets'[s].conn = sockets[s].conn
    PROVE  Owners'
  <1>1. Shape /\ Owners BY DEF Good
  <1>2. SameSpots /\ UsesOK' /\ OrderOK' BY <1>1, TasksStill DEF Owners
  <1>3. \A u \in Task \cup {Tcpip} : Ops(u)' = Ops(u) BY SameOps
  <1>4. Homes' /\ QueueOK'
    <2>1. Queue' = Queue /\ (\A c \in Conn : conn'[c].used = conn[c].used) /\ \A c \in Conn : SameUse(c)
      BY DEF Queue, SameUse
    <2> QED BY <1>1, <1>2, <1>3, <2>1, HomesSame, QueueSame DEF Owners
  <1>5. TcpipOK' BY <1>1, TcpipSame DEF Owners
  <1>6. RequestsOK'
    <2>1. \A u \in Task : \A c : (Awaits(u, c)' <=> Awaits(u, c)) /\ (Frees(u, c)' <=> Frees(u, c))
      BY SameOps
    <2>2. \A m : RequestOK(m) => (\E u \in Task : Awaits(u, m.c)' /\ (m.type = "DELCONN" <=> Frees(u, m.c)'))
      BY <2>1 DEF RequestOK
    <2>3. \A c \in Conn : Answered(c) => Answered(c)' BY <2>1 DEF Answered
    <2>4. \A c : Asked(c)' <=> Asked(c) BY DEF Asked
    <2>5. \A i \in 1 .. Len(mbox') : RequestOK(mbox[i])'
      BY <1>1, <2>2 DEF RequestOK, Owners, RequestsOK
    <2>6. \A c \in Conn : Op("answer", c) \in Ops(Tcpip)' => Op("answer", c) \in Ops(Tcpip)
      BY <1>3
    <2>7. ASSUME NEW c \in Conn
          PROVE  /\ Op("answer", c) \in Ops(Tcpip)' => ~Asked(c)' /\ conn'[c].reply = 0 /\ Answered(c)'
                 /\ conn'[c].reply # 0 => conn'[c].reply = 1 /\ ~Asked(c)' /\ Answered(c)'
      BY <1>1, <2>3, <2>4, <2>6 DEF Owners, RequestsOK
    <2>8. \A i, j \in 1 .. Len(mbox') : mbox'[i].c = mbox'[j].c => i = j
      BY <1>1 DEF Owners, RequestsOK
    <2> QED BY <2>5, <2>7, <2>8 DEF RequestsOK, Op
  <1>7. DeleteOK' BY <1>1 DEF Owners, DeleteOK, Gone, Cleared, Frees, Ops, Among, Op, HasC
  <1>8. WriteOK' BY <1>1 DEF Owners, WriteOK, SemOK, AskOK, Ranges, Ops, Among
  <1> QED BY <1>2, <1>4, <1>5, <1>6, <1>7, <1>8 DEF Owners

LEMMA OutsideOwners ==
    ASSUME Good, Shape', NEW t \in Task, SameTasks(t), UNCHANGED <<conn, sockets, mbox>>,
           \A o \in Ops(t) : o.op \in EndNames,
           \A o \in Ops(t)' : o.op \in Outside /\ Use(t, o)',
           \A u \in Task \ {t} : \A o \in Ops(u) : o.op \in Adds => Unused(o.s)'
    PROVE  Owners'
  <1>1. Shape /\ Owners BY DEF Good
  <1>2. \A u \in Task \ {t} : todo'[u] = todo[u] /\ Ops(u)' = Ops(u) /\ Sock(u)' = Sock(u)
    BY SameOps DEF SameTasks, Sock
  <1>3. todo'[Tcpip] = todo[Tcpip] /\ Ops(Tcpip)' = Ops(Tcpip)
    BY SameOps, SocketsAssumption DEF SameTasks
  <1>4. /\ \A c : ~Frees(t, c) /\ Op("free", c) \notin Ops(t)'
        /\ \A c : ~Frees(t, c)'
    <2>1. \A c : Op("free", c) \notin Ops(t) /\ Op("free", c) \notin Ops(t)'
      BY DEF EndNames, Outside, Op
    <2> QED BY <2>1 DEF Frees, Op
  <1>5. SameMarks
    <2>1. ASSUME NEW u \in Task, NEW o, o.op \in Marks PROVE o \in Ops(u)' <=> o \in Ops(u)
      <3>1. CASE u = t BY <2>1, <3>1 DEF Marks, EndNames, Outside
      <3>2. CASE u # t BY <1>2, <3>2
      <3> QED BY <3>1, <3>2
    <2>2. ASSUME NEW u \in Task, NEW c, Frees(u, c) PROVE Sock(u)' = Sock(u)
      BY <1>2, <1>4, <2>2
    <2> QED BY <2>1, <2>2 DEF SameMarks
  <1>6. SameSpots BY <1>1, <1>5, SpotsSame
  <1>7. Homes' /\ QueueOK'
    <2>1. Queue' = Queue /\ (\A c \in Conn : conn'[c].used = conn[c].used) /\ \A c \in Conn : SameUse(c)
      BY DEF Queue, SameUse
    <2> QED BY <1>1, <1>3, <1>6, <2>1, HomesSame, QueueSame DEF Owners
  <1>8. UsesOK'
    <2>1. ASSUME NEW u \in Task \ {t}, NEW o \in Ops(u), Use(u, o) PROVE Use(u, o)'
      BY <1>1, <1>2, <1>6, <2>1, UseSame
    <2> QED BY <1>1, <2>1, UsesKept, SocketsAssumption DEF Owners
  <1>9. OrderOK'
    <2>1. ASSUME NEW u \in Task PROVE FreesLast(todo'[u]) /\ ClosesLast(u)'
      <3>1. CASE u = t
        <4>1. \A i \in 1 .. Len(todo'[t]) : todo'[t][i].op # "free"
          <5>1. \A i \in 1 .. Len(todo'[t]) : todo'[t][i] \in Ops(t)' BY DEF Ops, Among
          <5> QED BY <5>1 DEF Outside
        <4> QED BY <1>4, <3>1, <4>1 DEF FreesLast, ClosesLast, Op
      <3>2. CASE u # t
        <4>1. FreesLast(todo[u]) /\ ClosesLast(u) BY <1>1 DEF Owners, OrderOK
        <4> QED BY <1>2, <3>2, <4>1 DEF ClosesLast, Closes, Op
      <3> QED BY <3>1, <3>2
    <2> QED BY <2>1 DEF OrderOK, FreesLast, HasC
  <1>10. TcpipOK' BY <1>1, <1>3, TcpipSame DEF Owners
  <1>11. RequestsOK'
    <2>1. \A c \in Conn : ~Awaits(t, c) BY <1>1, OpsAre DEF Awaits, Op, EndNames
    <2> QED BY <1>1, <2>1, RequestsSame DEF Owners
  <1>12. DeleteOK'
    <2>1. \A c \in Conn : (Cleared(c)' <=> Cleared(c)) /\ ~Gone(t, c)'
      BY <1>3, <1>4, ClearedSame DEF Gone
    <2> QED BY <1>1, <2>1, DeleteKept DEF Owners
  <1>13. WriteOK'
    <2>1. SemOK(t)' BY DEF SemOK, Outside
    <2>2. AskOK(t)'
      <3>1. \A i \in 1 .. Len(todo'[t]) : todo'[t][i] \in Ops(t)' BY DEF Ops, Among
      <3> QED BY <3>1 DEF AskOK, Outside
    <2>3. WriteOK /\ Ranges' BY <1>1 DEF Owners, WriteOK, Ranges
    <2> QED BY <1>1, <2>1, <2>2, <2>3, WriteKept
  <1> QED BY <1>7, <1>8, <1>9, <1>10, <1>11, <1>12, <1>13 DEF Owners

(* A task ends a call, or goes through lwip_select. *)
LEMMA EndsOwners ==
    ASSUME Good, Shape', NEW t \in Task, \A u \in (Task \cup {Tcpip}) \ {t} : todo'[u] = todo[u],
           UNCHANGED <<conn, sockets, mbox>>,
           todo[t] = <<>> \/ (Len(todo[t]) = 1 /\ todo[t][1].op \in EndNames),
           todo'[t] = <<>> \/ (Len(todo'[t]) = 1 /\ todo'[t][1].op \in {"asleep", "leave"})
    PROVE  Owners'
  <1>1. Shape /\ Owners /\ SameTasks(t) BY DEF Good, SameTasks
  <1>2. \A o \in Ops(t) : o.op \in EndNames BY DEF Ops, Among
  <1>3. \A o \in Ops(t)' : o.op \in {"asleep", "leave"} BY DEF Ops, Among
  <1>4. \A o \in Ops(t)' : o.op \in Outside /\ Use(t, o)'
    <2>1. ASSUME NEW o \in Ops(t)' PROVE ~HasC(o) /\ o.op \notin Adds
      <3>1. o \in TaskOps
        <4>1. todo'[t] \in Seq(TaskOps) BY DEF Shape, OpTypes
        <4> QED BY <2>1, <4>1 DEF Ops, Among
      <3> QED BY <1>3, <2>1, <3>1, TaskOp DEF CallNames, Adds
    <2> QED BY <1>3, <2>1 DEF Outside, Use, HasC
  <1>5. ~InCall(t)' BY DEF InCall
  <1>6. ASSUME NEW u \in Task \ {t}, NEW o \in Ops(u), o.op \in Adds PROVE Unused(o.s)'
    <2>1. Unused(o.s) BY <1>1, <1>6 DEF Owners, UsesOK, Use
    <2>2. ASSUME NEW s, Unused(s) PROVE Unused(s)'
      <3>1. \A v \in Task : v # t => todo'[v] = todo[v] OBVIOUS
      <3> QED BY <1>5, <2>2, <3>1 DEF Unused, InCall, Sock
    <2> QED BY <2>1, <2>2
  <1> QED BY <1>1, <1>2, <1>4, <1>6, OutsideOwners

(* A call begins on a socket that nobody else is in a call on. *)
LEMMA UsableIs ==
    ASSUME Good, NEW s \in Socket, Usable(s)
    PROVE  /\ \A u \in Task : ~(InCall(u) /\ Sock(u) = s)
           /\ \A u \in Task : \A o \in Ops(u) : o.op \in Adds => o.s # s
  <1>1. Shape /\ Owners BY DEF Good
  <1>2. ASSUME NEW u \in Task, InCall(u), Sock(u) = s PROVE FALSE
    <2>1. todo[u] # <<>> /\ todo[u][Len(todo[u])] = Return(s)
      BY <1>1, <1>2, CallSocket DEF InCall
    <2>2. Last(todo[u]) = todo[u][Len(todo[u])] BY DEF Last
    <2> QED BY <2>1, <2>2 DEF Usable
  <1>3. ASSUME NEW u \in Task, NEW o \in Ops(u), o.op \in Adds, o.s = s PROVE FALSE
    <2>1. Use(u, o) /\ o \in TaskOps BY <1>1, <1>3, OpsAre DEF Owners, UsesOK
    <2>2. sockets[s].conn = o.c BY <1>3, <2>1 DEF Use
    <2>3. o = Adopt(sockets[s].conn, s) \/ o = Publish(sockets[s].conn, s)
      BY <1>3, <2>1, <2>2, TaskOp DEF Adds
    <2>4. PICK i \in 1 .. Len(todo[u]) : o = todo[u][i] BY <1>3 DEF Ops, Among
    <2>5. i \in DOMAIN todo[u] BY <1>1, <2>4 DEF Shape, OpTypes
    <2> QED BY <2>3, <2>4, <2>5 DEF Usable, Returned
  <1> QED BY <1>2, <1>3

LEMMA BeginCallOwners ==
    ASSUME Good, NEW t \in Task, BeginCall(t)
    PROVE  Owners'
  <1>1. Shape /\ CallsOK /\ Owners BY DEF Good
  <1>2. /\ Shape' /\ UNCHANGED <<conn, mbox>>
        /\ \A s \in Socket : sockets'[s] = [sockets[s] EXCEPT !.lastdata = sockets'[s].lastdata]
        /\ \/ UNCHANGED todo
           \/ /\ todo[t] = <<>> /\ UNCHANGED sockets
              /\ \A u \in (Task \cup {Tcpip}) \ {t} : todo'[u] = todo[u]
              /\ \E s \in Socket, o \in TaskOps :
                   /\ Usable(s) /\ todo'[t] = <<o, Return(s)>>
                   /\ \/ o = Op("take", Listener) /\ sockets[s].conn = Listener
                      \/ o = Op("fetch", sockets[s].conn)
                      \/ o = Op("write", sockets[s].conn)
                      \/ o = [op |-> "close", s |-> s]
    BY <1>1, BeginCallIs
  <1>3. CASE UNCHANGED todo
    <2>1. \A s \in Socket : sockets'[s].conn = sockets[s].conn
      BY <1>1, <1>2 DEF Shape, DataTypes, SocketType
    <2> QED BY <1>2, <1>3, <2>1, StillOwners
  <1>4. CASE /\ todo[t] = <<>> /\ UNCHANGED sockets
             /\ \A u \in (Task \cup {Tcpip}) \ {t} : todo'[u] = todo[u]
             /\ \E s \in Socket, o \in TaskOps :
                  /\ Usable(s) /\ todo'[t] = <<o, Return(s)>>
                  /\ \/ o = Op("take", Listener) /\ sockets[s].conn = Listener
                     \/ o = Op("fetch", sockets[s].conn)
                     \/ o = Op("write", sockets[s].conn)
                     \/ o = [op |-> "close", s |-> s]
    <2>1. PICK s \in Socket, o \in TaskOps :
             /\ Usable(s) /\ todo'[t] = <<o, Return(s)>>
             /\ \/ o = Op("take", Listener) /\ sockets[s].conn = Listener
                \/ o = Op("fetch", sockets[s].conn)
                \/ o = Op("write", sockets[s].conn)
                \/ o = [op |-> "close", s |-> s]
      BY <1>4
    <2>2. SameTasks(t) /\ (\A o2 \in Ops(t) : o2.op \in EndNames)
      BY <1>1, <1>4, OpsAre DEF SameTasks
    <2>3. Ops(t)' = {o, Return(s)} /\ InCall(t)' /\ Sock(t)' = s
      BY <2>1, AmongIs DEF Ops, InCall, Sock, Return
    <2>4. /\ o.op \in {"take", "fetch", "write", "close"}
          /\ HasC(o) => o.c = sockets[s].conn
          /\ ~HasC(Return(s)) /\ Return(s).op = "return"
      BY <2>1 DEF Op, HasC, Return
    <2>5. ASSUME HasC(o) PROVE Holds(t, o.c)'
      <3>1. ~Stale(s)'
        <4>1. ASSUME NEW u \in Task, Closes(s) \in Ops(u)' PROVE FALSE
          <5>1. CASE u = t BY <2>3, <2>4, <4>1, <5>1 DEF Closes
          <5>2. CASE u # t
            <6>1. Closes(s) \in Ops(u) BY <1>4, <4>1, <5>2, SameOps
            <6>2. InCall(u) /\ Sock(u) = s BY <1>1, <6>1, ClosesCall
            <6> QED BY <2>1, <6>2, UsableIs
          <5> QED BY <5>1, <5>2
        <4> QED BY <4>1 DEF Stale, Closes
      <3> QED BY <1>4, <2>3, <2>4, <2>5, <3>1 DEF Holds, AtSocket
    <2>6. \A p \in Ops(t)' : p.op \in Outside /\ Use(t, p)'
      BY <2>3, <2>4, <2>5 DEF Outside, Use, HasC, Adds
    <2>7. ASSUME NEW u \in Task \ {t}, NEW p \in Ops(u), p.op \in Adds PROVE Unused(p.s)'
      <3>1. Unused(p.s) /\ p.s # s BY <1>1, <2>1, <2>7, UsableIs DEF Owners, UsesOK, Use
      <3>2. ASSUME NEW r, r # s, Unused(r) PROVE Unused(r)'
        <4>1. \A v \in Task : v # t => todo'[v] = todo[v] BY <1>4
        <4>2. \A v \in Task : v # t => (InCall(v)' <=> InCall(v)) /\ Sock(v)' = Sock(v)
          BY <4>1 DEF InCall, Sock
        <4> QED BY <2>3, <3>2, <4>1, <4>2 DEF Unused
      <3> QED BY <3>1, <3>2
    <2> QED BY <1>2, <1>4, <2>2, <2>6, <2>7, OutsideOwners
  <1> QED BY <1>2, <1>3, <1>4

LEMMA ReturnOwners ==
    ASSUME Good, NEW t \in Task, UNCHANGED <<select, mbox, traffic>>, ReturnFrom(t)
    PROVE  Owners'
  <1>1. Shape BY DEF Good
  <1> QED BY <1>1, ReturnIs, EndsOwners DEF EndNames

LEMMA SelectOwners ==
    ASSUME Good, NEW t \in Task, NEW R \in SUBSET Socket, NEW W \in SUBSET Socket, Select(t, R, W)
    PROVE  Owners'
  <1>1. Shape BY DEF Good
  <1>2. /\ Shape' /\ todo[t] = <<>> /\ Len(todo'[t]) = 1 /\ todo'[t][1] = [op |-> "asleep"]
        /\ \A u \in (Task \cup {Tcpip}) \ {t} : todo'[u] = todo[u]
        /\ UNCHANGED <<sockets, conn, mbox>>
    BY <1>1, SelectIs
  <1>3. todo'[t][1].op = "asleep" BY <1>2
  <1> QED BY <1>2, <1>3, EndsOwners

LEMMA WokenOwners ==
    ASSUME Good, NEW t \in Task, Woken(t) \/ Timeout(t)
    PROVE  Owners'
  <1>1. Shape BY DEF Good
  <1>2. /\ Shape' /\ todo[t][1].op = "asleep" /\ Len(todo[t]) = 1
        /\ Len(todo'[t]) = 1 /\ todo'[t][1] = [op |-> "leave"]
        /\ \A u \in (Task \cup {Tcpip}) \ {t} : todo'[u] = todo[u]
        /\ UNCHANGED <<sockets, conn, mbox>>
    BY <1>1, WokenIs
  <1>3. todo'[t][1].op = "leave" BY <1>2
  <1> QED BY <1>2, <1>3, EndsOwners DEF EndNames

LEMMA LeaveOwners ==
    ASSUME Good, NEW t \in Task, LeaveSelect(t)
    PROVE  Owners'
  <1>1. Shape BY DEF Good
  <1> QED BY <1>1, LeaveIs, EndsOwners DEF EndNames

-----------------------------------------------------------------------------
(* The tcpip thread's steps leave the tasks' operations alone. *)

(* It finds netconns for new connections, or hands them on. *)
LEMMA TcpipHomes ==
    ASSUME Homes, SameSpots, NEW N,
           \A c \in Conn : /\ Queued(c)' \/ Offered(c)' <=> Queued(c) \/ Offered(c) \/ c \in N
                           /\ ~(Queued(c)' /\ Offered(c)')
                           /\ conn'[c].used <=> conn[c].used \/ c \in N
                           /\ c \in N => ~conn[c].used
    PROVE  Homes'
  <1> SUFFICES ASSUME NEW d \in Conn
               PROVE  (/\ \A s, r \in Socket : AtSocket(d, s) /\ AtSocket(d, r) => s = r
                       /\ \A v, u \in Task : Guest(v, d) /\ Guest(u, d) => v = u
                       /\ \A s \in Socket, v \in Task : ~(AtSocket(d, s) /\ Guest(v, d))
                       /\ Queued(d) \/ Offered(d) => ~Held(d)
                       /\ ~(Queued(d) /\ Offered(d))
                       /\ conn[d].used <=> Held(d) \/ Queued(d) \/ Offered(d))'
    BY DEF Homes
  <1>1. /\ \A s, r \in Socket : AtSocket(d, s) /\ AtSocket(d, r) => s = r
        /\ \A v, u \in Task : Guest(v, d) /\ Guest(u, d) => v = u
        /\ \A s \in Socket, v \in Task : ~(AtSocket(d, s) /\ Guest(v, d))
        /\ Queued(d) \/ Offered(d) => ~Held(d)
        /\ ~(Queued(d) /\ Offered(d))
        /\ conn[d].used <=> Held(d) \/ Queued(d) \/ Offered(d)
    BY DEF Homes
  <1>2. /\ \A s \in Socket : AtSocket(d, s)' <=> AtSocket(d, s)
        /\ \A u \in Task : Guest(u, d)' <=> Guest(u, d)
    BY DEF SameSpots
  <1>3. Held(d)' <=> (\E s \in Socket : AtSocket(d, s)') \/ (\E v \in Task : Guest(v, d)')
    BY DEF Held
  <1>4. Held(d)' <=> Held(d) BY <1>2, <1>3 DEF Held
  <1> QED BY <1>1, <1>2, <1>4

LEMMA TcpipQueue ==
    ASSUME QueueOK, SameSpots, \A i, j \in 1 .. Len(Queue') : Queue'[i] = Queue'[j] => i = j,
           \A c \in Conn : /\ conn'[c].pcb = "LISTEN" \/ conn'[c].acceptmbox # <<>> =>
                                conn[c].pcb = "LISTEN" \/ conn[c].acceptmbox # <<>>
                           /\ conn'[c].pcb # NULL => conn'[c].used
    PROVE  QueueOK'
  <1>1. ASSUME NEW d \in Conn, conn'[d].pcb = "LISTEN" \/ conn'[d].acceptmbox # <<>>
        PROVE  d = Listener /\ \E r \in Socket : AtSocket(d, r)'
    BY <1>1 DEF QueueOK, SameSpots
  <1> QED BY <1>1 DEF QueueOK

LEMMA TcpipRequests ==
    ASSUME RequestsOK, TasksWait, UNCHANGED mbox,
           \A c \in Conn : /\ conn'[c].reply \in {conn[c].reply, 0}
                           /\ Op("answer", c) \in Ops(Tcpip)' => Op("answer", c) \in Ops(Tcpip)
                           /\ \A u \in Task : Frees(u, c) /\ conn[c].pcb = NULL => conn'[c].pcb = NULL
    PROVE  RequestsOK'
  <1>1. \A u \in Task : \A c : (Awaits(u, c)' <=> Awaits(u, c)) /\ (Frees(u, c)' <=> Frees(u, c))
    BY SameOps DEF TasksWait
  <1>2. \A m : RequestOK(m) => (\E u \in Task : Awaits(u, m.c)' /\ (m.type = "DELCONN" <=> Frees(u, m.c)'))
    BY <1>1 DEF RequestOK
  <1>3. \A c \in Conn : Answered(c) => Answered(c)' BY <1>1 DEF Answered
  <1>4. \A c : Asked(c)' <=> Asked(c) BY DEF Asked
  <1>5. \A i \in 1 .. Len(mbox') : RequestOK(mbox[i])' BY <1>2 DEF RequestOK, RequestsOK
  <1>6. ASSUME NEW c \in Conn
        PROVE  /\ Op("answer", c) \in Ops(Tcpip)' => ~Asked(c)' /\ conn'[c].reply = 0 /\ Answered(c)'
               /\ conn'[c].reply # 0 => conn'[c].reply = 1 /\ ~Asked(c)' /\ Answered(c)'
    BY <1>3, <1>4 DEF RequestsOK
  <1>7. \A i, j \in 1 .. Len(mbox') : mbox'[i].c = mbox'[j].c => i = j BY DEF RequestsOK
  <1> QED BY <1>5, <1>6, <1>7 DEF RequestsOK, Op

LEMMA TcpipDelete ==
    ASSUME DeleteOK, TasksWait,
           \A u \in Task, c \in Conn : Gone(u, c) =>
                /\ Cleared(c) => Cleared(c)'
                /\ conn[c].acceptmbox = <<>> => conn'[c].acceptmbox = <<>>
    PROVE  DeleteOK'
  <1>1. ASSUME NEW u \in Task, NEW c \in Conn, Gone(u, c)'
        PROVE  Cleared(c)' /\ (todo'[u][1] = Op("free", c) => conn'[c].acceptmbox = <<>>)
    <2>1. Gone(u, c) /\ todo'[u] = todo[u] BY <1>1, SameOps DEF TasksWait
    <2> QED BY <2>1 DEF DeleteOK
  <1> QED BY <1>1 DEF DeleteOK, Op

LEMMA TcpipWrite ==
    ASSUME Shape, WriteOK, TasksWait, Ranges',
           \A i \in 1 .. Len(mbox') : mbox'[i].type = "WRITE" => conn'[mbox'[i].c].sndbuf # 0,
           \A u \in Task, c \in Conn : Uses(u, c) =>
                /\ conn[c].sem # -1 => conn'[c].sem # -1
                /\ conn[c].sndbuf # 0 /\ ~Awaits(u, c) => conn'[c].sndbuf # 0
    PROVE  WriteOK'
  <1>1. ASSUME NEW u \in Task PROVE SemOK(u)'
    <2>1. Ops(u)' = Ops(u) /\ SemOK(u) BY SameOps DEF TasksWait, WriteOK
    <2>2. ASSUME NEW o \in Ops(u), o.op \in {"room", "freesem"} PROVE conn'[o.c].sem # -1
      <3>1. Uses(u, o.c) /\ o.c \in Conn
        <4>1. o \in TaskOps /\ HasC(o) /\ o.c \in Conn BY <2>2, OpsAre, TaskOp DEF CallNames
        <4> QED BY <2>2, <4>1 DEF Uses, Others, Adds
      <3> QED BY <2>1, <2>2, <3>1 DEF SemOK
    <2> QED BY <2>1, <2>2 DEF SemOK
  <1>2. ASSUME NEW u \in Task PROVE AskOK(u)'
    <2>1. todo'[u] = todo[u] /\ AskOK(u) /\ todo[u] \in Seq(TaskOps)
      BY DEF TasksWait, WriteOK, Shape, OpTypes
    <2>2. ASSUME NEW i \in 1 .. Len(todo[u]), todo[u][i].op = "ask", todo[u][i].type = "WRITE"
          PROVE  i = 1 /\ conn'[todo[u][i].c].sndbuf # 0
      <3>1. i = 1 /\ conn[todo[u][i].c].sndbuf # 0 BY <2>1, <2>2 DEF AskOK
      <3>2. PICK o : o = todo[u][i] OBVIOUS
      <3>3. o \in TaskOps /\ o \in Ops(u) /\ HasC(o) /\ o.c \in Conn
        BY <2>1, <2>2, <3>2, TaskOp DEF Ops, Among
      <3>4. Uses(u, o.c) BY <2>2, <3>2, <3>3 DEF Uses, Others, Adds
      <3>5. ~Awaits(u, o.c) BY <2>2, <3>1, <3>2 DEF Awaits, Op
      <3> QED BY <3>1, <3>2, <3>3, <3>4, <3>5
    <2> QED BY <2>1, <2>2 DEF AskOK
  <1> QED BY <1>1, <1>2 DEF WriteOK

(* What the tcpip thread still has to do after a step *)
LEMMA TcpipStepsOps ==
    ASSUME Shape, Shape', NEW ops, TcpipSteps(ops)
    PROVE  /\ Ops(Tcpip)' = Among(ops) \cup Rest(Tcpip)
           /\ \A o \in Ops(Tcpip) : o = todo[Tcpip][1] \/ o \in Rest(Tcpip)
           /\ \A o \in Rest(Tcpip) : o \in Ops(Tcpip)
           /\ todo[Tcpip][1] \in Ops(Tcpip)
  <1>1. /\ todo[Tcpip] \in Seq(TcpipOps) /\ todo[Tcpip] # <<>> /\ ops \in Seq(TcpipOps)
        /\ todo'[Tcpip] \in Seq(TcpipOps) /\ Behind(todo'[Tcpip], ops, todo[Tcpip])
    BY DEF TcpipSteps, Leaves, Shape, OpTypes
  <1>2. Ops(Tcpip)' = Among(ops) \cup Rest(Tcpip) BY <1>1, BehindAmong DEF Ops, Rest
  <1>3. Len(todo[Tcpip]) \in Nat /\ Len(todo[Tcpip]) > 0 BY <1>1
  <1>4. todo[Tcpip][1] \in Ops(Tcpip) /\ \A o \in Rest(Tcpip) : o \in Ops(Tcpip)
    BY <1>3 DEF Ops, Rest, Among, Later
  <1>5. ASSUME NEW o \in Ops(Tcpip) PROVE o = todo[Tcpip][1] \/ o \in Rest(Tcpip)
    <2>1. PICK i \in 1 .. Len(todo[Tcpip]) : o = todo[Tcpip][i] BY <1>5 DEF Ops, Among
    <2>2. i = 1 \/ i \in 2 .. Len(todo[Tcpip]) BY <1>3
    <2> QED BY <2>1, <2>2 DEF Rest, Later
  <1> QED BY <1>2, <1>4, <1>5

LEMMA EndsBehind ==
    ASSUME NEW S, NEW q \in Seq(S), q # <<>>, NEW ops \in Seq(S), NEW r \in Seq(S), Behind(r, ops, q),
           \A i \in 1 .. Len(q) : q[i].op \in Ends => i = Len(q),
           \A i \in 1 .. Len(ops) : ops[i].op \notin Ends
    PROVE  \A i \in 1 .. Len(r) : r[i].op \in Ends => i = Len(r)
  <1> SUFFICES ASSUME NEW i \in 1 .. Len(r), r[i].op \in Ends PROVE i = Len(r) OBVIOUS
  <1>1. Len(q) \in Nat /\ Len(ops) \in Nat /\ Len(r) \in Nat /\ i \in Nat OBVIOUS
  <1>2. Len(r) = Len(ops) + Len(q) - 1 BY DEF Behind
  <1>3. i \notin 1 .. Len(ops) BY DEF Behind
  <1>4. i - Len(ops) + 1 \in 2 .. Len(q) /\ r[i] = q[i - Len(ops) + 1] BY <1>3 DEF Behind
  <1>5. PICK j \in 2 .. Len(q) : j = i - Len(ops) + 1 /\ r[i] = q[j] BY <1>4
  <1>6. j \in 1 .. Len(q) BY <1>1, <1>5
  <1>7. j = Len(q) BY <1>5, <1>6
  <1> QED BY <1>1, <1>2, <1>5, <1>7

(* event_callback's operations of the tcpip thread *)
LEMMA CallbackOpsAre ==
    ASSUME Shape, NEW o \in TcpipOps, NEW ops \in Seq(TcpipOps), CallbackOps(Tcpip, o, ops)
    PROVE  /\ o.op \notin Ends
           /\ \A p \in Among(ops) : p.op \notin Ends /\ (HasC(p) => HasC(o) /\ p.c = o.c)
           /\ \A i \in 1 .. Len(ops) : ops[i].op \notin Ends
  <1>1. o.op \notin Ends BY DEF CallbackOps, Ends
  <1>2. ASSUME NEW p \in Among(ops) PROVE p.op \notin Ends /\ (HasC(p) => HasC(o) /\ p.c = o.c)
    <2>1. CASE ops = <<>> BY <1>2, <2>1, AmongIs
    <2>2. CASE o.op = "event" /\ ops = <<CountDown(o.c)>>
      <3>1. p = CountDown(o.c) /\ HasC(o) BY <1>2, <2>2, AmongIs, TcpipOp
      <3> QED BY <3>1 DEF CountDown, Ends
    <2>3. ASSUME NEW s, ops = <<Count(s, o.evt)>> PROVE p.op \notin Ends /\ ~HasC(p)
      <3>1. p = Count(s, o.evt) BY <1>2, <2>3, AmongIs
      <3> QED BY <3>1 DEF Count, Ends, HasC
    <2>4. ASSUME NEW s, ops = <<Search(s)>> PROVE p.op \notin Ends /\ ~HasC(p)
      <3>1. p = Search(s) BY <1>2, <2>4, AmongIs
      <3> QED BY <3>1 DEF Search, Ends, HasC
    <2>5. ASSUME NEW s, NEW u, ops = <<Signal(u), Search(s)>> PROVE p.op \notin Ends /\ ~HasC(p)
      <3>1. p = Signal(u) \/ p = Search(s) BY <1>2, <2>5, AmongIs
      <3> QED BY <3>1 DEF Search, Signal, Ends, HasC
    <2> QED BY <2>1, <2>2, <2>3, <2>4, <2>5 DEF CallbackOps
  <1>3. \A i \in 1 .. Len(ops) : ops[i] \in Among(ops) BY DEF Among
  <1> QED BY <1>1, <1>2, <1>3

LEMMA TcpipCallbackOwners ==
    ASSUME Good, Callback(Tcpip)
    PROVE  Owners'
  <1>1. Shape /\ Owners BY DEF Good
  <1>2. Shape' /\ SameConns /\ UNCHANGED mbox BY <1>1, TcpipCallback
  <1>3. PICK ops \in Seq(TcpipOps) : TcpipSteps(ops) /\ CallbackOps(Tcpip, todo[Tcpip][1], ops)
    BY <1>1, TcpipCallback
  <1>4. PICK o : o = todo[Tcpip][1] OBVIOUS
  <1>5. o \in TcpipOps /\ CallbackOps(Tcpip, o, ops) BY <1>3, <1>4 DEF TcpipSteps
  <1>6. /\ o.op \notin Ends
        /\ \A p \in Among(ops) : p.op \notin Ends /\ (HasC(p) => HasC(o) /\ p.c = o.c)
        /\ \A i \in 1 .. Len(ops) : ops[i].op \notin Ends
    BY <1>1, <1>5, CallbackOpsAre
  <1>7. /\ Ops(Tcpip)' = Among(ops) \cup Rest(Tcpip)
        /\ \A p \in Ops(Tcpip) : p = o \/ p \in Rest(Tcpip)
        /\ \A p \in Rest(Tcpip) : p \in Ops(Tcpip)
        /\ o \in Ops(Tcpip)
    BY <1>1, <1>2, <1>3, <1>4, TcpipStepsOps
  <1>8. TasksWait /\ (\A c \in Conn : SameUse(c)) /\ SameBuffers
    BY <1>1, <1>2, <1>3, SameConnsUse DEF TasksWait, TcpipSteps, SameConns
  <1>9. SameSpots /\ UsesOK' /\ OrderOK' BY <1>1, <1>8, TasksStill DEF TasksWait, Owners
  <1>10. \A p : p.op \in Ends => (p \in Ops(Tcpip)' <=> p \in Ops(Tcpip)) BY <1>6, <1>7
  <1>11. \A c : Op("answer", c) \in Ops(Tcpip)' <=> Op("answer", c) \in Ops(Tcpip)
    BY <1>10 DEF Op, Ends
  <1>12. \A c : Offered(c)' <=> Offered(c)
    <2>1. ASSUME NEW c PROVE Offered(c)' <=> \E p \in Ops(Tcpip)' : p.op = "offer" /\ p.new = c
      BY DEF Offered
    <2> QED BY <1>10, <2>1 DEF Offered, Ends
  <1>13. Queue' = Queue /\ \A c : Queued(c)' <=> Queued(c)
    BY <1>8, SocketsAssumption DEF Queue, SameUse, Queued
  <1>14. Homes'
    <2>1. \A c \in Conn : conn'[c].used = conn[c].used BY <1>8 DEF SameUse
    <2>2. \A c \in Conn : ~(Queued(c) /\ Offered(c)) BY <1>1 DEF Owners, Homes
    <2>3. PICK N : N = {} OBVIOUS
    <2>4. \A c \in Conn : /\ Queued(c)' \/ Offered(c)' <=> Queued(c) \/ Offered(c) \/ c \in N
                          /\ ~(Queued(c)' /\ Offered(c)')
                          /\ conn'[c].used <=> conn[c].used \/ c \in N
                          /\ c \in N => ~conn[c].used
      BY <1>12, <1>13, <2>1, <2>2, <2>3
    <2>5. Homes BY <1>1 DEF Owners
    <2> QED BY <1>9, <2>4, <2>5, TcpipHomes
  <1>15. QueueOK' BY <1>1, <1>8, <1>9, QueueSame DEF Owners
  <1>16. ASSUME NEW p \in Ops(Tcpip)', HasC(p)
         PROVE  \E n \in Ops(Tcpip) : HasC(n) /\ n.c = p.c
    BY <1>6, <1>7, <1>16
  <1>17. RequestsOK'
    <2>1. \A c \in Conn : conn'[c].reply = conn[c].reply /\ conn'[c].pcb = conn[c].pcb
      BY <1>8 DEF SameBuffers, SameUse
    <2> QED BY <1>1, <1>2, <1>8, <1>11, <2>1, TcpipRequests DEF Owners
  <1>18. DeleteOK'
    <2>1. ASSUME NEW c \in Conn, Cleared(c) PROVE Cleared(c)'
      <3>1. conn'[c].pcb = NULL BY <1>8, <2>1 DEF Cleared, SameUse
      <3>2. \A p \in Ops(Tcpip)' : HasC(p) => p.c # c BY <1>16, <2>1 DEF Cleared
      <3> QED BY <3>1, <3>2 DEF Cleared, HasC
    <2> QED BY <1>1, <1>8, <2>1, TcpipDelete DEF Owners, SameUse
  <1>19. WriteOK'
    <2>1. \A c \in Conn : conn'[c].sndbuf = conn[c].sndbuf /\ conn'[c].sem = conn[c].sem
      BY <1>8 DEF SameBuffers
    <2>2. WriteOK /\ Ranges' BY <1>1, <2>1 DEF Owners, WriteOK, Ranges
    <2>3. \A i \in 1 .. Len(mbox') : mbox'[i].type = "WRITE" => conn'[mbox'[i].c].sndbuf # 0
      BY <1>1, <1>2, <2>1, <2>2, MboxIs DEF WriteOK
    <2> QED BY <1>1, <1>8, <2>1, <2>2, <2>3, TcpipWrite
  <1>20. TcpipOK'
    <2>1. TcpipOK BY <1>1 DEF Owners
    <2>2. \A i \in 1 .. Len(todo'[Tcpip]) : todo'[Tcpip][i].op \in Ends => i = Len(todo'[Tcpip])
      <3>1. /\ todo[Tcpip] \in Seq(TcpipOps) /\ todo[Tcpip] # <<>> /\ todo'[Tcpip] \in Seq(TcpipOps)
            /\ Behind(todo'[Tcpip], ops, todo[Tcpip])
        BY <1>2, <1>3 DEF TcpipSteps, Leaves, Shape, OpTypes
      <3>2. \A i \in 1 .. Len(todo[Tcpip]) : todo[Tcpip][i].op \in Ends => i = Len(todo[Tcpip])
        BY <2>1 DEF TcpipOK
      <3> QED BY <1>6, <3>1, <3>2, EndsBehind
    <2>3. ASSUME NEW p \in Ops(Tcpip)'
          PROVE  /\ p.op = "offer" => p.c = Listener /\ conn'[Listener].pcb = "LISTEN"
                 /\ HasC(p) => conn'[p.c].used /\ (conn'[p.c].pcb = NULL => Op("answer", p.c) \in Ops(Tcpip)')
      <3>1. p.op = "offer" => p.c = Listener /\ conn'[Listener].pcb = "LISTEN"
        BY <1>8, <1>10, <2>1, <2>3, SocketsAssumption DEF TcpipOK, SameUse, Ends
      <3>2. ASSUME HasC(p)
            PROVE  conn'[p.c].used /\ (conn'[p.c].pcb = NULL => Op("answer", p.c) \in Ops(Tcpip)')
        <4>1. PICK n \in Ops(Tcpip) : HasC(n) /\ n.c = p.c BY <1>16, <2>3, <3>2
        <4>2. p.c \in Conn BY <1>1, <4>1, TcpipOpsAre
        <4> QED BY <1>8, <1>11, <2>1, <4>1, <4>2 DEF TcpipOK, SameUse
      <3> QED BY <3>1, <3>2
    <2> QED BY <2>2, <2>3 DEF TcpipOK, Op, HasC
  <1> QED BY <1>9, <1>14, <1>15, <1>17, <1>18, <1>19, <1>20 DEF Owners

-----------------------------------------------------------------------------
(* What comes in from the network *)

LEMMA BeginsOps ==
    ASSUME NEW ops, Begins(ops)
    PROVE  /\ Ops(Tcpip) = {} /\ Ops(Tcpip)' = Among(ops) /\ todo'[Tcpip] = ops
           /\ \A c : ~Offered(c) /\ Op("answer", c) \notin Ops(Tcpip)
  <1>1. Ops(Tcpip) = {} /\ Ops(Tcpip)' = Among(ops) /\ todo'[Tcpip] = ops
    BY AmongIs DEF Begins, Ops
  <1> QED BY <1>1 DEF Offered

(* A segment for a connection: its handler tells nobody but that one. *)
LEMMA SegmentOwners ==
    ASSUME Good, Shape', UNCHANGED <<sockets, mbox>>, NEW ops, Begins(ops), NEW c \in Conn, conn[c].pcb # NULL,
           Ranges',
           \A d \in Conn : /\ conn'[d].used = conn[d].used /\ conn'[d].acceptmbox = conn[d].acceptmbox
                           /\ conn'[d].reply = conn[d].reply
                           /\ conn'[d].pcb = "LISTEN" => conn[d].pcb = "LISTEN"
                           /\ conn'[d].pcb = NULL <=> conn[d].pcb = NULL
                           /\ conn[d].sem # -1 => conn'[d].sem # -1
                           /\ conn[d].sndbuf # 0 => conn'[d].sndbuf # 0,
           \A i \in 1 .. Len(ops) : ops[i].op \in Ends => i = Len(ops) /\ ops[i].op = "post",
           \A p \in Among(ops) : HasC(p) => p.c = c
    PROVE  Owners'
  <1>1. Shape /\ Owners BY DEF Good
  <1>2. TasksWait BY DEF TasksWait, Begins
  <1>3. SameSpots /\ UsesOK' /\ OrderOK' BY <1>1, <1>2, TasksStill DEF TasksWait, Owners
  <1>4. /\ Ops(Tcpip) = {} /\ Ops(Tcpip)' = Among(ops) /\ todo'[Tcpip] = ops
        /\ \A d : ~Offered(d)
    BY BeginsOps
  <1>5. \A p \in Among(ops) : p.op \notin {"offer", "answer"} BY DEF Among, Ends
  <1>6. \A d : ~Offered(d)' /\ Op("answer", d) \notin Ops(Tcpip)'
    <2>1. \A d : Op("answer", d) \notin Among(ops) BY <1>5 DEF Op
    <2>2. ASSUME NEW d PROVE Offered(d)' <=> \E p \in Ops(Tcpip)' : p.op = "offer" /\ p.new = d
      BY DEF Offered
    <2> QED BY <1>4, <1>5, <2>1, <2>2
  <1>7. Queue' = Queue /\ \A d : Queued(d)' <=> Queued(d)
    BY SocketsAssumption DEF Queue, Queued
  <1>8. Homes'
    <2>1. PICK N : N = {} OBVIOUS
    <2>2. \A d \in Conn : /\ Queued(d)' \/ Offered(d)' <=> Queued(d) \/ Offered(d) \/ d \in N
                          /\ ~(Queued(d)' /\ Offered(d)')
                          /\ conn'[d].used <=> conn[d].used \/ d \in N
                          /\ d \in N => ~conn[d].used
      BY <1>4, <1>6, <1>7, <2>1
    <2>3. Homes BY <1>1 DEF Owners
    <2> QED BY <1>3, <2>2, <2>3, TcpipHomes
  <1>9. QueueOK /\ RequestsOK /\ DeleteOK /\ WriteOK BY <1>1 DEF Owners
  <1>10. QueueOK'
    <2>1. \A i, j \in 1 .. Len(Queue') : Queue'[i] = Queue'[j] => i = j
      BY <1>7, <1>9 DEF QueueOK
    <2>2. \A d \in Conn : /\ conn'[d].pcb = "LISTEN" \/ conn'[d].acceptmbox # <<>> =>
                                conn[d].pcb = "LISTEN" \/ conn[d].acceptmbox # <<>>
                          /\ conn'[d].pcb # NULL => conn'[d].used
      BY <1>9 DEF QueueOK
    <2> QED BY <1>3, <1>9, <2>1, <2>2, TcpipQueue
  <1>11. RequestsOK' BY <1>2, <1>6, <1>9, TcpipRequests
  <1>12. DeleteOK'
    <2>1. ASSUME NEW d \in Conn, Cleared(d) PROVE Cleared(d)'
      <3>1. d # c /\ conn'[d].pcb = NULL BY <2>1 DEF Cleared
      <3>2. \A p \in Ops(Tcpip)' : HasC(p) => p.c # d BY <1>4, <3>1
      <3> QED BY <3>1, <3>2 DEF Cleared, HasC
    <2> QED BY <1>2, <1>9, <2>1, TcpipDelete
  <1>13. WriteOK'
    <2>1. \A i \in 1 .. Len(mbox') : mbox'[i].type = "WRITE" => conn'[mbox'[i].c].sndbuf # 0
      BY <1>1, <1>9, MboxIs DEF WriteOK
    <2> QED BY <1>1, <1>2, <1>9, <2>1, TcpipWrite
  <1>14. TcpipOK'
    <2>1. conn'[c].used /\ conn'[c].pcb # NULL BY <1>9 DEF QueueOK
    <2>2. \A p \in Ops(Tcpip)' : /\ p.op = "offer" => p.c = Listener /\ conn'[Listener].pcb = "LISTEN"
                                 /\ HasC(p) => conn'[p.c].used /\ conn'[p.c].pcb # NULL
      BY <1>4, <1>5, <2>1
    <2> QED BY <1>4, <2>2 DEF TcpipOK, HasC, Op
  <1> QED BY <1>3, <1>8, <1>10, <1>11, <1>12, <1>13, <1>14 DEF Owners

LEMMA SegmentOps ==
    ASSUME NEW c, NEW evt, NEW m, NEW q, q = <<Event(c, evt), Post(c, m)>>
    PROVE  /\ \A p \in Among(q) : HasC(p) => p.c = c
           /\ \A i \in 1 .. Len(q) : q[i].op \in Ends => i = Len(q) /\ q[i].op = "post"
  <1>1. Event(c, evt).c = c /\ Event(c, evt).op = "event" /\ Post(c, m).c = c /\ Post(c, m).op = "post"
    BY DEF Event, Post
  <1>2. Len(q) = 2 /\ q[1].op = "event" /\ q[2].op = "post" BY <1>1
  <1>3. \A i \in 1 .. Len(q) : q[i].op \in Ends => i = Len(q) /\ q[i].op = "post"
    <2>1. ASSUME NEW i \in 1 .. 2 PROVE i = 1 \/ i = 2 OBVIOUS
    <2> QED BY <1>2, <2>1 DEF Ends
  <1>4. Among(q) = {Event(c, evt), Post(c, m)} BY AmongIs
  <1> QED BY <1>1, <1>3, <1>4

LEMMA EventOps ==
    ASSUME NEW c, NEW q, q = <<>> \/ \E evt : q = <<Event(c, evt)>>
    PROVE  /\ \A p \in Among(q) : HasC(p) => p.c = c
           /\ \A i \in 1 .. Len(q) : q[i].op \notin Ends
  <1>1. CASE q = <<>> BY <1>1, AmongIs
  <1>2. ASSUME NEW evt, q = <<Event(c, evt)>>
        PROVE  /\ \A p \in Among(q) : HasC(p) => p.c = c
               /\ \A i \in 1 .. Len(q) : q[i].op \notin Ends
    <2>1. Event(c, evt).c = c /\ Event(c, evt).op = "event" BY DEF Event
    <2>2. Among(q) = {Event(c, evt)} /\ \A i \in 1 .. Len(q) : q[i] = Event(c, evt)
      BY <1>2, AmongIs, OfOne
    <2> QED BY <2>1, <2>2 DEF Ends
  <1> QED BY <1>1, <1>2

LEMMA ReceivedOwners ==
    ASSUME Good, Shape', UNCHANGED <<sockets, mbox>>, NEW c \in Conn, NEW m \in {"data", "fin"}, Received(c, m)
    PROVE  Owners'
  <1>1. conn \in [Conn -> ConnType] /\ conn[c].pcb = "ESTABLISHED" /\ conn[c].pcb # NULL
    BY SocketsAssumption DEF Good, Shape, DataTypes, Received, ConnType, NULL
  <1>2. /\ \A d \in Conn : d # c => conn'[d] = conn[d]
        /\ conn'[c] = [conn[c] EXCEPT !.pcb = IF m = "fin" THEN "CLOSE_WAIT" ELSE @]
    BY <1>1 DEF Received
  <1>3. /\ conn'[c].pcb \in {"ESTABLISHED", "CLOSE_WAIT"}
        /\ conn'[c].used = conn[c].used /\ conn'[c].acceptmbox = conn[c].acceptmbox
        /\ conn'[c].reply = conn[c].reply /\ conn'[c].sem = conn[c].sem /\ conn'[c].sndbuf = conn[c].sndbuf
    BY <1>1, <1>2 DEF ConnType
  <1>4. \A d \in Conn : /\ conn'[d].used = conn[d].used /\ conn'[d].acceptmbox = conn[d].acceptmbox
                        /\ conn'[d].reply = conn[d].reply
                        /\ conn'[d].pcb = "LISTEN" => conn[d].pcb = "LISTEN"
                        /\ conn'[d].pcb = NULL <=> conn[d].pcb = NULL
                        /\ conn'[d].sem = conn[d].sem /\ conn'[d].sndbuf = conn[d].sndbuf
    BY <1>1, <1>2, <1>3 DEF NULL
  <1>5. Ranges' BY <1>4 DEF Good, Owners, WriteOK, Ranges
  <1>6. PICK ops : ops = <<Event(c, "RCVPLUS"), Post(c, m)>> OBVIOUS
  <1>7. Begins(ops) BY <1>6 DEF Received
  <1>8. /\ \A i \in 1 .. Len(ops) : ops[i].op \in Ends => i = Len(ops) /\ ops[i].op = "post"
        /\ \A p \in Among(ops) : HasC(p) => p.c = c
    BY <1>6, SegmentOps
  <1> QED BY <1>1, <1>4, <1>5, <1>7, <1>8, SegmentOwners

LEMMA AcknowledgedOwners ==
    ASSUME Good, Shape', UNCHANGED <<sockets, mbox>>, NEW c \in Conn, NEW room \in Room, Acknowledged(c, room)
    PROVE  Owners'
  <1>1. /\ conn \in [Conn -> ConnType] /\ conn[c].pcb # NULL
        /\ conn[c].sndbuf \in Room /\ conn[c].sem \in Nat \cup {-1} /\ room > conn[c].sndbuf
    BY SndbufIs DEF Acknowledged, NULL
  <1>2. /\ \A d \in Conn : d # c => conn'[d] = conn[d]
        /\ conn'[c] = [conn[c] EXCEPT !.sndbuf = room, !.sem = IF @ = -1 THEN @ ELSE @ + 1]
    BY <1>1 DEF Acknowledged
  <1>3. /\ conn'[c].used = conn[c].used /\ conn'[c].acceptmbox = conn[c].acceptmbox
        /\ conn'[c].reply = conn[c].reply /\ conn'[c].pcb = conn[c].pcb
        /\ conn'[c].sndbuf = room
        /\ conn'[c].sem = IF conn[c].sem = -1 THEN -1 ELSE conn[c].sem + 1
    BY <1>1, <1>2 DEF ConnType
  <1>4. room # 0 /\ conn'[c].sem \in Nat \cup {-1} /\ (conn[c].sem # -1 => conn'[c].sem # -1)
    BY <1>1, <1>3 DEF Room
  <1>5. \A d \in Conn : /\ conn'[d].used = conn[d].used /\ conn'[d].acceptmbox = conn[d].acceptmbox
                        /\ conn'[d].reply = conn[d].reply /\ conn'[d].pcb = conn[d].pcb
                        /\ conn[d].sem # -1 => conn'[d].sem # -1
                        /\ conn[d].sndbuf # 0 => conn'[d].sndbuf # 0
    BY <1>2, <1>3, <1>4
  <1>6. Ranges' BY <1>2, <1>3, <1>4, SndbufIs DEF Ranges
  <1>7. PICK ops : Begins(ops) /\ (ops = <<>> \/ ops = <<Event(c, "SENDPLUS")>>)
    BY DEF Acknowledged
  <1>8. /\ \A i \in 1 .. Len(ops) : ops[i].op \notin Ends
        /\ \A p \in Among(ops) : HasC(p) => p.c = c
    BY <1>7, EventOps
  <1> QED BY <1>1, <1>5, <1>6, <1>7, <1>8, SegmentOwners

(* A new connection is offered to the listening netconn, which is there. *)
LEMMA ConnectedOwners ==
    ASSUME Good, Shape', UNCHANGED <<sockets, mbox>>, NEW c \in Conn, NEW new \in Conn, Connected(c, new),
           "orphan" \notin Allowed
    PROVE  Owners'
  <1>1. Shape /\ Owners /\ conn \in [Conn -> ConnType] /\ conn[c].pcb = "LISTEN" /\ conn[new].used = FALSE
    BY DEF Good, Shape, DataTypes, Connected, ConnType
  <1>2. /\ \A d \in Conn : d # new => conn'[d] = conn[d]
        /\ conn'[new] = [FreeConn EXCEPT !.used = TRUE, !.pcb = "ESTABLISHED", !.recv = TRUE, !.sem = 0]
    BY <1>1 DEF Connected
  <1>3. /\ conn'[new].used = TRUE /\ conn'[new].pcb = "ESTABLISHED" /\ conn'[new].sem = 0
        /\ conn'[new].reply = 0 /\ conn'[new].acceptmbox = <<>> /\ conn'[new].sndbuf = 2
    BY <1>2 DEF FreeConn
  <1>4. c = Listener /\ c # new /\ conn[c].used /\ conn'[c] = conn[c] /\ conn[new].pcb = NULL
        /\ conn'[new].pcb # NULL /\ conn[c].pcb # NULL
    <2>1. c = Listener /\ conn[c].used BY <1>1 DEF Owners, QueueOK, NULL
    <2>2. conn[new].pcb = NULL BY <1>1 DEF Owners, QueueOK
    <2> QED BY <1>1, <1>2, <1>3, <2>1, <2>2 DEF NULL
  <1>5. TasksWait BY DEF TasksWait, Connected, Begins
  <1>6. SameSpots /\ UsesOK' /\ OrderOK' BY <1>1, <1>5, TasksStill DEF TasksWait, Owners
  <1>7. PICK ops : ops = <<Event(c, "RCVPLUS"), Offer(c, new)>> OBVIOUS
  <1>8. /\ Ops(Tcpip) = {} /\ Ops(Tcpip)' = {Event(c, "RCVPLUS"), Offer(c, new)} /\ todo'[Tcpip] = ops
        /\ \A d : ~Offered(d)
    <2>1. Begins(ops) BY <1>7 DEF Connected
    <2> QED BY <1>7, <2>1, BeginsOps, AmongIs
  <1>9. /\ Event(c, "RCVPLUS").op = "event" /\ Event(c, "RCVPLUS").c = c
        /\ Offer(c, new).op = "offer" /\ Offer(c, new).c = c /\ Offer(c, new).new = new
    BY DEF Event, Offer
  <1>10. \A d : (Offered(d)' <=> d = new) /\ Op("answer", d) \notin Ops(Tcpip)'
    <2>1. \A d : Op("answer", d).op = "answer" BY DEF Op
    <2>2. ASSUME NEW d PROVE Offered(d)' <=> \E p \in Ops(Tcpip)' : p.op = "offer" /\ p.new = d
      BY DEF Offered
    <2> QED BY <1>8, <1>9, <2>1, <2>2
  <1>11. Queue' = Queue /\ \A d : Queued(d)' <=> Queued(d) BY <1>4 DEF Queue, Queued
  <1>12. QueueOK /\ RequestsOK /\ DeleteOK /\ WriteOK /\ Homes BY <1>1 DEF Owners
  <1>13. Homes'
    <2>1. PICK N : N = {new} OBVIOUS
    <2>2. ~Queued(new) BY <1>1, <1>12 DEF Homes
    <2>3. \A d \in Conn : /\ Queued(d)' \/ Offered(d)' <=> Queued(d) \/ Offered(d) \/ d \in N
                          /\ ~(Queued(d)' /\ Offered(d)')
                          /\ conn'[d].used <=> conn[d].used \/ d \in N
                          /\ d \in N => ~conn[d].used
      BY <1>1, <1>2, <1>3, <1>8, <1>10, <1>11, <2>1, <2>2
    <2> QED BY <1>6, <1>12, <2>3, TcpipHomes
  <1>14. QueueOK'
    <2>1. \A i, j \in 1 .. Len(Queue') : Queue'[i] = Queue'[j] => i = j
      BY <1>11, <1>12 DEF QueueOK
    <2>2. \A d \in Conn : /\ conn'[d].pcb = "LISTEN" \/ conn'[d].acceptmbox # <<>> =>
                                conn[d].pcb = "LISTEN" \/ conn[d].acceptmbox # <<>>
                          /\ conn'[d].pcb # NULL => conn'[d].used
      BY <1>2, <1>3, <1>12 DEF QueueOK
    <2> QED BY <1>6, <1>12, <2>1, <2>2, TcpipQueue
  <1>15. ASSUME NEW u \in Task, NEW d \in Conn, Uses(u, d) PROVE d # new
    BY <1>1, <1>15, HeldIs
  <1>16. RequestsOK'
    <2>1. ASSUME NEW u \in Task, NEW d \in Conn, Frees(u, d), conn[d].pcb = NULL PROVE conn'[d].pcb = NULL
      BY <1>1, <1>2, <1>15, <2>1, FreesUse
    <2>2. \A d \in Conn : conn'[d].reply \in {conn[d].reply, 0} BY <1>2, <1>3
    <2> QED BY <1>5, <1>10, <1>12, <2>1, <2>2, TcpipRequests
  <1>17. DeleteOK'
    <2>1. ASSUME NEW u \in Task, NEW d \in Conn, Gone(u, d), Cleared(d) PROVE Cleared(d)'
      <3>1. d # new /\ d # c /\ conn'[d].pcb = NULL
        <4>1. d # new BY <1>1, <1>15, <2>1, FreesUse DEF Gone
        <4> QED BY <1>2, <1>4, <2>1, <4>1 DEF Cleared
      <3>2. \A p \in Ops(Tcpip)' : HasC(p) => p.c # d BY <1>8, <1>9, <3>1
      <3> QED BY <3>1, <3>2 DEF Cleared, HasC
    <2>2. \A d \in Conn : conn[d].acceptmbox = <<>> => conn'[d].acceptmbox = <<>>
      BY <1>2, <1>3
    <2> QED BY <1>5, <1>12, <2>1, <2>2, TcpipDelete
  <1>18. WriteOK'
    <2>1. Ranges'
      <3>1. conn'[new].sndbuf \in Room /\ conn'[new].sem \in Nat \cup {-1} BY <1>3 DEF Room
      <3> QED BY <1>2, <3>1, SndbufIs DEF Ranges
    <2>2. ASSUME NEW i \in 1 .. Len(mbox), mbox[i].type = "WRITE" PROVE conn'[mbox[i].c].sndbuf # 0
      <3>1. PICK d : d = mbox[i].c OBVIOUS
      <3>2. d \in Conn /\ conn[d].sndbuf # 0 BY <1>1, <1>12, <2>2, <3>1, MboxIs DEF WriteOK
      <3>3. CASE d = new BY <1>3, <3>1, <3>3
      <3>4. CASE d # new BY <1>2, <3>1, <3>2, <3>4
      <3> QED BY <3>3, <3>4
    <2>3. \A d \in Conn : d # new => conn'[d] = conn[d] BY <1>2
    <2> QED BY <1>1, <1>5, <1>12, <1>15, <2>1, <2>2, <2>3, TcpipWrite
  <1>19. TcpipOK'
    <2>1. \A p \in Ops(Tcpip)' : /\ p.op = "offer" => p.c = Listener /\ conn'[Listener].pcb = "LISTEN"
                                 /\ HasC(p) => conn'[p.c].used /\ conn'[p.c].pcb # NULL
      BY <1>1, <1>4, <1>8, <1>9
    <2>2. Len(ops) = 2 /\ ops[1].op \notin Ends BY <1>7, <1>9 DEF Ends
    <2>3. \A i \in 1 .. Len(ops) : ops[i].op \in Ends => i = Len(ops) BY <2>2
    <2> QED BY <1>8, <2>1, <2>3 DEF TcpipOK, HasC, Op
  <1> QED BY <1>6, <1>13, <1>14, <1>16, <1>17, <1>18, <1>19 DEF Owners

LEMMA InputOwners ==
    ASSUME Good, "orphan" \notin Allowed, Input
    PROVE  Owners'
  <1>1. Shape BY DEF Good
  <1>2. /\ Shape' /\ UNCHANGED <<sockets, mbox>>
        /\ \E c \in Conn :
             \/ \E new \in Conn : Connected(c, new)
             \/ \E m \in {"data", "fin"} : Received(c, m)
             \/ \E room \in Room : Acknowledged(c, room)
    BY <1>1, InputIs
  <1>3. PICK c \in Conn :
             \/ \E new \in Conn : Connected(c, new)
             \/ \E m \in {"data", "fin"} : Received(c, m)
             \/ \E room \in Room : Acknowledged(c, room)
    BY <1>2
  <1>4. CASE \E new \in Conn : Connected(c, new) BY <1>2, <1>4, ConnectedOwners
  <1>5. CASE \E m \in {"data", "fin"} : Received(c, m) BY <1>2, <1>5, ReceivedOwners
  <1>6. CASE \E room \in Room : Acknowledged(c, room) BY <1>2, <1>6, AcknowledgedOwners
  <1> QED BY <1>3, <1>4, <1>5, <1>6

-----------------------------------------------------------------------------
(* The requests to the tcpip thread *)

(* do_delconn, do_recv and do_write for the first message *)
LEMMA RequestOwners ==
    ASSUME Good, Shape', UNCHANGED sockets, mbox # <<>>, mbox' = Tail(mbox),
           NEW c \in Conn, c = mbox[1].c, NEW ops, Begins(ops),
           \A i \in 1 .. Len(ops) : ops[i].op \in Ends => i = Len(ops),
           \A p \in Among(ops) : p.op # "offer" /\ (HasC(p) => p.c = c),
           Op("answer", c) \in Among(ops),
           \A d \in Conn : /\ conn'[d].used = conn[d].used /\ conn'[d].acceptmbox = conn[d].acceptmbox
                           /\ conn'[d].reply = conn[d].reply /\ conn'[d].sem = conn[d].sem
                           /\ d # c => conn'[d].pcb = conn[d].pcb /\ conn'[d].sndbuf = conn[d].sndbuf,
           conn'[c].pcb = IF mbox[1].type = "DELCONN" THEN NULL ELSE conn[c].pcb,
           conn'[c].sndbuf \in Room
    PROVE  Owners'
  <1>1. Shape /\ Owners BY DEF Good
  <1>2. /\ mbox \in Seq(Message) /\ Len(mbox) \in Nat /\ Len(mbox) > 0 /\ 1 \in 1 .. Len(mbox)
        /\ Len(mbox') = Len(mbox) - 1
        /\ \A i \in 1 .. Len(mbox') : mbox'[i] = mbox[i + 1] /\ i + 1 \in 1 .. Len(mbox) /\ i + 1 # 1
    <2>1. mbox \in Seq(Message) BY <1>1 DEF Shape, DataTypes
    <2>2. Len(mbox) \in Nat /\ Len(mbox) > 0 BY <2>1
    <2>3. Len(mbox') = Len(mbox) - 1 /\ \A i \in 1 .. Len(mbox) - 1 : mbox'[i] = mbox[i + 1]
      BY <2>1, TailIs
    <2> QED BY <2>1, <2>2, <2>3
  <1>3. QueueOK /\ RequestsOK /\ DeleteOK /\ WriteOK /\ Homes BY <1>1 DEF Owners
  <1>4. PICK u \in Task : /\ Awaits(u, c) /\ Uses(u, c)
                          /\ mbox[1].type = "DELCONN" <=> Frees(u, c)
    BY <1>2, AskedAwaits
  <1>5. \A i, j \in 1 .. Len(mbox) : mbox[i].c = mbox[j].c => i = j BY <1>3 DEF RequestsOK
  <1>6. \A i \in 1 .. Len(mbox') : mbox'[i].c # c
    <2>1. ASSUME NEW j \in 1 .. Len(mbox), j # 1 PROVE mbox[j].c # c BY <1>2, <1>5, <2>1
    <2> QED BY <1>2, <2>1
  <1>7. Asked(c) /\ ~Asked(c)' /\ \A d : Asked(d)' => Asked(d)
    <2>1. Asked(c) BY <1>2 DEF Asked
    <2>2. ~Asked(c)' BY <1>6 DEF Asked
    <2>3. ASSUME NEW d, Asked(d)' PROVE Asked(d)
      <3>1. PICK i \in 1 .. Len(mbox') : mbox'[i].c = d BY <2>3 DEF Asked
      <3> QED BY <1>2, <3>1 DEF Asked
    <2> QED BY <2>1, <2>2, <2>3
  <1>8. TasksWait BY DEF TasksWait, Begins
  <1>9. SameSpots /\ UsesOK' /\ OrderOK' BY <1>1, <1>8, TasksStill DEF TasksWait, Owners
  <1>10. /\ Ops(Tcpip) = {} /\ Ops(Tcpip)' = Among(ops) /\ todo'[Tcpip] = ops
         /\ \A d : ~Offered(d)
    BY BeginsOps
  <1>11. \A d : ~Offered(d)' /\ (Op("answer", d) \in Ops(Tcpip)' => d = c)
    <2>1. \A d : HasC(Op("answer", d)) /\ Op("answer", d).c = d BY DEF Op, HasC
    <2>2. ASSUME NEW d PROVE Offered(d)' <=> \E p \in Ops(Tcpip)' : p.op = "offer" /\ p.new = d
      BY DEF Offered
    <2> QED BY <1>10, <2>1, <2>2
  <1>12. Queue' = Queue /\ \A d : Queued(d)' <=> Queued(d)
    BY SocketsAssumption DEF Queue, Queued
  <1>13. conn[c].used BY <1>4, HeldIs
  <1>14. Homes'
    <2>1. PICK N : N = {} OBVIOUS
    <2>2. \A d \in Conn : /\ Queued(d)' \/ Offered(d)' <=> Queued(d) \/ Offered(d) \/ d \in N
                          /\ ~(Queued(d)' /\ Offered(d)')
                          /\ conn'[d].used <=> conn[d].used \/ d \in N
                          /\ d \in N => ~conn[d].used
      BY <1>10, <1>11, <1>12, <2>1
    <2> QED BY <1>3, <1>9, <2>2, TcpipHomes
  <1>15. \A d \in Conn : conn'[d].pcb \in {conn[d].pcb, NULL} OBVIOUS
  <1>16. QueueOK'
    <2>1. \A i, j \in 1 .. Len(Queue') : Queue'[i] = Queue'[j] => i = j
      BY <1>3, <1>12 DEF QueueOK
    <2>2. \A d \in Conn : /\ conn'[d].pcb = "LISTEN" \/ conn'[d].acceptmbox # <<>> =>
                                conn[d].pcb = "LISTEN" \/ conn[d].acceptmbox # <<>>
                          /\ conn'[d].pcb # NULL => conn'[d].used
      BY <1>3, <1>15 DEF QueueOK, NULL
    <2> QED BY <1>3, <1>9, <2>1, <2>2, TcpipQueue
  <1>17. \A v \in Task : \A d : (Awaits(v, d)' <=> Awaits(v, d)) /\ (Frees(v, d)' <=> Frees(v, d))
    BY <1>8, SameOps DEF TasksWait
  <1>18. RequestsOK'
    <2>1. \A i, j \in 1 .. Len(mbox') : mbox'[i].c = mbox'[j].c => i = j
      <3>1. ASSUME NEW i \in 1 .. Len(mbox'), NEW j \in 1 .. Len(mbox'), mbox'[i].c = mbox'[j].c PROVE i = j
        <4>1. i + 1 = j + 1 BY <1>2, <1>5, <3>1
        <4> QED BY <4>1
      <3> QED BY <3>1
    <2>2. \A m : RequestOK(m) => (\E v \in Task : Awaits(v, m.c)' /\ (m.type = "DELCONN" <=> Frees(v, m.c)'))
      BY <1>17 DEF RequestOK
    <2>3. \A i \in 1 .. Len(mbox') : RequestOK(mbox[i])'
      BY <1>2, <1>3, <2>2 DEF RequestOK, RequestsOK
    <2>4. \A d \in Conn : Answered(d) => Answered(d)' BY <1>15, <1>17 DEF Answered
    <2>5. Answered(c)'
      <3>1. Awaits(u, c)' /\ (Frees(u, c)' => conn'[c].pcb = NULL) BY <1>4, <1>17
      <3> QED BY <3>1 DEF Answered
    <2>6. conn[c].reply = 0 BY <1>3, <1>7 DEF RequestsOK
    <2>7. ASSUME NEW d \in Conn
          PROVE  /\ Op("answer", d) \in Ops(Tcpip)' => ~Asked(d)' /\ conn'[d].reply = 0 /\ Answered(d)'
                 /\ conn'[d].reply # 0 => conn'[d].reply = 1 /\ ~Asked(d)' /\ Answered(d)'
      <3>1. Op("answer", d) \in Ops(Tcpip)' => ~Asked(d)' /\ conn'[d].reply = 0 /\ Answered(d)'
        BY <1>7, <1>11, <2>5, <2>6
      <3>2. conn'[d].reply # 0 => conn'[d].reply = 1 /\ ~Asked(d)' /\ Answered(d)'
        BY <1>3, <1>7, <2>4 DEF RequestsOK
      <3> QED BY <3>1, <3>2
    <2> QED BY <2>1, <2>3, <2>7 DEF RequestsOK, Op
  <1>19. ASSUME NEW v \in Task, NEW d \in Conn, Gone(v, d) PROVE d # c
    <2>1. CASE v = u BY <1>4, <1>19, <2>1 DEF Gone, Awaits, Op
    <2>2. CASE v # u
      <3>1. Uses(v, d) BY <1>1, <1>19, FreesUse DEF Gone
      <3> QED BY <1>4, <2>2, <3>1, NotOther
    <2> QED BY <2>1, <2>2
  <1>20. DeleteOK'
    <2>1. ASSUME NEW v \in Task, NEW d \in Conn, Gone(v, d), Cleared(d) PROVE Cleared(d)'
      <3>1. d # c /\ conn'[d].pcb = NULL BY <1>15, <1>19, <2>1 DEF Cleared
      <3>2. \A p \in Ops(Tcpip)' : HasC(p) => p.c # d BY <1>10, <3>1
      <3> QED BY <3>1, <3>2 DEF Cleared, HasC
    <2> QED BY <1>3, <1>8, <2>1, TcpipDelete
  <1>21. WriteOK'
    <2>1. Ranges' BY SndbufIs DEF Ranges
    <2>2. ASSUME NEW i \in 1 .. Len(mbox'), mbox'[i].type = "WRITE" PROVE conn'[mbox'[i].c].sndbuf # 0
      <3>1. PICK j \in 1 .. Len(mbox) : mbox'[i] = mbox[j] BY <1>2
      <3>2. PICK d : d = mbox[j].c OBVIOUS
      <3>3. d \in Conn /\ d # c /\ conn[d].sndbuf # 0
        BY <1>1, <1>3, <1>6, <2>2, <3>1, <3>2, MboxIs DEF WriteOK
      <3> QED BY <3>1, <3>2, <3>3
    <2>3. ASSUME NEW v \in Task, NEW d \in Conn, Uses(v, d)
          PROVE  /\ conn[d].sem # -1 => conn'[d].sem # -1
                 /\ conn[d].sndbuf # 0 /\ ~Awaits(v, d) => conn'[d].sndbuf # 0
      <3>1. d = c => Awaits(v, d) BY <1>4, <2>3, NotOther
      <3> QED BY <3>1
    <2> QED BY <1>1, <1>3, <1>8, <2>1, <2>2, <2>3, TcpipWrite
  <1>22. TcpipOK'
    <2>1. \A p \in Ops(Tcpip)' : /\ p.op # "offer"
                                 /\ HasC(p) => conn'[p.c].used /\ Op("answer", p.c) \in Ops(Tcpip)'
      BY <1>10, <1>13
    <2> QED BY <1>10, <2>1 DEF TcpipOK, HasC, Op
  <1> QED BY <1>9, <1>14, <1>16, <1>18, <1>20, <1>21, <1>22 DEF Owners

LEMMA AnswerOps ==
    ASSUME NEW c, NEW q,
           \/ q = <<Event(c, "RCVPLUS"), Event(c, "SENDPLUS"), Op("answer", c)>>
           \/ q = <<Event(c, "SENDMINUS"), Op("answer", c)>>
           \/ q = <<Op("answer", c)>>
    PROVE  /\ \A i \in 1 .. Len(q) : q[i].op \in Ends => i = Len(q)
           /\ \A p \in Among(q) : p.op # "offer" /\ (HasC(p) => p.c = c)
           /\ Op("answer", c) \in Among(q)
  <1>1. /\ \A evt : Event(c, evt).op = "event" /\ Event(c, evt).c = c
        /\ Op("answer", c).op = "answer" /\ Op("answer", c).c = c
    BY DEF Event, Op
  <1>2. CASE q = <<Event(c, "RCVPLUS"), Event(c, "SENDPLUS"), Op("answer", c)>>
    <2>1. /\ Len(q) = 3 /\ q[1] = Event(c, "RCVPLUS") /\ q[2] = Event(c, "SENDPLUS")
          /\ q[3] = Op("answer", c)
      BY <1>2
    <2>2. \A i \in 1 .. Len(q) : i = 1 \/ i = 2 \/ i = 3 BY <2>1
    <2> QED BY <1>1, <2>1, <2>2 DEF Ends, Among
  <1>3. CASE q = <<Event(c, "SENDMINUS"), Op("answer", c)>>
    <2>1. Len(q) = 2 /\ q[1] = Event(c, "SENDMINUS") /\ q[2] = Op("answer", c) BY <1>3
    <2>2. \A i \in 1 .. Len(q) : i = 1 \/ i = 2 BY <2>1
    <2> QED BY <1>1, <2>1, <2>2 DEF Ends, Among
  <1>4. CASE q = <<Op("answer", c)>>
    <2>1. Len(q) = 1 /\ q[1] = Op("answer", c) BY <1>4
    <2>2. \A i \in 1 .. Len(q) : i = 1 BY <2>1
    <2> QED BY <1>1, <2>1, <2>2 DEF Ends, Among
  <1> QED BY <1>2, <1>3, <1>4

LEMMA ApiMsgOwners ==
    ASSUME Good, ApiMsgInput
    PROVE  Owners'
  <1>1. Shape /\ Owners /\ WriteOK BY DEF Good, Owners
  <1>2. /\ Shape' /\ UNCHANGED sockets
        /\ mbox # <<>> /\ mbox' = Tail(mbox) /\ mbox[1] \in Message /\ Handled(mbox[1])
    BY <1>1, ApiMsgIs
  <1>3. PICK m : m = mbox[1] OBVIOUS
  <1>4. PICK c : c = m.c OBVIOUS
  <1>5. m \in Message /\ c \in Conn /\ Handled(m) BY <1>2, <1>3, <1>4 DEF Message
  <1>6. conn \in [Conn -> ConnType] /\ \A d \in Conn : conn[d].sndbuf \in Room BY SndbufIs
  <1>7. CASE /\ m.type = "DELCONN" /\ conn' = [conn EXCEPT ![m.c].pcb = NULL]
             /\ Begins(<<Event(m.c, "RCVPLUS"), Event(m.c, "SENDPLUS"), Op("answer", m.c)>>)
    <2>1. /\ \A d \in Conn : d # c => conn'[d] = conn[d]
          /\ conn'[c] = [conn[c] EXCEPT !.pcb = NULL]
      BY <1>4, <1>5, <1>6, <1>7
    <2>2. /\ conn'[c].used = conn[c].used /\ conn'[c].acceptmbox = conn[c].acceptmbox
          /\ conn'[c].reply = conn[c].reply /\ conn'[c].sem = conn[c].sem
          /\ conn'[c].sndbuf = conn[c].sndbuf /\ conn'[c].pcb = NULL
      BY <1>5, <1>6, <2>1 DEF ConnType
    <2>3. PICK q : q = <<Event(c, "RCVPLUS"), Event(c, "SENDPLUS"), Op("answer", c)>>
      OBVIOUS
    <2>4. Begins(q) BY <1>4, <1>7, <2>3
    <2>5. /\ \A i \in 1 .. Len(q) : q[i].op \in Ends => i = Len(q)
          /\ \A p \in Among(q) : p.op # "offer" /\ (HasC(p) => p.c = c)
          /\ Op("answer", c) \in Among(q)
      BY <2>3, AnswerOps
    <2>6. \A d \in Conn : /\ conn'[d].used = conn[d].used /\ conn'[d].acceptmbox = conn[d].acceptmbox
                          /\ conn'[d].reply = conn[d].reply /\ conn'[d].sem = conn[d].sem
                          /\ d # c => conn'[d].pcb = conn[d].pcb /\ conn'[d].sndbuf = conn[d].sndbuf
      BY <2>1, <2>2
    <2>7. conn'[c].pcb = IF mbox[1].type = "DELCONN" THEN NULL ELSE conn[c].pcb
      BY <1>3, <1>7, <2>2
    <2>8. conn'[c].sndbuf \in Room BY <1>5, <1>6, <2>2
    <2> QED BY <1>2, <1>3, <1>4, <1>5, <2>4, <2>5, <2>6, <2>7, <2>8, RequestOwners
  <1>8. CASE m.type = "RECV" /\ UNCHANGED conn /\ Begins(<<Op("answer", m.c)>>)
    <2>1. PICK q : q = <<Op("answer", c)>> OBVIOUS
    <2>2. Begins(q) BY <1>4, <1>8, <2>1
    <2>3. /\ \A i \in 1 .. Len(q) : q[i].op \in Ends => i = Len(q)
          /\ \A p \in Among(q) : p.op # "offer" /\ (HasC(p) => p.c = c)
          /\ Op("answer", c) \in Among(q)
      BY <2>1, AnswerOps
    <2>4. \A d \in Conn : /\ conn'[d].used = conn[d].used /\ conn'[d].acceptmbox = conn[d].acceptmbox
                          /\ conn'[d].reply = conn[d].reply /\ conn'[d].sem = conn[d].sem
                          /\ d # c => conn'[d].pcb = conn[d].pcb /\ conn'[d].sndbuf = conn[d].sndbuf
      BY <1>8
    <2>5. conn'[c].pcb = IF mbox[1].type = "DELCONN" THEN NULL ELSE conn[c].pcb
      BY <1>3, <1>8
    <2>6. conn'[c].sndbuf \in Room BY <1>5, <1>6, <1>8
    <2> QED BY <1>2, <1>3, <1>4, <1>5, <2>2, <2>3, <2>4, <2>5, <2>6, RequestOwners
  <1>9. CASE /\ m.type = "WRITE" /\ conn' = [conn EXCEPT ![m.c].sndbuf = @ - 1]
             /\ \/ Begins(<<Event(m.c, "SENDMINUS"), Op("answer", m.c)>>)
                \/ Begins(<<Op("answer", m.c)>>)
    <2>1. /\ \A d \in Conn : d # c => conn'[d] = conn[d]
          /\ conn'[c] = [conn[c] EXCEPT !.sndbuf = @ - 1]
      BY <1>4, <1>5, <1>6, <1>9
    <2>2. /\ conn'[c].used = conn[c].used /\ conn'[c].acceptmbox = conn[c].acceptmbox
          /\ conn'[c].reply = conn[c].reply /\ conn'[c].sem = conn[c].sem
          /\ conn'[c].sndbuf = conn[c].sndbuf - 1 /\ conn'[c].pcb = conn[c].pcb
      BY <1>5, <1>6, <2>1 DEF ConnType
    <2>3. conn[c].sndbuf # 0
      <3>1. 1 \in 1 .. Len(mbox) BY <1>1, <1>2 DEF Shape, DataTypes
      <3> QED BY <1>1, <1>3, <1>4, <1>9, <3>1 DEF WriteOK
    <2>4. conn'[c].sndbuf \in Room BY <1>5, <1>6, <2>2, <2>3 DEF Room
    <2>5. PICK q : Begins(q) /\ (q = <<Event(c, "SENDMINUS"), Op("answer", c)>> \/ q = <<Op("answer", c)>>)
      BY <1>4, <1>9
    <2>6. /\ \A i \in 1 .. Len(q) : q[i].op \in Ends => i = Len(q)
          /\ \A p \in Among(q) : p.op # "offer" /\ (HasC(p) => p.c = c)
          /\ Op("answer", c) \in Among(q)
      BY <2>5, AnswerOps
    <2>7. \A d \in Conn : /\ conn'[d].used = conn[d].used /\ conn'[d].acceptmbox = conn[d].acceptmbox
                          /\ conn'[d].reply = conn[d].reply /\ conn'[d].sem = conn[d].sem
                          /\ d # c => conn'[d].pcb = conn[d].pcb /\ conn'[d].sndbuf = conn[d].sndbuf
      BY <2>1, <2>2
    <2>8. conn'[c].pcb = IF mbox[1].type = "DELCONN" THEN NULL ELSE conn[c].pcb
      BY <1>3, <1>9, <2>2
    <2> QED BY <1>2, <1>3, <1>4, <1>5, <2>4, <2>5, <2>6, <2>7, <2>8, RequestOwners
  <1> QED BY <1>5, <1>7, <1>8, <1>9 DEF Handled

-----------------------------------------------------------------------------
(* The message at the end of a handler *)

LEMMA LastTcpip ==
    ASSUME Good, Shape', TcpipSteps(<<>>), todo[Tcpip][1].op \in Ends
    PROVE  Ops(Tcpip) = {todo[Tcpip][1]} /\ Ops(Tcpip)' = {} /\ TcpipOK'
  <1>1. Shape /\ TcpipOK /\ todo[Tcpip] \in Seq(TcpipOps) /\ todo[Tcpip] # <<>>
    BY DEF Good, Owners, TcpipSteps
  <1>2. Len(todo[Tcpip]) \in Nat /\ Len(todo[Tcpip]) > 0 BY <1>1
  <1>3. 1 \in 1 .. Len(todo[Tcpip]) BY <1>2
  <1>4. Len(todo[Tcpip]) = 1 BY <1>1, <1>3 DEF TcpipOK
  <1>5. Rest(Tcpip) = {} BY <1>4 DEF Rest, Later
  <1>6. /\ Ops(Tcpip)' = Among(<<>>) \cup Rest(Tcpip)
        /\ \A o \in Ops(Tcpip) : o = todo[Tcpip][1] \/ o \in Rest(Tcpip)
        /\ todo[Tcpip][1] \in Ops(Tcpip)
    BY <1>1, TcpipStepsOps
  <1>7. Ops(Tcpip)' = {} /\ Ops(Tcpip) = {todo[Tcpip][1]} BY <1>5, <1>6, AmongIs
  <1>8. \A i \in 1 .. Len(todo'[Tcpip]) : FALSE BY <1>7 DEF Ops, Among
  <1> QED BY <1>7, <1>8 DEF TcpipOK

LEMMA DeliveredElse ==
    ASSUME Good, UNCHANGED <<sockets, mbox>>, \A u \in Task : todo'[u] = todo[u], Ops(Tcpip)' = {},
           \A d \in Conn : /\ conn'[d].used = conn[d].used /\ conn'[d].pcb = conn[d].pcb
                           /\ conn'[d].sndbuf = conn[d].sndbuf /\ conn'[d].sem = conn[d].sem
    PROVE  /\ TasksWait /\ SameSpots /\ UsesOK' /\ OrderOK' /\ WriteOK'
           /\ \A d \in Conn : Cleared(d) => Cleared(d)'
           /\ \A d : ~Offered(d)' /\ Op("answer", d) \notin Ops(Tcpip)'
  <1>1. Shape /\ UsesOK /\ OrderOK /\ WriteOK BY DEF Good, Owners
  <1>2. TasksWait BY DEF TasksWait
  <1>3. SameSpots /\ UsesOK' /\ OrderOK' BY <1>1, TasksStill
  <1>4. WriteOK'
    <2>1. Ranges' BY <1>1 DEF WriteOK, Ranges
    <2>2. \A i \in 1 .. Len(mbox') : mbox'[i].type = "WRITE" => conn'[mbox'[i].c].sndbuf # 0
      BY <1>1, MboxIs DEF WriteOK
    <2> QED BY <1>1, <1>2, <2>1, <2>2, TcpipWrite
  <1>5. \A d \in Conn : Cleared(d) => Cleared(d)' BY DEF Cleared
  <1>6. \A d : ~Offered(d)' /\ Op("answer", d) \notin Ops(Tcpip)' BY DEF Offered
  <1> QED BY <1>2, <1>3, <1>4, <1>5, <1>6

LEMMA PostOwners ==
    ASSUME Good, Shape', UNCHANGED <<sockets, mbox>>, TcpipSteps(<<>>), NEW o, o = todo[Tcpip][1],
           o.op \in {"post", "answer"}, NEW c \in Conn, c = o.c,
           \A d \in Conn : /\ conn'[d].used = conn[d].used /\ conn'[d].pcb = conn[d].pcb
                           /\ conn'[d].acceptmbox = conn[d].acceptmbox
                           /\ conn'[d].sndbuf = conn[d].sndbuf /\ conn'[d].sem = conn[d].sem
                           /\ conn'[d].reply = IF o = Op("answer", d) THEN conn[d].reply + 1 ELSE conn[d].reply
    PROVE  Owners'
  <1>1. Shape /\ Owners /\ \A u \in Task : todo'[u] = todo[u] BY DEF Good, TcpipSteps
  <1>2. Ops(Tcpip) = {o} /\ Ops(Tcpip)' = {} /\ TcpipOK' BY LastTcpip DEF Ends
  <1>3. /\ TasksWait /\ SameSpots /\ UsesOK' /\ OrderOK' /\ WriteOK'
        /\ \A d \in Conn : Cleared(d) => Cleared(d)'
        /\ \A d : ~Offered(d)' /\ Op("answer", d) \notin Ops(Tcpip)'
    BY <1>1, <1>2, DeliveredElse
  <1>4. Homes /\ QueueOK /\ RequestsOK /\ DeleteOK BY <1>1 DEF Owners
  <1>5. (\A d : ~Offered(d)) /\ Queue' = Queue /\ \A d : Queued(d)' <=> Queued(d)
    BY <1>2, SocketsAssumption DEF Offered, Queue, Queued
  <1>6. Homes'
    <2>1. PICK N : N = {} OBVIOUS
    <2>2. \A d \in Conn : /\ Queued(d)' \/ Offered(d)' <=> Queued(d) \/ Offered(d) \/ d \in N
                          /\ ~(Queued(d)' /\ Offered(d)')
                          /\ conn'[d].used <=> conn[d].used \/ d \in N
                          /\ d \in N => ~conn[d].used
      BY <1>3, <1>5, <2>1
    <2> QED BY <1>3, <1>4, <2>2, TcpipHomes
  <1>7. QueueOK' BY <1>3, <1>4, QueueSame DEF SameUse
  <1>8. \A u \in Task : \A d : (Awaits(u, d)' <=> Awaits(u, d)) /\ (Frees(u, d)' <=> Frees(u, d))
    BY <1>1, SameOps
  <1>9. RequestsOK'
    <2>1. \A d : Asked(d)' <=> Asked(d) BY DEF Asked
    <2>2. \A d \in Conn : Answered(d) => Answered(d)' BY <1>8 DEF Answered
    <2>3. \A m : RequestOK(m) => (\E v \in Task : Awaits(v, m.c)' /\ (m.type = "DELCONN" <=> Frees(v, m.c)'))
      BY <1>8 DEF RequestOK
    <2>4. \A i \in 1 .. Len(mbox') : RequestOK(mbox[i])'
      BY <1>4, <2>3 DEF RequestOK, RequestsOK
    <2>5. ASSUME NEW d \in Conn
          PROVE  conn'[d].reply # 0 => conn'[d].reply = 1 /\ ~Asked(d)' /\ Answered(d)'
      <3>1. CASE o = Op("answer", d)
        <4>1. ~Asked(d) /\ conn[d].reply = 0 /\ Answered(d)
          BY <1>2, <1>4, <3>1 DEF RequestsOK
        <4>2. conn'[d].reply = 1 BY <3>1, <4>1
        <4> QED BY <2>1, <2>2, <4>1, <4>2
      <3>2. CASE o # Op("answer", d) BY <1>4, <2>1, <2>2, <3>2 DEF RequestsOK
      <3> QED BY <3>1, <3>2
    <2>6. \A i, j \in 1 .. Len(mbox') : mbox'[i].c = mbox'[j].c => i = j
      BY <1>4 DEF RequestsOK
    <2> QED BY <1>3, <2>4, <2>5, <2>6 DEF RequestsOK, Op
  <1>10. DeleteOK' BY <1>3, <1>4, TcpipDelete
  <1> QED BY <1>2, <1>3, <1>6, <1>7, <1>9, <1>10 DEF Owners

LEMMA MarkedConns ==
    ASSUME NEW f \in [Conn -> ConnType], NEW new \in Conn, NEW g, g = [f EXCEPT ![new].socket = -1]
    PROVE  /\ g \in [Conn -> ConnType]
           /\ \A d \in Conn : /\ g[d].used = f[d].used /\ g[d].pcb = f[d].pcb /\ g[d].reply = f[d].reply
                              /\ g[d].sndbuf = f[d].sndbuf /\ g[d].sem = f[d].sem
                              /\ g[d].acceptmbox = f[d].acceptmbox
  <1>1. -1 \in Numbers BY SizeType DEF Numbers
  <1>2. g[new] = [f[new] EXCEPT !.socket = -1] /\ \A d \in Conn : d # new => g[d] = f[d]
    OBVIOUS
  <1>3. [f[new] EXCEPT !.socket = -1] \in ConnType BY <1>1 DEF ConnType
  <1>4. /\ g[new].used = f[new].used /\ g[new].pcb = f[new].pcb /\ g[new].reply = f[new].reply
        /\ g[new].sndbuf = f[new].sndbuf /\ g[new].sem = f[new].sem
        /\ g[new].acceptmbox = f[new].acceptmbox
    BY <1>2 DEF ConnType
  <1>5. g = [f EXCEPT ![new] = [f[new] EXCEPT !.socket = -1]] OBVIOUS
  <1>6. g \in [Conn -> ConnType] BY <1>3, <1>5
  <1> QED BY <1>2, <1>4, <1>6

LEMMA FilledConns ==
    ASSUME NEW f \in [Conn -> ConnType], NEW c \in Conn, NEW q, NEW g, g = [f EXCEPT ![c].acceptmbox = q]
    PROVE  /\ \A d \in Conn : /\ g[d].used = f[d].used /\ g[d].pcb = f[d].pcb /\ g[d].reply = f[d].reply
                              /\ g[d].sndbuf = f[d].sndbuf /\ g[d].sem = f[d].sem
                              /\ d # c => g[d].acceptmbox = f[d].acceptmbox
           /\ g[c].acceptmbox = q
  <1>1. g[c] = [f[c] EXCEPT !.acceptmbox = q] /\ \A d \in Conn : d # c => g[d] = f[d]
    OBVIOUS
  <1>2. /\ g[c].used = f[c].used /\ g[c].pcb = f[c].pcb /\ g[c].reply = f[c].reply
        /\ g[c].sndbuf = f[c].sndbuf /\ g[c].sem = f[c].sem /\ g[c].acceptmbox = q
    BY <1>1 DEF ConnType
  <1> QED BY <1>1, <1>2

LEMMA OfferedConns ==
    ASSUME conn \in [Conn -> ConnType], NEW c \in Conn, NEW new \in Conn,
           NEW h, h \in [Conn -> ConnType],
           \A d \in Conn : /\ h[d].used = conn[d].used /\ h[d].pcb = conn[d].pcb /\ h[d].reply = conn[d].reply
                           /\ h[d].sndbuf = conn[d].sndbuf /\ h[d].sem = conn[d].sem
                           /\ h[d].acceptmbox = conn[d].acceptmbox
    PROVE  conn' = [h EXCEPT ![c].acceptmbox = Append(@, new)] =>
              /\ \A d \in Conn : /\ conn'[d].used = conn[d].used /\ conn'[d].pcb = conn[d].pcb
                                 /\ conn'[d].reply = conn[d].reply
                                 /\ conn'[d].sndbuf = conn[d].sndbuf /\ conn'[d].sem = conn[d].sem
                                 /\ d # c => conn'[d].acceptmbox = conn[d].acceptmbox
              /\ conn'[c].acceptmbox = Append(conn[c].acceptmbox, new)
  <1>3. PICK q : q = Append(h[c].acceptmbox, new) OBVIOUS
  <1>4. PICK g : g = [h EXCEPT ![c].acceptmbox = q] OBVIOUS
  <1>5. /\ \A d \in Conn : /\ g[d].used = h[d].used /\ g[d].pcb = h[d].pcb /\ g[d].reply = h[d].reply
                           /\ g[d].sndbuf = h[d].sndbuf /\ g[d].sem = h[d].sem
                           /\ d # c => g[d].acceptmbox = h[d].acceptmbox
        /\ g[c].acceptmbox = q
    BY <1>4, FilledConns
  <1>6. conn' = [h EXCEPT ![c].acceptmbox = Append(@, new)] => conn' = g BY <1>3, <1>4
  <1>7. q = Append(conn[c].acceptmbox, new) BY <1>3
  <1>8. conn' = g =>
              /\ \A d \in Conn : /\ conn'[d].used = conn[d].used /\ conn'[d].pcb = conn[d].pcb
                                 /\ conn'[d].reply = conn[d].reply
                                 /\ conn'[d].sndbuf = conn[d].sndbuf /\ conn'[d].sem = conn[d].sem
                                 /\ d # c => conn'[d].acceptmbox = conn[d].acceptmbox
              /\ conn'[c].acceptmbox = q
    BY <1>5
  <1> QED BY <1>6, <1>7, <1>8

(* A mailbox with one connection more *)
LEMMA QueueGrows ==
    ASSUME NEW S, NEW q \in Seq(S), NEW new, new \in S, \A i, j \in 1 .. Len(q) : q[i] = q[j] => i = j,
           \A i \in 1 .. Len(q) : q[i] # new
    PROVE  \A r : r = Append(q, new) =>
              /\ \A i, j \in 1 .. Len(r) : r[i] = r[j] => i = j
              /\ \A d : (\E i \in 1 .. Len(r) : r[i] = d) <=> (\E i \in 1 .. Len(q) : q[i] = d) \/ d = new
  <1> SUFFICES ASSUME NEW r, r = Append(q, new)
               PROVE  /\ \A i, j \in 1 .. Len(r) : r[i] = r[j] => i = j
                      /\ \A d : (\E i \in 1 .. Len(r) : r[i] = d) <=> (\E i \in 1 .. Len(q) : q[i] = d) \/ d = new
    OBVIOUS
  <1>1. PICK n \in Nat : n = Len(q) OBVIOUS
  <1>2. Len(r) = n + 1 /\ r[n + 1] = new /\ \A i \in 1 .. n : r[i] = q[i] BY <1>1
  <1>3. \A i \in 1 .. n + 1 : i \in 1 .. n \/ i = n + 1 OBVIOUS
  <1>4. n + 1 \in 1 .. n + 1 /\ \A i \in 1 .. n : i \in 1 .. n + 1 OBVIOUS
  <1>5. \A i \in 1 .. n : r[i] # new BY <1>1, <1>2
  <1>6. \A i, j \in 1 .. n : r[i] = r[j] => i = j BY <1>1, <1>2
  <1>7. \A i, j \in 1 .. Len(r) : r[i] = r[j] => i = j BY <1>2, <1>3, <1>5, <1>6
  <1>8. ASSUME NEW d PROVE (\E i \in 1 .. Len(r) : r[i] = d) <=> (\E i \in 1 .. Len(q) : q[i] = d) \/ d = new
    BY <1>1, <1>2, <1>3, <1>4
  <1> QED BY <1>7, <1>8

(* A new connection goes into the mailbox of the listening netconn. *)
LEMMA OfferOwners ==
    ASSUME Good, Shape', UNCHANGED <<sockets, mbox>>, TcpipSteps(<<>>), NEW o, o = todo[Tcpip][1],
           o.op = "offer", NEW c \in Conn, c = o.c, NEW new \in Conn, new = o.new,
           \A d \in Conn : /\ conn'[d].used = conn[d].used /\ conn'[d].pcb = conn[d].pcb
                           /\ conn'[d].reply = conn[d].reply
                           /\ conn'[d].sndbuf = conn[d].sndbuf /\ conn'[d].sem = conn[d].sem
                           /\ d # c => conn'[d].acceptmbox = conn[d].acceptmbox,
           ~Queued(new) => /\ \A i, j \in 1 .. Len(Queue') : Queue'[i] = Queue'[j] => i = j
                           /\ \A d : Queued(d)' <=> Queued(d) \/ d = new
    PROVE  Owners'
  <1>1. /\ Shape /\ Owners /\ \A u \in Task : todo'[u] = todo[u]
        /\ conn \in [Conn -> ConnType]
    BY DEF Good, TcpipSteps, Shape, DataTypes
  <1>2. Ops(Tcpip) = {o} /\ Ops(Tcpip)' = {} /\ TcpipOK' BY LastTcpip DEF Ends
  <1>3. /\ TasksWait /\ SameSpots /\ UsesOK' /\ OrderOK' /\ WriteOK'
        /\ \A d \in Conn : Cleared(d) => Cleared(d)'
        /\ \A d : ~Offered(d)' /\ Op("answer", d) \notin Ops(Tcpip)'
    BY <1>1, <1>2, DeliveredElse
  <1>4. Homes /\ QueueOK /\ RequestsOK /\ DeleteOK /\ TcpipOK BY <1>1 DEF Owners
  <1>5. c = Listener /\ conn[c].pcb = "LISTEN" BY <1>2, <1>4 DEF TcpipOK
  <1>6. \A d : Offered(d) <=> d = new BY <1>2 DEF Offered
  <1>7. ~Queued(new) BY <1>4, <1>6 DEF Homes
  <1>8. /\ \A i, j \in 1 .. Len(Queue') : Queue'[i] = Queue'[j] => i = j
        /\ \A d : Queued(d)' <=> Queued(d) \/ d = new
    BY <1>7
  <1>9. Homes'
    <2>1. PICK N : N = {} OBVIOUS
    <2>2. \A d \in Conn : /\ Queued(d)' \/ Offered(d)' <=> Queued(d) \/ Offered(d) \/ d \in N
                          /\ ~(Queued(d)' /\ Offered(d)')
                          /\ conn'[d].used <=> conn[d].used \/ d \in N
                          /\ d \in N => ~conn[d].used
      BY <1>3, <1>6, <1>8, <2>1
    <2> QED BY <1>3, <1>4, <2>2, TcpipHomes
  <1>10. QueueOK'
    <2>1. \A d \in Conn : /\ conn'[d].pcb = "LISTEN" \/ conn'[d].acceptmbox # <<>> =>
                                conn[d].pcb = "LISTEN" \/ conn[d].acceptmbox # <<>>
                          /\ conn'[d].pcb # NULL => conn'[d].used
      BY <1>4, <1>5 DEF QueueOK
    <2> QED BY <1>3, <1>4, <1>8, <2>1, TcpipQueue
  <1>11. RequestsOK' BY <1>3, <1>4, TcpipRequests
  <1>12. DeleteOK'
    <2>1. ASSUME NEW u \in Task, NEW d \in Conn, Gone(u, d) PROVE d # c
      BY <1>4, <1>5, <2>1 DEF DeleteOK, Cleared, NULL
    <2> QED BY <1>3, <1>4, <2>1, TcpipDelete
  <1> QED BY <1>2, <1>3, <1>9, <1>10, <1>11, <1>12 DEF Owners

LEMMA DeliverOwners ==
    ASSUME Good, Deliver
    PROVE  Owners'
  <1>1. Shape /\ conn \in [Conn -> ConnType] BY DEF Good, Shape, DataTypes
  <1>2. PICK o : o = todo[Tcpip][1] OBVIOUS
  <1>3. /\ Shape' /\ UNCHANGED <<sockets, mbox>> /\ TcpipSteps(<<>>) /\ o.c \in Conn
        /\ o.op \in {"post", "offer", "answer"} /\ Delivered(o)
    BY <1>1, <1>2, DeliverIs
  <1>4. PICK c \in Conn : c = o.c BY <1>3
  <1>5. CASE o = Post(o.c, o.m) /\ conn' = [conn EXCEPT ![o.c].recvmbox = Append(@, o.m)]
    <2>1. o.op = "post" /\ \A d : o # Op("answer", d) BY <1>5 DEF Post, Op
    <2>2. \A d \in Conn : /\ conn'[d].used = conn[d].used /\ conn'[d].pcb = conn[d].pcb
                          /\ conn'[d].acceptmbox = conn[d].acceptmbox
                          /\ conn'[d].sndbuf = conn[d].sndbuf /\ conn'[d].sem = conn[d].sem
                          /\ conn'[d].reply = conn[d].reply
      BY <1>1, <1>4, <1>5 DEF ConnType
    <2> QED BY <1>2, <1>3, <1>4, <2>1, <2>2, PostOwners
  <1>6. CASE o = Op("answer", o.c) /\ conn' = [conn EXCEPT ![o.c].reply = @ + 1]
    <2>1. o.op = "answer" /\ \A d : o = Op("answer", d) <=> d = c BY <1>4, <1>6 DEF Op
    <2>2. \A d \in Conn : /\ conn'[d].used = conn[d].used /\ conn'[d].pcb = conn[d].pcb
                          /\ conn'[d].acceptmbox = conn[d].acceptmbox
                          /\ conn'[d].sndbuf = conn[d].sndbuf /\ conn'[d].sem = conn[d].sem
                          /\ conn'[d].reply = IF o = Op("answer", d) THEN conn[d].reply + 1 ELSE conn[d].reply
      <3>1. /\ \A d \in Conn : d # c => conn'[d] = conn[d]
            /\ conn'[c] = [conn[c] EXCEPT !.reply = @ + 1]
        BY <1>1, <1>4, <1>6
      <3>2. /\ conn'[c].used = conn[c].used /\ conn'[c].pcb = conn[c].pcb
            /\ conn'[c].acceptmbox = conn[c].acceptmbox
            /\ conn'[c].sndbuf = conn[c].sndbuf /\ conn'[c].sem = conn[c].sem
            /\ conn'[c].reply = conn[c].reply + 1
        BY <1>1, <3>1 DEF ConnType
      <3>3. ASSUME NEW d \in Conn
            PROVE  /\ conn'[d].used = conn[d].used /\ conn'[d].pcb = conn[d].pcb
                   /\ conn'[d].acceptmbox = conn[d].acceptmbox
                   /\ conn'[d].sndbuf = conn[d].sndbuf /\ conn'[d].sem = conn[d].sem
                   /\ conn'[d].reply = IF o = Op("answer", d) THEN conn[d].reply + 1 ELSE conn[d].reply
        <4>1. CASE d = c BY <2>1, <3>2, <4>1
        <4>2. CASE d # c BY <2>1, <3>1, <4>2
        <4> QED BY <4>1, <4>2
      <3> QED BY <3>3
    <2> QED BY <1>2, <1>3, <1>4, <2>1, <2>2, PostOwners
  <1>7. CASE /\ o = Offer(o.c, o.new) /\ o.new \in Conn
             /\ conn' = [conn EXCEPT ![o.new].socket = -1, ![o.c].acceptmbox = Append(@, o.new)]
    <2>1. o.op = "offer" BY <1>7 DEF Offer
    <2>2. PICK new \in Conn : new = o.new BY <1>7
    <2>7. /\ \A d \in Conn : /\ conn'[d].used = conn[d].used /\ conn'[d].pcb = conn[d].pcb
                             /\ conn'[d].reply = conn[d].reply
                             /\ conn'[d].sndbuf = conn[d].sndbuf /\ conn'[d].sem = conn[d].sem
                             /\ d # c => conn'[d].acceptmbox = conn[d].acceptmbox
          /\ conn'[c].acceptmbox = Append(conn[c].acceptmbox, new)
      <3> DEFINE h == [conn EXCEPT ![new].socket = -1]
      <3>1. conn' = [conn EXCEPT ![new].socket = -1, ![c].acceptmbox = Append(@, new)]
        BY <1>4, <1>7, <2>2
      <3>2. conn' = [h EXCEPT ![c].acceptmbox = Append(@, new)] BY <3>1
      <3>3. PICK g : g = h OBVIOUS
      <3>4. g = [conn EXCEPT ![new].socket = -1] BY <3>3
      <3> HIDE DEF h
      <3>5. /\ g \in [Conn -> ConnType]
            /\ \A d \in Conn : /\ g[d].used = conn[d].used /\ g[d].pcb = conn[d].pcb
                               /\ g[d].reply = conn[d].reply
                               /\ g[d].sndbuf = conn[d].sndbuf /\ g[d].sem = conn[d].sem
                               /\ g[d].acceptmbox = conn[d].acceptmbox
        BY <1>1, <3>4, MarkedConns
      <3>6. conn' = [g EXCEPT ![c].acceptmbox = Append(@, new)] BY <3>2, <3>3
      <3> QED BY <1>1, <3>5, <3>6, OfferedConns
    <2>3. \A d \in Conn : /\ conn'[d].used = conn[d].used /\ conn'[d].pcb = conn[d].pcb
                          /\ conn'[d].reply = conn[d].reply
                          /\ conn'[d].sndbuf = conn[d].sndbuf /\ conn'[d].sem = conn[d].sem
                          /\ d # c => conn'[d].acceptmbox = conn[d].acceptmbox
      BY <2>7
    <2>6. conn'[c].acceptmbox = Append(conn[c].acceptmbox, new) BY <2>7
    <2>4. c = Listener /\ \A k, j \in 1 .. Len(Queue) : Queue[k] = Queue[j] => k = j
      <3>1. TcpipOK /\ QueueOK BY DEF Good, Owners
      <3>2. o \in Ops(Tcpip) BY <1>1, <1>2, <1>3, TcpipStepsOps
      <3> QED BY <1>4, <2>1, <3>1, <3>2 DEF TcpipOK, QueueOK
    <2>5. ~Queued(new) => /\ \A i, j \in 1 .. Len(Queue') : Queue'[i] = Queue'[j] => i = j
                          /\ \A d : Queued(d)' <=> Queued(d) \/ d = new
      <3>1. ASSUME ~Queued(new)
            PROVE  /\ \A i, j \in 1 .. Len(Queue') : Queue'[i] = Queue'[j] => i = j
                   /\ \A d : (\E i \in 1 .. Len(Queue') : Queue'[i] = d)
                               <=> (\E i \in 1 .. Len(Queue) : Queue[i] = d) \/ d = new
        <4>1. Queue \in Seq(Conn) BY <1>1, SocketsAssumption DEF Queue, ConnType
        <4>2. Queue' = Append(Queue, new) BY <2>4, <2>6 DEF Queue
        <4>3. \A i \in 1 .. Len(Queue) : Queue[i] # new BY <3>1 DEF Queued
        <4> QED BY <2>4, <4>1, <4>2, <4>3, QueueGrows
      <3> QED BY <3>1 DEF Queued
    <2> QED BY <1>2, <1>3, <1>4, <2>1, <2>2, <2>3, <2>5, OfferOwners
  <1> QED BY <1>3, <1>5, <1>6, <1>7 DEF Delivered

-----------------------------------------------------------------------------
(* The invariant of the netconns *)

LEMMA GoodInit == Init => Good
  <1> SUFFICES ASSUME Init PROVE Good OBVIOUS
  <1>1. Shape /\ CallsOK /\ Listener \in Conn /\ 0 \in Socket
    BY ShapeInit, SizeType, SocketsAssumption
  <1>2. /\ \A t \in Task \cup {Tcpip} : todo[t] = <<>>
        /\ mbox = <<>> /\ Len(mbox) = 0
        /\ \A s \in Socket : sockets[s].conn = IF s = 0 THEN Listener ELSE NULL
    BY DEF Init, FreeSocket
  <1>3. \A c \in Conn : /\ conn[c].used <=> c = Listener
                        /\ conn[c].pcb = IF c = Listener THEN "LISTEN" ELSE NULL
                        /\ conn[c].acceptmbox = <<>> /\ conn[c].reply = 0
                        /\ conn[c].sndbuf = 2 /\ conn[c].sem = -1
    BY DEF Init, FreeConn
  <1>4. \A t \in Task \cup {Tcpip} : Ops(t) = {} /\ Len(todo[t]) = 0 BY <1>2 DEF Ops, Among
  <1>5. \A c \in Conn : /\ \A s \in Socket : AtSocket(c, s) <=> s = 0 /\ c = Listener
                        /\ \A t \in Task : ~Guest(t, c)
                        /\ Held(c) <=> c = Listener
                        /\ ~Queued(c) /\ ~Offered(c)
    <2>1. \A s \in Socket : ~Stale(s) BY <1>4 DEF Stale
    <2>2. ASSUME NEW c \in Conn, NEW s \in Socket PROVE AtSocket(c, s) <=> s = 0 /\ c = Listener
      <3>1. c # NULL BY SocketsAssumption
      <3> QED BY <1>2, <2>1, <3>1 DEF AtSocket
    <2>3. \A c \in Conn, t \in Task : ~Guest(t, c) BY <1>4 DEF Guest
    <2>4. Len(Queue) = 0 BY <1>1, <1>3 DEF Queue
    <2>5. \A c \in Conn : ~Queued(c) /\ ~Offered(c) BY <1>4, <2>4 DEF Queued, Offered
    <2> QED BY <1>1, <2>2, <2>3, <2>5 DEF Held
  <1>6. Homes BY <1>3, <1>5 DEF Homes
  <1>7. QueueOK
    <2>1. Len(Queue) = 0 BY <1>1, <1>3 DEF Queue
    <2>2. NULL # "LISTEN" BY DEF NULL
    <2> QED BY <1>1, <1>3, <1>5, <2>1, <2>2 DEF QueueOK
  <1>8. UsesOK /\ OrderOK BY <1>4 DEF UsesOK, OrderOK, FreesLast, ClosesLast
  <1>9. RequestsOK BY <1>2, <1>3, <1>4 DEF RequestsOK
  <1>10. TcpipOK BY <1>4 DEF TcpipOK
  <1>11. DeleteOK BY <1>4 DEF DeleteOK, Gone, Frees
  <1>12. WriteOK BY <1>2, <1>3, <1>4 DEF WriteOK, SemOK, AskOK, Ranges, Room
  <1> QED BY <1>1, <1>6, <1>7, <1>8, <1>9, <1>10, <1>11, <1>12 DEF Good, Owners

LEMMA NetconnOwners == ASSUME Good, NEW t \in Task, NetconnStep(t) PROVE Owners'
  <1>1. PICK c \in Conn : OnConn(t, c) /\ NetconnStepIs(t, c) BY NetconnSteps DEF Good
  <1> QED
    BY <1>1, AskOwners, AwaitOwners, TakeOwners, FetchOwners, FreeMboxOwners, WriteOwners,
       WaitForRoomOwners, FreeSemOwners, DrainOwners, FreeNetconnOwners DEF NetconnStepIs

LEMMA SocketOwners == ASSUME Good, NEW t \in Task, SocketStep(t) PROVE Owners'
  <1>1. /\ UNCHANGED <<select, mbox, traffic>>
        /\ \/ AllocSocket(t) \/ ReturnFrom(t)
           \/ \E s \in Socket : OnSocket(t, s) /\ SocketStepIs(t, s)
    BY SocketSteps DEF Good
  <1>2. ASSUME NEW s \in Socket, OnSocket(t, s), SocketStepIs(t, s) PROVE Owners'
    BY <1>2, CopyOwners, AdoptOwners, PublishOwners, CloseLockedOwners, ClosedOwners DEF SocketStepIs
  <1>3. AllocSocket(t) \/ ReturnFrom(t) => Owners' BY <1>1, AllocOwners, ReturnOwners
  <1> QED BY <1>1, <1>2, <1>3

LEMMA GoodNext == ASSUME Good, "orphan" \notin Allowed, Next PROVE Good'
  <1>1. Shape' /\ CallsOK' BY ShapeNext DEF Good
  <1>2. CASE Input \/ ApiMsgInput \/ Deliver
    BY <1>1, <1>2, InputOwners, ApiMsgOwners, DeliverOwners DEF Good
  <1>3. CASE \E t \in Task \cup {Tcpip} : Callback(t)
    BY <1>1, <1>3, TaskCallbackOwners, TcpipCallbackOwners DEF Good
  <1>4. ASSUME NEW t \in Task, BeginCall(t) \/ Woken(t) \/ Timeout(t) \/ LeaveSelect(t) PROVE Good'
    BY <1>1, <1>4, BeginCallOwners, WokenOwners, LeaveOwners DEF Good
  <1>5. ASSUME NEW t \in Task, NetconnStep(t) \/ SocketStep(t) PROVE Good'
    BY <1>1, <1>5, NetconnOwners, SocketOwners DEF Good
  <1>6. ASSUME NEW t \in Task, NEW R \in SUBSET Socket, NEW W \in SUBSET Socket, Select(t, R, W)
        PROVE  Good'
    BY <1>1, <1>6, SelectOwners DEF Good
  <1> QED BY <1>2, <1>3, <1>4, <1>5, <1>6 DEF Next

LEMMA GoodSame == ASSUME Good, UNCHANGED vars PROVE Good'
  <1>1. UNCHANGED <<conn, todo, mbox>> /\ \A s \in Socket : sockets'[s].conn = sockets[s].conn
    BY DEF vars
  <1>2. Shape' /\ CallsOK' BY ShapeSame DEF Good
  <1> QED BY <1>1, <1>2, StillOwners DEF Good

LEMMA OpIs == ASSUME NEW name, NEW c PROVE HasC(Op(name, c)) /\ Op(name, c).c = c
  BY DEF HasC, Op

LEMMA OpAt ==
    ASSUME Shape, NEW t \in Task \cup {Tcpip}
    PROVE  /\ \A i \in DOMAIN todo[t] : todo[t][i] \in Ops(t)
           /\ \A o \in Ops(t) : \E i \in DOMAIN todo[t] : todo[t][i] = o
  <1>1. todo[t] \in Seq(TaskOps \cup TcpipOps) BY DEF Shape, OpTypes
  <1>2. DOMAIN todo[t] = 1 .. Len(todo[t]) BY <1>1
  <1> QED BY <1>2 DEF Ops, Among

LEMMA GoodTypes == ASSUME Good PROVE TypeOK
  <1>1. Shape /\ RequestsOK /\ Ranges BY DEF Good, Owners, WriteOK
  <1>2. /\ sockets \in [Socket -> SocketType] /\ conn \in [Conn -> ConnType]
        /\ select_cb_list \in Seq(Task) /\ socksem \in Task \cup {NULL} /\ traffic \in 0 .. MaxTraffic
    BY <1>1 DEF Shape, DataTypes
  <1>3. ASSUME NEW s \in Socket
        PROVE  /\ sockets[s].conn \in Conn \cup {NULL} /\ sockets[s].rcvevent \in Int
               /\ sockets[s].sendevent \in BOOLEAN /\ sockets[s].lastdata \in BOOLEAN
    BY <1>2 DEF SocketType
  <1>4. ASSUME NEW c \in Conn
        PROVE  /\ conn[c].used \in BOOLEAN
               /\ conn[c].pcb \in {NULL, "LISTEN", "ESTABLISHED", "CLOSE_WAIT"}
               /\ conn[c].socket \in Int /\ conn[c].recvmbox \in Seq({"data", "fin"})
               /\ conn[c].recv \in BOOLEAN /\ conn[c].reply \in Nat /\ conn[c].acceptmbox \in Seq(Conn)
               /\ conn[c].sndbuf \in Room /\ conn[c].sem \in Nat \cup {-1}
    <2>1. conn[c] \in ConnType BY <1>2
    <2>2. conn[c].reply \in Nat BY <1>1 DEF RequestsOK
    <2>3. conn[c].sndbuf \in Room /\ conn[c].sem \in Nat \cup {-1} BY <1>1 DEF Ranges
    <2> QED BY <2>1, <2>2, <2>3 DEF ConnType, Numbers
  <1>5. IsInjective(select_cb_list)
    <2>1. DOMAIN select_cb_list = 1 .. Len(select_cb_list) BY <1>2
    <2> QED BY <1>1, <2>1 DEF Shape, ListOK, IsInjective
  <1> QED BY <1>2, <1>3, <1>4, <1>5 DEF TypeOK

LEMMA GoodOwners == ASSUME Good PROVE NoFreedConn
  <1>1. Shape /\ Homes /\ TcpipOK /\ mbox \in Seq(Message)
    BY DEF Good, Owners, Shape, DataTypes
  <1>2. TypeOK BY GoodTypes
  <1>3. ASSUME NEW i \in DOMAIN mbox PROVE conn[mbox[i].c].used
    <2>1. i \in 1 .. Len(mbox) BY <1>1
    <2> QED BY <2>1, AskedAwaits, HeldIs
  <1>4. ASSUME NEW t \in Task \cup {Tcpip}, NEW i \in DOMAIN todo[t], "c" \in DOMAIN todo[t][i]
        PROVE  conn[todo[t][i].c].used
    <2>1. todo[t][i] \in Ops(t) /\ HasC(todo[t][i]) BY <1>1, <1>4, OpAt DEF HasC
    <2> QED BY <1>1, <2>1, AllHeld DEF TcpipOK
  <1>5. ASSUME NEW c \in Conn, conn[c].used
        PROVE  \/ \E s \in Socket : sockets[s].conn = c
               \/ \E l \in Conn : c \in ToSet(conn[l].acceptmbox)
               \/ \E t \in Task \cup {Tcpip} : \E i \in DOMAIN todo[t] :
                     \/ "c" \in DOMAIN todo[t][i] /\ todo[t][i].c = c
                     \/ todo[t][i].op = "offer" /\ todo[t][i].new = c
    <2>1. \/ \E s \in Socket : AtSocket(c, s)
          \/ \E t \in Task : Guest(t, c)
          \/ Queued(c)
          \/ Offered(c)
      BY <1>1, <1>5 DEF Homes, Held
    <2>2. CASE \E s \in Socket : AtSocket(c, s) BY <2>2 DEF AtSocket
    <2>3. CASE \E t \in Task : Guest(t, c)
      <3>1. PICK t \in Task : Guest(t, c) BY <2>3
      <3>2. PICK o \in Ops(t) : HasC(o) /\ o.c = c BY <3>1, OpIs DEF Guest
      <3>3. PICK i \in DOMAIN todo[t] : todo[t][i] = o BY <1>1, OpAt
      <3> QED BY <3>2, <3>3 DEF HasC
    <2>4. CASE Queued(c)
      <3>1. PICK i \in 1 .. Len(Queue) : Queue[i] = c BY <2>4 DEF Queued
      <3>2. Listener \in Conn /\ Queue \in Seq(Conn)
        BY <1>1, SocketsAssumption DEF Queue, Shape, DataTypes, ConnType
      <3>3. c \in ToSet(Queue) BY <3>1, <3>2 DEF ToSet
      <3> QED BY <3>2, <3>3 DEF Queue
    <2>5. CASE Offered(c)
      <3>1. PICK o \in Ops(Tcpip) : o.op = "offer" /\ o.new = c BY <2>5 DEF Offered
      <3>2. PICK i \in DOMAIN todo[Tcpip] : todo[Tcpip][i] = o BY <1>1, OpAt
      <3> QED BY <3>1, <3>2
    <2> QED BY <2>1, <2>2, <2>3, <2>4, <2>5
  <1> QED BY <1>2, <1>3, <1>4, <1>5 DEF NoFreedConn

(* A netconn in use is in one place, a socket, the mailbox of the listening *)
(* one, the hands of the tcpip thread or of one task, and is freed by the   *)
(* task that has it after the tcpip thread has let go of it.                *)
THEOREM OwnersInvariant == ASSUME "orphan" \notin Allowed PROVE Spec => []Good
  <1>1. Init => Good BY GoodInit
  <1>2. Good /\ [Next]_vars => Good' BY GoodNext, GoodSame
  <1> QED BY <1>1, <1>2, PTL DEF Spec

(* Unless a handshake completes after its listener has been closed, nothing *)
(* that a task or the tcpip thread still has to do, and no API message, is  *)
(* about a netconn that has been freed, and no netconn leaks.               *)
THEOREM FreedConnsUnused == ASSUME "orphan" \notin Allowed PROVE Spec => []NoFreedConn
  <1>1. Good => NoFreedConn BY GoodOwners
  <1> QED BY <1>1, OwnersInvariant, PTL
=============================================================================
