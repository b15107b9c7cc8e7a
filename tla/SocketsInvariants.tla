-------------------------- MODULE SocketsInvariants --------------------------
(***************************************************************************)
(* What Sockets_proofs is about: the inductive invariants of the sockets   *)
(* and their parts, and what a step of an operation comes to.  The three   *)
(* invariants are Shape /\ CallsOK, the types and the order of the         *)
(* operations; Signals, for lwip_select; and Good, for the netconns.       *)
(***************************************************************************)
EXTENDS Sockets

-----------------------------------------------------------------------------
(* The operations of the tasks, and those of the tcpip thread *)

CallNames == {"take", "alloc", "fetch", "freembox", "await", "write", "room", "freesem",
              "drain", "free"}

EndNames == {"return", "asleep", "leave"}

TaskOps ==
    [op : {"event"}, c : Conn, evt : {"RCVMINUS"}]
    \cup [op : {"count"}, s : Socket, evt : {"RCVMINUS"}]
    \cup [op : {"search", "copy", "close", "closed", "return"}, s : Socket]
    \cup [op : {"signal"}, t : Task]
    \cup [op : {"ask"}, c : Conn, type : {"DELCONN", "RECV", "WRITE"}]
    \cup [op : CallNames, c : Conn]
    \cup [op : {"adopt", "publish"}, c : Conn, s : Socket]
    \cup [op : {"asleep", "leave"}]

TcpipOps ==
    [op : {"event"}, c : Conn, evt : {"RCVPLUS", "SENDPLUS", "SENDMINUS"}]
    \cup [op : {"countdown", "answer"}, c : Conn]
    \cup [op : {"count"}, s : Socket, evt : {"RCVPLUS", "SENDPLUS", "SENDMINUS"}]
    \cup [op : {"search"}, s : Socket]
    \cup [op : {"signal"}, t : Task]
    \cup [op : {"post"}, c : Conn, m : {"data", "fin"}]
    \cup [op : {"offer"}, c : Conn, new : Conn]

HasC(o) == "c" \in DOMAIN o

-----------------------------------------------------------------------------
(* Types *)

SocketType == [conn : Conn \cup {NULL}, rcvevent : Int, sendevent : BOOLEAN, lastdata : BOOLEAN]

(* A socket, or what a netconn without one counts down to *)
Numbers == {n \in Int : n < Size}
ConnType == [used : BOOLEAN, pcb : {NULL, "LISTEN", "ESTABLISHED", "CLOSE_WAIT"}, socket : Numbers,
             recv : BOOLEAN, recvmbox : Seq({"data", "fin"}), acceptmbox : Seq(Conn),
             reply : Int, sndbuf : Int, sem : Int]

ScbType == [readset : SUBSET Socket, writeset : SUBSET Socket, sem_signalled : BOOLEAN,
            sem : Nat \cup {-1}]

Message == [type : {"DELCONN", "RECV", "WRITE"}, c : Conn]

DataTypes ==
    /\ sockets \in [Socket -> SocketType]
    /\ conn \in [Conn -> ConnType]
    /\ select_cb_list \in Seq(Task)
    /\ scb \in [Task -> ScbType]
    /\ socksem \in Task \cup {NULL}
    /\ mbox \in Seq(Message)
    /\ traffic \in 0 .. MaxTraffic

OpTypes ==
    /\ todo \in [Task \cup {Tcpip} -> Seq(TaskOps \cup TcpipOps)]
    /\ \A t \in Task : todo[t] \in Seq(TaskOps)
    /\ todo[Tcpip] \in Seq(TcpipOps)

Types == DataTypes /\ OpTypes

-----------------------------------------------------------------------------
(* What a step does to the operations of a task *)

(* r is ops and what comes in q behind its first. *)
Behind(r, ops, q) ==
    /\ Len(r) = Len(ops) + Len(q) - 1
    /\ \A i \in 1 .. Len(ops) : r[i] = ops[i]
    /\ \A i \in 2 .. Len(q) : r[Len(ops) + i - 1] = q[i]
    /\ \A j \in 1 .. Len(r) :
          \/ j \in 1 .. Len(ops)
          \/ j - Len(ops) + 1 \in 2 .. Len(q) /\ r[j] = q[j - Len(ops) + 1]

Leaves(t, ops) == Behind(todo'[t], ops, todo[t])

-----------------------------------------------------------------------------
(* The order of a task's operations *)

(* p comes directly behind o. *)
Follows(o, p) ==
    /\ o.op \in {"event", "count", "search"} => p.op \in {"alloc", "freembox", "ask"}
    /\ o.op = "signal" => p.op = "search"
    /\ o.op = "ask" => p = Op("await", o.c)
    /\ o.op = "await" => p \in {Op("drain", o.c), Op("freesem", o.c)} \/ p.op = "copy"
    /\ o.op = "drain" => p = Op("free", o.c)
    /\ o.op = "free" => p.op \in {"drain", "closed"}
    /\ o.op \in {"take", "fetch", "freembox", "copy", "write", "room", "freesem", "close",
                 "closed", "alloc", "adopt", "publish"} => p.op = "return"
    /\ o.op \in {"copy", "close", "closed"} => p = Return(o.s)

(* The netconn_delete of a request for it *)
Drained(o, p) == o.op = "ask" => (o.type = "DELCONN" <=> p.op = "drain")

Ordered(q) ==
    /\ \A i \in 1 .. Len(q) : q[i].op \in EndNames <=> i = Len(q)
    /\ \A i \in 1 .. Len(q) : q[i].op \in {"asleep", "leave"} => i = 1
    /\ \A i \in 1 .. Len(q) - 1 : Follows(q[i], q[i + 1])
    /\ \A i \in 1 .. Len(q) - 2 : Drained(q[i], q[i + 2])

Grammar == \A t \in Task : Ordered(todo[t])

(* What may come before p instead of the operation that does *)
Fits(ops, p) ==
    /\ \A i \in 1 .. Len(ops) : ops[i].op \notin EndNames
    /\ \A i \in 1 .. Len(ops) - 1 : Follows(ops[i], ops[i + 1])
    /\ \A i \in 1 .. Len(ops) - 2 : Drained(ops[i], ops[i + 2])
    /\ Len(ops) > 0 => ops[Len(ops)].op # "ask" /\ Follows(ops[Len(ops)], p)
    /\ Len(ops) > 1 => ops[Len(ops) - 1].op # "ask"

InSelect(t) == todo[t] # <<>> /\ todo[t][1].op \in {"asleep", "leave"}

-----------------------------------------------------------------------------
(* Types and order, an operation at a time *)

Listed(t) == \E i \in 1 .. Len(select_cb_list) : select_cb_list[i] = t

ListOK ==
    /\ \A i, j \in 1 .. Len(select_cb_list) : select_cb_list[i] = select_cb_list[j] => i = j
    /\ \A t \in Task : Listed(t) <=> InSelect(t)

Shape == DataTypes /\ OpTypes /\ Grammar /\ ListOK

-----------------------------------------------------------------------------
(* Callbacks *)

(* What a callback of a task or of the tcpip thread makes of its operation *)
CallbackOps(t, o, ops) ==
    \/ /\ o.op \in {"event", "search", "countdown"} /\ ops = <<>> /\ UNCHANGED scb
    \/ /\ o.op = "event" /\ o.evt = "RCVPLUS" /\ conn[o.c].socket < 0
       /\ ops = <<CountDown(o.c)>> /\ UNCHANGED scb
    \/ /\ o.op = "event" /\ conn[o.c].socket \in Socket
       /\ ops = <<Count(conn[o.c].socket, o.evt)>> /\ UNCHANGED scb
    \/ /\ o.op = "count" /\ ops = <<Search(o.s)>> /\ UNCHANGED scb
    \/ /\ o.op = "search" /\ ops = <<Signal(ToWake(o.s)), Search(o.s)>>
       /\ Waiting(o.s) # {} /\ ToWake(o.s) \in Task
       /\ scb' = [scb EXCEPT ![ToWake(o.s)].sem_signalled = TRUE]
    \/ /\ o.op = "signal" /\ ops = <<>> /\ o.t \in Task
       /\ scb' = [scb EXCEPT ![o.t].sem = @ + 1]

(* It changes no netconn but in conn->socket, and gives no socket another. *)
SameConns ==
    /\ \A s \in Socket : sockets'[s].conn = sockets[s].conn
    /\ \A c \in Conn : conn'[c] = [conn[c] EXCEPT !.socket = conn'[c].socket]

(* Task t does its first operation, which leaves ops in its place. *)
Steps(t, ops) ==
    /\ todo[t] # <<>> /\ Len(todo[t]) > 1 /\ Len(todo'[t]) > 0 /\ Leaves(t, ops)
    /\ ops \in Seq(TaskOps)
    /\ \A u \in (Task \cup {Tcpip}) \ {t} : todo'[u] = todo[u]
    /\ \A u \in Task : InSelect(u)' <=> InSelect(u)

(* The tcpip thread does its first operation. *)
TcpipSteps(ops) ==
    /\ todo[Tcpip] # <<>> /\ Leaves(Tcpip, ops) /\ ops \in Seq(TcpipOps)
    /\ todo[Tcpip] \in Seq(TcpipOps) /\ todo[Tcpip][1] \in TcpipOps
    /\ \A u \in Task : todo'[u] = todo[u]

-----------------------------------------------------------------------------
(* Operations on netconns *)

(* The operation of a task on netconn c that NetconnStep lets it do *)
OnConn(t, c) ==
    /\ MayRun(t) /\ ~Blocked(t) /\ todo[t] # <<>> /\ Next1(t).c = c
    /\ UNCHANGED <<sockets, select, socksem, traffic>>

Asks(c, type) == [op |-> "ask", c |-> c, type |-> type]

(* What netconn_write asks for when there is room *)
Writing(c) == Request("WRITE", c) \o <<Op("freesem", c)>>

(* What netconn_recv and lwip_recvfrom do with data *)
Receiving(c, s) ==
    <<Event(c, "RCVMINUS")>> \o Request("RECV", c) \o <<[op |-> "copy", s |-> s]>>

-----------------------------------------------------------------------------
(* Operations on sockets *)

OnSocket(t, s) ==
    /\ MayRun(t) /\ ~Blocked(t) /\ todo[t] # <<>> /\ Next1(t).s = s
    /\ UNCHANGED <<select, mbox, traffic>>

CloseOps(c, s) == Delete(c) \o <<[op |-> "closed", s |-> s]>>

-----------------------------------------------------------------------------
(* Calls *)

(* r is s without its element k. *)
Without(r, s, k) ==
    /\ Len(r) = Len(s) - 1
    /\ \A i \in 1 .. k - 1 : r[i] = s[i]
    /\ \A i \in k .. Len(s) - 1 : r[i] = s[i + 1]

-----------------------------------------------------------------------------
(* The tcpip thread's handlers *)

(* It is idle and takes something up. *)
Begins(ops) ==
    /\ todo[Tcpip] = <<>> /\ ops \in Seq(TcpipOps) /\ todo'[Tcpip] = ops
    /\ \A u \in Task : todo'[u] = todo[u]

(* What the handlers do to the netconns, and what they are to do next *)
Connected(c, new) ==
    /\ conn[c].pcb = "LISTEN" \/ ("orphan" \in Allowed /\ c = Listener)
    /\ ~conn[new].used
    /\ conn' = [conn EXCEPT ![new] = [FreeConn EXCEPT !.used = TRUE,
                    !.pcb = "ESTABLISHED", !.recv = TRUE, !.sem = 0]]
    /\ Begins(<<Event(c, "RCVPLUS"), Offer(c, new)>>)

Received(c, m) ==
    /\ conn[c].pcb = "ESTABLISHED" /\ conn[c].recv /\ (Adding(c) => "early" \in Allowed)
    /\ conn' = [conn EXCEPT ![c].pcb = IF m = "fin" THEN "CLOSE_WAIT" ELSE @]
    /\ Begins(<<Event(c, "RCVPLUS"), Post(c, m)>>)

Acknowledged(c, room) ==
    /\ conn[c].pcb \in {"ESTABLISHED", "CLOSE_WAIT"} /\ room > conn[c].sndbuf
    /\ conn' = [conn EXCEPT ![c].sndbuf = room, ![c].sem = IF @ = -1 THEN @ ELSE @ + 1]
    /\ \/ Begins(<<Event(c, "SENDPLUS")>>)
       \/ Begins(<<>>)

Handled(m) ==
    \/ /\ m.type = "DELCONN" /\ conn' = [conn EXCEPT ![m.c].pcb = NULL]
       /\ Begins(<<Event(m.c, "RCVPLUS"), Event(m.c, "SENDPLUS"), Op("answer", m.c)>>)
    \/ m.type = "RECV" /\ UNCHANGED conn /\ Begins(<<Op("answer", m.c)>>)
    \/ /\ m.type = "WRITE" /\ conn' = [conn EXCEPT ![m.c].sndbuf = @ - 1]
       /\ \/ Begins(<<Event(m.c, "SENDMINUS"), Op("answer", m.c)>>)
          \/ Begins(<<Op("answer", m.c)>>)

Delivered(o) ==
    \/ o = Post(o.c, o.m) /\ conn' = [conn EXCEPT ![o.c].recvmbox = Append(@, o.m)]
    \/ /\ o = Offer(o.c, o.new) /\ o.new \in Conn
       /\ conn' = [conn EXCEPT ![o.new].socket = -1, ![o.c].acceptmbox = Append(@, o.new)]
    \/ o = Op("answer", o.c) /\ conn' = [conn EXCEPT ![o.c].reply = @ + 1]

-----------------------------------------------------------------------------
(* The tasks' calls: one at a time on a socket, and on one that is there *)

InCall(t) == todo[t] # <<>> /\ todo[t][Len(todo[t])].op = "return"
Sock(t) == todo[t][Len(todo[t])].s

CallsOK ==
    /\ \A t \in Task : InCall(t) /\ Len(todo[t]) > 1 => sockets[Sock(t)].conn # NULL
    /\ \A t, u \in Task : InCall(t) /\ InCall(u) /\ Sock(t) = Sock(u) => t = u

-----------------------------------------------------------------------------
(* No other operation signals, and only those that receive or accept call  *)
(* event_callback.                                                         *)

Raising == {"take", "fetch", "event", "count", "search", "signal"}
Quiet(t, ops) == \A i \in 1 .. Len(ops) :
    ops[i].op # "signal" /\ (ops[i].op \in Raising => todo[t][1].op \in Raising)

(* What NetconnStep comes to *)
NetconnStepIs(t, c) ==
    \/ Ask(t, c) \/ Await(t, c) \/ Take(t, c) \/ Fetch(t, c) \/ FreeMbox(t, c)
    \/ Write(t, c) \/ WaitForRoom(t, c) \/ FreeSem(t, c) \/ Drain(t, c) \/ FreeNetconn(t, c)

SocketStepIs(t, s) ==
    \/ Copy(t, s) \/ AdoptEvents(t, s) \/ PublishSocket(t, s) \/ CloseLocked(t, s) \/ Closed(t, s)

-----------------------------------------------------------------------------
(* Signals *)

(* The calls of the tasks that sleep in lwip_select, and of those that may *)
(* wake others                                                             *)
Callers == \A t \in Task :
    /\ InSelect(t) => "select" \in Calls[t]
    /\ \A i \in 1 .. Len(todo[t]) : todo[t][i].op \in Raising => Calls[t] \cap {"recv", "accept"} # {}

(* Task t has chosen v and is to signal it next. *)
Pending(t, v) == todo[t] # <<>> /\ todo[t][1] = Signal(v)
Leaving(t) == todo[t] # <<>> /\ todo[t][1].op = "leave"
SignalsFirst == \A t \in Task \cup {Tcpip} :
    \A i \in 1 .. Len(todo[t]) : todo[t][i].op = "signal" => i = 1

SignalsOK ==
    /\ \A t, u \in Task \cup {Tcpip}, v \in Task : Pending(t, v) /\ Pending(u, v) => t = u
    /\ \A t \in Task \cup {Tcpip}, v \in Task : Pending(t, v) =>
          Listed(v) /\ scb[v].sem_signalled /\ scb[v].sem = 0
    /\ \A v \in Task : Listed(v) =>
          scb[v].sem \in {0, 1} /\ (scb[v].sem = 1 => scb[v].sem_signalled)
    /\ \A v \in Urgent : Leaving(v) => scb[v].sem = 1

Signals == Shape /\ CallsOK /\ Callers /\ SignalsFirst /\ SignalsOK

(* No thread of lwIP may wake another one in lwip_select, and an urgent    *)
(* task does not give up waiting.                                          *)
Alone ==
    /\ "timeout" \notin Allowed
    /\ \A t, u \in Thread : t # u /\ "select" \in Calls[t] => Calls[u] \cap {"recv", "accept"} = {}

-----------------------------------------------------------------------------
(* Where the netconns are *)

Among(q) == {q[i] : i \in 1 .. Len(q)}
Later(q) == {q[i] : i \in 2 .. Len(q)}
Ops(t) == Among(todo[t])
Rest(t) == Later(todo[t])
Own(t) == sockets[Sock(t)].conn
Closes(s) == [op |-> "closed", s |-> s]

(* A netconn that task t has taken from the listening one's mailbox *)
Guest(t, c) == Op("alloc", c) \in Ops(t) \/ (Op("free", c) \in Ops(t) /\ Own(t) # c)

(* Socket s still has its netconn, which lwip_close has freed. *)
Stale(s) == \E t \in Task : Closes(s) \in Ops(t) /\ Op("free", sockets[s].conn) \notin Ops(t)
AtSocket(c, s) == sockets[s].conn = c /\ ~Stale(s)
Held(c) == (\E s \in Socket : AtSocket(c, s)) \/ (\E t \in Task : Guest(t, c))
Queue == conn[Listener].acceptmbox
Queued(c) == \E i \in 1 .. Len(Queue) : Queue[i] = c
Offered(c) == \E o \in Ops(Tcpip) : o.op = "offer" /\ o.new = c

(* A netconn in use is in one place. *)
Homes == \A c \in Conn :
    /\ \A s, r \in Socket : AtSocket(c, s) /\ AtSocket(c, r) => s = r
    /\ \A t, u \in Task : Guest(t, c) /\ Guest(u, c) => t = u
    /\ \A s \in Socket, t \in Task : ~(AtSocket(c, s) /\ Guest(t, c))
    /\ Queued(c) \/ Offered(c) => ~Held(c)
    /\ ~(Queued(c) /\ Offered(c))
    /\ conn[c].used <=> Held(c) \/ Queued(c) \/ Offered(c)

QueueOK ==
    /\ \A i, j \in 1 .. Len(Queue) : Queue[i] = Queue[j] => i = j
    /\ \A c \in Conn : conn[c].pcb = "LISTEN" \/ conn[c].acceptmbox # <<>> =>
          c = Listener /\ \E s \in Socket : AtSocket(c, s)
    /\ \A c \in Conn : conn[c].pcb # NULL => conn[c].used

(* What the operations of a task are about *)
Adds == {"adopt", "publish"}
Others == {"alloc"} \cup Adds
Unused(s) == \A u \in Task : InCall(u) /\ Sock(u) = s => Len(todo[u]) = 1
Holds(t, c) == AtSocket(c, Sock(t)) \/ Guest(t, c)

Use(t, o) ==
    /\ HasC(o) /\ o.op \notin Others => Holds(t, o.c)
    /\ o.op \in Adds => sockets[o.s].conn = o.c /\ Unused(o.s)

UsesOK == \A t \in Task : \A o \in Ops(t) : Use(t, o)

(* Nothing about a netconn comes after the operation that frees it. *)
FreesLast(q) == \A i, j \in 1 .. Len(q) :
    i < j /\ q[i].op = "free" /\ HasC(q[j]) => q[j].c # q[i].c

(* lwip_close is behind every netconn_delete in its call. *)
ClosesLast(t) == \A c : Op("free", c) \in Ops(t) => Closes(Sock(t)) \in Ops(t)
OrderOK == \A t \in Task : FreesLast(todo[t]) /\ ClosesLast(t)
Asked(c) == \E i \in 1 .. Len(mbox) : mbox[i].c = c
Awaits(t, c) == todo[t] # <<>> /\ todo[t][1] = Op("await", c)
Frees(t, c) == Op("free", c) \in Ops(t)
Answered(c) == \E t \in Task : Awaits(t, c) /\ (Frees(t, c) => conn[c].pcb = NULL)
RequestOK(m) == \E t \in Task : Awaits(t, m.c) /\ (m.type = "DELCONN" <=> Frees(t, m.c))

RequestsOK ==
    /\ \A i, j \in 1 .. Len(mbox) : mbox[i].c = mbox[j].c => i = j
    /\ \A i \in 1 .. Len(mbox) : RequestOK(mbox[i])
    /\ \A c \in Conn :
          /\ Op("answer", c) \in Ops(Tcpip) => ~Asked(c) /\ conn[c].reply = 0 /\ Answered(c)
          /\ conn[c].reply # 0 => conn[c].reply = 1 /\ ~Asked(c) /\ Answered(c)

Ends == {"post", "offer", "answer"}

TcpipOK ==
    /\ \A i \in 1 .. Len(todo[Tcpip]) : todo[Tcpip][i].op \in Ends => i = Len(todo[Tcpip])
    /\ \A o \in Ops(Tcpip) :
          /\ o.op = "offer" => o.c = Listener /\ conn[Listener].pcb = "LISTEN"
          /\ HasC(o) => conn[o.c].used /\ (conn[o.c].pcb = NULL => Op("answer", o.c) \in Ops(Tcpip))

(* netconn_delete after the tcpip thread's answer *)
Gone(t, c) == Frees(t, c) /\ ~(todo[t][1].op \in {"ask", "await"} /\ todo[t][1].c = c)
Cleared(c) == conn[c].pcb = NULL /\ \A o \in Ops(Tcpip) : HasC(o) => o.c # c
DeleteOK == \A t \in Task, c \in Conn : Gone(t, c) =>
    Cleared(c) /\ (todo[t][1] = Op("free", c) => conn[c].acceptmbox = <<>>)

(* netconn_write's semaphore and its room *)
SemOK(t) == \A o \in Ops(t) : o.op \in {"room", "freesem"} => conn[o.c].sem # -1
AskOK(t) == \A i \in 1 .. Len(todo[t]) :
    todo[t][i].op = "ask" /\ todo[t][i].type = "WRITE" => i = 1 /\ conn[todo[t][i].c].sndbuf # 0

Ranges == \A c \in Conn : conn[c].sndbuf \in Room /\ conn[c].sem \in Nat \cup {-1}

WriteOK ==
    /\ \A t \in Task : SemOK(t) /\ AskOK(t)
    /\ \A i \in 1 .. Len(mbox) : mbox[i].type = "WRITE" => conn[mbox[i].c].sndbuf # 0
    /\ Ranges

Owners == Homes /\ QueueOK /\ UsesOK /\ OrderOK /\ RequestsOK /\ TcpipOK /\ DeleteOK /\ WriteOK

-----------------------------------------------------------------------------
(* What leaves the netconns where they are *)

Marks == {"alloc", "free", "closed"}
SameMarks == \A u \in Task :
    /\ \A o : o.op \in Marks => (o \in Ops(u)' <=> o \in Ops(u))
    /\ (\E c : Frees(u, c)) => Sock(u)' = Sock(u)

SameSpots ==
    /\ \A c \in Conn, s \in Socket : AtSocket(c, s)' <=> AtSocket(c, s)
    /\ \A u \in Task, c \in Conn : Guest(u, c)' <=> Guest(u, c)

SameTasks(t) == \A u \in (Task \cup {Tcpip}) \ {t} : todo'[u] = todo[u]
SameUse(c) == /\ conn'[c].used = conn[c].used /\ conn'[c].pcb = conn[c].pcb
              /\ conn'[c].acceptmbox = conn[c].acceptmbox

-----------------------------------------------------------------------------
(* A task does an operation that moves no netconn. *)

(* What comes in the place of o is about the same netconn and socket. *)
Inherits(o, p) ==
    /\ p.op \notin Marks
    /\ HasC(p) /\ p.op \notin Others => HasC(o) /\ o.op \notin Others /\ p.c = o.c
    /\ p.op \in Adds => o.op \in Adds /\ p.c = o.c /\ p.s = o.s

Plainly(t, ops) ==
    /\ Steps(t, ops) /\ todo[t][1].op \notin Marks
    /\ \A p \in Among(ops) : Inherits(todo[t][1], p)

-----------------------------------------------------------------------------
(* One task at a time works on a netconn. *)

Good == Shape /\ CallsOK /\ Owners
Uses(t, c) == \E o \in Ops(t) : HasC(o) /\ o.op \notin Others /\ o.c = c

-----------------------------------------------------------------------------
(* Plain operations *)

SameBuffers == \A c \in Conn : /\ conn'[c].reply = conn[c].reply
                               /\ conn'[c].sndbuf = conn[c].sndbuf
                               /\ conn'[c].sem = conn[c].sem

-----------------------------------------------------------------------------
(* The beginning and the end of a call, and lwip_select *)

(* A task comes into a call, or goes on outside of one. *)
Outside == {"take", "fetch", "write", "close", "return", "asleep", "leave"}

-----------------------------------------------------------------------------
(* The tcpip thread's steps leave the tasks' operations alone. *)

TasksWait == /\ \A u \in Task : todo'[u] = todo[u]
             /\ \A s \in Socket : sockets'[s].conn = sockets[s].conn
=============================================================================
