------------------------------- MODULE Sockets -------------------------------
(***************************************************************************)
(* lwIP's sockets (sockets.c) over its netconns (api_lib.c, api_msg.c):    *)
(* the tasks that call accept, recv, send, close and select, and the       *)
(* tcpip thread that runs TCP and answers them.                            *)
(*                                                                         *)
(* todo[t] is what is left of the functions task t is in, the next         *)
(* operation first.  An operation is a region under selectsem or an access *)
(* to something shared; a task is preempted between two of them by any     *)
(* task more urgent than itself that can go on.  socksem is held over many *)
(* operations and has its holder here; a region under selectsem never      *)
(* waits and touches what nobody touches outside of one, so it is a step.  *)
(*                                                                         *)
(* Every connection is a TCP connection accepted from the listening one.   *)
(* The caller's rule of lwIP holds: one task at a time in a call on a      *)
(* socket, lwip_select apart, and a call is for a socket that was returned.*)
(***************************************************************************)
EXTENDS Integers, Sequences, FiniteSets, SequencesExt

CONSTANTS
    Tcpip,          \* the thread that runs tcpip_thread
    Urgent,         \* tasks more urgent than it, as the application's main
    Thread,         \* threads of lwIP, all less urgent than it
    Conn, Listener, \* the netconns, and the one that listens
    Size,           \* NUM_SOCKETS = MEMP_NUM_NETCONN
    Calls,          \* task -> the calls it makes
    MaxTraffic,     \* bound: segments from the network
    Allowed         \* what the checked system does not do: see below

Task == Urgent \cup Thread
Socket == 0 .. Size - 1
NULL == "NULL"

(* The send buffer: full, no more than TCP_SNDLOWAT, and more than that. *)
TCP_SNDLOWAT == 1
Room == 0 .. 2

(* Allowed: "early", data for a connection in the middle of the addition   *)
(* in lwip_accept; "orphan", a handshake whose listener has been closed;   *)
(* "timeout", an urgent task that calls lwip_select with a timeout.        *)
ASSUME SocketsAssumption ==
    /\ IsFiniteSet(Conn) /\ Size = Cardinality(Conn) /\ Listener \in Conn
    /\ Urgent \cap Thread = {} /\ Tcpip \notin Task
    /\ NULL \notin Conn \cup Task
    /\ Calls \in [Task -> SUBSET {"accept", "recv", "send", "close", "select"}]
    /\ MaxTraffic \in Nat /\ Allowed \subseteq {"early", "orphan", "timeout"}

VARIABLES
    sockets,         \* sockets[s]: conn, rcvevent, sendevent, lastdata
    conn,            \* the netconns; used: allocated from MEMP_NETCONN
    select_cb_list,  \* the tasks asleep in lwip_select, the last to come first
    scb,             \* task -> its select_cb; sem: -1 when it has none
    socksem,         \* the task that holds it, or NULL
    mbox,            \* API messages for the tcpip thread
    todo,            \* task -> the operations it still has to do
    traffic          \* segments the network still sends

vars == <<sockets, conn, select_cb_list, scb, socksem, mbox, todo, traffic>>
select == <<select_cb_list, scb>>

TypeOK ==
    /\ \A s \in Socket : /\ sockets[s].conn \in Conn \cup {NULL}
                         /\ sockets[s].rcvevent \in Int
                         /\ sockets[s].sendevent \in BOOLEAN
                         /\ sockets[s].lastdata \in BOOLEAN
    /\ \A c \in Conn : /\ conn[c].used \in BOOLEAN
                       /\ conn[c].pcb \in {NULL, "LISTEN", "ESTABLISHED", "CLOSE_WAIT"}
                       /\ conn[c].socket \in Int
                       /\ conn[c].recvmbox \in Seq({"data", "fin"})
                       /\ conn[c].recv \in BOOLEAN /\ conn[c].reply \in Nat
                       /\ conn[c].acceptmbox \in Seq(Conn)
                       /\ conn[c].sndbuf \in Room /\ conn[c].sem \in Nat \cup {-1}
    /\ select_cb_list \in Seq(Task) /\ IsInjective(select_cb_list)
    /\ socksem \in Task \cup {NULL} /\ traffic \in 0 .. MaxTraffic

FreeSocket == [conn |-> NULL, rcvevent |-> 0, sendevent |-> TRUE, lastdata |-> FALSE]
FreeConn == [used |-> FALSE, pcb |-> NULL, socket |-> 0, recv |-> FALSE,
             recvmbox |-> <<>>, acceptmbox |-> <<>>, reply |-> 0, sndbuf |-> 2,
             sem |-> -1]

(* lwip_socket, lwip_bind and lwip_listen have been called for Listener. *)
Init ==
    /\ sockets = [s \in Socket |->
                    [FreeSocket EXCEPT !.conn = IF s = 0 THEN Listener ELSE NULL]]
    /\ conn = [c \in Conn |-> IF c # Listener THEN FreeConn
                  ELSE [FreeConn EXCEPT !.used = TRUE, !.pcb = "LISTEN"]]
    /\ select_cb_list = <<>>
    /\ scb = [t \in Task |-> [readset |-> {}, writeset |-> {},
                              sem_signalled |-> FALSE, sem |-> -1]]
    /\ socksem = NULL /\ mbox = <<>>
    /\ todo = [t \in Task \cup {Tcpip} |-> <<>>] /\ traffic = MaxTraffic

-----------------------------------------------------------------------------
(* Operations *)

Event(c, evt) == [op |-> "event", c |-> c, evt |-> evt]
CountDown(c) == [op |-> "countdown", c |-> c]
Count(s, evt) == [op |-> "count", s |-> s, evt |-> evt]
Search(s) == [op |-> "search", s |-> s]
Signal(t) == [op |-> "signal", t |-> t]
Post(c, m) == [op |-> "post", c |-> c, m |-> m]
Offer(c, new) == [op |-> "offer", c |-> c, new |-> new]
Op(name, c) == [op |-> name, c |-> c]
Adopt(c, s) == [op |-> "adopt", c |-> c, s |-> s]
Publish(c, s) == [op |-> "publish", c |-> c, s |-> s]
Return(s) == [op |-> "return", s |-> s]

(* api_msg_post, and the wait for the answer *)
Request(type, c) == <<[op |-> "ask", c |-> c, type |-> type], Op("await", c)>>

(* netconn_delete *)
Delete(c) == Request("DELCONN", c) \o <<Op("drain", c), Op("free", c)>>

Next1(t) == Head(todo[t])
Doing(t, name) == todo[t] # <<>> /\ Next1(t).op = name

(* The operation is done, and these come before the others. *)
Then(t, ops) == todo' = [todo EXCEPT ![t] = ops \o Tail(@)]

Blocked(t) ==
    \/ Doing(t, "fetch") /\ conn[Next1(t).c].recvmbox = <<>>
    \/ Doing(t, "take") /\ conn[Next1(t).c].acceptmbox = <<>>
    \/ Doing(t, "await") /\ conn[Next1(t).c].reply = 0
    \/ Doing(t, "room") /\ conn[Next1(t).c].sndbuf = 0 /\ conn[Next1(t).c].sem = 0
    \/ Doing(t, "asleep") /\ scb[t].sem = 0
    \/ \E name \in {"alloc", "adopt", "close"} : Doing(t, name) /\ socksem # NULL

Runnable(t) == todo[t] # <<>> /\ ~Blocked(t)

(* Nobody more urgent can go on. *)
MayRun(t) ==
    /\ t \notin Urgent => \A u \in Urgent : ~Runnable(u)
    /\ t \in Thread => todo[Tcpip] = <<>> /\ mbox = <<>>

-----------------------------------------------------------------------------
(* event_callback, in the context of any task *)

(* A connection that is not accepted yet counts down in conn->socket. *)
EventCallback(t) ==
    /\ Doing(t, "event")
    /\ LET c == Next1(t).c
           s == conn[c].socket
           evt == Next1(t).evt
       IN  Then(t, IF s < 0
                   THEN IF evt = "RCVPLUS" THEN <<CountDown(c)>> ELSE <<>>
                   ELSE IF sockets[s].conn = NULL THEN <<>>
                   ELSE <<Count(s, evt)>>)
    /\ UNCHANGED <<sockets, conn, select, socksem, mbox, traffic>>

CountDownEarly(t) ==
    /\ Doing(t, "countdown")
    /\ conn' = [conn EXCEPT ![Next1(t).c].socket = @ - 1]
    /\ Then(t, <<>>)
    /\ UNCHANGED <<sockets, select, socksem, mbox, traffic>>

(* The region that sets the event *)
CountEvent(t) ==
    /\ Doing(t, "count")
    /\ LET s == Next1(t).s
           evt == Next1(t).evt
       IN  /\ sockets' = [sockets EXCEPT
                ![s].rcvevent = CASE evt = "RCVPLUS" -> @ + 1
                                  [] evt = "RCVMINUS" -> @ - 1
                                  [] OTHER -> @,
                ![s].sendevent = (@ \/ evt = "SENDPLUS") /\ evt # "SENDMINUS"]
           /\ Then(t, <<Search(s)>>)
    /\ UNCHANGED <<conn, select, socksem, mbox, traffic>>

(* The select calls on the list that wait for what socket s has *)
WaitsFor(t, s) ==
    /\ ~scb[t].sem_signalled
    /\ \/ s \in scb[t].readset /\ sockets[s].rcvevent # 0
       \/ s \in scb[t].writeset /\ sockets[s].sendevent

Waiting(s) == {i \in DOMAIN select_cb_list : WaitsFor(select_cb_list[i], s)}
ToWake(s) == select_cb_list[CHOOSE i \in Waiting(s) : \A j \in Waiting(s) : i <= j]

(* event_callback that wakes one select call only. *)
SearchOnce(t) ==
    /\ Doing(t, "search")
    /\ LET s == Next1(t).s
       IN  \/ Waiting(s) = {} /\ Then(t, <<>>) /\ UNCHANGED scb
           \/ /\ Waiting(s) # {}
              /\ scb' = [scb EXCEPT ![ToWake(s)].sem_signalled = TRUE]
              /\ Then(t, <<Signal(ToWake(s))>>)
    /\ UNCHANGED <<sockets, conn, select_cb_list, socksem, mbox, traffic>>

(* event_callback that leaves sem_signalled alone. *)
SearchUnmarked(t) ==
    /\ Doing(t, "search")
    /\ LET s == Next1(t).s
       IN  \/ Waiting(s) = {} /\ Then(t, <<>>)
           \/ Waiting(s) # {} /\ Then(t, <<Signal(ToWake(s)), Search(s)>>)
    /\ UNCHANGED <<sockets, conn, select, socksem, mbox, traffic>>

(* The region that looks for a select call to wake; it is searched again   *)
(* until there is none.                                                    *)
SearchList(t) ==
    /\ Doing(t, "search")
    /\ LET s == Next1(t).s
       IN  \/ Waiting(s) = {} /\ Then(t, <<>>) /\ UNCHANGED scb
           \/ /\ Waiting(s) # {}
              /\ scb' = [scb EXCEPT ![ToWake(s)].sem_signalled = TRUE]
              /\ Then(t, <<Signal(ToWake(s)), Search(s)>>)
    /\ UNCHANGED <<sockets, conn, select_cb_list, socksem, mbox, traffic>>

SignalSelect(t) ==
    /\ Doing(t, "signal")
    /\ scb' = [scb EXCEPT ![Next1(t).t].sem = @ + 1]
    /\ Then(t, <<>>)
    /\ UNCHANGED <<sockets, conn, select_cb_list, socksem, mbox, traffic>>

Callback(t) ==
    /\ MayRun(t)
    /\ \/ EventCallback(t) \/ CountDownEarly(t) \/ CountEvent(t)
       \/ SearchList(t) \/ SignalSelect(t)

-----------------------------------------------------------------------------
(* The tcpip thread *)

Begin(ops) == todo' = [todo EXCEPT ![Tcpip] = ops]

(* accept_function: the callback for the listening connection first *)
Connect(c, new) ==
    /\ conn[c].pcb = "LISTEN" \/ ("orphan" \in Allowed /\ c = Listener)
    /\ ~conn[new].used
    /\ conn' = [conn EXCEPT ![new] = [FreeConn EXCEPT !.used = TRUE,
                    !.pcb = "ESTABLISHED", !.recv = TRUE, !.sem = 0]]
    /\ Begin(<<Event(c, "RCVPLUS"), Offer(c, new)>>)

(* Whether a task is in the addition of lwip_accept for this connection. *)
Adding(c) == \E t \in Task : Doing(t, "publish") /\ Next1(t).c = c

(* recv_tcp *)
Receive(c, m) ==
    /\ Adding(c) => "early" \in Allowed
    /\ conn[c].pcb = "ESTABLISHED" /\ conn[c].recv
    /\ conn' = [conn EXCEPT ![c].pcb = IF m = "fin" THEN "CLOSE_WAIT" ELSE @]
    /\ Begin(<<Event(c, "RCVPLUS"), Post(c, m)>>)

(* sent_tcp *)
Sent(c) ==
    /\ conn[c].pcb \in {"ESTABLISHED", "CLOSE_WAIT"}
    /\ \E room \in {r \in Room : r > conn[c].sndbuf} :
        /\ conn' = [conn EXCEPT ![c].sndbuf = room,
                                ![c].sem = IF @ = -1 THEN @ ELSE @ + 1]
        /\ Begin(IF room > TCP_SNDLOWAT THEN <<Event(c, "SENDPLUS")>> ELSE <<>>)

(* A segment comes in. *)
Input ==
    /\ MayRun(Tcpip) /\ todo[Tcpip] = <<>>
    /\ traffic > 0 /\ traffic' = traffic - 1
    /\ \E c \in Conn :
        \/ \E new \in Conn : Connect(c, new)
        \/ \E m \in {"data", "fin"} : Receive(c, m)
        \/ Sent(c)
    /\ UNCHANGED <<sockets, select, socksem, mbox>>

(* do_delconn, do_recv, do_write *)
DoDelconn(c) ==
    /\ conn' = [conn EXCEPT ![c].pcb = NULL]
    /\ Begin(<<Event(c, "RCVPLUS"), Event(c, "SENDPLUS"), Op("answer", c)>>)

DoRecv(c) == Begin(<<Op("answer", c)>>) /\ UNCHANGED conn

DoWrite(c) ==
    LET room == conn[c].sndbuf - 1
    IN  /\ conn' = [conn EXCEPT ![c].sndbuf = room]
        /\ Begin((IF room <= TCP_SNDLOWAT THEN <<Event(c, "SENDMINUS")>> ELSE <<>>)
                    \o <<Op("answer", c)>>)

ApiMsgInput ==
    /\ MayRun(Tcpip) /\ todo[Tcpip] = <<>> /\ mbox # <<>>
    /\ mbox' = Tail(mbox)
    /\ LET m == Head(mbox)
       IN  CASE m.type = "DELCONN" -> DoDelconn(m.c)
             [] m.type = "RECV" -> DoRecv(m.c)
             [] m.type = "WRITE" -> DoWrite(m.c)
    /\ UNCHANGED <<sockets, select, socksem, traffic>>

(* The ends of the handlers: the message for the other task *)
Deliver ==
    /\ MayRun(Tcpip)
    /\ LET c == Next1(Tcpip).c
       IN  \/ /\ Doing(Tcpip, "post")
              /\ conn' = [conn EXCEPT ![c].recvmbox = Append(@, Next1(Tcpip).m)]
           \/ /\ Doing(Tcpip, "offer")
              /\ conn' = [conn EXCEPT ![Next1(Tcpip).new].socket = -1,
                                      ![c].acceptmbox = Append(@, Next1(Tcpip).new)]
           \/ /\ Doing(Tcpip, "answer")
              /\ conn' = [conn EXCEPT ![c].reply = @ + 1]
    /\ Then(Tcpip, <<>>)
    /\ UNCHANGED <<sockets, select, socksem, mbox, traffic>>

-----------------------------------------------------------------------------
(* The calls *)

Idle(t, call) == todo[t] = <<>> /\ call \in Calls[t]
Call(t, ops) == todo' = [todo EXCEPT ![t] = ops]

(* Sockets a call has returned, and those no other task is in a call on *)
Returned(s) ==
    /\ sockets[s].conn # NULL
    /\ \A t \in Task : \A i \in DOMAIN todo[t] :
          todo[t][i] # Adopt(sockets[s].conn, s) /\ todo[t][i] # Publish(sockets[s].conn, s)
Usable(s) ==
    /\ Returned(s)
    /\ \A t \in Task : todo[t] # <<>> => Last(todo[t]) # Return(s)

Accept(t, s) ==
    /\ Idle(t, "accept") /\ Usable(s) /\ sockets[s].conn = Listener
    /\ Call(t, <<Op("take", Listener), Return(s)>>)
    /\ UNCHANGED sockets

(* lwip_recvfrom: what the call before left, or a message *)
Recv(t, s) ==
    /\ Idle(t, "recv") /\ Usable(s) /\ sockets[s].conn # Listener
    /\ \/ /\ sockets[s].lastdata
          /\ sockets' = [sockets EXCEPT ![s].lastdata = FALSE]
          /\ UNCHANGED todo
       \/ /\ ~sockets[s].lastdata /\ conn[sockets[s].conn].recv
          /\ Call(t, <<Op("fetch", sockets[s].conn), Return(s)>>)
          /\ UNCHANGED sockets

(* lwip_send, netconn_write, of what makes the buffer a level fuller *)
Send(t, s) ==
    /\ Idle(t, "send") /\ Usable(s) /\ sockets[s].conn # Listener
    /\ Call(t, <<Op("write", sockets[s].conn), Return(s)>>)
    /\ UNCHANGED sockets

Close(t, s) ==
    /\ Idle(t, "close") /\ Usable(s)
    /\ Call(t, <<[op |-> "close", s |-> s], Return(s)>>)
    /\ UNCHANGED sockets

BeginCall(t) ==
    /\ MayRun(t)
    /\ \E s \in Socket : Accept(t, s) \/ Recv(t, s) \/ Send(t, s) \/ Close(t, s)
    /\ UNCHANGED <<conn, select, socksem, mbox, traffic>>

(* lwip_selscan *)
Ready(R, W) ==
    \/ \E s \in R : sockets[s].rcvevent # 0 \/ sockets[s].lastdata
    \/ \E s \in W : sockets[s].sendevent

SelectList(t, R, W) ==
    /\ select_cb_list' = <<t>> \o select_cb_list
    /\ scb' = [scb EXCEPT ![t] = [readset |-> R, writeset |-> W,
                                  sem_signalled |-> FALSE, sem |-> 0]]
    /\ Call(t, <<[op |-> "asleep"]>>)

(* lwip_select, the region that scans the sockets and puts the call on the *)
(* list; with something ready it returns and has changed nothing.          *)
Select(t, R, W) ==
    /\ MayRun(t) /\ Idle(t, "select")
    /\ R \cup W # {} /\ \A s \in R \cup W : Returned(s)
    /\ ~Ready(R, W)
    /\ SelectList(t, R, W)
    /\ UNCHANGED <<sockets, conn, socksem, mbox, traffic>>

(* It wakes or times out, and takes itself off the list. *)
Woken(t) ==
    /\ MayRun(t) /\ Doing(t, "asleep") /\ scb[t].sem > 0
    /\ Then(t, <<[op |-> "leave"]>>)
    /\ UNCHANGED <<sockets, conn, select, socksem, mbox, traffic>>

Timeout(t) ==
    /\ MayRun(t) /\ Doing(t, "asleep") /\ scb[t].sem = 0
    /\ t \in Thread \/ "timeout" \in Allowed
    /\ Then(t, <<[op |-> "leave"]>>)
    /\ UNCHANGED <<sockets, conn, select, socksem, mbox, traffic>>

LeaveSelect(t) ==
    /\ MayRun(t) /\ Doing(t, "leave")
    /\ \E i \in DOMAIN select_cb_list :
          select_cb_list[i] = t /\ select_cb_list' = RemoveAt(select_cb_list, i)
    /\ scb' = [scb EXCEPT ![t] = [readset |-> {}, writeset |-> {},
                                  sem_signalled |-> FALSE, sem |-> -1]]
    /\ Then(t, <<>>)
    /\ UNCHANGED <<sockets, conn, socksem, mbox, traffic>>

-----------------------------------------------------------------------------
(* Their operations on netconns *)

Ask(t, c) ==
    /\ Doing(t, "ask")
    /\ mbox' = Append(mbox, [type |-> Next1(t).type, c |-> c])
    /\ Then(t, <<>>)
    /\ UNCHANGED conn

Await(t, c) ==
    /\ Doing(t, "await")
    /\ conn' = [conn EXCEPT ![c].reply = @ - 1]
    /\ Then(t, <<>>)
    /\ UNCHANGED mbox

(* netconn_accept *)
Take(t, c) ==
    /\ Doing(t, "take")
    /\ conn' = [conn EXCEPT ![c].acceptmbox = Tail(@)]
    /\ Then(t, <<Event(c, "RCVMINUS"), Op("alloc", Head(conn[c].acceptmbox))>>)
    /\ UNCHANGED mbox

(* What lwip_recvfrom does with the data, in the task's call on a socket *)
Copying(t) == [op |-> "copy", s |-> Last(todo[t]).s]

(* netconn_recv; the end of the data frees the mailbox. *)
Fetch(t, c) ==
    /\ Doing(t, "fetch")
    /\ conn' = [conn EXCEPT ![c].recvmbox = Tail(@)]
    /\ Then(t, IF Head(conn[c].recvmbox) = "fin"
               THEN <<Event(c, "RCVMINUS"), Op("freembox", c)>>
               ELSE <<Event(c, "RCVMINUS")>> \o Request("RECV", c) \o <<Copying(t)>>)
    /\ UNCHANGED mbox

FreeMbox(t, c) ==
    /\ Doing(t, "freembox")
    /\ conn' = [conn EXCEPT ![c].recv = FALSE]
    /\ Then(t, <<>>)
    /\ UNCHANGED mbox

(* netconn_write: the semaphore for a full buffer is made for the call. *)
Write(t, c) ==
    /\ Doing(t, "write")
    /\ conn' = [conn EXCEPT ![c].sem = IF @ = -1 THEN 0 ELSE @]
    /\ Then(t, <<Op("room", c)>>)
    /\ UNCHANGED mbox

WaitForRoom(t, c) ==
    /\ Doing(t, "room")
    /\ IF conn[c].sndbuf = 0
       THEN conn' = [conn EXCEPT ![c].sem = @ - 1] /\ UNCHANGED todo
       ELSE /\ Then(t, Request("WRITE", c) \o <<Op("freesem", c)>>)
            /\ UNCHANGED conn
    /\ UNCHANGED mbox

FreeSem(t, c) ==
    /\ Doing(t, "freesem")
    /\ conn' = [conn EXCEPT ![c].sem = -1]
    /\ Then(t, <<>>)
    /\ UNCHANGED mbox

(* netconn_delete that only empties the mailbox of connections. *)
DrainQuick(t, c) ==
    /\ Doing(t, "drain")
    /\ conn' = [conn EXCEPT ![c].recvmbox = <<>>, ![c].recv = FALSE,
                            ![c].acceptmbox = <<>>]
    /\ Then(t, <<>>)
    /\ UNCHANGED mbox

(* netconn_delete: what is in the mailboxes goes, connections that nobody  *)
(* accepted with a netconn_delete of their own.                            *)
Drain(t, c) ==
    /\ Doing(t, "drain")
    /\ LET queue == conn[c].acceptmbox
       IN  IF queue # <<>>
           THEN /\ conn' = [conn EXCEPT ![c].acceptmbox = Tail(@)]
                /\ Then(t, Delete(Head(queue)) \o <<Op("drain", c)>>)
           ELSE /\ conn' = [conn EXCEPT ![c].recvmbox = <<>>, ![c].recv = FALSE]
                /\ Then(t, <<>>)
    /\ UNCHANGED mbox

FreeNetconn(t, c) ==
    /\ Doing(t, "free")
    /\ conn' = [conn EXCEPT ![c] = FreeConn]
    /\ Then(t, <<>>)
    /\ UNCHANGED mbox

NetconnStep(t) ==
    /\ MayRun(t) /\ ~Blocked(t)
    /\ \E c \in Conn :
        /\ todo[t] # <<>> /\ "c" \in DOMAIN Next1(t) /\ Next1(t).c = c
        /\ \/ Ask(t, c) \/ Await(t, c) \/ Take(t, c) \/ Fetch(t, c)
           \/ FreeMbox(t, c) \/ Write(t, c) \/ WaitForRoom(t, c)
           \/ FreeSem(t, c) \/ Drain(t, c) \/ FreeNetconn(t, c)
    /\ UNCHANGED <<sockets, select, socksem, traffic>>

-----------------------------------------------------------------------------
(* Their operations on sockets *)

(* lwip_recvfrom keeps what the caller's buffer does not take. *)
Copy(t, s) ==
    /\ Doing(t, "copy")
    /\ \E rest \in BOOLEAN : sockets' = [sockets EXCEPT ![s].lastdata = rest]
    /\ Then(t, <<>>)
    /\ UNCHANGED <<conn, socksem>>

(* alloc_socket: there are as many sockets as netconns, so it finds one. *)
AllocSocket(t) ==
    /\ Doing(t, "alloc")
    /\ \E i \in Socket :
        /\ sockets[i].conn = NULL /\ \A j \in 0 .. i - 1 : sockets[j].conn # NULL
        /\ sockets' = [sockets EXCEPT ![i] = [FreeSocket EXCEPT !.conn = Next1(t).c]]
        /\ Then(t, <<Adopt(Next1(t).c, i)>>)
    /\ UNCHANGED <<conn, socksem>>

(* The addition without the -1 that conn->socket started from. *)
AdoptAll(t, s) ==
    /\ Doing(t, "adopt")
    /\ socksem' = t
    /\ sockets' = [sockets EXCEPT ![s].rcvevent = @ - conn[Next1(t).c].socket]
    /\ Then(t, <<Publish(Next1(t).c, s)>>)
    /\ UNCHANGED conn

(* lwip_accept adds the events counted down so far to the socket's ... *)
AdoptEvents(t, s) ==
    /\ Doing(t, "adopt")
    /\ socksem' = t
    /\ sockets' = [sockets EXCEPT ![s].rcvevent = @ - 1 - conn[Next1(t).c].socket]
    /\ Then(t, <<Publish(Next1(t).c, s)>>)
    /\ UNCHANGED conn

(* ... and gives the netconn its socket. *)
PublishSocket(t, s) ==
    /\ Doing(t, "publish")
    /\ socksem' = NULL
    /\ conn' = [conn EXCEPT ![Next1(t).c].socket = s]
    /\ Then(t, <<>>)
    /\ UNCHANGED sockets

(* lwip_close holds socksem until the netconn is gone. *)
CloseLocked(t, s) ==
    /\ Doing(t, "close")
    /\ socksem' = t
    /\ Then(t, Delete(sockets[s].conn) \o <<[op |-> "closed", s |-> s]>>)
    /\ UNCHANGED <<sockets, conn>>

(* lwip_close that returns with socksem. *)
ClosedKeep(t, s) ==
    /\ Doing(t, "closed")
    /\ socksem' = socksem
    /\ sockets' = [sockets EXCEPT ![s].conn = NULL, ![s].lastdata = FALSE]
    /\ Then(t, <<>>)
    /\ UNCHANGED conn

Closed(t, s) ==
    /\ Doing(t, "closed")
    /\ socksem' = NULL
    /\ sockets' = [sockets EXCEPT ![s].conn = NULL, ![s].lastdata = FALSE]
    /\ Then(t, <<>>)
    /\ UNCHANGED conn

ReturnFrom(t) ==
    /\ Doing(t, "return")
    /\ Then(t, <<>>)
    /\ UNCHANGED <<sockets, conn, socksem>>

SocketStep(t) ==
    /\ MayRun(t) /\ ~Blocked(t)
    /\ \/ AllocSocket(t) \/ ReturnFrom(t)
       \/ \E s \in Socket :
            /\ todo[t] # <<>> /\ "s" \in DOMAIN Next1(t) /\ Next1(t).s = s
            /\ \/ Copy(t, s) \/ AdoptEvents(t, s) \/ PublishSocket(t, s)
               \/ CloseLocked(t, s) \/ Closed(t, s)
    /\ UNCHANGED <<select, mbox, traffic>>

-----------------------------------------------------------------------------
Next ==
    \/ Input \/ ApiMsgInput \/ Deliver
    \/ \E t \in Task \cup {Tcpip} : Callback(t)
    \/ \E t \in Task :
        \/ BeginCall(t) \/ Woken(t) \/ Timeout(t) \/ LeaveSelect(t)
        \/ NetconnStep(t) \/ SocketStep(t)
        \/ \E R, W \in SUBSET Socket : Select(t, R, W)

(* A task that can go on does, when nothing more urgent keeps it from it. *)
Fairness ==
    /\ WF_vars(ApiMsgInput) /\ WF_vars(Deliver) /\ WF_vars(Callback(Tcpip))
    /\ \A t \in Task : /\ WF_vars(Callback(t)) /\ WF_vars(NetconnStep(t))
                       /\ WF_vars(SocketStep(t)) /\ WF_vars(Woken(t))
                       /\ WF_vars(LeaveSelect(t))

Spec == Init /\ [][Next]_vars
FairSpec == Spec /\ Fairness

-----------------------------------------------------------------------------
(* Properties *)

(* The operations that all tasks together still have to do *)
Places == UNION {{t} \X DOMAIN todo[t] : t \in Task \cup {Tcpip}}
Left(P(_)) == Cardinality({p \in Places : P(todo[p[1]][p[2]])})

Callbacks(c, evt) ==
    LET mine(o) == \/ o.op = "event" /\ o.c = c /\ o.evt = evt
                   \/ o.op = "count" /\ sockets[o.s].conn = c /\ o.evt = evt
                   \/ o.op = "countdown" /\ o.c = c /\ evt = "RCVPLUS"
    IN  Left(mine)

Deliveries(c) ==
    LET mine(o) == o.op \in {"post", "offer"} /\ o.c = c
    IN  Left(mine)

(* netconn_delete is under way; its events have no message. *)
Deleting(c) == Left(LAMBDA o : o = Op("free", c)) > 0

Messages(c) == Len(conn[c].recvmbox) + Len(conn[c].acceptmbox)

(* rcvevent of its socket, or conn->socket until it has one *)
Counted(c) ==
    IF conn[c].socket >= 0 THEN sockets[conn[c].socket].rcvevent
    ELSE IF Adding(c)
    THEN LET s == CHOOSE s \in Socket : sockets[s].conn = c IN sockets[s].rcvevent
    ELSE -1 - conn[c].socket

InUse(c) == /\ conn[c].used /\ ~Deleting(c)
            /\ ~\E t \in {Tcpip} : \E i \in DOMAIN todo[t] :
                  todo[t][i].op = "offer" /\ todo[t][i].new = c

(* The events counted for a connection are the messages in its mailbox,    *)
(* but for those whose callback or delivery is still under way, also while *)
(* it has no socket yet and while lwip_accept gives it one.                *)
EventsCounted == \A c \in Conn :
    InUse(c) => Counted(c) + Callbacks(c, "RCVPLUS")
                    = Messages(c) + Callbacks(c, "RCVMINUS") + Deliveries(c)

(* A callback for socket s that has not searched the list yet *)
WillSearch(s) ==
    LET mine(o) == \/ o.op \in {"count", "search"} /\ o.s = s
                   \/ o.op = "event" /\ conn[o.c].socket = s
    IN  Left(mine) > 0

(* No select sleeps over a message or over room to send: if it has not     *)
(* been signalled, somebody is about to search the list for it.            *)
NoSleepOverData == \A t \in ToSet(select_cb_list) : ~scb[t].sem_signalled =>
    /\ \A s \in scb[t].readset : LET c == sockets[s].conn IN
          c # NULL /\ Messages(c) > 0 => WillSearch(s)
    /\ \A s \in scb[t].writeset : LET c == sockets[s].conn IN
          c # NULL /\ conn[c].sndbuf > TCP_SNDLOWAT => WillSearch(s)

(* A semaphore is signalled at most once, and only for a call that is      *)
(* still on the list: it is on that call's stack and freed when it leaves. *)
NoStaleSignal == \A t \in Task :
    LET mine(o) == o.op = "signal" /\ o.t = t
        signals == Left(mine)
    IN  IF t \in ToSet(select_cb_list)
        THEN signals + scb[t].sem <= 1 /\ (signals > 0 => scb[t].sem_signalled)
        ELSE signals = 0

(* No handler of the tcpip thread and no message to it concerns a netconn  *)
(* that netconn_delete has freed; those that nobody accepts are freed too. *)
NoFreedConn ==
    /\ TypeOK
    /\ \A i \in DOMAIN mbox : conn[mbox[i].c].used
    /\ \A t \in Task \cup {Tcpip} : \A i \in DOMAIN todo[t] :
          "c" \in DOMAIN todo[t][i] => conn[todo[t][i].c].used
    /\ \A c \in Conn : conn[c].used =>
          \/ \E s \in Socket : sockets[s].conn = c
          \/ \E l \in Conn : c \in ToSet(conn[l].acceptmbox)
          \/ \E t \in Task \cup {Tcpip} : \E i \in DOMAIN todo[t] :
                \/ "c" \in DOMAIN todo[t][i] /\ todo[t][i].c = c
                \/ todo[t][i].op = "offer" /\ todo[t][i].new = c

(* lwip_close ends, whatever else holds socksem and whatever is queued.    *)
CloseReturns == \A t \in Task : Doing(t, "close") ~> todo[t] = <<>>
=============================================================================
