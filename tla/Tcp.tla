-------------------------------- MODULE Tcp --------------------------------
(***************************************************************************)
(* The TCP of the lwIP stack (src/tcp.c, src/tcp_in.c, src/tcp_out.c):     *)
(* one connection between two hosts that both run this code, over a        *)
(* network that loses, duplicates and reorders segments.  The sequence     *)
(* numbers, the window, the congestion window and the send buffer are the  *)
(* code's, in bytes, with a small segment size and numbers that wrap at    *)
(* Modulus.  An operator on a control block c returns the block the C      *)
(* function leaves, with the segments handed to ip_output in c.out.        *)
(*                                                                         *)
(* Left out: time (a timer's tick may find any count expired: the round    *)
(* trip estimate and tcp_ticks are not kept), memory errors other than a   *)
(* refused tcp_write, keepalive probes (SOF_KEEPALIVE is off), more than   *)
(* one connection.  TCP_QUEUE_OOSEQ is 0: nothing is kept out of order.    *)
(***************************************************************************)
EXTENDS Integers, Sequences, FiniteSets, SequencesExt

CONSTANTS
    Client, Server,   \* the host that connects, the host that listens
    Mss, Wnd, SndBuf, \* TCP_MSS, TCP_WND, TCP_SND_BUF
    MaxRtx,           \* TCP_MAXRTX and TCP_SYNMAXRTX (12 and 4)
    DupThreshold,     \* duplicate ACKs that start a fast retransmit (3)
    Modulus,          \* sequence numbers are modulo this (2^32)
    ByteMod, CwndMax, \* nrtx is a u8_t (2^8), cwnd a u16_t (2^16 - 1)
    Iss,              \* [Host -> 0 .. Modulus - 1], what tcp_next_iss returns
    Plans,            \* bound: what the applications may do, [Host -> Plan] each
    MaxFaults         \* bound: segments lost, duplicated or overtaken, early timers, aborts

Host == {Client, Server}
Peer(h) == IF h = Client THEN Server ELSE Client

\* An application writes so many bytes, in calls of these sizes, and calls
\* tcp_close, tcp_abort or neither.
Plan == [bytes : Nat, sizes : SUBSET Nat, closes : BOOLEAN, aborts : BOOLEAN]

ASSUME TcpAssumption ==
    /\ Client # Server
    /\ {Mss, Wnd, SndBuf, MaxRtx, DupThreshold, CwndMax} \subseteq Nat \ {0}
    /\ ByteMod \in Nat /\ ByteMod > MaxRtx
    /\ Modulus \in Nat /\ Iss \in [Host -> 0 .. Modulus - 1]
    /\ \A p \in Plans :
         /\ p \in [Host -> Plan]
         /\ Modulus > 4 * (Wnd + Mss + p[Client].bytes + p[Server].bytes)
    /\ MaxFaults \in Nat

VARIABLES
    pcb,       \* [Host -> control block]
    listening, \* the server's listening control block is there
    net,       \* [Host -> Seq(segment)], what is on its way to each host
    wrote,     \* bytes each application has handed to tcp_write
    got,       \* what tcp has handed to each application
    unread,    \* received bytes the application has not told tcp_recved about
    eof,       \* the application was told the peer has closed
    skipped,   \* a FIN ahead of rcv_nxt has moved the state machine
    faults,
    plan       \* the one of Plans that the applications follow

vars == <<pcb, listening, net, wrote, got, unread, eof, skipped, faults, plan>>

-----------------------------------------------------------------------------
(* Sequence numbers and segments. *)

Sq(x) == x % Modulus
Diff(a, b) == LET d == Sq(a - b) IN IF d >= Modulus \div 2 THEN d - Modulus ELSE d
SeqLT(a, b) == Diff(a, b) < 0
Between(a, b, c) == Diff(a, b) >= 0 /\ Diff(a, c) <= 0
Least(a, b) == IF a < b THEN a ELSE b
Even(n) == n + (n % 2)
U16(n) == n % 65536
Quotient(a, b) == IF b = 0 THEN 0 ELSE a \div b   \* a division by zero leaves 0
Grow(cwnd, n) == IF cwnd + n > CwndMax THEN cwnd ELSE cwnd + n

\* A segment is its sequence number, its bytes and its flag.
TcpLen(s) == Len(s.dat) + (IF s.fl \in {"SYN", "FIN"} THEN 1 ELSE 0)
EndOf(s) == Sq(s.seq + TcpLen(s))

Idle == [state |-> "CLOSED"]
Free(h) == pcb[h] = Idle

\* tcp_alloc: cwnd is one byte until the connection is established.
Alloc(h) ==
    [state |-> "CLOSED", sndNxt |-> Iss[h], sndMax |-> Iss[h], sndLbb |-> Iss[h],
     lastack |-> Iss[h], rcvNxt |-> 0, rcvWnd |-> Wnd, sndWnd |-> 0, wl1 |-> 0,
     wl2 |-> Iss[h], cwnd |-> 1, ssthresh |-> 0, sndBuf |-> SndBuf,
     unsent |-> <<>>, unacked |-> <<>>, ackDelay |-> FALSE, ackNow |-> FALSE,
     infr |-> FALSE, dupacks |-> 0, nrtx |-> 0, me |-> h, out |-> <<>>]

PureAck(c) == [seq |-> c.sndNxt, ack |-> c.rcvNxt, isack |-> TRUE,
               wnd |-> c.rcvWnd, dat |-> <<>>, fl |-> "none"]

\* tcp_output_segment, with the silly window avoidance.
OnWire(c, s) == [seq |-> s.seq, dat |-> s.dat, fl |-> s.fl,
                 isack |-> c.state # "SYN_SENT",
                 ack |-> IF c.state = "SYN_SENT" THEN 0 ELSE c.rcvNxt,
                 wnd |-> IF c.rcvWnd < Mss THEN 0 ELSE c.rcvWnd]

Rst(seq, ack) == [seq |-> Sq(seq), ack |-> Sq(ack), isack |-> TRUE,
                        wnd |-> Wnd, dat |-> <<>>, fl |-> "RST"]

-----------------------------------------------------------------------------
(* tcp_out.c *)

\* tcp_enqueue: cut into segments of at most Mss, the first chained to the last
\* unsent one when it fits.
Enqueue(c, dat, fl) ==
    LET n     == IF dat = <<>> THEN 1 ELSE (Len(dat) + Mss - 1) \div Mss
        queue == [i \in 1 .. n |-> [seq |-> Sq(c.sndLbb + (i - 1) * Mss), fl |-> fl,
                     dat |-> SubSeq(dat, (i - 1) * Mss + 1, Least(i * Mss, Len(dat)))]]
        chain == /\ c.unsent # <<>> /\ fl = "none" /\ Last(c.unsent).fl = "none"
                 /\ Len(Last(c.unsent).dat) + Len(queue[1].dat) <= Mss
        len   == Len(dat) + (IF fl = "none" THEN 0 ELSE 1)
    IN  [c EXCEPT
           !.unsent = IF chain
                        THEN Front(@) \o <<[Last(@) EXCEPT !.dat = @ \o queue[1].dat]>> \o Tail(queue)
                        ELSE @ \o queue,
           !.sndLbb = Sq(@ + len),
           !.sndBuf = U16(@ - Even(len))]

\* Slip: the length of the segment is not counted.
FitsStart(c, s) == Sq(s.seq - c.lastack) <= Least(c.sndWnd, c.cwnd)

\* How many of the first unsent segments the two windows allow.
Fits(c, s) == Sq(s.seq - c.lastack + Len(s.dat)) <= Least(c.sndWnd, c.cwnd)
Allowed(c) == CHOOSE k \in 0 .. Len(c.unsent) :
                 /\ \A i \in 1 .. k : Fits(c, c.unsent[i])
                 /\ k < Len(c.unsent) => ~Fits(c, c.unsent[k + 1])

\* A segment older than the last unacknowledged one goes to the head.
Unacked(q, s) == IF q # <<>> /\ SeqLT(s.seq, Last(q).seq) THEN <<s>> \o q ELSE Append(q, s)

Output(c) ==
    LET k    == Allowed(c)
        sent == SubSeq(c.unsent, 1, k)
    IN  IF c.ackNow /\ k = 0
        THEN [c EXCEPT !.ackDelay = FALSE, !.ackNow = FALSE, !.out = Append(@, PureAck(c))]
        ELSE IF k = 0 THEN c
        ELSE [c EXCEPT
                !.unsent   = SubSeq(@, k + 1, Len(@)),
                !.unacked  = FoldLeft(Unacked, @, sent),
                !.sndNxt   = EndOf(Last(sent)),
                !.sndMax   = FoldLeft(LAMBDA m, s : IF SeqLT(m, EndOf(s)) THEN EndOf(s) ELSE m, @, sent),
                !.ackDelay = @ /\ c.state = "SYN_SENT",
                !.ackNow   = @ /\ c.state = "SYN_SENT",
                !.out      = @ \o [i \in 1 .. k |-> OnWire(c, sent[i])]]

\* Slip: what is sent again is put behind what was never sent.
RexmitBehind(c) ==
    IF c.unacked = <<>> THEN c
    ELSE Output([c EXCEPT !.unsent = @ \o c.unacked, !.unacked = <<>>,
                          !.sndNxt = Head(c.unacked).seq, !.nrtx = (@ + 1) % ByteMod])

\* tcp_rexmit_rto: everything unacknowledged goes back in front of the unsent queue.
RexmitRto(c) ==
    IF c.unacked = <<>> THEN c
    ELSE Output([c EXCEPT !.unsent = c.unacked \o @, !.unacked = <<>>,
                          !.sndNxt = Head(c.unacked).seq, !.nrtx = (@ + 1) % ByteMod])

\* tcp_rexmit, called with input in progress: tcp_output does nothing yet.
Rexmit(c) == [c EXCEPT !.unsent = <<Head(c.unacked)>> \o @, !.unacked = Tail(@),
                       !.sndNxt = Head(c.unacked).seq, !.nrtx = (@ + 1) % ByteMod]

\* tcp_ack and tcp_ack_now, with input in progress.
AckNow(c) == [c EXCEPT !.ackNow = TRUE]
Ack(c) == IF c.ackDelay THEN [c EXCEPT !.ackDelay = FALSE, !.ackNow = TRUE]
                        ELSE [c EXCEPT !.ackDelay = TRUE]

\* tcp_pcb_remove: a delayed ACK goes out, and with it what the purge before has
\* left: nothing, or, of a block that is CLOSED already, all the windows allow.
Purged(c) == IF c.state = "CLOSED" THEN c ELSE [c EXCEPT !.unsent = <<>>, !.unacked = <<>>]
LastWords(c) == IF c.ackDelay /\ c.state # "TIME_WAIT"
                THEN Output(AckNow(Purged(c))).out ELSE <<>>

-----------------------------------------------------------------------------
(* tcp_in.c: tcp_receive *)

WindowUpdate(c, m) ==
    IF \/ SeqLT(c.wl1, m.seq)
       \/ c.wl1 = m.seq /\ SeqLT(c.wl2, m.ack)
       \/ c.wl2 = m.ack /\ m.wnd > c.sndWnd
    THEN [c EXCEPT !.sndWnd = m.wnd, !.wl1 = m.seq, !.wl2 = m.ack]
    ELSE c

\* The third duplicate retransmits the first unacknowledged segment; later ones
\* inflate the congestion window.
DupAck(c) ==
    LET c1   == [c EXCEPT !.dupacks = Least(@ + 1, DupThreshold)]
        half == Least(c.cwnd, c.sndWnd) \div 2
    IN  IF c1.dupacks < DupThreshold \/ c1.unacked = <<>> THEN c1
        ELSE IF ~c.infr
             THEN [Rexmit(c1) EXCEPT !.ssthresh = half, !.cwnd = half + 3 * Mss, !.infr = TRUE]
             ELSE [c1 EXCEPT !.cwnd = Grow(@, Mss)]

Acknowledged(q, ack) ==
    CHOOSE k \in 0 .. Len(q) : /\ \A i \in 1 .. k : Diff(EndOf(q[i]), ack) <= 0
                               /\ k < Len(q) => Diff(EndOf(q[k + 1]), ack) > 0
NewAck(c, ack) ==
    LET cw == IF c.infr THEN c.ssthresh ELSE c.cwnd
    IN  [c EXCEPT
           !.infr = FALSE, !.nrtx = 0, !.dupacks = 0, !.lastack = ack,
           !.sndBuf = U16(@ + Even(Diff(ack, c.lastack))),
           !.cwnd = Grow(cw, IF cw < c.ssthresh THEN Mss ELSE Quotient(Mss * Mss, cw)),
           !.unacked = SubSeq(@, Acknowledged(@, ack) + 1, Len(@))]

\* Slip: the segment's length is forgotten in the comparison.
UnsentReached(c, ack) ==
    LET k == CHOOSE n \in 0 .. Len(c.unsent) :
                /\ \A i \in 1 .. n : Between(ack, c.unsent[i].seq, c.sndMax)
                /\ n < Len(c.unsent) => ~Between(ack, c.unsent[n + 1].seq, c.sndMax)
    IN  [c EXCEPT !.unsent = SubSeq(@, k + 1, Len(@))]

\* Segments put back for retransmission may have been acknowledged meanwhile.
UnsentAcked(c, ack) ==
    LET k == CHOOSE n \in 0 .. Len(c.unsent) :
                /\ \A i \in 1 .. n : Between(ack, EndOf(c.unsent[i]), c.sndMax)
                /\ n < Len(c.unsent) => ~Between(ack, EndOf(c.unsent[n + 1]), c.sndMax)
        rest == SubSeq(c.unsent, k + 1, Len(c.unsent))
    IN  [c EXCEPT !.unsent = rest, !.sndNxt = IF k > 0 /\ rest # <<>> THEN rest[1].seq ELSE @]

ReceiveAck(c, m) ==
    LET c1 == WindowUpdate(c, m)
        c2 == IF c1.lastack = m.ack
              THEN IF Sq(c1.wl1 + c1.sndWnd) = Sq(c.wl1 + c.sndWnd) THEN DupAck(c1) ELSE c1
              ELSE IF Between(m.ack, c1.lastack + 1, c1.sndMax) THEN NewAck(c1, m.ack) ELSE c1
    IN  UnsentAcked(c2, m.ack)

\* The front of a segment is trimmed to rcv_nxt; only a segment that starts
\* there is taken.
Trim(c, m) ==
    IF Between(c.rcvNxt, m.seq + 1, m.seq + TcpLen(m) - 1)
    THEN [m EXCEPT !.dat = SubSeq(@, Diff(c.rcvNxt, m.seq) + 1, Len(@)), !.seq = c.rcvNxt]
    ELSE m
InWindow(c, seq) == Between(seq, c.rcvNxt, c.rcvNxt + c.rcvWnd - 1)
\* Slip: an old segment is taken as well.
NotAhead(c, m) == TcpLen(m) > 0 /\ Diff(m.seq, c.rcvNxt) <= 0 /\ c.rcvWnd > 0
InSequence(c, m) == TcpLen(m) > 0 /\ Trim(c, m).seq = c.rcvNxt /\ c.rcvWnd > 0

Advance(c, m) == IF c.state = "CLOSE_WAIT" THEN c.rcvNxt ELSE Sq(c.rcvNxt + TcpLen(m))

ReceiveData(c, m) ==
    LET t == Trim(c, m)
    IN  IF InSequence(c, m)
        THEN Ack([c EXCEPT !.rcvNxt = Advance(c, t),
                           !.rcvWnd = IF @ < TcpLen(t) THEN 0 ELSE @ - TcpLen(t)])
        ELSE IF TcpLen(m) > 0 \/ ~InWindow(c, m.seq) THEN AckNow(c) ELSE c

Receive(c, m) == ReceiveData(IF m.isack THEN ReceiveAck(c, m) ELSE c, m)

\* What tcp_receive hands to the application.
Delivered(c, m) == IF InSequence(c, m) THEN Trim(c, m).dat ELSE <<>>
\* Slip: end-of-file is told for any segment with the flag.
HasFin(c, m) == m.fl = "FIN"
GotFin(c, m) == InSequence(c, m) /\ m.fl = "FIN"

-----------------------------------------------------------------------------
(* tcp_in.c: tcp_input and the state machine of tcp_process.  Each action is
   the arrival of one segment m at h in one state. *)

Init ==
    /\ pcb = [h \in Host |-> Idle]
    /\ listening = TRUE
    /\ net = [h \in Host |-> <<>>]
    /\ wrote = [h \in Host |-> 0]
    /\ got = [h \in Host |-> <<>>] /\ unread = [h \in Host |-> 0]
    /\ eof = [h \in Host |-> FALSE] /\ skipped = [h \in Host |-> FALSE]
    /\ faults = 0
    /\ plan \in Plans

Sent(h, left, out) == [net EXCEPT ![h] = left, ![Peer(h)] = @ \o out]
Fault == faults < MaxFaults /\ faults' = faults + 1

\* The i-th segment on its way to h arrives and out is sent.  That a segment
\* overtakes others or leaves a duplicate behind is a fault.
Arrive(h, i, out) ==
    /\ \/ i = 1 /\ UNCHANGED faults /\ net' = Sent(h, RemoveAt(net[h], i), out)
       \/ i > 1 /\ Fault /\ net' = Sent(h, RemoveAt(net[h], i), out)
       \/ Fault /\ net' = Sent(h, net[h], out)

Put(h, c) == pcb' = [pcb EXCEPT ![h] = IF c = Idle THEN c ELSE [c EXCEPT !.out = <<>>]]

NoData == UNCHANGED <<wrote, got, unread, eof, skipped>>

\* The end of tcp_input: the application's callbacks, then tcp_output.
Finish(h, i, c, dat, fin) ==
    LET c1 == Output(c)
    IN  /\ Put(h, c1)
        /\ Arrive(h, i, c1.out)
        /\ got' = [got EXCEPT ![h] = @ \o dat]
        /\ unread' = [unread EXCEPT ![h] = @ + Len(dat)]
        /\ eof' = [eof EXCEPT ![h] = @ \/ fin]
        /\ UNCHANGED <<listening, wrote>>

\* An acceptable RST frees the block; another one is ignored.
InputReset(h, i, m) ==
    /\ ~Free(h) /\ pcb[h].state # "TIME_WAIT" /\ m.fl = "RST"
    /\ LET c == pcb[h]
           acceptable == IF c.state = "SYN_SENT" THEN m.ack = c.sndNxt
                         ELSE Between(m.seq, c.rcvNxt, c.rcvNxt + c.rcvWnd)
       IN  IF acceptable THEN Put(h, Idle) /\ Arrive(h, i, <<>>)
                         ELSE LET c1 == Output(c) IN Put(h, c1) /\ Arrive(h, i, c1.out)
    /\ NoData /\ UNCHANGED listening

InputSynSent(h, i, m) ==
    /\ ~Free(h) /\ pcb[h].state = "SYN_SENT" /\ m.fl # "RST"
    /\ LET c == pcb[h]
       IN  IF m.isack /\ m.fl = "SYN" /\ m.ack = Sq(c.unacked[1].seq + 1)
           THEN LET c1 == Ack([c EXCEPT !.sndBuf = U16(@ + 1), !.rcvNxt = Sq(m.seq + 1),
                                 !.lastack = m.ack, !.sndWnd = m.wnd, !.wl1 = Sq(m.seq - 1),
                                 !.state = "ESTABLISHED", !.cwnd = Mss, !.unacked = Tail(@)])
                IN  Finish(h, i, c1, <<>>, FALSE)
           ELSE Finish(h, i, IF m.isack THEN [c EXCEPT !.out = <<Rst(m.ack, m.seq + TcpLen(m))>>]
                                        ELSE c, <<>>, FALSE)
    /\ UNCHANGED skipped

\* The application may refuse the connection: tcp_abort, with the input in
\* progress, so that only the RST goes out.
InputSynRcvd(h, i, m) ==
    /\ ~Free(h) /\ pcb[h].state = "SYN_RCVD" /\ m.fl # "RST"
    /\ UNCHANGED skipped
    /\ LET c  == pcb[h]
           ok == m.isack /\ Between(m.ack, c.lastack + 1, c.sndNxt)
           c1 == [Receive([c EXCEPT !.state = "ESTABLISHED"], m) EXCEPT !.cwnd = Mss]
       IN  \/ ok /\ Finish(h, i, c1, Delivered(c, m), GotFin(c, m))
           \/ /\ ok /\ plan[h].aborts /\ i = 1 /\ Fault
              /\ Put(h, Idle) /\ net' = Sent(h, Tail(net[h]), <<Rst(c.sndNxt, c.rcvNxt)>>)
              /\ UNCHANGED <<listening, wrote, got, unread, eof>>
           \/ ~ok /\ Finish(h, i, IF m.isack THEN [c EXCEPT !.out = <<Rst(m.ack, m.seq + TcpLen(m))>>]
                                             ELSE c, <<>>, FALSE)

\* The FIN flag of the segment moves the state, in sequence or not.
FinTaken(h, m) ==
    skipped' = [skipped EXCEPT ![h] = @ \/ (m.fl = "FIN" /\ ~GotFin(pcb[h], m))]

InputEstablished(h, i, m) ==
    /\ ~Free(h) /\ pcb[h].state = "ESTABLISHED" /\ m.fl # "RST"
    /\ LET c == Receive(pcb[h], m)
       IN  Finish(h, i, IF m.fl = "FIN" THEN AckNow([c EXCEPT !.state = "CLOSE_WAIT"]) ELSE c,
                  Delivered(pcb[h], m), GotFin(pcb[h], m))
    /\ FinTaken(h, m)

InputCloseWait(h, i, m) ==
    /\ ~Free(h) /\ pcb[h].state = "CLOSE_WAIT" /\ m.fl # "RST"
    /\ LET c == Receive(pcb[h], m)
       IN  Finish(h, i, IF m.fl = "FIN" THEN AckNow(c) ELSE c,
                  Delivered(pcb[h], m), GotFin(pcb[h], m))
    /\ UNCHANGED skipped

\* tcp_pcb_purge and the move to the TIME-WAIT list.
TimeWait(c) == [c EXCEPT !.state = "TIME_WAIT", !.unsent = <<>>, !.unacked = <<>>]
AllAcked(c, m) == m.isack /\ m.ack = c.sndNxt

InputFinWait1(h, i, m) ==
    /\ ~Free(h) /\ pcb[h].state = "FIN_WAIT_1" /\ m.fl # "RST"
    /\ LET c == Receive(pcb[h], m)
           c1 == IF m.fl = "FIN"
                 THEN IF AllAcked(c, m) THEN TimeWait(AckNow(c))
                                        ELSE AckNow([c EXCEPT !.state = "CLOSING"])
                 ELSE IF AllAcked(c, m) THEN [c EXCEPT !.state = "FIN_WAIT_2"] ELSE c
       IN  Finish(h, i, c1, Delivered(pcb[h], m), GotFin(pcb[h], m))
    /\ FinTaken(h, m)

InputFinWait2(h, i, m) ==
    /\ ~Free(h) /\ pcb[h].state = "FIN_WAIT_2" /\ m.fl # "RST"
    /\ LET c == Receive(pcb[h], m)
       IN  Finish(h, i, IF m.fl = "FIN" THEN TimeWait(AckNow(c)) ELSE c,
                  Delivered(pcb[h], m), GotFin(pcb[h], m))
    /\ FinTaken(h, m)

InputClosing(h, i, m) ==
    /\ ~Free(h) /\ pcb[h].state = "CLOSING" /\ m.fl # "RST"
    /\ LET c == Receive(pcb[h], m)
       IN  Finish(h, i, IF AllAcked(c, m) THEN TimeWait(AckNow(c)) ELSE c,
                  Delivered(pcb[h], m), GotFin(pcb[h], m))
    /\ UNCHANGED skipped

\* TF_CLOSED: the block, CLOSED before tcp_pcb_remove, is freed; its received
\* data is not handed over.
InputLastAck(h, i, m) ==
    /\ ~Free(h) /\ pcb[h].state = "LAST_ACK" /\ m.fl # "RST"
    /\ LET c == Receive(pcb[h], m)
       IN  \/ /\ AllAcked(c, m)
              /\ Put(h, Idle) /\ Arrive(h, i, LastWords([c EXCEPT !.state = "CLOSED"]))
              /\ UNCHANGED <<listening, wrote, got, unread, eof>>
           \/ /\ ~AllAcked(c, m)
              /\ Finish(h, i, c, Delivered(pcb[h], m), GotFin(pcb[h], m))
    /\ UNCHANGED skipped

\* tcp_timewait_input
InputTimeWait(h, i, m) ==
    /\ ~Free(h) /\ pcb[h].state = "TIME_WAIT"
    /\ LET c  == pcb[h]
           c1 == [c EXCEPT !.rcvNxt = IF SeqLT(@, EndOf(m)) THEN EndOf(m) ELSE @,
                           !.ackNow = @ \/ TcpLen(m) > 0]
           c2 == Output(c1)
       IN  Put(h, c2) /\ Arrive(h, i, c2.out)
    /\ NoData /\ UNCHANGED listening

\* tcp_listen_input.  Bound: the listener takes one connection.
InputListen(h, i, m) ==
    /\ h = Server /\ Free(h) /\ listening
    /\ IF m.isack THEN Arrive(h, i, <<Rst(m.ack + 1, m.seq + TcpLen(m))>>) /\ UNCHANGED <<pcb, listening>>
       ELSE IF m.fl = "SYN"
            THEN LET c == Output(Enqueue([Alloc(h) EXCEPT !.state = "SYN_RCVD", !.rcvNxt = Sq(m.seq + 1),
                                            !.sndWnd = m.wnd, !.ssthresh = m.wnd,
                                            !.wl1 = Sq(m.seq - 1)], <<>>, "SYN"))
                 IN  Put(h, c) /\ Arrive(h, i, c.out) /\ listening' = FALSE
            ELSE Arrive(h, i, <<>>) /\ UNCHANGED <<pcb, listening>>
    /\ NoData

\* No block matches: a RST answers anything but a RST.
InputUnknown(h, i, m) ==
    /\ Free(h) /\ ~(h = Server /\ listening)
    /\ Arrive(h, i, IF m.fl = "RST" THEN <<>> ELSE <<Rst(m.ack, m.seq + TcpLen(m))>>)
    /\ NoData /\ UNCHANGED <<pcb, listening>>

Input(h) ==
    \E i \in DOMAIN net[h] : LET m == net[h][i] IN
        \/ InputReset(h, i, m)
        \/ InputSynSent(h, i, m)
        \/ InputSynRcvd(h, i, m)
        \/ InputEstablished(h, i, m)
        \/ InputCloseWait(h, i, m)
        \/ InputFinWait1(h, i, m)
        \/ InputFinWait2(h, i, m)
        \/ InputClosing(h, i, m)
        \/ InputLastAck(h, i, m)
        \/ InputTimeWait(h, i, m)
        \/ InputListen(h, i, m)
        \/ InputUnknown(h, i, m)

-----------------------------------------------------------------------------
(* The application's calls, tcp.c and tcp_out.c.  The application of the server
   knows the block from its accept callback on, so never in SYN_RCVD; the bound
   on tcp_close is that an application has written its bytes before. *)

Step(h, c) ==
    /\ Put(h, c) /\ net' = Sent(h, net[h], c.out) /\ UNCHANGED <<listening, faults>>

Connect(h) ==
    /\ h = Client /\ Free(h) /\ wrote[h] = 0 /\ listening
    /\ faults = 0      \* bound: it connects once
    /\ Step(h, Output(Enqueue([Alloc(h) EXCEPT !.state = "SYN_SENT", !.lastack = Sq(Iss[h] - 1),
                                 !.sndLbb = Sq(Iss[h] - 1), !.sndWnd = Wnd, !.ssthresh = 10 * Mss],
                              <<>>, "SYN")))
    /\ NoData

\* do_write: tcp_write, and tcp_output unless something is unacknowledged.
\* The bytes an application writes are 1, 2, 3, ...
Write(h, n) ==
    /\ ~Free(h) /\ pcb[h].state \in {"SYN_SENT", "ESTABLISHED", "CLOSE_WAIT"}
    /\ wrote[h] + n <= plan[h].bytes /\ n <= pcb[h].sndBuf
    /\ LET c == Enqueue(pcb[h], [i \in 1 .. n |-> wrote[h] + i], "none")
       IN  Step(h, IF c.unacked = <<>> THEN Output(c) ELSE c)
    /\ wrote' = [wrote EXCEPT ![h] = @ + n]
    /\ UNCHANGED <<got, unread, eof, skipped>>

\* tcp_recved for all that was received: the window opens again; here no input is in progress.
Recved(h) ==
    /\ ~Free(h) /\ unread[h] > 0
    /\ unread' = [unread EXCEPT ![h] = 0]
    /\ LET c  == [pcb[h] EXCEPT !.rcvWnd = Least(@ + unread[h], Wnd)]
       IN  Step(h, IF ~c.ackDelay /\ ~c.ackNow THEN Ack(c)
                   ELSE IF c.ackDelay /\ c.rcvWnd >= Wnd \div 2 THEN Output(AckNow(c)) ELSE c)
    /\ UNCHANGED <<wrote, got, eof, skipped>>

\* tcp_close
Close(h) ==
    /\ plan[h].closes /\ ~Free(h) /\ wrote[h] = plan[h].bytes
    /\ eof[h] \/ Len(got[h]) >= plan[Peer(h)].bytes
    /\ LET c == pcb[h]
       IN  \/ /\ c.state = "SYN_SENT"
              /\ Put(h, Idle) /\ net' = Sent(h, net[h], LastWords(c)) /\ UNCHANGED <<listening, faults>>
           \/ /\ c.state \in {"ESTABLISHED", "CLOSE_WAIT"}
              /\ Step(h, Output([Enqueue(c, <<>>, "FIN") EXCEPT
                            !.state = IF @ = "CLOSE_WAIT" THEN "LAST_ACK" ELSE "FIN_WAIT_1"]))
    /\ NoData

\* tcp_abort
Abort(h) ==
    /\ plan[h].aborts /\ ~Free(h) /\ pcb[h].state # "SYN_RCVD" /\ Fault
    /\ LET c == pcb[h]
       IN  /\ Put(h, Idle)
           /\ net' = Sent(h, net[h], LastWords(c) \o
                       (IF c.state = "TIME_WAIT" THEN <<>> ELSE <<Rst(c.sndNxt, c.rcvNxt)>>))
    /\ NoData /\ UNCHANGED listening

-----------------------------------------------------------------------------
(* The timers, tcp.c, and the network. *)

\* A timer that fires while a segment is on its way is early.
Quiet == \A h \in Host : net[h] = <<>>
Late == (Quiet /\ UNCHANGED faults) \/ (~Quiet /\ Fault)

\* tcp_fasttmr: delayed ACKs.
FastTimer(h) ==
    /\ ~Free(h) /\ pcb[h].state # "TIME_WAIT" /\ pcb[h].ackDelay /\ Late
    /\ LET c == [Output(AckNow(pcb[h])) EXCEPT !.ackDelay = FALSE, !.ackNow = FALSE]
       IN  Put(h, c) /\ net' = Sent(h, net[h], c.out)
    /\ NoData /\ UNCHANGED listening

\* tcp_slowtmr, when the retransmission timer has expired.
Timeout(c) ==
    LET half == Least(c.cwnd, c.sndWnd) \div 2
    IN  RexmitRto([c EXCEPT !.ssthresh = IF half < Mss THEN 2 * Mss ELSE half, !.cwnd = Mss])

\* A block's turn in tcp_slowtmr: the timer has expired, or it has not and the
\* poll at the end of the turn has tcp_output send what a write has held back.
\* (After a retransmission the poll finds nothing more to send.)
SlowTimer(h) ==
    /\ ~Free(h) /\ pcb[h].state # "TIME_WAIT" /\ pcb[h].nrtx # MaxRtx
    /\ \/ /\ pcb[h].unacked # <<>> /\ Late
          /\ LET c == Timeout(pcb[h])
             IN  Put(h, c) /\ net' = Sent(h, net[h], c.out)
       \/ Step(h, Output(pcb[h])) /\ pcb' # pcb
    /\ NoData /\ UNCHANGED listening

\* tcp_slowtmr: too many retransmissions, or too long in a state.  Nothing is sent.
GiveUp(h) ==
    /\ ~Free(h)
    /\ \/ pcb[h].nrtx = MaxRtx
       \/ pcb[h].state \in {"FIN_WAIT_2", "SYN_RCVD", "LAST_ACK", "TIME_WAIT"}
    /\ Late
    /\ Put(h, Idle)
    /\ NoData /\ UNCHANGED <<listening, net>>

Lose(h, i) ==
    /\ Fault
    /\ net' = Sent(h, RemoveAt(net[h], i), <<>>)
    /\ NoData /\ UNCHANGED <<pcb, listening>>

Next ==
    /\ \E h \in Host : \/ Input(h)
                       \/ Connect(h) \/ Close(h) \/ Abort(h)
                       \/ \E n \in plan[h].sizes \ {0} : Write(h, n)
                       \/ Recved(h) \/ FastTimer(h) \/ SlowTimer(h) \/ GiveUp(h)
                       \/ \E i \in DOMAIN net[h] : Lose(h, i)
    /\ UNCHANGED plan

Spec == Init /\ [][Next]_vars

-----------------------------------------------------------------------------
(* Properties. *)

Connected(h) == ~Free(h) /\ pcb[h].state \notin {"SYN_SENT", "SYN_RCVD", "TIME_WAIT"}
BytesOf(q) == UNION {ToSet(q[i].dat) : i \in DOMAIN q}
Queued(h) == BytesOf(pcb[h].unacked) \cup BytesOf(pcb[h].unsent)

\* A byte leaves the queues of the sender (tcp_receive frees a segment, two
\* lists deep, by the acknowledgement alone) only when the other application has
\* it: every byte written is queued here or was received there.  Not in
\* TIME_WAIT, where tcp_process purges the queues whatever they hold, and not
\* behind a FIN the peer took ahead of its sequence.
NothingLost ==
    \A h \in Host : Connected(h) /\ ~skipped[Peer(h)]
        => 1 .. wrote[h] \subseteq ToSet(got[Peer(h)]) \cup Queued(h)

\* The two ends of a connection never lose each other: what one expects next
\* lies between what the other knows acknowledged and the highest it has sent,
\* whatever was lost, duplicated, retransmitted or rolled back (snd_nxt).
Synchronised ==
    \A h \in Host : Connected(h) /\ Connected(Peer(h)) /\ ~skipped[Peer(h)]
        => Between(pcb[Peer(h)].rcvNxt, pcb[h].lastack, pcb[h].sndMax)

\* Old and overtaken window updates (the snd_wl1, snd_wl2 test of tcp_receive)
\* never let the sender go beyond the right edge the receiver stands by, the
\* FIN apart, whose length tcp_output does not count.  While only one side
\* writes: a retransmission of the receiver's own data would carry a newer
\* ackno and window under an old seqno, and tcp_receive takes only the ackno.
OnlyWriter(h) == plan[Peer(h)].bytes = 0

WindowRespected ==
    \A h \in Host : Connected(h) /\ Connected(Peer(h)) /\ ~skipped[Peer(h)] /\ OnlyWriter(h)
        => Diff(pcb[h].sndMax, pcb[Peer(h)].rcvNxt + pcb[Peer(h)].rcvWnd)
             <= IF pcb[h].state \in {"ESTABLISHED", "CLOSE_WAIT"} THEN 0 ELSE 1

\* src/inc/lwip/tcp.h says of the two lists "These are ordered by sequence
\* number": so they stay, one after the other, through fast retransmissions,
\* timeouts, and segments that were chained to and are acknowledged in part.
\* While only one side writes: a segment with data announces a window below the
\* segment size as none, and then a fast retransmission may not be sent at once.
InSequenceOrder ==
    \A h \in Host : ~Free(h) /\ OnlyWriter(h) =>
        LET q == pcb[h].unacked \o pcb[h].unsent
        IN  \A i \in 1 .. Len(q) - 1 : SeqLT(q[i].seq, q[i + 1].seq)

\* Both applications see a stream of bytes each way, in order, without a gap or
\* a repetition, and end-of-file after the last byte; unless a FIN ahead of
\* rcv_nxt moved the state machine (tcp_process looks at the flag of the
\* segment, not at whether tcp_receive took it).
Stream == INSTANCE ByteStream WITH A <- Client, B <- Server, sent <- wrote,
              received <- got, ended <- eof, broken <- skipped
ImplementsByteStream == Stream!Spec

\* The stream without the exception: what an application has received is the
\* beginning of what the other wrote, each byte once.
ReceivedOnce == \A h \in Host : got[h] = [i \in 1 .. Len(got[h]) |-> i]
=============================================================================
