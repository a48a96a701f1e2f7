-------------------------------- MODULE Tcp --------------------------------
(***************************************************************************)
(* The kernel's TCP (src/network/tcp): both ends of each connection run    *)
(* this code, over a network that may reorder, lose and duplicate          *)
(* segments.  process_segment, retransmit_check, write and close each hold *)
(* the table lock throughout and are single steps; what they transmit is   *)
(* added to the network in the same step, which its reordering allows.     *)
(* A byte is its position in the stream.  Sequence numbers wrap.           *)
(***************************************************************************)
EXTENDS Integers, FiniteSets, Bags, SequencesExt

CONSTANTS Clients,        \* hosts that may connect to the one listening port
          SeqSpace,       \* 2^32 in the code
          InitialSeq,     \* simple_initial_seq, by side
          SeqStride,      \* what a later tick adds to an initial sequence number
          Mss,            \* min(DEFAULT_MSS, peer_mss)
          WindowUnit,     \* 1 << DEFAULT_WINDOW_SCALE
          InitialWindow,  \* 65535: the window assumed until a first ACK
          MaxSendBuffer, MaxBacklog, MaxSackBlocks, MaxOoo,
          ReadMax,        \* bytes a read call asks for
          Machines        \* what the hosts and the network may do in a behaviour

ASSUME TcpAssumption ==
    /\ SeqSpace \in Nat \ {0, 1} /\ Mss \in Nat \ {0} /\ WindowUnit \in Nat \ {0}
    /\ InitialSeq \in [{"active", "passive"} -> 0 .. SeqSpace - 1]
    /\ MaxBacklog \in Nat

Ends == Clients \X {"active", "passive"}
Active(e) == e[2] = "active"
Peer(e) == <<e[1], IF Active(e) THEN "passive" ELSE "active">>

(* The passive ends are all on one host. *)
Host(e) == IF Active(e) THEN e[1] ELSE "server"

None == [state |-> "none"]      \* no entry in the connection table

VARIABLES conn,      \* the two hosts' TcpConnectionTable.connections
          listener,  \* the server's listening port: open, and its backlog
          net,       \* bag of segments in flight
          app,       \* what each end's program has done with its connection
          reader,    \* the thread in NativeTcpConnection::read at each end
          stream,    \* ghost: bytes accepted by write, transmitted, and read
          births,    \* connections made so far, the clock of initial sequence numbers
          faults,    \* losses, duplications and early timeouts still to come
          receiver,  \* the receive thread of each host: looking for frames, or blocked
          machine    \* the member of Machines this behaviour follows

hostVars == <<receiver, machine>>
tcpVars == <<conn, listener, net, app, reader, stream, births, faults, hostVars>>

----------------------------------------------------------------------------
(* Sequence arithmetic: u32::wrapping_sub, and the u32::MAX / 2 tests.      *)

Plus(a, n) == (a + n) % SeqSpace
Minus(a, b) == (a - b) % SeqSpace
AtOrAfter(a, b) == Minus(a, b) <= (SeqSpace - 1) \div 2
After(a, b) == a # b /\ AtOrAfter(a, b)

Least(S) == CHOOSE x \in S : \A y \in S : x <= y
Min2(a, b) == IF a <= b THEN a ELSE b
Max2(a, b) == IF a >= b THEN a ELSE b
Taken(s, n) == SubSeq(s, 1, Min2(n, Len(s)))
Dropped(s, n) == SubSeq(s, n + 1, Len(s))

RecvMax == machine.recvMax        \* MAX_RECV_BUFFER
MaxRetries == machine.maxRetries
Room(c) == RecvMax - Len(c.recv_buffer)

----------------------------------------------------------------------------
(* Segments. *)

Segment(e, c, flags, data, sacks) ==
    [to |-> Peer(e), flags |-> flags, seq |-> c.send_next, ack |-> c.recv_next,
     window |-> Room(c) \div WindowUnit, data |-> data, sacks |-> sacks]

(* ack_options_with_sack: the out-of-order runs, as many as an option holds. *)
SackBlocks(c) ==
    [i \in 1 .. Min2(Len(c.ooo), MaxSackBlocks) |->
        <<c.ooo[i].start, Plus(c.ooo[i].start, Len(c.ooo[i].data))>>]

Ack(e, c) == Segment(e, c, {"ack"}, <<>>, <<>>)
SackingAck(e, c) == Segment(e, c, {"ack"}, <<>>, SackBlocks(c))

(* TcpConnectionState::new and new_child; insert of the SYN (or SYN-ACK) as *)
(* the segment to retransmit.                                               *)
Fresh(e, state, recvNext) ==
    LET iss == Plus(InitialSeq[e[2]], SeqStride * births)
        c == [state |-> state, initial_seq |-> iss, send_next |-> iss,
              send_unacked |-> iss, send_window |-> InitialWindow, recv_next |-> recvNext,
              send_buffer |-> <<>>, recv_buffer |-> <<>>, pending |-> <<>>, count |-> 0,
              ooo |-> <<>>, sacks |-> <<>>]
        syn == Segment(e, c, IF Active(e) THEN {"syn"} ELSE {"syn", "ack"}, <<>>, <<>>)
    IN  [c EXCEPT !.send_next = Plus(iss, 1),
                  !.pending = <<[next |-> Plus(iss, 1), segment |-> syn]>>]

FirstPending(c) == c.pending[1].segment

(* c after transmitting m, which takes n sequence numbers. *)
Transmitted(c, m, n) ==
    [c EXCEPT !.send_next = Plus(@, n),
              !.count = IF c.pending = <<>> THEN 0 ELSE @,
              !.pending = Append(@, [next |-> Plus(c.send_next, n), segment |-> m])]

InFlight(c) == Minus(c.send_next, c.send_unacked)

(* Variant: less than a full segment waits even when nothing is in flight.  *)
NextDataFull(c, budget) ==
    LET n == Min2(Min2(budget, Mss), Max2(0, Len(c.send_buffer) - InFlight(c)))
    IN  IF n >= Mss THEN SubSeq(c.send_buffer, InFlight(c) + 1, InFlight(c) + n) ELSE <<>>

(* The data segment Nagle's rule and the budget allow, if any: the bytes of *)
(* the send buffer behind those in flight.                                  *)
NextData(c, budget) ==
    LET n == Min2(Min2(budget, Mss), Max2(0, Len(c.send_buffer) - InFlight(c)))
    IN  IF n > 0 /\ (c.pending = <<>> \/ n >= Mss)
        THEN SubSeq(c.send_buffer, InFlight(c) + 1, InFlight(c) + n)
        ELSE <<>>

Push(e, c, data) == Segment(e, c, {"ack"}, data, <<>>)
Pushed(e, c, data) ==
    IF data = <<>> THEN c ELSE Transmitted(c, Push(e, c, data), Len(data))
PushedSegments(e, c, data) == IF data = <<>> THEN {} ELSE {Push(e, c, data)}

(* The flow-control budget of try_flush_tcp_output (write), and the one of  *)
(* process_segment, which counts what is already in flight.                 *)
WriteBudget(c) == Max2(c.send_window, 1)
ReplyBudget(c) == Max2(0, Max2(c.send_window, 1) - InFlight(c))

----------------------------------------------------------------------------
(* process_data_ack and pop_sacked_segments. *)

SackCovers(sacks, start, end) ==
    \E b \in Range(sacks) : AtOrAfter(start, b[1]) /\ AtOrAfter(b[2], end)

(* The segments of a retransmission queue from start on that sacks leaves. *)
RECURSIVE NotSacked(_, _, _)
NotSacked(sacks, start, q) ==
    IF q = <<>> THEN <<>>
    ELSE (IF SackCovers(sacks, start, Head(q).next) THEN <<>> ELSE <<Head(q)>>)
         \o NotSacked(sacks, Head(q).next, Tail(q))

(* The first segment always stays. *)
WithoutSacked(c) ==
    IF c.pending = <<>> THEN c
    ELSE [c EXCEPT !.pending =
             <<Head(@)>> \o NotSacked(c.sacks, Head(@).next, Tail(@))]

ProcessDataAck(c, ack) ==
    LET n == Cardinality({i \in 1 .. Len(c.pending) :
                             \A j \in 1 .. i : AtOrAfter(ack, c.pending[j].next)})
        popped == WithoutSacked([c EXCEPT !.send_unacked = ack, !.pending = Dropped(@, n)])
    IN  IF ~(After(ack, c.send_unacked) /\ AtOrAfter(c.send_next, ack)) THEN c
        ELSE [popped EXCEPT !.count = IF popped.pending = <<>> THEN 0 ELSE @,
                            !.send_buffer = Dropped(@, Min2(Minus(ack, c.send_unacked), Len(@)))]

----------------------------------------------------------------------------
(* Reassembly: deliver_ooo and enqueue_ooo. *)

(* The front run is popped whole; what the receive buffer has no room for   *)
(* is dropped with it, and ends the loop.                                   *)
RECURSIVE DeliverOoo(_)
DeliverOoo(c) ==
    IF c.ooo = <<>> \/ Head(c.ooo).start # c.recv_next THEN c
    ELSE LET data == Head(c.ooo).data
             n == Min2(Len(data), Room(c))
             rest == [c EXCEPT !.ooo = Tail(@), !.recv_next = Plus(@, n),
                               !.recv_buffer = @ \o Taken(data, n)]
         IN  IF n < Len(data) THEN rest ELSE DeliverOoo(rest)

RunEnd(run) == Plus(run.start, Len(run.data))

(* run extended by what `new`, which starts inside it, has beyond its end.  *)
(* The larger end is taken without wrapping, as the code does.              *)
Merged(run, new) ==
    IF Minus(Max2(RunEnd(new), RunEnd(run)), run.start) <= Len(run.data) THEN run
    ELSE [run EXCEPT !.data = @ \o Dropped(new.data, Minus(RunEnd(run), new.start))]

(* The loop stops at the first run that starts with, after or around new.   *)
(* (Before an insertion the code looks at the run in front once more; that  *)
(* one ends before new, or the loop would have stopped at it.)              *)
EnqueueOoo(c, new) ==
    LET q == c.ooo
        decides(i) == \/ q[i].start = new.start
                      \/ After(q[i].start, new.start)
                      \/ After(RunEnd(q[i]), new.start)
        D == {i \in 1 .. Len(q) : decides(i)}
        i == Least(D)
        put ==
            IF D = {} THEN Taken(Append(q, new), MaxOoo)
            ELSE IF q[i].start = new.start
                 THEN [q EXCEPT ![i] = IF Len(new.data) > Len(@.data) THEN new ELSE @]
            ELSE IF ~After(q[i].start, new.start) THEN [q EXCEPT ![i] = Merged(@, new)]
            ELSE Taken(InsertAt(q, i, new), MaxOoo)
    IN  IF AtOrAfter(c.recv_next, RunEnd(new)) /\ RunEnd(new) # c.recv_next
        THEN c ELSE [c EXCEPT !.ooo = put]

----------------------------------------------------------------------------
(* The parts of the Established and CloseWait arm, in order. *)

(* data goes behind the receive buffer, as far as it fits. *)
Buffered(c, data) ==
    DeliverOoo([c EXCEPT !.recv_buffer = @ \o Taken(data, Room(c)),
                         !.recv_next = Plus(@, Min2(Len(data), Room(c)))])

(* Variant: the tail of an overlapping retransmission is taken whole. *)
TakePayloadTwice(c, m) ==
    LET overlap == Minus(c.recv_next, m.seq)
    IN  IF m.data = <<>> THEN c
        ELSE IF overlap < Len(m.data) THEN Buffered(c, m.data)
        ELSE IF After(m.seq, c.recv_next)
             THEN EnqueueOoo(c, [start |-> m.seq, data |-> m.data]) ELSE c

TakePayload(c, m) ==
    LET overlap == Minus(c.recv_next, m.seq)
    IN  IF m.data = <<>> THEN c
        ELSE IF overlap < Len(m.data) THEN Buffered(c, Dropped(m.data, overlap))
        ELSE IF After(m.seq, c.recv_next)
             THEN EnqueueOoo(c, [start |-> m.seq, data |-> m.data]) ELSE c

TakeAck(c, m) ==
    IF "ack" \in m.flags
    THEN [ProcessDataAck([c EXCEPT !.sacks = m.sacks], m.ack)
            EXCEPT !.send_window = m.window * WindowUnit]
    ELSE c

FinInOrder(c, m) == "fin" \in m.flags /\ Plus(m.seq, Len(m.data)) = c.recv_next

TakeFin(c, m) ==
    IF FinInOrder(c, m)
    THEN [DeliverOoo([c EXCEPT !.recv_next = Plus(@, 1)]) EXCEPT !.state = "CloseWait"]
    ELSE c

----------------------------------------------------------------------------
(* What a step does to the table, the network and a waiting reader. *)

Exists(e) == conn[e] # None

(* The reader at e when its connection goes: it keeps the wait queue, whose *)
(* count stays at what was buffered.                                        *)
Orphaned(e) ==
    IF reader[e].pc \in {"asked", "parked"} /\ ~reader[e].orphan
    THEN [reader[e] EXCEPT !.orphan = TRUE, !.left = Len(conn[e].recv_buffer)]
    ELSE reader[e]

(* ReaderNotifier::drop: a parked reader is woken, whatever the segment did. *)
Notified(e, c) ==
    LET r == IF c = None THEN Orphaned(e) ELSE reader[e]
    IN  IF r.pc = "parked" /\ ~reader[e].orphan
        THEN [pc |-> "idle", orphan |-> FALSE, left |-> 0] ELSE r

(* Segment m has been processed: its connection is now c (or gone) and      *)
(* replies are sent.  The network may keep a duplicate of m.                *)
Processed(m, keep, c, replies) ==
    /\ conn' = [conn EXCEPT ![m.to] = c]
    /\ net' = (IF keep THEN net ELSE net (-) SetToBag({m})) (+) SetToBag(replies)
    /\ faults' = IF keep THEN [faults EXCEPT !.dup = @ - 1] ELSE faults
    /\ reader' = [reader EXCEPT ![m.to] = IF Exists(m.to) THEN Notified(m.to, c) ELSE @]
    /\ UNCHANGED <<app, hostVars>>

Arrives(m, keep) == BagIn(m, net) /\ (keep => faults.dup > 0)
In(m, states) == Exists(m.to) /\ conn[m.to].state \in states
Quietly(m, keep, c) ==
    Processed(m, keep, c, {}) /\ UNCHANGED <<listener, births, stream>>

Transmits(e, data) == stream' = [stream EXCEPT ![e].sent = @ + Len(data)]

----------------------------------------------------------------------------
(* process_segment, by the state of the connection. *)

Reset(m) ==
    [to |-> Peer(m.to), flags |-> {"rst", "ack"},
     seq |-> IF "ack" \in m.flags THEN m.ack ELSE 0, ack |-> 0,
     window |-> 0, data |-> <<>>, sacks |-> <<>>]

(* No entry: a SYN to a listener with room makes a child, a SYN to one      *)
(* without is ignored, and anything else but a reset is answered by one.    *)
ForNoConnection(m, keep) ==
    LET child == Fresh(m.to, "SynReceived", Plus(m.seq, 1))
        syn == "syn" \in m.flags /\ "ack" \notin m.flags /\ ~Active(m.to) /\ listener.open
    IN  /\ Arrives(m, keep) /\ ~Exists(m.to)
        /\ \/ /\ syn /\ Len(listener.backlog) < MaxBacklog
              /\ births' = births + 1
              /\ Processed(m, keep, child, {FirstPending(child)})
           \/ /\ syn /\ Len(listener.backlog) >= MaxBacklog
              /\ Processed(m, keep, None, {}) /\ UNCHANGED births
           \/ /\ ~syn
              /\ Processed(m, keep, None, IF "rst" \in m.flags THEN {} ELSE {Reset(m)})
              /\ UNCHANGED births
        /\ UNCHANGED <<listener, stream>>

(* A reset ends a connection in every state but LastAck and TimeWait. *)
ResetArrives(m, keep) ==
    /\ Arrives(m, keep) /\ "rst" \in m.flags
    /\ In(m, {"SynSent", "SynReceived", "Established", "CloseWait",
              "FinWait1", "FinWait2", "Closing"})
    /\ Quietly(m, keep, None)

HandshakeDone(c) ==
    [c EXCEPT !.state = "Established", !.send_unacked = Plus(c.initial_seq, 1),
              !.pending = <<>>, !.count = 0]

InSynSent(m, keep) ==
    LET c == conn[m.to]
        open == [HandshakeDone(c) EXCEPT !.recv_next = Plus(m.seq, 1)]
    IN  /\ Arrives(m, keep) /\ "rst" \notin m.flags /\ In(m, {"SynSent"})
        /\ IF {"syn", "ack"} \subseteq m.flags /\ m.ack = Plus(c.initial_seq, 1)
           THEN Processed(m, keep, open, {Ack(m.to, open)})
           ELSE Processed(m, keep, c, {})
        /\ UNCHANGED <<listener, births, stream>>

(* The child joins the backlog; the payload of the completing segment is    *)
(* left for its retransmission.  A full backlog refuses it with a reset, a  *)
(* listener that has gone leaves it established and unaccepted.             *)
InSynReceived(m, keep) ==
    LET c == conn[m.to]
    IN  /\ Arrives(m, keep) /\ "rst" \notin m.flags /\ In(m, {"SynReceived"})
        /\ IF "ack" \notin m.flags \/ m.ack # Plus(c.initial_seq, 1)
           THEN Processed(m, keep, c, {}) /\ UNCHANGED listener
           ELSE IF ~listener.open
           THEN Processed(m, keep, HandshakeDone(c), {}) /\ UNCHANGED listener
           ELSE IF Len(listener.backlog) < MaxBacklog
           THEN /\ Processed(m, keep, HandshakeDone(c), {})
                /\ listener' = [listener EXCEPT !.backlog = Append(@, m.to[1])]
           ELSE /\ Processed(m, keep, None,
                     {[Reset(m) EXCEPT !.seq = Plus(c.initial_seq, 1), !.ack = m.seq]})
                /\ UNCHANGED listener
        /\ UNCHANGED <<births, stream>>

(* Payload, acknowledgement and FIN in that order, each answered as it is   *)
(* taken, and then the next data the window allows.                         *)
InEstablished(m, keep) ==
    LET e == m.to
        fed == TakePayload(conn[e], m)
        told == TakeAck(fed, m)
        done == TakeFin(told, m)
        data == IF done.state = "Established" THEN NextData(done, ReplyBudget(done)) ELSE <<>>
        replies == (IF m.data # <<>> THEN {SackingAck(e, fed)} ELSE {})
                   \cup (IF FinInOrder(told, m) /\ told.state = "Established"
                         THEN {Ack(e, done)} ELSE {})
                   \cup PushedSegments(e, done, data)
    IN  /\ Arrives(m, keep) /\ "rst" \notin m.flags /\ In(m, {"Established", "CloseWait"})
        /\ Processed(m, keep, Pushed(e, done, data), replies)
        /\ Transmits(e, data)
        /\ UNCHANGED <<listener, births>>

(* Our FIN is out.  Data that still arrives is dropped unacknowledged. *)
InFinWait1(m, keep) ==
    LET c == IF "ack" \in m.flags THEN ProcessDataAck(conn[m.to], m.ack) ELSE conn[m.to]
        acked == "ack" \in m.flags /\ m.ack = c.send_next
        fin == "fin" \in m.flags
    IN  /\ Arrives(m, keep) /\ "rst" \notin m.flags /\ In(m, {"FinWait1"})
        /\ Quietly(m, keep, [c EXCEPT !.state = IF acked /\ fin THEN "TimeWait"
                                               ELSE IF acked THEN "FinWait2"
                                               ELSE IF fin THEN "Closing" ELSE @])

InFinWait2(m, keep) ==
    LET c == [conn[m.to] EXCEPT !.state = "TimeWait", !.recv_next = Plus(@, 1)]
    IN  /\ Arrives(m, keep) /\ "rst" \notin m.flags /\ In(m, {"FinWait2"})
        /\ IF "fin" \in m.flags THEN Processed(m, keep, c, {Ack(m.to, c)})
           ELSE Processed(m, keep, conn[m.to], {})
        /\ UNCHANGED <<listener, births, stream>>

(* Only the acknowledgement of our FIN matters; LastAck ignores a reset. *)
InLastAckOrClosing(m, keep) ==
    LET c == IF "ack" \in m.flags THEN ProcessDataAck(conn[m.to], m.ack) ELSE conn[m.to]
        acked == "ack" \in m.flags /\ m.ack = c.send_next
    IN  /\ Arrives(m, keep)
        /\ In(m, {"LastAck"}) \/ (In(m, {"Closing"}) /\ "rst" \notin m.flags)
        /\ Quietly(m, keep, IF ~acked THEN c ELSE IF c.state = "LastAck" THEN None
                            ELSE [c EXCEPT !.state = "TimeWait"])

(* Ignored, unless TIME_WAIT_TICKS have passed. *)
InTimeWait(m, keep) ==
    /\ Arrives(m, keep) /\ In(m, {"TimeWait"})
    /\ Quietly(m, keep, conn[m.to]) \/ (faults.early > 0 /\ Quietly(m, keep, None))

ProcessSegment(m, keep) ==
    \/ ForNoConnection(m, keep) \/ ResetArrives(m, keep)
    \/ InSynSent(m, keep) \/ InSynReceived(m, keep) \/ InEstablished(m, keep)
    \/ InFinWait1(m, keep) \/ InFinWait2(m, keep)
    \/ InLastAckOrClosing(m, keep) \/ InTimeWait(m, keep)

----------------------------------------------------------------------------

(* Who takes the segments from the device.                                  *)

(* has_receive_waiter: a parked datagram receiver, or a parked reader of a   *)
(* connection in the table.                                                 *)
HasReceiveWaiter(h) ==
    \/ machine.udp
    \/ \E e \in Ends : /\ Host(e) = h /\ Exists(e)
                       /\ reader[e].pc = "parked" /\ ~reader[e].orphan

(* network_receive_entry: nobody waits, so the thread waits for its event,   *)
(* which only a datagram receiver signals when it parks.                    *)
ReceiverBlocks(h) ==
    /\ h \in machine.clients \cup {"server"} /\ receiver[h] = "looking" /\ ~HasReceiveWaiter(h)
    /\ receiver' = [receiver EXCEPT ![h] = "blocked"]
    /\ UNCHANGED <<conn, listener, net, app, reader, stream, births, faults, machine>>

(* The server's program is in accept until it has all its clients. *)
Accepting == listener.open /\ \E c \in machine.clients : app[<<c, "passive">>] = "new"

(* Some thread of h polls the device: the receive thread, connect's loop or  *)
(* accept's loop.  Others (ARP, DHCP) poll at times of their own.           *)
Polled(h) ==
    \/ receiver[h] = "looking" /\ HasReceiveWaiter(h)
    \/ \E e \in Ends : Host(e) = h /\ app[e] = "connecting"
    \/ h = "server" /\ Accepting

----------------------------------------------------------------------------
(* retransmit_check, from the maintenance thread or from connect's loop.    *)

(* A program at e reads until its connection is gone. *)
Reading(e) == e[2] \in machine.readers /\ app[e] \in {"open", "closed"}

(* Nothing is in flight to a host that takes it and no reader has anything   *)
(* to take.                                                                *)
Quiet ==
    /\ \A m \in BagToSet(net) : ~Polled(Host(m.to))
    /\ \A e \in Ends : (Exists(e) /\ Reading(e)) => conn[e].recv_buffer = <<>>

(* A timer goes off at e: in quiet, or early, as often as the machine says. *)
TimerFires(e) ==
    /\ Exists(e)
    /\ \/ Quiet /\ UNCHANGED faults
       \/ ~Quiet /\ faults.early > 0 /\ faults' = [faults EXCEPT !.early = @ - 1]

Removed(e) ==
    /\ conn' = [conn EXCEPT ![e] = None]
    /\ reader' = [reader EXCEPT ![e] = Orphaned(e)]

(* Variant: the retries are not counted. *)
RetransmitUncounted(e) ==
    /\ TimerFires(e) /\ conn[e].state # "TimeWait"
    /\ conn[e].pending # <<>> /\ conn[e].count < MaxRetries
    /\ net' = net (+) SetToBag({FirstPending(conn[e])})
    /\ UNCHANGED <<conn, listener, app, reader, stream, births, hostVars>>

Retransmit(e) ==
    /\ TimerFires(e) /\ conn[e].state # "TimeWait"
    /\ conn[e].pending # <<>> /\ conn[e].count < MaxRetries
    /\ conn' = [conn EXCEPT ![e].count = @ + 1]
    /\ net' = net (+) SetToBag({FirstPending(conn[e])})
    /\ UNCHANGED <<listener, app, reader, stream, births, hostVars>>

GiveUp(e) ==
    /\ TimerFires(e) /\ conn[e].state # "TimeWait"
    /\ conn[e].pending # <<>> /\ conn[e].count >= MaxRetries
    /\ Removed(e)
    /\ UNCHANGED <<listener, net, app, stream, births, hostVars>>

TimeWaitExpires(e) ==
    /\ TimerFires(e) /\ conn[e].state = "TimeWait"
    /\ Removed(e)
    /\ UNCHANGED <<listener, net, app, stream, births, hostVars>>

----------------------------------------------------------------------------
(* The programs: connect, accept, write, read and close. *)

AppIs(e, s) == app' = [app EXCEPT ![e] = s]

Connect(e) ==
    LET c == Fresh(e, "SynSent", 0)
    IN  /\ Active(e) /\ e[1] \in machine.clients /\ app[e] = "new"
        /\ AppIs(e, "connecting")
        /\ conn' = [conn EXCEPT ![e] = c]
        /\ net' = net (+) SetToBag({FirstPending(c)})
        /\ births' = births + 1
        /\ UNCHANGED <<listener, reader, stream, faults, hostVars>>

ConnectReturns(e) ==
    /\ app[e] = "connecting" /\ Exists(e) /\ conn[e].state = "Established"
    /\ AppIs(e, "open")
    /\ UNCHANGED <<conn, listener, net, reader, stream, births, faults, hostVars>>

(* The entry has gone: a reset, an ICMP error or the last retry. *)
ConnectFails(e) ==
    /\ app[e] = "connecting" /\ ~Exists(e)
    /\ AppIs(e, "failed")
    /\ UNCHANGED <<conn, listener, net, reader, stream, births, faults, hostVars>>

(* CONNECT_TIMEOUT_TICKS: the entry is removed whatever its state. *)
ConnectTimesOut(e) ==
    /\ app[e] = "connecting" /\ Exists(e)
    /\ faults.early > 0 /\ faults' = [faults EXCEPT !.early = @ - 1]
    /\ AppIs(e, "failed") /\ Removed(e)
    /\ UNCHANGED <<listener, net, stream, births, hostVars>>

(* react_to_icmp_error and abort_handshake. *)
AbortHandshake(e) ==
    /\ machine.icmp /\ Exists(e) /\ conn[e].state = "SynSent"
    /\ Removed(e)
    /\ UNCHANGED <<listener, net, app, stream, births, faults, hostVars>>

Accept(e) ==
    /\ ~Active(e) /\ listener.open /\ listener.backlog # <<>> /\ Head(listener.backlog) = e[1]
    /\ listener' = [listener EXCEPT !.backlog = Tail(@)]
    /\ AppIs(e, IF app[e] = "new" THEN "open" ELSE app[e])
    /\ UNCHANGED <<conn, net, reader, stream, births, faults, hostVars>>

Unlisten ==
    /\ machine.unlisten /\ listener.open
    /\ listener' = [open |-> FALSE, backlog |-> <<>>]
    /\ UNCHANGED <<conn, net, app, reader, stream, births, faults, hostVars>>

(* write: as much as the send buffer takes, and try_flush_tcp_output. *)
Write(e, n) ==
    LET took == Min2(n, MaxSendBuffer - Len(conn[e].send_buffer))
        first == stream[e].written + 1
        c == [conn[e] EXCEPT !.send_buffer = @ \o [i \in 1 .. took |-> first + i - 1]]
        data == NextData(c, WriteBudget(c))
    IN  /\ app[e] = "open" /\ Exists(e) /\ conn[e].state = "Established"
        /\ stream[e].written + n <= machine.writes[e[2]] /\ took > 0
        /\ conn' = [conn EXCEPT ![e] = Pushed(e, c, data)]
        /\ net' = net (+) SetToBag(PushedSegments(e, c, data))
        /\ stream' = [stream EXCEPT ![e].written = @ + took, ![e].sent = @ + Len(data)]
        /\ UNCHANGED <<listener, app, reader, births, faults, hostVars>>

Close(e) ==
    LET c == conn[e]
        fin == Segment(e, c, {"fin", "ack"}, <<>>, <<>>)
    IN  /\ app[e] = "open" /\ Exists(e) /\ e[2] \in machine.closers
        /\ c.state \in {"Established", "CloseWait"}
        /\ AppIs(e, "closed")
        /\ conn' = [conn EXCEPT ![e] =
              [Transmitted(c, fin, 1) EXCEPT
                 !.count = 0,
                 !.state = IF c.state = "Established" THEN "FinWait1" ELSE "LastAck"]]
        /\ net' = net (+) SetToBag({fin})
        /\ UNCHANGED <<listener, reader, stream, births, faults, hostVars>>

(* read's loop.  The lookup and the lock taken next are one step. *)
Returned == [pc |-> "idle", orphan |-> FALSE, left |-> 0]

Read(e) ==
    LET n == Min2(ReadMax, Len(conn[e].recv_buffer))
    IN  /\ Reading(e) /\ Exists(e) /\ reader[e].pc = "idle"
        /\ IF n > 0
           THEN /\ stream' = [stream EXCEPT ![e].got = @ \o Taken(conn[e].recv_buffer, n)]
                /\ conn' = [conn EXCEPT ![e].recv_buffer = Dropped(@, n)]
                /\ UNCHANGED reader
           ELSE /\ reader' = [reader EXCEPT ![e].pc = "asked"]
                /\ UNCHANGED <<stream, conn>>
        /\ UNCHANGED <<listener, net, app, births, faults, hostVars>>

ReadFindsNothing(e) ==
    /\ Reading(e) /\ ~Exists(e) /\ reader[e].pc = "idle"
    /\ reader' = [reader EXCEPT ![e].pc = "ended"]
    /\ UNCHANGED <<conn, listener, net, app, stream, births, faults, hostVars>>

(* The queue's count: the length of the receive buffer it was last given. *)
Available(e) == IF reader[e].orphan THEN reader[e].left ELSE Len(conn[e].recv_buffer)

(* Variant: the count is not looked at again under the queue's lock. *)
ParkBlindly(e) ==
    /\ reader[e].pc = "asked"
    /\ reader' = [reader EXCEPT ![e].pc = "parked"]
    /\ UNCHANGED <<conn, listener, net, app, stream, births, faults, hostVars>>

(* TcpReadWait::wait: park unless bytes are there by now. *)
Park(e) ==
    /\ reader[e].pc = "asked"
    /\ reader' = [reader EXCEPT ![e] = IF Available(e) = 0 THEN [@ EXCEPT !.pc = "parked"]
                                       ELSE Returned]
    /\ UNCHANGED <<conn, listener, net, app, stream, births, faults, hostVars>>

(* The deadline: read returns TimedOut, and the program calls it again. *)
ReadTimesOut(e) ==
    /\ machine.deadline /\ reader[e].pc = "parked"
    /\ reader' = [reader EXCEPT ![e] = Returned]
    /\ UNCHANGED <<conn, listener, net, app, stream, births, faults, hostVars>>

ReaderStep(e) == Read(e) \/ ReadFindsNothing(e) \/ Park(e)

Lose(m) ==
    /\ BagIn(m, net) /\ faults.lose > 0
    /\ machine.handshakeLoss \/ app[<<m.to[1], "passive">>] # "new"
    /\ net' = net (-) SetToBag({m})
    /\ faults' = [faults EXCEPT !.lose = @ - 1]
    /\ UNCHANGED <<conn, listener, app, reader, stream, births, hostVars>>

----------------------------------------------------------------------------
TcpInit ==
    /\ machine \in Machines
    /\ conn = [e \in Ends |-> None]
    /\ listener = [open |-> TRUE, backlog |-> <<>>]
    /\ net = EmptyBag
    /\ app = [e \in Ends |-> "new"]
    /\ reader = [e \in Ends |-> Returned]
    /\ stream = [e \in Ends |-> [written |-> 0, sent |-> 0, got |-> <<>>]]
    /\ births = 0
    /\ faults = [lose |-> machine.lose, dup |-> machine.dup, early |-> machine.early]
    /\ receiver = [h \in {Host(e) : e \in Ends} |-> "looking"]

TimerStep(e) == Retransmit(e) \/ GiveUp(e) \/ TimeWaitExpires(e)

TcpNext ==
    \/ \E m \in BagToSet(net) : Lose(m) \/ \E keep \in BOOLEAN : ProcessSegment(m, keep)
    \/ \E e \in Ends :
          \/ TimerStep(e)
          \/ Connect(e) \/ ConnectReturns(e) \/ ConnectFails(e) \/ ConnectTimesOut(e)
          \/ AbortHandshake(e) \/ Accept(e) \/ Close(e)
          \/ \E n \in machine.chunks : Write(e, n)
          \/ ReaderStep(e) \/ ReadTimesOut(e) \/ ReceiverBlocks(Host(e))
    \/ Unlisten

TcpSpec == TcpInit /\ [][TcpNext]_tcpVars

(* Each host's threads keep running: whoever polls, the maintenance thread  *)
(* and the programs.  Nobody need take a segment while no thread polls.     *)
(* Processing one is enabled exactly while one is in flight, so the first   *)
(* conjunct is weak fairness of taking a segment for e while polled.        *)
FairTcpSpec ==
    /\ TcpSpec
    /\ \A e \in Ends :
          /\ \/ []<>(Polled(Host(e)) => \A m \in BagToSet(net) : m.to # e)
             \/ []<><<\E m \in BagToSet(net) : m.to = e /\ ProcessSegment(m, FALSE)>>_tcpVars
          /\ WF_tcpVars(TimerStep(e))
          /\ WF_tcpVars(ConnectReturns(e) \/ ConnectFails(e))
          /\ WF_tcpVars(Accept(e))
          /\ WF_tcpVars(ReaderStep(e))

----------------------------------------------------------------------------
(* Properties. *)

UpTo(n) == [i \in 1 .. n |-> i]

(* What a program has read and what waits in its receive buffer are the     *)
(* bytes its peer sent, in order, from the first and without gap or         *)
(* repetition, however segments were reordered, duplicated, retransmitted   *)
(* or cut at a full buffer (process_segment, deliver_ooo, enqueue_ooo); and *)
(* they are all of them once the FIN has been taken (its fin_seq test).     *)
StreamInOrder ==
    \A e \in Ends :
        LET all == stream[e].got \o (IF Exists(e) THEN conn[e].recv_buffer ELSE <<>>)
            ended == Exists(e) /\ conn[e].state \in {"CloseWait", "LastAck"}
        IN  /\ all = UpTo(Len(all)) /\ Len(all) <= stream[Peer(e)].sent
            /\ ended => Len(all) = stream[Peer(e)].sent

(* A reader parked on a connection in the table has nothing to read: no     *)
(* segment slips in between its look at the buffer and its park.            *)
NoReaderSleepsOnData ==
    \A e \in Ends :
        (reader[e].pc = "parked" /\ ~reader[e].orphan) => conn[e].recv_buffer = <<>>

(* Where fewer segments are lost than one is retried, nobody closes and a   *)
(* datagram receiver keeps the receive threads polling, every byte write    *)
(* accepted is eventually read by the peer's program.                       *)
AllRead ==
    (machine.early = 0 /\ machine.closers = {}) =>
        \A e \in Ends : Len(stream[Peer(e)].got) = stream[e].written
WrittenArrives == []<>AllRead

(* Once both programs have closed, both table entries are eventually gone,  *)
(* where a datagram receiver keeps the receive threads polling.             *)
AllGone ==
    \A c \in Clients :
        (app[<<c, "active">>] = "closed" /\ app[<<c, "passive">>] = "closed") =>
            ~(Exists(<<c, "active">>) \/ Exists(<<c, "passive">>))
TeardownCompletes == []<>AllGone

(* Nobody stays parked on a connection that has left the table             *)
(* (TcpConnectionState.readable: "a close wakes every waiter so nobody      *)
(* sleeps through EOF").                                                    *)
NoSleepAfterClose == \A e \in Ends : ~(reader[e].pc = "parked" /\ reader[e].orphan)

(* A connection leaves the table of a program that still reads only when   *)
(* it has read what arrived (ReaderNotifier: "so a reader drains what       *)
(* arrived, then wake it to read and see EOF").                             *)
ReaderDrains ==
    [][\A e \in Ends :
         (app[e] = "open" /\ Reading(e) /\ Exists(e) /\ conn'[e] = None) =>
             conn[e].recv_buffer = <<>>]_tcpVars

============================================================================
