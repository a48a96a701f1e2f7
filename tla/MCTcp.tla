------------------------------- MODULE MCTcp -------------------------------
(* Instances of Tcp for TLC. *)
EXTENDS Tcp

CONSTANTS c1, c2

Seqs == [active |-> 29, passive |-> 14]

(* The other machines differ from this one, on which c1 connects. *)
Base == [clients |-> {c1}, writes |-> [active |-> 0, passive |-> 0], chunks |-> {1},
         closers |-> {}, readers |-> {"active", "passive"}, recvMax |-> 4,
         maxRetries |-> 1, handshakeLoss |-> FALSE, lose |-> 0, dup |-> 0, early |-> 0,
         icmp |-> FALSE, unlisten |-> FALSE, deadline |-> FALSE, udp |-> TRUE]

Sending(a, p) == [Base EXCEPT !.writes = [active |-> a, passive |-> p]]

(* A segment is lost once the connection is up. *)
Lossy == [Sending(4, 0) EXCEPT !.chunks = {1, 2}, !.lose = 1, !.maxRetries = 2]
(* The receive buffer is smaller than the stream; a copy and an early timeout. *)
Tight == [Sending(4, 0) EXCEPT !.chunks = {2}, !.recvMax = 3, !.dup = 1, !.early = 1]
(* Both ends write and wait with deadlines. *)
Duplex == [Sending(1, 1) EXCEPT !.lose = 1, !.maxRetries = 2, !.deadline = TRUE]
(* Data in flight when the ends close. *)
Closing == [Sending(2, 0) EXCEPT !.closers = {"active", "passive"}, !.early = 1]
(* Any segment of an idle connection's life may be lost or copied. *)
Teardown == [Base EXCEPT !.closers = {"active", "passive"}, !.lose = 1, !.dup = 1,
                         !.early = 1, !.handshakeLoss = TRUE]
(* Two clients for a backlog of one, ICMP errors, and a listener that goes. *)
Crowd == [Base EXCEPT !.clients = {c1, c2}, !.icmp = TRUE, !.unlisten = TRUE,
                      !.readers = {}, !.early = 1]

(* No program waits for a datagram: the receive threads may block. *)
Unattended == [Sending(1, 0) EXCEPT !.readers = {"passive"}, !.early = 1, !.udp = FALSE]

(* One machine per question. *)
Sound == {Lossy, Tight, Duplex, Closing, Teardown, Crowd, Unattended}

(* Three segments for a receive buffer of one. *)
Sacked == {[Sending(3, 0) EXCEPT !.recvMax = 1, !.maxRetries = 3]}
(* A side gives up early while the other side's program still reads. *)
GivingUp == {[Sending(1, 0) EXCEPT !.early = 2]}
(* As Unattended: nobody closes, or both do. *)
Unpolled == {[Sending(1, 0) EXCEPT !.udp = FALSE]}
UnpolledClose == {[Base EXCEPT !.closers = {"active", "passive"}, !.udp = FALSE]}
=============================================================================
