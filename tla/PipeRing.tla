------------------------------ MODULE PipeRing ------------------------------
(***************************************************************************)
(* The ring buffer of an anonymous pipe (struct PipeRing in                *)
(* src/kernel/ipc/pipe.rs) as a record, and its operations as functions    *)
(* from records to records.  Every caller holds the ring's mutex for the   *)
(* whole operation, so each one is a single step of the pipe.              *)
(***************************************************************************)
EXTENDS Integers, Sequences

RingMin(a, b) == IF a <= b THEN a ELSE b

Slots(n) == 0 .. n - 1

(* PipeRing::new: a zero-filled buffer of the given capacity. *)
NewRing(capacity) ==
    [buf |-> [i \in Slots(capacity) |-> 0], cap |-> capacity,
     read_pos |-> 0, write_pos |-> 0, byte_count |-> 0]

IsEmpty(r) == r.byte_count = 0

IsFull(r) == r.byte_count = r.cap

Remaining(r) == r.cap - r.byte_count

(* The unread bytes, oldest first. *)
Contents(r) ==
    [i \in 1 .. r.byte_count |-> r.buf[(r.read_pos + i - 1) % r.cap]]

(* What PipeRing::read_from copies out for a destination of n bytes. *)
ReadBytes(r, n) == SubSeq(Contents(r), 1, RingMin(n, r.byte_count))

(* PipeRing::read_from. *)
ReadFrom(r, n) ==
    LET k == RingMin(n, r.byte_count)
    IN  [buf |-> r.buf, cap |-> r.cap,
         read_pos |-> (r.read_pos + k) % r.cap, write_pos |-> r.write_pos,
         byte_count |-> r.byte_count - k]

(* PipeRing::write_to stores its first byte at buf[write_pos] before it     *)
(* wraps the position, so a position past the buffer is an index panic.    *)
WritePanics(r, n) == RingMin(n, Remaining(r)) > 0 /\ r.write_pos >= r.cap

(* PipeRing::write_to for the bytes of s that fit; the rest is the caller's. *)
WriteTo(r, s) ==
    LET k == RingMin(Len(s), Remaining(r))
        Stored(i) == (i - r.write_pos + r.cap) % r.cap
    IN  [buf |-> [i \in Slots(r.cap) |->
                     IF Stored(i) < k THEN s[Stored(i) + 1] ELSE r.buf[i]],
         cap |-> r.cap, read_pos |-> r.read_pos,
         write_pos |-> (r.write_pos + k) % r.cap,
         byte_count |-> r.byte_count + k]

(* PipeRing::resize refuses to drop bytes (Error::Busy)... *)
CanResize(r, capacity) == capacity >= r.byte_count

(* Variant: the read position is not reset to the front. *)
ResizeKeepsReadPos(r, capacity) ==
    LET pending == Contents(r)
    IN  [buf |-> [i \in Slots(capacity) |->
                     IF i < Len(pending) THEN pending[i + 1] ELSE 0],
         cap |-> capacity, read_pos |-> r.read_pos % capacity,
         write_pos |-> Len(pending), byte_count |-> Len(pending)]

(* ... and otherwise compacts them to the front of the new buffer, leaving  *)
(* the write position just behind them.                                    *)
Resize(r, capacity) ==
    LET pending == Contents(r)
    IN  [buf |-> [i \in Slots(capacity) |->
                     IF i < Len(pending) THEN pending[i + 1] ELSE 0],
         cap |-> capacity, read_pos |-> 0,
         write_pos |-> Len(pending), byte_count |-> Len(pending)]
=============================================================================
