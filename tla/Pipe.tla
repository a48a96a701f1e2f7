-------------------------------- MODULE Pipe --------------------------------
(***************************************************************************)
(* An anonymous pipe (src/kernel/ipc/pipe.rs): readers and writers share a *)
(* ring under one mutex and park on two condition variables                *)
(* (src/kernel/process/wait/condvar.rs over wait/queue.rs).                *)
(*                                                                         *)
(* A critical section is one step.  Condvar::wait is two: it unlocks the   *)
(* ring and only then puts the thread on the wait queue.  Interrupts stay  *)
(* masked in between (unlock_without_restore), so on a uniprocessor nobody *)
(* runs there; with Smp = TRUE another CPU may.                            *)
(***************************************************************************)
EXTENDS PipeRing

CONSTANTS Readers, Writers,   \* threads using the read end and the write end
          InitialCapacity,    \* pipe_channel_with_capacity
          Capacities,         \* sizes fcntl(F_SETPIPE_SZ) may ask for
          MaxChunk,           \* largest buffer passed to one read or write
          Modulus,            \* writers number the bytes 0, 1, .. modulo this
          Smp                 \* is there a second CPU?

Threads == Readers \cup Writers

ASSUME PipeAssumption ==
    /\ Readers \cap Writers = {}
    /\ InitialCapacity \in Nat \ {0}
    /\ Capacities \subseteq Nat \ {0}
    /\ MaxChunk \in Nat /\ Modulus \in Nat \ {0}
    /\ Smp \in BOOLEAN

VARIABLES
    ring,           \* the PipeRing record
    read_closed, write_closed,
    nonblocking,    \* O_NONBLOCK of each end
    waiters,        \* [Condvar -> Seq(thread)]: read_wait and write_wait
    pc,             \* where each thread is in its call
    want,           \* bytes the call in progress asked for
    sent,           \* number of the next byte to be written
    taken,          \* what the latest read_from returned
    panicked        \* an index out of bounds stopped the kernel

vars == <<ring, read_closed, write_closed, nonblocking, waiters, pc, want,
          sent, taken, panicked>>
ends == <<read_closed, write_closed, nonblocking>>

PcStates == {"idle", "parking", "parked", "woken", "notify", "dropping", "gone"}

(* The condvar a thread parks on, and the one it signals. *)
Own(t)   == IF t \in Readers THEN "read_wait" ELSE "write_wait"
Other(t) == IF t \in Readers THEN "write_wait" ELSE "read_wait"

PipeInit ==
    /\ ring = NewRing(InitialCapacity)
    /\ read_closed = FALSE /\ write_closed = FALSE
    /\ nonblocking = [e \in {"read", "write"} |-> FALSE]
    /\ waiters = [c \in {"read_wait", "write_wait"} |-> <<>>]
    /\ pc = [t \in Threads |-> "idle"]
    /\ want = [t \in Threads |-> 0]
    /\ sent = 0 /\ taken = <<>> /\ panicked = FALSE

(* A thread between unlocking the ring and parking keeps its CPU to itself. *)
OnCpu(t) ==
    /\ ~panicked
    /\ Smp \/ \A u \in Threads \ {t} : pc[u] # "parking"

(* WaitQueue::wake_one and wake_all: take waiters off the queue and make    *)
(* them runnable.  Returns the program counters once the wakes are done.   *)
WakeOne(c) ==
    IF waiters[c] = <<>> THEN pc ELSE [pc EXCEPT ![Head(waiters[c])] = "woken"]
WakeAll(c) ==
    [t \in Threads |->
        IF \E i \in 1 .. Len(waiters[c]) : waiters[c][i] = t THEN "woken" ELSE pc[t]]

(* Variant: a read returns without notifying write_wait. *)
ReadLockedSilent(t, n) ==
    /\ UNCHANGED <<waiters, ends, sent, panicked>>
    /\ IF IsEmpty(ring) /\ ~write_closed
       THEN /\ pc' = [pc EXCEPT ![t] = "parking"]
            /\ want' = [want EXCEPT ![t] = n]
            /\ UNCHANGED <<ring, taken>>
       ELSE /\ pc' = [pc EXCEPT ![t] = "idle"]
            /\ want' = [want EXCEPT ![t] = 0]
            /\ taken' = IF IsEmpty(ring) THEN taken ELSE ReadBytes(ring, n)
            /\ ring' = ReadFrom(ring, n)

(* Variant: a read that finds EOF goes round its loop again. *)
ReadLockedSpins(t, n) ==
    /\ UNCHANGED <<waiters, ends, sent, panicked>>
    /\ IF IsEmpty(ring)
       THEN /\ pc' = [pc EXCEPT ![t] = IF write_closed THEN "woken" ELSE "parking"]
            /\ want' = [want EXCEPT ![t] = n]
            /\ UNCHANGED <<ring, taken>>
       ELSE /\ pc' = [pc EXCEPT ![t] = "notify"]
            /\ want' = [want EXCEPT ![t] = 0]
            /\ taken' = ReadBytes(ring, n)
            /\ ring' = ReadFrom(ring, n)

(* The body of PipeReadEnd::read once it holds the ring: the while loop, the *)
(* EOF test and read_from.                                                  *)
ReadLocked(t, n) ==
    /\ UNCHANGED <<waiters, ends, sent, panicked>>
    /\ \/ /\ IsEmpty(ring) /\ ~write_closed
          /\ pc' = [pc EXCEPT ![t] = "parking"]
          /\ want' = [want EXCEPT ![t] = n]
          /\ UNCHANGED <<ring, taken>>
       \/ /\ IsEmpty(ring) /\ write_closed
          /\ pc' = [pc EXCEPT ![t] = "idle"]
          /\ want' = [want EXCEPT ![t] = 0]
          /\ UNCHANGED <<ring, taken>>
       \/ /\ ~IsEmpty(ring)
          /\ taken' = ReadBytes(ring, n)
          /\ ring' = ReadFrom(ring, n)
          /\ pc' = [pc EXCEPT ![t] = "notify"]
          /\ want' = [want EXCEPT ![t] = 0]

(* A read on an empty non-blocking end answers Busy before the loop. *)
ReadBusy == IsEmpty(ring) /\ ~write_closed /\ nonblocking["read"]

Read(t, n) ==
    /\ OnCpu(t) /\ pc[t] = "idle" /\ ~read_closed
    /\ IF ReadBusy THEN UNCHANGED vars ELSE ReadLocked(t, n)

(* The body of PipeWriteEnd::write once it holds the ring. *)
WriteLocked(t, n) ==
    LET bytes == [i \in 1 .. n |-> (sent + i - 1) % Modulus]
    IN  /\ UNCHANGED <<waiters, ends, taken>>
        /\ \/ /\ IsFull(ring) /\ ~read_closed
              /\ pc' = [pc EXCEPT ![t] = "parking"]
              /\ want' = [want EXCEPT ![t] = n]
              /\ UNCHANGED <<ring, sent, panicked>>
           \/ /\ read_closed
              /\ pc' = [pc EXCEPT ![t] = "idle"]
              /\ want' = [want EXCEPT ![t] = 0]
              /\ UNCHANGED <<ring, sent, panicked>>
           \/ /\ ~IsFull(ring) /\ ~read_closed
              /\ WritePanics(ring, n)
              /\ panicked' = TRUE
              /\ UNCHANGED <<ring, sent, pc, want>>
           \/ /\ ~IsFull(ring) /\ ~read_closed
              /\ ~WritePanics(ring, n)
              /\ ring' = WriteTo(ring, bytes)
              /\ sent' = (sent + RingMin(n, Remaining(ring))) % Modulus
              /\ pc' = [pc EXCEPT ![t] = "notify"]
              /\ want' = [want EXCEPT ![t] = 0]
              /\ UNCHANGED panicked

WriteBusy == IsFull(ring) /\ ~read_closed /\ nonblocking["write"]

Write(t, n) ==
    /\ OnCpu(t) /\ pc[t] = "idle" /\ ~write_closed
    /\ IF WriteBusy THEN UNCHANGED vars ELSE WriteLocked(t, n)

(* Condvar::wait after the unlock: block_current_if queues the thread. *)
Park(t) ==
    /\ OnCpu(t) /\ pc[t] = "parking"
    /\ waiters' = [waiters EXCEPT ![Own(t)] = Append(@, t)]
    /\ pc' = [pc EXCEPT ![t] = "parked"]
    /\ UNCHANGED <<ring, ends, want, sent, taken, panicked>>

(* CondvarWait::relock and the next turn of the caller's loop. *)
Relock(t) ==
    /\ OnCpu(t) /\ pc[t] = "woken"
    /\ IF t \in Readers THEN ReadLocked(t, want[t]) ELSE WriteLocked(t, want[t])

(* Variant: the notify goes to the caller's own condvar. *)
NotifyOneOwn(t) ==
    /\ OnCpu(t) /\ pc[t] = "notify"
    /\ pc' = [WakeOne(Own(t)) EXCEPT ![t] = "idle"]
    /\ waiters' = [waiters EXCEPT ![Own(t)] = IF @ = <<>> THEN @ ELSE Tail(@)]
    /\ UNCHANGED <<ring, ends, want, sent, taken, panicked>>

(* The notify_one that follows the unlock of a read or a write. *)
NotifyOne(t) ==
    /\ OnCpu(t) /\ pc[t] = "notify"
    /\ pc' = [WakeOne(Other(t)) EXCEPT ![t] = "idle"]
    /\ waiters' = [waiters EXCEPT ![Other(t)] = IF @ = <<>> THEN @ ELSE Tail(@)]
    /\ UNCHANGED <<ring, ends, want, sent, taken, panicked>>

(* Dropping an end: its last handle goes, so no call on it is in progress. *)
DropEnd(t) ==
    /\ OnCpu(t)
    /\ \A u \in Threads : Own(u) = Own(t) => pc[u] = "idle"
    /\ pc' = [u \in Threads |-> IF u = t THEN "dropping"
                                ELSE IF Own(u) = Own(t) THEN "gone" ELSE pc[u]]
    /\ IF t \in Readers
       THEN read_closed' = TRUE /\ UNCHANGED write_closed
       ELSE write_closed' = TRUE /\ UNCHANGED read_closed
    /\ UNCHANGED <<ring, nonblocking, waiters, want, sent, taken, panicked>>

(* Variant: the drop notifies one waiter only. *)
NotifyAllFirst(t) ==
    /\ OnCpu(t) /\ pc[t] = "dropping"
    /\ pc' = [WakeOne(Other(t)) EXCEPT ![t] = "gone"]
    /\ waiters' = [waiters EXCEPT ![Other(t)] = IF @ = <<>> THEN @ ELSE Tail(@)]
    /\ UNCHANGED <<ring, ends, want, sent, taken, panicked>>

(* ... and the notify_all after the ring is unlocked. *)
NotifyAll(t) ==
    /\ OnCpu(t) /\ pc[t] = "dropping"
    /\ pc' = [WakeAll(Other(t)) EXCEPT ![t] = "gone"]
    /\ waiters' = [waiters EXCEPT ![Other(t)] = <<>>]
    /\ UNCHANGED <<ring, ends, want, sent, taken, panicked>>

(* fcntl(F_SETPIPE_SZ) on either end: PipeChannel::resize. *)
SetCapacity(capacity) ==
    /\ ~panicked
    /\ Smp \/ \A t \in Threads : pc[t] # "parking"
    /\ CanResize(ring, capacity)
    /\ \E t \in Threads : pc[t] = "idle"
    /\ ring' = Resize(ring, capacity)
    /\ UNCHANGED <<ends, waiters, pc, want, sent, taken, panicked>>

(* fcntl(F_SETFL, O_NONBLOCK) on one end. *)
SetNonblocking(e) ==
    /\ ~panicked
    /\ Smp \/ \A t \in Threads : pc[t] # "parking"
    /\ IF e = "read" THEN ~read_closed ELSE ~write_closed
    /\ nonblocking' = [nonblocking EXCEPT ![e] = ~@]
    /\ UNCHANGED <<ring, read_closed, write_closed, waiters, pc, want, sent,
                   taken, panicked>>

ThreadStep(t) == Park(t) \/ Relock(t) \/ NotifyOne(t) \/ NotifyAll(t)

PipeNext ==
    \/ \E t \in Readers, n \in 1 .. MaxChunk : Read(t, n)
    \/ \E t \in Writers, n \in 1 .. MaxChunk : Write(t, n)
    \/ \E t \in Threads : ThreadStep(t) \/ DropEnd(t)
    \/ \E capacity \in Capacities : SetCapacity(capacity)
    \/ \E e \in {"read", "write"} : SetNonblocking(e)

PipeSpec == PipeInit /\ [][PipeNext]_vars

(* A runnable thread gets the CPU again and again (the ready queues are     *)
(* round-robin), so a step it keeps being able to take is taken.           *)
FairPipeSpec == PipeSpec /\ \A t \in Threads : SF_vars(ThreadStep(t))

-----------------------------------------------------------------------------

(* Every variable has its type; the ring's positions and count stay inside  *)
(* the ranges PipeRing relies on when it indexes buf.                       *)
PipeTypeOK ==
    /\ ring.cap \in Nat \ {0}
    /\ ring.buf \in [Slots(ring.cap) -> Slots(Modulus)]
    /\ ring.read_pos \in Slots(ring.cap)
    /\ ring.write_pos \in 0 .. ring.cap
    /\ ring.byte_count \in 0 .. ring.cap
    /\ read_closed \in BOOLEAN /\ write_closed \in BOOLEAN
    /\ nonblocking \in [{"read", "write"} -> BOOLEAN]
    /\ waiters \in [{"read_wait", "write_wait"} -> Seq(Threads)]
    /\ pc \in [Threads -> PcStates]
    /\ want \in [Threads -> 0 .. MaxChunk]
    /\ sent \in Slots(Modulus)
    /\ panicked \in BOOLEAN

(* The bytes come out in the order they went in, each once, across wraps,   *)
(* partial reads and writes, several writers and F_SETPIPE_SZ: the ring     *)
(* implements a byte stream (read_from, write_to and resize).              *)
Stream == INSTANCE ByteStream WITH stream <- Contents(ring)
StreamOrder == Stream!StreamSpec

(* A reader never sleeps through its data: while it is parked on read_wait  *)
(* and there is something to return (bytes, or EOF), a writer still owes it *)
(* the notify that follows the write or the drop.                          *)
NoStrandedReader ==
    \A r \in Readers :
        pc[r] = "parked" /\ (~IsEmpty(ring) \/ write_closed) /\ ~panicked
            => \E w \in Writers : pc[w] \in {"notify", "dropping"}

(* Reader and writer never park on each other with nobody left to notify:   *)
(* a pipe with both ends open is never full and empty at once.             *)
NoMutualPark ==
    ~ /\ \E r \in Readers : pc[r] = "parked"
      /\ \E w \in Writers : pc[w] = "parked"
      /\ \A t \in Threads : pc[t] \in {"idle", "parked", "gone"}

(* A blocked read returns once bytes arrive or the write end is dropped: a  *)
(* notify wakes the reader, and the loop in PipeReadEnd::read then ends.    *)
ReaderServed ==
    \A r \in Readers :
        (pc[r] = "parked" /\ (~IsEmpty(ring) \/ write_closed))
            ~> (pc[r] = "idle" \/ panicked)

(* A blocked write returns an error once the read end is dropped ("blocked  *)
(* writers return an error", the header of pipe.rs).                       *)
BrokenPipeReported ==
    \A w \in Writers : (pc[w] = "parked" /\ read_closed) ~> (pc[w] = "idle" \/ panicked)

(* The header of pipe.rs: "Writers block on `write_wait` when the buffer is *)
(* full".  A writer still parked with room in the ring, and no reader left  *)
(* that owes it a notify, is blocked on something else.                    *)
ParkedWriterMeansFull ==
    \A w \in Writers :
        pc[w] = "parked" /\ (\A t \in Threads : pc[t] \in {"idle", "parked"})
            => IsFull(ring)

(* The header of pipe.rs: "buffered data is preserved across a resize".  The *)
(* resized ring is one the next write can store into.                      *)
NoRingPanic == ~panicked

-----------------------------------------------------------------------------

(* The inductive strengthening behind the theorems of BufferProofs (one    *)
(* reader, uniprocessor).  A queue holds exactly the threads parked on it,  *)
(* each once; a thread about to park still sees the condition that sent it  *)
(* there; a closed end has no user left; a call in progress wants some      *)
(* bytes; and while a writer is parked an empty ring means that the read    *)
(* which emptied it is still being passed on.                              *)
QueuesExact ==
    /\ \A c \in {"read_wait", "write_wait"} : \A i \in 1 .. Len(waiters[c]) :
          /\ Own(waiters[c][i]) = c
          /\ pc[waiters[c][i]] = "parked"
          /\ \A j \in 1 .. Len(waiters[c]) : waiters[c][i] = waiters[c][j] => i = j
    /\ \A t \in Threads :
          pc[t] = "parked" => \E i \in 1 .. Len(waiters[Own(t)]) : waiters[Own(t)][i] = t

ParkingJustified ==
    \A t \in Threads : pc[t] = "parking" =>
        /\ t \in Readers => IsEmpty(ring) /\ ~write_closed
        /\ t \in Writers => ~IsEmpty(ring)
        /\ \A u \in Threads \ {t} : pc[u] # "parking"

ClosedEndUnused ==
    /\ read_closed => \A r \in Readers : pc[r] \in {"dropping", "gone"}
    /\ write_closed => \A w \in Writers : pc[w] \in {"dropping", "gone"}
    /\ \A t \in Threads : pc[t] \in {"dropping", "gone"} =>
          IF t \in Readers THEN read_closed ELSE write_closed

WantPositive ==
    \A t \in Threads : pc[t] \in {"parking", "parked", "woken"} => want[t] > 0

EmptyPassedOn ==
    (\E w \in Writers : pc[w] = "parked") /\ IsEmpty(ring) /\ ~panicked =>
        \/ \E r \in Readers : pc[r] \in {"notify", "dropping", "gone"}
        \/ \E w \in Writers : pc[w] = "woken"

PipeIInv ==
    /\ PipeTypeOK /\ QueuesExact /\ ParkingJustified /\ ClosedEndUnused
    /\ WantPositive /\ NoStrandedReader /\ EmptyPassedOn
=============================================================================
