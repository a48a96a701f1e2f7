----------------------------- MODULE BufferProofs -----------------------------
(***************************************************************************)
(* Proofs about buffers: the ring of a pipe, the pool of the block cache.   *)
(*                                                                         *)
(* Pipe, for every set of writers, every capacity and every chunk size: the *)
(* type invariant, the refinement of ByteStream, and, for one reader on a   *)
(* uniprocessor, that the reader never sleeps through data or an EOF and    *)
(* never parks against a parked writer.                                    *)
(*                                                                         *)
(* BlockCache, for a file system that makes one call at a time: FAT32 and   *)
(* exFAT hold the volume's lock across each call.  The device works on its  *)
(* queue meanwhile, in any order, and may fail any request.                 *)
(***************************************************************************)
EXTENDS Pipe, BlockCache, TLAPS

\* A leaf that names no prover is for Zenon.
USE ZenonT(60)

-----------------------------------------------------------------------------
(* Pipe.  First, sequences of bytes. *)

LEMMA SameBytes ==
  ASSUME NEW S, NEW s \in Seq(S), NEW t \in Seq(S),
         Len(s) = Len(t), \A i \in 1 .. Len(s) : s[i] = t[i]
  PROVE  s = t
BY SMT, Z3T(40)

LEMMA JoinedBytes ==
  ASSUME NEW S, NEW s \in Seq(S), NEW t \in Seq(S)
  PROVE  /\ s \o t \in Seq(S) /\ Len(s \o t) = Len(s) + Len(t)
         /\ \A i \in 1 .. Len(s) + Len(t) :
               (s \o t)[i] = IF i <= Len(s) THEN s[i] ELSE t[i - Len(s)]
BY SMT, Z3T(40)


(* What every operation of PipeRing relies on and re-establishes. *)
RingOK(r) ==
    /\ r.cap \in Nat \ {0}
    /\ r.buf \in [Slots(r.cap) -> Slots(Modulus)]
    /\ r.read_pos \in Slots(r.cap)
    /\ r.write_pos \in 0 .. r.cap
    /\ r.byte_count \in 0 .. r.cap

-----------------------------------------------------------------------------

(* Reducing an index modulo the capacity lands inside the buffer, which is  *)
(* how read_from and write_to keep their positions.                        *)
LEMMA ModInSlots ==
    ASSUME NEW x \in Nat, NEW m \in Nat \ {0}
    PROVE  x % m \in Slots(m)
BY SMT, Z3T(40) DEF Slots

(* PipeRing::new returns a well-formed ring. *)
LEMMA NewRingOK == RingOK(NewRing(InitialCapacity))
BY SMT, Z3T(40), PipeAssumption DEF RingOK, NewRing, Slots

(* The unread bytes form a sequence of byte_count bytes. *)
LEMMA ContentsType ==
    ASSUME NEW r, RingOK(r)
    PROVE  /\ Contents(r) \in Seq(Slots(Modulus))
           /\ Len(Contents(r)) = r.byte_count
           /\ \A i \in 1 .. r.byte_count : Contents(r)[i] \in Slots(Modulus)
<1>1. \A i \in 1 .. r.byte_count : r.buf[(r.read_pos + i - 1) % r.cap] \in Slots(Modulus)
  <2>1. TAKE i \in 1 .. r.byte_count
  <2>2. r.read_pos + i - 1 \in Nat
    BY SMT, Z3T(40) DEF RingOK, Slots
  <2>3. (r.read_pos + i - 1) % r.cap \in Slots(r.cap)
    BY <2>2, ModInSlots DEF RingOK
  <2> QED
    BY <2>3 DEF RingOK
<1>2. r.byte_count \in Nat
  BY SMT, Z3T(40) DEF RingOK
<1> QED
  BY SMT, Z3T(40), <1>1, <1>2 DEF Contents

(* PipeRing::read_from keeps the ring well-formed. *)
LEMMA ReadFromOK ==
    ASSUME NEW r, RingOK(r), NEW n \in Nat
    PROVE  RingOK(ReadFrom(r, n))
<1> DEFINE k == RingMin(n, r.byte_count)
<1>1. k \in 0 .. r.byte_count
  BY SMT, Z3T(40) DEF RingOK, RingMin
<1>2. (r.read_pos + k) % r.cap \in Slots(r.cap)
  <2>1. r.read_pos + k \in Nat
    BY SMT, Z3T(40), <1>1 DEF RingOK, Slots
  <2> QED
    BY <2>1, ModInSlots DEF RingOK
<1> QED
  BY SMT, Z3T(40), <1>1, <1>2 DEF RingOK, ReadFrom

(* PipeRing::write_to keeps the ring well-formed. *)
LEMMA WriteToOK ==
    ASSUME NEW r, RingOK(r), NEW s \in Seq(Slots(Modulus))
    PROVE  /\ RingOK(WriteTo(r, s))
           /\ WriteTo(r, s).byte_count = r.byte_count + RingMin(Len(s), Remaining(r))
<1> DEFINE k == RingMin(Len(s), Remaining(r))
           Stored(i) == (i - r.write_pos + r.cap) % r.cap
           b == [i \in Slots(r.cap) |-> IF Stored(i) < k THEN s[Stored(i) + 1] ELSE r.buf[i]]
<1>1. k \in 0 .. Len(s) /\ k \in 0 .. (r.cap - r.byte_count)
  BY SMT, Z3T(40) DEF RingOK, RingMin, Remaining
<1>2. (r.write_pos + k) % r.cap \in Slots(r.cap)
  <2>1. r.write_pos + k \in Nat
    BY SMT, Z3T(40), <1>1 DEF RingOK
  <2> QED
    BY <2>1, ModInSlots DEF RingOK
<1>3. b \in [Slots(r.cap) -> Slots(Modulus)]
  <2>1. SUFFICES ASSUME NEW i \in Slots(r.cap), Stored(i) < k
                 PROVE  s[Stored(i) + 1] \in Slots(Modulus)
    BY DEF RingOK
  <2>2. i - r.write_pos + r.cap \in Nat
    BY SMT, Z3T(40) DEF RingOK, Slots
  <2>3. Stored(i) \in Slots(r.cap)
    BY <2>2, ModInSlots DEF RingOK
  <2>4. Stored(i) + 1 \in 1 .. Len(s)
    <3> HIDE DEF Stored, k
    <3> QED
      BY SMT, Z3T(40), <2>1, <2>3, <1>1 DEF Slots, RingOK
  <2> QED
    BY SMT, Z3T(40), <2>4
<1>4. WriteTo(r, s) = [buf |-> b, cap |-> r.cap, read_pos |-> r.read_pos,
                       write_pos |-> (r.write_pos + k) % r.cap,
                       byte_count |-> r.byte_count + k]
  BY DEF WriteTo
<1>5. /\ r.byte_count + k \in 0 .. r.cap
      /\ (r.write_pos + k) % r.cap \in 0 .. r.cap
  <2> HIDE DEF b, k
  <2>1. r.byte_count + k \in 0 .. r.cap
    BY SMT, Z3T(40), <1>1 DEF RingOK
  <2>2. Slots(r.cap) \subseteq 0 .. r.cap
    BY SMT, Z3T(40) DEF RingOK, Slots
  <2> QED
    BY <1>2, <2>1, <2>2
<1> HIDE DEF b, k
<1> QED
  BY SMT, Z3T(40), <1>3, <1>4, <1>5 DEF RingOK, k

(* PipeRing::resize keeps the ring well-formed and the number of unread     *)
(* bytes; write_pos may end up at the very end of the buffer.              *)
LEMMA ResizeOK ==
    ASSUME NEW r, RingOK(r), NEW c \in Nat \ {0}, CanResize(r, c)
    PROVE  RingOK(Resize(r, c)) /\ Resize(r, c).byte_count = r.byte_count
<1>1. 0 \in Slots(Modulus)
  BY SMT, Z3T(40), PipeAssumption DEF Slots
<1>2. r.byte_count \in 0 .. c
  BY SMT, Z3T(40) DEF CanResize, RingOK
<1>3. \A i \in Slots(c) : i < r.byte_count => Contents(r)[i + 1] \in Slots(Modulus)
  BY SMT, Z3T(40), ContentsType DEF Slots, RingOK
<1>4. Len(Contents(r)) = r.byte_count
  BY ContentsType
<1> DEFINE b == [i \in Slots(c) |-> IF i < Len(Contents(r)) THEN Contents(r)[i + 1] ELSE 0]
<1>5. b \in [Slots(c) -> Slots(Modulus)]
  BY <1>1, <1>3, <1>4
<1>6. Resize(r, c) = [buf |-> b, cap |-> c, read_pos |-> 0,
                      write_pos |-> r.byte_count, byte_count |-> r.byte_count]
  BY <1>4 DEF Resize
<1> HIDE DEF b
<1> QED
  BY SMT, Z3T(40), <1>2, <1>5, <1>6 DEF RingOK, Slots

-----------------------------------------------------------------------------

(* The bytes a write offers are numbered bytes. *)
LEMMA BytesType ==
    ASSUME sent \in Slots(Modulus), NEW n \in Nat
    PROVE  /\ [i \in 1 .. n |-> (sent + i - 1) % Modulus] \in Seq(Slots(Modulus))
           /\ Len([i \in 1 .. n |-> (sent + i - 1) % Modulus]) = n
<1>1. \A i \in 1 .. n : (sent + i - 1) % Modulus \in Slots(Modulus)
  <2>1. TAKE i \in 1 .. n
  <2>2. sent + i - 1 \in Nat
    BY SMT, Z3T(40) DEF Slots
  <2> QED
    BY <2>2, ModInSlots, PipeAssumption
<1> QED
  BY SMT, Z3T(40), <1>1

(* The initial pipe is well typed. *)
LEMMA TypeInit == PipeInit => PipeTypeOK
<1>1. RingOK(NewRing(InitialCapacity))
  BY NewRingOK
<1>2. 0 \in Slots(Modulus) /\ 0 \in 0 .. MaxChunk
  BY SMT, Z3T(40), PipeAssumption DEF Slots
<1>3. <<>> \in Seq(Threads)
  BY SMT, Z3T(40)
<1> QED
  BY ZenonT(60), <1>1, <1>2, <1>3 DEF PipeInit, PipeTypeOK, RingOK, PcStates

(* The body of a read preserves the type invariant. *)
LEMMA ReadLockedType ==
    ASSUME PipeTypeOK, NEW t \in Threads, NEW n \in 0 .. MaxChunk, ReadLocked(t, n)
    PROVE  PipeTypeOK'
<1>1. RingOK(ring) /\ n \in Nat /\ 0 \in 0 .. MaxChunk
  BY SMT, Z3T(40), PipeAssumption DEF PipeTypeOK, RingOK
<1>2. RingOK(ReadFrom(ring, n))
  BY <1>1, ReadFromOK
<1>3. RingOK(ring')
  BY <1>1, <1>2 DEF ReadLocked
<1>4. /\ pc' \in [Threads -> PcStates]
      /\ want' \in [Threads -> 0 .. MaxChunk]
  <2>1. /\ \E v \in PcStates : pc' = [pc EXCEPT ![t] = v] \/ pc' = pc
        /\ \E v \in 0 .. MaxChunk : want' = [want EXCEPT ![t] = v] \/ want' = want
    BY <1>1 DEF ReadLocked, PcStates
  <2> QED
    BY <2>1 DEF PipeTypeOK
<1> QED
  BY <1>3, <1>4 DEF ReadLocked, PipeTypeOK, RingOK, ends

(* The body of a write preserves the type invariant. *)
LEMMA WriteLockedType ==
    ASSUME PipeTypeOK, NEW t \in Threads, NEW n \in 0 .. MaxChunk, WriteLocked(t, n)
    PROVE  PipeTypeOK'
<1> DEFINE bytes == [i \in 1 .. n |-> (sent + i - 1) % Modulus]
<1>1. RingOK(ring) /\ n \in Nat /\ 0 \in 0 .. MaxChunk
  BY SMT, Z3T(40), PipeAssumption DEF PipeTypeOK, RingOK
<1>2. RingOK(WriteTo(ring, bytes))
  BY <1>1, WriteToOK, BytesType DEF PipeTypeOK
<1>3. RingOK(ring')
  BY <1>1, <1>2 DEF WriteLocked
<1>4. /\ pc' \in [Threads -> PcStates]
      /\ want' \in [Threads -> 0 .. MaxChunk]
  <2>1. /\ \E v \in PcStates : pc' = [pc EXCEPT ![t] = v] \/ pc' = pc
        /\ \E v \in 0 .. MaxChunk : want' = [want EXCEPT ![t] = v] \/ want' = want
    BY <1>1 DEF WriteLocked, PcStates
  <2> QED
    BY <2>1 DEF PipeTypeOK
<1>5. sent' \in Slots(Modulus)
  <2>1. RingMin(n, Remaining(ring)) \in Nat
    BY SMT, Z3T(40), <1>1 DEF RingMin, Remaining, RingOK
  <2>2. sent + RingMin(n, Remaining(ring)) \in Nat
    BY SMT, Z3T(40), <2>1 DEF PipeTypeOK, Slots
  <2>3. (sent + RingMin(n, Remaining(ring))) % Modulus \in Slots(Modulus)
    BY <2>2, ModInSlots, PipeAssumption
  <2> QED
    BY <2>3 DEF WriteLocked, PipeTypeOK
<1>6. panicked' \in BOOLEAN /\ UNCHANGED <<waiters, ends>>
  BY DEF WriteLocked, PipeTypeOK
<1> QED
  BY <1>3, <1>4, <1>5, <1>6 DEF PipeTypeOK, RingOK, ends

(* Every step of the pipe preserves the type invariant. *)
LEMMA TypeNext == PipeTypeOK /\ [PipeNext]_vars => PipeTypeOK'
<1> SUFFICES ASSUME PipeTypeOK, [PipeNext]_vars PROVE PipeTypeOK'
  OBVIOUS
<1>1. ASSUME NEW t \in Readers, NEW n \in 1 .. MaxChunk, Read(t, n) PROVE PipeTypeOK'
  <2>1. t \in Threads /\ n \in 0 .. MaxChunk
    BY SMT, Z3T(40), PipeAssumption DEF Threads
  <2>2. CASE UNCHANGED vars
    BY <2>2 DEF vars, PipeTypeOK
  <2> QED
    BY <1>1, <2>1, <2>2, ReadLockedType DEF Read
<1>2. ASSUME NEW t \in Writers, NEW n \in 1 .. MaxChunk, Write(t, n) PROVE PipeTypeOK'
  <2>1. t \in Threads /\ n \in 0 .. MaxChunk
    BY SMT, Z3T(40), PipeAssumption DEF Threads
  <2>2. CASE UNCHANGED vars
    BY <2>2 DEF vars, PipeTypeOK
  <2> QED
    BY <1>2, <2>1, <2>2, WriteLockedType DEF Write
<1>3. ASSUME NEW t \in Threads, Park(t) PROVE PipeTypeOK'
  BY SMT, Z3T(40), <1>3 DEF Park, PipeTypeOK, ends, PcStates, Own
<1>4. ASSUME NEW t \in Threads, Relock(t) PROVE PipeTypeOK'
  <2>1. want[t] \in 0 .. MaxChunk
    BY DEF PipeTypeOK
  <2> QED
    BY <1>4, <2>1, ReadLockedType, WriteLockedType DEF Relock
<1>5. ASSUME NEW t \in Threads, NotifyOne(t) PROVE PipeTypeOK'
  <2>1. WakeOne(Other(t)) \in [Threads -> PcStates]
    BY DEF PipeTypeOK, WakeOne, PcStates
  <2>2. pc' \in [Threads -> PcStates]
    BY <1>5, <2>1 DEF NotifyOne, PcStates
  <2>3. waiters' \in [{"read_wait", "write_wait"} -> Seq(Threads)]
    BY SMT, Z3T(40), <1>5 DEF NotifyOne, PipeTypeOK, Other
  <2> QED
    BY <1>5, <2>2, <2>3 DEF NotifyOne, PipeTypeOK, ends
<1>6. ASSUME NEW t \in Threads, NotifyAll(t) PROVE PipeTypeOK'
  <2>1. WakeAll(Other(t)) \in [Threads -> PcStates]
    BY DEF PipeTypeOK, WakeAll, PcStates
  <2>2. pc' \in [Threads -> PcStates]
    BY <1>6, <2>1 DEF NotifyAll, PcStates
  <2>3. waiters' \in [{"read_wait", "write_wait"} -> Seq(Threads)]
    BY SMT, Z3T(40), <1>6 DEF NotifyAll, PipeTypeOK, Other
  <2> QED
    BY <1>6, <2>2, <2>3 DEF NotifyAll, PipeTypeOK, ends
<1>7. ASSUME NEW t \in Threads, DropEnd(t) PROVE PipeTypeOK'
  BY <1>7 DEF DropEnd, PipeTypeOK, PcStates
<1>8. ASSUME NEW c \in Capacities, SetCapacity(c) PROVE PipeTypeOK'
  <2>1. c \in Nat \ {0} /\ RingOK(ring)
    BY PipeAssumption DEF PipeTypeOK, RingOK
  <2>2. RingOK(ring')
    BY <1>8, <2>1, ResizeOK DEF SetCapacity
  <2> QED
    BY <1>8, <2>2 DEF SetCapacity, PipeTypeOK, RingOK, ends
<1>9. ASSUME NEW e \in {"read", "write"}, SetNonblocking(e) PROVE PipeTypeOK'
  BY <1>9 DEF SetNonblocking, PipeTypeOK
<1>10. CASE UNCHANGED vars
  BY <1>10 DEF vars, PipeTypeOK
<1> QED
  BY <1>1, <1>2, <1>3, <1>4, <1>5, <1>6, <1>7, <1>8, <1>9, <1>10
  DEF PipeNext, ThreadStep

(* The ring's positions and counts stay inside the buffer and every         *)
(* variable keeps its type, whatever mix of reads, writes, drops, resizes   *)
(* and O_NONBLOCK changes happens, on any number of CPUs.                   *)
THEOREM PipeTypeCorrect == PipeSpec => []PipeTypeOK
BY TypeInit, TypeNext, PTL DEF PipeSpec

-----------------------------------------------------------------------------

(* One thread reads, and the machine has one CPU. *)
OneReaderUp == Smp = FALSE /\ \E r : Readers = {r}

(* A write that finds room leaves at least one byte in the ring. *)
LEMMA WriteFills ==
    ASSUME PipeTypeOK, NEW n \in Nat \ {0}, ~IsFull(ring)
    PROVE  ~IsEmpty(WriteTo(ring, [i \in 1 .. n |-> (sent + i - 1) % Modulus]))
<1> DEFINE bytes == [i \in 1 .. n |-> (sent + i - 1) % Modulus]
<1>1. bytes \in Seq(Slots(Modulus)) /\ Len(bytes) = n
  BY BytesType DEF PipeTypeOK
<1>2. RingOK(ring)
  BY DEF PipeTypeOK, RingOK
<1> HIDE DEF bytes
<1>3. WriteTo(ring, bytes).byte_count = ring.byte_count + RingMin(n, Remaining(ring))
  BY <1>1, <1>2, WriteToOK
<1>4. RingMin(n, Remaining(ring)) \in Nat \ {0}
  BY SMT, Z3T(40), <1>2 DEF RingMin, Remaining, IsFull, RingOK
<1>5. WriteTo(ring, bytes).byte_count # 0
  BY SMT, Z3T(40), <1>2, <1>3, <1>4 DEF RingOK
<1> QED
  BY <1>5 DEF IsEmpty, bytes

(* What a locked read does to the parts of the state the wake-up argument   *)
(* is about.                                                               *)
LEMMA ReadEffect ==
    ASSUME NEW t \in Threads, NEW n, ReadLocked(t, n)
    PROVE  /\ UNCHANGED <<waiters, read_closed, write_closed, panicked>>
           /\ \/ /\ IsEmpty(ring) /\ ~write_closed /\ ring' = ring
                 /\ pc' = [pc EXCEPT ![t] = "parking"]
                 /\ want' = [want EXCEPT ![t] = n]
              \/ /\ IsEmpty(ring) /\ write_closed /\ ring' = ring
                 /\ pc' = [pc EXCEPT ![t] = "idle"]
                 /\ want' = [want EXCEPT ![t] = 0]
              \/ /\ ~IsEmpty(ring)
                 /\ pc' = [pc EXCEPT ![t] = "notify"]
                 /\ want' = [want EXCEPT ![t] = 0]
BY DEF ReadLocked, ends

(* The same for a locked write. *)
LEMMA WriteEffect ==
    ASSUME PipeTypeOK, NEW t \in Threads, NEW n \in Nat \ {0}, WriteLocked(t, n)
    PROVE  /\ UNCHANGED <<waiters, read_closed, write_closed>>
           /\ \/ /\ IsFull(ring) /\ ~read_closed /\ ring' = ring /\ panicked' = panicked
                 /\ pc' = [pc EXCEPT ![t] = "parking"]
                 /\ want' = [want EXCEPT ![t] = n]
              \/ /\ read_closed /\ ring' = ring /\ panicked' = panicked
                 /\ pc' = [pc EXCEPT ![t] = "idle"]
                 /\ want' = [want EXCEPT ![t] = 0]
              \/ panicked' /\ ring' = ring /\ pc' = pc /\ want' = want
              \/ /\ ~IsEmpty(ring') /\ panicked' = panicked
                 /\ pc' = [pc EXCEPT ![t] = "notify"]
                 /\ want' = [want EXCEPT ![t] = 0]
<1>1. ~IsFull(ring) => ~IsEmpty(WriteTo(ring, [i \in 1 .. n |-> (sent + i - 1) % Modulus]))
  BY WriteFills
<1> QED
  BY <1>1 DEF WriteLocked, ends

(* A full ring is not empty. *)
LEMMA FullNotEmpty ==
    ASSUME PipeTypeOK, IsFull(ring)
    PROVE  ~IsEmpty(ring)
BY DEF PipeTypeOK, IsFull, IsEmpty

(* The strengthened invariant holds initially. *)
LEMMA IInvInit == PipeInit => PipeIInv
<1> SUFFICES ASSUME PipeInit PROVE PipeIInv
  OBVIOUS
<1>1. PipeTypeOK
  BY TypeInit
<1>2. QueuesExact
  BY SMT, Z3T(40) DEF PipeInit, QueuesExact, Own
<1>3. ParkingJustified /\ ClosedEndUnused /\ WantPositive
  BY DEF PipeInit, ParkingJustified, ClosedEndUnused, WantPositive
<1>4. NoStrandedReader /\ EmptyPassedOn
  BY DEF PipeInit, NoStrandedReader, EmptyPassedOn, Threads
<1> QED
  BY <1>1, <1>2, <1>3, <1>4 DEF PipeIInv

(* A step that queues and wakes nobody leaves the queues exact. *)
LEMMA SameQueues ==
    ASSUME PipeTypeOK, QueuesExact, waiters' = waiters,
           \A u \in Threads : pc'[u] = "parked" <=> pc[u] = "parked"
    PROVE  QueuesExact'
<1>1. \A c \in {"read_wait", "write_wait"} : \A i \in 1 .. Len(waiters[c]) : waiters[c][i] \in Threads
  BY SMT, Z3T(40) DEF PipeTypeOK
<1>2. \A c \in {"read_wait", "write_wait"} : \A i \in 1 .. Len(waiters'[c]) :
         /\ Own(waiters'[c][i]) = c
         /\ pc'[waiters'[c][i]] = "parked"
         /\ \A j \in 1 .. Len(waiters'[c]) : waiters'[c][i] = waiters'[c][j] => i = j
  BY SMT, Z3T(40), <1>1 DEF QueuesExact
<1>3. \A u \in Threads :
         pc'[u] = "parked" => \E i \in 1 .. Len(waiters'[Own(u)]) : waiters'[Own(u)][i] = u
  BY DEF QueuesExact
<1> QED
  BY <1>2, <1>3 DEF QueuesExact, Own

(* A locked read preserves the strengthened invariant.  The reader was idle *)
(* or woken, so it is in no queue; it leaves in a state that owes the       *)
(* writers a notify, or parks on a ring that is empty.                      *)
LEMMA IInvRead ==
    ASSUME OneReaderUp, PipeIInv, NEW t \in Readers, NEW n \in 1 .. MaxChunk,
           OnCpu(t), pc[t] \in {"idle", "woken"}, ReadLocked(t, n)
    PROVE  PipeIInv'
<1>1. PipeTypeOK' /\ t \in Threads
  BY SMT, Z3T(40), ReadLockedType, PipeAssumption DEF PipeIInv, Threads
<1>2. pc \in [Threads -> PcStates] /\ want \in [Threads -> 0 .. MaxChunk]
  BY DEF PipeIInv, PipeTypeOK
<1>3. t \notin Writers /\ (\A r \in Readers : r = t) /\ n > 0
  BY SMT, Z3T(40), PipeAssumption DEF OneReaderUp
<1>4. \A u \in Threads \ {t} : pc[u] # "parking"
  BY DEF OnCpu, OneReaderUp
<1>5. \A u \in Threads \ {t} : pc'[u] = pc[u] /\ want'[u] = want[u]
  BY <1>1, <1>2, ReadEffect
<1>6. QueuesExact'
  <2>1. waiters' = waiters /\ pc[t] # "parked" /\ pc'[t] # "parked"
    BY <1>1, <1>2, ReadEffect
  <2> QED
    BY <1>5, <2>1, SameQueues DEF PipeIInv
<1>7. ParkingJustified'
  BY SMT, Z3T(40), <1>1, <1>2, <1>3, <1>4, <1>5, ReadEffect DEF ParkingJustified, IsEmpty
<1>8. ClosedEndUnused'
  BY SMT, Z3T(40), <1>1, <1>2, <1>3, <1>5, ReadEffect DEF PipeIInv, ClosedEndUnused, Threads
<1>9. WantPositive'
  BY SMT, Z3T(40), <1>1, <1>2, <1>3, <1>5, ReadEffect DEF PipeIInv, WantPositive
<1>10. NoStrandedReader'
  BY <1>1, <1>2, <1>3, ReadEffect DEF NoStrandedReader
<1>11. EmptyPassedOn'
  <2>1. CASE pc' = [pc EXCEPT ![t] = "notify"]
    BY <1>2, <1>1, <2>1 DEF EmptyPassedOn
  <2>2. CASE ring' = ring /\ pc'[t] # "notify"
    <3>1. \A w \in Writers : w \in Threads /\ pc'[w] = pc[w]
      BY <1>3, <1>5 DEF Threads
    <3>2. pc[t] \notin {"notify", "dropping", "gone"}
      OBVIOUS
    <3>3. panicked' = panicked
      BY <1>1, ReadEffect
    <3> QED
      BY <1>3, <2>2, <3>1, <3>2, <3>3 DEF PipeIInv, EmptyPassedOn, IsEmpty
  <2> QED
    BY <1>1, <1>2, <2>1, <2>2, ReadEffect
<1> QED
  BY <1>1, <1>6, <1>7, <1>8, <1>9, <1>10, <1>11 DEF PipeIInv

(* The same for a locked write: it leaves bytes and a notify behind, or     *)
(* parks on a ring that is not empty.                                      *)
LEMMA IInvWrite ==
    ASSUME OneReaderUp, PipeIInv, NEW t \in Writers, NEW n \in 1 .. MaxChunk,
           OnCpu(t), pc[t] \in {"idle", "woken"}, WriteLocked(t, n)
    PROVE  PipeIInv'
<1>1. PipeTypeOK' /\ t \in Threads /\ n \in Nat \ {0}
  BY SMT, Z3T(40), WriteLockedType, PipeAssumption DEF PipeIInv, Threads
<1>2. pc \in [Threads -> PcStates] /\ want \in [Threads -> 0 .. MaxChunk] /\ PipeTypeOK
  BY DEF PipeIInv, PipeTypeOK
<1>3. t \notin Readers
  BY PipeAssumption
<1>4. \A u \in Threads \ {t} : pc[u] # "parking"
  BY DEF OnCpu, OneReaderUp
<1>5. \A u \in Threads \ {t} : pc'[u] = pc[u] /\ want'[u] = want[u]
  BY ZenonT(40), <1>1, <1>2, WriteEffect
<1>6. QueuesExact'
  <2>1. waiters' = waiters /\ pc[t] # "parked" /\ pc'[t] # "parked"
    BY <1>1, <1>2, WriteEffect
  <2> QED
    BY <1>5, <2>1, SameQueues DEF PipeIInv
<1>7. ParkingJustified'
  <2>1. pc'[t] = "parking" => ~IsEmpty(ring')
    BY <1>1, <1>2, WriteEffect, FullNotEmpty
  <2> QED
    BY <1>3, <1>4, <1>5, <2>1 DEF ParkingJustified, IsEmpty
<1>8. ClosedEndUnused'
  BY SMT, Z3T(40), <1>1, <1>2, <1>3, <1>5, WriteEffect DEF PipeIInv, ClosedEndUnused, Threads
<1>9. WantPositive'
  BY SMT, Z3T(40), <1>1, <1>2, <1>5, WriteEffect DEF PipeIInv, WantPositive
<1>10. \A r \in Readers : pc'[r] = pc[r]
  BY <1>3, <1>5 DEF Threads
<1>11. NoStrandedReader'
  <2>1. CASE pc' = [pc EXCEPT ![t] = "notify"]
    BY <1>1, <1>2, <2>1 DEF NoStrandedReader
  <2>2. CASE panicked'
    BY <2>2 DEF NoStrandedReader
  <2>3. CASE ring' = ring /\ panicked' = panicked
    <3>1. \A w \in Writers : pc[w] \in {"notify", "dropping"} => pc'[w] = pc[w]
      BY <1>5 DEF Threads
    <3> QED
      BY <1>1, <1>2, <1>10, <2>3, <3>1, WriteEffect DEF PipeIInv, NoStrandedReader, IsEmpty
  <2> QED
    BY <1>1, <1>2, <2>1, <2>2, <2>3, WriteEffect
<1>12. EmptyPassedOn'
  <2>1. CASE ~IsEmpty(ring')
    BY <2>1 DEF EmptyPassedOn, IsEmpty
  <2>2. CASE panicked'
    BY <2>2 DEF EmptyPassedOn
  <2>3. CASE read_closed
    <3>1. \E r \in Readers : pc[r] \in {"dropping", "gone"}
      BY <2>3 DEF PipeIInv, ClosedEndUnused, OneReaderUp
    <3> QED
      BY <1>10, <3>1 DEF EmptyPassedOn
  <2> QED
    BY <1>1, <1>2, <2>1, <2>2, <2>3, WriteEffect, FullNotEmpty
<1> QED
  BY <1>1, <1>6, <1>7, <1>8, <1>9, <1>11, <1>12 DEF PipeIInv

(* Parking, and both notifies, keep a queue exactly the threads parked on   *)
(* it, on any number of CPUs.                                               *)
LEMMA QueuesPark ==
    ASSUME PipeTypeOK, QueuesExact, NEW t \in Threads, Park(t)
    PROVE  QueuesExact'
<1>1. /\ pc \in [Threads -> PcStates] /\ PipeTypeOK
      /\ pc[t] = "parking" /\ pc' = [pc EXCEPT ![t] = "parked"]
      /\ waiters' = [waiters EXCEPT ![Own(t)] = Append(@, t)]
      /\ waiters \in [{"read_wait", "write_wait"} -> Seq(Threads)]
      /\ Own(t) \in {"read_wait", "write_wait"}
      /\ UNCHANGED <<ring, read_closed, write_closed, want, panicked>>
  BY DEF PipeTypeOK, Park, ends, Own
<1>2. QueuesExact'
  <2> DEFINE q == waiters[Own(t)]
  <2>1. q \in Seq(Threads) /\ waiters'[Own(t)] = Append(q, t)
    BY <1>1
  <2>2. \A i \in 1 .. Len(q) : q[i] # t
    BY SMT, Z3T(40), <1>1, <2>1 DEF QueuesExact
  <2>3. \A c \in {"read_wait", "write_wait"} : c # Own(t) => waiters'[c] = waiters[c]
    BY <1>1
  <2>4. \A c \in {"read_wait", "write_wait"} : \A i \in 1 .. Len(waiters'[c]) :
           /\ Own(waiters'[c][i]) = c
           /\ pc'[waiters'[c][i]] = "parked"
           /\ \A j \in 1 .. Len(waiters'[c]) : waiters'[c][i] = waiters'[c][j] => i = j
    <3>1. TAKE c \in {"read_wait", "write_wait"}
    <3>2. CASE c # Own(t)
      <4>1. waiters'[c] = waiters[c] /\ \A i \in 1 .. Len(waiters[c]) : waiters[c][i] \in Threads
        BY SMT, Z3T(40), <1>1, <2>3, <3>2
      <4>2. \A u \in Threads : pc[u] = "parked" => pc'[u] = "parked"
        BY <1>1
      <4> QED
        BY SMT, Z3T(40), <4>1, <4>2 DEF QueuesExact
    <3>3. CASE c = Own(t)
      <4>1. \A i \in 1 .. Len(q) : Append(q, t)[i] = q[i] /\ q[i] \in Threads
        BY SMT, Z3T(40), <2>1
      <4>2. Len(Append(q, t)) = Len(q) + 1 /\ Append(q, t)[Len(q) + 1] = t /\ Len(q) \in Nat
        BY SMT, Z3T(40), <2>1
      <4>3. \A i \in 1 .. Len(q) : /\ Own(q[i]) = c /\ pc[q[i]] = "parked"
                                   /\ \A j \in 1 .. Len(q) : q[i] = q[j] => i = j
        BY SMT, Z3T(40), <3>3 DEF QueuesExact
      <4>4. waiters'[c] = Append(q, t) /\ Own(t) = c /\ pc'[t] = "parked"
        BY <1>1, <2>1, <3>3
      <4>5. \A i \in 1 .. Len(q) : pc'[q[i]] = "parked"
        BY <1>1, <4>1, <4>3
      <4> HIDE DEF q
      <4> QED
        BY SMT, Z3T(40), <2>2, <4>1, <4>2, <4>3, <4>4, <4>5
    <3> QED
      BY <3>2, <3>3
  <2>5. ASSUME NEW u \in Threads, pc'[u] = "parked"
        PROVE  \E i \in 1 .. Len(waiters'[Own(u)]) : waiters'[Own(u)][i] = u
    <3>1. CASE u = t
      <4>1. Len(Append(q, t)) \in 1 .. Len(Append(q, t)) /\ Append(q, t)[Len(Append(q, t))] = t
        BY SMT, Z3T(40), <2>1
      <4> QED
        BY <2>1, <3>1, <4>1
    <3>2. CASE u # t
      <4>1. PICK i \in 1 .. Len(waiters[Own(u)]) : waiters[Own(u)][i] = u
        BY <1>1, <2>5, <3>2 DEF QueuesExact
      <4>2. CASE Own(u) # Own(t)
        BY <1>1, <4>1, <4>2 DEF Own
      <4>3. CASE Own(u) = Own(t)
        <5>1. i \in 1 .. Len(Append(q, t)) /\ Append(q, t)[i] = q[i]
          BY SMT, Z3T(40), <2>1, <4>1, <4>3
        <5> QED
          BY <2>1, <4>1, <4>3, <5>1
      <4> QED
        BY <4>2, <4>3
    <3> QED
      BY <3>1, <3>2
  <2> QED
    BY <2>4, <2>5 DEF QueuesExact, Own
<1> QED
  BY <1>2

(* Condvar::wait queues the thread it is about to block. *)
LEMMA IInvPark ==
    ASSUME OneReaderUp, PipeIInv, NEW t \in Threads, Park(t), PipeTypeOK'
    PROVE  PipeIInv'
<1>1. /\ pc \in [Threads -> PcStates] /\ PipeTypeOK
      /\ pc[t] = "parking" /\ pc' = [pc EXCEPT ![t] = "parked"]
      /\ waiters' = [waiters EXCEPT ![Own(t)] = Append(@, t)]
      /\ waiters \in [{"read_wait", "write_wait"} -> Seq(Threads)]
      /\ Own(t) \in {"read_wait", "write_wait"}
      /\ UNCHANGED <<ring, read_closed, write_closed, want, panicked>>
  BY DEF PipeIInv, PipeTypeOK, Park, ends, Own
<1>2. QueuesExact'
  BY QueuesPark DEF PipeIInv
<1>3. ParkingJustified' /\ ClosedEndUnused' /\ WantPositive'
  BY SMT, Z3T(40), <1>1 DEF PipeIInv, ParkingJustified, ClosedEndUnused, WantPositive, IsEmpty
<1>4. NoStrandedReader'
  BY <1>1 DEF PipeIInv, ParkingJustified, NoStrandedReader, IsEmpty, OneReaderUp, Threads
<1>5. EmptyPassedOn'
  <2>1. \A r \in Readers : pc[r] \in {"notify", "dropping", "gone"} => pc'[r] = pc[r]
    BY <1>1 DEF Threads
  <2>2. \A w \in Writers : pc[w] = "woken" => pc'[w] = pc[w]
    BY <1>1 DEF Threads
  <2>3. CASE t \in Writers
    BY <1>1, <2>3 DEF PipeIInv, ParkingJustified, EmptyPassedOn, IsEmpty
  <2>4. CASE t \notin Writers
    <3>1. \A w \in Writers : pc'[w] = pc[w]
      BY <1>1, <2>4 DEF Threads
    <3> QED
      BY <1>1, <2>1, <2>2, <3>1 DEF PipeIInv, EmptyPassedOn, IsEmpty
  <2> QED
    BY <2>3, <2>4
<1> QED
  BY <1>2, <1>3, <1>4, <1>5 DEF PipeIInv

LEMMA QueuesNotifyOne ==
    ASSUME PipeTypeOK, QueuesExact, NEW t \in Threads, NotifyOne(t), PipeTypeOK'
    PROVE  QueuesExact'
<1> DEFINE c == Other(t)
           q == waiters[c]
<1>1. /\ pc \in [Threads -> PcStates] /\ pc' \in [Threads -> PcStates]
      /\ waiters \in [{"read_wait", "write_wait"} -> Seq(Threads)]
      /\ UNCHANGED <<ring, read_closed, write_closed, want, panicked>>
      /\ pc[t] = "notify" /\ c \in {"read_wait", "write_wait"} /\ q \in Seq(Threads)
  BY DEF PipeTypeOK, NotifyOne, ends, Other
<1>2. CASE q = <<>>
  <2>1. waiters' = waiters /\ pc' = [pc EXCEPT ![t] = "idle"]
    BY <1>1, <1>2 DEF NotifyOne, WakeOne
  <2>2. \A u \in Threads \ {t} : pc'[u] = pc[u]
    BY <1>1, <2>1
  <2>3. pc[t] # "parked" /\ pc'[t] # "parked"
    BY <1>1, <2>1
  <2>4. QueuesExact'
    BY <2>1, <2>2, <2>3, SameQueues
  <2> QED
    BY <2>4
<1>3. CASE q # <<>>
  <2> DEFINE h == q[1]
  <2>1. Len(q) > 0 /\ h \in Threads /\ Head(q) = h
    BY SMT, Z3T(40), <1>1, <1>3
  <2>2. pc[h] = "parked" /\ Own(h) = c /\ h # t
    BY SMT, Z3T(40), <1>1, <2>1 DEF QueuesExact
  <2>3. /\ pc' = [[pc EXCEPT ![h] = "woken"] EXCEPT ![t] = "idle"]
        /\ waiters' = [waiters EXCEPT ![c] = Tail(q)]
    BY <1>1, <1>3, <2>1 DEF NotifyOne, WakeOne
  <2>4. pc'[h] = "woken" /\ pc'[t] = "idle" /\ \A u \in Threads \ {h, t} : pc'[u] = pc[u]
    BY <1>1, <2>1, <2>2, <2>3
  <2>5. /\ Len(Tail(q)) = Len(q) - 1 /\ Len(q) \in Nat
        /\ \A i \in 1 .. Len(Tail(q)) : Tail(q)[i] = q[i + 1] /\ i + 1 \in 1 .. Len(q)
    BY SMT, Z3T(40), <1>1, <2>1
  <2>6. /\ waiters'[c] = Tail(q)
        /\ \A d \in {"read_wait", "write_wait"} \ {c} : waiters'[d] = waiters[d]
    BY <1>1, <2>3
  <2>7. \A i \in 1 .. Len(q) : /\ q[i] \in Threads /\ Own(q[i]) = c /\ pc[q[i]] = "parked"
                               /\ \A j \in 1 .. Len(q) : q[i] = q[j] => i = j
    BY SMT, Z3T(40), <1>1 DEF QueuesExact
  <2>8. QueuesExact'
    <3>1. ASSUME NEW d \in {"read_wait", "write_wait"}, NEW i \in 1 .. Len(waiters'[d])
          PROVE  /\ Own(waiters'[d][i]) = d
                 /\ pc'[waiters'[d][i]] = "parked"
                 /\ \A j \in 1 .. Len(waiters'[d]) : waiters'[d][i] = waiters'[d][j] => i = j
      <4>1. CASE d = c
        <5>1. i \in 1 .. Len(Tail(q)) /\ waiters'[d] = Tail(q)
          BY <2>6, <3>1, <4>1
        <5>2. /\ i + 1 \in 1 .. Len(q) /\ Tail(q)[i] = q[i + 1]
              /\ i + 1 # 1 /\ 1 \in 1 .. Len(q)
          BY SMT, Z3T(40), <2>1, <2>5, <5>1
        <5>3. q[i + 1] # h /\ q[i + 1] # t
          BY <1>1, <2>7, <5>2
        <5>4. Own(q[i + 1]) = c /\ pc'[q[i + 1]] = "parked"
          BY <2>4, <2>7, <5>2, <5>3
        <5>5. ASSUME NEW j \in 1 .. Len(Tail(q)), Tail(q)[i] = Tail(q)[j] PROVE i = j
          <6>1. q[i + 1] = q[j + 1] /\ j + 1 \in 1 .. Len(q)
            BY <2>5, <5>2, <5>5
          <6>2. i + 1 = j + 1
            BY <2>7, <5>2, <6>1
          <6> QED
            BY SMT, Z3T(40), <2>5, <5>1, <5>5, <6>2
        <5> QED
          BY <4>1, <5>1, <5>2, <5>4, <5>5
      <4>2. CASE d # c
        <5>1. /\ waiters'[d] = waiters[d] /\ waiters[d][i] \in Threads
              /\ Own(waiters[d][i]) = d /\ pc[waiters[d][i]] = "parked"
              /\ \A j \in 1 .. Len(waiters[d]) : waiters[d][i] = waiters[d][j] => i = j
          BY SMT, Z3T(40), <1>1, <2>6, <3>1, <4>2 DEF QueuesExact
        <5>2. waiters[d][i] # h /\ waiters[d][i] # t
          BY <1>1, <2>2, <4>2, <5>1
        <5> QED
          BY <2>4, <5>1, <5>2
      <4> QED
        BY <4>1, <4>2
    <3>2. ASSUME NEW u \in Threads, pc'[u] = "parked"
          PROVE  \E i \in 1 .. Len(waiters'[Own(u)]) : waiters'[Own(u)][i] = u
      <4>1. u # h /\ u # t /\ pc[u] = "parked"
        BY <2>4, <3>2
      <4>2. PICK i \in 1 .. Len(waiters[Own(u)]) : waiters[Own(u)][i] = u
        BY <4>1 DEF QueuesExact
      <4>3. CASE Own(u) = c
        <5>1. i # 1 /\ i - 1 \in 1 .. Len(Tail(q)) /\ Tail(q)[i - 1] = u
          BY SMT, Z3T(40), <2>5, <4>1, <4>2, <4>3
        <5> QED
          BY <2>6, <4>3, <5>1
      <4>4. CASE Own(u) # c
        BY <2>6, <4>2, <4>4 DEF Own
      <4> QED
        BY <4>3, <4>4
    <3> QED
      BY <3>1, <3>2 DEF QueuesExact, Own
  <2> QED
    BY <2>8
<1> QED
  BY <1>2, <1>3

(* Condvar::notify_one: the head of the queue is woken, nobody else moves. *)
LEMMA IInvNotifyOne ==
    ASSUME OneReaderUp, PipeIInv, NEW t \in Threads, NotifyOne(t), PipeTypeOK'
    PROVE  PipeIInv'
<1> DEFINE c == Other(t)
           q == waiters[c]
<1>1. /\ pc \in [Threads -> PcStates] /\ pc' \in [Threads -> PcStates]
      /\ waiters \in [{"read_wait", "write_wait"} -> Seq(Threads)]
      /\ UNCHANGED <<ring, read_closed, write_closed, want, panicked>>
      /\ pc[t] = "notify" /\ c \in {"read_wait", "write_wait"} /\ q \in Seq(Threads)
  BY DEF PipeIInv, PipeTypeOK, NotifyOne, ends, Other
<1>2. CASE q = <<>>
  <2>1. waiters' = waiters /\ pc' = [pc EXCEPT ![t] = "idle"]
    BY <1>1, <1>2 DEF NotifyOne, WakeOne
  <2>2. \A u \in Threads \ {t} : pc'[u] = pc[u]
    BY <1>1, <2>1
  <2>3. pc[t] # "parked" /\ pc'[t] # "parked"
    BY <1>1, <2>1
  <2>4. QueuesExact'
    BY QueuesNotifyOne DEF PipeIInv
  <2>5. ParkingJustified' /\ ClosedEndUnused' /\ WantPositive'
    BY SMT, Z3T(40), <1>1, <2>1, <2>2 DEF PipeIInv, ParkingJustified, ClosedEndUnused, WantPositive, IsEmpty
  <2>6. \A u \in Threads : pc[u] = "parked" => Own(u) # c
    BY SMT, Z3T(40), <1>1, <1>2 DEF PipeIInv, QueuesExact
  <2>7. NoStrandedReader'
    BY <1>1, <2>1, <2>2, <2>6, PipeAssumption
    DEF PipeIInv, NoStrandedReader, IsEmpty, Own, Other, Threads
  <2>8. EmptyPassedOn'
    BY <1>1, <2>1, <2>2, <2>6, PipeAssumption
    DEF PipeIInv, EmptyPassedOn, IsEmpty, Own, Other, Threads
  <2> QED
    BY <2>4, <2>5, <2>7, <2>8 DEF PipeIInv
<1>3. CASE q # <<>>
  <2> DEFINE h == q[1]
  <2>1. Len(q) > 0 /\ h \in Threads /\ Head(q) = h
    BY SMT, Z3T(40), <1>1, <1>3
  <2>2. pc[h] = "parked" /\ Own(h) = c /\ h # t
    BY SMT, Z3T(40), <1>1, <2>1 DEF PipeIInv, QueuesExact
  <2>3. /\ pc' = [[pc EXCEPT ![h] = "woken"] EXCEPT ![t] = "idle"]
        /\ waiters' = [waiters EXCEPT ![c] = Tail(q)]
    BY <1>1, <1>3, <2>1 DEF NotifyOne, WakeOne
  <2>4. pc'[h] = "woken" /\ pc'[t] = "idle" /\ \A u \in Threads \ {h, t} : pc'[u] = pc[u]
    BY <1>1, <2>1, <2>2, <2>3
  <2>8. QueuesExact'
    BY QueuesNotifyOne DEF PipeIInv
  <2> HIDE DEF h, c
  <2>9. ParkingJustified' /\ ClosedEndUnused'
    <3>1. ParkingJustified'
      BY <1>1, <2>1, <2>2, <2>4 DEF PipeIInv, ParkingJustified, IsEmpty
    <3>2. \A u \in Threads : /\ pc'[u] \in {"dropping", "gone"} => pc'[u] = pc[u]
                             /\ pc[u] \in {"dropping", "gone"} => pc'[u] = pc[u]
      BY <1>1, <2>1, <2>2, <2>4
    <3>3. ClosedEndUnused'
      BY <1>1, <3>2 DEF PipeIInv, ClosedEndUnused, Threads
    <3> QED
      BY <3>1, <3>3
  <2>10. WantPositive'
    BY <1>1, <2>1, <2>2, <2>4 DEF PipeIInv, WantPositive
  <2>11. NoStrandedReader'
    <3>1. CASE t \in Writers
      <4>1. h \in Readers
        BY <2>1, <2>2, <3>1, PipeAssumption DEF Own, Other, c, Threads
      <4> QED
        BY <2>4, <4>1 DEF NoStrandedReader, OneReaderUp
    <3>2. CASE t \notin Writers
      <4>1. \A w \in Writers : pc[w] \in {"notify", "dropping"} => pc'[w] = pc[w]
        BY <2>2, <2>4, <3>2 DEF Threads
      <4>2. \A r \in Readers : pc'[r] = "parked" => pc[r] = "parked"
        BY <2>4 DEF Threads
      <4> QED
        BY <1>1, <4>1, <4>2 DEF PipeIInv, NoStrandedReader, IsEmpty
    <3> QED
      BY <3>1, <3>2
  <2>12. EmptyPassedOn'
    <3>1. CASE h \in Writers
      BY <2>4, <3>1 DEF EmptyPassedOn
    <3>2. CASE h \notin Writers
      <4>1. t \notin Readers
        BY <2>1, <2>2, <3>2, PipeAssumption DEF Own, Other, c, Threads
      <4>2. \A r \in Readers : pc[r] \in {"notify", "dropping", "gone"} => pc'[r] = pc[r]
        BY <2>2, <2>4, <4>1 DEF Threads
      <4>3. \A w \in Writers : /\ pc'[w] = "parked" => pc[w] = "parked"
                               /\ pc[w] = "woken" => pc'[w] = "woken"
        BY <1>1, <2>2, <2>4 DEF Threads
      <4> QED
        BY <1>1, <4>2, <4>3 DEF PipeIInv, EmptyPassedOn, IsEmpty
    <3> QED
      BY <3>1, <3>2
  <2> QED
    BY <2>8, <2>9, <2>10, <2>11, <2>12 DEF PipeIInv
<1> QED
  BY <1>2, <1>3

LEMMA QueuesNotifyAll ==
    ASSUME PipeTypeOK, QueuesExact, NEW t \in Threads, NotifyAll(t)
    PROVE  QueuesExact'
<1> DEFINE c == Other(t)
<1>1. /\ pc \in [Threads -> PcStates]
      /\ waiters \in [{"read_wait", "write_wait"} -> Seq(Threads)]
      /\ UNCHANGED <<ring, read_closed, write_closed, want, panicked>>
      /\ pc[t] = "dropping" /\ c \in {"read_wait", "write_wait"}
      /\ pc' = [WakeAll(c) EXCEPT ![t] = "gone"]
      /\ waiters' = [waiters EXCEPT ![c] = <<>>]
  BY DEF PipeTypeOK, NotifyAll, ends, Other
<1>2. \A u \in Threads : (\E i \in 1 .. Len(waiters[c]) : waiters[c][i] = u)
                            <=> pc[u] = "parked" /\ Own(u) = c
  BY SMT, Z3T(40), <1>1 DEF QueuesExact
<1>3. /\ pc'[t] = "gone"
      /\ \A u \in Threads \ {t} :
            pc'[u] = IF pc[u] = "parked" /\ Own(u) = c THEN "woken" ELSE pc[u]
  <2>1. WakeAll(c) = [u \in Threads |->
                         IF pc[u] = "parked" /\ Own(u) = c THEN "woken" ELSE pc[u]]
    BY <1>2 DEF WakeAll
  <2> HIDE DEF c
  <2> QED
    BY <1>1, <2>1
<1>4. /\ waiters'[c] = <<>>
      /\ \A d \in {"read_wait", "write_wait"} \ {c} : waiters'[d] = waiters[d]
  BY <1>1
<1>5. QueuesExact'
  <2>1. ASSUME NEW d \in {"read_wait", "write_wait"}, NEW i \in 1 .. Len(waiters'[d])
        PROVE  /\ Own(waiters'[d][i]) = d
               /\ pc'[waiters'[d][i]] = "parked"
               /\ \A j \in 1 .. Len(waiters'[d]) : waiters'[d][i] = waiters'[d][j] => i = j
    <3>1. d # c
      BY SMT, Z3T(40), <1>4, <2>1
    <3>2. /\ waiters'[d] = waiters[d] /\ waiters[d][i] \in Threads
          /\ Own(waiters[d][i]) = d /\ pc[waiters[d][i]] = "parked"
          /\ \A j \in 1 .. Len(waiters[d]) : waiters[d][i] = waiters[d][j] => i = j
      BY SMT, Z3T(40), <1>1, <1>4, <2>1, <3>1 DEF QueuesExact
    <3>3. waiters[d][i] # t
      BY <1>1, <3>2
    <3> QED
      BY <1>3, <3>1, <3>2, <3>3
  <2>2. ASSUME NEW u \in Threads, pc'[u] = "parked"
        PROVE  \E i \in 1 .. Len(waiters'[Own(u)]) : waiters'[Own(u)][i] = u
    <3>1. pc[u] = "parked" /\ Own(u) # c
      BY <1>3, <2>2
    <3> QED
      BY SMT, Z3T(40), <1>4, <3>1 DEF QueuesExact, Own
  <2> QED
    BY <2>1, <2>2 DEF QueuesExact, Own
<1> QED
  BY <1>5

(* Condvar::notify_all, on dropping an end: the other side's queue empties. *)
LEMMA IInvNotifyAll ==
    ASSUME OneReaderUp, PipeIInv, NEW t \in Threads, NotifyAll(t), PipeTypeOK'
    PROVE  PipeIInv'
<1> DEFINE c == Other(t)
<1>1. /\ pc \in [Threads -> PcStates]
      /\ waiters \in [{"read_wait", "write_wait"} -> Seq(Threads)]
      /\ UNCHANGED <<ring, read_closed, write_closed, want, panicked>>
      /\ pc[t] = "dropping" /\ c \in {"read_wait", "write_wait"}
      /\ pc' = [WakeAll(c) EXCEPT ![t] = "gone"]
      /\ waiters' = [waiters EXCEPT ![c] = <<>>]
  BY DEF PipeIInv, PipeTypeOK, NotifyAll, ends, Other
<1>2. \A u \in Threads : (\E i \in 1 .. Len(waiters[c]) : waiters[c][i] = u)
                            <=> pc[u] = "parked" /\ Own(u) = c
  BY SMT, Z3T(40), <1>1 DEF PipeIInv, QueuesExact
<1>3. /\ pc'[t] = "gone"
      /\ \A u \in Threads \ {t} :
            pc'[u] = IF pc[u] = "parked" /\ Own(u) = c THEN "woken" ELSE pc[u]
  <2>1. WakeAll(c) = [u \in Threads |->
                         IF pc[u] = "parked" /\ Own(u) = c THEN "woken" ELSE pc[u]]
    BY <1>2 DEF WakeAll
  <2> HIDE DEF c
  <2> QED
    BY <1>1, <2>1
<1>5. QueuesExact'
  BY QueuesNotifyAll DEF PipeIInv
<1>6. ParkingJustified' /\ WantPositive'
  BY SMT, Z3T(40), <1>1, <1>3 DEF PipeIInv, ParkingJustified, WantPositive, IsEmpty
<1>7. ClosedEndUnused'
  <2>1. \A u \in Threads : /\ pc'[u] \in {"dropping", "gone"} => pc[u] \in {"dropping", "gone"}
                           /\ pc[u] \in {"dropping", "gone"} => pc'[u] \in {"dropping", "gone"}
    BY SMT, Z3T(40), <1>1, <1>3
  <2> QED
    BY <1>1, <2>1 DEF PipeIInv, ClosedEndUnused, Threads
<1>8. NoStrandedReader'
  <2>1. CASE t \in Writers
    <3>1. \A r \in Readers : Own(r) = c /\ r # t /\ r \in Threads
      BY <2>1, PipeAssumption DEF Own, Other, Threads
    <3>2. \A r \in Readers : pc'[r] # "parked"
      BY <1>3, <3>1
    <3> QED
      BY <3>2 DEF NoStrandedReader
  <2>2. CASE t \notin Writers
    <3>1. \A w \in Writers : pc[w] \in {"notify", "dropping"} => pc'[w] = pc[w]
      BY <1>3, <2>2 DEF Threads
    <3>2. \A r \in Readers : pc'[r] = "parked" => pc[r] = "parked"
      BY <1>3 DEF Threads
    <3> QED
      BY <1>1, <3>1, <3>2 DEF PipeIInv, NoStrandedReader, IsEmpty
  <2> QED
    BY <2>1, <2>2
<1>9. EmptyPassedOn'
  <2>1. \A r \in Readers : pc[r] \in {"notify", "dropping", "gone"}
                              => pc'[r] \in {"notify", "dropping", "gone"}
    BY <1>3 DEF Threads
  <2>2. \A w \in Writers : /\ pc'[w] = "parked" => pc[w] = "parked"
                           /\ pc[w] = "woken" => pc'[w] = "woken"
    BY <1>1, <1>3 DEF Threads
  <2> QED
    BY <1>1, <2>1, <2>2 DEF PipeIInv, EmptyPassedOn, IsEmpty
<1> QED
  BY <1>5, <1>6, <1>7, <1>8, <1>9 DEF PipeIInv

(* Dropping an end: its users were all idle, so nobody who owed a notify is *)
(* lost.                                                                   *)
LEMMA IInvDropEnd ==
    ASSUME OneReaderUp, PipeIInv, NEW t \in Threads, DropEnd(t), PipeTypeOK'
    PROVE  PipeIInv'
<1>1. /\ pc \in [Threads -> PcStates]
      /\ UNCHANGED <<ring, waiters, want, panicked>>
      /\ \A u \in Threads : Own(u) = Own(t) => pc[u] = "idle"
      /\ pc' = [u \in Threads |-> IF u = t THEN "dropping"
                                  ELSE IF Own(u) = Own(t) THEN "gone" ELSE pc[u]]
      /\ \A u \in Threads \ {t} : pc[u] # "parking"
  BY DEF PipeIInv, PipeTypeOK, DropEnd, OnCpu, OneReaderUp
<1>2. \A u \in Threads : pc[u] # "idle" => pc'[u] = pc[u]
  BY <1>1
<1>3. \A u \in Threads : pc'[u] \notin {"dropping", "gone"} => pc'[u] = pc[u]
  BY <1>1
<1>4. QueuesExact'
  BY <1>1, <1>2, <1>3, SameQueues DEF PipeIInv
<1>5. ParkingJustified' /\ WantPositive'
  BY <1>1, <1>3 DEF PipeIInv, ParkingJustified, WantPositive
<1>6. ClosedEndUnused'
  BY <1>1, PipeAssumption DEF PipeIInv, ClosedEndUnused, DropEnd, Own, Threads
<1>7. NoStrandedReader'
  <2>1. CASE t \in Writers
    BY <1>1, <2>1 DEF NoStrandedReader
  <2>2. CASE t \notin Writers
    <3>1. write_closed' = write_closed
      BY <2>2 DEF DropEnd, Threads
    <3> QED
      BY <1>1, <1>2, <1>3, <3>1 DEF PipeIInv, NoStrandedReader, IsEmpty, Threads
  <2> QED
    BY <2>1, <2>2
<1>8. EmptyPassedOn'
  <2>1. \A w \in Writers : pc'[w] = "parked" => pc[w] = "parked"
    BY <1>3 DEF Threads
  <2>2. \A u \in Readers \cup Writers : pc[u] # "idle" => pc'[u] = pc[u]
    BY <1>2 DEF Threads
  <2> QED
    BY <1>1, <2>1, <2>2 DEF PipeIInv, EmptyPassedOn, IsEmpty
<1> QED
  BY <1>4, <1>5, <1>6, <1>7, <1>8 DEF PipeIInv

(* fcntl on either end moves no thread and keeps the number of bytes. *)
LEMMA IInvFcntl ==
    ASSUME PipeIInv, PipeTypeOK',
           UNCHANGED <<waiters, pc, want, read_closed, write_closed, panicked>>,
           ring'.byte_count = ring.byte_count
    PROVE  PipeIInv'
<1>1. QueuesExact' /\ ClosedEndUnused' /\ WantPositive'
  BY SameQueues DEF PipeIInv, ClosedEndUnused, WantPositive
<1>2. ParkingJustified' /\ NoStrandedReader' /\ EmptyPassedOn'
  BY DEF PipeIInv, ParkingJustified, NoStrandedReader, EmptyPassedOn, IsEmpty
<1> QED
  BY <1>1, <1>2 DEF PipeIInv

(* Every step preserves the strengthened invariant. *)
LEMMA IInvNext == ASSUME OneReaderUp PROVE PipeIInv /\ [PipeNext]_vars => PipeIInv'
<1> SUFFICES ASSUME PipeIInv, [PipeNext]_vars PROVE PipeIInv'
  OBVIOUS
<1>0. PipeTypeOK /\ PipeTypeOK'
  BY TypeNext DEF PipeIInv
<1>1. CASE UNCHANGED vars
  BY <1>0, <1>1, IInvFcntl DEF vars
<1>2. ASSUME NEW t \in Readers, NEW n \in 1 .. MaxChunk, Read(t, n) PROVE PipeIInv'
  BY <1>1, <1>2, IInvRead DEF Read
<1>3. ASSUME NEW t \in Writers, NEW n \in 1 .. MaxChunk, Write(t, n) PROVE PipeIInv'
  BY <1>1, <1>3, IInvWrite DEF Write
<1>4. ASSUME NEW t \in Threads, Relock(t) PROVE PipeIInv'
  <2>1. want[t] \in 1 .. MaxChunk /\ pc[t] = "woken" /\ OnCpu(t)
    <3>1. want[t] \in 0 .. MaxChunk /\ want[t] > 0
      BY <1>4 DEF Relock, PipeIInv, WantPositive, PipeTypeOK
    <3> QED
      BY SMT, Z3T(40), <1>4, <3>1, PipeAssumption DEF Relock
  <2> QED
    BY <1>4, <2>1, IInvRead, IInvWrite DEF Relock, Threads
<1>5. ASSUME NEW t \in Threads, ThreadStep(t) \/ DropEnd(t) PROVE PipeIInv'
  BY <1>0, <1>4, <1>5, IInvPark, IInvNotifyOne, IInvNotifyAll, IInvDropEnd DEF ThreadStep
<1>6. ASSUME NEW c \in Capacities, SetCapacity(c) PROVE PipeIInv'
  <2>1. RingOK(ring) /\ c \in Nat \ {0} /\ CanResize(ring, c)
    BY <1>0, <1>6, PipeAssumption DEF PipeTypeOK, RingOK, SetCapacity
  <2>2. ring'.byte_count = ring.byte_count
    BY <1>6, <2>1, ResizeOK DEF SetCapacity
  <2> QED
    BY <1>0, <1>6, <2>2, IInvFcntl DEF SetCapacity, ends
<1>7. ASSUME NEW e \in {"read", "write"}, SetNonblocking(e) PROVE PipeIInv'
  BY <1>0, <1>7, IInvFcntl DEF SetNonblocking
<1> QED
  BY <1>1, <1>2, <1>3, <1>5, <1>6, <1>7 DEF PipeNext

(* With one reader and any number of writers on a uniprocessor, the reader  *)
(* never sleeps through bytes or an EOF: Condvar::wait cannot miss the      *)
(* notify of PipeWriteEnd::write or of the write end's drop.                *)
THEOREM ReaderNeverStranded ==
    ASSUME OneReaderUp
    PROVE  PipeSpec => []NoStrandedReader
<1>1. PipeInit => PipeIInv
  BY IInvInit
<1>2. PipeIInv /\ [PipeNext]_vars => PipeIInv'
  BY IInvNext
<1>3. PipeIInv => NoStrandedReader
  BY DEF PipeIInv
<1> QED
  BY <1>1, <1>2, <1>3, PTL DEF PipeSpec

(* Under the same assumptions a parked reader and a parked writer are never *)
(* all that is left: one of them is being notified, whatever the chunk      *)
(* sizes and however often F_SETPIPE_SZ changes the capacity.               *)
THEOREM NeverMutuallyParked ==
    ASSUME OneReaderUp
    PROVE  PipeSpec => [](panicked \/ NoMutualPark)
<1>1. PipeInit => PipeIInv
  BY IInvInit
<1>2. PipeIInv /\ [PipeNext]_vars => PipeIInv'
  BY IInvNext
<1>3. PipeIInv => (panicked \/ NoMutualPark)
  <2> SUFFICES ASSUME PipeIInv, ~panicked,
                      NEW r \in Readers, pc[r] = "parked",
                      NEW w \in Writers, pc[w] = "parked",
                      \A t \in Threads : pc[t] \in {"idle", "parked", "gone"}
               PROVE  FALSE
    BY DEF NoMutualPark
  <2>1. IsEmpty(ring)
    BY DEF PipeIInv, NoStrandedReader, Threads
  <2>2. \A x \in Readers : x = r
    BY DEF OneReaderUp
  <2> QED
    BY <2>1, <2>2 DEF PipeIInv, EmptyPassedOn, Threads
<1> QED
  BY <1>1, <1>2, <1>3, PTL DEF PipeSpec

-----------------------------------------------------------------------------
(* The ring is a byte stream.  An index runs at most once round the buffer. *)
Wrapped(x, c) == IF x < c THEN x ELSE x - c

LEMMA WrapIndex ==
    ASSUME NEW x \in Nat, NEW c \in Nat \ {0}, x < 2 * c
    PROVE  x % c = Wrapped(x, c)
BY SMT, Z3T(40) DEF Wrapped

(* The write position is where the unread bytes end.  A resize to a full      *)
(* ring leaves it one past the buffer.                                      *)
RingEnds(r) == Wrapped(r.write_pos, r.cap) = Wrapped(r.read_pos + r.byte_count, r.cap)

LEMMA ContentsAt ==
    ASSUME NEW r, RingOK(r)
    PROVE  /\ Contents(r) \in Seq(Slots(Modulus))
           /\ Len(Contents(r)) = r.byte_count
           /\ \A i \in 1 .. r.byte_count :
                 Contents(r)[i] = r.buf[Wrapped(r.read_pos + i - 1, r.cap)]
<1>1. ASSUME NEW i \in 1 .. r.byte_count
      PROVE  (r.read_pos + i - 1) % r.cap = Wrapped(r.read_pos + i - 1, r.cap)
  <2> DEFINE x == r.read_pos + i - 1
  <2>1. x \in Nat /\ x < 2 * r.cap /\ r.cap \in Nat \ {0}
    BY SMTT(40), Z3T(40) DEF RingOK, Slots
  <2> HIDE DEF x
  <2>2. x % r.cap = Wrapped(x, r.cap)
    BY <2>1, WrapIndex
  <2> QED
    BY <2>2 DEF x
<1> QED
  BY <1>1, ContentsType DEF Contents

(* read_from takes the oldest bytes out. *)
LEMMA ReadTakes ==
    ASSUME NEW r, RingOK(r), NEW n \in Nat, RingEnds(r)
    PROVE  /\ Contents(ReadFrom(r, n)) =
                  SubSeq(Contents(r), RingMin(n, r.byte_count) + 1, Len(Contents(r)))
           /\ RingEnds(ReadFrom(r, n))
<1> DEFINE k == RingMin(n, r.byte_count)
           q == ReadFrom(r, n)
           t == SubSeq(Contents(r), k + 1, Len(Contents(r)))
<1>1. k \in Nat /\ k <= r.byte_count
  BY SMT, Z3T(40) DEF RingOK, RingMin
<1>2. /\ r.cap \in Nat \ {0} /\ r.read_pos \in Nat /\ r.read_pos < r.cap
      /\ r.byte_count \in Nat /\ r.byte_count <= r.cap
      /\ r.write_pos \in Nat /\ r.write_pos <= r.cap
  BY SMT, Z3T(40) DEF RingOK, Slots
<1>3. RingOK(q)
  BY ReadFromOK
<1>4. (r.read_pos + k) % r.cap = Wrapped(r.read_pos + k, r.cap)
  <2> HIDE DEF k
  <2>1. r.read_pos + k \in Nat /\ r.read_pos + k < 2 * r.cap
    BY SMT, Z3T(40), <1>1, <1>2
  <2> QED
    BY <1>2, <2>1, WrapIndex
<1>5. /\ q.buf = r.buf /\ q.cap = r.cap /\ q.read_pos = Wrapped(r.read_pos + k, r.cap)
      /\ q.byte_count = r.byte_count - k /\ q.write_pos = r.write_pos
  BY <1>4 DEF ReadFrom
<1> HIDE DEF k, q
<1>6. /\ Contents(r) \in Seq(Slots(Modulus)) /\ Len(Contents(r)) = r.byte_count
      /\ \A i \in 1 .. r.byte_count : Contents(r)[i] = r.buf[Wrapped(r.read_pos + i - 1, r.cap)]
  BY ContentsAt
<1>7. /\ Contents(q) \in Seq(Slots(Modulus)) /\ Len(Contents(q)) = r.byte_count - k
      /\ \A i \in 1 .. r.byte_count - k :
            Contents(q)[i] = r.buf[Wrapped(Wrapped(r.read_pos + k, r.cap) + i - 1, r.cap)]
  BY <1>3, <1>5, ContentsAt
<1>8. /\ t \in Seq(Slots(Modulus)) /\ Len(t) = r.byte_count - k
      /\ \A i \in 1 .. r.byte_count - k : t[i] = Contents(r)[k + i]
  BY SMT, Z3T(40), <1>1, <1>2, <1>6
<1>9. ASSUME NEW i \in 1 .. r.byte_count - k PROVE Contents(q)[i] = t[i]
  <2>1. Wrapped(Wrapped(r.read_pos + k, r.cap) + i - 1, r.cap)
          = Wrapped(r.read_pos + (k + i) - 1, r.cap)
    BY SMT, Z3T(40), <1>1, <1>2 DEF Wrapped
  <2>2. k + i \in 1 .. r.byte_count
    BY SMT, Z3T(40), <1>1, <1>2
  <2>3. Contents(r)[k + i] = r.buf[Wrapped(r.read_pos + (k + i) - 1, r.cap)]
    BY <1>6, <2>2
  <2> QED
    BY <1>7, <1>8, <2>1, <2>3
<1>10. Contents(q) = t
  BY <1>7, <1>8, <1>9, SameBytes
<1>11. RingEnds(q)
  BY SMT, Z3T(40), <1>1, <1>2, <1>5 DEF RingEnds, Wrapped
<1> QED
  BY <1>10, <1>11 DEF k, q

(* write_to appends what fits. *)
LEMMA WriteAppends ==
    ASSUME NEW r, RingOK(r), NEW s \in Seq(Slots(Modulus)), RingEnds(r), ~WritePanics(r, Len(s))
    PROVE  /\ Contents(WriteTo(r, s)) =
                  Contents(r) \o SubSeq(s, 1, RingMin(Len(s), Remaining(r)))
           /\ RingEnds(WriteTo(r, s))
<1> DEFINE k == RingMin(Len(s), Remaining(r))
           q == WriteTo(r, s)
           Stored(i) == (i - r.write_pos + r.cap) % r.cap
           a == SubSeq(s, 1, k)
           t == Contents(r) \o a
<1>1. /\ r.cap \in Nat \ {0} /\ r.read_pos \in Nat /\ r.read_pos < r.cap
      /\ r.byte_count \in Nat /\ r.byte_count <= r.cap
      /\ r.write_pos \in Nat /\ r.write_pos <= r.cap
  BY SMT, Z3T(40) DEF RingOK, Slots
<1>2. k \in Nat /\ k <= r.cap - r.byte_count /\ k <= Len(s) /\ Len(s) \in Nat
  BY SMT, Z3T(40), <1>1 DEF Remaining, RingMin
<1>3. k > 0 => r.write_pos < r.cap
  BY SMT, Z3T(40), <1>1 DEF WritePanics
<1>4. RingOK(q)
  BY WriteToOK
<1>5. (r.write_pos + k) % r.cap = Wrapped(r.write_pos + k, r.cap)
  <2> HIDE DEF k
  <2>1. r.write_pos + k \in Nat /\ r.write_pos + k < 2 * r.cap
    BY SMT, Z3T(40), <1>1, <1>2, <1>3
  <2> QED
    BY <1>1, <2>1, WrapIndex
<1>6. /\ q.cap = r.cap /\ q.read_pos = r.read_pos /\ q.byte_count = r.byte_count + k
      /\ q.write_pos = Wrapped(r.write_pos + k, r.cap)
  BY <1>5 DEF WriteTo
<1>7. q.buf = [i \in Slots(r.cap) |-> IF Stored(i) < k THEN s[Stored(i) + 1] ELSE r.buf[i]]
  BY DEF WriteTo
<1> HIDE DEF k, q
<1>8. ASSUME NEW i \in Slots(r.cap), k > 0
      PROVE  Stored(i) = Wrapped(i - r.write_pos + r.cap, r.cap)
  <2> DEFINE x == i - r.write_pos + r.cap
  <2>1. x \in Nat /\ x < 2 * r.cap
    BY SMT, Z3T(40), <1>1, <1>3, <1>8 DEF Slots
  <2> HIDE DEF x
  <2>2. x % r.cap = Wrapped(x, r.cap)
    BY <1>1, <2>1, WrapIndex
  <2> QED
    BY <2>2 DEF x
<1>9. /\ Contents(r) \in Seq(Slots(Modulus)) /\ Len(Contents(r)) = r.byte_count
      /\ \A i \in 1 .. r.byte_count : Contents(r)[i] = r.buf[Wrapped(r.read_pos + i - 1, r.cap)]
  BY ContentsAt
<1>10. /\ Contents(q) \in Seq(Slots(Modulus)) /\ Len(Contents(q)) = r.byte_count + k
       /\ \A i \in 1 .. r.byte_count + k :
             Contents(q)[i] = q.buf[Wrapped(r.read_pos + i - 1, r.cap)]
  <2>1. /\ Contents(q) \in Seq(Slots(Modulus)) /\ Len(Contents(q)) = q.byte_count
        /\ \A i \in 1 .. q.byte_count : Contents(q)[i] = q.buf[Wrapped(q.read_pos + i - 1, q.cap)]
    BY <1>4, ContentsAt
  <2> QED
    BY <1>6, <2>1
<1>11. a \in Seq(Slots(Modulus)) /\ Len(a) = k /\ \A i \in 1 .. k : a[i] = s[i]
  BY SMT, Z3T(40), <1>2
<1> HIDE DEF a
<1>12. /\ t \in Seq(Slots(Modulus)) /\ Len(t) = r.byte_count + k
       /\ \A i \in 1 .. r.byte_count + k :
             t[i] = IF i <= r.byte_count THEN Contents(r)[i] ELSE a[i - r.byte_count]
  <2>1. PICK d \in Seq(Slots(Modulus)) : d = Contents(r)
    BY <1>9
  <2>2. /\ d \o a \in Seq(Slots(Modulus)) /\ Len(d \o a) = Len(d) + Len(a)
        /\ \A i \in 1 .. Len(d) + Len(a) :
              (d \o a)[i] = IF i <= Len(d) THEN d[i] ELSE a[i - Len(d)]
    BY <1>11, JoinedBytes
  <2> QED
    BY <1>9, <1>11, <2>1, <2>2
<1>13. ASSUME NEW i \in 1 .. r.byte_count + k PROVE Contents(q)[i] = t[i]
  <2> DEFINE p == Wrapped(r.read_pos + i - 1, r.cap)
             d == Wrapped(p - r.write_pos + r.cap, r.cap)
  <2>1. r.byte_count + k <= r.cap /\ Wrapped(r.write_pos, r.cap) = Wrapped(r.read_pos + r.byte_count, r.cap)
    BY SMT, Z3T(40), <1>1, <1>2 DEF RingEnds
  (* Seen from the write position, an unread byte lies behind the k free     *)
  (* slots the write fills, and the j-th byte written lies j - 1 slots on.   *)
  <2>2. /\ p \in Slots(r.cap)
        /\ r.write_pos < r.cap => d \in Nat
        /\ r.write_pos < r.cap /\ i <= r.byte_count => d >= k
        /\ r.write_pos < r.cap /\ ~(i <= r.byte_count) => d = i - r.byte_count - 1
    <3>1. p = Wrapped(r.read_pos + i - 1, r.cap) /\ d = Wrapped(p - r.write_pos + r.cap, r.cap)
      OBVIOUS
    <3> HIDE DEF p, d
    <3>2. PICK c \in Nat \ {0}, rp \in Nat, w \in Nat, b \in Nat :
             c = r.cap /\ rp = r.read_pos /\ w = r.write_pos /\ b = r.byte_count
      BY <1>1
    <3>3. /\ k \in Nat /\ rp < c /\ w <= c /\ b + k <= c /\ i \in 1 .. b + k
          /\ Wrapped(w, c) = Wrapped(rp + b, c)
          /\ p = Wrapped(rp + i - 1, c) /\ d = Wrapped(p - w + c, c)
      BY <1>1, <1>2, <2>1, <3>1, <3>2
    <3>4. /\ p \in Slots(c)
          /\ w < c => d \in Nat
          /\ w < c /\ i <= b => d >= k
          /\ w < c /\ ~(i <= b) => d = i - b - 1
      BY SMT, Z3T(40), <3>3 DEF Wrapped, Slots
    <3> QED
      BY <3>2, <3>4
  <2> HIDE DEF p, d
  <2>3. q.buf[p] = IF Stored(p) < k THEN s[Stored(p) + 1] ELSE r.buf[p]
    BY <1>7, <2>2
  <2>4. Contents(q)[i] = q.buf[p]
    BY <1>10 DEF p
  <2>5. CASE i <= r.byte_count
    <3>1. ~(Stored(p) < k)
      <4>1. CASE k = 0
        BY SMT, Z3T(40), <1>1, <2>2, <4>1 DEF Slots
      <4>2. CASE k > 0
        <5>1. Stored(p) = d
          BY <1>8, <2>2, <4>2 DEF d
        <5>2. ~(d < k)
          BY SMT, Z3T(40), <1>2, <1>3, <2>2, <2>5, <4>2
        <5> QED
          BY <5>1, <5>2
      <4> QED
        BY SMT, Z3T(40), <1>2, <4>1, <4>2
    <3>2. i \in 1 .. r.byte_count
      BY SMT, Z3T(40), <1>1, <1>2, <2>5
    <3>3. Contents(r)[i] = r.buf[p]
      BY <1>9, <3>2 DEF p
    <3>4. t[i] = Contents(r)[i]
      BY <1>12, <2>5
    <3> HIDE DEF t, Stored
    <3> QED
      BY <2>3, <2>4, <3>1, <3>3, <3>4
  <2>6. CASE ~(i <= r.byte_count)
    <3>1. PICK j \in 1 .. k : j = i - r.byte_count
      BY SMT, Z3T(40), <1>1, <1>2, <2>6
    <3>2. k > 0
      BY SMT, Z3T(40), <1>2, <3>1
    <3>3. Stored(p) = d
      BY <1>8, <2>2, <3>2 DEF d
    <3>4. d < k /\ d + 1 = j
      BY SMTT(40), Z3T(40), <1>1, <1>2, <1>3, <2>2, <2>6, <3>1, <3>2
    <3>5. t[i] = a[j]
      BY <1>12, <2>6, <3>1
    <3> HIDE DEF t, Stored
    <3> QED
      BY <1>11, <2>3, <2>4, <3>1, <3>3, <3>4, <3>5
  <2> QED
    BY <2>5, <2>6
<1>14. Contents(q) = t
  <2> HIDE DEF t
  <2> QED
    BY <1>10, <1>12, <1>13, SameBytes
<1>15. RingEnds(q)
  <2>1. r.byte_count + k <= r.cap /\ Wrapped(r.write_pos, r.cap) = Wrapped(r.read_pos + r.byte_count, r.cap)
    BY SMT, Z3T(40), <1>1, <1>2 DEF RingEnds
  <2>2. Wrapped(Wrapped(r.write_pos + k, r.cap), r.cap)
          = Wrapped(r.read_pos + (r.byte_count + k), r.cap)
    <3>1. PICK c \in Nat \ {0}, rp \in Nat, w \in Nat, b \in Nat :
             c = r.cap /\ rp = r.read_pos /\ w = r.write_pos /\ b = r.byte_count
      BY <1>1
    <3>2. /\ k \in Nat /\ rp < c /\ w <= c /\ b + k <= c /\ (k > 0 => w < c)
          /\ Wrapped(w, c) = Wrapped(rp + b, c)
      BY <1>1, <1>2, <1>3, <2>1, <3>1
    <3>3. Wrapped(Wrapped(w + k, c), c) = Wrapped(rp + (b + k), c)
      BY SMT, Z3T(40), <3>2 DEF Wrapped
    <3> QED
      BY <3>1, <3>3
  <2> QED
    BY <1>6, <2>2 DEF RingEnds
<1> QED
  BY <1>14, <1>15 DEF k, q, a

(* resize keeps the unread bytes. *)
LEMMA ResizeKeeps ==
    ASSUME NEW r, RingOK(r), NEW c \in Nat \ {0}, CanResize(r, c)
    PROVE  Contents(Resize(r, c)) = Contents(r) /\ RingEnds(Resize(r, c))
<1> DEFINE q == Resize(r, c)
<1>1. r.byte_count \in Nat /\ r.byte_count <= c
  BY SMT, Z3T(40) DEF RingOK, CanResize
<1>2. /\ Contents(r) \in Seq(Slots(Modulus)) /\ Len(Contents(r)) = r.byte_count
  BY ContentsAt
<1>3. RingOK(q)
  BY ResizeOK
<1>4. /\ q.cap = c /\ q.read_pos = 0 /\ q.byte_count = r.byte_count /\ q.write_pos = r.byte_count
      /\ q.buf = [i \in Slots(c) |-> IF i < r.byte_count THEN Contents(r)[i + 1] ELSE 0]
  BY <1>2 DEF Resize
<1> HIDE DEF q
<1>5. /\ Contents(q) \in Seq(Slots(Modulus)) /\ Len(Contents(q)) = r.byte_count
      /\ \A i \in 1 .. r.byte_count : Contents(q)[i] = q.buf[Wrapped(0 + i - 1, c)]
  BY <1>3, <1>4, ContentsAt
<1>6. ASSUME NEW i \in 1 .. r.byte_count PROVE Contents(q)[i] = Contents(r)[i]
  <2>1. Wrapped(0 + i - 1, c) = i - 1 /\ i - 1 \in Slots(c) /\ i - 1 < r.byte_count /\ i - 1 + 1 = i
    BY SMT, Z3T(40), <1>1 DEF Wrapped, Slots
  <2>2. Contents(q)[i] = q.buf[i - 1]
    BY <1>5, <2>1
  <2>3. q.buf[i - 1] = Contents(r)[i - 1 + 1]
    BY <1>4, <2>1
  <2> QED
    BY <2>1, <2>2, <2>3
<1>7. Contents(q) = Contents(r)
  BY <1>2, <1>5, <1>6, SameBytes
<1>8. RingEnds(q)
  BY SMT, Z3T(40), <1>1, <1>4 DEF RingEnds, Wrapped
<1> QED
  BY <1>7, <1>8 DEF q

-----------------------------------------------------------------------------
(* Pipe implements ByteStream.  What the steps of a pipe rely on, on any     *)
(* number of CPUs and with any number of readers and writers.               *)
StreamInv == PipeTypeOK /\ QueuesExact /\ WantPositive /\ RingEnds(ring)

StreamStep == Stream!StreamNext \/ UNCHANGED <<Contents(ring), sent, taken>>

(* A step that leaves the bytes alone is a stutter of the stream. *)
LEMMA StreamStutters ==
    ASSUME Contents(ring') = Contents(ring), UNCHANGED <<sent, taken>>
    PROVE  StreamStep
BY DEF StreamStep

(* A locked read takes a non-empty prefix, or nothing. *)
LEMMA ReadStreams ==
    ASSUME StreamInv, NEW t \in Threads, NEW n \in Nat \ {0}, ReadLocked(t, n)
    PROVE  RingEnds(ring') /\ StreamStep
<1>1. RingOK(ring) /\ RingEnds(ring) /\ n \in Nat /\ sent' = sent
  BY DEF StreamInv, PipeTypeOK, RingOK, ReadLocked
<1>2. CASE UNCHANGED <<ring, taken>>
  BY <1>1, <1>2, StreamStutters
<1>3. CASE ~IsEmpty(ring) /\ taken' = ReadBytes(ring, n) /\ ring' = ReadFrom(ring, n)
  <2> DEFINE k == RingMin(n, ring.byte_count)
  <2>1. k \in 1 .. ring.byte_count
    BY SMT, Z3T(40), <1>1, <1>3 DEF RingMin, IsEmpty, RingOK
  <2>2. Len(Contents(ring)) = ring.byte_count
    BY <1>1, ContentsType
  <2>3. /\ Contents(ring') = SubSeq(Contents(ring), k + 1, Len(Contents(ring)))
        /\ RingEnds(ring')
    BY <1>1, <1>3, ReadTakes
  <2>4. taken' = SubSeq(Contents(ring), 1, k)
    BY <1>3 DEF ReadBytes
  <2>5. Stream!Take
    <3> HIDE DEF k
    <3> QED
      BY <1>1, <2>1, <2>2, <2>3, <2>4 DEF Stream!Take
  <2> QED
    BY <2>3, <2>5 DEF StreamStep, Stream!StreamNext
<1> QED
  BY <1>2, <1>3 DEF ReadLocked

(* A locked write appends the next bytes of the numbering, or nothing. *)
LEMMA WriteStreams ==
    ASSUME StreamInv, NEW t \in Threads, NEW n \in Nat \ {0}, WriteLocked(t, n)
    PROVE  RingEnds(ring') /\ StreamStep
<1> DEFINE bytes == [i \in 1 .. n |-> (sent + i - 1) % Modulus]
<1>1. RingOK(ring) /\ RingEnds(ring) /\ n \in Nat /\ taken' = taken
  BY DEF StreamInv, PipeTypeOK, RingOK, WriteLocked
<1>2. CASE UNCHANGED <<ring, sent>>
  BY <1>1, <1>2, StreamStutters
<1>3. CASE /\ ~IsFull(ring) /\ ~WritePanics(ring, n) /\ ring' = WriteTo(ring, bytes)
           /\ sent' = (sent + RingMin(n, Remaining(ring))) % Modulus
  <2> DEFINE k == RingMin(n, Remaining(ring))
             next == [i \in 1 .. k |-> (sent + i - 1) % Modulus]
  <2>1. k \in Nat \ {0} /\ k <= n /\ k <= Remaining(ring)
    BY SMT, Z3T(40), <1>1, <1>3 DEF RingMin, Remaining, IsFull, RingOK
  <2>2. bytes \in Seq(Slots(Modulus)) /\ Len(bytes) = n
    BY BytesType DEF StreamInv, PipeTypeOK
  <2>3. next \in Seq(Slots(Modulus)) /\ Len(next) = k
    <3> HIDE DEF k
    <3> QED
      BY <2>1, BytesType DEF StreamInv, PipeTypeOK
  <2>4. SubSeq(bytes, 1, k) = next
    <3>1. \A i \in 1 .. k : i \in 1 .. n /\ bytes[i] = next[i]
      <4> HIDE DEF k
      <4>1. \A i \in 1 .. k : i \in 1 .. n
        BY SMT, Z3T(40), <2>1
      <4> QED
        BY <4>1
    <3> HIDE DEF bytes, next, k
    <3>2. /\ SubSeq(bytes, 1, k) \in Seq(Slots(Modulus)) /\ Len(SubSeq(bytes, 1, k)) = k
          /\ \A i \in 1 .. k : SubSeq(bytes, 1, k)[i] = bytes[i]
      BY SMT, Z3T(40), <2>1, <2>2
    <3> QED
      BY <2>3, <3>1, <3>2, SameBytes
  <2>5. /\ Contents(ring') = Contents(ring) \o next
        /\ RingEnds(ring')
    <3> HIDE DEF bytes, next
    <3> QED
      BY <1>1, <1>3, <2>2, <2>4, WriteAppends
  <2>6. k \in 1 .. Len(Contents(ring'))
    <3>1. Contents(ring) \in Seq(Slots(Modulus))
      BY <1>1, ContentsType
    <3> HIDE DEF next, k
    <3>2. Len(Contents(ring')) = Len(Contents(ring)) + k
      BY <2>3, <2>5, <3>1, JoinedBytes
    <3> QED
      BY SMT, Z3T(40), <2>1, <3>1, <3>2
  <2>7. Stream!Put
    <3> HIDE DEF k
    <3> QED
      BY <1>1, <1>3, <2>5, <2>6 DEF Stream!Put, k
  <2> QED
    BY <2>5, <2>7 DEF StreamStep, Stream!StreamNext
<1> QED
  BY <1>2, <1>3 DEF WriteLocked

(* The queues stay exact and every blocked call wants some bytes. *)
LEMMA CallsNext ==
    ASSUME PipeTypeOK, QueuesExact, WantPositive, [PipeNext]_vars
    PROVE  QueuesExact' /\ WantPositive'
<1>0. PipeTypeOK' /\ pc \in [Threads -> PcStates] /\ want \in [Threads -> 0 .. MaxChunk]
  BY TypeNext DEF PipeTypeOK
<1>1. CASE UNCHANGED <<waiters, pc, want>>
  BY <1>1, SameQueues DEF WantPositive
<1>2. ASSUME NEW t \in Threads, NEW n \in 1 .. MaxChunk, pc[t] \in {"idle", "woken"},
             ReadLocked(t, n)
      PROVE  QueuesExact' /\ WantPositive'
  <2>1. /\ waiters' = waiters /\ \A u \in Threads \ {t} : pc'[u] = pc[u] /\ want'[u] = want[u]
        /\ pc[t] # "parked" /\ pc'[t] # "parked"
        /\ pc'[t] \in {"parking", "parked", "woken"} => want'[t] = n
    BY <1>0, <1>2, ReadEffect
  <2>2. QueuesExact'
    BY <2>1, SameQueues
  <2>3. n > 0
    BY SMT, Z3T(40), PipeAssumption
  <2> QED
    BY <2>1, <2>2, <2>3 DEF WantPositive
<1>3. ASSUME NEW t \in Threads, NEW n \in 1 .. MaxChunk, pc[t] \in {"idle", "woken"},
             WriteLocked(t, n)
      PROVE  QueuesExact' /\ WantPositive'
  <2>1. n > 0 /\ n \in Nat \ {0}
    BY SMT, Z3T(40), PipeAssumption
  <2>2. /\ waiters' = waiters
        /\ \/ UNCHANGED <<pc, want>>
           \/ /\ \/ pc' = [pc EXCEPT ![t] = "parking"] /\ want' = [want EXCEPT ![t] = n]
                 \/ pc' = [pc EXCEPT ![t] = "idle"] /\ want' = [want EXCEPT ![t] = 0]
                 \/ pc' = [pc EXCEPT ![t] = "notify"] /\ want' = [want EXCEPT ![t] = 0]
    BY <1>3, <2>1, WriteEffect
  <2>3. CASE UNCHANGED <<pc, want>>
    BY <1>1, <2>2, <2>3
  <2>4. CASE ~UNCHANGED <<pc, want>>
    <3>1. /\ \A u \in Threads \ {t} : pc'[u] = pc[u] /\ want'[u] = want[u]
          /\ pc[t] # "parked" /\ pc'[t] # "parked"
          /\ pc'[t] \in {"parking", "parked", "woken"} => want'[t] = n
      BY <1>0, <1>3, <2>2, <2>4
    <3>2. QueuesExact'
      BY <2>2, <3>1, SameQueues
    <3> QED
      BY <2>1, <3>1, <3>2 DEF WantPositive
  <2> QED
    BY <2>3, <2>4
<1>4. ASSUME NEW t \in Threads, Relock(t) PROVE QueuesExact' /\ WantPositive'
  <2>1. want[t] \in 1 .. MaxChunk /\ pc[t] = "woken"
    <3>1. want[t] \in 0 .. MaxChunk /\ want[t] > 0
      BY <1>0, <1>4 DEF Relock, WantPositive
    <3> QED
      BY SMT, Z3T(40), <1>4, <3>1, PipeAssumption DEF Relock
  <2> QED
    BY <1>2, <1>3, <1>4, <2>1 DEF Relock
<1>5. ASSUME NEW t \in Threads, Park(t) PROVE QueuesExact' /\ WantPositive'
  <2>1. QueuesExact'
    BY <1>5, QueuesPark
  <2>2. pc[t] = "parking" /\ pc' = [pc EXCEPT ![t] = "parked"] /\ want' = want
    BY <1>5 DEF Park
  <2> QED
    BY <1>0, <2>1, <2>2 DEF WantPositive
<1>6. ASSUME NEW t \in Threads, NotifyOne(t) PROVE QueuesExact' /\ WantPositive'
  <2>1. QueuesExact'
    BY <1>0, <1>6, QueuesNotifyOne
  <2>2. pc' = [WakeOne(Other(t)) EXCEPT ![t] = "idle"] /\ want' = want
    BY <1>6 DEF NotifyOne
  <2>3. ASSUME NEW u \in Threads PROVE pc'[u] \in {"parking", "parked", "woken"} => pc[u] \in {"parking", "parked", "woken"}
    <3> DEFINE q == waiters[Other(t)]
    <3>1. CASE q = <<>>
      BY <1>0, <2>2, <3>1 DEF WakeOne
    <3>2. CASE q # <<>>
      <4>1. q \in Seq(Threads) /\ Other(t) \in {"read_wait", "write_wait"}
        BY DEF PipeTypeOK, Other
      <4>2. Head(q) = q[1] /\ 1 \in 1 .. Len(q) /\ Head(q) \in Threads
        BY SMT, Z3T(40), <3>2, <4>1
      <4>3. pc[Head(q)] = "parked"
        BY SMT, Z3T(40), <4>1, <4>2 DEF QueuesExact
      <4>4. pc' = [[pc EXCEPT ![Head(q)] = "woken"] EXCEPT ![t] = "idle"]
        BY <2>2, <3>2 DEF WakeOne
      <4> HIDE DEF q
      <4> QED
        BY <1>0, <4>2, <4>3, <4>4
    <3> QED
      BY <3>1, <3>2
  <2> QED
    BY <2>1, <2>2, <2>3 DEF WantPositive
<1>7. ASSUME NEW t \in Threads, NotifyAll(t) PROVE QueuesExact' /\ WantPositive'
  <2>1. QueuesExact'
    BY <1>7, QueuesNotifyAll
  <2>2. pc' = [WakeAll(Other(t)) EXCEPT ![t] = "gone"] /\ want' = want /\ Other(t) \in {"read_wait", "write_wait"}
    BY <1>7 DEF NotifyAll, Other
  <2>3. ASSUME NEW u \in Threads PROVE pc'[u] \in {"parking", "parked", "woken"} => pc[u] \in {"parking", "parked", "woken"}
    <3>1. CASE \E i \in 1 .. Len(waiters[Other(t)]) : waiters[Other(t)][i] = u
      <4>1. PICK c \in {"read_wait", "write_wait"} : c = Other(t)
        BY <2>2
      <4>2. PICK i \in 1 .. Len(waiters[c]) : waiters[c][i] = u
        BY <3>1, <4>1
      <4>3. pc[waiters[c][i]] = "parked"
        BY <4>1, <4>2 DEF QueuesExact
      <4> QED
        BY <4>2, <4>3
    <3>2. CASE ~\E i \in 1 .. Len(waiters[Other(t)]) : waiters[Other(t)][i] = u
      <4>1. WakeAll(Other(t))[u] = pc[u] /\ WakeAll(Other(t)) = [v \in Threads |-> WakeAll(Other(t))[v]]
        BY <3>2 DEF WakeAll
      <4> QED
        BY <2>2, <4>1
    <3> QED
      BY <3>1, <3>2
  <2> QED
    BY <2>1, <2>2, <2>3 DEF WantPositive
<1>8. ASSUME NEW t \in Threads, DropEnd(t) PROVE QueuesExact' /\ WantPositive'
  <2>1. /\ waiters' = waiters /\ want' = want
        /\ \A u \in Threads : Own(u) = Own(t) => pc[u] = "idle"
        /\ pc' = [u \in Threads |-> IF u = t THEN "dropping"
                                    ELSE IF Own(u) = Own(t) THEN "gone" ELSE pc[u]]
    BY <1>8 DEF DropEnd
  <2>2. \A u \in Threads : /\ pc[u] # "idle" => pc'[u] = pc[u]
                           /\ pc'[u] \notin {"dropping", "gone"} => pc'[u] = pc[u]
    BY <2>1
  <2>3. QueuesExact'
    BY <2>1, <2>2, SameQueues
  <2> QED
    BY <2>1, <2>2, <2>3 DEF WantPositive
<1>9. ASSUME NEW t \in Readers, NEW n \in 1 .. MaxChunk, Read(t, n) PROVE QueuesExact' /\ WantPositive'
  BY <1>1, <1>2, <1>9 DEF Read, vars, Threads
<1>10. ASSUME NEW t \in Writers, NEW n \in 1 .. MaxChunk, Write(t, n) PROVE QueuesExact' /\ WantPositive'
  BY <1>1, <1>3, <1>10 DEF Write, vars, Threads
<1>11. ASSUME NEW c \in Capacities, SetCapacity(c) PROVE QueuesExact' /\ WantPositive'
  BY <1>1, <1>11 DEF SetCapacity
<1>12. ASSUME NEW e \in {"read", "write"}, SetNonblocking(e) PROVE QueuesExact' /\ WantPositive'
  BY <1>1, <1>12 DEF SetNonblocking
<1>13. CASE UNCHANGED vars
  BY <1>1, <1>13 DEF vars
<1> QED
  BY <1>4, <1>5, <1>6, <1>7, <1>8, <1>9, <1>10, <1>11, <1>12, <1>13 DEF PipeNext, ThreadStep

(* Every step of the pipe is a step of the stream or leaves it alone. *)
LEMMA StreamNextStep ==
    ASSUME StreamInv, [PipeNext]_vars
    PROVE  RingEnds(ring') /\ StreamStep
<1>0. RingEnds(ring) /\ PipeTypeOK
  BY DEF StreamInv
<1>1. CASE UNCHANGED <<ring, sent, taken>>
  BY <1>0, <1>1, StreamStutters
<1>2. ASSUME NEW n \in 1 .. MaxChunk PROVE n \in Nat \ {0}
  BY SMT, Z3T(40), PipeAssumption
<1>3. ASSUME NEW t \in Readers, NEW n \in 1 .. MaxChunk, Read(t, n) PROVE RingEnds(ring') /\ StreamStep
  BY <1>1, <1>2, <1>3, ReadStreams DEF Read, vars, Threads
<1>4. ASSUME NEW t \in Writers, NEW n \in 1 .. MaxChunk, Write(t, n) PROVE RingEnds(ring') /\ StreamStep
  BY <1>1, <1>2, <1>4, WriteStreams DEF Write, vars, Threads
<1>5. ASSUME NEW t \in Threads, Relock(t) PROVE RingEnds(ring') /\ StreamStep
  <2>1. want[t] \in 0 .. MaxChunk /\ want[t] > 0
    BY <1>5 DEF Relock, StreamInv, WantPositive, PipeTypeOK
  <2>2. want[t] \in Nat \ {0}
    BY SMT, Z3T(40), <2>1, PipeAssumption
  <2> QED
    BY <1>5, <2>2, ReadStreams, WriteStreams DEF Relock
<1>6. ASSUME NEW t \in Threads, ThreadStep(t) \/ DropEnd(t) PROVE RingEnds(ring') /\ StreamStep
  BY <1>1, <1>5, <1>6 DEF ThreadStep, Park, NotifyOne, NotifyAll, DropEnd
<1>7. ASSUME NEW c \in Capacities, SetCapacity(c) PROVE RingEnds(ring') /\ StreamStep
  <2>1. RingOK(ring) /\ c \in Nat \ {0} /\ CanResize(ring, c) /\ ring' = Resize(ring, c)
    BY <1>0, <1>7, PipeAssumption DEF PipeTypeOK, RingOK, SetCapacity
  <2>2. Contents(ring') = Contents(ring) /\ RingEnds(ring')
    BY <2>1, ResizeKeeps
  <2> QED
    BY <1>7, <2>2, StreamStutters DEF SetCapacity
<1>8. ASSUME NEW e \in {"read", "write"}, SetNonblocking(e) PROVE RingEnds(ring') /\ StreamStep
  BY <1>1, <1>8 DEF SetNonblocking
<1>9. CASE UNCHANGED vars
  BY <1>1, <1>9 DEF vars
<1> QED
  BY <1>3, <1>4, <1>6, <1>7, <1>8, <1>9 DEF PipeNext

LEMMA StreamStart == PipeInit => StreamInv /\ Stream!StreamInit
<1> SUFFICES ASSUME PipeInit PROVE StreamInv /\ Stream!StreamInit
  OBVIOUS
<1>1. PipeTypeOK
  BY TypeInit
<1>2. QueuesExact
  BY SMT, Z3T(40) DEF PipeInit, QueuesExact, Own
<1>3. WantPositive
  BY DEF PipeInit, WantPositive
<1>4. RingEnds(ring) /\ Contents(ring) = <<>>
  BY SMT, Z3T(40), PipeAssumption DEF PipeInit, NewRing, RingEnds, Wrapped, Contents
<1> QED
  BY <1>1, <1>2, <1>3, <1>4 DEF StreamInv, PipeInit, Stream!StreamInit

(* The bytes come out in the order they went in, each once.  PipeRing's      *)
(* read_from, write_to and resize implement the byte stream for every        *)
(* capacity, chunk size, number of readers and writers and number of CPUs.   *)
THEOREM PipeIsAByteStream == PipeSpec => StreamOrder
<1>1. PipeInit => StreamInv /\ Stream!StreamInit
  BY StreamStart
<1>2. StreamInv /\ [PipeNext]_vars => StreamInv' /\ [Stream!StreamNext]_(Stream!streamVars)
  <2> SUFFICES ASSUME StreamInv, [PipeNext]_vars
               PROVE  StreamInv' /\ [Stream!StreamNext]_(Stream!streamVars)
    OBVIOUS
  <2>1. PipeTypeOK' /\ QueuesExact' /\ WantPositive'
    BY TypeNext, CallsNext DEF StreamInv
  <2>2. RingEnds(ring') /\ StreamStep
    BY StreamNextStep
  <2> QED
    BY <2>1, <2>2 DEF StreamInv, StreamStep, Stream!streamVars
<1> QED
  BY <1>1, <1>2, PTL DEF PipeSpec, StreamOrder, Stream!StreamSpec

-----------------------------------------------------------------------------
(* The block cache. *)

(* One call at a time, on a device that answers before the driver and the   *)
(* flush lose patience: a write they gave up on could land after a newer    *)
(* one.                                                                     *)
OneCallAtATime == \A u \in Usages : u.together = {} /\ u.timeouts = 0

-----------------------------------------------------------------------------
(* Types. *)

SlotEntry == [lba : Blocks \cup {EMPTY_LBA}, data : Nat, dirty : BOOLEAN,
              stamp : Callers \cup {Nobody}]

DeviceWrite == [by : Callers, lba : Blocks, data : Nat]

CallStates == {"idle", "fetch", "bump", "insert", "evict", "place", "update", "submit", "wait"}

CallRecord ==
  [at : CallStates, op : Ops \cup {"none"}, lba : Nat, data : Nat, last : Nat,
   image : [Blocks -> Nat], victim : SlotEntry, want : SUBSET Blocks, tried : SUBSET Blocks,
   pending : Seq(DeviceWrite), failed : BOOLEAN, floor : [Blocks -> Nat]]

CacheTypeOK ==
  /\ slots \in [Cells -> SlotEntry]
  /\ holder \in Callers \cup {Nobody}
  /\ disk \in [Blocks -> Nat] /\ newest \in [Blocks -> Nat] /\ lost \subseteq Blocks
  /\ queue \subseteq DeviceWrite /\ broken \subseteq DeviceWrite
  /\ call \in [Callers -> CallRecord]
  /\ usage \in Usages
  /\ budget \in [failures : Nat, timeouts : {0}]

LEMMA SmallerIsOther ==
  ASSUME NEW a \in Blocks, NEW b \in Blocks, a < b
  PROVE  a # b
BY SMT, Z3T(40) DEF Blocks

(* The blocks from the next one on. *)
LEMMA FromTheNext ==
  ASSUME NEW a \in Blocks
  PROVE  /\ a <= a + 1
         /\ \A b \in Blocks : a + 1 <= b => a <= b /\ b # a
BY SMT, Z3T(40) DEF Blocks

-----------------------------------------------------------------------------
(* The inductive invariant: at most one thread t is in a call, c.           *)

Solo(t) == \A u \in Callers \ {t} : call[u] = Rest

Unique == \A s, r \in Cells : slots[s].lba = slots[r].lba /\ slots[s].lba \in Blocks => s = r

(* A content of a block is its newest, unless a failed write has left that in *)
(* doubt; the device is level with it.                                      *)
Latest(b, v) == b \in lost \/ v = newest[b]

Level(b) == Latest(b, disk[b])

Spans(c, b) == c.lba <= b /\ b <= c.last

(* A store has reached the device and not yet the pool. *)
StoreAhead(c, b) ==
  c.at \in {"update", "insert"} /\ c.op \in {"through", "cached"} /\ c.lba = b

(* Where the newest content of a block is. *)
PoolIsNewest(c) ==
  \A s \in Cells : slots[s].lba \in Blocks /\ ~StoreAhead(c, slots[s].lba) =>
     /\ Latest(slots[s].lba, slots[s].data)
     /\ ~slots[s].dirty => Level(slots[s].lba)

DeviceIsNewest(c) ==
  \A b \in Blocks : ~Cached(b) =>
     \/ Level(b)
     \/ c.at = "evict" /\ c.victim.lba = b
     \/ c.at \in {"insert", "evict", "place"} /\ c.op = "back" /\ c.lba = b

(* What the call in progress knows at each of its steps. *)
FetchKnows(c) ==
  c.at = "fetch" =>
     /\ c.op = "read" /\ c.lba \in Blocks /\ c.lba <= c.last /\ c.floor = newest
     /\ \A b \in Blocks : Spans(c, b) => ~Cached(b)

InsertKnows(c) ==
  c.at \in {"insert", "evict", "place"} =>
     /\ c.op \in {"read", "back", "cached"}
     /\ c.lba \in Blocks /\ c.last \in Blocks /\ c.lba <= c.last
     /\ Latest(c.lba, c.data)
     /\ c.op # "read" => c.last = c.lba
     /\ c.op # "back" => \A b \in Blocks : Spans(c, b) => Level(b)
     /\ c.op = "read" => \A b \in Blocks : Spans(c, b) => Latest(b, c.image[b])
     /\ c.at # "insert" \/ c.op # "cached" => \A b \in Blocks : Spans(c, b) => ~Cached(b)

EvictKnows(c) ==
  c.at = "evict" =>
     /\ c.victim.lba \in Blocks /\ ~Cached(c.victim.lba) /\ ~Spans(c, c.victim.lba)
     /\ Latest(c.victim.lba, c.victim.data)

UpdateKnows(c) ==
  c.at = "update" =>
     c.op = "through" /\ c.lba \in Blocks /\ Latest(c.lba, c.data) /\ Level(c.lba)

(* The writes p that a flush waits for hold the newest content of blocks it  *)
(* has tried, and a write the device is done with is on the device.         *)
PendingAreNewest(p, tried) ==
  \A i \in 1 .. Len(p) :
     /\ p[i].lba \in tried /\ Latest(p[i].lba, p[i].data)
     /\ p[i] \notin queue \cup broken => Level(p[i].lba)

PendingAreStamped(t, p) ==
  \A i \in 1 .. Len(p) : \A s \in Cells : slots[s].lba = p[i].lba => slots[s].stamp = t

PendingAreDistinct(p) ==
  \A i, j \in 1 .. Len(p) : p[i].lba = p[j].lba => i = j

(* A block that was tried is clean or still waited for. *)
TriedArePending(p, tried) ==
  \A s \in Cells : slots[s].dirty /\ slots[s].lba \in tried =>
     \E i \in 1 .. Len(p) : p[i].lba = slots[s].lba

AllAreTried(c) == \A s \in Cells : ~(slots[s].dirty /\ slots[s].lba \in c.want \ c.tried)

FlushKnows(t, c) ==
  c.at \in {"submit", "wait"} =>
     /\ c.op = "flush" /\ c.floor = newest
     /\ PendingAreNewest(c.pending, c.tried) /\ PendingAreStamped(t, c.pending)
     /\ PendingAreDistinct(c.pending)
     /\ ~c.failed => TriedArePending(c.pending, c.tried)
     /\ c.at = "wait" /\ ~c.failed /\ c.pending = <<>> => AllAreTried(c)

(* The device's queue holds only what the flush still waits for. *)
QueueIsAwaited(c) ==
  /\ c.at \notin {"submit", "wait"} => c.pending = <<>>
  /\ \A w \in queue \cup broken : \E i \in 1 .. Len(c.pending) : c.pending[i] = w
  /\ queue \cap broken = {}

CallKnows(t, c) ==
  /\ holder # Nobody => holder = t /\ c.at = "submit"
  /\ c.at = "idle" => c = Rest
  /\ c.at # "idle" => c.op # "none"
  /\ c.at = "bump" => c.op # "flush"
  /\ PoolIsNewest(c) /\ DeviceIsNewest(c)
  /\ FetchKnows(c) /\ InsertKnows(c) /\ EvictKnows(c) /\ UpdateKnows(c)
  /\ FlushKnows(t, c) /\ QueueIsAwaited(c)

CacheInv ==
  /\ CacheTypeOK /\ Unique
  /\ \E t \in Callers : Solo(t) /\ CallKnows(t, call[t])

-----------------------------------------------------------------------------
(* Records. *)

LEMMA BlockIsNat == \A b \in Blocks : b \in Nat
BY SMT, Z3T(40) DEF Blocks

LEMMA RestFields ==
  /\ Rest \in CallRecord
  /\ Rest.at = "idle" /\ Rest.op = "none" /\ Rest.pending = <<>> /\ Rest.failed = FALSE
  /\ Rest.tried = {} /\ Rest.want = {}
<1>1. EmptySlot \in SlotEntry
  BY DEF EmptySlot, SlotEntry
<1>2. [b \in Blocks |-> 0] \in [Blocks -> Nat] /\ <<>> \in Seq(DeviceWrite) /\ 0 \in Nat
  BY SMT, Z3T(40)
<1> QED
  BY <1>1, <1>2 DEF Rest, CallRecord, CallStates

(* A step of t's call is over once the new record is known to be right. *)
LEMMA Concludes ==
  ASSUME CacheTypeOK, NEW t \in Callers, Solo(t), NEW d \in CallRecord,
         call' = [call EXCEPT ![t] = d], CacheTypeOK', Unique', CallKnows(t, d)'
  PROVE  CacheInv'
<1>1. call'[t] = d /\ \A u \in Callers \ {t} : call'[u] = call[u]
  BY DEF CacheTypeOK
<1>2. Solo(t)'
  BY <1>1 DEF Solo
<1>3. CallKnows(t, call[t])'
  BY <1>1
<1> QED
  BY <1>2, <1>3 DEF CacheInv

-----------------------------------------------------------------------------
(* A call begins only when nobody is in one. *)

AllIdle == \A u \in Callers : call[u] = Rest

LEMMA BeginsAlone ==
  ASSUME OneCallAtATime, CacheInv, NEW t \in Callers, NEW op, Begins(t, op)
  PROVE  AllIdle /\ op \in Ops
<1>1. usage.together = {} /\ usage \in CacheUse
  BY CacheAssumption DEF OneCallAtATime, CacheInv, CacheTypeOK
<1>2. \A u \in Callers : Idle(u)
  BY <1>1 DEF Begins
<1>3. op \in Ops
  BY <1>1 DEF Begins, CacheUse
<1>4. PICK v \in Callers : Solo(v) /\ CallKnows(v, call[v])
  BY DEF CacheInv
<1>5. call[v] = Rest
  BY <1>2, <1>4 DEF CallKnows, Idle
<1> QED
  BY <1>3, <1>4, <1>5 DEF AllIdle, Solo

LEMMA Quiet ==
  ASSUME CacheInv, AllIdle
  PROVE  /\ holder = Nobody /\ queue = {} /\ broken = {}
         /\ \A s \in Cells : slots[s].lba \in Blocks =>
               /\ Latest(slots[s].lba, slots[s].data)
               /\ ~slots[s].dirty => Level(slots[s].lba)
         /\ \A b \in Blocks : ~Cached(b) => Level(b)
<1>1. PICK v \in Callers : Solo(v) /\ CallKnows(v, call[v])
  BY DEF CacheInv
<1>2. CallKnows(v, Rest)
  BY <1>1 DEF AllIdle
<1>3. holder = Nobody
  BY <1>2, RestFields DEF CallKnows
<1>4. queue = {} /\ broken = {}
  BY SMT, Z3T(40), <1>2, RestFields DEF CallKnows, QueueIsAwaited
<1>5. PoolIsNewest(Rest) /\ DeviceIsNewest(Rest)
  BY <1>2 DEF CallKnows
<1> QED
  BY <1>3, <1>4, <1>5, RestFields DEF PoolIsNewest, DeviceIsNewest, StoreAhead

LEMMA TypeKept ==
  ASSUME CacheTypeOK, NEW t \in Callers, NEW d \in CallRecord, call' = [call EXCEPT ![t] = d],
         UNCHANGED <<holder, disk, queue, broken, newest, lost, usage>>,
         slots' \in [Cells -> SlotEntry], budget' \in [failures : Nat, timeouts : {0}]
  PROVE  CacheTypeOK'
BY DEF CacheTypeOK

LEMMA FailsType ==
  ASSUME CacheTypeOK, DeviceFails
  PROVE  budget' \in [failures : Nat, timeouts : {0}]
<1>1. budget.failures - 1 \in Nat
  BY SMT, Z3T(40) DEF DeviceFails, CacheTypeOK
<1> QED
  BY <1>1 DEF DeviceFails, CacheTypeOK

(* A synchronous write fails: at most its own block has changed. *)
LEMMA OneFails ==
  ASSUME CacheTypeOK, NEW w, NEW b \in Blocks, w.lba = b, w.data \in Nat, WriteFails(w)
  PROVE  /\ disk' \in [Blocks -> Nat] /\ \A e \in Blocks \ {b} : disk'[e] = disk[e]
         /\ queue' = queue /\ lost' = lost \cup {b}
         /\ budget' \in [failures : Nat, timeouts : {0}]
<1>1. ~DeviceIsLate
  <2>1. budget.timeouts = 0
    BY DEF CacheTypeOK
  <2>2. ~(0 > 0)
    BY SMT, Z3T(40)
  <2> QED
    BY <2>1, <2>2 DEF DeviceIsLate
<1>2. DeviceFails /\ queue' = queue /\ lost' = lost \cup {b}
  BY <1>1 DEF WriteFails
<1>3. disk' = disk \/ disk' = [disk EXCEPT ![b] = w.data]
  BY <1>1 DEF WriteFails
<1>4. disk' \in [Blocks -> Nat] /\ \A e \in Blocks \ {b} : disk'[e] = disk[e]
  BY <1>3 DEF CacheTypeOK
<1> QED
  BY <1>2, <1>4, FailsType

(* A call begins that has changed nothing yet. *)
LEMMA BeginsQuietly ==
  ASSUME CacheInv, AllIdle, NEW t \in Callers, NEW d \in CallRecord,
         call' = [call EXCEPT ![t] = d],
         UNCHANGED <<slots, holder, disk, queue, broken, newest, lost, budget, usage>>,
         d.at \in {"bump", "fetch", "submit"}, d.op # "none", d.pending = <<>>,
         d.at = "bump" => d.op # "flush",
         FetchKnows(d), d.at = "submit" => d.op = "flush" /\ d.floor = newest /\ d.tried = {}
  PROVE  CacheInv'
<1>1. CacheTypeOK /\ CacheTypeOK' /\ Unique' /\ Solo(t)
  <2>1. CacheTypeOK /\ Unique /\ Solo(t)
    BY DEF CacheInv, AllIdle, Solo
  <2>2. slots' \in [Cells -> SlotEntry] /\ budget' \in [failures : Nat, timeouts : {0}]
    BY <2>1 DEF CacheTypeOK
  <2> QED
    BY <2>1, <2>2, TypeKept DEF Unique
<1>2. /\ holder = Nobody /\ queue = {} /\ broken = {}
      /\ \A s \in Cells : slots[s].lba \in Blocks =>
            /\ Latest(slots[s].lba, slots[s].data)
            /\ ~slots[s].dirty => Level(slots[s].lba)
      /\ \A b \in Blocks : ~Cached(b) => Level(b)
  BY Quiet
<1>3. (\A b : Level(b)' <=> Level(b)) /\ (\A b : Cached(b)' <=> Cached(b))
  BY DEF Level, Latest, Cached
<1>4. PoolIsNewest(d)' /\ DeviceIsNewest(d)'
  <2>1. PoolIsNewest(d)'
    BY <1>2 DEF PoolIsNewest, Level, Latest
  <2>2. DeviceIsNewest(d)'
    BY <1>2, <1>3 DEF DeviceIsNewest
  <2> QED
    BY <2>1, <2>2
<1>5. FetchKnows(d)'
  BY <1>3 DEF FetchKnows, Spans
<1>6. InsertKnows(d)' /\ EvictKnows(d)' /\ UpdateKnows(d)'
  BY DEF InsertKnows, EvictKnows, UpdateKnows
<1>7. FlushKnows(t, d)'
  <2>1. Len(d.pending) = 0 /\ \A i \in 1 .. Len(d.pending) : FALSE
    BY SMT, Z3T(40)
  <2>2. d.at = "submit" => d.tried = {}
    OBVIOUS
  <2> QED
    BY <2>1, <2>2 DEF FlushKnows, PendingAreNewest, PendingAreStamped, PendingAreDistinct,
                      TriedArePending
<1>8. QueueIsAwaited(d)'
  BY <1>2 DEF QueueIsAwaited
<1>9. CallKnows(t, d)'
  BY <1>2, <1>4, <1>5, <1>6, <1>7, <1>8 DEF CallKnows
<1> QED
  BY <1>1, <1>9, Concludes

LEMMA ReadHitKeeps ==
  ASSUME OneCallAtATime, CacheInv, NEW t \in Callers, NEW b \in Blocks, ReadHit(t, b)
  PROVE  CacheInv'
<1>1. AllIdle
  BY BeginsAlone DEF ReadHit
<1>2. CacheTypeOK
  BY DEF CacheInv
<1>3. PICK s \in Cells : Called(t, "read", b, slots[s].data, "bump")
  BY DEF ReadHit
<1>4. PICK d : d = [Rest EXCEPT !.at = "bump", !.op = "read", !.lba = b, !.data = slots[s].data,
                                !.last = b, !.floor = newest]
  OBVIOUS
<1>5. /\ slots[s].data \in Nat /\ newest \in [Blocks -> Nat]
      /\ "read" \in Ops /\ "bump" \in CallStates
  BY <1>2 DEF CacheTypeOK, SlotEntry, Ops, CallStates
<1>6. d \in CallRecord /\ d.at = "bump" /\ d.op = "read" /\ d.pending = <<>>
  <2>1. d.at = "bump" /\ d.op = "read" /\ d.pending = <<>>
    BY <1>4, RestFields DEF CallRecord
  <2>2. d \in CallRecord
    BY <1>4, <1>5, BlockIsNat, RestFields DEF CallRecord
  <2> QED
    BY <2>1, <2>2
<1>7. call' = [call EXCEPT ![t] = d]
  BY <1>3, <1>4 DEF Called, Goes
<1>8. FetchKnows(d)
  BY <1>6 DEF FetchKnows
<1> QED
  BY <1>1, <1>6, <1>7, <1>8, BeginsQuietly DEF ReadHit

LEMMA ReadMissKeeps ==
  ASSUME OneCallAtATime, CacheInv, NEW t \in Callers, NEW b \in Blocks, ReadMiss(t, b)
  PROVE  CacheInv'
<1>1. AllIdle
  BY BeginsAlone DEF ReadMiss
<1>2. CacheTypeOK
  BY DEF CacheInv
<1>3. PICK n \in 0 .. usage.readAhead :
         /\ Lookahead(b, n)
         /\ Goes(t, [Rest EXCEPT !.at = "fetch", !.op = "read", !.lba = b, !.last = b + n,
                                 !.floor = newest])
  BY DEF ReadMiss
<1>4. PICK d : d = [Rest EXCEPT !.at = "fetch", !.op = "read", !.lba = b, !.last = b + n, !.floor = newest]
  OBVIOUS
<1>5. usage.readAhead \in Nat /\ newest \in [Blocks -> Nat]
  BY <1>2, CacheAssumption DEF CacheTypeOK, CacheUse
<1>6. n \in Nat /\ b \in Nat /\ b + n \in Nat /\ b <= b + n
  BY SMT, Z3T(40), <1>5 DEF Blocks
<1>7. /\ d.at = "fetch" /\ d.op = "read" /\ d.lba = b /\ d.last = b + n /\ d.floor = newest
      /\ d.pending = <<>>
  BY <1>4, RestFields DEF CallRecord
<1>8. d \in CallRecord
  BY <1>4, <1>5, <1>6, RestFields DEF CallRecord, CallStates, Ops
<1>9. ASSUME NEW e \in Blocks, Spans(d, e) PROVE ~Cached(e)
  <2>1. b <= e /\ e <= b + n /\ e \in Nat
    BY SMT, Z3T(40), <1>7, <1>9 DEF Spans, Blocks
  <2>2. CASE e = b
    BY <2>2 DEF ReadMiss
  <2>3. CASE e # b
    <3>1. PICK i \in 1 .. n : e = b + i
      <4>1. e - b \in 1 .. n /\ e = b + (e - b)
        BY SMT, Z3T(40), <1>6, <2>1, <2>3
      <4> QED
        BY <4>1
    <3>2. n # 0
      BY SMT, Z3T(40), <1>6, <3>1
    <3> QED
      BY <1>3, <3>1, <3>2 DEF Lookahead
  <2> QED
    BY <2>2, <2>3
<1>10. FetchKnows(d)
  BY <1>6, <1>7, <1>9 DEF FetchKnows
<1>11. call' = [call EXCEPT ![t] = d]
  BY <1>3, <1>4 DEF Goes
<1> QED
  BY <1>1, <1>7, <1>8, <1>10, <1>11, BeginsQuietly DEF ReadMiss

LEMMA FlushBeginsKeeps ==
  ASSUME OneCallAtATime, CacheInv, NEW t \in Callers, NEW chosen \in SUBSET usage.blocks,
         FlushBegins(t, chosen)
  PROVE  CacheInv'
<1>1. AllIdle
  BY BeginsAlone DEF FlushBegins
<1>2. CacheTypeOK
  BY DEF CacheInv
<1>3. PICK d : d = [Rest EXCEPT !.at = "submit", !.op = "flush", !.want = chosen, !.floor = newest]
  OBVIOUS
<1>4. chosen \in SUBSET Blocks /\ newest \in [Blocks -> Nat]
  BY <1>2, CacheAssumption DEF CacheTypeOK, CacheUse
<1>5. /\ d.at = "submit" /\ d.op = "flush" /\ d.floor = newest
      /\ d.pending = <<>> /\ d.tried = {}
  BY <1>3, RestFields DEF CallRecord
<1>6. d \in CallRecord
  BY <1>3, <1>4, RestFields DEF CallRecord, CallStates, Ops
<1>7. FetchKnows(d)
  BY <1>5 DEF FetchKnows
<1>8. call' = [call EXCEPT ![t] = d]
  BY <1>3 DEF FlushBegins, Goes
<1> QED
  BY <1>1, <1>5, <1>6, <1>7, <1>8, BeginsQuietly DEF FlushBegins

-----------------------------------------------------------------------------
(* A write begins: the newest content is in the pool, in the call's own     *)
(* hands, or on the device.                                                 *)

LEMMA NewerType ==
  ASSUME CacheTypeOK, NEW b \in Blocks
  PROVE  Newer(b) \in Nat /\ [newest EXCEPT ![b] = Newer(b)] \in [Blocks -> Nat]
<1>1. Newer(b) \in Nat
  BY SMT, Z3T(40) DEF CacheTypeOK, Newer
<1> QED
  BY <1>1 DEF CacheTypeOK

LEMMA BeginsWriting ==
  ASSUME CacheInv, AllIdle, NEW t \in Callers, NEW b \in Blocks, NEW d \in CallRecord,
         call' = [call EXCEPT ![t] = d], CacheTypeOK', Unique',
         UNCHANGED <<holder, queue, broken>>, newest' = [newest EXCEPT ![b] = Newer(b)],
         d.at \in {"bump", "insert", "update"}, d.op # "none", d.op # "flush", d.pending = <<>>,
         InsertKnows(d)', UpdateKnows(d)', PoolIsNewest(d)', DeviceIsNewest(d)'
  PROVE  CacheInv'
<1>1. CacheTypeOK /\ Solo(t)
  BY DEF CacheInv, AllIdle, Solo
<1>2. holder = Nobody /\ queue = {} /\ broken = {}
  BY Quiet
<1>3. FetchKnows(d)' /\ EvictKnows(d)' /\ FlushKnows(t, d)'
  BY DEF FetchKnows, EvictKnows, FlushKnows
<1>4. QueueIsAwaited(d)'
  BY <1>2 DEF QueueIsAwaited
<1>5. CallKnows(t, d)'
  BY <1>2, <1>3, <1>4 DEF CallKnows
<1> QED
  BY <1>1, <1>5, Concludes

LEMMA WriteBackHitKeeps ==
  ASSUME OneCallAtATime, CacheInv, NEW t \in Callers, NEW b \in Blocks, WriteBackHit(t, b)
  PROVE  CacheInv'
<1>1. AllIdle
  BY BeginsAlone DEF WriteBackHit, CanWrite
<1>2. CacheTypeOK /\ Unique
  BY DEF CacheInv
<1>3. PICK s \in Cells : /\ slots[s].lba = b
                         /\ slots' = [slots EXCEPT ![s].data = Newer(b), ![s].dirty = TRUE]
  BY DEF WriteBackHit, Found
<1>4. /\ Newer(b) \in Nat /\ newest \in [Blocks -> Nat] /\ newest' \in [Blocks -> Nat]
      /\ newest' = [newest EXCEPT ![b] = Newer(b)]
      /\ "back" \in Ops /\ "bump" \in CallStates
  BY <1>2, NewerType DEF WriteBackHit, Renewed, Ops, CallStates, CacheTypeOK
<1>5. PICK d : d = [Rest EXCEPT !.at = "bump", !.op = "back", !.lba = b, !.data = Newer(b),
                                !.last = b, !.floor = newest]
  OBVIOUS
<1>6. d \in CallRecord /\ d.at = "bump" /\ d.op = "back" /\ d.pending = <<>>
  <2>1. d.at = "bump" /\ d.op = "back" /\ d.pending = <<>>
    BY <1>5, RestFields DEF CallRecord
  <2>2. d \in CallRecord
    BY <1>4, <1>5, BlockIsNat, RestFields DEF CallRecord
  <2> QED
    BY <2>1, <2>2
<1>7. call' = [call EXCEPT ![t] = d]
  BY <1>5 DEF WriteBackHit, Called, Goes
<1>8. /\ slots' \in [Cells -> SlotEntry]
      /\ slots'[s].lba = b /\ slots'[s].data = Newer(b) /\ slots'[s].dirty = TRUE
      /\ \A r \in Cells \ {s} : slots'[r] = slots[r]
  <2>1. slots \in [Cells -> SlotEntry]
    BY <1>2 DEF CacheTypeOK
  <2> QED
    BY <1>3, <1>4, <2>1 DEF SlotEntry
<1>9. CacheTypeOK'
  BY <1>2, <1>4, <1>6, <1>7, <1>8 DEF CacheTypeOK, WriteBackHit, Renewed
<1>10. \A r \in Cells : slots'[r].lba = slots[r].lba
  BY <1>3, <1>8
<1>11. Unique' /\ \A e : Cached(e)' <=> Cached(e)
  BY <1>2, <1>10 DEF Unique, Cached
<1>12. \A e \in Blocks \ {b} :
         newest'[e] = newest[e] /\ disk'[e] = disk[e] /\ (e \in lost' <=> e \in lost)
  BY <1>4 DEF WriteBackHit, Renewed
<1>13. /\ \A r \in Cells : slots[r].lba \in Blocks =>
            /\ Latest(slots[r].lba, slots[r].data)
            /\ ~slots[r].dirty => Level(slots[r].lba)
       /\ \A e \in Blocks : ~Cached(e) => Level(e)
  BY <1>1, Quiet
<1>14. PoolIsNewest(d)'
  <2> SUFFICES ASSUME NEW r \in Cells, slots'[r].lba \in Blocks
               PROVE  /\ Latest(slots[r].lba, slots[r].data)'
                      /\ ~slots'[r].dirty => Level(slots[r].lba)'
    BY DEF PoolIsNewest, Level, Latest
  <2>1. CASE r = s
    BY <1>4, <1>8, <2>1 DEF Latest
  <2>2. CASE r # s
    <3>1. slots'[r] = slots[r] /\ slots[r].lba # b
      BY <1>2, <1>3, <1>8, <2>2 DEF Unique
    <3>2. PICK e \in Blocks \ {b} : e = slots[r].lba
      BY <3>1
    <3>3. /\ newest'[e] = newest[e] /\ disk'[e] = disk[e] /\ (e \in lost' <=> e \in lost)
          /\ Latest(e, slots[r].data) /\ (~slots[r].dirty => Latest(e, disk[e]))
      BY <1>12, <1>13, <3>2 DEF Level
    <3> QED
      BY <3>1, <3>2, <3>3 DEF Level, Latest
  <2> QED
    BY <2>1, <2>2
<1>15. DeviceIsNewest(d)'
  <2>1. Cached(b)
    BY <1>3 DEF Cached
  <2> QED
    BY <1>11, <1>12, <1>13, <2>1 DEF DeviceIsNewest, Level, Latest
<1>16. InsertKnows(d)' /\ UpdateKnows(d)'
  BY <1>6 DEF InsertKnows, UpdateKnows
<1>17. UNCHANGED <<holder, queue, broken>>
  BY DEF WriteBackHit
<1> QED
  BY <1>1, <1>4, <1>6, <1>7, <1>9, <1>11, <1>14, <1>15, <1>16, <1>17, BeginsWriting

LEMMA WriteBackMissKeeps ==
  ASSUME OneCallAtATime, CacheInv, NEW t \in Callers, NEW b \in Blocks, WriteBackMiss(t, b)
  PROVE  CacheInv'
<1>1. AllIdle
  BY BeginsAlone DEF WriteBackMiss, CanWrite
<1>2. CacheTypeOK /\ Unique
  BY DEF CacheInv
<1>3. /\ Newer(b) \in Nat /\ newest \in [Blocks -> Nat] /\ newest' \in [Blocks -> Nat]
      /\ newest' = [newest EXCEPT ![b] = Newer(b)]
      /\ "back" \in Ops /\ "insert" \in CallStates
  BY <1>2, NewerType DEF WriteBackMiss, Renewed, Ops, CallStates, CacheTypeOK
<1>4. PICK d : d = [Rest EXCEPT !.at = "insert", !.op = "back", !.lba = b, !.data = Newer(b),
                                !.last = b, !.floor = newest]
  OBVIOUS
<1>5. /\ d \in CallRecord /\ d.at = "insert" /\ d.op = "back" /\ d.pending = <<>>
      /\ d.lba = b /\ d.last = b /\ d.data = Newer(b)
  <2>1. /\ d.at = "insert" /\ d.op = "back" /\ d.pending = <<>>
        /\ d.lba = b /\ d.last = b /\ d.data = Newer(b)
    BY <1>4, RestFields DEF CallRecord
  <2>2. d \in CallRecord
    BY <1>3, <1>4, BlockIsNat, RestFields DEF CallRecord
  <2> QED
    BY <2>1, <2>2
<1>6. call' = [call EXCEPT ![t] = d]
  BY <1>4 DEF WriteBackMiss, Called, Goes
<1>7. UNCHANGED <<slots, holder, disk, queue, broken>> /\ ~Cached(b)
  BY DEF WriteBackMiss
<1>8. CacheTypeOK' /\ Unique' /\ \A e : Cached(e)' <=> Cached(e)
  BY <1>2, <1>3, <1>5, <1>6, <1>7 DEF CacheTypeOK, WriteBackMiss, Renewed, Unique, Cached
<1>9. /\ newest'[b] = Newer(b)
      /\ \A e \in Blocks \ {b} :
           newest'[e] = newest[e] /\ disk'[e] = disk[e] /\ (e \in lost' <=> e \in lost)
  BY <1>3, <1>7 DEF WriteBackMiss, Renewed
<1>10. /\ \A r \in Cells : slots[r].lba \in Blocks =>
            /\ Latest(slots[r].lba, slots[r].data)
            /\ ~slots[r].dirty => Level(slots[r].lba)
       /\ \A e \in Blocks : ~Cached(e) => Level(e)
  BY <1>1, Quiet
<1>11. PoolIsNewest(d)'
  BY <1>7, <1>9, <1>10 DEF PoolIsNewest, Cached, Level, Latest
<1>12. DeviceIsNewest(d)'
  BY <1>5, <1>8, <1>9, <1>10 DEF DeviceIsNewest, Level, Latest
<1>13. UpdateKnows(d)'
  BY <1>5 DEF UpdateKnows
<1>14. \A e \in Blocks : Spans(d, e) => e = b
  BY SMT, Z3T(40), <1>5 DEF Spans, Blocks
<1>15. b <= b
  BY SMT, Z3T(40) DEF Blocks
<1>16. InsertKnows(d)'
  BY <1>5, <1>7, <1>8, <1>9, <1>14, <1>15 DEF InsertKnows, Spans, Latest
<1> QED
  BY <1>1, <1>3, <1>5, <1>6, <1>7, <1>8, <1>11, <1>12, <1>13, <1>16, BeginsWriting

LEMMA StoreWritesKeeps ==
  ASSUME OneCallAtATime, CacheInv, NEW t \in Callers, NEW b \in Blocks,
         NEW op \in {"through", "cached"}, StoreWrites(t, op, b)
  PROVE  CacheInv'
<1> DEFINE next == IF op = "through" THEN "update" ELSE "insert"
<1>1. AllIdle
  BY BeginsAlone DEF StoreWrites, CanWrite
<1>2. CacheTypeOK /\ Unique
  BY DEF CacheInv
<1>3. /\ Newer(b) \in Nat /\ newest \in [Blocks -> Nat] /\ newest' \in [Blocks -> Nat]
      /\ newest' = [newest EXCEPT ![b] = Newer(b)]
      /\ op \in Ops /\ next \in CallStates
  BY <1>2, NewerType DEF StoreWrites, Renewed, Ops, CallStates, CacheTypeOK
<1>4. PICK d : d = [Rest EXCEPT !.at = next, !.op = op, !.lba = b, !.data = Newer(b),
                                !.last = b, !.floor = newest]
  OBVIOUS
<1>5. call' = [call EXCEPT ![t] = d]
  BY <1>4 DEF StoreWrites, Called, Goes
<1>6. (next = "update" /\ op = "through") \/ (next = "insert" /\ op = "cached")
  OBVIOUS
<1> HIDE DEF next
<1>7. /\ d \in CallRecord /\ d.at = next /\ d.op = op /\ d.pending = <<>>
      /\ d.lba = b /\ d.last = b /\ d.data = Newer(b)
  <2>1. /\ d.at = next /\ d.op = op /\ d.pending = <<>>
        /\ d.lba = b /\ d.last = b /\ d.data = Newer(b)
    BY <1>4, RestFields DEF CallRecord
  <2>2. d \in CallRecord
    BY <1>3, <1>4, BlockIsNat, RestFields DEF CallRecord
  <2> QED
    BY <2>1, <2>2
<1>8. UNCHANGED <<slots, holder, queue, broken>> /\ disk' = [disk EXCEPT ![b] = Newer(b)]
  BY DEF StoreWrites
<1>9. CacheTypeOK' /\ Unique' /\ \A e : Cached(e)' <=> Cached(e)
  <2>1. lost' \subseteq Blocks /\ UNCHANGED <<budget, usage>>
    BY <1>2 DEF CacheTypeOK, StoreWrites, Renewed
  <2>2. CacheTypeOK'
    BY <1>2, <1>3, <1>5, <1>7, <1>8, <2>1 DEF CacheTypeOK
  <2>3. Unique' /\ \A e : Cached(e)' <=> Cached(e)
    BY <1>2, <1>8 DEF Unique, Cached
  <2> QED
    BY <2>2, <2>3
<1>10. /\ newest'[b] = Newer(b) /\ disk'[b] = Newer(b)
       /\ \A e \in Blocks \ {b} :
            newest'[e] = newest[e] /\ disk'[e] = disk[e] /\ (e \in lost' <=> e \in lost)
  BY <1>2, <1>3, <1>8 DEF CacheTypeOK, StoreWrites, Renewed
<1>11. /\ \A r \in Cells : slots[r].lba \in Blocks =>
            /\ Latest(slots[r].lba, slots[r].data)
            /\ ~slots[r].dirty => Level(slots[r].lba)
       /\ \A e \in Blocks : ~Cached(e) => Level(e)
  BY <1>1, Quiet
<1>12. PoolIsNewest(d)'
  <2> SUFFICES ASSUME NEW r \in Cells, slots'[r].lba \in Blocks, slots'[r].lba # b
               PROVE  /\ Latest(slots[r].lba, slots[r].data)'
                      /\ ~slots'[r].dirty => Level(slots[r].lba)'
    BY <1>6, <1>7 DEF PoolIsNewest, Level, Latest, StoreAhead
  <2>1. PICK e \in Blocks \ {b} : e = slots[r].lba /\ slots'[r] = slots[r]
    BY <1>8
  <2>2. /\ newest'[e] = newest[e] /\ disk'[e] = disk[e] /\ (e \in lost' <=> e \in lost)
        /\ Latest(e, slots[r].data) /\ (~slots[r].dirty => Latest(e, disk[e]))
    BY <1>10, <1>11, <2>1 DEF Level
  <2> QED
    BY <2>1, <2>2 DEF Level, Latest
<1>13. DeviceIsNewest(d)'
  BY <1>9, <1>10, <1>11 DEF DeviceIsNewest, Level, Latest
<1>14. UpdateKnows(d)'
  BY <1>6, <1>7, <1>10 DEF UpdateKnows, Level, Latest
<1>15. \A e \in Blocks : Spans(d, e) => e = b
  BY SMT, Z3T(40), <1>7 DEF Spans, Blocks
<1>16. b <= b
  BY SMT, Z3T(40) DEF Blocks
<1>17. InsertKnows(d)'
  BY <1>6, <1>7, <1>10, <1>15, <1>16 DEF InsertKnows, Level, Latest, Spans
<1> QED
  BY <1>1, <1>3, <1>5, <1>6, <1>7, <1>8, <1>9, <1>12, <1>13, <1>14, <1>17, BeginsWriting

LEMMA NothingMoved ==
  ASSUME NEW t, NEW c, CallKnows(t, c), UNCHANGED <<slots, holder, disk, queue, broken, newest, lost>>
  PROVE  CallKnows(t, c)'
<1>1. PoolIsNewest(c)' /\ DeviceIsNewest(c)'
  <2>1. PoolIsNewest(c) /\ DeviceIsNewest(c)
    BY DEF CallKnows
  <2> QED
    BY <2>1 DEF PoolIsNewest, DeviceIsNewest, Level, Latest, Cached
<1>2. FetchKnows(c)' /\ UpdateKnows(c)'
  <2>1. FetchKnows(c) /\ UpdateKnows(c)
    BY DEF CallKnows
  <2> QED
    BY <2>1 DEF FetchKnows, UpdateKnows, Level, Latest, Cached
<1>3. InsertKnows(c)' /\ EvictKnows(c)'
  <2>1. InsertKnows(c) /\ EvictKnows(c)
    BY DEF CallKnows
  <2> QED
    BY <2>1 DEF InsertKnows, EvictKnows, Level, Latest, Cached
<1>4. FlushKnows(t, c)'
  <2>1. FlushKnows(t, c)
    BY DEF CallKnows
  <2> QED
    BY <2>1 DEF FlushKnows, PendingAreNewest, PendingAreStamped, PendingAreDistinct,
                TriedArePending, AllAreTried, Level, Latest
<1>5. QueueIsAwaited(c)'
  <2>1. QueueIsAwaited(c)
    BY DEF CallKnows
  <2> QED
    BY <2>1 DEF QueueIsAwaited
<1> QED
  BY <1>1, <1>2, <1>3, <1>4, <1>5 DEF CallKnows

LEMMA SameQueue ==
  ASSUME NEW c, NEW d, QueueIsAwaited(c), d.pending = c.pending,
         d.at \notin {"submit", "wait"} => c.pending = <<>>, UNCHANGED <<queue, broken>>
  PROVE  QueueIsAwaited(d)'
<1>1. PICK p : p = c.pending
  OBVIOUS
<1>2. \A w \in queue \cup broken : \E i \in 1 .. Len(p) : p[i] = w
  BY <1>1 DEF QueueIsAwaited
<1>3. d.pending = p
  BY <1>1
<1>4. \A w \in queue' \cup broken' : \E i \in 1 .. Len(d.pending) : d.pending[i] = w
  BY <1>2, <1>3
<1>5. d.at \notin {"submit", "wait"} => d.pending = <<>>
  OBVIOUS
<1>6. queue' \cap broken' = {}
  BY DEF QueueIsAwaited
<1> QED
  BY <1>4, <1>5, <1>6 DEF QueueIsAwaited

(* A store that failed leaves its block in doubt, and nothing else. *)
LEMMA StoreFailsKeeps ==
  ASSUME OneCallAtATime, CacheInv, NEW t \in Callers, NEW b \in Blocks, NEW op, StoreFails(t, op, b)
  PROVE  CacheInv'
<1>1. AllIdle
  BY BeginsAlone DEF StoreFails, CanWrite
<1>2. CacheTypeOK /\ Unique
  BY DEF CacheInv
<1>3. PICK w : w = [by |-> t, lba |-> b, data |-> Newer(b)]
  OBVIOUS
<1>4. w.lba = b /\ w.data = Newer(b) /\ Newer(b) \in Nat
  BY <1>2, <1>3, NewerType
<1>5. WriteFails(w)
  BY <1>3 DEF StoreFails
<1>6. /\ disk' \in [Blocks -> Nat] /\ (\A e \in Blocks \ {b} : disk'[e] = disk[e])
      /\ queue' = queue /\ lost' = lost \cup {b} /\ budget' \in [failures : Nat, timeouts : {0}]
  BY <1>2, <1>4, <1>5, OneFails
<1>7. /\ newest' \in [Blocks -> Nat] /\ \A e \in Blocks \ {b} : newest'[e] = newest[e]
  BY <1>2, NewerType DEF StoreFails, CacheTypeOK
<1>8. UNCHANGED <<slots, holder, broken, call, usage>>
  BY DEF StoreFails
<1>9. CacheTypeOK' /\ Unique'
  BY <1>2, <1>6, <1>7, <1>8 DEF CacheTypeOK, Unique
<1>10. /\ holder' = Nobody /\ queue' = {} /\ broken' = {}
       /\ \A s \in Cells : slots[s].lba \in Blocks =>
             /\ Latest(slots[s].lba, slots[s].data)
             /\ ~slots[s].dirty => Level(slots[s].lba)
       /\ \A e \in Blocks : ~Cached(e) => Level(e)
  BY <1>1, <1>6, <1>8, Quiet
<1>11. /\ \A e \in Blocks : Level(e) => Level(e)'
       /\ \A e \in Blocks : \A v : Latest(e, v) => Latest(e, v)'
       /\ \A e : Cached(e)' <=> Cached(e)
  BY <1>6, <1>7, <1>8 DEF Level, Latest, Cached
<1>12. PICK d : d = Rest
  OBVIOUS
<1>13. d.at = "idle" /\ d.op = "none" /\ d.pending = <<>>
  BY <1>12, RestFields
<1>14. PoolIsNewest(d)' /\ DeviceIsNewest(d)'
  BY <1>8, <1>10, <1>11 DEF PoolIsNewest, DeviceIsNewest
<1>15. FetchKnows(d)' /\ InsertKnows(d)' /\ EvictKnows(d)' /\ UpdateKnows(d)' /\ FlushKnows(t, d)'
  BY <1>13 DEF FetchKnows, InsertKnows, EvictKnows, UpdateKnows, FlushKnows
<1>16. QueueIsAwaited(d)'
  BY <1>10, <1>13 DEF QueueIsAwaited
<1>17. CallKnows(t, d)'
  BY <1>10, <1>12, <1>13, <1>14, <1>15, <1>16 DEF CallKnows, Rest
<1>18. Solo(t)' /\ CallKnows(t, call[t])'
  BY <1>1, <1>8, <1>12, <1>17 DEF Solo, AllIdle
<1> QED
  BY <1>9, <1>18 DEF CacheInv

-----------------------------------------------------------------------------
(* A call goes on. *)

(* As long as no slot changes its block, the pool holds the same blocks. *)
LEMMA SameAddresses ==
  ASSUME Unique, \A s \in Cells : slots'[s].lba = slots[s].lba
  PROVE  Unique' /\ \A b : Cached(b)' <=> Cached(b)
<1>1. Unique'
  <2>1. SUFFICES ASSUME NEW s \in Cells, NEW r \in Cells,
                        slots'[s].lba = slots'[r].lba, slots'[s].lba \in Blocks
                 PROVE  s = r
    BY DEF Unique
  <2>2. slots'[s].lba = slots[s].lba /\ slots'[r].lba = slots[r].lba
    OBVIOUS
  <2>3. slots[s].lba = slots[r].lba /\ slots[s].lba \in Blocks
    BY <2>1, <2>2
  <2> QED
    BY <2>3 DEF Unique
<1>2. \A b : Cached(b)' <=> Cached(b)
  BY DEF Cached
<1> QED
  BY <1>1, <1>2

(* A call returns that has no news of its own. *)
LEMMA ReturnKeeps ==
  ASSUME CacheTypeOK, Unique, NEW t \in Callers, Solo(t), NEW c \in CallRecord, CallKnows(t, c),
         c.at \in {"fetch", "bump", "wait"}, c.pending = <<>>,
         call' = [call EXCEPT ![t] = Rest], CacheTypeOK',
         \A s \in Cells : /\ slots'[s].lba = slots[s].lba /\ slots'[s].data = slots[s].data
                          /\ slots'[s].dirty = slots[s].dirty,
         UNCHANGED <<holder, disk, queue, broken, newest, lost>>
  PROVE  CacheInv'
<1>1. PICK d : d = Rest
  OBVIOUS
<1>2. d \in CallRecord /\ d.at = "idle" /\ d.op = "none" /\ d.pending = <<>>
  BY <1>1, RestFields
<1>3. Unique' /\ (\A b : Cached(b)' <=> Cached(b)) /\ \A b : Level(b)' <=> Level(b)
  <2>1. \A s \in Cells : slots'[s].lba = slots[s].lba
    OBVIOUS
  <2>2. Unique' /\ \A b : Cached(b)' <=> Cached(b)
    BY <2>1, SameAddresses
  <2>3. \A b : Level(b)' <=> Level(b)
    BY DEF Level, Latest
  <2> QED
    BY <2>2, <2>3
<1>4. \A s \in Cells : slots[s].lba \in Blocks =>
         Latest(slots[s].lba, slots[s].data) /\ (~slots[s].dirty => Level(slots[s].lba))
  BY DEF CallKnows, PoolIsNewest, StoreAhead
<1>5. PoolIsNewest(d)'
  BY <1>4 DEF PoolIsNewest, Level, Latest
<1>6. DeviceIsNewest(d)'
  BY <1>3 DEF CallKnows, DeviceIsNewest
<1>7. FetchKnows(d)' /\ InsertKnows(d)' /\ EvictKnows(d)' /\ UpdateKnows(d)' /\ FlushKnows(t, d)'
  BY <1>2 DEF FetchKnows, InsertKnows, EvictKnows, UpdateKnows, FlushKnows
<1>8. QueueIsAwaited(d)'
  BY <1>2, SameQueue DEF CallKnows
<1>9. holder' = Nobody
  BY DEF CallKnows
<1>10. CallKnows(t, d)'
  BY <1>1, <1>2, <1>5, <1>6, <1>7, <1>8, <1>9 DEF CallKnows, Rest
<1> QED
  BY <1>1, <1>2, <1>3, <1>10, Concludes

LEMMA FetchKeeps ==
  ASSUME CacheTypeOK, Unique, NEW t \in Callers, Solo(t), CallKnows(t, call[t]), Fetch(t)
  PROVE  CacheInv'
<1>1. PICK c \in CallRecord : c = call[t]
  BY DEF CacheTypeOK
<1>2. /\ CallKnows(t, c) /\ c.at = "fetch" /\ c.last \in Blocks
      /\ UNCHANGED <<slots, holder, disk, queue, broken, newest, lost, budget, usage>>
  BY <1>1 DEF Fetch
<1>3. /\ c.op = "read" /\ c.lba \in Blocks /\ c.lba <= c.last
      /\ \A b \in Blocks : Spans(c, b) => ~Cached(b)
  BY <1>2 DEF CallKnows, FetchKnows
<1> DEFINE image == [b \in Blocks |-> IF b \in c.lba .. c.last THEN disk[b] ELSE 0]
<1>4. PICK d : d = [c EXCEPT !.at = "insert", !.data = disk[c.lba], !.image = image]
  OBVIOUS
<1>5. call' = [call EXCEPT ![t] = d]
  BY <1>1, <1>4 DEF Fetch, Goes
<1>6. image \in [Blocks -> Nat] /\ disk[c.lba] \in Nat /\ "insert" \in CallStates /\ c.pending = <<>>
  <2>1. 0 \in Nat
    OBVIOUS
  <2>2. c.pending = <<>>
    BY <1>2 DEF CallKnows, QueueIsAwaited
  <2> QED
    BY <1>3, <2>1, <2>2 DEF CacheTypeOK, CallStates
<1>7. /\ d.at = "insert" /\ d.data = disk[c.lba] /\ d.image = image /\ d.op = c.op /\ d.lba = c.lba
      /\ d.last = c.last /\ d.pending = c.pending
  <2> HIDE DEF image
  <2> QED
    BY <1>4 DEF CallRecord
<1>8. d \in CallRecord
  <2> HIDE DEF image
  <2> QED
    BY <1>4, <1>6 DEF CallRecord
<1>9. CacheTypeOK' /\ Unique'
  BY <1>2, <1>5, <1>8, TypeKept DEF CacheTypeOK, Unique
<1>10. (\A b : Cached(b)' <=> Cached(b)) /\ \A b : Level(b)' <=> Level(b)
  BY <1>2 DEF Cached, Level, Latest
<1>11. PoolIsNewest(d)'
  BY <1>2, <1>3, <1>7 DEF CallKnows, PoolIsNewest, StoreAhead, Level, Latest
<1>12. (\A b \in Blocks : ~Cached(b) => Level(b)) /\ DeviceIsNewest(d)'
  BY <1>2, <1>10 DEF CallKnows, DeviceIsNewest
<1>13. InsertKnows(d)'
  <2>1. \A b \in Blocks : Spans(d, b) => b \in c.lba .. c.last /\ Spans(c, b)
    BY SMT, Z3T(40), <1>3, <1>7, <1>2 DEF Spans, Blocks
  <2>2. \A b \in Blocks : Spans(d, b) => ~Cached(b) /\ Level(b) /\ Latest(b, d.image[b])
    BY <1>3, <1>7, <1>12, <2>1 DEF Level, Latest
  <2>3. Spans(c, c.lba)
    BY SMT, Z3T(40), <1>3 DEF Spans, Blocks
  <2>4. Level(c.lba)
    BY <1>3, <1>12, <2>3
  <2>5. Latest(d.lba, d.data)
    BY <1>7, <2>4 DEF Level
  <2> QED
    BY <1>2, <1>3, <1>7, <1>10, <2>2, <2>5 DEF InsertKnows, Spans, Latest
<1>14. FetchKnows(d)' /\ EvictKnows(d)' /\ UpdateKnows(d)' /\ FlushKnows(t, d)'
  BY <1>7 DEF FetchKnows, EvictKnows, UpdateKnows, FlushKnows
<1>15. QueueIsAwaited(d)' /\ holder' = Nobody
  BY <1>2, <1>6, <1>7, SameQueue DEF CallKnows
<1>16. CallKnows(t, d)'
  BY <1>3, <1>7, <1>11, <1>12, <1>13, <1>14, <1>15 DEF CallKnows
<1> QED
  BY <1>5, <1>8, <1>9, <1>16, Concludes

LEMMA FetchEndsKeeps ==
  ASSUME CacheTypeOK, Unique, NEW t \in Callers, Solo(t), CallKnows(t, call[t]),
         FetchPastEnd(t) \/ FetchFails(t) \/ FlushEnds(t)
  PROVE  CacheInv'
<1>1. PICK c \in CallRecord : c = call[t]
  BY DEF CacheTypeOK
<1>2. /\ CallKnows(t, c) /\ call' = [call EXCEPT ![t] = Rest]
      /\ c.at \in {"fetch", "wait"} /\ (c.at = "wait" => c.pending = <<>>)
      /\ UNCHANGED <<slots, holder, disk, queue, broken, newest, lost, usage>>
  BY <1>1 DEF FetchPastEnd, FetchFails, FlushEnds, Returns, Goes
<1>3. c.pending = <<>>
  BY <1>2 DEF CallKnows, QueueIsAwaited
<1>4. slots' \in [Cells -> SlotEntry] /\ budget' \in [failures : Nat, timeouts : {0}]
  BY <1>2, FailsType DEF CacheTypeOK, FetchPastEnd, FetchFails, FlushEnds
<1>5. CacheTypeOK'
  BY <1>2, <1>4, RestFields, TypeKept
<1> QED
  BY <1>2, <1>3, <1>5, ReturnKeeps

LEMMA RestampedSlots ==
  ASSUME slots \in [Cells -> SlotEntry], NEW s \in Cells, NEW v \in Callers \cup {Nobody},
         slots' = [slots EXCEPT ![s].stamp = v]
  PROVE  /\ slots' \in [Cells -> SlotEntry]
         /\ \A r \in Cells : /\ slots'[r].lba = slots[r].lba /\ slots'[r].data = slots[r].data
                             /\ slots'[r].dirty = slots[r].dirty
         /\ slots'[s].stamp = v /\ \A r \in Cells \ {s} : slots'[r].stamp = slots[r].stamp
<1>1. PICK e \in SlotEntry : e = slots[s]
  OBVIOUS
<1>2. slots' = [slots EXCEPT ![s] = [e EXCEPT !.stamp = v]]
  BY <1>1
<1>3. /\ [e EXCEPT !.stamp = v] \in SlotEntry
      /\ [e EXCEPT !.stamp = v].lba = e.lba /\ [e EXCEPT !.stamp = v].data = e.data
      /\ [e EXCEPT !.stamp = v].dirty = e.dirty /\ [e EXCEPT !.stamp = v].stamp = v
  BY DEF SlotEntry
<1>4. PICK f \in SlotEntry : f = [e EXCEPT !.stamp = v]
  BY <1>3
<1>5. slots' \in [Cells -> SlotEntry] /\ slots'[s] = f /\ \A r \in Cells \ {s} : slots'[r] = slots[r]
  BY <1>2, <1>4
<1>6. f.lba = e.lba /\ f.data = e.data /\ f.dirty = e.dirty /\ f.stamp = v
  BY <1>3, <1>4
<1> QED
  BY <1>1, <1>5, <1>6

LEMMA BumpKeeps ==
  ASSUME CacheTypeOK, Unique, NEW t \in Callers, Solo(t), CallKnows(t, call[t]), Bump(t)
  PROVE  CacheInv'
<1>1. PICK c \in CallRecord : c = call[t]
  BY DEF CacheTypeOK
<1>2. /\ CallKnows(t, c) /\ call' = [call EXCEPT ![t] = Rest] /\ c.at = "bump"
      /\ UNCHANGED <<holder, disk, queue, broken, newest, lost, budget, usage>>
  BY <1>1 DEF Bump, Returns, Goes
<1>3. c.pending = <<>>
  BY <1>2 DEF CallKnows, QueueIsAwaited
<1>4. /\ slots' \in [Cells -> SlotEntry]
      /\ \A s \in Cells : /\ slots'[s].lba = slots[s].lba /\ slots'[s].data = slots[s].data
                          /\ slots'[s].dirty = slots[s].dirty
  <2>1. slots \in [Cells -> SlotEntry]
    BY DEF CacheTypeOK
  <2>2. CASE UNCHANGED slots
    BY <2>1, <2>2
  <2>3. CASE \E s \in Cells : slots' = [slots EXCEPT ![s].stamp = Nobody]
    <3>1. PICK s \in Cells : slots' = [slots EXCEPT ![s].stamp = Nobody]
      BY <2>3
    <3> QED
      BY <2>1, <3>1, RestampedSlots
  <2> QED
    BY <2>2, <2>3 DEF Bump
<1>5. CacheTypeOK'
  <2>1. budget' \in [failures : Nat, timeouts : {0}]
    BY <1>2 DEF CacheTypeOK
  <2> QED
    BY <1>2, <1>4, <2>1, RestFields, TypeKept
<1> QED
  BY <1>2, <1>3, <1>4, <1>5, ReturnKeeps

-----------------------------------------------------------------------------
(* insert: the block takes its own slot, an empty one, or a clean one whose *)
(* content the device holds.                                                *)

LEMMA InsertedPool ==
  ASSUME CacheTypeOK, Unique, NEW t \in Callers, NEW c \in CallRecord, CallKnows(t, c),
         c.at \in {"insert", "place"}, NEW s \in Cells,
         \/ slots[s].lba = c.lba
         \/ ~Cached(c.lba) /\ (slots[s].lba \in Blocks => ~slots[s].dirty),
         slots' = [slots EXCEPT ![s] = Entry(c.lba, c.data, c.op = "back")],
         UNCHANGED <<disk, newest, lost>>
  PROVE  /\ slots' \in [Cells -> SlotEntry] /\ Unique'
         /\ \A r \in Cells : slots'[r].lba \in Blocks =>
               /\ Latest(slots'[r].lba, slots'[r].data)
               /\ ~slots'[r].dirty => Level(slots'[r].lba)
         /\ \A b \in Blocks : ~Cached(b)' => Level(b)
         /\ \A b : Cached(b)' => Cached(b) \/ b = c.lba
<1>1. slots \in [Cells -> SlotEntry]
  BY DEF CacheTypeOK
<1>2. PICK e : e = Entry(c.lba, c.data, c.op = "back")
  OBVIOUS
<1>3. InsertKnows(c) /\ PoolIsNewest(c) /\ DeviceIsNewest(c)
  BY DEF CallKnows
<1>4. c.lba \in Blocks /\ Latest(c.lba, c.data) /\ c.lba <= c.last
  BY <1>3 DEF InsertKnows
<1>5. e \in SlotEntry /\ e.lba = c.lba /\ e.data = c.data /\ (e.dirty <=> c.op = "back")
  <2>1. c.data \in Nat /\ (c.op = "back") \in BOOLEAN
    BY DEF CallRecord
  <2> QED
    BY <1>2, <1>4, <2>1 DEF Entry, SlotEntry
<1>6. /\ slots' \in [Cells -> SlotEntry] /\ slots'[s] = e
      /\ \A r \in Cells \ {s} : slots'[r] = slots[r]
  BY <1>1, <1>2, <1>5
<1>7. \A r \in Cells \ {s} : slots[r].lba # c.lba
  BY <1>4 DEF Unique, Cached
<1>8. Unique'
  <2>1. ASSUME NEW q \in Cells, NEW r \in Cells,
               slots'[q].lba = slots'[r].lba, slots'[q].lba \in Blocks
        PROVE  q = r
    <3>1. CASE q = s /\ r # s
      BY <2>1, <3>1, <1>5, <1>6, <1>7
    <3>2. CASE q # s /\ r = s
      BY <2>1, <3>2, <1>5, <1>6, <1>7
    <3>3. CASE q # s /\ r # s
      BY <2>1, <3>3, <1>6 DEF Unique
    <3> QED
      BY <3>1, <3>2, <3>3
  <2> QED
    BY <2>1 DEF Unique
<1>9. Level(c.lba) \/ c.op = "back"
  <2>1. Spans(c, c.lba)
    <3>1. c.lba <= c.lba
      BY SMT, Z3T(40), <1>4 DEF Blocks
    <3> QED
      BY <1>4, <3>1 DEF Spans
  <2> QED
    BY <1>3, <1>4, <2>1 DEF InsertKnows
<1>10. ASSUME NEW r \in Cells, slots'[r].lba \in Blocks
       PROVE  /\ Latest(slots'[r].lba, slots'[r].data)
              /\ ~slots'[r].dirty => Level(slots'[r].lba)
  <2>1. CASE r = s
    BY <2>1, <1>4, <1>5, <1>6, <1>9 DEF Level, Latest
  <2>2. CASE r # s
    <3>1. slots'[r] = slots[r] /\ ~StoreAhead(c, slots[r].lba)
      BY <2>2, <1>6, <1>7 DEF StoreAhead
    <3> QED
      BY <1>3, <1>10, <3>1 DEF PoolIsNewest, Level, Latest
  <2> QED
    BY <2>1, <2>2
<1>11. ASSUME NEW b \in Blocks, ~Cached(b)'
       PROVE  Level(b)
  <2>1. b # c.lba
    BY <1>5, <1>6, <1>11 DEF Cached
  <2>2. CASE ~Cached(b)
    BY <1>3, <2>1, <2>2 DEF DeviceIsNewest
  <2>3. CASE slots[s].lba = b
    <3>1. ~slots[s].dirty /\ ~StoreAhead(c, slots[s].lba)
      BY <2>1, <2>3 DEF StoreAhead
    <3> QED
      BY <1>3, <2>3, <3>1 DEF PoolIsNewest
  <2> QED
    BY <1>6, <1>11, <2>2, <2>3 DEF Cached
<1>12. \A b : Cached(b)' => Cached(b) \/ b = c.lba
  BY <1>5, <1>6 DEF Cached
<1> QED
  BY <1>6, <1>8, <1>10, <1>11, <1>12

LEMMA InsertingKeeps ==
  ASSUME CacheTypeOK, Unique, NEW t \in Callers, Solo(t), CallKnows(t, call[t]),
         call[t].at \in {"insert", "place"}, NEW s \in Cells,
         \/ slots[s].lba = call[t].lba
         \/ ~Cached(call[t].lba) /\ (slots[s].lba \in Blocks => ~slots[s].dirty),
         slots' = [slots EXCEPT ![s] = InsertedEntry(t)], Inserted(t),
         UNCHANGED <<holder, disk, queue, broken, newest, lost, budget, usage>>
  PROVE  CacheInv'
<1>1. PICK c \in CallRecord : c = call[t]
  BY DEF CacheTypeOK
<1>2. /\ CallKnows(t, c) /\ c.at \in {"insert", "place"}
      /\ \/ slots[s].lba = c.lba
         \/ ~Cached(c.lba) /\ (slots[s].lba \in Blocks => ~slots[s].dirty)
      /\ slots' = [slots EXCEPT ![s] = Entry(c.lba, c.data, c.op = "back")]
  BY <1>1 DEF InsertedEntry
<1>3. /\ slots' \in [Cells -> SlotEntry] /\ Unique'
      /\ \A r \in Cells : slots'[r].lba \in Blocks =>
            /\ Latest(slots'[r].lba, slots'[r].data)
            /\ ~slots'[r].dirty => Level(slots'[r].lba)
      /\ \A b \in Blocks : ~Cached(b)' => Level(b)
      /\ \A b : Cached(b)' => Cached(b) \/ b = c.lba
  BY <1>2, InsertedPool
<1>4. budget' \in [failures : Nat, timeouts : {0}]
  BY DEF CacheTypeOK
<1>5. InsertKnows(c) /\ QueueIsAwaited(c) /\ c.pending = <<>> /\ holder' = Nobody
  BY <1>2 DEF CallKnows, QueueIsAwaited
<1>6. ASSUME NEW d \in CallRecord, call' = [call EXCEPT ![t] = d],
             d.at \in {"idle", "insert"}, d.at = "idle" => d = Rest,
             d.at = "insert" => d.op = "read", d.pending = <<>>, InsertKnows(d)'
      PROVE  CacheInv'
  <2>1. CacheTypeOK'
    BY <1>3, <1>4, <1>6, TypeKept
  <2>2. PoolIsNewest(d)' /\ DeviceIsNewest(d)'
    BY <1>3 DEF PoolIsNewest, DeviceIsNewest, Level, Latest
  <2>3. FetchKnows(d)' /\ EvictKnows(d)' /\ UpdateKnows(d)' /\ FlushKnows(t, d)'
    BY <1>6 DEF FetchKnows, EvictKnows, UpdateKnows, FlushKnows
  <2>4. QueueIsAwaited(d)'
    BY <1>5, <1>6, SameQueue
  <2>5. d.at # "idle" => d.op # "none"
    BY <1>6
  <2>6. CallKnows(t, d)'
    BY <1>5, <1>6, <2>2, <2>3, <2>4, <2>5 DEF CallKnows
  <2> QED
    BY <1>3, <1>6, <2>1, <2>6, Concludes
<1>7. CASE c.lba < c.last
  <2>1. PICK d : d = [c EXCEPT !.at = "insert", !.lba = c.lba + 1, !.data = c.image[c.lba + 1]]
    OBVIOUS
  <2>2. call' = [call EXCEPT ![t] = d]
    BY <1>1, <1>7, <2>1 DEF Inserted, Goes
  <2>3. c.lba \in Blocks /\ c.last \in Blocks /\ c.op = "read"
    <3>1. c.lba \in Blocks /\ c.last \in Blocks /\ (c.op # "read" => c.last = c.lba)
      BY <1>2, <1>5 DEF InsertKnows
    <3>2. c.last # c.lba
      BY <1>7, <3>1, SmallerIsOther
    <3> QED
      BY <3>1, <3>2
  <2>4. c.lba + 1 \in Blocks /\ c.lba + 1 <= c.last /\ c.lba + 1 \in Nat
    BY SMT, Z3T(40), <1>7, <2>3, CacheAssumption DEF Blocks
  <2>5. PICK k \in Nat : k = c.lba + 1
    BY <2>4
  <2>6. c.image[k] \in Nat
    BY <2>4, <2>5 DEF CallRecord
  <2>7. PICK v \in Nat : v = c.image[k]
    BY <2>6
  <2>8. d = [c EXCEPT !.at = "insert", !.lba = k, !.data = v]
    BY <2>1, <2>5, <2>7
  <2>9. /\ d.at = "insert" /\ d.op = c.op /\ d.lba = k /\ d.data = v /\ d.last = c.last
        /\ d.image = c.image /\ d.pending = c.pending
    BY <2>8 DEF CallRecord
  <2>10. d \in CallRecord
    BY <2>8 DEF CallRecord, CallStates
  <2>11. \A b \in Blocks : Spans(d, b) => Spans(c, b) /\ b # c.lba
    <3>1. \A b \in Blocks : k <= b => c.lba <= b /\ b # c.lba
      BY <2>3, <2>5, FromTheNext
    <3> QED
      BY <2>9, <3>1 DEF Spans
  <2>12. \A b \in Blocks : Spans(c, b) => Level(b) /\ Latest(b, c.image[b])
    BY <1>2, <1>5, <2>3 DEF InsertKnows
  <2>13. \A b \in Blocks : Spans(c, b) => ~Cached(b)
    BY <1>2, <1>5, <2>3 DEF InsertKnows
  <2>14. Spans(c, k)
    <3>1. c.lba <= k
      BY <2>3, <2>5, FromTheNext
    <3> QED
      BY <2>4, <2>5, <3>1 DEF Spans
  <2>15. Latest(k, v)
    BY <2>4, <2>5, <2>7, <2>12, <2>14
  <2>16. \A b \in Blocks : Spans(d, b) => Level(b) /\ Latest(b, d.image[b]) /\ ~Cached(b)'
    BY <1>3, <2>9, <2>11, <2>12, <2>13
  <2>17. InsertKnows(d)'
    BY <2>3, <2>4, <2>5, <2>9, <2>15, <2>16 DEF InsertKnows, Level, Latest
  <2> QED
    BY <1>5, <1>6, <2>2, <2>3, <2>9, <2>10, <2>17
<1>8. CASE ~(c.lba < c.last)
  <2>1. call' = [call EXCEPT ![t] = Rest]
    BY <1>1, <1>8 DEF Inserted, Returns, Goes
  <2>2. InsertKnows(Rest)'
    BY RestFields DEF InsertKnows
  <2> QED
    BY <1>6, <2>1, <2>2, RestFields
<1> QED
  BY <1>7, <1>8

LEMMA InsertKeeps ==
  ASSUME CacheTypeOK, Unique, NEW t \in Callers, Solo(t), CallKnows(t, call[t]),
         Insert(t) \/ Place(t)
  PROVE  CacheInv'
<1>1. call[t].at \in {"insert", "place"} /\ Inserted(t)
      /\ UNCHANGED <<holder, disk, queue, broken, newest, lost, budget, usage>>
  BY DEF Insert, Place
<1>2. EMPTY_LBA \notin Blocks
  BY CacheAssumption
<1>3. CASE Insert(t)
  <2>1. PICK s \in Cells : /\ InPlace(t, s) \/ IntoEmpty(t, s) \/ OverClean(t, s)
                           /\ slots' = [slots EXCEPT ![s] = InsertedEntry(t)]
    BY <1>3 DEF Insert
  <2>2. \/ slots[s].lba = call[t].lba
        \/ ~Cached(call[t].lba) /\ (slots[s].lba \in Blocks => ~slots[s].dirty)
    BY <1>2, <2>1 DEF InPlace, IntoEmpty, OverClean, Found
  <2> QED
    BY <1>1, <2>1, <2>2, InsertingKeeps
<1>4. CASE Place(t)
  <2>1. PICK s \in Cells : Found(s, EMPTY_LBA) /\ slots' = [slots EXCEPT ![s] = InsertedEntry(t)]
    BY <1>4 DEF Place
  <2>2. PICK c : c = call[t]
    OBVIOUS
  <2>3. InsertKnows(c) /\ c.at = "place"
    BY <1>4, <2>2 DEF Place, CallKnows
  <2>4. c.lba \in Blocks /\ c.lba <= c.last /\ c.lba <= c.lba
    <3>1. c.lba \in Blocks /\ c.lba <= c.last
      BY <2>3 DEF InsertKnows
    <3>2. c.lba <= c.lba
      BY SMT, Z3T(40), <3>1 DEF Blocks
    <3> QED
      BY <3>1, <3>2
  <2>5. ~Cached(c.lba)
    BY <2>3, <2>4 DEF InsertKnows, Spans
  <2>6. ~Cached(call[t].lba) /\ (slots[s].lba \in Blocks => ~slots[s].dirty)
    BY <1>2, <2>1, <2>2, <2>5 DEF Found
  <2> QED
    BY <1>1, <2>1, <2>6, InsertingKeeps
<1> QED
  BY <1>3, <1>4

-----------------------------------------------------------------------------
(* insert with every slot dirty: the victim leaves the pool, and the device *)
(* has it before the slot is taken.                                         *)

LEMMA EvictKeeps ==
  ASSUME CacheTypeOK, Unique, NEW t \in Callers, Solo(t), CallKnows(t, call[t]), Evict(t)
  PROVE  CacheInv'
<1>1. PICK c \in CallRecord : c = call[t]
  BY DEF CacheTypeOK
<1>2. /\ CallKnows(t, c) /\ c.at = "insert" /\ ~Cached(c.lba) /\ ~Cached(EMPTY_LBA)
      /\ UNCHANGED <<holder, disk, queue, broken, newest, lost, budget, usage>>
  BY <1>1 DEF Evict
<1>3. PICK s \in Cells : /\ slots' = [slots EXCEPT ![s] = EmptySlot]
                         /\ call' = [call EXCEPT ![t] = [c EXCEPT !.at = "evict", !.victim = slots[s]]]
  BY <1>1 DEF Evict, Goes
<1>4. slots \in [Cells -> SlotEntry] /\ EMPTY_LBA \notin Blocks
  BY CacheAssumption DEF CacheTypeOK
<1>5. PICK e \in SlotEntry : e = slots[s]
  BY <1>4
<1>6. e.lba \in Blocks /\ e.lba # c.lba
  BY <1>2, <1>4, <1>5 DEF SlotEntry, Cached
<1>7. PICK d : d = [c EXCEPT !.at = "evict", !.victim = e]
  OBVIOUS
<1>8. call' = [call EXCEPT ![t] = d]
  BY <1>3, <1>5, <1>7
<1>9. /\ d.at = "evict" /\ d.victim = e /\ d.op = c.op /\ d.lba = c.lba /\ d.data = c.data
      /\ d.last = c.last /\ d.image = c.image /\ d.pending = c.pending
  BY <1>7 DEF CallRecord
<1>10. d \in CallRecord
  BY <1>7 DEF CallRecord, CallStates
<1>11. EmptySlot \in SlotEntry /\ EmptySlot.lba = EMPTY_LBA
  <2>1. 0 \in Nat
    OBVIOUS
  <2> QED
    BY <2>1 DEF EmptySlot, SlotEntry
<1>12. /\ slots' \in [Cells -> SlotEntry] /\ slots'[s].lba = EMPTY_LBA
       /\ \A r \in Cells \ {s} : slots'[r] = slots[r]
  BY <1>3, <1>4, <1>11
<1>13. CacheTypeOK'
  <2>1. budget' \in [failures : Nat, timeouts : {0}]
    BY <1>2 DEF CacheTypeOK
  <2> QED
    BY <1>2, <1>8, <1>10, <1>12, <2>1, TypeKept
<1>14. Unique'
  BY <1>4, <1>12 DEF Unique
<1>15. InsertKnows(c) /\ PoolIsNewest(c) /\ DeviceIsNewest(c) /\ QueueIsAwaited(c) /\ holder' = Nobody
  BY <1>2 DEF CallKnows
<1>16. \A r \in Cells : slots[r].lba \in Blocks => ~StoreAhead(c, slots[r].lba)
  BY <1>2 DEF StoreAhead, Cached
<1>17. PoolIsNewest(d)'
  BY <1>2, <1>4, <1>12, <1>15, <1>16 DEF PoolIsNewest, Level, Latest
<1>18. \A b \in Blocks : Cached(b)' => Cached(b) /\ b # e.lba
  BY <1>4, <1>5, <1>6, <1>12 DEF Cached, Unique
<1>19. \A b \in Blocks : ~Cached(b)' => ~Cached(b) \/ b = e.lba
  BY <1>5, <1>12 DEF Cached
<1>20. DeviceIsNewest(d)'
  BY <1>2, <1>9, <1>15, <1>19 DEF DeviceIsNewest, Level, Latest
<1>21. \A b \in Blocks : Spans(c, b) => ~Cached(b)
  <2>1. CASE c.op # "cached"
    BY <1>2, <1>15, <2>1 DEF InsertKnows
  <2>2. CASE c.op = "cached"
    <3>1. c.last = c.lba /\ c.lba \in Blocks
      BY <1>2, <1>15, <2>2 DEF InsertKnows
    <3>2. \A b \in Blocks : Spans(c, b) => b = c.lba
      BY SMT, Z3T(40), <3>1 DEF Spans, Blocks
    <3> QED
      BY <1>2, <3>2
  <2> QED
    BY <2>1, <2>2
<1>22. \A b : Spans(d, b) <=> Spans(c, b)
  BY <1>9 DEF Spans
<1>23. InsertKnows(d)'
  <2>1. \A b \in Blocks : Spans(d, b) => ~Cached(b)'
    BY <1>18, <1>21, <1>22
  <2>2. c.op # "back" => \A b \in Blocks : Spans(d, b) => Level(b)'
    BY <1>2, <1>15, <1>22 DEF InsertKnows, Level, Latest
  <2>3. c.op = "read" => \A b \in Blocks : Spans(d, b) => Latest(b, c.image[b])'
    BY <1>2, <1>15, <1>22 DEF InsertKnows, Latest
  <2>4. /\ c.op \in {"read", "back", "cached"} /\ c.lba \in Blocks /\ c.last \in Blocks
        /\ c.lba <= c.last /\ Latest(c.lba, c.data)' /\ (c.op # "read" => c.last = c.lba)
    BY <1>2, <1>15 DEF InsertKnows, Latest
  <2> QED
    BY <1>9, <2>1, <2>2, <2>3, <2>4 DEF InsertKnows
<1>24. EvictKnows(d)'
  <2>1. ~Spans(d, e.lba)
    BY <1>5, <1>6, <1>21, <1>22 DEF Cached
  <2>2. Latest(e.lba, e.data)
    BY <1>5, <1>6, <1>15, <1>16 DEF PoolIsNewest
  <2> QED
    BY <1>2, <1>6, <1>9, <1>18, <2>1, <2>2 DEF EvictKnows, Latest
<1>25. FetchKnows(d)' /\ UpdateKnows(d)' /\ FlushKnows(t, d)'
  BY <1>9 DEF FetchKnows, UpdateKnows, FlushKnows
<1>26. QueueIsAwaited(d)'
  <2>1. c.pending = <<>>
    BY <1>2, <1>15 DEF QueueIsAwaited
  <2> QED
    BY <1>2, <1>9, <1>15, <2>1, SameQueue
<1>27. d.op # "none"
  BY <1>2, <1>9 DEF CallKnows
<1>28. CallKnows(t, d)'
  BY <1>9, <1>15, <1>17, <1>20, <1>23, <1>24, <1>25, <1>26, <1>27 DEF CallKnows
<1> QED
  BY <1>8, <1>10, <1>13, <1>14, <1>28, Concludes

LEMMA EvictWritesKeeps ==
  ASSUME CacheTypeOK, Unique, NEW t \in Callers, Solo(t), CallKnows(t, call[t]),
         EvictWrites(t) \/ EvictFails(t)
  PROVE  CacheInv'
<1>1. PICK c \in CallRecord : c = call[t]
  BY DEF CacheTypeOK
<1>2. /\ CallKnows(t, c) /\ c.at = "evict"
      /\ UNCHANGED <<slots, holder, broken, newest, usage>>
  BY <1>1 DEF EvictWrites, EvictFails
<1>3. PICK d : d = [c EXCEPT !.at = "place", !.victim = EmptySlot]
  OBVIOUS
<1>4. call' = [call EXCEPT ![t] = d]
  BY <1>1, <1>3 DEF EvictWrites, EvictFails, Goes
<1>5. EmptySlot \in SlotEntry
  <2>1. 0 \in Nat
    OBVIOUS
  <2> QED
    BY <2>1 DEF EmptySlot, SlotEntry
<1>6. /\ d.at = "place" /\ d.op = c.op /\ d.lba = c.lba /\ d.data = c.data
      /\ d.last = c.last /\ d.image = c.image /\ d.pending = c.pending
  BY <1>3 DEF CallRecord
<1>7. d \in CallRecord
  BY <1>3, <1>5 DEF CallRecord, CallStates
<1>8. /\ InsertKnows(c) /\ EvictKnows(c) /\ PoolIsNewest(c) /\ DeviceIsNewest(c) /\ QueueIsAwaited(c)
      /\ holder' = Nobody
  BY <1>2 DEF CallKnows
<1>9. PICK a \in Blocks : a = c.victim.lba
  BY <1>2, <1>8 DEF EvictKnows
<1>10. ~Cached(a) /\ Latest(a, c.victim.data) /\ c.victim.data \in Nat
  BY <1>2, <1>8, <1>9 DEF EvictKnows, CallRecord, SlotEntry
<1>11. /\ disk' \in [Blocks -> Nat] /\ queue' = queue /\ lost' \subseteq Blocks
       /\ budget' \in [failures : Nat, timeouts : {0}]
       /\ \A b \in Blocks \ {a} : disk'[b] = disk[b] /\ (b \in lost' <=> b \in lost)
       /\ a \in lost' \/ (disk'[a] = c.victim.data /\ lost' = lost)
  <2>1. CASE EvictWrites(t)
    <3>1. disk' = [disk EXCEPT ![a] = c.victim.data] /\ UNCHANGED <<queue, lost, budget>>
      BY <1>1, <1>9, <2>1 DEF EvictWrites
    <3> QED
      BY <1>10, <3>1 DEF CacheTypeOK
  <2>2. CASE EvictFails(t)
    <3>1. PICK w : w = [by |-> t, lba |-> c.victim.lba, data |-> c.victim.data]
      OBVIOUS
    <3>2. w.lba = a /\ w.data \in Nat /\ WriteFails(w)
      BY <1>1, <1>9, <1>10, <2>2, <3>1 DEF EvictFails
    <3>3. /\ disk' \in [Blocks -> Nat] /\ (\A e \in Blocks \ {a} : disk'[e] = disk[e])
          /\ queue' = queue /\ lost' = lost \cup {a}
          /\ budget' \in [failures : Nat, timeouts : {0}]
      BY <3>2, OneFails
    <3> QED
      BY <3>3 DEF CacheTypeOK
  <2> QED
    BY <2>1, <2>2
<1>12. CacheTypeOK' /\ Unique'
  BY <1>2, <1>4, <1>7, <1>11 DEF CacheTypeOK, Unique
<1>13. /\ \A b \in Blocks : (Level(b) => Level(b)') /\ \A v : Latest(b, v) => Latest(b, v)'
       /\ Level(a)'
  <2>1. \A b \in Blocks : b \in lost => b \in lost'
    BY <1>11
  <2>2. \A b \in Blocks : \A v : Latest(b, v) => Latest(b, v)'
    BY <1>2, <2>1 DEF Latest
  <2>3. Level(a)'
    BY <1>10, <1>11, <2>2 DEF Level, Latest
  <2>4. \A b \in Blocks \ {a} : Level(b) => Level(b)'
    BY <1>2, <1>11 DEF Level, Latest
  <2> QED
    BY <2>2, <2>3, <2>4
<1>14. \A b : Cached(b)' <=> Cached(b)
  BY <1>2 DEF Cached
<1>15. PoolIsNewest(d)'
  <2>1. ASSUME NEW r \in Cells, slots[r].lba \in Blocks
        PROVE  /\ Latest(slots[r].lba, slots[r].data)
               /\ ~slots[r].dirty => Level(slots[r].lba)
    <3>1. ~StoreAhead(c, slots[r].lba)
      BY <1>2 DEF StoreAhead
    <3> QED
      BY <1>8, <2>1, <3>1 DEF PoolIsNewest
  <2> QED
    BY <1>2, <1>13, <2>1 DEF PoolIsNewest
<1>16. DeviceIsNewest(d)'
  BY <1>2, <1>6, <1>8, <1>9, <1>13, <1>14 DEF DeviceIsNewest
<1>17. \A b : Spans(d, b) <=> Spans(c, b)
  BY <1>6 DEF Spans
<1>18. InsertKnows(d)'
  <2>1. \A b \in Blocks : Spans(d, b) => ~Cached(b)'
    BY <1>2, <1>8, <1>14, <1>17 DEF InsertKnows
  <2>2. c.op # "back" => \A b \in Blocks : Spans(d, b) => Level(b)'
    BY <1>2, <1>8, <1>13, <1>17 DEF InsertKnows
  <2>3. c.op = "read" => \A b \in Blocks : Spans(d, b) => Latest(b, c.image[b])'
    BY <1>2, <1>8, <1>13, <1>17 DEF InsertKnows
  <2>4. /\ c.op \in {"read", "back", "cached"} /\ c.lba \in Blocks /\ c.last \in Blocks
        /\ c.lba <= c.last /\ Latest(c.lba, c.data)' /\ (c.op # "read" => c.last = c.lba)
    BY <1>2, <1>8, <1>13 DEF InsertKnows
  <2> QED
    BY <1>6, <2>1, <2>2, <2>3, <2>4 DEF InsertKnows
<1>19. FetchKnows(d)' /\ EvictKnows(d)' /\ UpdateKnows(d)' /\ FlushKnows(t, d)'
  BY <1>6 DEF FetchKnows, EvictKnows, UpdateKnows, FlushKnows
<1>20. QueueIsAwaited(d)' /\ d.op # "none"
  <2>1. c.pending = <<>> /\ d.op # "none"
    BY <1>2, <1>6, <1>8 DEF QueueIsAwaited, CallKnows
  <2> QED
    BY <1>2, <1>6, <1>8, <1>11, <2>1, SameQueue
<1>21. CallKnows(t, d)'
  BY <1>6, <1>8, <1>15, <1>16, <1>18, <1>19, <1>20 DEF CallKnows
<1> QED
  BY <1>4, <1>7, <1>12, <1>21, Concludes

-----------------------------------------------------------------------------
(* write_through brings the entry up to date after the device. *)

LEMMA UpdateKeeps ==
  ASSUME CacheTypeOK, Unique, NEW t \in Callers, Solo(t), CallKnows(t, call[t]), Update(t)
  PROVE  CacheInv'
<1>1. PICK c \in CallRecord : c = call[t]
  BY DEF CacheTypeOK
<1>2. /\ CallKnows(t, c) /\ c.at = "update"
      /\ UNCHANGED <<holder, disk, queue, broken, newest, lost, budget, usage>>
  BY <1>1 DEF Update
<1>3. /\ c.op = "through" /\ c.lba \in Blocks /\ Latest(c.lba, c.data) /\ Level(c.lba)
      /\ c.pending = <<>> /\ holder' = Nobody
  BY <1>2 DEF CallKnows, UpdateKnows, QueueIsAwaited
<1>4. slots \in [Cells -> SlotEntry] /\ c.data \in Nat
  BY DEF CacheTypeOK, CallRecord
<1>5. ASSUME NEW d \in CallRecord, call' = [call EXCEPT ![t] = d], d.at \in {"idle", "bump"},
             d.at = "idle" => d = Rest, d.at = "bump" => d.op = "through", d.pending = <<>>,
             slots' \in [Cells -> SlotEntry],
             \A r \in Cells : /\ slots'[r].lba = slots[r].lba
                              /\ slots[r].lba = c.lba => slots'[r].data = c.data
                              /\ slots[r].lba # c.lba => slots'[r] = slots[r]
      PROVE  CacheInv'
  <2>1. CacheTypeOK'
    <3>1. budget' \in [failures : Nat, timeouts : {0}]
      BY <1>2 DEF CacheTypeOK
    <3> QED
      BY <1>2, <1>5, <3>1, TypeKept
  <2>2. Unique' /\ \A b : Cached(b)' <=> Cached(b)
    BY <1>5, SameAddresses
  <2>3. PoolIsNewest(d)'
    <3>1. ASSUME NEW r \in Cells, slots[r].lba \in Blocks
          PROVE  /\ Latest(slots[r].lba, slots'[r].data)
                 /\ ~slots'[r].dirty => Level(slots[r].lba)
      <4>1. CASE slots[r].lba = c.lba
        BY <1>3, <1>5, <4>1 DEF Level, Latest
      <4>2. CASE slots[r].lba # c.lba
        <5>1. ~StoreAhead(c, slots[r].lba)
          BY <4>2 DEF StoreAhead
        <5> QED
          BY <1>2, <1>5, <3>1, <4>2, <5>1 DEF CallKnows, PoolIsNewest, Level, Latest
      <4> QED
        BY <4>1, <4>2
    <3> QED
      BY <1>2, <1>5, <3>1 DEF PoolIsNewest, Level, Latest
  <2>4. DeviceIsNewest(d)'
    BY <1>2, <2>2 DEF CallKnows, DeviceIsNewest, Level, Latest
  <2>5. FetchKnows(d)' /\ InsertKnows(d)' /\ EvictKnows(d)' /\ UpdateKnows(d)' /\ FlushKnows(t, d)'
    BY <1>5 DEF FetchKnows, InsertKnows, EvictKnows, UpdateKnows, FlushKnows
  <2>6. QueueIsAwaited(d)'
    BY <1>2, <1>3, <1>5, SameQueue DEF CallKnows
  <2>7. d.at # "idle" => d.op # "none"
    BY <1>5
  <2>8. CallKnows(t, d)'
    BY <1>3, <1>5, <2>3, <2>4, <2>5, <2>6, <2>7 DEF CallKnows
  <2> QED
    BY <1>5, <2>1, <2>2, <2>8, Concludes
<1>6. CASE ~Cached(c.lba) /\ Returns(t) /\ UNCHANGED slots
  <2>1. call' = [call EXCEPT ![t] = Rest] /\ slots' \in [Cells -> SlotEntry]
    BY <1>4, <1>6 DEF Returns, Goes
  <2>2. \A r \in Cells : slots'[r] = slots[r] /\ slots[r].lba # c.lba
    BY <1>6 DEF Cached
  <2> QED
    BY <1>5, <2>1, <2>2, RestFields
<1>7. ASSUME NEW s \in Cells, Found(s, c.lba), Moves(t, "bump"),
             slots' = [slots EXCEPT ![s].data = c.data, ![s].dirty = FALSE]
      PROVE  CacheInv'
  <2>1. /\ slots' \in [Cells -> SlotEntry]
        /\ slots'[s].lba = slots[s].lba /\ slots'[s].data = c.data
        /\ \A r \in Cells \ {s} : slots'[r] = slots[r]
    BY <1>4, <1>7 DEF SlotEntry
  <2>2. slots[s].lba = c.lba /\ \A r \in Cells \ {s} : slots[r].lba # c.lba
    BY <1>3, <1>7 DEF Found, Unique
  <2>3. PICK d : d = [c EXCEPT !.at = "bump"]
    OBVIOUS
  <2>4. d \in CallRecord /\ d.at = "bump" /\ d.op = c.op /\ d.pending = c.pending
    <3>1. d.at = "bump" /\ d.op = c.op /\ d.pending = c.pending
      BY <2>3 DEF CallRecord
    <3>2. d \in CallRecord
      BY <2>3 DEF CallRecord, CallStates
    <3> QED
      BY <3>1, <3>2
  <2>5. call' = [call EXCEPT ![t] = d]
    BY <1>1, <1>7, <2>3 DEF Moves, Goes
  <2> QED
    BY <1>3, <1>5, <2>1, <2>2, <2>4, <2>5
<1> QED
  BY <1>1, <1>6, <1>7 DEF Update

-----------------------------------------------------------------------------
(* The flush. *)

LEMMA FlushGoesOn ==
  ASSUME CacheTypeOK, Unique, NEW t \in Callers, Solo(t), NEW c \in CallRecord, CallKnows(t, c),
         c.at \in {"submit", "wait"},
         NEW d \in CallRecord, d.at \in {"submit", "wait"}, d.op = "flush",
         call' = [call EXCEPT ![t] = d], CacheTypeOK', UNCHANGED <<disk, newest, lost>>,
         \A r \in Cells : /\ slots'[r].lba = slots[r].lba /\ slots'[r].data = slots[r].data
                          /\ slots'[r].dirty = slots[r].dirty \/ Level(slots[r].lba),
         holder' # Nobody => holder' = t /\ d.at = "submit",
         FlushKnows(t, d)', QueueIsAwaited(d)'
  PROVE  CacheInv'
<1>1. Unique' /\ (\A b : Cached(b)' <=> Cached(b)) /\ \A b : Level(b)' <=> Level(b)
  <2>1. \A s \in Cells : slots'[s].lba = slots[s].lba
    OBVIOUS
  <2>2. Unique' /\ \A b : Cached(b)' <=> Cached(b)
    BY <2>1, SameAddresses
  <2>3. \A b : Level(b)' <=> Level(b)
    BY DEF Level, Latest
  <2> QED
    BY <2>2, <2>3
<1>2. \A r \in Cells : slots[r].lba \in Blocks =>
         /\ Latest(slots[r].lba, slots[r].data)
         /\ ~slots'[r].dirty => Level(slots[r].lba)
  <2>1. PoolIsNewest(c) /\ \A b : ~StoreAhead(c, b)
    BY DEF CallKnows, StoreAhead
  <2> QED
    BY <2>1 DEF PoolIsNewest
<1>3. PoolIsNewest(d)'
  BY <1>2 DEF PoolIsNewest, Level, Latest
<1>4. DeviceIsNewest(d)'
  BY <1>1 DEF CallKnows, DeviceIsNewest
<1>5. FetchKnows(d)' /\ InsertKnows(d)' /\ EvictKnows(d)' /\ UpdateKnows(d)'
  BY DEF FetchKnows, InsertKnows, EvictKnows, UpdateKnows
<1>6. CallKnows(t, d)'
  BY <1>3, <1>4, <1>5 DEF CallKnows
<1> QED
  BY <1>1, <1>6, Concludes

LEMMA RestOfWrites ==
  ASSUME NEW p \in Seq(DeviceWrite), p # <<>>
  PROVE  \E q \in Seq(DeviceWrite) :
            /\ q = Tail(p) /\ 1 \in 1 .. Len(p) /\ Head(p) = p[1]
            /\ \A i \in 1 .. Len(q) : i + 1 \in 1 .. Len(p) /\ q[i] = p[i + 1] /\ i + 1 # 1
            /\ \A i, j \in 1 .. Len(q) : i + 1 = j + 1 => i = j
            /\ \A j \in 1 .. Len(p) : j = 1 \/ \E i \in 1 .. Len(q) : q[i] = p[j]
<1>1. PICK q : q = Tail(p)
  OBVIOUS
<1>2. q \in Seq(DeviceWrite) /\ Len(q) = Len(p) - 1 /\ Len(p) \in Nat /\ Len(p) >= 1
  BY SMT, Z3T(40), <1>1
<1>3. Head(p) = p[1] /\ \A i \in 1 .. Len(q) : q[i] = p[i + 1]
  BY SMT, Z3T(40), <1>1
<1>4. \A i \in 1 .. Len(q) : i + 1 \in 1 .. Len(p) /\ i + 1 # 1
  BY SMT, Z3T(40), <1>2
<1>5. \A i, j \in 1 .. Len(q) : i + 1 = j + 1 => i = j
  BY SMT, Z3T(40), <1>2
<1>6. ASSUME NEW j \in 1 .. Len(p), j # 1
      PROVE  \E i \in 1 .. Len(q) : q[i] = p[j]
  <2>1. j - 1 \in 1 .. Len(q) /\ (j - 1) + 1 = j
    BY SMT, Z3T(40), <1>2, <1>6
  <2>2. q[j - 1] = p[j]
    BY <1>3, <2>1
  <2> QED
    BY <2>1, <2>2
<1>7. 1 \in 1 .. Len(p)
  BY SMT, Z3T(40), <1>2
<1> QED
  BY <1>1, <1>2, <1>3, <1>4, <1>5, <1>6, <1>7

(* One more write is queued, of a block that was not tried before. *)
LEMMA PendingGrows ==
  ASSUME NEW t, NEW p \in Seq(DeviceWrite), NEW w \in DeviceWrite, NEW tried,
         w.lba \notin tried, Latest(w.lba, w.data),
         PendingAreNewest(p, tried), PendingAreDistinct(p), PendingAreStamped(t, p),
         UNCHANGED <<disk, broken, newest, lost>>, queue' = queue \cup {w},
         \A r \in Cells : /\ slots'[r].lba = slots[r].lba
                          /\ slots'[r].stamp \in {t, slots[r].stamp}
                          /\ slots[r].lba = w.lba => slots'[r].stamp = t
  PROVE  \E q \in Seq(DeviceWrite) :
            /\ q = Append(p, w)
            /\ \A i \in 1 .. Len(p) : i \in 1 .. Len(q) /\ q[i] = p[i]
            /\ \E i \in 1 .. Len(q) : q[i] = w
            /\ PendingAreNewest(q, tried \cup {w.lba})'
            /\ PendingAreDistinct(q) /\ PendingAreStamped(t, q)'
<1>1. PICK q : q = Append(p, w)
  OBVIOUS
<1>2. /\ q \in Seq(DeviceWrite)
      /\ \A i \in 1 .. Len(p) : i \in 1 .. Len(q) /\ q[i] = p[i]
      /\ \A i \in 1 .. Len(q) : (i \in 1 .. Len(p) /\ q[i] = p[i]) \/ (i = Len(q) /\ q[i] = w)
  BY SMT, Z3T(40), <1>1
<1>3. \E i \in 1 .. Len(q) : q[i] = w
  <2>1. Len(q) \in 1 .. Len(q) /\ q[Len(q)] = w
    BY SMT, Z3T(40), <1>1
  <2> QED
    BY <2>1
<1>4. ASSUME NEW i \in 1 .. Len(q)
      PROVE  /\ q[i].lba \in tried \cup {w.lba} /\ Latest(q[i].lba, q[i].data)
             /\ q[i] \notin queue' \cup broken' => Level(q[i].lba)
  <2>1. CASE i \in 1 .. Len(p) /\ q[i] = p[i]
    <3>1. /\ p[i].lba \in tried /\ Latest(p[i].lba, p[i].data)
          /\ p[i] \notin queue \cup broken => Level(p[i].lba)
      BY <2>1 DEF PendingAreNewest
    <3> QED
      BY <2>1, <3>1
  <2>2. CASE q[i] = w
    BY <2>2
  <2> QED
    BY <1>2, <2>1, <2>2
<1>5. ASSUME NEW i \in 1 .. Len(q), NEW r \in Cells, slots'[r].lba = q[i].lba
      PROVE  slots'[r].stamp = t
  <2>1. CASE i \in 1 .. Len(p) /\ q[i] = p[i]
    <3>1. slots[r].lba = p[i].lba
      BY <1>5, <2>1
    <3>2. slots[r].stamp = t
      BY <2>1, <3>1 DEF PendingAreStamped
    <3> QED
      BY <3>2
  <2>2. CASE q[i] = w
    BY <1>5, <2>2
  <2> QED
    BY <1>2, <2>1, <2>2
<1>6. \A k \in 1 .. Len(p) : p[k].lba # w.lba
  BY DEF PendingAreNewest
<1>7. ASSUME NEW i \in 1 .. Len(q), NEW j \in 1 .. Len(q), q[i].lba = q[j].lba
      PROVE  i = j
  <2>1. CASE i \in 1 .. Len(p) /\ q[i] = p[i] /\ j \in 1 .. Len(p) /\ q[j] = p[j]
    BY <1>7, <2>1 DEF PendingAreDistinct
  <2>2. CASE i \in 1 .. Len(p) /\ q[i] = p[i] /\ q[j] = w
    BY <1>6, <1>7, <2>2
  <2>3. CASE j \in 1 .. Len(p) /\ q[j] = p[j] /\ q[i] = w
    BY <1>6, <1>7, <2>3
  <2>4. (i \in 1 .. Len(p) /\ q[i] = p[i]) \/ (i = Len(q) /\ q[i] = w)
    BY <1>2
  <2>5. (j \in 1 .. Len(p) /\ q[j] = p[j]) \/ (j = Len(q) /\ q[j] = w)
    BY <1>2
  <2> QED
    BY <2>1, <2>2, <2>3, <2>4, <2>5
<1>8. PendingAreNewest(q, tried \cup {w.lba})'
  BY <1>4 DEF PendingAreNewest, Level, Latest
<1>9. PendingAreDistinct(q) /\ PendingAreStamped(t, q)'
  BY <1>5, <1>7 DEF PendingAreDistinct, PendingAreStamped
<1> QED
  BY <1>1, <1>2, <1>3, <1>8, <1>9

LEMMA SubmitKeeps ==
  ASSUME CacheTypeOK, Unique, NEW t \in Callers, Solo(t), CallKnows(t, call[t]), Submit(t)
  PROVE  CacheInv'
<1>1. PICK c \in CallRecord : c = call[t]
  BY DEF CacheTypeOK
<1>2. /\ CallKnows(t, c) /\ c.at = "submit" /\ ~c.failed /\ holder' = t
      /\ UNCHANGED <<disk, broken, newest, lost, budget, usage>>
  BY <1>1 DEF Submit, Submitting
<1>3. PICK s \in Cells :
        /\ Selected(t, s) /\ slots' = [slots EXCEPT ![s].stamp = t]
        /\ queue' = queue \cup {QueuedWrite(t, s)}
        /\ call' = [call EXCEPT ![t] = [c EXCEPT !.tried = c.tried \cup {slots[s].lba},
                                                 !.pending = Append(c.pending, QueuedWrite(t, s))]]
  BY <1>1 DEF Submit, Goes
<1>4. PICK a : a = slots[s].lba
  OBVIOUS
<1>5. a \notin c.tried /\ a \in Blocks
  <2>1. slots[s].dirty /\ a \in c.want /\ a \notin c.tried
    BY <1>1, <1>3, <1>4 DEF Selected, Selectable
  <2> QED
    BY <2>1 DEF CallRecord
<1>6. slots \in [Cells -> SlotEntry]
  BY DEF CacheTypeOK
<1>7. PICK w : w = QueuedWrite(t, s)
  OBVIOUS
<1>8. w \in DeviceWrite /\ w.lba = a /\ w.data = slots[s].data
  <2>1. slots[s].data \in Nat
    BY <1>6 DEF SlotEntry
  <2> QED
    BY <1>4, <1>5, <1>7, <2>1 DEF QueuedWrite, DeviceWrite
<1>9. PICK p \in Seq(DeviceWrite) : p = c.pending
  BY DEF CallRecord
<1>10. /\ slots' \in [Cells -> SlotEntry]
       /\ \A r \in Cells : /\ slots'[r].lba = slots[r].lba /\ slots'[r].data = slots[r].data
                           /\ slots'[r].dirty = slots[r].dirty
       /\ slots'[s].stamp = t /\ \A r \in Cells \ {s} : slots'[r].stamp = slots[r].stamp
  BY <1>3, <1>6, RestampedSlots
<1>11. \A r \in Cells : /\ slots'[r].stamp \in {t, slots[r].stamp}
                        /\ slots[r].lba = a => slots'[r].stamp = t
  BY <1>4, <1>5, <1>10 DEF Unique
<1>12. FlushKnows(t, c) /\ QueueIsAwaited(c) /\ PoolIsNewest(c)
  BY <1>2 DEF CallKnows
<1>13. /\ c.op = "flush" /\ c.floor = newest
       /\ PendingAreNewest(p, c.tried) /\ PendingAreStamped(t, p) /\ PendingAreDistinct(p)
       /\ TriedArePending(p, c.tried)
  BY <1>2, <1>9, <1>12 DEF FlushKnows
<1>14. Latest(w.lba, w.data)
  <2>1. ~StoreAhead(c, slots[s].lba)
    BY <1>2 DEF StoreAhead
  <2> QED
    BY <1>4, <1>5, <1>8, <1>12, <2>1 DEF PoolIsNewest
<1>15. queue' = queue \cup {w}
  BY <1>3, <1>7
<1>16. PICK q \in Seq(DeviceWrite) :
         /\ q = Append(p, w)
         /\ \A i \in 1 .. Len(p) : i \in 1 .. Len(q) /\ q[i] = p[i]
         /\ \E i \in 1 .. Len(q) : q[i] = w
         /\ PendingAreNewest(q, c.tried \cup {w.lba})'
         /\ PendingAreDistinct(q) /\ PendingAreStamped(t, q)'
  <2>1. w.lba \notin c.tried
    BY <1>5, <1>8
  <2>2. \A r \in Cells : /\ slots'[r].lba = slots[r].lba
                         /\ slots'[r].stamp \in {t, slots[r].stamp}
                         /\ slots[r].lba = w.lba => slots'[r].stamp = t
    BY <1>8, <1>10, <1>11
  <2> QED
    BY <1>2, <1>8, <1>13, <1>14, <1>15, <2>1, <2>2, PendingGrows
<1>17. PICK tried \in SUBSET Blocks : tried = c.tried \cup {a}
  BY <1>5 DEF CallRecord
<1>18. PICK d : d = [c EXCEPT !.tried = tried, !.pending = q]
  OBVIOUS
<1>19. call' = [call EXCEPT ![t] = d]
  BY <1>3, <1>4, <1>7, <1>9, <1>16, <1>17, <1>18
<1>20. /\ d.at = c.at /\ d.op = c.op /\ d.tried = tried /\ d.pending = q /\ d.failed = c.failed
       /\ d.floor = c.floor
  BY <1>18 DEF CallRecord
<1>21. d \in CallRecord
  BY <1>18 DEF CallRecord
<1>22. CacheTypeOK'
  BY <1>2, <1>8, <1>10, <1>15, <1>19, <1>21 DEF CacheTypeOK
<1>23. ASSUME NEW r \in Cells, slots'[r].dirty, slots'[r].lba \in tried
       PROVE  \E i \in 1 .. Len(q) : q[i].lba = slots'[r].lba
  <2>1. CASE slots[r].lba = a
    BY <1>8, <1>10, <1>16, <2>1
  <2>2. CASE slots[r].lba # a
    <3>1. slots[r].dirty /\ slots[r].lba \in c.tried
      BY <1>10, <1>17, <1>23, <2>2
    <3>2. PICK i \in 1 .. Len(p) : p[i].lba = slots[r].lba
      BY <1>13, <3>1 DEF TriedArePending
    <3> QED
      BY <1>10, <1>16, <3>2
  <2> QED
    BY <2>1, <2>2
<1>24. FlushKnows(t, d)'
  <2>1. TriedArePending(q, tried)'
    BY <1>23 DEF TriedArePending
  <2>2. PendingAreNewest(q, tried)'
    BY <1>8, <1>16, <1>17
  <2> QED
    BY <1>2, <1>13, <1>16, <1>20, <2>1, <2>2 DEF FlushKnows
<1>25. QueueIsAwaited(d)'
  <2>1. \A v \in queue \cup broken : \E i \in 1 .. Len(p) : p[i] = v
    BY <1>9, <1>12 DEF QueueIsAwaited
  <2>2. \A v \in queue' \cup broken' : \E i \in 1 .. Len(q) : q[i] = v
    BY <1>2, <1>15, <1>16, <2>1
  <2>3. w \notin broken
    <3>1. \A i \in 1 .. Len(p) : p[i].lba # a
      BY <1>5, <1>13 DEF PendingAreNewest
    <3> QED
      BY <1>8, <2>1, <3>1
  <2>4. queue' \cap broken' = {}
    BY <1>2, <1>12, <1>15, <2>3 DEF QueueIsAwaited
  <2> QED
    BY <1>2, <1>20, <2>2, <2>4 DEF QueueIsAwaited
<1> QED
  BY <1>2, <1>10, <1>13, <1>19, <1>20, <1>21, <1>22, <1>24, <1>25, FlushGoesOn

LEMMA SubmitOverKeeps ==
  ASSUME CacheTypeOK, Unique, NEW t \in Callers, Solo(t), CallKnows(t, call[t]),
         SubmitFails(t) \/ SubmitEnds(t)
  PROVE  CacheInv'
<1>1. PICK c \in CallRecord : c = call[t]
  BY DEF CacheTypeOK
<1>2. /\ CallKnows(t, c) /\ c.at = "submit" /\ holder' = Nobody
      /\ UNCHANGED <<disk, queue, broken, newest, lost, usage>>
  BY <1>1 DEF SubmitFails, SubmitEnds, Submitting
<1>3. slots \in [Cells -> SlotEntry]
  BY DEF CacheTypeOK
<1>4. budget' \in [failures : Nat, timeouts : {0}]
  BY FailsType DEF SubmitFails, SubmitEnds, CacheTypeOK
<1>5. FlushKnows(t, c) /\ QueueIsAwaited(c)
  BY <1>2 DEF CallKnows
<1>6. PICK p \in Seq(DeviceWrite) : p = c.pending
  BY DEF CallRecord
<1>7. /\ c.op = "flush" /\ c.floor = newest
      /\ PendingAreNewest(p, c.tried) /\ PendingAreStamped(t, p) /\ PendingAreDistinct(p)
      /\ ~c.failed => TriedArePending(p, c.tried)
  BY <1>2, <1>5, <1>6 DEF FlushKnows
<1>8. ASSUME NEW d \in CallRecord, call' = [call EXCEPT ![t] = d], d.at = "wait", d.op = c.op,
             d.tried = c.tried, d.pending = p, d.floor = c.floor, ~d.failed => ~c.failed,
             slots' \in [Cells -> SlotEntry],
             \A r \in Cells : /\ slots'[r].lba = slots[r].lba /\ slots'[r].data = slots[r].data
                              /\ slots'[r].dirty = slots[r].dirty
                              /\ slots'[r].stamp \in {t, slots[r].stamp},
             ~d.failed /\ p = <<>> => AllAreTried(d)'
      PROVE  CacheInv'
  <2>1. CacheTypeOK'
    BY <1>2, <1>4, <1>8 DEF CacheTypeOK
  <2>2. PendingAreNewest(p, c.tried)'
    BY <1>2, <1>7 DEF PendingAreNewest, Level, Latest
  <2>3. PendingAreStamped(t, p)'
    <3>1. ASSUME NEW i \in 1 .. Len(p), NEW r \in Cells, slots'[r].lba = p[i].lba
          PROVE  slots'[r].stamp = t
      <4>1. slots[r].lba = p[i].lba
        BY <1>8, <3>1
      <4>2. slots[r].stamp = t
        BY <1>7, <4>1 DEF PendingAreStamped
      <4> QED
        BY <1>8, <4>2
    <3> QED
      BY <3>1 DEF PendingAreStamped
  <2>4. ~d.failed => TriedArePending(p, c.tried)'
    <3>1. ASSUME ~d.failed, NEW r \in Cells, slots'[r].dirty, slots'[r].lba \in c.tried
          PROVE  \E i \in 1 .. Len(p) : p[i].lba = slots'[r].lba
      <4>1. slots[r].dirty /\ slots[r].lba \in c.tried /\ TriedArePending(p, c.tried)
        BY <1>7, <1>8, <3>1
      <4>2. PICK i \in 1 .. Len(p) : p[i].lba = slots[r].lba
        BY <4>1 DEF TriedArePending
      <4> QED
        BY <1>8, <4>2
    <3> QED
      BY <3>1 DEF TriedArePending
  <2>5. FlushKnows(t, d)'
    BY <1>2, <1>7, <1>8, <2>2, <2>3, <2>4 DEF FlushKnows
  <2>6. QueueIsAwaited(d)'
    BY <1>2, <1>5, <1>6, <1>8, SameQueue
  <2> QED
    BY <1>2, <1>7, <1>8, <2>1, <2>5, <2>6, FlushGoesOn
<1>9. CASE SubmitFails(t)
  <2>1. PICK s \in Cells : slots' = [slots EXCEPT ![s].stamp = t]
    BY <1>9 DEF SubmitFails
  <2>2. /\ slots' \in [Cells -> SlotEntry]
        /\ \A r \in Cells : /\ slots'[r].lba = slots[r].lba /\ slots'[r].data = slots[r].data
                            /\ slots'[r].dirty = slots[r].dirty
        /\ slots'[s].stamp = t /\ \A r \in Cells \ {s} : slots'[r].stamp = slots[r].stamp
    BY <1>3, <2>1, RestampedSlots
  <2>3. PICK d : d = [c EXCEPT !.at = "wait", !.failed = TRUE]
    OBVIOUS
  <2>4. call' = [call EXCEPT ![t] = d]
    BY <1>1, <1>9, <2>3 DEF SubmitFails, Goes
  <2>5. /\ d.at = "wait" /\ d.op = c.op /\ d.tried = c.tried /\ d.pending = p /\ d.failed = TRUE
        /\ d.floor = c.floor
    BY <1>6, <2>3 DEF CallRecord
  <2>6. d \in CallRecord
    BY <2>3 DEF CallRecord, CallStates
  <2>7. \A r \in Cells : slots'[r].stamp \in {t, slots[r].stamp}
    BY <2>2
  <2> QED
    BY <1>8, <2>2, <2>4, <2>5, <2>6, <2>7
<1>10. CASE SubmitEnds(t)
  <2>1. PICK d : d = [c EXCEPT !.at = "wait"]
    OBVIOUS
  <2>2. /\ d.at = "wait" /\ d.op = c.op /\ d.want = c.want /\ d.tried = c.tried /\ d.pending = p
        /\ d.failed = c.failed /\ d.floor = c.floor
    BY <1>6, <2>1 DEF CallRecord
  <2>3. d \in CallRecord
    BY <2>1 DEF CallRecord, CallStates
  <2>4. call' = [call EXCEPT ![t] = d] /\ UNCHANGED slots
    BY <1>1, <1>10, <2>1 DEF SubmitEnds, Moves, Goes
  <2>5. p = <<>> => ~(Len(p) >= QueueDepth)
    BY SMT, Z3T(40), CacheAssumption
  <2>6. ~d.failed /\ p = <<>> => AllAreTried(d)'
    BY <1>1, <1>6, <1>10, <2>2, <2>4, <2>5 DEF SubmitEnds, Selectable, AllAreTried
  <2> QED
    BY <1>3, <1>8, <2>2, <2>3, <2>4, <2>6
<1> QED
  BY <1>9, <1>10

(* The oldest write is off the list. *)
LEMMA PendingShrinks ==
  ASSUME NEW t, NEW p \in Seq(DeviceWrite), p # <<>>, NEW tried,
         PendingAreNewest(p, tried), PendingAreDistinct(p), PendingAreStamped(t, p),
         UNCHANGED <<disk, queue, newest, lost>>, broken' \in {broken, broken \ {Head(p)}},
         \A r \in Cells : slots'[r].lba = slots[r].lba /\ slots'[r].stamp = slots[r].stamp
  PROVE  \E q \in Seq(DeviceWrite) :
            /\ q = Tail(p)
            /\ Head(p) = p[1] /\ 1 \in 1 .. Len(p)
            /\ \A j \in 1 .. Len(p) : j = 1 \/ \E i \in 1 .. Len(q) : q[i] = p[j]
            /\ PendingAreNewest(q, tried)'
            /\ PendingAreDistinct(q) /\ PendingAreStamped(t, q)'
<1>1. PICK q \in Seq(DeviceWrite) :
        /\ q = Tail(p) /\ 1 \in 1 .. Len(p) /\ Head(p) = p[1]
        /\ \A i \in 1 .. Len(q) : i + 1 \in 1 .. Len(p) /\ q[i] = p[i + 1] /\ i + 1 # 1
        /\ \A i, j \in 1 .. Len(q) : i + 1 = j + 1 => i = j
        /\ \A j \in 1 .. Len(p) : j = 1 \/ \E i \in 1 .. Len(q) : q[i] = p[j]
  BY RestOfWrites
<1>2. ASSUME NEW i \in 1 .. Len(q)
      PROVE  /\ q[i].lba \in tried /\ Latest(q[i].lba, q[i].data)
             /\ q[i] \notin queue' \cup broken' => Level(q[i].lba)
  <2>1. PICK j \in 1 .. Len(p) : j = i + 1 /\ q[i] = p[j] /\ j # 1
    BY <1>1
  <2>2. /\ p[j].lba \in tried /\ Latest(p[j].lba, p[j].data)
        /\ p[j] \notin queue \cup broken => Level(p[j].lba)
    BY DEF PendingAreNewest
  <2>3. p[j] # Head(p)
    <3>1. p[j].lba # p[1].lba
      BY <1>1, <2>1 DEF PendingAreDistinct
    <3> QED
      BY <1>1, <3>1
  <2> QED
    BY <2>1, <2>2, <2>3
<1>3. ASSUME NEW i \in 1 .. Len(q), NEW r \in Cells, slots'[r].lba = q[i].lba
      PROVE  slots'[r].stamp = t
  <2>1. PICK j \in 1 .. Len(p) : q[i] = p[j]
    BY <1>1
  <2>2. slots[r].lba = p[j].lba
    BY <1>3, <2>1
  <2>3. slots[r].stamp = t
    BY <2>2 DEF PendingAreStamped
  <2> QED
    BY <2>3
<1>4. ASSUME NEW i \in 1 .. Len(q), NEW j \in 1 .. Len(q), q[i].lba = q[j].lba
      PROVE  i = j
  <2>1. PICK k \in 1 .. Len(p) : k = i + 1 /\ q[i] = p[k]
    BY <1>1
  <2>2. PICK l \in 1 .. Len(p) : l = j + 1 /\ q[j] = p[l]
    BY <1>1
  <2>3. k = l
    BY <1>4, <2>1, <2>2 DEF PendingAreDistinct
  <2>4. i + 1 = j + 1
    BY <2>1, <2>2, <2>3
  <2> QED
    BY <1>1, <2>4
<1>5. PendingAreNewest(q, tried)'
  BY <1>2 DEF PendingAreNewest, Level, Latest
<1>6. PendingAreDistinct(q) /\ PendingAreStamped(t, q)'
  BY <1>3, <1>4 DEF PendingAreDistinct, PendingAreStamped
<1> QED
  BY <1>1, <1>5, <1>6

LEMMA WaitKeeps ==
  ASSUME CacheTypeOK, Unique, NEW t \in Callers, Solo(t), CallKnows(t, call[t]),
         WaitDone(t) \/ WaitFailed(t)
  PROVE  CacheInv'
<1>1. PICK c \in CallRecord : c = call[t]
  BY DEF CacheTypeOK
<1>2. /\ CallKnows(t, c) /\ c.at = "wait" /\ c.pending # <<>>
      /\ UNCHANGED <<holder, disk, queue, newest, lost, budget, usage>>
  BY <1>1 DEF WaitDone, WaitFailed, Waiting
<1>3. slots \in [Cells -> SlotEntry]
  BY DEF CacheTypeOK
<1>4. FlushKnows(t, c) /\ QueueIsAwaited(c) /\ holder' = Nobody
  BY <1>2 DEF CallKnows
<1>5. PICK p \in Seq(DeviceWrite) : p = c.pending
  BY DEF CallRecord
<1>6. /\ c.op = "flush" /\ c.floor = newest /\ p # <<>>
      /\ PendingAreNewest(p, c.tried) /\ PendingAreStamped(t, p) /\ PendingAreDistinct(p)
      /\ ~c.failed => TriedArePending(p, c.tried)
  BY <1>2, <1>4, <1>5 DEF FlushKnows
<1>7. PICK h : h = Head(p)
  OBVIOUS
<1>8. Oldest(t) = h
  BY <1>1, <1>5, <1>7 DEF Oldest
<1>9. /\ WaitDone(t) => h \notin queue \cup broken /\ broken' = broken
      /\ WaitFailed(t) => h \in broken /\ broken' = broken \ {h} /\ slots' = slots
  BY <1>8 DEF WaitDone, WaitFailed
<1>10. /\ slots' \in [Cells -> SlotEntry]
       /\ \A r \in Cells : /\ slots'[r].lba = slots[r].lba /\ slots'[r].data = slots[r].data
                           /\ slots'[r].stamp = slots[r].stamp
                           /\ slots'[r].dirty = slots[r].dirty \/ slots'[r].dirty = FALSE
                           /\ slots'[r].dirty # slots[r].dirty => WaitDone(t) /\ slots[r].lba = h.lba
  <2>1. CASE slots' = slots
    BY <1>3, <2>1
  <2>2. CASE WaitDone(t) /\ \E s \in Cells : Retires(t, s) /\ slots' = [slots EXCEPT ![s].dirty = FALSE]
    <3>1. PICK s \in Cells : Retires(t, s) /\ slots' = [slots EXCEPT ![s].dirty = FALSE]
      BY <2>2
    <3>2. slots[s].lba = h.lba
      BY <1>8, <3>1 DEF Retires
    <3>3. PICK e \in SlotEntry : e = slots[s]
      BY <1>3
    <3>4. PICK f : f = [e EXCEPT !.dirty = FALSE]
      OBVIOUS
    <3>5. /\ f \in SlotEntry /\ f.lba = e.lba /\ f.data = e.data /\ f.stamp = e.stamp
          /\ f.dirty = FALSE
      BY <3>4 DEF SlotEntry
    <3>6. slots' = [slots EXCEPT ![s] = f]
      BY <3>1, <3>3, <3>4
    <3>7. slots' \in [Cells -> SlotEntry] /\ slots'[s] = f /\ \A r \in Cells \ {s} : slots'[r] = slots[r]
      BY <1>3, <3>5, <3>6
    <3> QED
      BY <2>2, <3>2, <3>3, <3>5, <3>7
  <2> QED
    BY <1>9, <2>1, <2>2 DEF WaitDone
<1>11. PICK q \in Seq(DeviceWrite) :
         /\ q = Tail(p)
         /\ Head(p) = p[1] /\ 1 \in 1 .. Len(p)
         /\ \A j \in 1 .. Len(p) : j = 1 \/ \E i \in 1 .. Len(q) : q[i] = p[j]
         /\ PendingAreNewest(q, c.tried)'
         /\ PendingAreDistinct(q) /\ PendingAreStamped(t, q)'
  <2>1. broken' \in {broken, broken \ {Head(p)}}
    BY <1>7, <1>9
  <2>2. \A r \in Cells : slots'[r].lba = slots[r].lba /\ slots'[r].stamp = slots[r].stamp
    BY <1>10
  <2> QED
    BY <1>2, <1>6, <2>1, <2>2, PendingShrinks
<1>12. h = p[1] /\ (h \notin queue \cup broken => Level(h.lba))
  BY <1>6, <1>7, <1>11 DEF PendingAreNewest
<1>13. PICK failed \in BOOLEAN : /\ failed = (c.failed \/ WaitFailed(t))
                                 /\ call' = [call EXCEPT ![t] = [c EXCEPT !.at = "submit", !.pending = q,
                                                                          !.failed = failed]]
  <2>1. c.failed \in BOOLEAN
    BY DEF CallRecord
  <2>2. ~(WaitDone(t) /\ WaitFailed(t))
    BY <1>9
  <2>3. CASE WaitDone(t)
    <3>1. call' = [call EXCEPT ![t] = [c EXCEPT !.at = "submit", !.pending = q,
                                                !.failed = c.failed \/ FALSE]]
      BY <1>1, <1>5, <1>11, <2>3 DEF WaitDone, WaitedFor, Goes
    <3>2. (c.failed \/ FALSE) = c.failed /\ c.failed = (c.failed \/ WaitFailed(t))
      BY <2>1, <2>2, <2>3
    <3> QED
      BY <2>1, <3>1, <3>2
  <2>4. CASE WaitFailed(t)
    <3>1. call' = [call EXCEPT ![t] = [c EXCEPT !.at = "submit", !.pending = q,
                                                !.failed = c.failed \/ TRUE]]
      BY <1>1, <1>5, <1>11, <2>4 DEF WaitFailed, WaitedFor, Goes
    <3>2. (c.failed \/ TRUE) = TRUE /\ TRUE = (c.failed \/ WaitFailed(t))
      BY <2>4
    <3> QED
      BY <3>1, <3>2
  <2> QED
    BY <2>3, <2>4
<1>14. PICK d : d = [c EXCEPT !.at = "submit", !.pending = q, !.failed = failed]
  OBVIOUS
<1>15. /\ d.at = "submit" /\ d.op = c.op /\ d.tried = c.tried /\ d.pending = q /\ d.failed = failed
       /\ d.floor = c.floor
  BY <1>14 DEF CallRecord
<1>16. d \in CallRecord
  BY <1>14 DEF CallRecord, CallStates
<1>17. CacheTypeOK' /\ call' = [call EXCEPT ![t] = d]
  <2>1. broken' \subseteq DeviceWrite
    BY <1>9 DEF CacheTypeOK
  <2> QED
    BY <1>2, <1>10, <1>13, <1>14, <1>16, <2>1 DEF CacheTypeOK
<1>18. ASSUME ~failed, NEW r \in Cells, slots'[r].dirty, slots'[r].lba \in c.tried
       PROVE  \E i \in 1 .. Len(q) : q[i].lba = slots'[r].lba
  <2>1. WaitDone(t) /\ ~c.failed /\ slots[r].dirty /\ slots[r].lba \in c.tried
    BY <1>10, <1>13, <1>18
  <2>2. PICK j \in 1 .. Len(p) : p[j].lba = slots[r].lba
    BY <1>6, <2>1 DEF TriedArePending
  <2>3. CASE j = 1
    <3>1. slots[r].lba = h.lba /\ slots[r].stamp = t
      BY <1>6, <1>12, <2>2, <2>3 DEF PendingAreStamped
    <3>2. slots[r].lba \in Blocks
      BY <2>1 DEF CallRecord
    <3>3. \A k \in 1 .. (r - 1) : k \in Cells /\ k # r
      BY SMT, Z3T(40), CacheAssumption DEF Cells
    <3>4. \A k \in 1 .. (r - 1) : ~(slots[k].lba = h.lba /\ slots[k].stamp = t)
      BY <3>1, <3>2, <3>3 DEF Unique
    <3>5. Retires(t, r)
      BY <1>8, <3>1, <3>4 DEF Retires
    <3>6. PICK s \in Cells : Retires(t, s) /\ slots' = [slots EXCEPT ![s].dirty = FALSE]
      BY <2>1, <3>5 DEF WaitDone
    <3>7. s = r
      BY <1>8, <3>1, <3>2, <3>6 DEF Retires, Unique
    <3>8. slots'[r].dirty = FALSE
      BY <1>3, <3>6, <3>7 DEF SlotEntry
    <3> QED
      BY <1>18, <3>8
  <2>4. CASE j # 1
    <3>1. PICK i \in 1 .. Len(q) : q[i] = p[j]
      BY <1>11, <2>4
    <3> QED
      BY <1>10, <2>2, <3>1
  <2> QED
    BY <2>3, <2>4
<1>19. FlushKnows(t, d)'
  <2>1. ~failed => TriedArePending(q, c.tried)'
    BY <1>18 DEF TriedArePending
  <2> QED
    BY <1>2, <1>6, <1>11, <1>15, <2>1 DEF FlushKnows
<1>20. QueueIsAwaited(d)'
  <2>1. /\ \A v \in queue \cup broken : \E i \in 1 .. Len(p) : p[i] = v
        /\ queue \cap broken = {}
    BY <1>4, <1>5 DEF QueueIsAwaited
  <2>2. ASSUME NEW v \in queue' \cup broken'
        PROVE  \E i \in 1 .. Len(q) : q[i] = v
    <3>1. v \in queue \cup broken /\ v # h
      BY <1>2, <1>9, <2>1, <2>2
    <3>2. PICK j \in 1 .. Len(p) : p[j] = v
      BY <2>1, <3>1
    <3> QED
      BY <1>11, <1>12, <3>1, <3>2
  <2>3. queue' \cap broken' = {}
    BY <1>2, <1>9, <2>1
  <2> QED
    BY <1>15, <2>2, <2>3 DEF QueueIsAwaited
<1>21. \A r \in Cells : /\ slots'[r].lba = slots[r].lba /\ slots'[r].data = slots[r].data
                        /\ slots'[r].dirty = slots[r].dirty \/ Level(slots[r].lba)
  BY <1>9, <1>10, <1>12
<1> QED
  BY <1>2, <1>4, <1>6, <1>15, <1>16, <1>17, <1>19, <1>20, <1>21, FlushGoesOn

-----------------------------------------------------------------------------
(* The device finishes a queued write, whatever the flush is doing. *)

LEMMA DeviceKeeps ==
  ASSUME CacheInv, DeviceStep
  PROVE  CacheInv'
<1>1. CacheTypeOK /\ Unique
  BY DEF CacheInv
<1>2. PICK t \in Callers : Solo(t) /\ CallKnows(t, call[t])
  BY DEF CacheInv
<1>3. PICK c \in CallRecord : c = call[t]
  BY <1>1 DEF CacheTypeOK
<1>4. PICK w \in queue : Lands(w) \/ Breaks(w)
  BY DEF DeviceStep
<1>5. UNCHANGED <<slots, holder, call, newest, lost, usage>> /\ CallKnows(t, c)
  BY <1>2, <1>3, <1>4 DEF Lands, Breaks
<1>6. FlushKnows(t, c) /\ QueueIsAwaited(c) /\ PoolIsNewest(c) /\ DeviceIsNewest(c)
  BY <1>5 DEF CallKnows
<1>7. PICK p \in Seq(DeviceWrite) : p = c.pending
  BY DEF CallRecord
<1>8. /\ \A v \in queue \cup broken : \E i \in 1 .. Len(p) : p[i] = v
      /\ queue \cap broken = {} /\ (c.at \notin {"submit", "wait"} => p = <<>>)
  BY <1>6, <1>7 DEF QueueIsAwaited
<1>9. PICK k \in 1 .. Len(p) : p[k] = w
  BY <1>8
<1>10. c.at \in {"submit", "wait"}
  <2>1. p # <<>>
    BY SMT, Z3T(40), <1>9
  <2> QED
    BY <1>8, <2>1
<1>11. /\ c.op = "flush" /\ c.floor = newest
       /\ PendingAreNewest(p, c.tried) /\ PendingAreStamped(t, p) /\ PendingAreDistinct(p)
       /\ ~c.failed => TriedArePending(p, c.tried)
       /\ c.at = "wait" /\ ~c.failed /\ p = <<>> => AllAreTried(c)
  BY <1>6, <1>7, <1>10 DEF FlushKnows
<1>12. PICK a \in Blocks : a = w.lba
  BY <1>1 DEF CacheTypeOK, DeviceWrite
<1>13. Latest(a, w.data) /\ w.data \in Nat
  BY <1>1, <1>9, <1>11, <1>12 DEF PendingAreNewest, CacheTypeOK, DeviceWrite
<1>14. disk' = disk \/ disk' = [disk EXCEPT ![a] = w.data]
  BY <1>4, <1>12 DEF Lands, Breaks
<1>15. disk' \in [Blocks -> Nat] /\ \A b \in Blocks : disk'[b] = disk[b] \/ (b = a /\ disk'[b] = w.data)
  <2>1. disk \in [Blocks -> Nat]
    BY <1>1 DEF CacheTypeOK
  <2>2. CASE disk' = disk
    BY <2>1, <2>2
  <2>3. CASE disk' = [disk EXCEPT ![a] = w.data]
    BY <1>13, <2>1, <2>3
  <2> QED
    BY <1>14, <2>2, <2>3
<1>16. \A b \in Blocks : Level(b) => Level(b)'
  BY <1>5, <1>13, <1>15 DEF Level, Latest
<1>17. /\ queue' \subseteq queue /\ broken' \subseteq queue \cup broken
       /\ queue' \cap broken' = {}
       /\ \A v \in queue \cup broken : v \notin queue' \cup broken' => v = w /\ Level(a)'
       /\ budget' \in [failures : Nat, timeouts : {0}]
  <2>1. CASE Lands(w)
    <3>1. disk'[a] = w.data
      BY <1>1, <1>12, <2>1 DEF Lands, CacheTypeOK
    <3>2. queue' = queue \ {w} /\ broken' = broken /\ Level(a)'
      BY <1>5, <1>13, <2>1, <3>1 DEF Lands, Level, Latest
    <3>3. budget' \in [failures : Nat, timeouts : {0}]
      BY <1>1, <2>1 DEF Lands, CacheTypeOK
    <3> QED
      BY <1>8, <3>2, <3>3
  <2>2. CASE Breaks(w)
    <3>1. queue' = queue \ {w} /\ broken' = broken \cup {w}
      BY <2>2 DEF Breaks
    <3>2. budget' \in [failures : Nat, timeouts : {0}]
      BY <1>1, <2>2, FailsType DEF Breaks
    <3> QED
      BY <1>8, <3>1, <3>2
  <2> QED
    BY <1>4, <2>1, <2>2
<1>18. CacheTypeOK' /\ Unique' /\ Solo(t)'
  BY <1>1, <1>2, <1>5, <1>15, <1>17 DEF CacheTypeOK, Unique, Solo
<1>19. PoolIsNewest(c)'
  <2> SUFFICES ASSUME NEW r \in Cells, slots[r].lba \in Blocks, ~StoreAhead(c, slots[r].lba)
               PROVE  (Latest(slots[r].lba, slots[r].data) /\ (~slots[r].dirty => Level(slots[r].lba)))'
    BY <1>5 DEF PoolIsNewest, StoreAhead
  <2>1. PICK e \in Blocks : e = slots[r].lba /\ e = slots'[r].lba /\ slots'[r] = slots[r]
    BY <1>5
  <2>2. Latest(e, slots[r].data) /\ (~slots[r].dirty => Level(e)')
    BY <1>6, <1>16, <2>1 DEF PoolIsNewest
  <2> QED
    BY <1>5, <2>1, <2>2 DEF Level, Latest
<1>20. DeviceIsNewest(c)'
  <2>1. ASSUME NEW b \in Blocks, ~Cached(b)
        PROVE  Level(b)'
    <3>1. Level(b)
      BY <1>6, <1>10, <2>1 DEF DeviceIsNewest
    <3> QED
      BY <1>16, <3>1
  <2> QED
    BY <1>5, <2>1 DEF DeviceIsNewest, Cached
<1>21. PendingAreNewest(p, c.tried)'
  <2>1. ASSUME NEW i \in 1 .. Len(p)
        PROVE  /\ p[i].lba \in c.tried /\ Latest(p[i].lba, p[i].data)
               /\ p[i] \notin queue' \cup broken' => Level(p[i].lba)'
    <3>1. /\ p[i].lba \in c.tried /\ Latest(p[i].lba, p[i].data)
          /\ p[i] \notin queue \cup broken => Level(p[i].lba)
      BY <1>11, <2>1 DEF PendingAreNewest
    <3>2. p[i].lba \in Blocks
      BY <3>1 DEF CallRecord
    <3>3. CASE p[i] \in queue \cup broken
      BY <1>12, <1>17, <3>1, <3>3
    <3>4. CASE p[i] \notin queue \cup broken
      BY <1>16, <3>1, <3>2, <3>4
    <3> QED
      BY <3>3, <3>4
  <2> QED
    BY <1>5, <2>1 DEF PendingAreNewest, Latest
<1>22. FlushKnows(t, c)'
  <2>1. PendingAreStamped(t, p)' /\ (~c.failed => TriedArePending(p, c.tried)')
    BY <1>5, <1>11 DEF PendingAreStamped, TriedArePending
  <2>2. c.at = "wait" /\ ~c.failed /\ p = <<>> => AllAreTried(c)'
    BY <1>5, <1>11 DEF AllAreTried
  <2> QED
    BY <1>5, <1>7, <1>11, <1>21, <2>1, <2>2 DEF FlushKnows
<1>23. QueueIsAwaited(c)'
  BY <1>7, <1>8, <1>10, <1>17 DEF QueueIsAwaited
<1>24. FetchKnows(c)' /\ InsertKnows(c)' /\ EvictKnows(c)' /\ UpdateKnows(c)'
  BY <1>10 DEF FetchKnows, InsertKnows, EvictKnows, UpdateKnows
<1>25. CallKnows(t, c)'
  <2>1. /\ holder' # Nobody => holder' = t /\ c.at = "submit"
        /\ c.at = "idle" => c = Rest
        /\ c.at # "idle" => c.op # "none"
        /\ c.at = "bump" => c.op # "flush"
    BY <1>5 DEF CallKnows
  <2> QED
    BY <1>19, <1>20, <1>22, <1>23, <1>24, <2>1 DEF CallKnows
<1>26. CallKnows(t, call[t])'
  BY <1>3, <1>5, <1>25
<1> QED
  BY <1>18, <1>26 DEF CacheInv

-----------------------------------------------------------------------------
(* The invariant. *)

LEMMA InvStarts ==
  ASSUME OneCallAtATime, CacheInit
  PROVE  CacheInv
<1>1. usage \in Usages /\ usage \in CacheUse /\ usage.timeouts = 0
  BY CacheAssumption DEF CacheInit, OneCallAtATime
<1>2. EmptySlot \in SlotEntry /\ EmptySlot.lba = EMPTY_LBA /\ 0 \in Nat
  <2>1. 0 \in Nat
    OBVIOUS
  <2> QED
    BY <2>1 DEF EmptySlot, SlotEntry
<1>3. CacheTypeOK
  <2>1. budget \in [failures : Nat, timeouts : {0}]
    BY <1>1 DEF CacheInit, CacheUse
  <2> QED
    BY <1>1, <1>2, <2>1, RestFields DEF CacheInit, CacheTypeOK
<1>4. EMPTY_LBA \notin Blocks /\ \A s \in Cells : slots[s].lba = EMPTY_LBA
  BY <1>2, CacheAssumption DEF CacheInit
<1>5. Unique /\ \A b \in Blocks : Level(b)
  BY <1>4 DEF Unique, CacheInit, Level, Latest
<1>6. PICK t \in Callers : TRUE
  BY CacheAssumption
<1>7. Solo(t) /\ call[t] = Rest
  BY DEF CacheInit, Solo
<1>8. PoolIsNewest(Rest) /\ DeviceIsNewest(Rest)
  BY <1>4, <1>5 DEF PoolIsNewest, DeviceIsNewest
<1>9. FetchKnows(Rest) /\ InsertKnows(Rest) /\ EvictKnows(Rest) /\ UpdateKnows(Rest) /\ FlushKnows(t, Rest)
  BY RestFields DEF FetchKnows, InsertKnows, EvictKnows, UpdateKnows, FlushKnows
<1>10. QueueIsAwaited(Rest)
  BY RestFields DEF QueueIsAwaited, CacheInit
<1>11. CallKnows(t, Rest)
  BY <1>8, <1>9, <1>10, RestFields DEF CallKnows, CacheInit
<1> QED
  BY <1>3, <1>5, <1>7, <1>11 DEF CacheInv

LEMMA CallsAreBusy ==
  ASSUME NEW t \in Callers, CallStep(t)
  PROVE  call[t].at # "idle"
<1>1. CASE Fetch(t) \/ FetchPastEnd(t) \/ FetchFails(t) \/ Bump(t)
  BY <1>1 DEF Fetch, FetchPastEnd, FetchFails, Bump
<1>2. CASE Insert(t) \/ Evict(t) \/ EvictWrites(t) \/ EvictFails(t) \/ Place(t) \/ Update(t)
  BY <1>2 DEF Insert, Evict, EvictWrites, EvictFails, Place, Update
<1>3. CASE Submit(t) \/ SubmitFails(t) \/ SubmitEnds(t)
  BY <1>3 DEF Submit, SubmitFails, SubmitEnds, Submitting
<1>4. CASE WaitDone(t) \/ WaitFailed(t) \/ WaitTimesOut(t) \/ FlushEnds(t)
  BY <1>4 DEF WaitDone, WaitFailed, WaitTimesOut, FlushEnds, Waiting
<1> QED
  BY <1>1, <1>2, <1>3, <1>4 DEF CallStep

(* The caller that takes a step is the one the invariant speaks of. *)
LEMMA CallerIsSolo ==
  ASSUME CacheInv, NEW t \in Callers, call[t].at # "idle" \/ call[t].op # "none"
  PROVE  Solo(t) /\ CallKnows(t, call[t])
<1>1. PICK v \in Callers : Solo(v) /\ CallKnows(v, call[v])
  BY DEF CacheInv
<1>2. call[t] # Rest
  BY RestFields
<1>3. t = v
  BY <1>1, <1>2 DEF Solo
<1> QED
  BY <1>1, <1>3

LEMMA NoTimeouts ==
  ASSUME CacheTypeOK, NEW t
  PROVE  ~WaitTimesOut(t)
<1>1. budget.timeouts = 0
  BY DEF CacheTypeOK
<1>2. ~(0 > 0)
  BY SMT, Z3T(40)
<1> QED
  BY <1>1, <1>2 DEF WaitTimesOut, DeviceIsLate

LEMMA CallKeeps ==
  ASSUME CacheInv, NEW t \in Callers, CallStep(t)
  PROVE  CacheInv'
<1>1. CacheTypeOK /\ Unique /\ Solo(t) /\ CallKnows(t, call[t])
  BY CallsAreBusy, CallerIsSolo DEF CacheInv
<1>2. CASE Fetch(t)
  BY <1>1, <1>2, FetchKeeps
<1>3. CASE FetchPastEnd(t) \/ FetchFails(t) \/ FlushEnds(t)
  BY <1>1, <1>3, FetchEndsKeeps
<1>4. CASE Bump(t)
  BY <1>1, <1>4, BumpKeeps
<1>5. CASE Insert(t) \/ Place(t)
  BY <1>1, <1>5, InsertKeeps
<1>6. CASE Evict(t)
  BY <1>1, <1>6, EvictKeeps
<1>7. CASE EvictWrites(t) \/ EvictFails(t)
  BY <1>1, <1>7, EvictWritesKeeps
<1>8. CASE Update(t)
  BY <1>1, <1>8, UpdateKeeps
<1>9. CASE Submit(t)
  BY <1>1, <1>9, SubmitKeeps
<1>10. CASE SubmitFails(t) \/ SubmitEnds(t)
  BY <1>1, <1>10, SubmitOverKeeps
<1>11. CASE WaitDone(t) \/ WaitFailed(t)
  BY <1>1, <1>11, WaitKeeps
<1>12. ~WaitTimesOut(t)
  BY <1>1, NoTimeouts
<1> QED
  BY <1>2, <1>3, <1>4, <1>5, <1>6, <1>7, <1>8, <1>9, <1>10, <1>11, <1>12 DEF CallStep

LEMMA BeginKeeps ==
  ASSUME OneCallAtATime, CacheInv, NEW t \in Callers, BeginStep(t)
  PROVE  CacheInv'
<1>1. ASSUME NEW b \in Blocks, ReadHit(t, b) \/ ReadMiss(t, b)
      PROVE  CacheInv'
  BY <1>1, ReadHitKeeps, ReadMissKeeps
<1>2. ASSUME NEW b \in Blocks, WriteBackHit(t, b) \/ WriteBackMiss(t, b)
      PROVE  CacheInv'
  BY <1>2, WriteBackHitKeeps, WriteBackMissKeeps
<1>3. ASSUME NEW b \in Blocks, NEW op \in {"through", "cached"},
             StoreWrites(t, op, b) \/ StoreFails(t, op, b)
      PROVE  CacheInv'
  BY <1>3, StoreWritesKeeps, StoreFailsKeeps
<1>4. ASSUME NEW chosen \in SUBSET usage.blocks, FlushBegins(t, chosen)
      PROVE  CacheInv'
  BY <1>4, FlushBeginsKeeps
<1> QED
  BY <1>1, <1>2, <1>3, <1>4 DEF BeginStep

LEMMA InvKept ==
  ASSUME OneCallAtATime, CacheInv, [CacheNext]_cacheVars
  PROVE  CacheInv'
<1>1. ASSUME NEW t \in Callers, BeginStep(t) \/ CallStep(t)
      PROVE  CacheInv'
  BY <1>1, BeginKeeps, CallKeeps
<1>2. CASE DeviceStep
  BY <1>2, DeviceKeeps
<1>3. CASE UNCHANGED cacheVars
  <2>1. UNCHANGED <<slots, holder, disk, queue, broken, call, newest, lost, budget, usage>>
    BY <1>3 DEF cacheVars
  <2>2. CacheTypeOK' /\ Unique'
    BY <2>1 DEF CacheInv, CacheTypeOK, Unique
  <2>3. PICK v \in Callers : Solo(v) /\ CallKnows(v, call[v])
    BY DEF CacheInv
  <2>4. PICK c : c = call[v]
    OBVIOUS
  <2>5. CallKnows(v, c)'
    BY <2>1, <2>3, <2>4, NothingMoved
  <2>6. Solo(v)' /\ CallKnows(v, call[v])'
    BY <2>1, <2>3, <2>4, <2>5 DEF Solo
  <2> QED
    BY <2>2, <2>6 DEF CacheInv
<1> QED
  BY <1>1, <1>2, <1>3 DEF CacheNext

(* The invariant holds of a cache whose callers are kept apart by their      *)
(* volume's lock and whose flushes are answered in time: what a call in      *)
(* progress has read, taken or queued agrees with the pool and the device.  *)
THEOREM CacheInvHolds ==
  ASSUME OneCallAtATime
  PROVE  CacheSpec => []CacheInv
<1>1. CacheInit => CacheInv
  BY InvStarts
<1>2. CacheInv /\ [CacheNext]_cacheVars => CacheInv'
  BY InvKept
<1> QED
  BY <1>1, <1>2, PTL DEF CacheSpec

(* An entry that is not dirty holds what the device holds, whichever        *)
(* requests the device fails, unless it failed the block's own last write   *)
(* or a store that has reached the device is about to bring the entry up to *)
(* date: an eviction may drop it, as insert's comment says.                 *)
THEOREM CleanEntriesMatch ==
  ASSUME OneCallAtATime
  PROVE  CacheSpec => []CleanMatchesDevice
<1>1. ASSUME CacheInv
      PROVE  CleanMatchesDevice
  <2>1. PICK t \in Callers : Solo(t) /\ CallKnows(t, call[t])
    BY <1>1 DEF CacheInv
  <2>2. PoolIsNewest(call[t])
    BY <2>1 DEF CallKnows
  <2>3. ASSUME NEW s \in Cells, slots[s].lba \in Blocks \ lost, ~slots[s].dirty, ~Storing(slots[s].lba)
        PROVE  slots[s].data = disk[slots[s].lba]
    <3>1. ~StoreAhead(call[t], slots[s].lba)
      BY <2>3 DEF StoreAhead, Storing
    <3> QED
      BY <2>2, <2>3, <3>1 DEF PoolIsNewest, Level, Latest
  <2> QED
    BY <2>3 DEF CleanMatchesDevice
<1> QED
  BY <1>1, CacheInvHolds, PTL

-----------------------------------------------------------------------------
(* What a read returns. *)

LEMMA OthersStand ==
  ASSUME CacheTypeOK, NEW t \in Callers, NEW u \in Callers, t # u, BeginStep(u) \/ CallStep(u)
  PROVE  call'[t] = call[t]
<1>1. \A d : Goes(u, d) => call'[t] = call[t]
  BY DEF Goes, CacheTypeOK
<1>2. ASSUME NEW b, ReadHit(u, b) \/ ReadMiss(u, b) \/ WriteBackHit(u, b) \/ WriteBackMiss(u, b)
      PROVE  call'[t] = call[t]
  BY <1>1, <1>2 DEF ReadHit, ReadMiss, WriteBackHit, WriteBackMiss, Called
<1>3. ASSUME NEW b, NEW op, StoreWrites(u, op, b) \/ StoreFails(u, op, b)
      PROVE  call'[t] = call[t]
  BY <1>1, <1>3 DEF StoreWrites, StoreFails, Called
<1>4. ASSUME NEW chosen, FlushBegins(u, chosen)
      PROVE  call'[t] = call[t]
  BY <1>1, <1>4 DEF FlushBegins
<1>5. CASE BeginStep(u)
  BY <1>2, <1>3, <1>4, <1>5 DEF BeginStep
<1>6. CASE Fetch(u) \/ FetchPastEnd(u) \/ FetchFails(u) \/ Bump(u)
  BY <1>1, <1>6 DEF Fetch, FetchPastEnd, FetchFails, Bump, Returns
<1>7. CASE Insert(u) \/ Place(u)
  BY <1>1, <1>7 DEF Insert, Place, Inserted, Returns
<1>8. CASE Evict(u) \/ EvictWrites(u) \/ EvictFails(u) \/ Update(u)
  BY <1>1, <1>8 DEF Evict, EvictWrites, EvictFails, Update, Moves, Returns
<1>9. CASE Submit(u) \/ SubmitFails(u) \/ SubmitEnds(u)
  BY <1>1, <1>9 DEF Submit, SubmitFails, SubmitEnds, Moves
<1>10. CASE WaitDone(u) \/ WaitFailed(u) \/ WaitTimesOut(u) \/ FlushEnds(u)
  BY <1>1, <1>10 DEF WaitDone, WaitFailed, WaitTimesOut, FlushEnds, WaitedFor, Returns
<1> QED
  BY <1>5, <1>6, <1>7, <1>8, <1>9, <1>10 DEF CallStep

LEMMA HitIsLatest ==
  ASSUME OneCallAtATime, CacheInv, NEW t \in Callers, NEW b \in Blocks, ReadHit(t, b),
         call[t]'.lba \notin lost
  PROVE  FoundIsLatest(t)
<1>1. AllIdle /\ CacheTypeOK
  BY BeginsAlone DEF ReadHit, CacheInv
<1>2. PICK s \in Cells : slots[s].lba = b /\ Called(t, "read", b, slots[s].data, "bump")
  BY DEF ReadHit, Found
<1>3. Latest(b, slots[s].data) /\ newest[b] \in Nat
  BY <1>1, <1>2, Quiet DEF CacheTypeOK
<1>4. PICK v : v = slots[s].data
  OBVIOUS
<1>5. PICK d : d = [Rest EXCEPT !.at = "bump", !.op = "read", !.lba = b, !.data = v, !.last = b,
                                !.floor = newest]
  OBVIOUS
<1>6. call'[t] = d
  BY <1>1, <1>2, <1>4, <1>5 DEF Called, Goes, CacheTypeOK
<1>7. d.data = v /\ d.floor = newest /\ d.lba = b
  BY <1>5, RestFields DEF CallRecord
<1>8. newest[b] >= newest[b]
  BY SMT, Z3T(40), <1>3
<1>9. slots[s].data = newest[b]
  BY <1>3, <1>6, <1>7 DEF Latest
<1> QED
  BY <1>4, <1>6, <1>7, <1>8, <1>9 DEF FoundIsLatest

LEMMA FetchIsLatest ==
  ASSUME CacheInv, NEW t \in Callers, Fetch(t), call[t]'.lba \notin lost
  PROVE  FoundIsLatest(t)
<1>1. CacheTypeOK /\ CallKnows(t, call[t])
  <2>1. call[t].at # "idle"
    BY DEF Fetch
  <2> QED
    BY <2>1, CallerIsSolo DEF CacheInv
<1>2. PICK c \in CallRecord : c = call[t]
  BY <1>1 DEF CacheTypeOK
<1>3. FetchKnows(c) /\ DeviceIsNewest(c) /\ c.at = "fetch"
  BY <1>1, <1>2 DEF CallKnows, Fetch
<1>4. c.lba \in Blocks /\ c.lba <= c.last /\ c.floor = newest
  BY <1>3 DEF FetchKnows
<1>5. Spans(c, c.lba)
  <2>1. c.lba <= c.lba
    BY SMT, Z3T(40), <1>4 DEF Blocks
  <2> QED
    BY <1>4, <2>1 DEF Spans
<1>6. Latest(c.lba, disk[c.lba])
  BY <1>3, <1>4, <1>5 DEF FetchKnows, DeviceIsNewest, Level
<1>7. newest[c.lba] >= newest[c.lba]
  <2>1. newest[c.lba] \in Nat
    BY <1>1, <1>4 DEF CacheTypeOK
  <2> QED
    BY SMT, Z3T(40), <2>1
<1>8. PICK image : image = [b \in Blocks |-> IF b \in c.lba .. c.last THEN disk[b] ELSE 0]
  OBVIOUS
<1>9. PICK d : d = [c EXCEPT !.at = "insert", !.data = disk[c.lba], !.image = image]
  OBVIOUS
<1>10. call'[t] = d
  BY <1>1, <1>2, <1>8, <1>9 DEF Fetch, Goes, CacheTypeOK
<1>11. d.data = disk[c.lba] /\ d.floor = c.floor /\ d.lba = c.lba
  BY <1>9 DEF CallRecord
<1>12. disk[c.lba] = newest[c.lba]
  BY <1>6, <1>10, <1>11 DEF Latest
<1> QED
  BY <1>4, <1>7, <1>10, <1>11, <1>12 DEF FoundIsLatest

(* Any other step of the caller is not a read that has its content. *)
LEMMA OnlyReadsFind ==
  ASSUME CacheInv, NEW t \in Callers, BeginStep(t) \/ CallStep(t), ReadFinds(t)
  PROVE  (\E b \in Blocks : ReadHit(t, b)) \/ Fetch(t)
<1>1. CacheTypeOK
  BY DEF CacheInv
<1>2. \A d : Goes(t, d) => call'[t] = d
  BY <1>1 DEF Goes, CacheTypeOK
<1>3. ~Returns(t)
  BY <1>2, RestFields DEF Returns, ReadFinds
<1>4. ASSUME NEW b, NEW v, NEW op, NEW next, op # "read"
      PROVE  ~Called(t, op, b, v, next)
  <2>1. PICK d : d = [Rest EXCEPT !.at = next, !.op = op, !.lba = b, !.data = v, !.last = b,
                                  !.floor = newest]
    OBVIOUS
  <2>2. d.op = op
    BY <2>1, RestFields DEF CallRecord
  <2> QED
    BY <1>2, <1>4, <2>1, <2>2 DEF Called, ReadFinds
<1>5. \A b \in Blocks : ~WriteBackHit(t, b) /\ ~WriteBackMiss(t, b)
  BY <1>4 DEF WriteBackHit, WriteBackMiss
<1>6. ASSUME NEW b \in Blocks, NEW op \in {"through", "cached"}
      PROVE  ~StoreWrites(t, op, b) /\ ~StoreFails(t, op, b)
  <2>1. ~StoreWrites(t, op, b)
    BY <1>4, <1>6 DEF StoreWrites
  <2>2. ~StoreFails(t, op, b)
    BY DEF StoreFails, CanWrite, Begins, Idle, ReadFinds
  <2> QED
    BY <2>1, <2>2
<1>7. ASSUME NEW b \in Blocks
      PROVE  ~ReadMiss(t, b)
  <2> SUFFICES ASSUME ReadMiss(t, b)
               PROVE  FALSE
    OBVIOUS
  <2>1. PICK n : Goes(t, [Rest EXCEPT !.at = "fetch", !.op = "read", !.lba = b, !.last = b + n,
                                      !.floor = newest])
    BY DEF ReadMiss
  <2>2. PICK d : d = [Rest EXCEPT !.at = "fetch", !.op = "read", !.lba = b, !.last = b + n,
                                  !.floor = newest]
    OBVIOUS
  <2>3. call'[t] = d /\ d.at = "fetch"
    BY <1>2, <2>1, <2>2, RestFields DEF CallRecord
  <2> QED
    BY <2>3 DEF ReadFinds
<1>8. ASSUME NEW chosen, FlushBegins(t, chosen)
      PROVE  FALSE
  <2>1. PICK d : d = [Rest EXCEPT !.at = "submit", !.op = "flush", !.want = chosen, !.floor = newest]
    OBVIOUS
  <2>2. call'[t] = d /\ d.at = "submit"
    BY <1>2, <1>8, <2>1, RestFields DEF CallRecord, FlushBegins
  <2> QED
    BY <2>2 DEF ReadFinds
<1>9. CASE BeginStep(t)
  BY <1>5, <1>6, <1>7, <1>8, <1>9 DEF BeginStep
<1>10. ~FetchPastEnd(t) /\ ~FetchFails(t) /\ ~FlushEnds(t) /\ ~Bump(t)
  BY <1>3 DEF FetchPastEnd, FetchFails, FlushEnds, Bump
<1>11. ~Insert(t) /\ ~Place(t) /\ ~Evict(t) /\ ~EvictWrites(t) /\ ~EvictFails(t) /\ ~Update(t)
  BY DEF Insert, Place, Evict, EvictWrites, EvictFails, Update, ReadFinds
<1>12. ~Submit(t) /\ ~SubmitFails(t) /\ ~SubmitEnds(t)
  BY DEF Submit, SubmitFails, SubmitEnds, Submitting, ReadFinds
<1>13. ~WaitDone(t) /\ ~WaitFailed(t) /\ ~WaitTimesOut(t)
  BY DEF WaitDone, WaitFailed, WaitTimesOut, Waiting, ReadFinds
<1> QED
  BY <1>9, <1>10, <1>11, <1>12, <1>13 DEF CallStep

(* read_cached returns the last write of its block, from the pool or from   *)
(* the device, whichever requests the device fails, unless it failed that   *)
(* very write outside of a flush.                                           *)
THEOREM ReadsAreLatest ==
  ASSUME OneCallAtATime
  PROVE  CacheSpec => ReadsLatest
<1>1. ASSUME CacheInv, [CacheNext]_cacheVars
      PROVE  [\A t \in Callers : ReadFinds(t) /\ call[t]'.lba \notin lost => FoundIsLatest(t)]_cacheVars
  <2> SUFFICES ASSUME CacheNext, NEW t \in Callers, ReadFinds(t), call[t]'.lba \notin lost
               PROVE  FoundIsLatest(t)
    BY <1>1
  <2>1. CacheTypeOK
    BY <1>1 DEF CacheInv
  <2>2. call'[t] # call[t]
    BY DEF ReadFinds
  <2>3. ~DeviceStep
    BY <2>2 DEF DeviceStep, Lands, Breaks
  <2>4. BeginStep(t) \/ CallStep(t)
    BY <2>1, <2>2, <2>3, OthersStand DEF CacheNext
  <2> QED
    BY <1>1, <2>4, OnlyReadsFind, HitIsLatest, FetchIsLatest
<1> QED
  BY <1>1, CacheInvHolds, PTL DEF CacheSpec, ReadsLatest

-----------------------------------------------------------------------------
(* What a flush leaves behind. *)

FlushReturned(t) == call[t].op = "flush" /\ call[t]'.op = "none" /\ ~call[t].failed

FlushedAreOnDisk(t) == \A b \in call[t].want \ lost : disk'[b] >= call[t].floor[b]

LEMMA FlushersFlush ==
  ASSUME NEW t, NEW c \in CallRecord, CallKnows(t, c), c.op = "flush"
  PROVE  c.at \in {"submit", "wait"}
<1>1. c.at \in CallStates
  BY DEF CallRecord
<1>2. c.at # "idle"
  BY RestFields DEF CallKnows
<1>3. c.at \notin {"fetch", "insert", "evict", "place", "update", "bump"}
  BY DEF CallKnows, FetchKnows, InsertKnows, UpdateKnows
<1> QED
  BY <1>1, <1>2, <1>3 DEF CallStates

LEMMA OnlyFlushEnds ==
  ASSUME CacheInv, NEW t \in Callers, BeginStep(t) \/ CallStep(t), FlushReturned(t)
  PROVE  FlushEnds(t) /\ CallKnows(t, call[t])
<1>1. CacheTypeOK /\ CallKnows(t, call[t])
  <2>1. call[t].op # "none"
    BY DEF FlushReturned
  <2> QED
    BY <2>1, CallerIsSolo DEF CacheInv
<1>2. PICK c \in CallRecord : c = call[t]
  BY <1>1 DEF CacheTypeOK
<1>3. c.at \in {"submit", "wait"} /\ c.op = "flush"
  BY <1>1, <1>2, FlushersFlush DEF FlushReturned
<1>4. \A d : Goes(t, d) => d.op = "none"
  BY <1>1 DEF Goes, CacheTypeOK, FlushReturned
<1>5. ~BeginStep(t)
  <2>1. ~Idle(t)
    BY <1>2, <1>3 DEF Idle
  <2>2. \A op : ~Begins(t, op)
    BY <2>1 DEF Begins
  <2> QED
    BY <2>2 DEF BeginStep, ReadHit, ReadMiss, WriteBackHit, WriteBackMiss, StoreWrites, StoreFails,
                FlushBegins, CanWrite
<1>6. ~(Fetch(t) \/ FetchPastEnd(t) \/ FetchFails(t) \/ Bump(t))
  BY <1>2, <1>3 DEF Fetch, FetchPastEnd, FetchFails, Bump
<1>7. ~(Insert(t) \/ Evict(t) \/ EvictWrites(t) \/ EvictFails(t) \/ Place(t) \/ Update(t))
  BY <1>2, <1>3 DEF Insert, Evict, EvictWrites, EvictFails, Place, Update
<1>8. ASSUME NEW tried, NEW p, Goes(t, [c EXCEPT !.tried = tried, !.pending = p])
      PROVE  FALSE
  <2>1. [c EXCEPT !.tried = tried, !.pending = p].op = c.op
    BY DEF CallRecord
  <2> QED
    BY <1>3, <1>4, <1>8, <2>1
<1>9. ASSUME NEW failed, Goes(t, [c EXCEPT !.at = "wait", !.failed = failed])
      PROVE  FALSE
  <2>1. [c EXCEPT !.at = "wait", !.failed = failed].op = c.op
    BY DEF CallRecord
  <2> QED
    BY <1>3, <1>4, <1>9, <2>1
<1>10. ASSUME Goes(t, [c EXCEPT !.at = "wait"])
       PROVE  FALSE
  <2>1. [c EXCEPT !.at = "wait"].op = c.op
    BY DEF CallRecord
  <2> QED
    BY <1>3, <1>4, <1>10, <2>1
<1>11. ASSUME NEW p, NEW failed, Goes(t, [c EXCEPT !.at = "submit", !.pending = p, !.failed = failed])
       PROVE  FALSE
  <2>1. [c EXCEPT !.at = "submit", !.pending = p, !.failed = failed].op = c.op
    BY DEF CallRecord
  <2> QED
    BY <1>3, <1>4, <1>11, <2>1
<1>12. ~Submit(t)
  BY <1>2, <1>8 DEF Submit
<1>13. ~SubmitFails(t) /\ ~SubmitEnds(t)
  BY <1>2, <1>9, <1>10 DEF SubmitFails, SubmitEnds, Moves
<1>14. ~WaitDone(t) /\ ~WaitFailed(t) /\ ~WaitTimesOut(t)
  BY <1>2, <1>11 DEF WaitDone, WaitFailed, WaitTimesOut, WaitedFor
<1> QED
  BY <1>1, <1>5, <1>6, <1>7, <1>12, <1>13, <1>14 DEF CallStep

LEMMA FlushEndsOnDisk ==
  ASSUME CacheTypeOK, NEW t \in Callers, CallKnows(t, call[t]), FlushEnds(t), FlushReturned(t)
  PROVE  FlushedAreOnDisk(t)
<1>1. PICK c \in CallRecord : c = call[t]
  BY DEF CacheTypeOK
<1>2. /\ CallKnows(t, c) /\ c.at = "wait" /\ c.pending = <<>> /\ ~c.failed /\ disk' = disk
  BY <1>1 DEF FlushEnds, FlushReturned
<1>3. /\ FlushKnows(t, c) /\ PoolIsNewest(c) /\ DeviceIsNewest(c)
  BY <1>2 DEF CallKnows
<1>4. c.floor = newest /\ TriedArePending(<<>>, c.tried) /\ AllAreTried(c)
  BY <1>2, <1>3 DEF FlushKnows
<1>5. \A i \in 1 .. Len(<<>>) : FALSE
  BY SMT, Z3T(40)
<1>6. \A s \in Cells : ~(slots[s].dirty /\ slots[s].lba \in c.want)
  BY <1>4, <1>5 DEF TriedArePending, AllAreTried
<1>7. ASSUME NEW b \in c.want \ lost
      PROVE  disk'[b] >= c.floor[b]
  <2>1. b \in Blocks
    BY DEF CallRecord
  <2>2. disk[b] = newest[b]
    <3>1. CASE Cached(b)
      <4>1. PICK s \in Cells : slots[s].lba = b
        BY <3>1 DEF Cached
      <4>2. ~slots[s].dirty /\ ~StoreAhead(c, slots[s].lba)
        BY <1>2, <1>6, <4>1 DEF StoreAhead
      <4> QED
        BY <1>3, <2>1, <4>1, <4>2 DEF PoolIsNewest, Level, Latest
    <3>2. CASE ~Cached(b)
      BY <1>2, <1>3, <2>1, <3>2 DEF DeviceIsNewest, Level, Latest
    <3> QED
      BY <3>1, <3>2
  <2>3. newest[b] \in Nat
    BY <2>1 DEF CacheTypeOK
  <2>4. newest[b] >= newest[b]
    BY SMT, Z3T(40), <2>3
  <2> QED
    BY <1>2, <1>4, <2>2, <2>4
<1> QED
  BY <1>1, <1>7 DEF FlushedAreOnDisk

(* A flush that reports no error has put every block it was asked for on    *)
(* the device, however the device ordered the writes and whichever of them  *)
(* it failed, but for a block whose last write it failed outside of a flush. *)
THEOREM FlushesReachTheDevice ==
  ASSUME OneCallAtATime
  PROVE  CacheSpec => FlushedIsOnDisk
<1>1. ASSUME CacheInv, [CacheNext]_cacheVars
      PROVE  [\A t \in Callers : FlushReturned(t) => FlushedAreOnDisk(t)]_cacheVars
  <2> SUFFICES ASSUME CacheNext, NEW t \in Callers, FlushReturned(t)
               PROVE  FlushedAreOnDisk(t)
    BY <1>1
  <2>1. CacheTypeOK
    BY <1>1 DEF CacheInv
  <2>2. call'[t] # call[t]
    BY DEF FlushReturned
  <2>3. ~DeviceStep
    BY <2>2 DEF DeviceStep, Lands, Breaks
  <2>4. BeginStep(t) \/ CallStep(t)
    BY <2>1, <2>2, <2>3, OthersStand DEF CacheNext
  <2>5. FlushEnds(t) /\ CallKnows(t, call[t])
    BY <1>1, <2>4, OnlyFlushEnds
  <2> QED
    BY <2>1, <2>5, FlushEndsOnDisk
<1>2. CacheSpec => [][\A t \in Callers : FlushReturned(t) => FlushedAreOnDisk(t)]_cacheVars
  BY <1>1, CacheInvHolds, PTL DEF CacheSpec
<1>3. [\A t \in Callers : FlushReturned(t) => FlushedAreOnDisk(t)]_cacheVars
        => [\A t \in Callers :
              /\ call[t].op = "flush" /\ call[t]'.op = "none" /\ ~call[t].failed
              => \A b \in call[t].want \ lost : disk'[b] >= call[t].floor[b]]_cacheVars
  BY DEF FlushReturned, FlushedAreOnDisk
<1> QED
  BY <1>2, <1>3, PTL DEF FlushedIsOnDisk
=============================================================================
