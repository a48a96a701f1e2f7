----------------------------- MODULE ReadyQueues -----------------------------
(***************************************************************************)
(* The ready queues of one CPU as pure functions                           *)
(* (src/kernel/process/scheduler/queue.rs).  rq maps a priority level to   *)
(* the sequence of threads queued at it, st maps a thread to its state and *)
(* aff to its CPU affinity.  The kernel only ever gives a thread the        *)
(* levels Normal and High, so those are the levels here.                   *)
(***************************************************************************)
EXTENDS Naturals, Sequences

Normal == 1
High == 2
Levels == {Normal, High}

NoQueued == [p \in Levels |-> <<>>]

(* should_dispatch_ready_thread. *)
Dispatchable(st, t) == st[t] = "Ready"

(* prune_nondispatchable_ready_threads. *)
Prune(rq, st) == [p \in Levels |-> SelectSeq(rq[p], LAMBDA t : Dispatchable(st, t))]

(* has_dispatchable_ready_thread, without the prune it leaves behind. *)
HasDispatchable(rq, st) == \E p \in Levels : \E i \in DOMAIN rq[p] : Dispatchable(st, rq[p][i])

(* remove_queued_thread: every copy goes, whatever level it is queued at. *)
RemoveQueued(rq, t) == [p \in Levels |-> SelectSeq(rq[p], LAMBDA u : u # t)]

(* enqueue_ready_thread, and requeue_preempted_thread of a round-robin       *)
(* thread: one copy, at the back of the level it has now.                   *)
Enqueue(rq, st, t, level) ==
    IF ~Dispatchable(st, t) THEN rq ELSE [RemoveQueued(rq, t) EXCEPT ![level] = Append(@, t)]

(* add_ready_threads: enqueue_ready_thread of every thread of a batch without *)
(* repetitions, pr giving the levels.                                        *)
AddReady(rq, st, pr, batch) ==
    LET In(t) == Dispatchable(st, t) /\ \E i \in DOMAIN batch : batch[i] = t
    IN  [p \in Levels |-> SelectSeq(rq[p], LAMBDA t : ~In(t))
                          \o SelectSeq(batch, LAMBDA t : In(t) /\ pr[t] = p)]

(* take_next_dispatchable_thread: levels from the highest down; entries that *)
(* are not Ready are popped on the way and go nowhere.                       *)
TopLevel(rq, st) ==
    CHOOSE p \in Levels :
        /\ \E i \in DOMAIN rq[p] : Dispatchable(st, rq[p][i])
        /\ \A r \in Levels : r > p => \A i \in DOMAIN rq[r] : ~Dispatchable(st, rq[r][i])

TopIndex(rq, st) ==
    LET q == rq[TopLevel(rq, st)]
    IN  CHOOSE i \in DOMAIN q :
            /\ Dispatchable(st, q[i])
            /\ \A j \in 1 .. i - 1 : ~Dispatchable(st, q[j])

NextThread(rq, st) == rq[TopLevel(rq, st)][TopIndex(rq, st)]

AfterTake(rq, st) ==
    LET top == TopLevel(rq, st)
    IN  [p \in Levels |->
            IF p > top THEN <<>>
            ELSE IF p = top THEN SubSeq(rq[p], TopIndex(rq, st) + 1, Len(rq[p]))
            ELSE rq[p]]

(* ready_queue_len. *)
QueueLen(rq) == Len(rq[Normal]) + Len(rq[High])

-----------------------------------------------------------------------------

(* steal_ready_threads, one level: pop from the front until n threads are    *)
(* stolen or the queue is empty.  Affinity 0 stands for any CPU; a thread    *)
(* pinned elsewhere goes to the back, one that is not Ready is dropped.      *)
Stealable(aff, t, thief) == aff[t] \in {0, thief}

Loot(q, st, aff, thief) ==
    SelectSeq(q, LAMBDA t : Stealable(aff, t, thief) /\ Dispatchable(st, t))

ScanLen(q, st, aff, n, thief) ==
    IF Len(Loot(q, st, aff, thief)) < n THEN Len(q)
    ELSE CHOOSE k \in 0 .. Len(q) :
            /\ Len(Loot(SubSeq(q, 1, k), st, aff, thief)) = n
            /\ k = 0 \/ Len(Loot(SubSeq(q, 1, k - 1), st, aff, thief)) < n

StolenAt(q, st, aff, n, thief) ==
    Loot(SubSeq(q, 1, ScanLen(q, st, aff, n, thief)), st, aff, thief)

LeftAt(q, st, aff, n, thief) ==
    LET k == ScanLen(q, st, aff, n, thief)
    IN  SubSeq(q, k + 1, Len(q))
        \o SelectSeq(SubSeq(q, 1, k), LAMBDA t : ~Stealable(aff, t, thief))

(* Variant: the victim keeps what is stolen. *)
AfterStealKept(rq, st, aff, n, thief) == rq

(* steal_ready_threads: what is stolen, and the queues left behind. *)
Stolen(rq, st, aff, n, thief) ==
    LET high == StolenAt(rq[High], st, aff, n, thief)
    IN  high \o StolenAt(rq[Normal], st, aff, n - Len(high), thief)

AfterSteal(rq, st, aff, n, thief) ==
    LET high == StolenAt(rq[High], st, aff, n, thief)
    IN  [p \in Levels |-> LeftAt(rq[p], st, aff, IF p = High THEN n ELSE n - Len(high), thief)]
=============================================================================
