-------------------------------- MODULE Futex --------------------------------
(***************************************************************************)
(* Futexes (src/syscall/futex.rs): a user word and the wait queue that a   *)
(* registry keeps for it.  The registry holds weak references; a queue      *)
(* lives as long as some call in progress holds it.  A user thread that     *)
(* changes a word calls FUTEX_WAKE for every waiter next.                   *)
(*                                                                         *)
(* futex_wait reads the word, looks the queue up, blocks, and prunes the    *)
(* registry, each under another lock or none; futex_wake keeps the registry *)
(* locked while it wakes.  One word of one process is one key.             *)
(***************************************************************************)
EXTENDS WaitQueue

CONSTANTS Futexes,      \* the wait queues the allocator can give to a futex
          Words         \* the keys (pid, uaddr)

\* The allocator does not run out of queues.
ASSUME FutexAssumption ==
    /\ Futexes \subseteq Queues /\ None \notin Words
    /\ \A used \in [Words -> Futexes \cup {None}], u \in Words :
          \E q \in Futexes : \A v \in Words \ {u} : used[v] # q

VARIABLES word,         \* the user words: 0 or 1
          entry,        \* FUTEX_QUEUES: the queue a key refers to, dead or alive, or none
          holds,        \* the queue a thread's call has a strong reference to
          on,           \* the key of a thread's call
          expects,      \* `val' of its FUTEX_WAIT
          remaining,    \* `remaining' of its FUTEX_WAKE
          owes          \* the word a user thread has changed and not woken the waiters of

futexVars == <<at, word, entry, holds, on, expects, remaining, owes>>

FutexInit ==
    /\ word = [u \in Words |-> 0]
    /\ entry = [u \in Words |-> None]
    /\ holds = [t \in Threads |-> None]
    /\ on = [t \in Threads |-> None]
    /\ expects = [t \in Threads |-> 0]
    /\ remaining = [t \in Threads |-> 0]
    /\ owes = [t \in Threads |-> None]

Holders(q) == {t \in Threads : holds[t] = q}

(* Weak::upgrade finds the queue. *)
Alive(u) == entry[u] # None /\ Holders(entry[u]) # {}

(* Arc::new(WaitQueue::new()) for key u: a queue nobody holds and no other   *)
(* key refers to.                                                          *)
Unused(u) ==
    CHOOSE q \in Futexes : Holders(q) = {} /\ \A v \in Words \ {u} : entry[v] # q

(* FUTEX_QUEUES is locked for as long as a futex_wake wakes. *)
RegistryFree == \A t \in Threads : at[t] # "wake"

(* A thread in the middle of a futex call is at this point of it. *)
FutexAt(t, point) == MayRun(t) /\ waking[t] = <<>> /\ at[t] = point

FutexReturns(t) ==
    /\ at' = [at EXCEPT ![t] = "user"]
    /\ holds' = [holds EXCEPT ![t] = None]
    /\ on' = [on EXCEPT ![t] = None]
    /\ expects' = [expects EXCEPT ![t] = 0]

(* User code: store another value in the word, to be followed by FUTEX_WAKE. *)
SetWord(t, u) ==
    /\ Running(t) /\ t \in mode.wakes /\ owes[t] = None
    /\ word' = [word EXCEPT ![u] = 1 - @]
    /\ owes' = [owes EXCEPT ![t] = u]
    /\ UNCHANGED <<waitVars, at, entry, holds, on, expects, remaining>>

(* futex_wait, steps 1 to 3: the word has the expected value.  A word that  *)
(* has not, and a timeout of zero, return at once.                         *)
FutexWait(t, u) ==
    /\ Running(t) /\ t \in mode.sleeps /\ owes[t] = None
    /\ at' = [at EXCEPT ![t] = "read"]
    /\ on' = [on EXCEPT ![t] = u]
    /\ expects' = [expects EXCEPT ![t] = word[u]]
    /\ UNCHANGED <<waitVars, word, entry, holds, remaining, owes>>

(* get_or_create_queue: the registered queue if it is alive, else a new one *)
(* that replaces it.                                                       *)
GetOrCreateQueue(t) ==
    /\ FutexAt(t, "read") /\ RegistryFree
    /\ at' = [at EXCEPT ![t] = "got"]
    /\ \/ /\ Alive(on[t])
          /\ holds' = [holds EXCEPT ![t] = entry[on[t]]]
          /\ UNCHANGED <<entry, waiters>>
       \/ /\ ~Alive(on[t])
          /\ holds' = [holds EXCEPT ![t] = Unused(on[t])]
          /\ entry' = [entry EXCEPT ![on[t]] = Unused(on[t])]
          /\ waiters' = [waiters EXCEPT ![Unused(on[t])] = <<>>]
    /\ UNCHANGED <<state, deadline, outcome, waitingOn, registered, waking, expiring, mode,
                   word, on, expects, remaining, owes>>

(* Step 5: the thread blocks whatever the word says by now. *)
FutexBlocks(t, timed) ==
    /\ FutexAt(t, "got")
    /\ Block(t, holds[t], timed)
    /\ at' = [at EXCEPT ![t] = "blocked"]
    /\ UNCHANGED <<word, entry, holds, on, expects, remaining, owes>>

(* Step 6: woken or timed out. *)
FutexUnblocked(t) ==
    /\ at[t] = "blocked" /\ LeaveWait(t)
    /\ at' = [at EXCEPT ![t] = "left"]
    /\ UNCHANGED <<word, entry, holds, on, expects, remaining, owes>>

(* maybe_prune_queue, first half, under the queue's lock: waiter_count prunes *)
(* and a queue with waiters is left alone.                                  *)
WaiterCount(t) ==
    LET q == holds[t]
    IN  /\ FutexAt(t, "left")
        /\ waiters' = [waiters EXCEPT ![q] = Pruned(q)]
        /\ \/ /\ Pruned(q) = <<>>
              /\ at' = [at EXCEPT ![t] = "prune"]
              /\ UNCHANGED <<holds, on, expects>>
           \/ Pruned(q) # <<>> /\ FutexReturns(t)
        /\ UNCHANGED <<state, deadline, outcome, waitingOn, registered, waking, expiring, mode,
                       word, entry, remaining, owes>>

(* Variant: an empty queue is dropped although others hold it. *)
PruneRegardless(t) ==
    /\ FutexAt(t, "prune") /\ RegistryFree
    /\ entry' = [entry EXCEPT ![on[t]] = None]
    /\ FutexReturns(t)
    /\ UNCHANGED <<waitVars, word, remaining, owes>>

(* maybe_prune_queue, second half, under the registry's lock: the entry goes *)
(* if the caller's is the only strong reference to the queue it names.      *)
MaybePruneQueue(t) ==
    /\ FutexAt(t, "prune") /\ RegistryFree
    /\ entry' = IF entry[on[t]] # None /\ Cardinality(Holders(entry[on[t]])) = 1
                THEN [entry EXCEPT ![on[t]] = None] ELSE entry
    /\ FutexReturns(t)
    /\ UNCHANGED <<waitVars, word, remaining, owes>>

(* futex_wake: lock the registry and find the queue.  With no queue there   *)
(* is nobody to wake.                                                      *)
FutexWake(t, u, n) ==
    /\ Running(t) /\ t \in mode.wakes /\ RegistryFree
    /\ IF owes[t] = None THEN n = 1 ELSE u = owes[t] /\ n = Cardinality(Threads)
    /\ \/ /\ Alive(u)
          /\ at' = [at EXCEPT ![t] = "wake"]
          /\ holds' = [holds EXCEPT ![t] = entry[u]]
          /\ on' = [on EXCEPT ![t] = u]
          /\ remaining' = [remaining EXCEPT ![t] = n]
          /\ UNCHANGED owes
       \/ /\ ~Alive(u)
          /\ owes' = [owes EXCEPT ![t] = None]
          /\ UNCHANGED <<at, holds, on, remaining>>
    /\ UNCHANGED <<waitVars, word, entry, expects>>

(* Variant: one waiter is woken, whatever max_wake says. *)
FutexWakeOnlyOne(t) ==
    /\ FutexAt(t, "wake") /\ remaining[t] > 0 /\ Pruned(holds[t]) # <<>>
    /\ Select(t, holds[t], 1)
    /\ remaining' = [remaining EXCEPT ![t] = 0]
    /\ UNCHANGED <<at, word, entry, holds, on, expects, owes>>

(* One turn of its loop: wake_one picks a waiter. *)
FutexWakeOne(t) ==
    /\ FutexAt(t, "wake") /\ remaining[t] > 0 /\ Pruned(holds[t]) # <<>>
    /\ Select(t, holds[t], 1)
    /\ remaining' = [remaining EXCEPT ![t] = @ - 1]
    /\ UNCHANGED <<at, word, entry, holds, on, expects, owes>>

(* The loop ends: nobody is left, or enough were woken, or wake_one woke nobody. *)
FutexWakeEnds(t) ==
    /\ FutexAt(t, "wake") /\ (remaining[t] = 0 \/ Pruned(holds[t]) = <<>>)
    /\ waiters' = [waiters EXCEPT ![holds[t]] = Pruned(holds[t])]
    /\ FutexReturns(t)
    /\ remaining' = [remaining EXCEPT ![t] = 0]
    /\ owes' = [owes EXCEPT ![t] = None]
    /\ UNCHANGED <<state, deadline, outcome, waitingOn, registered, waking, expiring, mode,
                   word, entry>>

(* wake_thread refused the waiter that t picked. *)
Refused(t) ==
    /\ Len(waking'[t]) < Len(waking[t])
    /\ Head(waking[t]).stage \in {"selected", "checked"}

(* wake_one reports what wake_thread did, and `false' ends futex_wake's loop. *)
FutexWoke(t) ==
    /\ remaining' = [remaining EXCEPT ![t] = IF Refused(t) THEN 0 ELSE @]
    /\ UNCHANGED <<at, word, entry, holds, on, expects, owes>>

(* What is left of a futex call in progress. *)
FutexGoesOn(t) ==
    \/ GetOrCreateQueue(t)
    \/ \E timed \in mode.timed : FutexBlocks(t, timed)
    \/ FutexUnblocked(t) \/ WaiterCount(t) \/ MaybePruneQueue(t)
    \/ FutexWakeOne(t) \/ FutexWakeEnds(t)

FutexStep ==
    \E t \in Threads :
        \/ FutexGoesOn(t)
        \/ /\ Futexes \cap mode.uses # {}
           /\ \E u \in Words :
                 \/ SetWord(t, u) \/ FutexWait(t, u)
                 \/ \E n \in {1, Cardinality(Threads)} : FutexWake(t, u, n)

-----------------------------------------------------------------------------

(* A FUTEX_WAKE finds every waiter: a thread asleep on a word sleeps on the *)
(* queue the registry has for the word (the comment in maybe_prune_queue:   *)
(* "no other thread can be about to wait on it").                          *)
FutexWaiterRegistered ==
    \A t \in Threads :
        at[t] = "blocked" /\ state[t] = "Waiting" => entry[on[t]] = holds[t]

(* "block the calling thread until `*uaddr != val`, a wake arrives, ..."     *)
(* (futex_wait): a thread that sleeps on a word that no longer has the value *)
(* it expects is being woken, or whoever changed the word has yet to wake. *)
NoLostFutexWake ==
    \A t \in Threads :
        at[t] = "blocked" /\ state[t] = "Waiting" /\ word[on[t]] # expects[t] =>
            BeingWoken(t) \/ \E w \in Threads : owes[w] = on[t]

(* The same on a uniprocessor that does not preempt the kernel, while callers *)
(* pass no timeouts.                                                        *)
UntimedFutexWakesKept ==
    ~mode.interleave /\ TRUE \notin mode.timed => NoLostFutexWake
=============================================================================
