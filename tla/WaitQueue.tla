------------------------------ MODULE WaitQueue ------------------------------
(***************************************************************************)
(* What every blocking primitive of the kernel is built on: WaitQueue<T>   *)
(* (src/kernel/process/wait/queue.rs), the wake-up half of the scheduler   *)
(* (scheduler/waker.rs) and the timeout pass of the timer tick.            *)
(*                                                                         *)
(* Blocking runs under the queue's lock with interrupts off and is one     *)
(* step.  Waking is not: wake_with selects waiters under the lock, drops   *)
(* it, and then wakes each of them; the timer may interrupt in between, and *)
(* where the kernel is preempted or a second CPU runs, any other thread.   *)
(* Time is abstracted: a tick finds any of the registered deadlines        *)
(* elapsed.  A behaviour is one machine's: its mode says whether threads    *)
(* interleave in mid wake-up and which timeouts callers pass.              *)
(***************************************************************************)
EXTENDS Integers, FiniteSets, Sublists

CONSTANTS Threads, Queues,
          Modes         \* the machines a behaviour may start on

ASSUME ThreadsAssumption == IsFiniteSet(Threads) /\ "none" \notin Queues /\ "no" \notin Queues

ASSUME ModesAssumption ==
    Modes \subseteq [interleave : BOOLEAN,       \* may others run in the middle of a wake-up?
                     timed : SUBSET BOOLEAN,     \* do callers pass a timeout?
                     uses : SUBSET Queues,       \* the queues its threads call
                     killable : SUBSET Threads,  \* threads whose process may be terminated
                     sleeps : SUBSET Threads,    \* callers of FUTEX_WAIT
                     wakes : SUBSET Threads]     \* threads that change a word and call FUTEX_WAKE

VARIABLES
    state,      \* Waiting, Terminated, or Active (the code's Ready and Running)
    deadline,   \* does wake_deadline hold a tick?
    outcome,    \* ThreadWaitOutcome
    waitingOn,  \* the queue of the call the thread is in, or "none"
    waiters,    \* the queue's deque of threads
    registered, \* the scheduler's waiting_queue: "no", or the registration's cleanup
    waking,     \* per waker: the threads wake_with selected and has not woken yet
    expiring,   \* the registrations the timer pass took and has not handled yet
    at,         \* where a thread is in a call that takes several steps, or "user"
    mode        \* the machine; it never changes

(* The calls of several steps belong to the modules above, and so does `at'. *)
waitVars == <<state, deadline, outcome, waitingOn, waiters, registered, waking, expiring, mode>>

None == "none"

WaitInit ==
    /\ state = [t \in Threads |-> "Active"]
    /\ deadline = [t \in Threads |-> FALSE]
    /\ outcome = [t \in Threads |-> "Completed"]
    /\ waitingOn = [t \in Threads |-> None]
    /\ waiters = [q \in Queues |-> <<>>]
    /\ registered = [t \in Threads |-> "no"]
    /\ waking = [t \in Threads |-> <<>>]
    /\ expiring = {}
    /\ at = [t \in Threads |-> "user"]
    /\ mode \in Modes

(* A waker has made t Ready and not put it on a ready queue yet. *)
Unplaced(t) ==
    \E w \in Threads : \E i \in 1 .. Len(waking[w]) :
        waking[w][i].thread = t /\ waking[w][i].stage = "woken"

(* Without interleaving a call in progress is only ever interrupted by the  *)
(* timer, whose pass runs to its end.                                      *)
MayRun(t) ==
    /\ state[t] = "Active" /\ ~Unplaced(t)
    /\ \/ mode.interleave
       \/ /\ expiring = {}
          /\ \A w \in Threads \ {t} :
                waking[w] = <<>> /\ (state[w] = "Terminated" \/ at[w] \in {"user", "blocked"})

(* A thread that runs code of its own: not blocked, not in the middle of a call. *)
Running(t) == MayRun(t) /\ waking[t] = <<>> /\ waitingOn[t] = None /\ at[t] = "user"

(* is_active_waiter and prune_stale_waiters. *)
Pruned(q) == Keep(waiters[q], {t \in Threads : state[t] = "Waiting"})

(* Variant: the blocked thread is not registered with the scheduler. *)
BlockUnregistered(t, q, timed) ==
    /\ waiters' = [waiters EXCEPT ![q] = Append(Pruned(q), t)]
    /\ state' = [state EXCEPT ![t] = "Waiting"]
    /\ deadline' = [deadline EXCEPT ![t] = timed]
    /\ outcome' = [outcome EXCEPT ![t] = "Pending"]
    /\ waitingOn' = [waitingOn EXCEPT ![t] = q]
    /\ UNCHANGED <<registered, waking, expiring, mode>>

(* block_current_if once prepare said yes: push_back, block or block_until, *)
(* park_thread or register_timed_waiter (with the queue as its cleanup).   *)
Block(t, q, timed) ==
    /\ waiters' = [waiters EXCEPT ![q] = Append(Pruned(q), t)]
    /\ state' = [state EXCEPT ![t] = "Waiting"]
    /\ deadline' = [deadline EXCEPT ![t] = timed]
    /\ outcome' = [outcome EXCEPT ![t] = "Pending"]
    /\ waitingOn' = [waitingOn EXCEPT ![t] = q]
    /\ registered' = [registered EXCEPT ![t] = IF timed THEN q ELSE None]
    /\ UNCHANGED <<waking, expiring, mode>>

(* block_current_if when prepare said no: only the prune is left behind. *)
NoBlock(t, q) ==
    /\ waiters' = [waiters EXCEPT ![q] = Pruned(q)]
    /\ outcome' = [outcome EXCEPT ![t] = "Completed"]
    /\ UNCHANGED <<state, deadline, waitingOn, registered, waking, expiring, mode>>

(* wake_with under the lock: the first n waiters are w's to wake.  An entry *)
(* is live while its thread is still in the wait it was selected from.     *)
Select(w, q, n) ==
    LET entry(t) == [thread |-> t, live |-> TRUE, stage |-> "selected"]
        chosen == SubSeq(Pruned(q), 1, n)
    IN  /\ waiters' = [waiters EXCEPT ![q] = SubSeq(Pruned(q), n + 1, Len(Pruned(q)))]
        /\ waking' = [waking EXCEPT ![w] = [i \in 1 .. n |-> entry(chosen[i])]]
        /\ UNCHANGED <<state, deadline, outcome, waitingOn, registered, expiring, mode>>

(* A wait of t ends: what was selected for it and is still on its way is late. *)
Late(t) ==
    [w \in Threads |->
        [i \in DOMAIN waking[w] |->
            IF waking[w][i].thread = t THEN [waking[w][i] EXCEPT !.live = FALSE]
            ELSE waking[w][i]]]

(* wake_thread, first half: wake_waiter's test that the thread is Waiting.  *)
(* A refusal (record_wake_refused) moves on to the next selected thread.   *)
WakeCheck(w) ==
    /\ MayRun(w) /\ waking[w] # <<>> /\ Head(waking[w]).stage = "selected"
    /\ waking' = [waking EXCEPT ![w] =
                    IF state[Head(@).thread] = "Waiting"
                    THEN <<[Head(@) EXCEPT !.stage = "checked"]>> \o Tail(@)
                    ELSE Tail(@)]
    /\ UNCHANGED <<state, deadline, outcome, waitingOn, waiters, registered, expiring, mode>>

(* The rest of wake_waiter: Ready, no deadline, Completed.  A terminated     *)
(* thread stays terminated and is refused.  A thread the timer made Ready   *)
(* since the test is made Ready again.                                     *)
WakeSet(w) ==
    LET t == Head(waking[w]).thread
    IN  /\ MayRun(w) /\ waking[w] # <<>> /\ Head(waking[w]).stage = "checked"
        /\ IF state[t] = "Terminated"
           THEN /\ waking' = [waking EXCEPT ![w] = Tail(@)]
                /\ UNCHANGED <<state, deadline, outcome>>
           ELSE /\ waking' = [waking EXCEPT ![w][1].stage =
                                IF state[t] = "Waiting" THEN "woken" ELSE "again"]
                /\ state' = [state EXCEPT ![t] = "Active"]
                /\ deadline' = [deadline EXCEPT ![t] = FALSE]
                /\ outcome' = [outcome EXCEPT ![t] = "Completed"]
        /\ UNCHANGED <<waitingOn, waiters, registered, expiring, mode>>

(* The rest of wake_thread: the registration goes, the thread is enqueued. *)
WakePlace(w) ==
    /\ MayRun(w) /\ waking[w] # <<>> /\ Head(waking[w]).stage \in {"woken", "again"}
    /\ waking' = [waking EXCEPT ![w] = Tail(@)]
    /\ registered' = [registered EXCEPT ![Head(waking[w]).thread] = "no"]
    /\ UNCHANGED <<state, deadline, outcome, waitingOn, waiters, expiring, mode>>

(* The timer pass, under the waiting queue's lock: it takes the stale       *)
(* registrations (parked_waiter_is_active fails) and those whose deadline   *)
(* has elapsed.                                                            *)
Tick ==
    LET stale == {t \in Threads : registered[t] # "no" /\ state[t] # "Waiting"}
        due   == {t \in Threads : registered[t] # "no" /\ state[t] = "Waiting" /\ deadline[t]}
    IN  /\ expiring = {}
        /\ \E elapsed \in SUBSET due :
              /\ stale \cup elapsed # {}
              /\ expiring' = {[thread |-> t, queue |-> registered[t], stale |-> t \in stale,
                               live |-> t \in elapsed] : t \in stale \cup elapsed}
              /\ registered' = [t \in Threads |->
                                   IF t \in stale \cup elapsed THEN "no" ELSE registered[t]]
        /\ UNCHANGED <<state, deadline, outcome, waitingOn, waiters, waking, mode>>

(* remove_waiters_by_identity. *)
WithoutThread(q, t) == Keep(waiters[q], Threads \ {t})

(* Handling one of them: the cleanup unlinks the thread from its wait queue *)
(* (remove_waiter), and an elapsed one is woken by process_elapsed_timed_   *)
(* waiter if it is still Waiting.  Stale registrations are handled first.  *)
Expire(e) ==
    /\ e \in expiring /\ (e.stale \/ \A f \in expiring : ~f.stale)
    /\ expiring' = expiring \ {e}
    /\ waiters' = IF e.queue = None THEN waiters
                  ELSE [waiters EXCEPT ![e.queue] = WithoutThread(e.queue, e.thread)]
    /\ IF ~e.stale /\ state[e.thread] = "Waiting"
       THEN /\ state' = [state EXCEPT ![e.thread] = "Active"]
            /\ deadline' = [deadline EXCEPT ![e.thread] = FALSE]
            /\ outcome' = [outcome EXCEPT ![e.thread] = "TimedOut"]
            /\ waking' = Late(e.thread)
       ELSE UNCHANGED <<state, deadline, outcome, waking>>
    /\ UNCHANGED <<waitingOn, registered, mode>>

(* terminate_threads_of_process, called by k for a thread that is not       *)
(* running: it dies where it is, its registration is dropped and the         *)
(* cleanup of a timed one unlinks it from its queue.                        *)
Kill(k, t) ==
    /\ Running(k) /\ k # t /\ t \in mode.killable /\ state[t] # "Terminated"
    /\ state' = [state EXCEPT ![t] = "Terminated"]
    /\ deadline' = [deadline EXCEPT ![t] = FALSE]
    /\ outcome' = [outcome EXCEPT ![t] = "Completed"]
    /\ registered' = [registered EXCEPT ![t] = "no"]
    /\ waiters' = [q \in Queues |-> IF registered[t] = q THEN WithoutThread(q, t) ELSE waiters[q]]
    /\ UNCHANGED <<waitingOn, waking, expiring, mode>>

(* The blocked call returns to its caller, who looks at the outcome. *)
LeaveWait(t) ==
    /\ MayRun(t) /\ waking[t] = <<>> /\ waitingOn[t] # None
    /\ waitingOn' = [waitingOn EXCEPT ![t] = None]
    /\ waking' = Late(t)
    /\ UNCHANGED <<state, deadline, outcome, waiters, registered, expiring, mode>>

TimerStep == Tick \/ \E e \in expiring : Expire(e)
WakeStep(w) == WakeCheck(w) \/ WakeSet(w) \/ WakePlace(w)

(* A wake-up is still to reach t: some waker selected it and has not made it Ready. *)
BeingWoken(t) ==
    \E w \in Threads : \E i \in 1 .. Len(waking[w]) :
        waking[w][i].thread = t /\ waking[w][i].stage \in {"selected", "checked"}

(* The threads a wake-up of queue q is on its way to, or has ended the wait of. *)
InFlight(q) ==
    {t \in Threads : /\ waitingOn[t] = q
                     /\ BeingWoken(t) \/ (state[t] = "Active" /\ outcome[t] = "Completed")}
=============================================================================
