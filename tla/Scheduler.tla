------------------------------ MODULE Scheduler ------------------------------
(***************************************************************************)
(* The per-CPU schedulers (src/kernel/process/scheduler/): dispatch, yield, *)
(* blocking and waking with the CPU a thread belongs to, the timer tick     *)
(* with its starvation boost, work stealing, job control and termination.  *)
(*                                                                         *)
(* A process has one thread, as every process the kernel starts does, so a *)
(* thread stands for its process too.  CPU 0 is the boot CPU and owns the   *)
(* clock; deadlines are kept as the ticks that remain.  A CPU in its       *)
(* dispatcher has interrupts masked until it finds nothing to run.  Steps   *)
(* of different CPUs interleave wherever the code holds no lock across     *)
(* them; the scans of stop and of continue are one step each.              *)
(***************************************************************************)
EXTENDS ReadyQueues, FiniteSets

CONSTANTS Threads,
          TimeSlice,        \* TIME_SLICE_TICKS
          BoostDuration,    \* BOOST_DURATION_TICKS
          Boots             \* the machines and loads behaviours start with, see Boot below

Boot == [ncpu : Nat \ {0},             \* online CPUs
         kernelPreemption : BOOLEAN,   \* may a tick preempt a thread in the kernel (not on x86_64)?
         boostThreshold : Nat \ {0},   \* BOOST_THRESHOLD_TICKS
         initial : SUBSET Threads,     \* threads the boot code has spawned
         spawnable : SUBSET Threads,   \* threads spawned later
         mortal : SUBSET Threads,      \* threads that may exit
         blocking : SUBSET Threads,    \* threads that block on wait queues
         maxSleep : Nat,               \* bound: the longest timeout a thread asks for
         movable : SUBSET Threads,     \* threads that call sched_setaffinity
         stoppable : SUBSET Threads,   \* targets of SIGSTOP and SIGCONT
         killable : SUBSET Threads]    \* targets of SIGKILL

ASSUME SchedAssumption ==
    /\ TimeSlice \in Nat \ {0} /\ BoostDuration \in Nat \ {0}
    /\ \A b \in Boots : b \in Boot /\ b.initial \cap b.spawnable = {}

VARIABLES
    boot,       \* the machine and its load, fixed in a behaviour
    tstate,     \* ThreadState; "Unborn" before spawn, "New" while held suspended
    dead,       \* is the process's state Terminated?
    done,       \* has complete_termination run (resources released, event signaled)?
    stopFlag, killFlag,         \* stop_pending, terminate_pending
    prio, boosted, slice, starved,  \* priority, boosted, time_slice_remaining, waiting_ticks
    affinity,   \* cpu_affinity
    deadline,   \* wake_deadline: ticks that remain plus one, 0 for none
    linked,     \* is the thread in the deque of the wait queue it blocked on?
    hand,       \* the wake_thread or kill the thread is in the middle of, or NoWake
    ready,      \* per CPU: ready_queues
    parked,     \* per CPU: waiting_queue, its registrations
    current,    \* per CPU: the current slot
    resched,    \* per CPU: need_resched
    pc,         \* per CPU: in the dispatcher, halted, running a thread, or switching out
    irq, due,   \* per CPU: in the timer handler; registrations it took and still has to handle
    stolen,     \* per CPU: threads taken from a victim and not queued yet
    onStack,    \* per CPU: the thread whose kernel stack the CPU executes on, or None
    boundary,   \* per CPU: is the tick it serves a multiple of TIME_SLICE_TICKS?
    phase       \* the tick counter modulo TimeSlice

lifeVars == <<tstate, dead, done, stopFlag, killFlag>>
boostVars == <<prio, boosted, slice, starved>>
waitVars == <<deadline, linked, parked>>
cpuVars == <<current, pc, onStack>>
tickVars == <<irq, due, boundary, phase>>
vars == <<lifeVars, boostVars, waitVars, cpuVars, tickVars, affinity, hand, ready, resched, stolen, boot>>

CPUs == 0 .. boot.ncpu - 1
None == "none"
NoWake == [thread |-> None, stage |-> "none"]

(* Every order in which the boot code may have spawned its threads. *)
Orders(S) == {s \in [1 .. Cardinality(S) -> S] : \A t \in S : \E i \in DOMAIN s : s[i] = t}

Init ==
    /\ boot \in Boots
    /\ tstate = [t \in Threads |-> IF t \in boot.initial THEN "Ready" ELSE "Unborn"]
    /\ dead = [t \in Threads |-> FALSE] /\ done = [t \in Threads |-> FALSE]
    /\ stopFlag = [t \in Threads |-> FALSE] /\ killFlag = [t \in Threads |-> FALSE]
    /\ prio = [t \in Threads |-> Normal] /\ boosted = [t \in Threads |-> FALSE]
    /\ slice = [t \in Threads |-> 0] /\ starved = [t \in Threads |-> 0]
    /\ affinity \in [Threads -> CPUs]
    /\ deadline = [t \in Threads |-> 0] /\ linked = [t \in Threads |-> FALSE]
    /\ hand = [t \in Threads |-> NoWake]
    /\ \E order \in Orders(boot.initial) :
          ready = [c \in CPUs |->
                     [p \in Levels |->
                        IF p = Normal THEN SelectSeq(order, LAMBDA t : affinity[t] = c) ELSE <<>>]]
    /\ parked = [c \in CPUs |-> {}] /\ current = [c \in CPUs |-> None]
    /\ resched = [c \in CPUs |-> FALSE] /\ pc = [c \in CPUs |-> "loop"]
    /\ irq = [c \in CPUs |-> FALSE] /\ due = [c \in CPUs |-> {}]
    /\ stolen = [c \in CPUs |-> <<>>] /\ onStack = [c \in CPUs |-> None]
    /\ boundary = [c \in CPUs |-> FALSE] /\ phase = 0

(* set_process_and_thread_state: nothing revives a terminated thread or process. *)
Gone(t) == tstate[t] = "Terminated" \/ dead[t]

WithState(t, s) == IF Gone(t) THEN tstate ELSE [tstate EXCEPT ![t] = s]

(* is_active_waiter and parked_waiter_is_active. *)
ActiveWaiter(t) == tstate[t] = "Waiting" /\ ~dead[t]

(* finish_termination: the process is torn down with its thread unless a    *)
(* kill already marked it Terminated.                                      *)
Terminate(t) ==
    /\ tstate' = [tstate EXCEPT ![t] = "Terminated"]
    /\ dead' = [dead EXCEPT ![t] = TRUE]
    /\ done' = [done EXCEPT ![t] = @ \/ ~dead[t]]
    /\ UNCHANGED <<stopFlag, killFlag>>

(* c executes kernel code of its current thread: no interrupt is being served. *)
Executes(c) == pc[c] = "run" /\ ~irq[c]

(* ... and that thread is not in the middle of a wake-up or a kill. *)
Free(c) == Executes(c) /\ hand[current[c]] = NoWake

(* maybe_set_need_resched, for thread t queued on CPU a. *)
Outranks(t, a) == current[a] # None /\ prio[t] > prio[current[a]]

-----------------------------------------------------------------------------
(* Dispatch. *)

(* schedule_bare_metal: the next thread becomes current and starts to run. *)
(* The current slot is empty here, so the loop's test for a pending kill of  *)
(* the current thread never succeeds and has no action.                    *)
Dispatch(c) ==
    /\ pc[c] = "loop" /\ stolen[c] = <<>> /\ HasDispatchable(ready[c], tstate)
    /\ LET t == NextThread(ready[c], tstate)
       IN  /\ ~done[t]
           /\ current' = [current EXCEPT ![c] = t]
           /\ onStack' = [onStack EXCEPT ![c] = t]
           /\ tstate' = WithState(t, "Running")
    /\ ready' = [ready EXCEPT ![c] = AfterTake(@, tstate)]
    /\ resched' = [resched EXCEPT ![c] = FALSE]
    /\ pc' = [pc EXCEPT ![c] = "run"]
    /\ UNCHANGED <<dead, done, stopFlag, killFlag, boostVars, waitVars, tickVars, affinity, hand,
                   stolen>>

(* A thread whose process has released its address space is terminated       *)
(* instead (prepare_thread_address_space_for_dispatch fails).               *)
DispatchRefused(c) ==
    /\ pc[c] = "loop" /\ stolen[c] = <<>> /\ HasDispatchable(ready[c], tstate)
    /\ LET t == NextThread(ready[c], tstate)
       IN  done[t] /\ Terminate(t)
    /\ ready' = [ready EXCEPT ![c] = AfterTake(@, tstate)]
    /\ UNCHANGED <<boostVars, waitVars, cpuVars, tickVars, affinity, hand, resched, stolen>>

(* try_steal_work: the busiest other CPU. *)
Busiest(c, v) ==
    /\ v \in CPUs \ {c}
    /\ \A d \in CPUs \ {c} :
          \/ QueueLen(ready[d]) < QueueLen(ready[v])
          \/ QueueLen(ready[d]) = QueueLen(ready[v]) /\ v <= d

StealCount(v) == IF QueueLen(ready[v]) < 2 THEN 1 ELSE QueueLen(ready[v]) \div 2

(* try_steal_work up to the drain of the victim's queues under their lock. *)
StealTake(c) ==
    /\ pc[c] = "loop" /\ stolen[c] = <<>> /\ ~HasDispatchable(ready[c], tstate)
    /\ \E v \in CPUs :
          /\ Busiest(c, v)
          /\ stolen' = [stolen EXCEPT ![c] = Stolen(ready[v], tstate, affinity, StealCount(v), c)]
          /\ stolen'[c] # <<>>
          /\ ready' = [ready EXCEPT ![c] = NoQueued,
                                    ![v] = AfterSteal(@, tstate, affinity, StealCount(v), c)]
    /\ UNCHANGED <<lifeVars, boostVars, waitVars, cpuVars, tickVars, affinity, hand, resched>>

(* add_ready_threads, under one lock; the reschedule interrupt the victim is  *)
(* then sent is Interrupt below.                                            *)
StealAdd(c) ==
    /\ stolen[c] # <<>>
    /\ ready' = [ready EXCEPT ![c] = AddReady(@, tstate, prio, stolen[c])]
    /\ stolen' = [stolen EXCEPT ![c] = <<>>]
    /\ UNCHANGED <<lifeVars, boostVars, waitVars, cpuVars, tickVars, affinity, hand, resched>>

(* Nothing to run and nothing to steal: the CPU halts with interrupts on. *)
Halt(c) ==
    /\ pc[c] = "loop" /\ stolen[c] = <<>> /\ ~HasDispatchable(ready[c], tstate)
    /\ \A v \in CPUs :
          Busiest(c, v) => Stolen(ready[v], tstate, affinity, StealCount(v), c) = <<>>
    /\ ready' = [ready EXCEPT ![c] = NoQueued]
    /\ pc' = [pc EXCEPT ![c] = "idle"]
    /\ UNCHANGED <<lifeVars, boostVars, waitVars, current, onStack, tickVars, affinity, hand,
                   resched, stolen>>

(* The reschedule or any other interrupt ends the halt. *)
Interrupt(c) ==
    /\ pc[c] = "idle" /\ ~irq[c]
    /\ pc' = [pc EXCEPT ![c] = "loop"]
    /\ UNCHANGED <<lifeVars, boostVars, waitVars, current, onStack, tickVars, affinity, hand, ready,
                   resched, stolen, boot>>

(* The end of switch_context: the outgoing thread's registers are saved and   *)
(* its stack is left.                                                        *)
SwitchOut(c) ==
    /\ pc[c] = "out"
    /\ pc' = [pc EXCEPT ![c] = "loop"]
    /\ onStack' = [onStack EXCEPT ![c] = None]
    /\ UNCHANGED <<lifeVars, boostVars, waitVars, current, tickVars, affinity, hand, ready, resched,
                   stolen>>

(* The current thread has left the current slot and calls switch_context. *)
LeaveCpu(c) ==
    /\ current' = [current EXCEPT ![c] = None]
    /\ pc' = [pc EXCEPT ![c] = "out"]
    /\ UNCHANGED onStack

(* yield_current_thread and preempt_current_thread_from_interrupt: back of    *)
(* the queue if anything else can run; a thread that does not become Ready    *)
(* is not queued again.                                                      *)
GiveWay(c) ==
    IF HasDispatchable(ready[c], tstate)
    THEN LET t == current[c]
         IN  /\ tstate' = WithState(t, "Ready")
             /\ ready' = [ready EXCEPT ![c] = Enqueue(Prune(@, tstate), WithState(t, "Ready"), t, prio[t])]
             /\ LeaveCpu(c)
    ELSE /\ ready' = [ready EXCEPT ![c] = Prune(@, tstate)]
         /\ UNCHANGED <<tstate, cpuVars>>

Yield(c) ==
    /\ Free(c)
    /\ GiveWay(c)
    /\ UNCHANGED <<dead, done, stopFlag, killFlag, boostVars, waitVars, tickVars, affinity, hand,
                   resched, stolen>>

-----------------------------------------------------------------------------
(* Blocking and waking. *)

Unparked(c, t) == {r \in parked[c] : r.thread # t}

(* Variant: the thread is not registered on the CPU's waiting queue. *)
BlockUnparked(c, onQueue, d) ==
    LET t == current[c]
    IN  /\ Free(c)
        /\ tstate' = WithState(t, "Waiting")
        /\ deadline' = IF Gone(t) THEN deadline ELSE [deadline EXCEPT ![t] = IF d = 0 THEN 0 ELSE d + 1]
        /\ linked' = [linked EXCEPT ![t] = onQueue]
        /\ parked' = parked
        /\ LeaveCpu(c)
        /\ UNCHANGED <<dead, done, stopFlag, killFlag, boostVars, tickVars, affinity, hand, ready,
                       resched, stolen>>

(* sleep_current_thread (onQueue FALSE), or a block on a wait queue, with    *)
(* or without a deadline (d = 0).  park_thread replaces the registrations     *)
(* this CPU has for the thread.                                             *)
Block(c, onQueue, d) ==
    LET t == current[c]
    IN  /\ Free(c)
        /\ tstate' = WithState(t, "Waiting")
        /\ deadline' = IF Gone(t) THEN deadline ELSE [deadline EXCEPT ![t] = IF d = 0 THEN 0 ELSE d + 1]
        /\ linked' = [linked EXCEPT ![t] = onQueue]
        /\ parked' = [parked EXCEPT ![c] =
                        Unparked(c, t) \cup {[thread |-> t, cleanup |-> onQueue /\ d # 0]}]
        /\ LeaveCpu(c)
        /\ UNCHANGED <<dead, done, stopFlag, killFlag, boostVars, tickVars, affinity, hand, ready,
                       resched, stolen>>

(* wake_with by the current thread: t is taken off its wait queue, or pruned. *)
WakeSelect(c, t) ==
    /\ Free(c) /\ linked[t]
    /\ linked' = [linked EXCEPT ![t] = FALSE]
    /\ hand' = IF ActiveWaiter(t)
               THEN [hand EXCEPT ![current[c]] = [thread |-> t, stage |-> "selected"]]
               ELSE hand
    /\ UNCHANGED <<lifeVars, boostVars, deadline, parked, cpuVars, tickVars, affinity, ready,
                   resched, stolen>>

(* The current thread has got so far in wake_thread or request_termination. *)
InCall(c, stage) ==
    /\ Executes(c) /\ hand[current[c]] # NoWake
    /\ hand[current[c]].stage = stage

(* wake_waiter: is the thread Waiting? *)
WakeCheck(c) ==
    /\ InCall(c, "selected")
    /\ hand' = [hand EXCEPT ![current[c]] =
                   IF tstate[@.thread] = "Waiting" THEN [@ EXCEPT !.stage = "checked"] ELSE NoWake]
    /\ UNCHANGED <<lifeVars, boostVars, waitVars, cpuVars, tickVars, affinity, ready, resched, stolen>>

(* The rest of wake_waiter: Stopped if a stop is pending, else Ready. *)
Rouse(t) ==
    /\ tstate' = IF stopFlag[t] THEN [tstate EXCEPT ![t] = "Stopped"] ELSE WithState(t, "Ready")
    /\ stopFlag' = [stopFlag EXCEPT ![t] = FALSE]
    /\ deadline' = IF stopFlag[t] \/ ~Gone(t) THEN [deadline EXCEPT ![t] = 0] ELSE deadline
    /\ UNCHANGED <<dead, done, killFlag>>

WakeSet(c) ==
    /\ InCall(c, "checked")
    /\ LET t == hand[current[c]].thread
       IN  /\ Rouse(t)
           /\ hand' = [hand EXCEPT ![current[c]] =
                          IF stopFlag[t] \/ ~Gone(t) THEN [@ EXCEPT !.stage = "woken"] ELSE NoWake]
    /\ UNCHANGED <<boostVars, linked, parked, cpuVars, tickVars, affinity, ready, resched, stolen>>

(* The rest of wake_thread: the registration goes, on the CPU the thread has *)
(* affinity to, and the thread is queued there; a remote CPU is interrupted,  *)
(* and its handler sets need_resched.                                       *)
WakePlace(c) ==
    /\ InCall(c, "woken")
    /\ LET t == hand[current[c]].thread
           a == affinity[t]
       IN  /\ parked' = [parked EXCEPT ![a] = Unparked(a, t)]
           /\ ready' = [ready EXCEPT ![a] = Enqueue(@, tstate, t, prio[t])]
           /\ resched' = [resched EXCEPT ![a] =
                             @ \/ (Dispatchable(tstate, t) /\ (a # c \/ Outranks(t, a)))]
    /\ hand' = [hand EXCEPT ![current[c]] = NoWake]
    /\ UNCHANGED <<lifeVars, boostVars, deadline, linked, cpuVars, tickVars, affinity, stolen>>

-----------------------------------------------------------------------------
(* The timer tick. *)

(* boost_starved_threads on ready[0]: what is promoted, then what is demoted. *)
Holds(q, t) == \E i \in DOMAIN q : q[i] = t

Promoted == {t \in Threads : Holds(ready[0][Normal], t) /\ starved[t] + 1 >= boot.boostThreshold}
Demoted == {t \in Threads : Holds(ready[0][High], t) /\ boosted[t] /\ slice[t] = 0}

BoostedQueues ==
    [ready EXCEPT
        ![0][High] = SelectSeq(@, LAMBDA t : t \notin Demoted)
                     \o SelectSeq(ready[0][Normal], LAMBDA t : t \in Promoted),
        ![0][Normal] = SelectSeq(@, LAMBDA t : t \notin Promoted)
                       \o SelectSeq(ready[0][High], LAMBDA t : t \in Demoted)]

Boost ==
    /\ ready' = BoostedQueues
    /\ starved' = [t \in Threads |->
                     IF t \in Promoted THEN 0
                     ELSE IF Holds(ready[0][Normal], t) THEN starved[t] + 1 ELSE starved[t]]
    /\ prio' = [t \in Threads |->
                  IF t \in Promoted THEN High ELSE IF t \in Demoted THEN Normal ELSE prio[t]]
    /\ boosted' = [t \in Threads |-> t \in Promoted \/ (boosted[t] /\ t \notin Demoted)]

(* The running thread's boost is used up tick by tick. *)
Charged(c, t) ==
    IF t = current[c] /\ boosted[t] /\ slice[t] > 0 THEN slice[t] - 1 ELSE slice[t]

(* Variant: the deadline is compared without the offset it is stored with. *)
ElapsedOffByOne(r, dl) == ActiveWaiter(r.thread) /\ deadline[r.thread] # 0 /\ dl[r.thread] = 0

(* wake_expired_sleepers: the registrations taken, on every CPU, are those of *)
(* threads that no longer wait and those whose deadline has passed.           *)
Elapsed(r, dl) == ActiveWaiter(r.thread) /\ dl[r.thread] = 1
Taken(dl) == {r \in UNION {parked[d] : d \in CPUs} : ~ActiveWaiter(r.thread) \/ Elapsed(r, dl)}

Sweep(c, dl) ==
    /\ due' = [due EXCEPT ![c] = {[thread |-> r.thread, cleanup |-> r.cleanup,
                                   stage |-> IF Elapsed(r, dl) THEN "elapsed" ELSE "stale"]
                                     : r \in Taken(dl)}]
    /\ parked' = [d \in CPUs |-> parked[d] \ Taken(dl)]

(* handle_timer_tick_with_preemption on the boot CPU, and the local tick of   *)
(* another one, up to the sweep.                                            *)
Tick(c) ==
    LET dl == IF c # 0 THEN deadline
              ELSE [t \in Threads |-> IF deadline[t] < 2 THEN deadline[t] ELSE deadline[t] - 1]
    IN  /\ pc[c] \in {"run", "idle"} /\ ~irq[c]
        /\ irq' = [irq EXCEPT ![c] = TRUE]
        /\ deadline' = dl
        /\ Sweep(c, dl)
        /\ IF c = 0
           THEN /\ phase' = (phase + 1) % TimeSlice
                /\ Boost
                /\ slice' = [t \in Threads |->
                               IF t \in Promoted THEN BoostDuration ELSE Charged(c, t)]
           ELSE /\ slice' = [t \in Threads |-> Charged(c, t)]
                /\ UNCHANGED <<phase, ready, starved, prio, boosted>>
        /\ boundary' = [boundary EXCEPT ![c] = (phase' = 0)]
        /\ UNCHANGED <<lifeVars, linked, cpuVars, affinity, hand, resched, stolen, boot>>

(* One registration: its cleanup unlinks the thread from the wait queue; if   *)
(* the deadline has passed and the thread is still Waiting it will be woken.  *)
ExpireCheck(c, e) ==
    /\ e \in due[c] /\ e.stage \in {"stale", "elapsed"}
    /\ linked' = IF e.cleanup THEN [linked EXCEPT ![e.thread] = FALSE] ELSE linked
    /\ due' = [due EXCEPT ![c] =
                  (@ \ {e}) \cup IF e.stage = "elapsed" /\ tstate[e.thread] = "Waiting"
                                 THEN {[e EXCEPT !.stage = "checked"]} ELSE {}]
    /\ UNCHANGED <<lifeVars, boostVars, deadline, parked, cpuVars, irq, boundary, phase,
                   affinity, hand, ready, resched, stolen>>

(* Variant: the expired thread is made Ready and not queued. *)
ExpirePlaceNowhere(c, e) ==
    /\ e \in due[c] /\ e.stage = "checked"
    /\ due' = [due EXCEPT ![c] = @ \ {e}]
    /\ Rouse(e.thread)
    /\ UNCHANGED <<boostVars, linked, parked, cpuVars, irq, boundary, phase, affinity, hand,
                   ready, resched, stolen>>

(* ... wake_by_timeout and the enqueue on the CPU it has affinity to. *)
ExpirePlace(c, e) ==
    LET t == e.thread
        a == affinity[t]
    IN  /\ e \in due[c] /\ e.stage = "checked"
        /\ due' = [due EXCEPT ![c] = @ \ {e}]
        /\ Rouse(t)
        /\ ready' = [ready EXCEPT ![a] = Enqueue(@, tstate', t, prio[t])]
        /\ resched' = [resched EXCEPT ![a] =
                          @ \/ (Dispatchable(tstate', t) /\ (a # c \/ Outranks(t, a)))]
        /\ UNCHANGED <<boostVars, linked, parked, cpuVars, irq, boundary, phase, affinity, hand, stolen>>

(* The tick's time-slice decision, and the return from the interrupt. *)
TickEnd(c) ==
    /\ irq[c] /\ due[c] = {}
    /\ irq' = [irq EXCEPT ![c] = FALSE]
    /\ boundary' = [boundary EXCEPT ![c] = FALSE]
    /\ IF /\ pc[c] = "run" /\ boundary[c]
          /\ boot.kernelPreemption \/ hand[current[c]] = NoWake
       THEN GiveWay(c)
       ELSE /\ pc' = IF pc[c] = "idle" THEN [pc EXCEPT ![c] = "loop"] ELSE pc
            /\ UNCHANGED <<tstate, ready, current, onStack>>
    /\ UNCHANGED <<dead, done, stopFlag, killFlag, boostVars, waitVars, due, phase, affinity, hand,
                   resched, stolen>>

-----------------------------------------------------------------------------
(* The life of a thread. *)

(* The tail of place_thread and resume_suspended_process: queued on a; if a   *)
(* is another CPU a spawn interrupts it.                                    *)
Start(c, t, a, ipi) ==
    /\ tstate' = [tstate EXCEPT ![t] = "Ready"]
    /\ ready' = [ready EXCEPT ![a] = Enqueue(@, tstate', t, prio[t])]
    /\ resched' = [resched EXCEPT ![a] = @ \/ ipi \/ Outranks(t, a)]

(* register_spawned_thread by the current thread.  The round-robin counter    *)
(* is shared with every other spawn, so the CPU is any CPU.                  *)
Spawn(c, t, a, suspended) ==
    /\ Free(c) /\ t \in boot.spawnable /\ tstate[t] = "Unborn"
    /\ affinity' = [affinity EXCEPT ![t] = a]
    /\ IF suspended
       THEN tstate' = [tstate EXCEPT ![t] = "New"] /\ UNCHANGED <<ready, resched>>
       ELSE Start(c, t, a, a # c)
    /\ UNCHANGED <<dead, done, stopFlag, killFlag, boostVars, waitVars, cpuVars, tickVars, hand,
                   stolen>>

(* resume_suspended_process, which a kill has made a no-op. *)
Resume(c, t) ==
    /\ Free(c) /\ tstate[t] = "New" /\ ~dead[t]
    /\ Start(c, t, affinity[t], FALSE)
    /\ UNCHANGED <<dead, done, stopFlag, killFlag, boostVars, waitVars, cpuVars, tickVars, affinity,
                   hand, stolen>>

(* sched_setaffinity. *)
SetAffinity(c, a) ==
    /\ Free(c) /\ current[c] \in boot.movable
    /\ affinity' = [affinity EXCEPT ![current[c]] = a]
    /\ UNCHANGED <<lifeVars, boostVars, waitVars, cpuVars, tickVars, hand, ready, resched, stolen>>

(* terminate_current_thread: finish_current_thread, and away for good. *)
Exit(c) ==
    LET t == current[c]
    IN  /\ Free(c) /\ t \in boot.mortal
        /\ Terminate(t)
        /\ parked' = [parked EXCEPT ![c] = Unparked(c, t)]
        /\ deadline' = [deadline EXCEPT ![t] = 0]
        /\ LeaveCpu(c)
        /\ UNCHANGED <<boostVars, linked, tickVars, affinity, hand, ready, resched, stolen>>

IsCurrent(t) == \E c \in CPUs : current[c] = t
QueuedOn(c, t) == \E p \in Levels : Holds(ready[c][p], t)
IsQueued(t) == \E c \in CPUs : QueuedOn(c, t)
IsParked(t) == \E c \in CPUs : \E r \in parked[c] : r.thread = t
HasCleanup(t) == \E c \in CPUs : \E r \in parked[c] : r.thread = t /\ r.cleanup

(* What a scan that finds t takes out of the queues of every CPU. *)
Withdraw(t) ==
    /\ ready' = [c \in CPUs |-> RemoveQueued(ready[c], t)]
    /\ parked' = [c \in CPUs |-> Unparked(c, t)]
    /\ linked' = IF HasCleanup(t) THEN [linked EXCEPT ![t] = FALSE] ELSE linked

(* stop_process: a queued thread is Stopped and leaves its queue; a parked    *)
(* one is unlinked and woken into Stopped; a current one is Stopped and       *)
(* stays where it is.                                                        *)
Stop(c, t) ==
    /\ Free(c) /\ t \in boot.stoppable /\ tstate[t] \notin {"Unborn", "New"}
    /\ Withdraw(t)
    /\ tstate' = [tstate EXCEPT ![t] =
                     IF (IsQueued(t) \/ IsParked(t) \/ IsCurrent(t)) /\ @ # "Terminated"
                     THEN "Stopped" ELSE @]
    /\ deadline' = IF IsParked(t) THEN [deadline EXCEPT ![t] = 0] ELSE deadline
    /\ UNCHANGED <<dead, done, stopFlag, killFlag, boostVars, cpuVars, tickVars, affinity, hand,
                   resched, stolen>>

(* continue_process looks for stopped threads in the same three places. *)
Continue(c, t) ==
    /\ Free(c) /\ t \in boot.stoppable /\ tstate[t] = "Stopped"
    /\ tstate' = IF IsQueued(t) \/ IsParked(t) \/ IsCurrent(t) THEN WithState(t, "Ready") ELSE tstate
    /\ UNCHANGED <<dead, done, stopFlag, killFlag, boostVars, waitVars, cpuVars, tickVars, affinity,
                   hand, ready, resched, stolen>>

(* Process::request_termination by the current thread.  It marks the process, *)
(* has each CPU's scheduler look for the thread in turn, and then decides.   *)
(* On one CPU the scheduler looks twice, as a registered and as the primary   *)
(* one.                                                                      *)
Scans == IF boot.ncpu = 1 THEN <<0, 0>> ELSE [i \in 1 .. boot.ncpu |-> i - 1]

Kill(c, t) ==
    /\ Free(c) /\ t \in boot.killable /\ tstate[t] # "Unborn" /\ ~dead[t]
    /\ dead' = [dead EXCEPT ![t] = TRUE]
    /\ hand' = [hand EXCEPT ![current[c]] = [thread |-> t, stage |-> "ready", left |-> Scans,
                                             found |-> FALSE, cleanup |-> FALSE, running |-> FALSE]]
    /\ UNCHANGED <<tstate, done, stopFlag, killFlag, boostVars, waitVars, cpuVars, tickVars, affinity,
                   ready, resched, stolen>>

Goes(c, h) == hand' = [hand EXCEPT ![current[c]] = h]

(* terminate_threads_of_process: the ready queues, then the waiting queue,     *)
(* each under its own lock.                                                   *)
KillReady(c) ==
    /\ InCall(c, "ready")
    /\ LET h == hand[current[c]]
           v == Head(h.left)
       IN  /\ ready' = [ready EXCEPT ![v] = RemoveQueued(@, h.thread)]
           /\ Goes(c, [h EXCEPT !.stage = "waiting", !.found = QueuedOn(v, h.thread)])
    /\ UNCHANGED <<lifeVars, boostVars, waitVars, cpuVars, tickVars, affinity, resched, stolen>>

KillWaiting(c) ==
    /\ InCall(c, "waiting")
    /\ LET h == hand[current[c]]
           v == Head(h.left)
           mine == {r \in parked[v] : r.thread = h.thread}
       IN  /\ parked' = [parked EXCEPT ![v] = @ \ mine]
           /\ Goes(c, [h EXCEPT !.stage = "collected", !.found = @ \/ mine # {},
                                !.cleanup = \E r \in mine : r.cleanup])
    /\ UNCHANGED <<lifeVars, boostVars, deadline, linked, cpuVars, tickVars, affinity, ready, resched,
                   stolen>>

(* What was found is unlinked from its wait queue and terminated, with no      *)
(* scheduler lock held.                                                       *)
KillTerminates(c) ==
    /\ InCall(c, "collected")
    /\ LET h == hand[current[c]]
           t == h.thread
       IN  /\ linked' = [linked EXCEPT ![t] = @ /\ ~h.cleanup]
           /\ tstate' = [tstate EXCEPT ![t] = IF h.found THEN "Terminated" ELSE @]
           /\ deadline' = [deadline EXCEPT ![t] = IF h.found /\ tstate[t] # "Terminated" THEN 0 ELSE @]
           /\ Goes(c, [h EXCEPT !.stage = "current"])
    /\ UNCHANGED <<dead, done, stopFlag, killFlag, boostVars, parked, cpuVars, tickVars, affinity, ready,
                   resched, stolen>>

(* A thread in the current slot is flagged. *)
KillCurrent(c) ==
    /\ InCall(c, "current")
    /\ LET h == hand[current[c]]
           runs == current[Head(h.left)] = h.thread
       IN  /\ killFlag' = [killFlag EXCEPT ![h.thread] = @ \/ runs]
           /\ Goes(c, [h EXCEPT !.left = Tail(@), !.running = @ \/ runs,
                                !.stage = IF Len(h.left) = 1 THEN "decide" ELSE "ready"])
    /\ UNCHANGED <<tstate, dead, done, stopFlag, boostVars, waitVars, cpuVars, tickVars, affinity, ready,
                   resched, stolen>>

(* The process is released here unless its thread was found running. *)
KillEnds(c) ==
    /\ InCall(c, "decide")
    /\ LET h == hand[current[c]]
       IN  done' = [done EXCEPT ![h.thread] = @ \/ ~h.running]
    /\ Goes(c, NoWake)
    /\ UNCHANGED <<tstate, dead, stopFlag, killFlag, boostVars, waitVars, cpuVars, tickVars, affinity,
                   ready, resched, stolen>>

-----------------------------------------------------------------------------

(* What the kernel and the hardware do by themselves. *)
Machine(c) ==
    /\ UNCHANGED boot
    /\ \/ Dispatch(c) \/ DispatchRefused(c) \/ StealTake(c) \/ StealAdd(c) \/ Halt(c) \/ SwitchOut(c)
       \/ WakeCheck(c) \/ WakeSet(c) \/ WakePlace(c)
       \/ KillReady(c) \/ KillWaiting(c) \/ KillTerminates(c) \/ KillCurrent(c) \/ KillEnds(c)
       \/ \E e \in due[c] : ExpireCheck(c, e) \/ ExpirePlace(c, e)
       \/ TickEnd(c)

(* What a running thread asks for. *)
Request(c) ==
    /\ UNCHANGED boot
    /\ \/ Yield(c) \/ Exit(c)
       \/ \E d \in 1 .. boot.maxSleep : Block(c, FALSE, d)
       \/ current[c] \in boot.blocking /\ \E d \in 0 .. boot.maxSleep : Block(c, TRUE, d)
       \/ \E t \in Threads : WakeSelect(c, t) \/ Resume(c, t) \/ Stop(c, t) \/ Continue(c, t) \/ Kill(c, t)
       \/ \E a \in CPUs : SetAffinity(c, a)
       \/ \E t \in Threads, a \in CPUs, suspended \in BOOLEAN : Spawn(c, t, a, suspended)

Next == \E c \in CPUs : Machine(c) \/ Request(c) \/ Tick(c) \/ Interrupt(c)

Spec == Init /\ [][Next]_vars

(* A CPU keeps executing the kernel's own code and takes its timer interrupts.  *)
(* The timer of every CPU has the period of the clock, so each CPU again and    *)
(* again serves a tick at which a time slice ends.                             *)
FairSpec ==
    /\ Spec
    /\ \A c \in UNION {0 .. b.ncpu - 1 : b \in Boots} :
          /\ WF_vars(c \in CPUs /\ Machine(c)) /\ SF_vars(c \in CPUs /\ Tick(c))
          /\ []<>(c \in CPUs => boundary[c])

-----------------------------------------------------------------------------

(* Every variable has its type. *)
SchedTypeOK ==
    /\ tstate \in [Threads -> {"Unborn", "New", "Ready", "Running", "Waiting", "Stopped", "Terminated"}]
    /\ dead \in [Threads -> BOOLEAN] /\ done \in [Threads -> BOOLEAN]
    /\ stopFlag \in [Threads -> BOOLEAN] /\ killFlag \in [Threads -> BOOLEAN]
    /\ prio \in [Threads -> Levels] /\ boosted \in [Threads -> BOOLEAN]
    /\ slice \in [Threads -> 0 .. BoostDuration] /\ starved \in [Threads -> 0 .. boot.boostThreshold - 1]
    /\ affinity \in [Threads -> CPUs]
    /\ deadline \in [Threads -> 0 .. boot.maxSleep + 1]
    /\ linked \in [Threads -> BOOLEAN]
    /\ \A t \in Threads : hand[t] = NoWake \/ hand[t].thread \in Threads
    /\ \A c \in CPUs : \A p \in Levels : ready[c][p] \in Seq(Threads)
    /\ \A c \in CPUs : \A r \in parked[c] : r.thread \in Threads
    /\ current \in [CPUs -> Threads \cup {None}] /\ onStack \in [CPUs -> Threads \cup {None}]
    /\ resched \in [CPUs -> BOOLEAN] /\ irq \in [CPUs -> BOOLEAN] /\ boundary \in [CPUs -> BOOLEAN]
    /\ pc \in [CPUs -> {"loop", "idle", "run", "out"}]
    /\ \A c \in CPUs : pc[c] = "run" <=> current[c] # None
    /\ phase \in 0 .. TimeSlice - 1

Slots == CPUs \X Levels \X (1 .. Cardinality(Threads))

(* The places a thread is run from: ready queues, current slots, a thief's      *)
(* batch.                                                                      *)
Copies(t) ==
    Cardinality({s \in Slots : s[3] <= Len(ready[s[1]][s[2]]) /\ ready[s[1]][s[2]][s[3]] = t})
    + Cardinality({c \in CPUs : current[c] = t})
    + Cardinality({c \in CPUs : Holds(stolen[c], t)})

(* A waker has made t Ready and is about to queue it. *)
InHand(t) == \E u \in Threads : hand[u].thread = t /\ hand[u].stage = "woken"

Undisturbed == Threads \ (boot.stoppable \cup boot.killable)

(* find_thread_anywhere_by_pid_and_tid: "A thread sits on exactly one CPU's   *)
(* queues at a time".  A thread that can run is in exactly one place from      *)
(* which it will be run, and a current one is Running: enqueue, requeue,       *)
(* dispatch, boost, steal and wake-up neither lose nor duplicate a thread that *)
(* nobody stops or kills, and no thread at all is ever in two places, not even *)
(* one that a stop or a kill has met between two queues.                      *)
PlacedOnce ==
    /\ \A t \in Threads : Copies(t) <= 1
    /\ \A t \in Undisturbed :
        /\ tstate[t] \in {"Ready", "Running"} => Copies(t) = 1 \/ (Copies(t) = 0 /\ InHand(t))
        /\ tstate[t] = "Running" <=> IsCurrent(t)

(* park_thread: the waiting queue holds every blocked thread, which "is what   *)
(* lets the scheduler tell 'parked' from 'lost'".  A Waiting thread has a      *)
(* registration until a tick or a waker has taken it on.                      *)
WaiterIsParked ==
    \A t \in Undisturbed : tstate[t] = "Waiting" =>
        IsParked(t) \/ \E c \in CPUs : \E e \in due[c] : e.thread = t

(* wake_expired_sleepers: a thread that blocked with a deadline does not stay   *)
(* asleep.                                                                     *)
SleeperWakes ==
    \A t \in Threads : (tstate[t] = "Waiting" /\ deadline[t] # 0) ~> (tstate[t] # "Waiting")

(* docs/kernel/process.md: "Long-waiting normal threads are boosted so they     *)
(* are not starved by the real-time ones, and demoted again after a bounded      *)
(* time".  A Ready thread is dispatched sooner or later, whatever the others do. *)
ReadyRuns ==
    \A t \in Threads : (tstate[t] = "Ready") ~> (tstate[t] # "Ready")

(* process.rs: continue_process will "Resume (continue) all stopped threads      *)
(* belonging to the given process".  A stopped thread is in one of the places    *)
(* continue_process scans.                                                       *)
StoppedIsFound ==
    \A t \in Threads : tstate[t] = "Stopped" => IsQueued(t) \/ IsParked(t) \/ IsCurrent(t)

(* request_termination releases a process only when "no thread is currently       *)
(* executing": no CPU runs a thread whose process's resources are gone.  Not so    *)
(* on several CPUs, where the thread may move between two scans.                  *)
ReleasedNeverRuns == \A c \in CPUs : current[c] # None => ~done[current[c]]

(* stop_process: "Stop (suspend) all threads belonging to the given process":    *)
(* a stopped thread does nothing before it is continued.                        *)
StoppedStaysStopped ==
    [][\A t \in Threads :
          tstate[t] = "Stopped" /\ tstate'[t] \notin {"Stopped", "Terminated"}
             => \E c \in CPUs : Continue(c, t)]_vars

(* preempt_current_thread_from_interrupt: "interrupts are masked so nothing      *)
(* else can observe the half-finished switch".  No two CPUs ever execute on      *)
(* the same thread's stack.                                                    *)
OneStackOneCpu ==
    \A c, d \in CPUs : c # d /\ onStack[c] # None => onStack[c] # onStack[d]

(* set_need_resched: "The scheduler will check the flag at the next tick          *)
(* boundary or kernel-exit and yield the CPU".                                  *)
ReschedHonored ==
    [][\A c \in CPUs :
          irq[c] /\ ~irq'[c] /\ resched[c] /\ pc[c] = "run" /\ HasDispatchable(ready[c], tstate)
             => current'[c] = None]_vars
=============================================================================
