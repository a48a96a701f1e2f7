-------------------------------- MODULE MCWaits --------------------------------
(* Instances of Waits for TLC.  A behaviour runs on a preemptible or SMP kernel   *)
(* whose callers wait without timeouts, or on a uniprocessor without kernel       *)
(* preemption, where the timer alone interrupts a wake-up, waits may carry a       *)
(* timeout and a process may be killed.  A machine's threads use the semaphore,    *)
(* one of the events or the futex.                                               *)
EXTENDS Waits

CONSTANT Victim     \* the thread that may be killed

Preemptible(qs) == [interleave |-> TRUE, timed |-> {FALSE}, uses |-> qs, killable |-> {},
                    sleeps |-> Threads, wakes |-> Threads]
Uniprocessor(qs) == [interleave |-> FALSE, timed |-> {TRUE, FALSE}, uses |-> qs, killable |-> {Victim},
                     sleeps |-> Threads, wakes |-> Threads]
Untimed(m) == [m EXCEPT !.timed = {FALSE}]

(* Under any interleaving: two threads wait on the futex, one of them and a       *)
(* third wake.                                                                  *)
Contended == [Preemptible(Futexes) EXCEPT !.sleeps = Threads \ {Victim},
                                          !.wakes = {Victim, CHOOSE t \in Threads : t # Victim}]

AllMachines ==
    {Preemptible(qs) : qs \in {Semaphores, ManualReset, AutoReset}} \cup {Contended}
        \cup {Uniprocessor(qs) : qs \in {Semaphores, ManualReset, AutoReset}}
        \cup {Untimed(Uniprocessor(Futexes))}

(* Timed waits alone, timed waits under any interleaving, and no timeouts. *)
TimedOnly == {[Uniprocessor(Queues) EXCEPT !.timed = {TRUE}, !.killable = {}]}
TimedPreemptible == {[Preemptible(Queues) EXCEPT !.timed = {TRUE, FALSE}]}
UntimedPreemptible == {Preemptible(Queues)}
=============================================================================
