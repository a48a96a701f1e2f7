-------------------------------- MODULE Event --------------------------------
(***************************************************************************)
(* Manual- and auto-reset events (src/kernel/process/wait/event.rs) on top *)
(* of the wait queue.  A manual-reset event carries a thread's or process's *)
(* termination to the threads that join it.                                *)
(***************************************************************************)
EXTENDS WaitQueue

CONSTANTS ManualReset, AutoReset, \* the wait queues of events in EventMode::ManualReset and ::AutoReset
          MaxSignals    \* bound: signals ever sent to one auto-reset event

ASSUME EventAssumption ==
    /\ ManualReset \subseteq Queues /\ AutoReset \subseteq Queues /\ ManualReset \cap AutoReset = {}
    /\ MaxSignals \in Nat

VARIABLES signaled,     \* EventState.signaled
          owed,         \* ghost: an auto-reset signal nobody has consumed or reset yet
          sent,         \* ghost: signals sent to an auto-reset event
          consumed      \* ghost: waits on it that completed

ghostVars == <<owed, sent, consumed>>
eventVars == <<signaled, ghostVars>>

Events == ManualReset \cup AutoReset

EventInit ==
    /\ signaled = [e \in Events |-> FALSE]
    /\ owed = [e \in AutoReset |-> FALSE]
    /\ sent = [e \in AutoReset |-> 0] /\ consumed = [e \in AutoReset |-> 0]

(* A wait on e completed. *)
Consume(e) ==
    IF e \in AutoReset
    THEN /\ owed' = [owed EXCEPT ![e] = FALSE]
         /\ consumed' = [consumed EXCEPT ![e] = @ + 1]
         /\ UNCHANGED sent
    ELSE UNCHANGED ghostVars

(* Variant: a wait that finds an auto-reset event set leaves it set. *)
WaitUnconsumed(t, e, timed) ==
    /\ Running(t)
    /\ \/ /\ signaled[e]
          /\ Consume(e)
          /\ NoBlock(t, e)
          /\ UNCHANGED signaled
       \/ /\ ~signaled[e]
          /\ Block(t, e, timed)
          /\ UNCHANGED <<signaled, ghostVars>>

(* wait, and wait_timeout with a deadline.  An auto-reset event is consumed. *)
Wait(t, e, timed) ==
    /\ Running(t)
    /\ \/ /\ signaled[e]
          /\ signaled' = [signaled EXCEPT ![e] = e \in ManualReset]
          /\ Consume(e)
          /\ NoBlock(t, e)
       \/ /\ ~signaled[e]
          /\ Block(t, e, timed)
          /\ UNCHANGED <<signaled, ghostVars>>

(* wait_timeout(0): a probe that consumes an auto-reset event. *)
Probe(t, e) ==
    /\ Running(t)
    /\ \/ /\ signaled[e]
          /\ outcome' = [outcome EXCEPT ![t] = "Completed"]
          /\ signaled' = [signaled EXCEPT ![e] = e \in ManualReset]
          /\ Consume(e)
       \/ /\ ~signaled[e]
          /\ outcome' = [outcome EXCEPT ![t] = "TimedOut"]
          /\ UNCHANGED <<signaled, ghostVars>>
    /\ UNCHANGED <<state, deadline, waitingOn, waiters, registered, waking, expiring, mode>>

(* A signal that releases n waiters and leaves the event set or not. *)
SignalWith(w, e, n, set) ==
    /\ Running(w)
    /\ Select(w, e, n)
    /\ signaled' = [signaled EXCEPT ![e] = set]
    /\ IF e \in AutoReset
       THEN /\ sent[e] < MaxSignals
            /\ sent' = [sent EXCEPT ![e] = @ + 1]
            /\ owed' = [owed EXCEPT ![e] = TRUE]
            /\ UNCHANGED consumed
       ELSE UNCHANGED ghostVars

(* Variant: a manual-reset signal releases the first waiter only. *)
SignalFirst(w, e) ==
    LET n == Len(Pruned(e)) IN SignalWith(w, e, IF n > 0 THEN 1 ELSE 0, e \in ManualReset \/ n = 0)

(* signal: a manual-reset event stays signaled and releases every waiter;   *)
(* an auto-reset event releases one, or else remembers the signal.          *)
Signal(w, e) ==
    LET n == Len(Pruned(e))
    IN  IF e \in ManualReset THEN SignalWith(w, e, n, TRUE)
        ELSE IF n > 0 THEN SignalWith(w, e, 1, FALSE) ELSE SignalWith(w, e, 0, TRUE)

(* reset takes an unconsumed signal back. *)
Reset(t, e) ==
    /\ Running(t)
    /\ signaled' = [signaled EXCEPT ![e] = FALSE]
    /\ owed' = [a \in AutoReset |-> owed[a] /\ a # e]
    /\ UNCHANGED <<waitVars, sent, consumed>>

(* Back from a blocked wait; one that did not time out has consumed a signal. *)
WaitReturns(t) ==
    /\ waitingOn[t] \in Events /\ LeaveWait(t)
    /\ IF outcome[t] = "TimedOut" THEN UNCHANGED ghostVars ELSE Consume(waitingOn[t])
    /\ UNCHANGED signaled

EventStep ==
    \/ \E t \in Threads, e \in Events \cap mode.uses :
          \/ \E timed \in mode.timed : Wait(t, e, timed)
          \/ Probe(t, e) \/ Signal(t, e) \/ Reset(t, e)
    \/ \E t \in Threads : WaitReturns(t)

-----------------------------------------------------------------------------

(* Nobody sleeps on a set event: a thread waiting on an event that is        *)
(* signaled is already being woken.  This is what makes join return for a    *)
(* thread that starts waiting just as the target terminates.                *)
SetEventHasNoSleeper ==
    \A t \in Threads :
        state[t] = "Waiting" /\ waitingOn[t] \in Events /\ signaled[waitingOn[t]] => BeingWoken(t)

(* An auto-reset event lets through at most one wait per signal, also when   *)
(* the release of a waiter and a probe or a second signal interleave.       *)
OneWaitPerSignal == \A e \in AutoReset : consumed[e] <= sent[e]

(* event.rs: "Auto-reset releases at most one waiter, otherwise records a    *)
(* sticky signal."  A signal nobody consumed or reset is still there: in the *)
(* flag, or with a waiter on its way out.                                   *)
SignalNotLost ==
    \A e \in AutoReset : owed[e] =>
        signaled[e] \/ InFlight(e) # {}
=============================================================================
