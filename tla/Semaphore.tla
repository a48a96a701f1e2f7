------------------------------ MODULE Semaphore ------------------------------
(***************************************************************************)
(* The counting semaphore (src/kernel/process/wait/semaphore.rs) on top of *)
(* the wait queue.  A queue's state is its permit count.  Threads acquire,  *)
(* with or without a deadline, and release; what the client does with a    *)
(* permit is not modelled, so the ghosts count permits issued and acquired. *)
(***************************************************************************)
EXTENDS WaitQueue

CONSTANTS Semaphores,   \* the wait queues that belong to a semaphore
          Initial,      \* permits a semaphore is created with
          MaxIssued,    \* bound: permits ever issued per semaphore
          MaxRelease    \* bound: permits in one release call

ASSUME SemaphoreAssumption ==
    /\ Semaphores \subseteq Queues
    /\ Initial \in Nat /\ MaxIssued \in Nat /\ MaxRelease \in Nat
    /\ Initial <= MaxIssued

VARIABLES permits,      \* the semaphore's count
          issued,       \* ghost: initial permits and all released ones
          acquired      \* ghost: permits callers were told they hold

semVars == <<permits, issued, acquired>>

SemInit ==
    /\ permits = [s \in Semaphores |-> Initial]
    /\ issued = [s \in Semaphores |-> Initial]
    /\ acquired = [s \in Semaphores |-> 0]

(* acquire, and acquire_timeout with a deadline: take a permit or block. *)
Acquire(t, s, timed) ==
    /\ Running(t)
    /\ \/ /\ permits[s] > 0
          /\ permits' = [permits EXCEPT ![s] = @ - 1]
          /\ acquired' = [acquired EXCEPT ![s] = @ + 1]
          /\ NoBlock(t, s)
       \/ /\ permits[s] = 0
          /\ Block(t, s, timed)
          /\ UNCHANGED <<permits, acquired>>
    /\ UNCHANGED issued

(* try_acquire, and acquire_timeout(0), which reports the failure as a timeout. *)
TryAcquire(t, s, zeroTimeout) ==
    /\ Running(t)
    /\ \/ /\ permits[s] > 0
          /\ permits' = [permits EXCEPT ![s] = @ - 1]
          /\ acquired' = [acquired EXCEPT ![s] = @ + 1]
          /\ outcome' = [outcome EXCEPT ![t] = "Completed"]
       \/ /\ permits[s] = 0 /\ zeroTimeout
          /\ outcome' = [outcome EXCEPT ![t] = "TimedOut"]
          /\ UNCHANGED <<permits, acquired>>
    /\ UNCHANGED <<issued, state, deadline, waitingOn, waiters, registered, waking, expiring, mode>>

(* Back from a blocked acquire.  A timed caller looks at the outcome; an    *)
(* untimed one has been told nothing but that it blocked.                  *)
AcquireReturns(t) ==
    /\ waitingOn[t] \in Semaphores /\ LeaveWait(t)
    /\ acquired' = IF outcome[t] = "TimedOut" THEN acquired
                   ELSE [acquired EXCEPT ![waitingOn[t]] = @ + 1]
    /\ UNCHANGED <<permits, issued>>

LeastOf(a, b) == IF a <= b THEN a ELSE b

(* Variant: the count grows by every permit, handed over or not. *)
ReleaseBoth(w, s, n) ==
    LET handed == LeastOf(n, Len(Pruned(s)))
    IN  /\ Running(w) /\ issued[s] + n <= MaxIssued
        /\ Select(w, s, handed)
        /\ permits' = [permits EXCEPT ![s] = @ + n]
        /\ issued' = [issued EXCEPT ![s] = @ + n]
        /\ UNCHANGED acquired

(* Variant: the count grows before the waiters are looked at. *)
ReleaseCountFirst(w, s, n) ==
    /\ Running(w) /\ issued[s] + n <= MaxIssued
    /\ permits' = [permits EXCEPT ![s] = @ + n]
    /\ issued' = [issued EXCEPT ![s] = @ + n]
    /\ UNCHANGED <<waitVars, acquired>>

(* release(n): hand permits to waiters first, count the rest. *)
Release(w, s, n) ==
    LET handed == LeastOf(n, Len(Pruned(s)))
    IN  /\ Running(w) /\ issued[s] + n <= MaxIssued
        /\ Select(w, s, handed)
        /\ permits' = [permits EXCEPT ![s] = @ + (n - handed)]
        /\ issued' = [issued EXCEPT ![s] = @ + n]
        /\ UNCHANGED acquired

(* A thread that dies with a permit it was handed takes the permit with it. *)
SemKilled(t) ==
    /\ acquired' = IF state[t] = "Active" /\ waitingOn[t] \in Semaphores /\ outcome[t] = "Completed"
                   THEN [acquired EXCEPT ![waitingOn[t]] = @ + 1] ELSE acquired
    /\ UNCHANGED <<permits, issued>>

SemStep ==
    \/ \E t \in Threads, s \in Semaphores \cap mode.uses :
          \/ \E timed \in mode.timed : Acquire(t, s, timed)
          \/ \E zeroTimeout \in BOOLEAN : TryAcquire(t, s, zeroTimeout)
          \/ \E n \in 1 .. MaxRelease : Release(t, s, n)
    \/ \E t \in Threads : AcquireReturns(t)

-----------------------------------------------------------------------------

(* Permits handed to a waiter that has not come back with them yet: selected *)
(* by a release in progress, or woken with Completed.                       *)
OnTheirWay(s) == Cardinality(InFlight(s))

(* "Permit accounting" (the header of semaphore.rs): every permit ever       *)
(* issued is free, held, or on its way to a waiter; release and acquire      *)
(* neither lose nor invent one.                                            *)
PermitConservation ==
    \A s \in Semaphores : permits[s] + acquired[s] + OnTheirWay(s) = issued[s]

(* A caller is never told it holds a permit that was not issued, although   *)
(* late wakes and timeouts cross releases; and where callers pass no         *)
(* timeouts no permit is lost either, under any interleaving, as long as     *)
(* nobody is killed between its selection and its wake-up.                  *)
PermitsAccounted ==
    /\ \A s \in Semaphores : permits[s] + acquired[s] <= issued[s]
    /\ TRUE \notin mode.timed /\ (mode.interleave => mode.killable = {}) => PermitConservation

(* A free permit means nobody waits for one: acquire only blocks at zero,   *)
(* and release counts a permit only when no waiter is left (the comment     *)
(* "Prefer handing permits directly to waiters").                          *)
NoIdlePermit ==
    \A s \in Semaphores : permits[s] > 0 =>
        \A t \in Threads : state[t] = "Waiting" /\ waitingOn[t] = s =>
            BeingWoken(t)
=============================================================================
