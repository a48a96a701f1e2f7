-------------------------------- MODULE Waits --------------------------------
(***************************************************************************)
(* The blocking primitives together: threads that use semaphores, events    *)
(* and futexes over the same wait-queue code, one scheduler and one timer.  *)
(***************************************************************************)
EXTENDS Semaphore, Event, Futex

ASSUME WaitsAssumption ==
    Semaphores \cap (Events \cup Futexes) = {} /\ Events \cap Futexes = {}

vars == <<waitVars, semVars, eventVars, futexVars>>

WaitsInit == WaitInit /\ SemInit /\ EventInit /\ FutexInit

Sem == SemStep /\ UNCHANGED <<eventVars, futexVars>>
Evt == EventStep /\ UNCHANGED <<semVars, futexVars>>
Ftx == FutexStep /\ UNCHANGED <<semVars, eventVars>>

(* The timer pass, and a wake-up in progress, touch no primitive's state;   *)
(* futex_wake looks at what became of it.                                  *)
Timer == TimerStep /\ UNCHANGED <<semVars, eventVars, futexVars>>
Wake(w) ==
    /\ WakeStep(w)
    /\ IF at[w] = "wake" THEN FutexWoke(w) ELSE UNCHANGED futexVars
    /\ UNCHANGED <<semVars, eventVars>>

Killed(k, t) == Kill(k, t) /\ SemKilled(t) /\ UNCHANGED <<eventVars, futexVars>>

WaitsNext ==
    \/ Sem \/ Evt \/ Ftx \/ Timer
    \/ \E w \in Threads : Wake(w)
    \/ \E k, t \in Threads : Killed(k, t)

WaitsSpec == WaitsInit /\ [][WaitsNext]_vars

(* A thread's way out of a call that it does not choose to take. *)
GoesOn(t) ==
    \/ Wake(t)
    \/ AcquireReturns(t) /\ UNCHANGED <<eventVars, futexVars>>
    \/ WaitReturns(t) /\ UNCHANGED <<semVars, futexVars>>
    \/ FutexGoesOn(t) /\ UNCHANGED <<semVars, eventVars>>

(* Where such a step is enabled, and where a tick can take t's registration. *)
CanGoOn(t) ==
    /\ MayRun(t)
    /\ waking[t] # <<>> \/ waitingOn[t] # None \/ at[t] # "user"
    /\ at[t] \in {"read", "prune"} => RegistryFree
CanExpire(t) ==
    expiring = {} /\ registered[t] # "no" /\ (state[t] = "Waiting" => deadline[t])

(* A thread in the middle of a call and a thread that was woken keep being  *)
(* scheduled, and ticks keep coming, so a registered deadline is sooner or  *)
(* later past whenever a tick looks at it; the pass of a tick ends.  These  *)
(* are strong fairness of GoesOn(t) and of the tick that takes t, and weak  *)
(* fairness of the pass, with ENABLED spelled out.                         *)
FairWaitsSpec ==
    /\ WaitsSpec
    /\ \A t \in Threads : <>[]~CanGoOn(t) \/ []<><<GoesOn(t)>>_vars
    /\ \A t \in Threads :
          <>[]~CanExpire(t) \/ []<><<registered[t] # "no" /\ expiring' # expiring
                                        /\ registered'[t] = "no">>_vars
    /\ []<>(expiring = {})

-----------------------------------------------------------------------------

(* docs/kernel/ipc.md on timed blocks: "a wake that arrives after the timer  *)
(* fired cannot be delivered twice".  A wake-up selected from a wait that    *)
(* has since timed out never ends a later wait of the same thread.  Not so  *)
(* where timed waits are interleaved with other threads' calls.             *)
LateWakeEndsNoWait ==
    [][\A w \in Threads :
          waking[w] # <<>> /\ waking'[w] # waking[w] /\ ~Head(waking[w]).live
             => LET t == Head(waking[w]).thread
                IN  state[t] = "Waiting" => state'[t] = "Waiting"]_vars

(* A wait with a deadline comes back, and so does one that a release, a      *)
(* signal or a FUTEX_WAKE has picked, unless its process is killed first:   *)
(* the timer pass finds the registration, and no selected thread is dropped *)
(* when another one of the same wake-up is refused.                        *)
OwedWaitReturns ==
    \A t \in Threads :
        (\/ state[t] = "Waiting" /\ deadline[t]
         \/ \E w \in Threads : \E i \in 1 .. Len(waking[w]) :
                waking[w][i].thread = t /\ waking[w][i].live)
            ~> (waitingOn[t] = None \/ state[t] = "Terminated")
=============================================================================
