----------------------------- MODULE Termination -----------------------------
(***************************************************************************)
(* The end of a process: its one thread exits, or somebody sends it        *)
(* SIGKILL; the process is torn down; those who wait for it collect its    *)
(* reason, and the last of it, its pid, is given away again.               *)
(* (src/src/kernel/process/: process/fork.rs, process/lifecycle.rs,        *)
(* thread/lifecycle.rs, scheduler/terminate.rs, scheduler/spawn.rs,        *)
(* scheduler/process.rs, and src/src/syscall/process/wait.rs.)             *)
(*                                                                         *)
(* None of this holds a lock from one assignment to the next.  On several  *)
(* CPUs the steps below interleave freely; on one CPU that does not        *)
(* preempt the kernel a call runs to its end or to the point it sleeps.    *)
(* "thread" stands for the thread and for the dispatcher of the CPU it is  *)
(* queued on; killers and waiters are threads of other processes.          *)
(***************************************************************************)
EXTENDS Naturals

CONSTANTS Killers, Waiters,
          Machines    \* the machines and loads behaviours start with

Machine == [parallel : BOOLEAN,        \* several CPUs
            place : {"queue", "current", "parked"},
            moves : BOOLEAN,           \* may the thread yield and block, and is it woken?
            exits : BOOLEAN,           \* may it exit?
            suicide : BOOLEAN,         \* may it send SIGKILL to its own process?
            killers : SUBSET Killers,
            asleep : BOOLEAN]          \* do the waiters wait from the start?

\* A thread of another process either kills or waits.
ASSUME TerminationAssumption ==
  /\ \A m \in Machines : m \in Machine
  /\ "thread" \notin Killers \cup Waiters /\ Killers \cap Waiters = {}

VARIABLES
  machine,
  pstate,     \* ProcessState: "Live" or "Terminated"
  tstate,     \* ThreadState
  place,      \* where the scheduler has the thread
  target,     \* the state set_process_and_thread_state is about to write
  flagged,    \* terminate_pending
  reason,     \* termination_reason
  reaped,     \* termination_reaped
  space,      \* the address space: installed, deferred, given back or dropped
  signaled,   \* termination_event
  registered, \* is the process in the process table?
  freed,      \* how often its pid was pushed on freed_pids
  scanned,    \* killers that have looked at the current slot
  at,         \* what each actor does next
  got         \* the reason a waiter has collected

threadVars == <<tstate, place, target, flagged>>
endVars == <<reason, reaped, space, signaled>>
tableVars == <<registered, freed, got>>
termVars == <<machine, pstate, threadVars, endVars, tableVars, scanned, at>>

Actors == {"thread"} \cup Killers \cup Waiters

\* An actor that leaves the CPU to others.
AtRest(a) == at[a] \in {"rest", "asleep", "woken", "done"}

MayRun(a) == machine.parallel \/ \A b \in Actors \ {a} : AtRest(b)

\* The thread of another process has the CPU.
IsDispatched(a) == MayRun(a) /\ (machine.parallel \/ place # "current")

Begins(a) == at[a] = "rest" /\ IsDispatched(a)

Goes(a, next) == at' = [at EXCEPT ![a] = next]

Gone == tstate = "Terminated" \/ pstate = "Terminated"

-----------------------------------------------------------------------------
(* The thread between its queues.                                          *)

\* set_process_and_thread_state, up to its test.
Enters(s) ==
  /\ target' = s
  /\ Goes("thread", IF Gone THEN "settle" ELSE "write")

\* ... and the two assignments.
Writes ==
  /\ at["thread"] = "write"
  /\ pstate' = "Live" /\ tstate' = target
  /\ Goes("thread", "settle")
  /\ UNCHANGED <<machine, place, target, flagged, endVars, tableVars, scanned>>

\* A dispatched thread is current whatever its state; one that is not Ready is
\* not queued again.
Settles ==
  /\ at["thread"] = "settle"
  /\ place' = CASE target = "Running" -> "current"
                [] target = "Waiting" -> "parked"
                [] OTHER -> IF tstate = "Ready" THEN "queue" ELSE "nowhere"
  /\ Goes("thread", "rest")
  /\ UNCHANGED <<machine, pstate, tstate, target, flagged, endVars, tableVars, scanned>>

DispatchTakes ==
  /\ at["thread"] = "rest" /\ MayRun("thread") /\ place = "queue"
  /\ place' = IF tstate = "Ready" THEN "hand" ELSE "nowhere"
  /\ Goes("thread", IF tstate = "Ready" THEN "prepare" ELSE "rest")
  /\ UNCHANGED <<machine, pstate, tstate, target, flagged, endVars, tableVars, scanned>>

\* prepare_thread_address_space_for_dispatch
DispatchPrepares ==
  /\ at["thread"] = "prepare"
  /\ IF space = "installed"
     THEN Enters("Running") /\ UNCHANGED place
     ELSE Goes("thread", "terminate") /\ place' = "nowhere" /\ UNCHANGED target
  /\ UNCHANGED <<machine, pstate, tstate, flagged, endVars, tableVars, scanned>>

\* yield_current_thread and block_current_thread_if empty the current slot first.
Leaves(s) ==
  /\ machine.moves
  /\ at["thread"] = "rest" /\ MayRun("thread") /\ place = "current"
  /\ place' = "hand"
  /\ Enters(s)
  /\ UNCHANGED <<machine, pstate, tstate, flagged, endVars, tableVars, scanned>>

\* wake_thread by whoever ends the wait; the registration goes with the last step.
Wakes ==
  /\ machine.moves
  /\ at["thread"] = "rest" /\ MayRun("thread") /\ place = "parked"
  /\ tstate = "Waiting" /\ pstate # "Terminated"
  /\ Enters("Ready")
  /\ UNCHANGED <<machine, pstate, tstate, place, flagged, endVars, tableVars, scanned>>

-----------------------------------------------------------------------------
(* finish_current_thread, and Thread::finish_termination by anybody.       *)

Exits ==
  /\ machine.exits
  /\ at["thread"] = "rest" /\ MayRun("thread") /\ place = "current"
  /\ place' = "nowhere"
  /\ target' = "Exit"
  /\ Goes("thread", "terminate")
  /\ UNCHANGED <<machine, pstate, tstate, flagged, endVars, tableVars, scanned>>

\* Where an actor goes on after a thread, or the process, has been finished.
After(a) == IF a = "thread" THEN "rest" ELSE IF a \in scanned THEN "done" ELSE "scan_current"

\* The thread is the last of its process; terminating it again does nothing.
Terminates(a) ==
  /\ at[a] = "terminate"
  /\ tstate' = "Terminated"
  /\ Goes(a, IF tstate = "Terminated" THEN After(a) ELSE "last")
  /\ UNCHANGED <<machine, pstate, place, target, flagged, endVars, tableVars, scanned>>

\* finish_thread_termination: nothing to do for a process that is Terminated.
Last(a) ==
  /\ at[a] = "last"
  /\ Goes(a, IF pstate = "Terminated" THEN After(a) ELSE "complete")
  /\ UNCHANGED <<machine, pstate, threadVars, endVars, tableVars, scanned>>

-----------------------------------------------------------------------------
(* complete_termination.                                                   *)

CompleteMarks(a) ==
  /\ at[a] = "complete"
  /\ pstate' = "Terminated"
  /\ Goes(a, "record_last")
  /\ UNCHANGED <<machine, threadVars, endVars, tableVars, scanned>>

\* The reason the caller has, if it has one.
Reported(a) ==
  CASE a = "thread" /\ target = "Exit" -> "exit"
    [] a \in scanned -> "kill"
    [] OTHER -> reason

CompleteRecords(a) ==
  /\ at[a] = "record_last"
  /\ reason' = Reported(a)
  /\ Goes(a, "reopen_last")
  /\ UNCHANGED <<machine, pstate, threadVars, reaped, space, signaled, tableVars, scanned>>

CompleteReopens(a) ==
  /\ at[a] = "reopen_last"
  /\ reaped' = FALSE
  /\ Goes(a, "release")
  /\ UNCHANGED <<machine, pstate, threadVars, reason, space, signaled, tableVars, scanned>>

\* Variant: the address space stays installed.
CompleteReleasesNothing(a) ==
  /\ at[a] = "release"
  /\ Goes(a, "signal")
  /\ UNCHANGED <<machine, pstate, threadVars, endVars, tableVars, scanned>>

\* release_termination_resources: the address space is left for the reaper.  A
\* second release finds none and empties the reaper's slot.
CompleteReleases(a) ==
  /\ at[a] = "release"
  /\ space' = CASE space = "installed" -> "deferred"
                [] space = "deferred" -> "dropped"
                [] OTHER -> space
  /\ Goes(a, "signal")
  /\ UNCHANGED <<machine, pstate, threadVars, reason, reaped, signaled, tableVars, scanned>>

\* Event::signal wakes every waiter.
Woken == {w \in Waiters : at[w] = "asleep"}

\* Variant: one waiter is woken.
CompleteSignalsOne(a) ==
  /\ at[a] = "signal"
  /\ signaled' = TRUE
  /\ at' = [b \in Actors |-> CASE b = a -> After(a)
                             [] b \in Woken /\ b = CHOOSE w \in Woken : TRUE -> "woken"
                             [] OTHER -> at[b]]
  /\ UNCHANGED <<machine, pstate, threadVars, reason, reaped, space, tableVars, scanned>>

CompleteSignals(a) ==
  /\ at[a] = "signal"
  /\ signaled' = TRUE
  /\ at' = [b \in Actors |-> CASE b = a -> After(a) [] b \in Woken -> "woken" [] OTHER -> at[b]]
  /\ UNCHANGED <<machine, pstate, threadVars, reason, reaped, space, tableVars, scanned>>

-----------------------------------------------------------------------------
(* request_termination, by a killer or by the thread itself.               *)

KillStarts(a) ==
  /\ IF a = "thread"
     THEN machine.suicide /\ at[a] = "rest" /\ MayRun(a) /\ place = "current"
     ELSE a \in machine.killers /\ Begins(a)
  /\ Goes(a, IF registered /\ pstate # "Terminated" THEN "record"
             ELSE IF a = "thread" THEN "rest" ELSE "done")
  /\ UNCHANGED <<machine, pstate, threadVars, endVars, tableVars, scanned>>

KillRecords(a) ==
  /\ at[a] = "record"
  /\ reason' = "kill"
  /\ Goes(a, "mark")
  /\ UNCHANGED <<machine, pstate, threadVars, reaped, space, signaled, tableVars, scanned>>

KillMarks(a) ==
  /\ at[a] = "mark"
  /\ pstate' = "Terminated"
  /\ Goes(a, "reopen")
  /\ UNCHANGED <<machine, threadVars, endVars, tableVars, scanned>>

KillReopens(a) ==
  /\ at[a] = "reopen"
  /\ reaped' = FALSE
  /\ Goes(a, "scan_ready")
  /\ UNCHANGED <<machine, pstate, threadVars, reason, space, signaled, tableVars, scanned>>

\* terminate_threads_of_process on the CPU that has the thread: the ready
\* queues, the waiting queue, the current slot, each under its own lock.
Scans(a, step, where, next) ==
  /\ at[a] = step
  /\ place' = IF place = where THEN "nowhere" ELSE place
  /\ Goes(a, IF place = where THEN "terminate" ELSE next)
  /\ UNCHANGED <<machine, pstate, tstate, target, flagged, endVars, tableVars, scanned>>

ScanReady(a) == Scans(a, "scan_ready", "queue", "scan_waiting")
ScanWaiting(a) == Scans(a, "scan_waiting", "parked", "scan_current")

\* A running thread is flagged, and nothing is completed here.
ScanCurrent(a) ==
  /\ at[a] = "scan_current"
  /\ flagged' = (flagged \/ place = "current")
  /\ scanned' = scanned \cup {a}
  /\ Goes(a, IF place # "current" THEN "complete" ELSE IF a = "thread" THEN "rest" ELSE "done")
  /\ UNCHANGED <<machine, pstate, tstate, place, target, endVars, tableVars>>

-----------------------------------------------------------------------------
(* wait.rs: wait_for_process_termination and reap_process.                 *)

WaitStarts(w) ==
  /\ Begins(w)
  /\ Goes(w, IF registered THEN "probe" ELSE "done")
  /\ UNCHANGED <<machine, pstate, threadVars, endVars, tableVars, scanned>>

WaitProbes(w) ==
  /\ at[w] = "probe" \/ (at[w] = "woken" /\ IsDispatched(w))
  /\ Goes(w, IF pstate = "Terminated" THEN "find" ELSE "wait")
  /\ UNCHANGED <<machine, pstate, threadVars, endVars, tableVars, scanned>>

WaitBlocks(w) ==
  /\ at[w] = "wait"
  /\ Goes(w, IF signaled THEN "probe" ELSE "asleep")
  /\ UNCHANGED <<machine, pstate, threadVars, endVars, tableVars, scanned>>

ReapFinds(w) ==
  /\ at[w] = "find"
  /\ Goes(w, IF registered THEN "claim" ELSE "done")
  /\ UNCHANGED <<machine, pstate, threadVars, endVars, tableVars, scanned>>

\* Variant: the claim is not recorded.
ReapClaimsAlways(w) ==
  /\ at[w] = "claim"
  /\ Goes(w, IF pstate = "Terminated" THEN "take" ELSE "done")
  /\ UNCHANGED <<machine, pstate, threadVars, endVars, tableVars, scanned>>

\* reap_termination_reason
ReapClaims(w) ==
  /\ at[w] = "claim"
  /\ Goes(w, IF pstate = "Terminated" /\ ~ reaped THEN "take" ELSE "done")
  /\ reaped' = (reaped \/ pstate = "Terminated")
  /\ UNCHANGED <<machine, pstate, threadVars, reason, space, signaled, tableVars, scanned>>

ReapTakes(w) ==
  /\ at[w] = "take"
  /\ got' = [got EXCEPT ![w] = reason]
  /\ reason' = "none"
  /\ Goes(w, "forget")
  /\ UNCHANGED <<machine, pstate, threadVars, reaped, space, signaled, registered, freed, scanned>>

\* The table, clear_deferred_user_address_space, and the pid.
ReapForgets(w) ==
  /\ at[w] = "forget"
  /\ registered' = FALSE
  /\ space' = IF space = "deferred" THEN "given back" ELSE space
  /\ freed' = freed + 1
  /\ Goes(w, "done")
  /\ UNCHANGED <<machine, pstate, threadVars, reason, reaped, signaled, got, scanned>>

-----------------------------------------------------------------------------
TermInit ==
  /\ machine \in Machines
  /\ place = machine.place
  /\ tstate = CASE place = "queue" -> "Ready" [] place = "current" -> "Running" [] OTHER -> "Waiting"
  /\ pstate = "Live" /\ target = tstate /\ flagged = FALSE
  /\ reason = "none" /\ reaped = FALSE /\ space = "installed" /\ signaled = FALSE
  /\ registered = TRUE /\ freed = 0 /\ got = [w \in Waiters |-> "nothing"]
  /\ scanned = {}
  /\ at = [a \in Actors |-> IF machine.asleep /\ a \in Waiters THEN "asleep" ELSE "rest"]

\* A call that has begun.
Finishes(a) ==
  \/ Terminates(a) \/ Last(a)
  \/ CompleteMarks(a) \/ CompleteRecords(a) \/ CompleteReopens(a) \/ CompleteReleases(a) \/ CompleteSignals(a)

Kills(a) ==
  \/ KillRecords(a) \/ KillMarks(a) \/ KillReopens(a)
  \/ ScanReady(a) \/ ScanWaiting(a) \/ ScanCurrent(a)

Waits(w) ==
  WaitProbes(w) \/ WaitBlocks(w) \/ ReapFinds(w) \/ ReapClaims(w) \/ ReapTakes(w) \/ ReapForgets(w)

Moves == Writes \/ Settles \/ DispatchPrepares

Starts ==
  \/ DispatchTakes \/ Leaves("Ready") \/ Leaves("Waiting") \/ Wakes \/ Exits
  \/ \E a \in {"thread"} \cup Killers : KillStarts(a)
  \/ \E w \in Waiters : WaitStarts(w)

TermNext ==
  \/ Starts \/ Moves
  \/ \E a \in {"thread"} \cup Killers : Finishes(a) \/ Kills(a)
  \/ \E w \in Waiters : Waits(w)

\* A CPU goes on with a call it is in.
TermSpec ==
  /\ TermInit /\ [][TermNext]_termVars
  /\ WF_termVars(Moves)
  /\ \A a \in {"thread"} \cup Killers : WF_termVars(Finishes(a) \/ Kills(a))
  /\ \A w \in Waiters : WF_termVars(Waits(w))

-----------------------------------------------------------------------------
(* Properties.                                                             *)

\* reap_termination_reason: "Reaping is intentionally one-shot: once a waiter
\* claims the reason, later callers observe the process as already collected."
\* A pid pushed twice would name two processes.
ReapedOnce == freed <= 1

\* The waiter that collects the process learns why it ended.
ReasonReported == \A w \in Waiters : got[w] # "none"

\* clear_deferred_user_address_space releases what the address space held: it
\* finds the space where the teardown has put it.
SpaceGivenBack ==
  ~ registered /\ (\A a \in Actors : AtRest(a)) => space = "given back"

\* request_termination completes the termination itself only when "nothing can
\* be racing with us": no thread runs in an address space that is gone.
RunsInItsSpace == place = "current" => space = "installed"

\* set_process_and_thread_state: "Stale ready/current entries must not revive an
\* already terminated thread or process".
TerminatedForGood == [][pstate = "Terminated" => pstate' = "Terminated"]_termVars

\* Whoever waits for a process that is Terminated returns.
WaiterLearns ==
  \A w \in Waiters : (pstate = "Terminated" /\ at[w] # "rest") ~> at[w] = "done"
=============================================================================
