--------------------------- MODULE MCTermination ---------------------------
(* Machines for TLC.                                                       *)
EXTENDS Termination

\* One CPU: whatever the thread does, it exits or is killed by another process.
OneCpu == {[parallel |-> FALSE, place |-> p, moves |-> TRUE, exits |-> TRUE, suicide |-> FALSE,
            killers |-> Killers, asleep |-> s] : p \in {"queue", "current", "parked"}, s \in BOOLEAN}

\* Several CPUs: the thread exits while others already wait for its process.
Exit == [parallel |-> TRUE, place |-> "queue", moves |-> TRUE, exits |-> TRUE, suicide |-> FALSE,
         killers |-> {}, asleep |-> TRUE]

\* Several CPUs: a sleeping thread nobody wakes is killed.
KillSleeper == {[Exit EXCEPT !.place = "parked", !.moves = FALSE, !.killers = {k}] : k \in Killers}

Sound == OneCpu \cup {Exit} \cup KillSleeper

\* Machines on which a comment of the code does not hold.
LateWaiters == {[Exit EXCEPT !.asleep = FALSE, !.moves = FALSE]}
KillRunning == {[Exit EXCEPT !.parallel = FALSE, !.place = "current", !.suicide = TRUE]}
KillMoving == {[Exit EXCEPT !.exits = FALSE, !.killers = {k}] : k \in Killers}
=============================================================================
