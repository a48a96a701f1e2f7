----------------------------- MODULE MCScheduler -----------------------------
(* Small instances of the scheduler for TLC. *)
EXTENDS Scheduler, TLC

(* One CPU without kernel preemption, all threads spawned, none of which       *)
(* sleeps or blocks; the boots below say what they add.                        *)
Plain == [ncpu |-> 1, kernelPreemption |-> FALSE, boostThreshold |-> 2,
          initial |-> Threads, spawnable |-> {}, mortal |-> {},
          blocking |-> {}, maxSleep |-> 0, movable |-> {}, stoppable |-> {}, killable |-> {}]

Blocks == [Plain EXCEPT !.blocking = Threads]

(* One CPU: sleeps, timed and untimed blocks, wake-ups in mid tick, boosts, a  *)
(* thread that is spawned and exits.                                           *)
OneCpu == {[Blocks EXCEPT !.maxSleep = 1, !.initial = Threads \ {t}, !.spawnable = {t}, !.mortal = {t}]
             : t \in Threads}

(* Two CPUs that steal all threads from each other and boost them; two of the  *)
(* threads block.                                                              *)
TwoCpus == {[Blocks EXCEPT !.ncpu = 2, !.boostThreshold = 1, !.blocking = Threads \ {t}] : t \in Threads}

(* Two CPUs, kernel preemption, two threads that change their affinity, of     *)
(* which one blocks.                                                           *)
Moves == {[Blocks EXCEPT !.ncpu = 2, !.kernelPreemption = TRUE, !.blocking = {b},
                         !.initial = Threads \ {t}, !.movable = Threads \ {t}]
            : <<t, b>> \in {p \in Threads \X Threads : p[1] # p[2]}}

(* Stops and kills on one CPU that preempts the kernel; the targets block. *)
Jobs == {[Plain EXCEPT !.kernelPreemption = TRUE, !.blocking = {s, k}, !.stoppable = {s}, !.killable = {k}]
           : <<s, k>> \in {p \in Threads \X Threads : p[1] # p[2]}}

AllBoots == OneCpu \cup TwoCpus \cup Moves \cup Jobs

(* Every set of boots above is closed under permutations of the threads, so    *)
(* they are interchangeable; used for invariants only.                         *)
ThreadSymmetry == Permutations(Threads)

(* Liveness on one CPU: sleepers and spinning threads. *)
Sleepers == {[Plain EXCEPT !.maxSleep = 1, !.boostThreshold = 3]}

(* Smaller machines, one disagreement with a comment or document each. *)
TwoYield == {[Plain EXCEPT !.ncpu = 2]}
TwoYieldOneLate == {[Plain EXCEPT !.ncpu = 2, !.initial = Threads \ {t}, !.spawnable = {t}] : t \in Threads}
TwoBlock == {[Blocks EXCEPT !.ncpu = 2]}
TwoTimed == {[Blocks EXCEPT !.ncpu = 2, !.maxSleep = 1]}
OnePreemptedTimed == {[Blocks EXCEPT !.kernelPreemption = TRUE, !.maxSleep = 1]}
TwoKill == {[Blocks EXCEPT !.ncpu = 2, !.killable = {t}] : t \in Threads}
OneStops == {[Plain EXCEPT !.stoppable = {t}] : t \in Threads}
=============================================================================
