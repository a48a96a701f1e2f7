--------------------------- MODULE WaitQueueProofs ---------------------------
(***************************************************************************)
(* The invariant of the wait queue, and that each of its steps keeps it, for *)
(* any threads and queues, on a machine that does not cross a wake-up of a   *)
(* timed wait with other threads; then what such a step means to those who   *)
(* count permits and signals, and to the registry of futexes.              *)
(***************************************************************************)
EXTENDS Waits, SublistLemmas, FiniteSetTheorems

\* A leaf that names no prover is for Zenon.
USE ZenonT(60)

NoTimeouts == TRUE \notin mode.timed

(* Nobody is killed between its selection by a waker and its wake-up. *)
Unharmed == NoTimeouts /\ (mode.interleave => mode.killable = {})

WakeEntry == [thread : Threads, live : BOOLEAN,
              stage : {"selected", "checked", "woken", "again"}]

WaitTypeOK ==
    /\ state \in [Threads -> {"Active", "Waiting", "Terminated"}]
    /\ deadline \in [Threads -> BOOLEAN]
    /\ outcome \in [Threads -> {"Completed", "Pending", "TimedOut"}]
    /\ waitingOn \in [Threads -> Queues \cup {None}]
    /\ waiters \in [Queues -> Seq(Threads)]
    /\ registered \in [Threads -> Queues \cup {None, "no"}]
    /\ waking \in [Threads -> Seq(WakeEntry)]
    /\ expiring \subseteq [thread : Threads, queue : Queues \cup {None}, stale : BOOLEAN,
                           live : BOOLEAN]
    /\ mode \in Modes /\ (mode.interleave => NoTimeouts)

(* The i-th thread that w selected has not been made Ready. *)
Picked(w, i) == i \in 1 .. Len(waking[w]) /\ waking[w][i].stage \in {"selected", "checked"}

(* A queue links threads that wait on it, and those that were killed there. *)
Linked ==
    \A q \in Queues :
        /\ Distinct(waiters[q])
        /\ \A t \in Elements(waiters[q]) : waitingOn[t] = q /\ state[t] # "Active"

(* A thread that waits can be found: its queue links it or a waker has it. *)
Found ==
    \A t \in Threads : state[t] = "Waiting" =>
        waitingOn[t] \in Queues /\ (t \in Elements(waiters[waitingOn[t]]) \/ BeingWoken(t))

(* Whoever returns from a wait was told how it ended. *)
Told == \A t \in Threads : state[t] = "Active" /\ waitingOn[t] # None => outcome[t] # "Pending"

(* A selected thread is linked nowhere, and without timeouts it sleeps on. *)
PickedOK ==
    \A w \in Threads, i \in Nat : Picked(w, i) =>
        /\ \A q \in Queues : waking[w][i].thread \notin Elements(waiters[q])
        /\ NoTimeouts => state[waking[w][i].thread] # "Active"
        /\ Unharmed => state[waking[w][i].thread] = "Waiting"

PickedOnce ==
    \A v, w \in Threads, i, j \in Nat :
        Picked(v, i) /\ Picked(w, j) /\ waking[v][i].thread = waking[w][j].thread =>
            v = w /\ i = j

(* A wake-up that comes late finds its thread awake, and there is none       *)
(* without timeouts.                                                       *)
LateOK ==
    \A w \in Threads : \A i \in 1 .. Len(waking[w]) :
        /\ ~waking[w][i].live => state[waking[w][i].thread] # "Waiting"
        /\ NoTimeouts => waking[w][i].live /\ waking[w][i].stage # "again"

(* The registrations name the wait their thread is in. *)
RegisteredOK ==
    \A t \in Threads :
        /\ NoTimeouts => ~deadline[t] /\ registered[t] \in {"no", None}
        /\ state[t] = "Waiting" /\ deadline[t] /\ registered[t] # "no" =>
              registered[t] = waitingOn[t]

ExpiringOK ==
    \A e \in expiring :
        /\ NoTimeouts => e.stale /\ e.queue = None
        /\ e.stale => e.queue = None \/ state[e.thread] # "Waiting"
        /\ ~e.stale /\ state[e.thread] = "Waiting" => e.queue = waitingOn[e.thread]

WaitInv ==
    /\ WaitTypeOK /\ Linked /\ Found /\ Told /\ PickedOK /\ PickedOnce /\ LateOK
    /\ RegisteredOK /\ ExpiringOK

-----------------------------------------------------------------------------
(* What a queue's lists hold. *)
LEMMA QueueFacts ==
    ASSUME WaitTypeOK, Linked, NEW q \in Queues
    PROVE  /\ waiters[q] \in Seq(Threads) /\ Elements(waiters[q]) \subseteq Threads
           /\ Pruned(q) \in Seq(Threads) /\ Distinct(Pruned(q))
           /\ \A u : u \in Elements(Pruned(q)) <=>
                       u \in Elements(waiters[q]) /\ state[u] = "Waiting"
           /\ \A t \in Threads :
                 /\ WithoutThread(q, t) \in Seq(Threads) /\ Distinct(WithoutThread(q, t))
                 /\ \A u : u \in Elements(WithoutThread(q, t)) <=>
                             u \in Elements(waiters[q]) /\ u # t
<1>1. waiters[q] \in Seq(Threads) /\ Distinct(waiters[q])
  BY DEF WaitTypeOK, Linked
<1>2. Elements(waiters[q]) \subseteq Threads
  BY <1>1, ElementsAreIn
<1>3. /\ Pruned(q) \in Seq(Threads) /\ Distinct(Pruned(q))
      /\ Elements(Pruned(q)) = Elements(waiters[q]) \cap {u \in Threads : state[u] = "Waiting"}
  <2> DEFINE asleep == {u \in Threads : state[u] = "Waiting"}
  <2> HIDE DEF asleep
  <2>1. /\ Keep(waiters[q], asleep) \in Seq(Threads)
        /\ Elements(Keep(waiters[q], asleep)) = Elements(waiters[q]) \cap asleep
        /\ Distinct(waiters[q]) => Distinct(Keep(waiters[q], asleep))
    BY <1>1, KeepFacts
  <2> QED
    BY <1>1, <2>1 DEF Pruned, asleep
<1>4. ASSUME NEW t \in Threads
      PROVE  /\ WithoutThread(q, t) \in Seq(Threads) /\ Distinct(WithoutThread(q, t))
             /\ Elements(WithoutThread(q, t)) = Elements(waiters[q]) \cap (Threads \ {t})
  <2> DEFINE others == Threads \ {t}
  <2> HIDE DEF others
  <2>1. /\ Keep(waiters[q], others) \in Seq(Threads)
        /\ Elements(Keep(waiters[q], others)) = Elements(waiters[q]) \cap others
        /\ Distinct(waiters[q]) => Distinct(Keep(waiters[q], others))
    BY <1>1, KeepFacts
  <2> QED
    BY <1>1, <2>1 DEF WithoutThread, others
<1> QED
  BY <1>1, <1>2, <1>3, <1>4

LEMMA EntryFacts ==
    ASSUME WaitTypeOK, NEW w \in Threads, NEW i \in 1 .. Len(waking[w])
    PROVE  /\ waking[w][i] \in WakeEntry /\ waking[w][i].thread \in Threads
           /\ waking[w][i].live \in BOOLEAN
           /\ waking[w][i].stage \in {"selected", "checked", "woken", "again"}
           /\ waking[w] \in Seq(WakeEntry) /\ i \in Nat
<1>1. waking[w] \in Seq(WakeEntry)
  BY DEF WaitTypeOK
<1>2. waking[w][i] \in WakeEntry
  BY <1>1, ElementsAreIn DEF Elements
<1>3. i \in Nat
  BY SMT, Z3T(40), <1>1
<1> QED
  BY <1>1, <1>2, <1>3 DEF WakeEntry

LEMMA SamePicks ==
    ASSUME PickedOnce, waking' = waking
    PROVE  PickedOnce'
<1>1. \A w \in Threads, i \in Nat : Picked(w, i)' <=> Picked(w, i)
  BY DEF Picked
<1> QED
  BY <1>1 DEF PickedOnce

(* No waker has an entry for a thread that runs outside a wake-up of its own; *)
(* where threads do not interleave, no wake-up or timer pass is in progress.   *)
LEMMA RunnerIsFree ==
    ASSUME WaitInv, NEW t \in Threads, MayRun(t), waking[t] = <<>>
    PROVE  /\ \A w \in Threads : \A i \in 1 .. Len(waking[w]) : waking[w][i].thread # t
           /\ ~mode.interleave => expiring = {} /\ \A w \in Threads : waking[w] = <<>>
           /\ state[t] = "Active" /\ ~BeingWoken(t)
           /\ \A q \in Queues : t \notin Elements(waiters[q])
<1>1. state[t] = "Active" /\ ~Unplaced(t)
  BY DEF MayRun
<1>2. ~mode.interleave => expiring = {} /\ \A w \in Threads : waking[w] = <<>>
  BY DEF MayRun
<1>3. ASSUME NEW w \in Threads, NEW i \in 1 .. Len(waking[w]), waking[w][i].thread = t
      PROVE  FALSE
  <2>1. CASE ~mode.interleave
    <3>1. Len(waking[w]) = 0
      BY SMT, Z3T(40), <1>2, <2>1
    <3> QED
      BY SMT, Z3T(40), <3>1
  <2>2. CASE mode.interleave
    <3>1. NoTimeouts
      BY <2>2 DEF WaitInv, WaitTypeOK
    <3>3. waking[w][i].stage \in {"selected", "checked", "woken", "again"} /\ i \in Nat
      BY EntryFacts DEF WaitInv
    <3>4. waking[w][i].stage # "again"
      BY <3>1 DEF WaitInv, LateOK
    <3>5. waking[w][i].stage # "woken"
      BY <1>1, <1>3 DEF Unplaced
    <3>6. Picked(w, i)
      BY <3>3, <3>4, <3>5 DEF Picked
    <3> QED
      BY <1>1, <1>3, <3>1, <3>3, <3>6 DEF WaitInv, PickedOK
  <2> QED
    BY <2>1, <2>2
<1>4. ~BeingWoken(t)
  BY <1>3 DEF BeingWoken
<1>5. \A q \in Queues : t \notin Elements(waiters[q])
  BY <1>1 DEF WaitInv, Linked
<1> QED
  BY <1>1, <1>2, <1>3, <1>4, <1>5

(* push_back and block. *)
LEMMA BlockKeeps ==
    ASSUME WaitInv, NEW t \in Threads, NEW q \in Queues, NEW timed \in mode.timed,
           MayRun(t), waking[t] = <<>>, Block(t, q, timed)
    PROVE  WaitInv'
<1>1. /\ waiters' = [waiters EXCEPT ![q] = Append(Pruned(q), t)]
      /\ state' = [state EXCEPT ![t] = "Waiting"]
      /\ deadline' = [deadline EXCEPT ![t] = timed]
      /\ outcome' = [outcome EXCEPT ![t] = "Pending"]
      /\ waitingOn' = [waitingOn EXCEPT ![t] = q]
      /\ registered' = [registered EXCEPT ![t] = IF timed THEN q ELSE None]
      /\ waking' = waking /\ expiring' = expiring /\ mode' = mode
  BY DEF Block
<1>2. WaitTypeOK /\ Linked
  BY DEF WaitInv
<1>3. /\ \A w \in Threads : \A i \in 1 .. Len(waking[w]) : waking[w][i].thread # t
      /\ ~mode.interleave => expiring = {}
      /\ state[t] = "Active"
      /\ \A r \in Queues : t \notin Elements(waiters[r])
  BY RunnerIsFree
<1>4. timed \in BOOLEAN /\ (NoTimeouts => ~timed) /\ (mode.interleave => NoTimeouts)
  BY <1>2, ModesAssumption DEF WaitTypeOK, NoTimeouts
<1>5. /\ Append(Pruned(q), t) \in Seq(Threads) /\ Distinct(Append(Pruned(q), t))
      /\ \A u : u \in Elements(Append(Pruned(q), t)) <=>
                   u = t \/ (u \in Elements(waiters[q]) /\ state[u] = "Waiting")
  <2>1. /\ Pruned(q) \in Seq(Threads) /\ Distinct(Pruned(q))
        /\ \A u : u \in Elements(Pruned(q)) <=> u \in Elements(waiters[q]) /\ state[u] = "Waiting"
    BY <1>2, QueueFacts
  <2>2. /\ Append(Pruned(q), t) \in Seq(Threads)
        /\ Elements(Append(Pruned(q), t)) = Elements(Pruned(q)) \cup {t}
        /\ Distinct(Pruned(q)) /\ t \notin Elements(Pruned(q)) => Distinct(Append(Pruned(q), t))
    BY <2>1, AppendFacts
  <2> QED
    BY <1>3, <2>1, <2>2
<1>6. \A r \in Queues : waiters'[r] = IF r = q THEN Append(Pruned(q), t) ELSE waiters[r]
  BY <1>1, <1>2 DEF WaitTypeOK
<1>7. /\ \A u \in Threads : u # t => /\ state'[u] = state[u] /\ waitingOn'[u] = waitingOn[u]
                                     /\ outcome'[u] = outcome[u] /\ deadline'[u] = deadline[u]
                                     /\ registered'[u] = registered[u]
      /\ state'[t] = "Waiting" /\ waitingOn'[t] = q /\ deadline'[t] = timed
      /\ registered'[t] = IF timed THEN q ELSE None
  BY <1>1, <1>2 DEF WaitTypeOK
<1>8. WaitTypeOK'
  BY <1>1, <1>2, <1>4, <1>5 DEF WaitTypeOK, NoTimeouts
<1>9. Linked'
  <2> SUFFICES ASSUME NEW r \in Queues
               PROVE  /\ Distinct(waiters'[r])
                      /\ \A u \in Elements(waiters'[r]) : waitingOn'[u] = r /\ state'[u] # "Active"
    BY DEF Linked
  <2>1. Elements(waiters[r]) \subseteq Threads
    BY <1>2, QueueFacts
  <2>2. /\ Distinct(waiters[r])
        /\ \A u \in Elements(waiters[r]) : waitingOn[u] = r /\ state[u] # "Active"
    BY <1>2 DEF Linked
  <2>3. \A u \in Elements(waiters[r]) : waitingOn'[u] = r /\ state'[u] # "Active"
    BY <1>3, <1>7, <2>1, <2>2
  <2>4. CASE r = q
    <3>1. \A u \in Elements(waiters'[r]) : u = t \/ u \in Elements(waiters[r])
      BY <1>5, <1>6, <2>4
    <3>2. state'[t] # "Active" /\ waitingOn'[t] = r
      BY <1>7, <2>4
    <3> QED
      BY <1>5, <1>6, <2>3, <2>4, <3>1, <3>2
  <2>5. CASE r # q
    BY <1>6, <2>2, <2>3, <2>5
  <2> QED
    BY <2>4, <2>5
<1>10. Found'
  <2> SUFFICES ASSUME NEW u \in Threads, state'[u] = "Waiting"
               PROVE  /\ waitingOn'[u] \in Queues
                      /\ u \in Elements(waiters'[waitingOn'[u]]) \/ BeingWoken(u)'
    BY DEF Found
  <2>1. CASE u = t
    BY <1>5, <1>6, <1>7, <2>1
  <2>2. CASE u # t
    <3>1. /\ state[u] = "Waiting" /\ waitingOn'[u] = waitingOn[u] /\ waitingOn[u] \in Queues
          /\ u \in Elements(waiters[waitingOn[u]]) \/ BeingWoken(u)
      BY <1>7, <2>2 DEF WaitInv, Found
    <3>2. BeingWoken(u) => BeingWoken(u)'
      BY <1>1 DEF BeingWoken
    <3>3. u \in Elements(waiters[waitingOn[u]]) => u \in Elements(waiters'[waitingOn[u]])
      BY <1>5, <1>6, <3>1
    <3> QED
      BY <3>1, <3>2, <3>3
  <2> QED
    BY <2>1, <2>2
<1>11. Told'
  BY <1>7 DEF WaitInv, Told
<1>12. PickedOK'
  <2> SUFFICES ASSUME NEW w \in Threads, NEW i \in Nat, Picked(w, i)
               PROVE  /\ \A r \in Queues : waking[w][i].thread \notin Elements(waiters'[r])
                      /\ NoTimeouts => state'[waking[w][i].thread] # "Active"
                      /\ Unharmed => state'[waking[w][i].thread] = "Waiting"
    BY <1>1 DEF PickedOK, Picked, NoTimeouts, Unharmed
  <2>1. waking[w][i].thread # t
    BY <1>3 DEF Picked
  <2>2. /\ \A r \in Queues : waking[w][i].thread \notin Elements(waiters[r])
        /\ NoTimeouts => state[waking[w][i].thread] # "Active"
        /\ Unharmed => state[waking[w][i].thread] = "Waiting"
    BY DEF WaitInv, PickedOK
  <2>3. state' = [u \in Threads |-> IF u = t THEN "Waiting" ELSE state[u]]
    BY <1>1, <1>2 DEF WaitTypeOK
  <2>4. waking[w][i].thread \in Threads
    BY <1>2, EntryFacts DEF Picked
  <2> QED
    BY <1>5, <1>6, <1>7, <2>1, <2>2, <2>4
<1>13. PickedOnce'
  BY <1>1, SamePicks DEF WaitInv
<1>14. LateOK'
  <2> SUFFICES ASSUME NEW w \in Threads, NEW i \in 1 .. Len(waking[w])
               PROVE  /\ ~waking[w][i].live => state'[waking[w][i].thread] # "Waiting"
                      /\ NoTimeouts => waking[w][i].live /\ waking[w][i].stage # "again"
    BY <1>1 DEF LateOK, NoTimeouts
  <2>1. waking[w][i].thread # t /\ waking[w][i].thread \in Threads
    BY <1>2, <1>3, EntryFacts
  <2> QED
    BY <1>7, <2>1 DEF WaitInv, LateOK
<1>15. RegisteredOK'
  <2> SUFFICES ASSUME NEW u \in Threads
               PROVE  /\ NoTimeouts => ~deadline'[u] /\ registered'[u] \in {"no", None}
                      /\ state'[u] = "Waiting" /\ deadline'[u] /\ registered'[u] # "no" =>
                            registered'[u] = waitingOn'[u]
    BY <1>1 DEF RegisteredOK, NoTimeouts
  <2>1. CASE u = t
    BY <1>4, <1>7, <2>1
  <2>2. CASE u # t
    BY <1>7, <2>2 DEF WaitInv, RegisteredOK
  <2> QED
    BY <2>1, <2>2
<1>16. ExpiringOK'
  <2> SUFFICES ASSUME NEW e \in expiring
               PROVE  e.stale /\ e.queue = None /\ (NoTimeouts' => NoTimeouts)
    BY <1>1 DEF ExpiringOK
  <2> QED
    BY <1>1, <1>3, <1>4 DEF WaitInv, ExpiringOK, NoTimeouts
<1> QED
  BY <1>8, <1>9, <1>10, <1>11, <1>12, <1>13, <1>14, <1>15, <1>16 DEF WaitInv

(* A step that takes no sleeper off its queue, and tells no waiter anything. *)
LEMMA UnlinkKeeps ==
    ASSUME WaitInv, waiters' \in [Queues -> Seq(Threads)],
           \A q \in Queues : /\ Distinct(waiters'[q])
                             /\ \A u \in Elements(waiters'[q]) : u \in Elements(waiters[q]),
           \A q \in Queues : \A u \in Elements(waiters[q]) :
               state[u] = "Waiting" => u \in Elements(waiters'[q]),
           outcome' \in [Threads -> {"Completed", "Pending", "TimedOut"}],
           \A u \in Threads : waitingOn[u] # None => outcome'[u] = outcome[u],
           UNCHANGED <<state, deadline, waitingOn, registered, waking, expiring, mode>>
    PROVE  WaitInv'
<1>1. WaitTypeOK'
  BY DEF WaitInv, WaitTypeOK, NoTimeouts
<1>2. Linked'
  BY DEF WaitInv, Linked
<1>3. Found'
  <2>1. \A u \in Threads : BeingWoken(u)' <=> BeingWoken(u)
    BY DEF BeingWoken
  <2> QED
    BY <2>1 DEF WaitInv, Found
<1>4. Told'
  BY DEF WaitInv, Told
<1>5. PickedOK'
  <2>1. \A w \in Threads, i \in Nat : Picked(w, i)' <=> Picked(w, i)
    BY DEF Picked
  <2>2. (NoTimeouts' <=> NoTimeouts) /\ (Unharmed' <=> Unharmed)
    BY DEF NoTimeouts, Unharmed
  <2> QED
    BY <2>1, <2>2 DEF WaitInv, PickedOK
<1>6. PickedOnce'
  BY SamePicks DEF WaitInv
<1>7. LateOK' /\ RegisteredOK'
  BY DEF WaitInv, LateOK, RegisteredOK, NoTimeouts
<1>8. ExpiringOK'
  BY DEF WaitInv, ExpiringOK, NoTimeouts
<1> QED
  BY <1>1, <1>2, <1>3, <1>4, <1>5, <1>6, <1>7, <1>8 DEF WaitInv

(* prune_stale_waiters alone, with what a thread that is in no wait is told. *)
LEMMA PruneKeeps ==
    ASSUME WaitInv, NEW q \in Queues,
           waiters' = [waiters EXCEPT ![q] = Pruned(q)],
           outcome' \in [Threads -> {"Completed", "Pending", "TimedOut"}],
           \A u \in Threads : waitingOn[u] # None => outcome'[u] = outcome[u],
           UNCHANGED <<state, deadline, waitingOn, registered, waking, expiring, mode>>
    PROVE  WaitInv'
<1>1. waiters \in [Queues -> Seq(Threads)] /\ WaitTypeOK /\ Linked
  BY DEF WaitInv, WaitTypeOK
<1>2. /\ Pruned(q) \in Seq(Threads) /\ Distinct(Pruned(q))
      /\ \A u : u \in Elements(Pruned(q)) <=> u \in Elements(waiters[q]) /\ state[u] = "Waiting"
  BY <1>1, QueueFacts
<1>3. \A r \in Queues : waiters'[r] = IF r = q THEN Pruned(q) ELSE waiters[r]
  BY <1>1
<1>4. waiters' \in [Queues -> Seq(Threads)]
  BY <1>1, <1>2
<1>5. \A r \in Queues : Distinct(waiters'[r]) /\ \A u \in Elements(waiters'[r]) : u \in Elements(waiters[r])
  BY <1>1, <1>2, <1>3 DEF Linked
<1>6. \A r \in Queues : \A u \in Elements(waiters[r]) :
          state[u] = "Waiting" => u \in Elements(waiters'[r])
  BY <1>2, <1>3
<1> QED
  BY <1>4, <1>5, <1>6, UnlinkKeeps

(* The end of a blocked call: no waker has an entry that could come late. *)
LEMMA LeaveWaitKeeps ==
    ASSUME WaitInv, NEW t \in Threads, LeaveWait(t)
    PROVE  WaitInv' /\ waking' = waking
<1>1. /\ MayRun(t) /\ waking[t] = <<>> /\ waitingOn[t] # None
      /\ waitingOn' = [waitingOn EXCEPT ![t] = None]
      /\ waking' = Late(t)
      /\ UNCHANGED <<state, deadline, outcome, waiters, registered, expiring, mode>>
  BY DEF LeaveWait
<1>2. /\ \A w \in Threads : \A i \in 1 .. Len(waking[w]) : waking[w][i].thread # t
      /\ state[t] = "Active" /\ ~BeingWoken(t)
      /\ \A r \in Queues : t \notin Elements(waiters[r])
  BY <1>1, RunnerIsFree
<1>3. WaitTypeOK
  BY DEF WaitInv
<1>4. waking' = waking
  <2>1. waking \in [Threads -> Seq(WakeEntry)]
    BY <1>3 DEF WaitTypeOK
  <2>2. \A w \in Threads : Late(t)[w] = waking[w]
    <3> SUFFICES ASSUME NEW w \in Threads PROVE Late(t)[w] = waking[w]
      OBVIOUS
    <3>1. /\ Late(t)[w] = [i \in DOMAIN waking[w] |->
                              IF waking[w][i].thread = t THEN [waking[w][i] EXCEPT !.live = FALSE]
                              ELSE waking[w][i]]
          /\ DOMAIN waking[w] = 1 .. Len(waking[w])
          /\ waking[w] = [i \in DOMAIN waking[w] |-> waking[w][i]]
      BY SMT, Z3T(40), <2>1 DEF Late
    <3> QED
      BY <1>2, <3>1
  <2>3. Late(t) = [w \in Threads |-> Late(t)[w]]
    BY DEF Late
  <2> QED
    BY <1>1, <2>1, <2>2, <2>3
<1>5. /\ waitingOn'[t] = None /\ \A u \in Threads : u # t => waitingOn'[u] = waitingOn[u]
      /\ waitingOn' \in [Threads -> Queues \cup {None}]
  BY <1>1, <1>3 DEF WaitTypeOK
<1>6. WaitTypeOK'
  BY <1>1, <1>3, <1>4, <1>5 DEF WaitTypeOK, NoTimeouts
<1>7. Linked'
  <2>1. \A r \in Queues : Elements(waiters[r]) \subseteq Threads
    BY <1>3, QueueFacts DEF WaitInv
  <2> QED
    BY <1>1, <1>2, <1>5, <2>1 DEF WaitInv, Linked
<1>8. Found'
  <2>1. \A u \in Threads : BeingWoken(u)' <=> BeingWoken(u)
    BY <1>4 DEF BeingWoken
  <2>2. \A u \in Threads : state'[u] = "Waiting" => waitingOn'[u] = waitingOn[u] /\ state[u] = "Waiting"
    BY <1>1, <1>2, <1>5
  <2> QED
    BY <1>1, <2>1, <2>2 DEF WaitInv, Found
<1>9. Told'
  BY <1>1, <1>5 DEF WaitInv, Told
<1>10. PickedOK'
  <2>1. \A w \in Threads, i \in Nat : Picked(w, i)' <=> Picked(w, i)
    BY <1>4 DEF Picked
  <2>2. (NoTimeouts' <=> NoTimeouts) /\ (Unharmed' <=> Unharmed)
    BY <1>1 DEF NoTimeouts, Unharmed
  <2> QED
    BY <1>1, <1>4, <2>1, <2>2 DEF WaitInv, PickedOK
<1>11. PickedOnce'
  BY <1>4, SamePicks DEF WaitInv
<1>12. LateOK'
  BY <1>1, <1>4 DEF WaitInv, LateOK, NoTimeouts
<1>13. RegisteredOK'
  BY <1>1, <1>2, <1>5 DEF WaitInv, RegisteredOK, NoTimeouts
<1>14. ExpiringOK'
  <2>1. \A e \in expiring : e.thread \in Threads
    BY <1>3 DEF WaitTypeOK
  <2> QED
    BY <1>1, <1>2, <1>5, <2>1 DEF WaitInv, ExpiringOK, NoTimeouts
<1> QED
  BY <1>4, <1>6, <1>7, <1>8, <1>9, <1>10, <1>11, <1>12, <1>13, <1>14 DEF WaitInv

(* A tick takes registrations. *)
LEMMA TickKeeps ==
    ASSUME WaitInv, Tick
    PROVE  WaitInv'
<1> DEFINE stale == {t \in Threads : registered[t] # "no" /\ state[t] # "Waiting"}
           due   == {t \in Threads : registered[t] # "no" /\ state[t] = "Waiting" /\ deadline[t]}
<1>1. PICK elapsed \in SUBSET due :
          /\ expiring' = {[thread |-> t, queue |-> registered[t], stale |-> t \in stale,
                           live |-> t \in elapsed] : t \in stale \cup elapsed}
          /\ registered' = [t \in Threads |->
                               IF t \in stale \cup elapsed THEN "no" ELSE registered[t]]
          /\ UNCHANGED <<state, deadline, outcome, waitingOn, waiters, waking, mode>>
  BY DEF Tick
<1>2. WaitTypeOK
  BY DEF WaitInv
<1> DEFINE taken(t) == [thread |-> t, queue |-> registered[t], stale |-> t \in stale,
                        live |-> t \in elapsed]
<1>3. \A e \in expiring' : \E t \in stale \cup elapsed :
          /\ e = taken(t)
          /\ e.thread = t /\ e.queue = registered[t] /\ (e.stale <=> t \in stale)
  <2>1. \A t : /\ taken(t).thread = t /\ taken(t).queue = registered[t]
               /\ taken(t).stale <=> t \in stale
    OBVIOUS
  <2>2. expiring' = {taken(t) : t \in stale \cup elapsed}
    BY <1>1
  <2> HIDE DEF taken, stale, due
  <2> QED
    BY <2>1, <2>2
<1>4. WaitTypeOK'
  <2>1. \A t \in stale \cup elapsed : t \in Threads /\ registered[t] \in Queues \cup {None}
    BY <1>1, <1>2 DEF WaitTypeOK
  <2>2. expiring' \subseteq [thread : Threads, queue : Queues \cup {None}, stale : BOOLEAN,
                             live : BOOLEAN]
    <3>1. \A t \in stale \cup elapsed : taken(t) \in [thread : Threads, queue : Queues \cup {None},
                                                      stale : BOOLEAN, live : BOOLEAN]
      <4>1. \A t : (t \in stale) \in BOOLEAN /\ (t \in elapsed) \in BOOLEAN
        BY SMT, Z3T(40)
      <4> HIDE DEF stale
      <4> QED
        BY SMT, Z3T(40), <2>1, <4>1
    <3> HIDE DEF taken, stale, due
    <3> QED
      BY <1>3, <3>1
  <2>3. registered' \in [Threads -> Queues \cup {None, "no"}]
    BY <1>1, <1>2 DEF WaitTypeOK
  <2> QED
    BY <1>1, <1>2, <2>2, <2>3 DEF WaitTypeOK, NoTimeouts
<1>5. Linked' /\ Told'
  BY <1>1 DEF WaitInv, Linked, Told
<1>6. Found'
  <2>1. \A u \in Threads : BeingWoken(u)' <=> BeingWoken(u)
    BY <1>1 DEF BeingWoken
  <2> QED
    BY <1>1, <2>1 DEF WaitInv, Found
<1>7. PickedOK'
  <2>1. \A w \in Threads, i \in Nat : Picked(w, i)' <=> Picked(w, i)
    BY <1>1 DEF Picked
  <2>2. (NoTimeouts' <=> NoTimeouts) /\ (Unharmed' <=> Unharmed)
    BY <1>1 DEF NoTimeouts, Unharmed
  <2> QED
    BY <1>1, <2>1, <2>2 DEF WaitInv, PickedOK
<1>8. PickedOnce'
  BY <1>1, SamePicks DEF WaitInv
<1>9. LateOK'
  BY <1>1 DEF WaitInv, LateOK, NoTimeouts
<1>10. RegisteredOK'
  <2>1. \A t \in Threads : registered'[t] = "no" \/ registered'[t] = registered[t]
    BY <1>1
  <2> QED
    BY <1>1, <2>1 DEF WaitInv, RegisteredOK, NoTimeouts
<1>11. ExpiringOK'
  <2> SUFFICES ASSUME NEW e \in expiring'
               PROVE  /\ NoTimeouts => e.stale /\ e.queue = None
                      /\ e.stale => e.queue = None \/ state[e.thread] # "Waiting"
                      /\ ~e.stale /\ state[e.thread] = "Waiting" => e.queue = waitingOn[e.thread]
    BY <1>1 DEF ExpiringOK, NoTimeouts
  <2>1. PICK t \in stale \cup elapsed :
            e.thread = t /\ e.queue = registered[t] /\ (e.stale <=> t \in stale)
    BY <1>3
  <2>2. t \in Threads /\ registered[t] # "no" /\ (t \in stale \/ (state[t] = "Waiting" /\ deadline[t]))
    BY <1>1, <2>1
  <2>3. /\ NoTimeouts => ~deadline[t] /\ registered[t] \in {"no", None}
        /\ state[t] = "Waiting" /\ deadline[t] /\ registered[t] # "no" => registered[t] = waitingOn[t]
    BY <2>2 DEF WaitInv, RegisteredOK
  <2> QED
    BY <2>1, <2>2, <2>3
<1> QED
  BY <1>4, <1>5, <1>6, <1>7, <1>8, <1>9, <1>10, <1>11 DEF WaitInv

(* The wake-ups on their way to t become late. *)
LEMMA LateFacts ==
    ASSUME WaitTypeOK, NEW t \in Threads, waking' = Late(t)
    PROVE  /\ waking' \in [Threads -> Seq(WakeEntry)]
           /\ \A w \in Threads :
                 /\ Len(waking'[w]) = Len(waking[w])
                 /\ \A i \in 1 .. Len(waking[w]) :
                       /\ waking'[w][i].thread = waking[w][i].thread
                       /\ waking'[w][i].stage = waking[w][i].stage
                       /\ waking[w][i].thread # t => waking'[w][i].live = waking[w][i].live
<1> SUFFICES ASSUME NEW w \in Threads
             PROVE  /\ waking'[w] \in Seq(WakeEntry) /\ Len(waking'[w]) = Len(waking[w])
                    /\ \A i \in 1 .. Len(waking[w]) :
                          /\ waking'[w][i].thread = waking[w][i].thread
                          /\ waking'[w][i].stage = waking[w][i].stage
                          /\ waking[w][i].thread # t => waking'[w][i].live = waking[w][i].live
  <2>1. waking' = [w \in Threads |-> waking'[w]]
    BY DEF Late
  <2> QED
    BY <2>1
<1> DEFINE new(i) == IF waking[w][i].thread = t THEN [waking[w][i] EXCEPT !.live = FALSE]
                     ELSE waking[w][i]
           n == Len(waking[w])
<1>1. waking[w] \in Seq(WakeEntry) /\ n \in Nat /\ DOMAIN waking[w] = 1 .. n
  BY SMT, Z3T(40) DEF WaitTypeOK
<1>2. waking'[w] = [i \in 1 .. n |-> new(i)]
  BY <1>1 DEF Late
<1>3. ASSUME NEW i \in 1 .. n
      PROVE  /\ new(i) \in WakeEntry /\ new(i).thread = waking[w][i].thread
             /\ new(i).stage = waking[w][i].stage
             /\ waking[w][i].thread # t => new(i).live = waking[w][i].live
  <2> DEFINE old == waking[w][i]
  <2>1. old \in WakeEntry
    BY EntryFacts
  <2> HIDE DEF old
  <2>2. LET x == IF old.thread = t THEN [old EXCEPT !.live = FALSE] ELSE old
        IN  /\ x \in WakeEntry /\ x.thread = old.thread /\ x.stage = old.stage
            /\ old.thread # t => x.live = old.live
    BY <2>1 DEF WakeEntry
  <2> QED
    BY <2>2 DEF old
<1> HIDE DEF new, n
<1>4. waking'[w] \in Seq(WakeEntry) /\ Len(waking'[w]) = n
  BY SMT, Z3T(40), <1>1, <1>2, <1>3
<1>5. \A i \in 1 .. n : waking'[w][i] = new(i)
  BY <1>2
<1> QED
  BY <1>3, <1>4, <1>5 DEF n

(* The timer pass handles a registration it took. *)
LEMMA ExpireKeeps ==
    ASSUME WaitInv, NEW e \in expiring, Expire(e)
    PROVE  WaitInv'
<1> DEFINE t == e.thread
<1>1. /\ expiring' = expiring \ {e}
      /\ waiters' = IF e.queue = None THEN waiters
                    ELSE [waiters EXCEPT ![e.queue] = WithoutThread(e.queue, t)]
      /\ UNCHANGED <<waitingOn, registered, mode>>
  BY DEF Expire
<1>2. WaitTypeOK /\ Linked
  BY DEF WaitInv
<1>3. t \in Threads /\ e.queue \in Queues \cup {None} /\ None \notin Queues
  BY <1>2, ThreadsAssumption DEF WaitTypeOK, None
<1>4. /\ NoTimeouts => e.stale /\ e.queue = None
      /\ e.stale => e.queue = None \/ state[t] # "Waiting"
      /\ ~e.stale /\ state[t] = "Waiting" => e.queue = waitingOn[t]
  BY DEF WaitInv, ExpiringOK
<1>5. /\ waiters' \in [Queues -> Seq(Threads)]
      /\ \A q \in Queues :
            /\ Distinct(waiters'[q])
            /\ \A u : u \in Elements(waiters'[q]) <=> u \in Elements(waiters[q]) /\ (q = e.queue => u # t)
  <2>1. \A q \in Queues :
            /\ waiters[q] \in Seq(Threads) /\ Distinct(waiters[q])
            /\ WithoutThread(q, t) \in Seq(Threads) /\ Distinct(WithoutThread(q, t))
            /\ \A u : u \in Elements(WithoutThread(q, t)) <=> u \in Elements(waiters[q]) /\ u # t
    BY <1>2, <1>3, QueueFacts DEF Linked
  <2>2. waiters \in [Queues -> Seq(Threads)]
    BY <1>2 DEF WaitTypeOK
  <2>3. CASE e.queue = None
    <3>1. waiters' = waiters /\ \A q \in Queues : q # e.queue
      BY <1>1, <1>3, <2>3
    <3> QED
      BY <2>1, <2>2, <3>1
  <2>4. CASE e.queue \in Queues
    <3>1. waiters' = [waiters EXCEPT ![e.queue] = WithoutThread(e.queue, t)]
      BY <1>1, <1>3, <2>4
    <3>2. \A q \in Queues : waiters'[q] = IF q = e.queue THEN WithoutThread(q, t) ELSE waiters[q]
      BY <2>2, <2>4, <3>1
    <3>3. waiters' \in [Queues -> Seq(Threads)]
      BY <2>1, <2>2, <2>4, <3>1
    <3> QED
      BY <2>1, <3>2, <3>3
  <2> QED
    BY <1>3, <2>3, <2>4
<1>6. CASE e.stale \/ state[t] # "Waiting"
  <2>1. UNCHANGED <<state, deadline, outcome, waking>>
    BY <1>6 DEF Expire
  <2>2. WaitTypeOK'
    BY <1>1, <1>2, <1>5, <2>1 DEF WaitTypeOK, NoTimeouts
  <2>3. Linked'
    BY <1>1, <1>2, <1>5, <2>1 DEF Linked
  <2>4. Told'
    BY <1>1, <2>1 DEF WaitInv, Told
  <2>5. Found'
    <3>1. \A u \in Threads : BeingWoken(u)' <=> BeingWoken(u)
      BY <2>1 DEF BeingWoken
    <3>2. \A u \in Threads : state[u] = "Waiting" =>
              \A q \in Queues : u \in Elements(waiters[q]) => u \in Elements(waiters'[q])
      BY <1>3, <1>4, <1>5, <1>6
    <3> QED
      BY <1>1, <2>1, <3>1, <3>2 DEF WaitInv, Found
  <2>6. PickedOK'
    <3>1. \A w \in Threads, i \in Nat : Picked(w, i)' <=> Picked(w, i)
      BY <2>1 DEF Picked
    <3>2. (NoTimeouts' <=> NoTimeouts) /\ (Unharmed' <=> Unharmed)
      BY <1>1 DEF NoTimeouts, Unharmed
    <3> QED
      BY <1>5, <2>1, <3>1, <3>2 DEF WaitInv, PickedOK
  <2>7. PickedOnce'
    BY <2>1, SamePicks DEF WaitInv
  <2>8. LateOK' /\ RegisteredOK'
    BY <1>1, <2>1 DEF WaitInv, LateOK, RegisteredOK, NoTimeouts
  <2>9. ExpiringOK'
    BY <1>1, <2>1 DEF WaitInv, ExpiringOK, NoTimeouts
  <2> QED
    BY <2>2, <2>3, <2>4, <2>5, <2>6, <2>7, <2>8, <2>9 DEF WaitInv
<1>7. CASE ~e.stale /\ state[t] = "Waiting"
  <2>1. /\ state' = [state EXCEPT ![t] = "Active"]
        /\ deadline' = [deadline EXCEPT ![t] = FALSE]
        /\ outcome' = [outcome EXCEPT ![t] = "TimedOut"]
        /\ waking' = Late(t)
    BY <1>7 DEF Expire
  <2>2. ~NoTimeouts /\ e.queue = waitingOn[t] /\ ~Unharmed
    BY <1>4, <1>7 DEF Unharmed
  <2>3. /\ waking' \in [Threads -> Seq(WakeEntry)]
        /\ \A w \in Threads :
              /\ Len(waking'[w]) = Len(waking[w])
              /\ \A i \in 1 .. Len(waking[w]) :
                    /\ waking'[w][i].thread = waking[w][i].thread
                    /\ waking'[w][i].stage = waking[w][i].stage
                    /\ waking[w][i].thread # t => waking'[w][i].live = waking[w][i].live
    BY <1>2, <1>3, <2>1, LateFacts
  <2>4. /\ state'[t] = "Active" /\ outcome'[t] = "TimedOut" /\ ~deadline'[t]
        /\ \A u \in Threads : u # t => /\ state'[u] = state[u] /\ outcome'[u] = outcome[u]
                                       /\ deadline'[u] = deadline[u]
    BY <1>2, <1>3, <2>1 DEF WaitTypeOK
  <2>5. ~NoTimeouts' /\ ~Unharmed'
    BY <1>1, <2>2 DEF NoTimeouts, Unharmed
  <2>6. \A w \in Threads, i \in Nat :
            Picked(w, i)' => Picked(w, i) /\ waking'[w][i].thread = waking[w][i].thread
    BY <2>3 DEF Picked
  <2>7. WaitTypeOK'
    BY <1>1, <1>2, <1>5, <2>1, <2>3 DEF WaitTypeOK, NoTimeouts
  <2>8. Linked'
    <3> SUFFICES ASSUME NEW q \in Queues, NEW u \in Elements(waiters'[q])
                 PROVE  waitingOn'[u] = q /\ state'[u] # "Active"
      BY <1>5 DEF Linked
    <3>1. /\ u \in Elements(waiters[q]) /\ (q = e.queue => u # t)
          /\ waitingOn[u] = q /\ state[u] # "Active" /\ u \in Threads
      BY <1>2, <1>3, <1>5, QueueFacts DEF Linked
    <3> QED
      BY <1>1, <2>2, <2>4, <3>1
  <2>9. Told'
    BY <1>1, <2>4 DEF WaitInv, Told
  <2>10. Found'
    <3>1. \A u \in Threads : BeingWoken(u) => BeingWoken(u)'
      BY <2>3 DEF BeingWoken
    <3>2. \A u \in Threads : state'[u] = "Waiting" =>
              /\ u # t /\ state[u] = "Waiting"
              /\ \A q \in Queues : u \in Elements(waiters[q]) => u \in Elements(waiters'[q])
      BY <1>5, <2>4
    <3> QED
      BY <1>1, <3>1, <3>2 DEF WaitInv, Found
  <2>11. PickedOK'
    BY <1>5, <2>5, <2>6 DEF WaitInv, PickedOK
  <2>12. PickedOnce'
    BY <2>6 DEF WaitInv, PickedOnce
  <2>13. LateOK'
    <3> SUFFICES ASSUME NEW w \in Threads, NEW i \in 1 .. Len(waking[w]), ~waking'[w][i].live
                 PROVE  state'[waking[w][i].thread] # "Waiting"
      BY <2>3, <2>5 DEF LateOK
    <3>1. waking[w][i].thread \in Threads
      BY <1>2, EntryFacts
    <3>2. waking[w][i].thread = t \/ state[waking[w][i].thread] # "Waiting"
      BY <2>3 DEF WaitInv, LateOK
    <3> QED
      BY <2>4, <3>1, <3>2
  <2>14. RegisteredOK'
    BY <1>1, <2>4, <2>5 DEF WaitInv, RegisteredOK
  <2>15. ExpiringOK'
    <3> SUFFICES ASSUME NEW f \in expiring
                 PROVE  /\ f.stale => f.queue = None \/ state'[f.thread] # "Waiting"
                        /\ ~f.stale /\ state'[f.thread] = "Waiting" => f.queue = waitingOn[f.thread]
      BY <1>1, <2>5 DEF ExpiringOK
    <3>1. f.thread \in Threads
      BY <1>2 DEF WaitTypeOK
    <3>2. state'[f.thread] = "Waiting" => state[f.thread] = "Waiting"
      BY <2>4, <3>1
    <3> QED
      BY <3>2 DEF WaitInv, ExpiringOK
  <2> QED
    BY <2>7, <2>8, <2>9, <2>10, <2>11, <2>12, <2>13, <2>14, <2>15 DEF WaitInv
<1> QED
  BY <1>6, <1>7

(* A thread is killed by another one that runs. *)
LEMMA KillKeeps ==
    ASSUME WaitInv, NEW k \in Threads, NEW t \in Threads, Kill(k, t)
    PROVE  WaitInv'
<1>1. /\ MayRun(k) /\ waking[k] = <<>> /\ t \in mode.killable
      /\ state' = [state EXCEPT ![t] = "Terminated"]
      /\ deadline' = [deadline EXCEPT ![t] = FALSE]
      /\ outcome' = [outcome EXCEPT ![t] = "Completed"]
      /\ registered' = [registered EXCEPT ![t] = "no"]
      /\ waiters' = [q \in Queues |-> IF registered[t] = q THEN WithoutThread(q, t) ELSE waiters[q]]
      /\ UNCHANGED <<waitingOn, waking, expiring, mode>>
  BY DEF Kill, Running
<1>2. WaitTypeOK /\ Linked
  BY DEF WaitInv
<1>3. ~mode.interleave => expiring = {} /\ \A w \in Threads : waking[w] = <<>>
  BY <1>1, RunnerIsFree
<1>4. /\ waiters' \in [Queues -> Seq(Threads)]
      /\ \A q \in Queues :
            /\ Distinct(waiters'[q]) /\ Elements(waiters[q]) \subseteq Threads
            /\ \A u : u \in Elements(waiters'[q]) => u \in Elements(waiters[q])
            /\ \A u : u \in Elements(waiters[q]) /\ u # t => u \in Elements(waiters'[q])
  <2>1. \A q \in Queues :
            /\ waiters[q] \in Seq(Threads) /\ Distinct(waiters[q])
            /\ Elements(waiters[q]) \subseteq Threads
            /\ WithoutThread(q, t) \in Seq(Threads) /\ Distinct(WithoutThread(q, t))
            /\ \A u : u \in Elements(WithoutThread(q, t)) <=> u \in Elements(waiters[q]) /\ u # t
    BY <1>2, QueueFacts DEF Linked
  <2>2. \A q \in Queues : waiters'[q] = WithoutThread(q, t) \/ waiters'[q] = waiters[q]
    BY <1>1
  <2> QED
    BY <1>1, <2>1, <2>2
<1>5. /\ state'[t] = "Terminated" /\ ~deadline'[t] /\ registered'[t] = "no"
      /\ \A u \in Threads : u # t => /\ state'[u] = state[u] /\ deadline'[u] = deadline[u]
                                     /\ registered'[u] = registered[u] /\ outcome'[u] = outcome[u]
  BY <1>1, <1>2 DEF WaitTypeOK
<1>6. WaitTypeOK'
  <2>1. /\ state' \in [Threads -> {"Active", "Waiting", "Terminated"}]
        /\ deadline' \in [Threads -> BOOLEAN]
        /\ outcome' \in [Threads -> {"Completed", "Pending", "TimedOut"}]
        /\ registered' \in [Threads -> Queues \cup {None, "no"}]
    BY <1>1, <1>2 DEF WaitTypeOK
  <2> QED
    BY <1>1, <1>2, <1>4, <2>1 DEF WaitTypeOK, NoTimeouts
<1>7. Linked'
  <2> SUFFICES ASSUME NEW q \in Queues, NEW u \in Elements(waiters'[q])
               PROVE  waitingOn[u] = q /\ state'[u] # "Active"
    BY <1>1, <1>4 DEF Linked
  <2>1. u \in Threads /\ waitingOn[u] = q /\ state[u] # "Active"
    BY <1>2, <1>4 DEF Linked
  <2> QED
    BY <1>5, <2>1
<1>8. Told'
  BY <1>1, <1>5 DEF WaitInv, Told
<1>9. Found'
  <2>1. \A u \in Threads : BeingWoken(u)' <=> BeingWoken(u)
    BY <1>1 DEF BeingWoken
  <2>2. \A u \in Threads : state'[u] = "Waiting" => u # t /\ state[u] = "Waiting"
    BY <1>5
  <2> QED
    BY <1>1, <1>4, <2>1, <2>2 DEF WaitInv, Found
<1>10. PickedOK'
  <2> SUFFICES ASSUME NEW w \in Threads, NEW i \in Nat, Picked(w, i)
               PROVE  /\ \A r \in Queues : waking[w][i].thread \notin Elements(waiters'[r])
                      /\ NoTimeouts => state'[waking[w][i].thread] # "Active"
                      /\ Unharmed => state'[waking[w][i].thread] = "Waiting"
    BY <1>1 DEF PickedOK, Picked, NoTimeouts, Unharmed
  <2>1. /\ \A r \in Queues : waking[w][i].thread \notin Elements(waiters[r])
        /\ NoTimeouts => state[waking[w][i].thread] # "Active"
        /\ Unharmed => state[waking[w][i].thread] = "Waiting"
    BY DEF WaitInv, PickedOK
  <2>2. waking[w][i].thread \in Threads
    BY <1>2, EntryFacts DEF Picked
  <2>3. ~Unharmed
    <3>1. waking[w] # <<>>
      BY SMT, Z3T(40) DEF Picked
    <3> QED
      BY <1>1, <1>3, <3>1 DEF Unharmed
  <2> QED
    BY <1>4, <1>5, <2>1, <2>2, <2>3
<1>11. PickedOnce'
  BY <1>1, SamePicks DEF WaitInv
<1>12. LateOK'
  <2> SUFFICES ASSUME NEW w \in Threads, NEW i \in 1 .. Len(waking[w])
               PROVE  ~waking[w][i].live => state'[waking[w][i].thread] # "Waiting"
    BY <1>1 DEF WaitInv, LateOK, NoTimeouts
  <2>1. waking[w][i].thread \in Threads
    BY <1>2, EntryFacts
  <2> QED
    BY <1>5, <2>1 DEF WaitInv, LateOK
<1>13. RegisteredOK'
  <2> SUFFICES ASSUME NEW u \in Threads
               PROVE  /\ NoTimeouts => ~deadline'[u] /\ registered'[u] \in {"no", None}
                      /\ state'[u] = "Waiting" /\ deadline'[u] /\ registered'[u] # "no" =>
                            registered'[u] = waitingOn[u]
    BY <1>1 DEF RegisteredOK, NoTimeouts
  <2> QED
    BY <1>5 DEF WaitInv, RegisteredOK
<1>14. ExpiringOK'
  <2> SUFFICES ASSUME NEW f \in expiring
               PROVE  /\ NoTimeouts => f.stale /\ f.queue = None
                      /\ f.stale => f.queue = None \/ state'[f.thread] # "Waiting"
                      /\ ~f.stale /\ state'[f.thread] = "Waiting" => f.queue = waitingOn[f.thread]
    BY <1>1 DEF ExpiringOK, NoTimeouts
  <2>1. f.thread \in Threads
    BY <1>2 DEF WaitTypeOK
  <2>2. state'[f.thread] = "Waiting" => state[f.thread] = "Waiting"
    BY <1>5, <2>1
  <2> QED
    BY <2>2 DEF WaitInv, ExpiringOK
<1> QED
  BY <1>6, <1>7, <1>8, <1>9, <1>10, <1>11, <1>12, <1>13, <1>14 DEF WaitInv

-----------------------------------------------------------------------------
(* Wake-ups. *)

(* What is left when a waker is through with the first of its threads. *)
Dropped(w) ==
    /\ waking' \in [Threads -> Seq(WakeEntry)]
    /\ PickedOnce'
    /\ 1 \in 1 .. Len(waking[w]) /\ Head(waking[w]) = waking[w][1]
    /\ \A v \in Threads, i \in Nat : Picked(v, i)' =>
          \E j \in Nat : Picked(v, j) /\ waking'[v][i] = waking[v][j] /\ <<v, j>> # <<w, 1>>
    /\ \A v \in Threads : \A i \in 1 .. Len(waking'[v]) :
          \E j \in 1 .. Len(waking[v]) : waking'[v][i] = waking[v][j]
    /\ \A u \in Threads : BeingWoken(u)' => BeingWoken(u)
    /\ \A u \in Threads : BeingWoken(u) =>
          BeingWoken(u)' \/ (Picked(w, 1) /\ u = waking[w][1].thread)
    /\ \A u \in Threads : Picked(w, 1) /\ u = waking[w][1].thread => ~BeingWoken(u)'

LEMMA DropHead ==
    ASSUME WaitTypeOK, PickedOnce, NEW w \in Threads, waking[w] # <<>>,
           waking' = [waking EXCEPT ![w] = Tail(waking[w])]
    PROVE  Dropped(w)
<1> DEFINE n == Len(waking[w])
           k(v, i) == IF v = w THEN i + 1 ELSE i
<1>1. waking \in [Threads -> Seq(WakeEntry)] /\ waking[w] \in Seq(WakeEntry)
  BY DEF WaitTypeOK
<1>2. /\ n \in Nat /\ n >= 1 /\ Head(waking[w]) = waking[w][1]
      /\ Tail(waking[w]) \in Seq(WakeEntry) /\ Len(Tail(waking[w])) = n - 1
      /\ \A i \in 1 .. n - 1 : i + 1 \in 1 .. n /\ Tail(waking[w])[i] = waking[w][i + 1]
  BY <1>1, TailFacts
<1>3. /\ waking' \in [Threads -> Seq(WakeEntry)] /\ waking'[w] = Tail(waking[w])
      /\ \A v \in Threads : v # w => waking'[v] = waking[v]
  BY <1>1, <1>2
<1>4. ASSUME NEW v \in Threads, NEW i \in 1 .. Len(waking'[v])
      PROVE  /\ k(v, i) \in 1 .. Len(waking[v]) /\ waking'[v][i] = waking[v][k(v, i)]
             /\ <<v, k(v, i)>> # <<w, 1>> /\ i \in Nat /\ k(v, i) \in Nat
  <2>1. CASE v = w
    <3>1. i \in 1 .. n - 1
      BY <1>2, <1>3, <2>1
    <3>2. i + 1 # 1 /\ i \in Nat /\ i + 1 \in Nat
      BY SMT, Z3T(40), <1>2, <3>1
    <3> QED
      BY <1>2, <1>3, <2>1, <3>1, <3>2
  <2>2. CASE v # w
    <3>1. waking[v] \in Seq(WakeEntry)
      BY <1>1
    <3>2. i \in 1 .. Len(waking[v]) /\ waking'[v][i] = waking[v][i]
      BY <1>3, <2>2
    <3>3. i \in Nat
      BY SMT, Z3T(40), <3>1, <3>2
    <3> QED
      BY <2>2, <3>2, <3>3
  <2> QED
    BY <2>1, <2>2
<1>5. ASSUME NEW v \in Threads, NEW j \in 1 .. Len(waking[v]), <<v, j>> # <<w, 1>>
      PROVE  \E i \in 1 .. Len(waking'[v]) : waking'[v][i] = waking[v][j]
  <2>1. CASE v = w
    <3>1. j # 1
      BY <1>5, <2>1
    <3>2. PICK i \in 1 .. n - 1 : i + 1 = j
      <4>1. j - 1 \in 1 .. n - 1 /\ (j - 1) + 1 = j
        BY SMT, Z3T(40), <1>2, <2>1, <3>1
      <4> QED
        BY <4>1
    <3>3. i \in 1 .. Len(waking'[w]) /\ waking'[w][i] = waking[w][j]
      BY <1>2, <1>3, <3>2
    <3> QED
      BY <2>1, <3>3
  <2>2. CASE v # w
    BY <1>3, <2>2
  <2> QED
    BY <2>1, <2>2
<1>k. \A v \in Threads, i, j \in Nat : k(v, i) = k(v, j) => i = j
  BY SMT, Z3T(40)
<1> HIDE DEF k
<1>6. \A v \in Threads, i \in Nat : Picked(v, i)' =>
          /\ i \in 1 .. Len(waking'[v]) /\ Picked(v, k(v, i)) /\ k(v, i) \in Nat
          /\ waking'[v][i] = waking[v][k(v, i)]
  BY <1>4 DEF Picked
<1>7. PickedOnce'
  <2> SUFFICES ASSUME NEW v \in Threads, NEW u \in Threads, NEW i \in Nat, NEW j \in Nat,
                      Picked(v, i)', Picked(u, j)', waking'[v][i].thread = waking'[u][j].thread
               PROVE  v = u /\ i = j
    BY DEF PickedOnce
  <2>1. /\ Picked(v, k(v, i)) /\ k(v, i) \in Nat /\ waking'[v][i] = waking[v][k(v, i)]
        /\ Picked(u, k(u, j)) /\ k(u, j) \in Nat /\ waking'[u][j] = waking[u][k(u, j)]
    BY <1>6
  <2>2. v = u /\ k(v, i) = k(u, j)
    BY <2>1 DEF PickedOnce
  <2> QED
    BY <1>k, <2>2
<1>8. ASSUME NEW u \in Threads, BeingWoken(u)' PROVE BeingWoken(u)
  <2>0. PICK v \in Threads : \E j \in 1 .. Len(waking'[v]) :
            waking'[v][j].thread = u /\ waking'[v][j].stage \in {"selected", "checked"}
    BY <1>8 DEF BeingWoken
  <2>1. PICK j \in 1 .. Len(waking'[v]) :
            waking'[v][j].thread = u /\ waking'[v][j].stage \in {"selected", "checked"}
    BY <2>0
  <2>2. k(v, j) \in 1 .. Len(waking[v]) /\ waking'[v][j] = waking[v][k(v, j)]
    BY <1>4
  <2> QED
    BY <2>1, <2>2 DEF BeingWoken
<1>9. ASSUME NEW u \in Threads, BeingWoken(u)
      PROVE  BeingWoken(u)' \/ (Picked(w, 1) /\ u = waking[w][1].thread)
  <2>0. PICK v \in Threads : \E j \in 1 .. Len(waking[v]) :
            waking[v][j].thread = u /\ waking[v][j].stage \in {"selected", "checked"}
    BY <1>9 DEF BeingWoken
  <2>1. PICK j \in 1 .. Len(waking[v]) :
            waking[v][j].thread = u /\ waking[v][j].stage \in {"selected", "checked"}
    BY <2>0
  <2>2. CASE <<v, j>> # <<w, 1>>
    <3>1. PICK i \in 1 .. Len(waking'[v]) : waking'[v][i] = waking[v][j]
      BY <1>5, <2>2
    <3> QED
      BY <2>1, <3>1 DEF BeingWoken
  <2>3. CASE v = w /\ j = 1
    BY <2>1, <2>3 DEF Picked
  <2> QED
    BY <2>2, <2>3
<1>10. ASSUME Picked(w, 1), NEW u \in Threads, u = waking[w][1].thread, BeingWoken(u)'
       PROVE  FALSE
  <2>0. PICK v \in Threads : \E i \in 1 .. Len(waking'[v]) :
            waking'[v][i].thread = u /\ waking'[v][i].stage \in {"selected", "checked"}
    BY <1>10 DEF BeingWoken
  <2>1. PICK i \in 1 .. Len(waking'[v]) :
            waking'[v][i].thread = u /\ waking'[v][i].stage \in {"selected", "checked"}
    BY <2>0
  <2>2. /\ waking'[v][i] = waking[v][k(v, i)] /\ k(v, i) \in 1 .. Len(waking[v])
        /\ k(v, i) \in Nat /\ <<v, k(v, i)>> # <<w, 1>>
    BY <1>4
  <2>3. Picked(v, k(v, i)) /\ waking[v][k(v, i)].thread = waking[w][1].thread
    BY <1>10, <2>1, <2>2 DEF Picked
  <2>4. 1 \in Nat
    BY SMT, Z3T(40)
  <2> QED
    BY <1>10, <2>2, <2>3, <2>4 DEF PickedOnce
<1>11. 1 \in 1 .. n
  BY SMT, Z3T(40), <1>2
<1>12. ASSUME NEW v \in Threads, NEW i \in Nat, Picked(v, i)'
       PROVE  \E j \in Nat : /\ Picked(v, j) /\ waking'[v][i] = waking[v][j]
                              /\ <<v, j>> # <<w, 1>>
  <2>1. /\ i \in 1 .. Len(waking'[v]) /\ Picked(v, k(v, i)) /\ k(v, i) \in Nat
        /\ waking'[v][i] = waking[v][k(v, i)]
    BY <1>6, <1>12
  <2>2. <<v, k(v, i)>> # <<w, 1>>
    BY <1>4, <2>1
  <2> QED
    BY <2>1, <2>2
<1>13. ASSUME NEW v \in Threads, NEW i \in 1 .. Len(waking'[v])
       PROVE  \E j \in 1 .. Len(waking[v]) : waking'[v][i] = waking[v][j]
  <2>1. k(v, i) \in 1 .. Len(waking[v]) /\ waking'[v][i] = waking[v][k(v, i)]
    BY <1>4
  <2> QED
    BY <2>1
<1> QED
  BY <1>2, <1>3, <1>7, <1>8, <1>9, <1>10, <1>11, <1>12, <1>13 DEF Dropped

LEMMA DroppedKeeps ==
    ASSUME NEW w \in Threads, Dropped(w), PickedOK, LateOK, UNCHANGED <<state, waiters, mode>>
    PROVE  PickedOK' /\ LateOK'
<1>1. PickedOK'
  <2> SUFFICES ASSUME NEW v \in Threads, NEW i \in Nat, Picked(v, i)'
               PROVE  /\ \A q \in Queues : waking'[v][i].thread \notin Elements(waiters[q])
                      /\ NoTimeouts => state[waking'[v][i].thread] # "Active"
                      /\ Unharmed => state[waking'[v][i].thread] = "Waiting"
    BY DEF PickedOK, NoTimeouts, Unharmed
  <2>1. PICK j \in Nat : Picked(v, j) /\ waking'[v][i] = waking[v][j]
    BY DEF Dropped
  <2> QED
    BY <2>1 DEF PickedOK
<1>2. LateOK'
  <2> SUFFICES ASSUME NEW v \in Threads, NEW i \in 1 .. Len(waking'[v])
               PROVE  /\ ~waking'[v][i].live => state[waking'[v][i].thread] # "Waiting"
                      /\ NoTimeouts => waking'[v][i].live /\ waking'[v][i].stage # "again"
    BY DEF LateOK, NoTimeouts
  <2>1. PICK j \in 1 .. Len(waking[v]) : waking'[v][i] = waking[v][j]
    BY DEF Dropped
  <2> QED
    BY <2>1 DEF LateOK
<1> QED
  BY <1>1, <1>2

(* What is left when a waker goes on with the first of them. *)
Restaged(w, x) ==
    /\ waking' \in [Threads -> Seq(WakeEntry)]
    /\ PickedOnce' /\ Len(waking'[w]) = Len(waking[w])
    /\ \A v \in Threads, i \in Nat : Picked(v, i)' =>
          /\ Picked(v, i) /\ waking'[v][i].thread = waking[v][i].thread
          /\ x # "checked" => <<v, i>> # <<w, 1>>
    /\ \A v \in Threads : \A i \in 1 .. Len(waking'[v]) :
          /\ i \in 1 .. Len(waking[v]) /\ waking'[v][i].thread = waking[v][i].thread
          /\ waking'[v][i].live = waking[v][i].live
          /\ waking'[v][i].stage = waking[v][i].stage \/ waking'[v][i].stage = x
    /\ \A u \in Threads : BeingWoken(u)' => BeingWoken(u)
    /\ \A u \in Threads : BeingWoken(u) =>
          BeingWoken(u)' \/ (x # "checked" /\ u = waking[w][1].thread)
    /\ \A u \in Threads : x # "checked" /\ u = waking[w][1].thread => ~BeingWoken(u)'

LEMMA Restage ==
    ASSUME WaitTypeOK, PickedOnce, NEW w \in Threads, waking[w] # <<>>, Picked(w, 1),
           NEW x \in {"checked", "woken", "again"},
           \/ waking' = [waking EXCEPT ![w] =
                            <<[Head(waking[w]) EXCEPT !.stage = x]>> \o Tail(waking[w])]
           \/ waking' = [waking EXCEPT ![w] =
                            [waking[w] EXCEPT ![1] = [waking[w][1] EXCEPT !.stage = x]]]
    PROVE  Restaged(w, x)
<1> DEFINE n == Len(waking[w])
           old == waking[w][1]
           new == [old EXCEPT !.stage = x]
<1>1. waking \in [Threads -> Seq(WakeEntry)] /\ waking[w] \in Seq(WakeEntry)
  BY DEF WaitTypeOK
<1>2. /\ n \in Nat /\ n >= 1 /\ Head(waking[w]) = waking[w][1] /\ old \in WakeEntry
      /\ Tail(waking[w]) \in Seq(WakeEntry) /\ Len(Tail(waking[w])) = n - 1
      /\ \A i \in 1 .. n - 1 : i + 1 \in 1 .. n /\ Tail(waking[w])[i] = waking[w][i + 1]
  BY <1>1, TailFacts
<1>3. /\ new \in WakeEntry /\ new.thread = old.thread /\ new.live = old.live /\ new.stage = x
  <2> HIDE DEF old
  <2> QED
    BY <1>2 DEF WakeEntry
<1> HIDE DEF new
<1>4. /\ waking' \in [Threads -> Seq(WakeEntry)] /\ Len(waking'[w]) = n
      /\ waking'[w][1] = new /\ \A i \in 1 .. n : i # 1 => waking'[w][i] = waking[w][i]
      /\ \A v \in Threads : v # w => waking'[v] = waking[v]
  <2> DEFINE rest == Tail(waking[w])
             first == <<new>> \o rest
             second == [waking[w] EXCEPT ![1] = new]
  <2>1. /\ first \in Seq(WakeEntry) /\ Len(first) = n
        /\ first[1] = new /\ \A i \in 1 .. n : i # 1 => first[i] = waking[w][i]
    <3> HIDE DEF rest
    <3>1. /\ <<new>> \in Seq(WakeEntry) /\ rest \in Seq(WakeEntry) /\ Len(rest) = n - 1
          /\ \A i \in 1 .. n - 1 : rest[i] = waking[w][i + 1]
      BY SMT, Z3T(40), <1>2, <1>3 DEF rest
    <3> HIDE DEF n
    <3> QED
      BY SMT, Z3T(40), <1>2, <3>1
  <2>2. /\ second \in Seq(WakeEntry) /\ Len(second) = n
        /\ second[1] = new /\ \A i \in 1 .. n : i # 1 => second[i] = waking[w][i]
    BY SMT, Z3T(40), <1>1, <1>2, <1>3
  <2>3. \/ waking' = [waking EXCEPT ![w] = first]
        \/ waking' = [waking EXCEPT ![w] = second]
    BY <1>2 DEF new
  <2> HIDE DEF first, second
  <2> QED
    BY <1>1, <2>1, <2>2, <2>3
<1>5. 1 \in 1 .. n /\ 1 \in Nat
  BY SMT, Z3T(40), <1>2
<1>6. ASSUME NEW v \in Threads, NEW i \in 1 .. Len(waking'[v])
      PROVE  /\ i \in 1 .. Len(waking[v]) /\ waking'[v][i].thread = waking[v][i].thread
             /\ waking'[v][i].live = waking[v][i].live
             /\ IF v = w /\ i = 1 THEN waking'[v][i].stage = x ELSE waking'[v][i] = waking[v][i]
  BY <1>3, <1>4
<1>7. \A v \in Threads, i \in Nat : Picked(v, i)' =>
          /\ Picked(v, i) /\ waking'[v][i].thread = waking[v][i].thread
          /\ x # "checked" => <<v, i>> # <<w, 1>>
  BY <1>6 DEF Picked
<1>8. PickedOnce'
  <2> SUFFICES ASSUME NEW v \in Threads, NEW u \in Threads, NEW i \in Nat, NEW j \in Nat,
                      Picked(v, i)', Picked(u, j)', waking'[v][i].thread = waking'[u][j].thread
               PROVE  v = u /\ i = j
    BY DEF PickedOnce
  <2>1. /\ Picked(v, i) /\ waking'[v][i].thread = waking[v][i].thread
        /\ Picked(u, j) /\ waking'[u][j].thread = waking[u][j].thread
    BY <1>7
  <2> QED
    BY <2>1 DEF PickedOnce
<1>9. ASSUME NEW u \in Threads, BeingWoken(u)' PROVE BeingWoken(u)
  <2>0. PICK v \in Threads : \E j \in 1 .. Len(waking'[v]) :
            waking'[v][j].thread = u /\ waking'[v][j].stage \in {"selected", "checked"}
    BY <1>9 DEF BeingWoken
  <2>1. PICK j \in 1 .. Len(waking'[v]) :
            waking'[v][j].thread = u /\ waking'[v][j].stage \in {"selected", "checked"}
    BY <2>0
  <2>2. /\ j \in 1 .. Len(waking[v]) /\ waking[v][j].thread = u
        /\ ~(v = w /\ j = 1) => waking'[v][j] = waking[v][j]
    BY <1>6, <2>1
  <2>3. waking[v][j].stage \in {"selected", "checked"}
    BY <2>1, <2>2 DEF Picked
  <2> QED
    BY <2>2, <2>3 DEF BeingWoken
<1>10. ASSUME NEW u \in Threads, BeingWoken(u)
       PROVE  BeingWoken(u)' \/ (x # "checked" /\ u = old.thread)
  <2>0. PICK v \in Threads : \E j \in 1 .. Len(waking[v]) :
            waking[v][j].thread = u /\ waking[v][j].stage \in {"selected", "checked"}
    BY <1>10 DEF BeingWoken
  <2>1. PICK j \in 1 .. Len(waking[v]) :
            waking[v][j].thread = u /\ waking[v][j].stage \in {"selected", "checked"}
    BY <2>0
  <2>2. CASE v = w /\ j = 1
    BY <1>3, <1>4, <1>5, <2>1, <2>2 DEF BeingWoken
  <2>3. CASE ~(v = w /\ j = 1)
    BY <1>4, <2>1, <2>3 DEF BeingWoken
  <2> QED
    BY <2>2, <2>3
<1>11. ASSUME x # "checked", NEW u \in Threads, u = waking[w][1].thread, BeingWoken(u)'
       PROVE  FALSE
  <2>0. PICK v \in Threads : \E i \in 1 .. Len(waking'[v]) :
            waking'[v][i].thread = u /\ waking'[v][i].stage \in {"selected", "checked"}
    BY <1>11 DEF BeingWoken
  <2>1. PICK i \in 1 .. Len(waking'[v]) :
            waking'[v][i].thread = u /\ waking'[v][i].stage \in {"selected", "checked"}
    BY <2>0
  <2>2. Picked(v, i)' /\ i \in Nat
    <3>1. i \in 1 .. Len(waking[v])
      BY <1>6
    <3>2. i \in Nat
      BY <3>1, EntryFacts
    <3> QED
      BY <2>1, <3>2 DEF Picked
  <2>3. Picked(v, i) /\ waking[v][i].thread = waking[w][1].thread /\ <<v, i>> # <<w, 1>>
    BY <1>7, <1>11, <2>1, <2>2
  <2> QED
    BY <1>5, <2>2, <2>3 DEF PickedOnce
<1>12. \A v \in Threads : \A i \in 1 .. Len(waking'[v]) :
          /\ i \in 1 .. Len(waking[v]) /\ waking'[v][i].thread = waking[v][i].thread
          /\ waking'[v][i].live = waking[v][i].live
          /\ waking'[v][i].stage = waking[v][i].stage \/ waking'[v][i].stage = x
  BY <1>6
<1>13. Len(waking'[w]) = Len(waking[w])
  BY <1>4
<1> HIDE DEF n
<1> QED
  BY <1>4, <1>7, <1>8, <1>9, <1>10, <1>11, <1>12, <1>13 DEF Restaged

(* A wake-up finds its thread no longer waiting. *)
LEMMA RefusalKeeps ==
    ASSUME WaitInv, NEW w \in Threads, Picked(w, 1), state[waking[w][1].thread] # "Waiting",
           waking' = [waking EXCEPT ![w] = Tail(waking[w])],
           UNCHANGED <<state, deadline, outcome, waitingOn, waiters, registered, expiring, mode>>
    PROVE  WaitInv'
<1>1. waking[w] # <<>>
  BY SMT, Z3T(40) DEF Picked
<1>2. WaitTypeOK /\ PickedOnce
  BY DEF WaitInv
<1>3. Dropped(w)
  BY <1>1, <1>2, DropHead
<1>4. WaitTypeOK'
  BY <1>2, <1>3 DEF WaitTypeOK, NoTimeouts, Dropped
<1>5. Linked' /\ Told' /\ RegisteredOK' /\ ExpiringOK'
  BY DEF WaitInv, Linked, Told, RegisteredOK, ExpiringOK, NoTimeouts
<1>6. Found'
  BY <1>3 DEF WaitInv, Found, Dropped
<1>7. PickedOK' /\ LateOK'
  BY <1>3, DroppedKeeps DEF WaitInv
<1> QED
  BY <1>3, <1>4, <1>5, <1>6, <1>7 DEF WaitInv, Dropped

(* The first half of wake_thread. *)
LEMMA WakeCheckKeeps ==
    ASSUME WaitInv, NEW w \in Threads, WakeCheck(w)
    PROVE  WaitInv'
<1>1. /\ waking[w] # <<>> /\ Head(waking[w]).stage = "selected"
      /\ UNCHANGED <<state, deadline, outcome, waitingOn, waiters, registered, expiring, mode>>
      /\ IF state[Head(waking[w]).thread] = "Waiting"
         THEN waking' = [waking EXCEPT ![w] =
                            <<[Head(waking[w]) EXCEPT !.stage = "checked"]>> \o Tail(waking[w])]
         ELSE waking' = [waking EXCEPT ![w] = Tail(waking[w])]
  BY DEF WakeCheck
<1>2. WaitTypeOK /\ PickedOnce
  BY DEF WaitInv
<1>3. Head(waking[w]) = waking[w][1] /\ Picked(w, 1)
  <2>1. waking[w] \in Seq(WakeEntry)
    BY <1>2 DEF WaitTypeOK
  <2>2. Head(waking[w]) = waking[w][1] /\ 1 \in 1 .. Len(waking[w])
    BY SMT, Z3T(40), <1>1, <2>1
  <2> QED
    BY <1>1, <2>2 DEF Picked
<1>4. CASE state[waking[w][1].thread] # "Waiting"
  BY <1>1, <1>3, <1>4, RefusalKeeps
<1>5. CASE state[waking[w][1].thread] = "Waiting"
  <2>1. waking' = [waking EXCEPT ![w] =
                      <<[Head(waking[w]) EXCEPT !.stage = "checked"]>> \o Tail(waking[w])]
    BY <1>1, <1>3, <1>5
  <2>2. Restaged(w, "checked")
    BY <1>1, <1>2, <1>3, <2>1, Restage
  <2>3. WaitTypeOK'
    BY <1>1, <1>2, <2>2 DEF WaitTypeOK, NoTimeouts, Restaged
  <2>4. Linked' /\ Told' /\ RegisteredOK' /\ ExpiringOK'
    BY <1>1 DEF WaitInv, Linked, Told, RegisteredOK, ExpiringOK, NoTimeouts
  <2>5. Found'
    BY <1>1, <2>2 DEF WaitInv, Found, Restaged
  <2>6. PickedOK'
    <3> SUFFICES ASSUME NEW v \in Threads, NEW i \in Nat, Picked(v, i)'
                 PROVE  /\ \A q \in Queues : waking'[v][i].thread \notin Elements(waiters[q])
                        /\ NoTimeouts => state[waking'[v][i].thread] # "Active"
                        /\ Unharmed => state[waking'[v][i].thread] = "Waiting"
      BY <1>1 DEF PickedOK, NoTimeouts, Unharmed
    <3>1. Picked(v, i) /\ waking'[v][i].thread = waking[v][i].thread
      BY <2>2 DEF Restaged
    <3> QED
      BY <3>1 DEF WaitInv, PickedOK
  <2>7. LateOK'
    <3> SUFFICES ASSUME NEW v \in Threads, NEW i \in 1 .. Len(waking'[v])
                 PROVE  /\ ~waking'[v][i].live => state[waking'[v][i].thread] # "Waiting"
                        /\ NoTimeouts => waking'[v][i].live /\ waking'[v][i].stage # "again"
      BY <1>1 DEF LateOK, NoTimeouts
    <3>1. /\ i \in 1 .. Len(waking[v]) /\ waking'[v][i].thread = waking[v][i].thread
          /\ waking'[v][i].live = waking[v][i].live
          /\ waking'[v][i].stage = waking[v][i].stage \/ waking'[v][i].stage = "checked"
      BY <2>2 DEF Restaged
    <3> QED
      BY <3>1 DEF WaitInv, LateOK
  <2> QED
    BY <2>2, <2>3, <2>4, <2>5, <2>6, <2>7 DEF WaitInv, Restaged
<1> QED
  BY <1>4, <1>5

(* The rest of wake_waiter. *)
LEMMA WakeSetKeeps ==
    ASSUME WaitInv, NEW w \in Threads, WakeSet(w)
    PROVE  WaitInv'
<1> DEFINE t == waking[w][1].thread
           x == IF state[t] = "Waiting" THEN "woken" ELSE "again"
<1>1. waking[w] # <<>> /\ Head(waking[w]).stage = "checked"
  BY DEF WakeSet
<1>2. WaitTypeOK /\ PickedOnce /\ PickedOK
  BY DEF WaitInv
<1>3. Head(waking[w]) = waking[w][1] /\ Picked(w, 1) /\ t \in Threads /\ 1 \in Nat
  <2>1. waking[w] \in Seq(WakeEntry)
    BY <1>2 DEF WaitTypeOK
  <2>2. Head(waking[w]) = waking[w][1] /\ 1 \in 1 .. Len(waking[w]) /\ 1 \in Nat
    BY SMT, Z3T(40), <1>1, <2>1
  <2> QED
    BY <1>1, <1>2, <2>2, EntryFacts DEF Picked
<1>4. /\ UNCHANGED <<waitingOn, waiters, registered, expiring, mode>>
      /\ IF state[t] = "Terminated"
         THEN /\ waking' = [waking EXCEPT ![w] = Tail(waking[w])]
              /\ UNCHANGED <<state, deadline, outcome>>
         ELSE /\ waking' = [waking EXCEPT ![w] =
                               [waking[w] EXCEPT ![1] = [waking[w][1] EXCEPT !.stage = x]]]
              /\ state' = [state EXCEPT ![t] = "Active"]
              /\ deadline' = [deadline EXCEPT ![t] = FALSE]
              /\ outcome' = [outcome EXCEPT ![t] = "Completed"]
  BY <1>3 DEF WakeSet
<1>5. CASE state[t] = "Terminated"
  BY <1>3, <1>4, <1>5, RefusalKeeps
<1>6. CASE state[t] # "Terminated"
  <2>x. x \in {"checked", "woken", "again"} /\ x # "checked"
    OBVIOUS
  <2>1. NoTimeouts => x = "woken"
    BY <1>2, <1>3, <1>6 DEF PickedOK, WaitTypeOK
  <2> HIDE DEF x
  <2>2. waking' = [waking EXCEPT ![w] =
                      [waking[w] EXCEPT ![1] = [waking[w][1] EXCEPT !.stage = x]]]
    BY <1>4, <1>6
  <2>3. Restaged(w, x)
    BY <1>1, <1>2, <1>3, <2>x, <2>2, Restage
  <2>4. /\ state'[t] = "Active" /\ ~deadline'[t] /\ outcome'[t] = "Completed"
        /\ \A u \in Threads : u # t => /\ state'[u] = state[u] /\ deadline'[u] = deadline[u]
                                       /\ outcome'[u] = outcome[u]
    <3> HIDE DEF t
    <3> QED
      BY <1>2, <1>3, <1>4, <1>6 DEF WaitTypeOK
  <2>5. \A u \in Threads : state'[u] = "Waiting" => u # t /\ state[u] = "Waiting"
    BY <2>4
  <2>6. WaitTypeOK'
    <3>1. /\ state' \in [Threads -> {"Active", "Waiting", "Terminated"}]
          /\ deadline' \in [Threads -> BOOLEAN]
          /\ outcome' \in [Threads -> {"Completed", "Pending", "TimedOut"}]
      BY <1>2, <1>4, <1>6 DEF WaitTypeOK
    <3> QED
      BY <1>2, <1>4, <2>3, <3>1 DEF WaitTypeOK, NoTimeouts, Restaged
  <2>7. Linked'
    <3> SUFFICES ASSUME NEW q \in Queues, NEW u \in Elements(waiters[q])
                 PROVE  waitingOn[u] = q /\ state'[u] # "Active"
      BY <1>4 DEF WaitInv, Linked
    <3>0. \A r \in Queues : t \notin Elements(waiters[r])
      BY <1>2, <1>3 DEF PickedOK
    <3>1. u \in Threads /\ u # t
      <4>1. Linked
        BY DEF WaitInv
      <4>2. Elements(waiters[q]) \subseteq Threads
        BY <1>2, <4>1, QueueFacts
      <4> QED
        BY <3>0, <4>2
    <3> QED
      BY <2>4, <3>1 DEF WaitInv, Linked
  <2>8. Told'
    BY <1>4, <2>4 DEF WaitInv, Told
  <2>9. Found'
    BY <1>4, <2>3, <2>5, <2>x DEF WaitInv, Found, Restaged
  <2>10. PickedOK'
    <3> SUFFICES ASSUME NEW v \in Threads, NEW i \in Nat, Picked(v, i)'
                 PROVE  /\ \A q \in Queues : waking'[v][i].thread \notin Elements(waiters[q])
                        /\ NoTimeouts => state'[waking'[v][i].thread] # "Active"
                        /\ Unharmed => state'[waking'[v][i].thread] = "Waiting"
      BY <1>4 DEF PickedOK, NoTimeouts, Unharmed
    <3>1. Picked(v, i) /\ waking'[v][i].thread = waking[v][i].thread /\ <<v, i>> # <<w, 1>>
      BY <2>3, <2>x DEF Restaged
    <3>2. waking[v][i].thread # t
      BY <1>2, <1>3, <3>1 DEF PickedOnce
    <3>3. waking[v][i].thread \in Threads
      BY <1>2, <3>1, EntryFacts DEF Picked
    <3>4. /\ \A q \in Queues : waking[v][i].thread \notin Elements(waiters[q])
          /\ NoTimeouts => state[waking[v][i].thread] # "Active"
          /\ Unharmed => state[waking[v][i].thread] = "Waiting"
      BY <1>2, <3>1 DEF PickedOK
    <3> QED
      BY <2>4, <3>1, <3>2, <3>3, <3>4
  <2>11. LateOK'
    <3> SUFFICES ASSUME NEW v \in Threads, NEW i \in 1 .. Len(waking'[v])
                 PROVE  /\ ~waking'[v][i].live => state'[waking'[v][i].thread] # "Waiting"
                        /\ NoTimeouts => waking'[v][i].live /\ waking'[v][i].stage # "again"
      BY <1>4 DEF LateOK, NoTimeouts
    <3>1. /\ i \in 1 .. Len(waking[v]) /\ waking'[v][i].thread = waking[v][i].thread
          /\ waking'[v][i].live = waking[v][i].live
          /\ waking'[v][i].stage = waking[v][i].stage \/ waking'[v][i].stage = x
      BY <2>3 DEF Restaged
    <3>2. waking[v][i].thread \in Threads
      BY <1>2, <3>1, EntryFacts
    <3>3. /\ ~waking[v][i].live => state[waking[v][i].thread] # "Waiting"
          /\ NoTimeouts => waking[v][i].live /\ waking[v][i].stage # "again"
      BY <3>1 DEF WaitInv, LateOK
    <3> QED
      BY <2>1, <2>5, <3>1, <3>2, <3>3
  <2>12. RegisteredOK'
    BY <1>4, <2>4 DEF WaitInv, RegisteredOK, NoTimeouts
  <2>13. ExpiringOK'
    <3> SUFFICES ASSUME NEW f \in expiring
                 PROVE  /\ NoTimeouts => f.stale /\ f.queue = None
                        /\ f.stale => f.queue = None \/ state'[f.thread] # "Waiting"
                        /\ ~f.stale /\ state'[f.thread] = "Waiting" => f.queue = waitingOn[f.thread]
      BY <1>4 DEF ExpiringOK, NoTimeouts
    <3>1. f.thread \in Threads
      BY <1>2 DEF WaitTypeOK
    <3> QED
      BY <2>5, <3>1 DEF WaitInv, ExpiringOK
  <2> QED
    BY <2>3, <2>6, <2>7, <2>8, <2>9, <2>10, <2>11, <2>12, <2>13 DEF WaitInv, Restaged
<1> QED
  BY <1>5, <1>6

(* The rest of wake_thread. *)
LEMMA WakePlaceKeeps ==
    ASSUME WaitInv, NEW w \in Threads, WakePlace(w)
    PROVE  WaitInv'
<1>1. /\ waking[w] # <<>> /\ Head(waking[w]).stage \in {"woken", "again"}
      /\ waking' = [waking EXCEPT ![w] = Tail(waking[w])]
      /\ registered' = [registered EXCEPT ![Head(waking[w]).thread] = "no"]
      /\ UNCHANGED <<state, deadline, outcome, waitingOn, waiters, expiring, mode>>
  BY DEF WakePlace
<1>2. WaitTypeOK /\ PickedOnce
  BY DEF WaitInv
<1>3. Dropped(w)
  BY <1>1, <1>2, DropHead
<1>4. ~Picked(w, 1)
  BY <1>1, <1>3 DEF Picked, Dropped
<1>5. \A u \in Threads : registered'[u] = registered[u] \/ registered'[u] = "no"
  BY <1>1, <1>2 DEF WaitTypeOK
<1>6. WaitTypeOK'
  <2>1. registered' \in [Threads -> Queues \cup {None, "no"}]
    BY <1>1, <1>2 DEF WaitTypeOK
  <2> QED
    BY <1>1, <1>2, <1>3, <2>1 DEF WaitTypeOK, NoTimeouts, Dropped
<1>7. Linked' /\ Told' /\ ExpiringOK'
  BY <1>1 DEF WaitInv, Linked, Told, ExpiringOK, NoTimeouts
<1>8. RegisteredOK'
  BY <1>1, <1>5 DEF WaitInv, RegisteredOK, NoTimeouts
<1>9. Found'
  BY <1>1, <1>3, <1>4 DEF WaitInv, Found, Dropped
<1>10. PickedOK' /\ LateOK'
  BY <1>1, <1>3, DroppedKeeps DEF WaitInv
<1> QED
  BY <1>3, <1>6, <1>7, <1>8, <1>9, <1>10 DEF WaitInv, Dropped

(* wake_with selects the first n waiters that still wait. *)
Selected(w, q, n) ==
    /\ UNCHANGED <<state, deadline, outcome, waitingOn, registered, expiring, mode>>
    /\ waiters' \in [Queues -> Seq(Threads)] /\ Distinct(waiters'[q])
    /\ Len(waiters'[q]) = Len(Pruned(q)) - n
    /\ \A r \in Queues : r # q => waiters'[r] = waiters[r]
    /\ waking' \in [Threads -> Seq(WakeEntry)] /\ Len(waking'[w]) = n
    /\ \A v \in Threads : v # w => waking'[v] = waking[v]
    /\ \A i \in 1 .. n : /\ waking'[w][i].stage = "selected" /\ waking'[w][i].live
                         /\ waking'[w][i].thread = Pruned(q)[i] /\ i \in 1 .. Len(Pruned(q))
    /\ \E chosen \in Seq(Threads) :
          /\ Len(chosen) = n /\ Distinct(chosen)
          /\ \A i \in 1 .. n : waking'[w][i].thread = chosen[i]
          /\ Elements(chosen) \cup Elements(waiters'[q]) = Elements(Pruned(q))
          /\ Elements(chosen) \cap Elements(waiters'[q]) = {}

LEMMA Chosen ==
    ASSUME WaitInv, NEW w \in Threads, waking[w] = <<>>, NEW q \in Queues,
           NEW n \in 0 .. Len(Pruned(q)), Select(w, q, n)
    PROVE  Selected(w, q, n)
<1> DEFINE p == Pruned(q)
           chosen == Front(p, n)
           rest == Back(p, n)
           picked(t) == [thread |-> t, live |-> TRUE, stage |-> "selected"]
           entries == [i \in 1 .. n |-> picked(chosen[i])]
<1>1. WaitTypeOK /\ Linked
  BY DEF WaitInv
<1>2. /\ waiters' = [waiters EXCEPT ![q] = rest] /\ waking' = [waking EXCEPT ![w] = entries]
      /\ UNCHANGED <<state, deadline, outcome, waitingOn, registered, expiring, mode>>
  BY DEF Select, Front, Back
<1>3. p \in Seq(Threads) /\ Distinct(p)
  BY <1>1, QueueFacts
<1>4. /\ chosen \in Seq(Threads) /\ Len(chosen) = n /\ Distinct(chosen)
      /\ \A i \in 1 .. n : chosen[i] = p[i] /\ i \in 1 .. Len(p)
      /\ rest \in Seq(Threads) /\ Distinct(rest)
      /\ Elements(chosen) \cup Elements(rest) = Elements(p)
      /\ Elements(chosen) \cap Elements(rest) = {}
  <2>1. n \in 0 .. Len(p)
    OBVIOUS
  <2> HIDE DEF p
  <2> QED
    BY <1>3, <2>1, CutFacts
<1>l. Len(rest) = Len(p) - n
  <2>1. n \in 0 .. Len(p)
    OBVIOUS
  <2> HIDE DEF p
  <2> QED
    BY SMT, Z3T(40), <1>3, <2>1, CutFacts
<1> HIDE DEF chosen, rest, p
<1>5. /\ entries \in Seq(WakeEntry) /\ Len(entries) = n
      /\ \A i \in 1 .. n : /\ entries[i].stage = "selected" /\ entries[i].live
                           /\ entries[i].thread = chosen[i]
  <2>1. n \in Nat
    BY SMT, Z3T(40), <1>3
  <2>2. \A i \in 1 .. n : chosen[i] \in Threads
    BY SMT, Z3T(40), <1>4
  <2>3. \A i \in 1 .. n : picked(chosen[i]) \in WakeEntry
    BY <2>2 DEF WakeEntry
  <2>4. \A i \in 1 .. n : entries[i] = picked(chosen[i])
    OBVIOUS
  <2>5. entries \in Seq(WakeEntry) /\ Len(entries) = n
    <3> HIDE DEF picked
    <3> QED
      BY SMT, Z3T(40), <2>1, <2>3
  <2> QED
    BY <2>4, <2>5
<1> HIDE DEF entries
<1>6. /\ waiters' \in [Queues -> Seq(Threads)] /\ waiters'[q] = rest
      /\ \A r \in Queues : r # q => waiters'[r] = waiters[r]
      /\ waking' \in [Threads -> Seq(WakeEntry)] /\ waking'[w] = entries
      /\ \A v \in Threads : v # w => waking'[v] = waking[v]
  BY <1>1, <1>2, <1>4, <1>5 DEF WaitTypeOK
<1>7. \A i \in 1 .. n : waking'[w][i].thread = chosen[i]
  BY <1>5, <1>6
<1> QED
  BY <1>2, <1>4, <1>5, <1>6, <1>7, <1>l DEF p, Selected

LEMMA SelectKeeps ==
    ASSUME WaitInv, NEW w \in Threads, waking[w] = <<>>, NEW q \in Queues,
           NEW n \in 0 .. Len(Pruned(q)), Select(w, q, n)
    PROVE  WaitInv'
<1>0. Selected(w, q, n)
  BY Chosen
<1>1. /\ UNCHANGED <<state, deadline, outcome, waitingOn, registered, expiring, mode>>
      /\ waiters' \in [Queues -> Seq(Threads)] /\ Distinct(waiters'[q])
      /\ \A r \in Queues : r # q => waiters'[r] = waiters[r]
      /\ waking' \in [Threads -> Seq(WakeEntry)] /\ Len(waking'[w]) = n
      /\ \A v \in Threads : v # w => waking'[v] = waking[v]
      /\ \A i \in 1 .. n : waking'[w][i].stage = "selected" /\ waking'[w][i].live
  BY <1>0 DEF Selected
<1>2. PICK chosen \in Seq(Threads) :
          /\ Len(chosen) = n /\ Distinct(chosen)
          /\ \A i \in 1 .. n : waking'[w][i].thread = chosen[i]
          /\ Elements(chosen) \cup Elements(waiters'[q]) = Elements(Pruned(q))
          /\ Elements(chosen) \cap Elements(waiters'[q]) = {}
  BY <1>0 DEF Selected
<1>3. WaitTypeOK /\ Linked
  BY DEF WaitInv
<1>4. /\ \A u : u \in Elements(Pruned(q)) <=> u \in Elements(waiters[q]) /\ state[u] = "Waiting"
      /\ Elements(waiters[q]) \subseteq Threads
  BY <1>3, QueueFacts
<1>5. \A r \in Queues : \A u : u \in Elements(waiters'[r]) => u \in Elements(waiters[r])
  BY <1>1, <1>2, <1>4
<1>6. \A i \in 1 .. n : /\ chosen[i] \in Elements(chosen) /\ chosen[i] \in Threads
                        /\ chosen[i] \in Elements(waiters[q]) /\ state[chosen[i]] = "Waiting"
                        /\ \A r \in Queues : chosen[i] \notin Elements(waiters'[r])
  <2> SUFFICES ASSUME NEW i \in 1 .. n
               PROVE  /\ chosen[i] \in Elements(chosen) /\ chosen[i] \in Threads
                      /\ chosen[i] \in Elements(waiters[q]) /\ state[chosen[i]] = "Waiting"
                      /\ \A r \in Queues : chosen[i] \notin Elements(waiters'[r])
    OBVIOUS
  <2>1. chosen[i] \in Elements(chosen)
    BY <1>2 DEF Elements
  <2>2. chosen[i] \in Elements(waiters[q]) /\ state[chosen[i]] = "Waiting"
    BY <1>2, <1>4, <2>1
  <2>3. ASSUME NEW r \in Queues, r # q PROVE chosen[i] \notin Elements(waiters[r])
    <3> DEFINE c == chosen[i]
    <3>1. c \in Elements(waiters[q])
      BY <2>2
    <3> HIDE DEF c
    <3>2. waitingOn[c] = q /\ (c \in Elements(waiters[r]) => waitingOn[c] = r)
      BY <1>3, <3>1 DEF Linked
    <3> QED
      BY <2>3, <3>2 DEF c
  <2> QED
    BY <1>1, <1>2, <1>4, <2>1, <2>2, <2>3
<1>7. \A v \in Threads, i \in Nat : Picked(v, i)' =>
          \/ v # w /\ Picked(v, i) /\ waking'[v][i] = waking[v][i]
          \/ v = w /\ i \in 1 .. n /\ waking'[w][i].thread = chosen[i]
  BY <1>1, <1>2 DEF Picked
<1>8. \A i \in Nat : ~Picked(w, i)
  BY SMT, Z3T(40) DEF Picked
<1>9. ASSUME NEW u \in Threads, BeingWoken(u) PROVE BeingWoken(u)'
  <2>1. PICK v \in Threads : \E i \in 1 .. Len(waking[v]) :
            waking[v][i].thread = u /\ waking[v][i].stage \in {"selected", "checked"}
    BY <1>9 DEF BeingWoken
  <2>2. v # w
    BY SMT, Z3T(40), <2>1
  <2>3. waking'[v] = waking[v]
    BY <1>1, <2>2
  <2> QED
    BY <2>1, <2>3 DEF BeingWoken
<1>10. WaitTypeOK'
  BY <1>1, <1>3 DEF WaitTypeOK, NoTimeouts
<1>11. Linked'
  BY <1>1, <1>3, <1>5 DEF Linked
<1>12. Told' /\ RegisteredOK' /\ ExpiringOK'
  BY <1>1 DEF WaitInv, Told, RegisteredOK, ExpiringOK, NoTimeouts
<1>13. Found'
  <2> SUFFICES ASSUME NEW u \in Threads, state[u] = "Waiting"
               PROVE  /\ waitingOn[u] \in Queues
                      /\ u \in Elements(waiters'[waitingOn[u]]) \/ BeingWoken(u)'
    BY <1>1 DEF Found
  <2>1. waitingOn[u] \in Queues /\ (u \in Elements(waiters[waitingOn[u]]) \/ BeingWoken(u))
    BY DEF WaitInv, Found
  <2>2. CASE BeingWoken(u) \/ waitingOn[u] # q
    BY <1>1, <1>9, <2>1, <2>2
  <2>3. CASE u \in Elements(chosen)
    <3>1. PICK i \in 1 .. n : chosen[i] = u
      BY <1>2, <2>3 DEF Elements
    <3>2. i \in 1 .. Len(waking'[w]) /\ waking'[w][i].thread = u /\ waking'[w][i].stage = "selected"
      BY <1>1, <1>2, <3>1
    <3> QED
      BY <2>1, <3>2 DEF BeingWoken
  <2>4. CASE waitingOn[u] = q /\ u \in Elements(waiters[q]) /\ u \notin Elements(chosen)
    BY <1>2, <1>4, <2>1, <2>4
  <2> QED
    BY <2>1, <2>2, <2>3, <2>4
<1>14. PickedOK'
  <2> SUFFICES ASSUME NEW v \in Threads, NEW i \in Nat, Picked(v, i)'
               PROVE  /\ \A r \in Queues : waking'[v][i].thread \notin Elements(waiters'[r])
                      /\ NoTimeouts => state[waking'[v][i].thread] # "Active"
                      /\ Unharmed => state[waking'[v][i].thread] = "Waiting"
    BY <1>1 DEF PickedOK, NoTimeouts, Unharmed
  <2>1. CASE v # w /\ Picked(v, i) /\ waking'[v][i] = waking[v][i]
    BY <1>5, <2>1 DEF WaitInv, PickedOK
  <2>2. CASE v = w /\ i \in 1 .. n /\ waking'[w][i].thread = chosen[i]
    BY <1>6, <2>2
  <2> QED
    BY <1>7, <2>1, <2>2
<1>15. PickedOnce'
  <2> SUFFICES ASSUME NEW v \in Threads, NEW u \in Threads, NEW i \in Nat, NEW j \in Nat,
                      Picked(v, i)', Picked(u, j)', waking'[v][i].thread = waking'[u][j].thread
               PROVE  v = u /\ i = j
    BY DEF PickedOnce
  <2>1. \A x \in Threads, k \in Nat : Picked(x, k) =>
            \A r \in Queues : waking[x][k].thread \notin Elements(waiters[r])
    BY DEF WaitInv, PickedOK
  <2>2. CASE v # w /\ u # w
    BY <1>7, <2>2 DEF WaitInv, PickedOnce
  <2>3. CASE v = w /\ u = w
    <3>1. i \in 1 .. n /\ j \in 1 .. n /\ chosen[i] = chosen[j]
      BY <1>7, <2>3
    <3> QED
      BY <1>2, <2>3, <3>1 DEF Distinct
  <2>4. CASE v = w /\ u # w
    <3>1. i \in 1 .. n /\ waking'[v][i].thread = chosen[i] /\ Picked(u, j) /\ waking'[u][j] = waking[u][j]
      BY <1>7, <2>4
    <3>2. chosen[i] \in Elements(waiters[q]) /\ waking[u][j].thread \notin Elements(waiters[q])
      BY <1>6, <2>1, <3>1
    <3> QED
      BY <3>1, <3>2
  <2>5. CASE v # w /\ u = w
    <3>1. j \in 1 .. n /\ waking'[u][j].thread = chosen[j] /\ Picked(v, i) /\ waking'[v][i] = waking[v][i]
      BY <1>7, <2>5
    <3>2. chosen[j] \in Elements(waiters[q]) /\ waking[v][i].thread \notin Elements(waiters[q])
      BY <1>6, <2>1, <3>1
    <3> QED
      BY <3>1, <3>2
  <2> QED
    BY <2>2, <2>3, <2>4, <2>5
<1>16. LateOK'
  <2> SUFFICES ASSUME NEW v \in Threads, NEW i \in 1 .. Len(waking'[v])
               PROVE  /\ ~waking'[v][i].live => state[waking'[v][i].thread] # "Waiting"
                      /\ NoTimeouts => waking'[v][i].live /\ waking'[v][i].stage # "again"
    BY <1>1 DEF LateOK, NoTimeouts
  <2>1. CASE v # w
    <3>1. waking'[v] = waking[v] /\ i \in 1 .. Len(waking[v])
      BY <1>1, <2>1
    <3> QED
      BY <3>1 DEF WaitInv, LateOK
  <2>2. CASE v = w
    BY <1>1, <2>2
  <2> QED
    BY <2>1, <2>2
<1> QED
  BY <1>10, <1>11, <1>12, <1>13, <1>14, <1>15, <1>16 DEF WaitInv

-----------------------------------------------------------------------------
(* Whatever the timer and the wakers do keeps the invariant. *)
LEMMA StepsKeep ==
    ASSUME WaitInv, TimerStep \/ \E w \in Threads : WakeStep(w)
    PROVE  WaitInv'
  BY TickKeeps, ExpireKeeps, WakeCheckKeeps, WakeSetKeeps, WakePlaceKeeps
  DEF TimerStep, WakeStep

(* Nobody waits at the start. *)
LEMMA WaitStarts ==
    ASSUME WaitInit, \A m \in Modes : m.interleave => TRUE \notin m.timed
    PROVE  WaitInv
<1>1. /\ \A t \in Threads : /\ state[t] = "Active" /\ ~deadline[t] /\ waitingOn[t] = None
                            /\ registered[t] = "no" /\ waking[t] = <<>>
      /\ \A q \in Queues : waiters[q] = <<>>
      /\ expiring = {} /\ mode \in Modes
  BY DEF WaitInit
<1>2. /\ <<>> \in Seq(Threads) /\ <<>> \in Seq(WakeEntry)
      /\ \A i \in Nat : i \notin 1 .. Len(<<>>)
      /\ 1 .. Len(<<>>) = {}
  BY SMT, Z3T(40)
<1>3. Elements(<<>>) = {} /\ Distinct(<<>>)
  BY <1>2 DEF Elements, Distinct
<1>4. WaitTypeOK
  BY <1>1, <1>2 DEF WaitInit, WaitTypeOK, NoTimeouts
<1>5. Linked /\ Found /\ Told
  BY <1>1, <1>3 DEF Linked, Found, Told
<1>6. PickedOK /\ PickedOnce
  BY <1>1, <1>2 DEF PickedOK, PickedOnce, Picked
<1>7. LateOK
  BY <1>1, <1>2 DEF LateOK
<1>8. RegisteredOK /\ ExpiringOK
  BY <1>1 DEF RegisteredOK, ExpiringOK
<1> QED
  BY <1>4, <1>5, <1>6, <1>7, <1>8 DEF WaitInv

-----------------------------------------------------------------------------
(* What the steps do to those who sleep on a queue and to those on their way *)
(* out of it: all that the primitives above rely on.                        *)
Sleepers(q) == {t \in Elements(waiters[q]) : state[t] = "Waiting"}

DeadStayDead == \A u \in Threads : state[u] = "Terminated" => state'[u] = "Terminated"

(* Nobody falls asleep and nobody is handed anything, and what is on its way *)
(* stays on its way, unless its receiver was killed or timed out.           *)
Undisturbed ==
    /\ DeadStayDead
    /\ \A q \in Queues : /\ Sleepers(q)' \subseteq Sleepers(q)
                         /\ InFlight(q)' \subseteq InFlight(q)
                         /\ Unharmed => InFlight(q)' = InFlight(q)

(* Thread t leaves its wait, with what it was handed there. *)
Departs(t) ==
    /\ DeadStayDead
    /\ \A q \in Queues :
          /\ Sleepers(q)' \subseteq Sleepers(q)
          /\ IF state[t] = "Active" /\ outcome[t] = "Completed" /\ waitingOn[t] = q
             THEN t \in InFlight(q) /\ InFlight(q)' = InFlight(q) \ {t}
             ELSE InFlight(q)' = InFlight(q)

LEMMA BlockEffect ==
    ASSUME WaitInv, NEW t \in Threads, NEW q \in Queues, NEW timed \in mode.timed,
           MayRun(t), waking[t] = <<>>, waitingOn[t] = None, Block(t, q, timed)
    PROVE  /\ DeadStayDead
           /\ \A r \in Queues : /\ InFlight(r)' = InFlight(r)
                                /\ r # q => Sleepers(r)' \subseteq Sleepers(r)
                                /\ \A u \in Sleepers(r)' : u # t => u \in Sleepers(r)
<1>1. /\ waiters' = [waiters EXCEPT ![q] = Append(Pruned(q), t)]
      /\ state' = [state EXCEPT ![t] = "Waiting"]
      /\ outcome' = [outcome EXCEPT ![t] = "Pending"]
      /\ waitingOn' = [waitingOn EXCEPT ![t] = q]
      /\ waking' = waking
  BY DEF Block
<1>2. WaitTypeOK /\ Linked
  BY DEF WaitInv
<1>3. /\ state'[t] = "Waiting" /\ waitingOn'[t] = q
      /\ \A u \in Threads : u # t => /\ state'[u] = state[u] /\ outcome'[u] = outcome[u]
                                     /\ waitingOn'[u] = waitingOn[u]
  BY <1>1, <1>2 DEF WaitTypeOK
<1>4. state[t] = "Active" /\ ~BeingWoken(t) /\ \A r \in Queues : t \notin Elements(waiters[r])
  BY RunnerIsFree
<1>5. \A u \in Threads : BeingWoken(u)' <=> BeingWoken(u)
  BY <1>1 DEF BeingWoken
<1>6. \A r \in Queues : None # r
  BY ThreadsAssumption DEF None
<1>7. ASSUME NEW r \in Queues PROVE InFlight(r)' = InFlight(r)
  <2>1. t \notin InFlight(r) /\ t \notin InFlight(r)'
    BY <1>3, <1>4, <1>5, <1>6 DEF InFlight
  <2>2. \A u \in Threads : u # t => (u \in InFlight(r)' <=> u \in InFlight(r))
    BY <1>3, <1>5 DEF InFlight
  <2> QED
    BY <2>1, <2>2 DEF InFlight
<1>8. ASSUME NEW r \in Queues
      PROVE  /\ Elements(waiters'[r]) \subseteq Elements(waiters[r]) \cup {t}
             /\ r # q => waiters'[r] = waiters[r]
             /\ Elements(waiters[r]) \subseteq Threads
  <2>1. /\ Pruned(q) \in Seq(Threads) /\ Elements(waiters[r]) \subseteq Threads
        /\ \A u : u \in Elements(Pruned(q)) => u \in Elements(waiters[q])
    BY <1>2, QueueFacts
  <2> DEFINE p == Pruned(q)
  <2>2. /\ Append(p, t) \in Seq(Threads)
        /\ Elements(Append(p, t)) = Elements(p) \cup {t}
        /\ Distinct(p) /\ t \notin Elements(p) => Distinct(Append(p, t))
    <3>1. p \in Seq(Threads)
      BY <2>1
    <3> HIDE DEF p
    <3> QED
      BY <3>1, AppendFacts
  <2>3. waiters'[r] = IF r = q THEN Append(Pruned(q), t) ELSE waiters[r]
    BY <1>1, <1>2 DEF WaitTypeOK
  <2> QED
    BY <2>1, <2>2, <2>3
<1>9. ASSUME NEW r \in Queues, NEW u \in Sleepers(r)', u # t PROVE u \in Sleepers(r)
  BY <1>3, <1>8, <1>9 DEF Sleepers
<1>10. ASSUME NEW r \in Queues, r # q PROVE t \notin Sleepers(r)'
  BY <1>4, <1>8, <1>10 DEF Sleepers
<1>11. DeadStayDead
  BY <1>3, <1>4 DEF DeadStayDead
<1> QED
  BY <1>7, <1>9, <1>10, <1>11

LEMMA UnlinkEffect ==
    ASSUME WaitInv,
           \A q \in Queues : Elements(waiters'[q]) \subseteq Elements(waiters[q]),
           \A u \in Threads : waitingOn[u] # None => outcome'[u] = outcome[u],
           UNCHANGED <<state, waitingOn, waking>>
    PROVE  Undisturbed
<1>1. \A q \in Queues : Sleepers(q)' \subseteq Sleepers(q)
  BY DEF Sleepers
<1>2. ASSUME NEW q \in Queues PROVE InFlight(q)' = InFlight(q)
  <2>1. q # None
    BY ThreadsAssumption DEF None
  <2>2. \A u \in Threads : BeingWoken(u)' <=> BeingWoken(u)
    BY DEF BeingWoken
  <2>3. \A u \in Threads : u \in InFlight(q)' <=> u \in InFlight(q)
    BY <2>1, <2>2 DEF InFlight
  <2> QED
    BY <2>3 DEF InFlight
<1> QED
  BY <1>1, <1>2 DEF Undisturbed, DeadStayDead

LEMMA PruneEffect ==
    ASSUME WaitInv, NEW q \in Queues, waiters' = [waiters EXCEPT ![q] = Pruned(q)],
           \A u \in Threads : waitingOn[u] # None => outcome'[u] = outcome[u],
           UNCHANGED <<state, waitingOn, waking>>
    PROVE  Undisturbed
<1>1. WaitTypeOK /\ Linked
  BY DEF WaitInv
<1>2. \A u : u \in Elements(Pruned(q)) => u \in Elements(waiters[q])
  BY <1>1, QueueFacts
<1>3. \A r \in Queues : waiters'[r] = IF r = q THEN Pruned(q) ELSE waiters[r]
  BY <1>1 DEF WaitTypeOK
<1>4. \A r \in Queues : Elements(waiters'[r]) \subseteq Elements(waiters[r])
  BY <1>2, <1>3
<1> QED
  BY <1>4, UnlinkEffect

LEMMA ExpireEffect ==
    ASSUME WaitInv, NEW e \in expiring, Expire(e)
    PROVE  Undisturbed
<1> DEFINE t == e.thread
<1>1. /\ waitingOn' = waitingOn
      /\ waiters' = IF e.queue = None THEN waiters
                    ELSE [waiters EXCEPT ![e.queue] = WithoutThread(e.queue, t)]
  BY DEF Expire
<1>2. WaitTypeOK /\ Linked
  BY DEF WaitInv
<1>3. t \in Threads /\ e.queue \in Queues \cup {None}
  BY <1>2 DEF WaitTypeOK
<1>4. ASSUME NEW q \in Queues
      PROVE  /\ Elements(waiters'[q]) \subseteq Elements(waiters[q])
             /\ Elements(waiters[q]) \subseteq Threads
  <2>1. waiters'[q] = waiters[q] \/ waiters'[q] = WithoutThread(q, t)
    BY <1>1, <1>2, <1>3 DEF WaitTypeOK
  <2> QED
    BY <1>2, <1>3, <2>1, QueueFacts
<1>5. CASE ~e.stale /\ state[t] = "Waiting"
  <2>1. /\ state' = [state EXCEPT ![t] = "Active"] /\ outcome' = [outcome EXCEPT ![t] = "TimedOut"]
        /\ waking' = Late(t)
    BY <1>5 DEF Expire
  <2>2. /\ state'[t] = "Active" /\ outcome'[t] = "TimedOut"
        /\ \A u \in Threads : u # t => state'[u] = state[u] /\ outcome'[u] = outcome[u]
    BY <1>2, <1>3, <2>1 DEF WaitTypeOK
  <2>3. \A w \in Threads : /\ Len(waking'[w]) = Len(waking[w])
                           /\ \A i \in 1 .. Len(waking[w]) :
                                 /\ waking'[w][i].thread = waking[w][i].thread
                                 /\ waking'[w][i].stage = waking[w][i].stage
    BY <1>2, <1>3, <2>1, LateFacts
  <2>4. \A u \in Threads : BeingWoken(u)' <=> BeingWoken(u)
    <3>1. \A u \in Threads, w \in Threads :
              (\E i \in 1 .. Len(waking'[w]) :
                   waking'[w][i].thread = u /\ waking'[w][i].stage \in {"selected", "checked"})
              <=> \E i \in 1 .. Len(waking[w]) :
                     waking[w][i].thread = u /\ waking[w][i].stage \in {"selected", "checked"}
      BY <2>3
    <3> QED
      BY <3>1 DEF BeingWoken
  <2>5. \A q \in Queues : Sleepers(q)' \subseteq Sleepers(q)
    BY <1>4, <2>2 DEF Sleepers
  <2>6. ASSUME NEW q \in Queues PROVE InFlight(q)' = InFlight(q)
    <3>1. \A u \in Threads : u \in InFlight(q)' <=> u \in InFlight(q)
      BY <1>1, <1>5, <2>2, <2>4 DEF InFlight
    <3> QED
      BY <3>1 DEF InFlight
  <2>7. DeadStayDead
    BY <1>5, <2>2 DEF DeadStayDead
  <2> QED
    BY <2>5, <2>6, <2>7 DEF Undisturbed
<1>6. CASE ~(~e.stale /\ state[t] = "Waiting")
  <2>1. UNCHANGED <<state, outcome, waitingOn, waking>>
    BY <1>6 DEF Expire
  <2> QED
    BY <1>4, <2>1, UnlinkEffect
<1> QED
  BY <1>5, <1>6

(* Whatever the timer does disturbs nobody. *)
LEMMA TimerEffect ==
    ASSUME WaitInv, TimerStep
    PROVE  Undisturbed
<1>1. CASE Tick
  <2>1. UNCHANGED <<state, outcome, waitingOn, waiters, waking>>
    BY <1>1 DEF Tick
  <2> QED
    BY <2>1, UnlinkEffect
<1> QED
  BY <1>1, ExpireEffect DEF TimerStep

LEMMA RefusalEffect ==
    ASSUME WaitInv, NEW w \in Threads, Picked(w, 1), state[waking[w][1].thread] # "Waiting",
           waking' = [waking EXCEPT ![w] = Tail(waking[w])],
           UNCHANGED <<state, outcome, waitingOn, waiters, mode>>
    PROVE  Undisturbed /\ ~Unharmed
<1>1. waking[w] # <<>> /\ 1 \in Nat
  BY SMT, Z3T(40) DEF Picked
<1>2. ~Unharmed
  BY <1>1 DEF WaitInv, PickedOK
<1>3. Dropped(w)
  BY <1>1, DropHead DEF WaitInv
<1>4. \A u \in Threads : BeingWoken(u)' => BeingWoken(u)
  BY <1>3 DEF Dropped
<1>5. \A q \in Queues : Sleepers(q)' = Sleepers(q)
  BY DEF Sleepers
<1>6. \A q \in Queues : InFlight(q)' \subseteq InFlight(q)
  BY <1>4 DEF InFlight
<1> QED
  BY <1>2, <1>5, <1>6 DEF Undisturbed, DeadStayDead

(* A wake-up in progress disturbs nobody, and refuses nobody unless it was    *)
(* crossed by a kill or a timeout.                                         *)
LEMMA WakeEffect ==
    ASSUME WaitInv, NEW w \in Threads, WakeStep(w)
    PROVE  /\ Undisturbed /\ waking[w] # <<>>
           /\ Unharmed => \/ Len(waking'[w]) = Len(waking[w])
                          \/ Head(waking[w]).stage \in {"woken", "again"}
<1> DEFINE t == waking[w][1].thread
<1>1. WaitTypeOK /\ PickedOnce
  BY DEF WaitInv
<1>2. waking[w] # <<>>
  BY DEF WakeStep, WakeCheck, WakeSet, WakePlace
<1>3. /\ Head(waking[w]) = waking[w][1] /\ 1 \in 1 .. Len(waking[w])
      /\ waking[w] \in Seq(WakeEntry) /\ t \in Threads
  <2>1. waking[w] \in Seq(WakeEntry)
    BY <1>1 DEF WaitTypeOK
  <2>2. Head(waking[w]) = waking[w][1] /\ 1 \in 1 .. Len(waking[w])
    BY SMT, Z3T(40), <1>2, <2>1
  <2> QED
    BY <1>1, <2>1, <2>2, EntryFacts
<1>4. CASE WakePlace(w)
  <2>1. /\ Head(waking[w]).stage \in {"woken", "again"}
        /\ waking' = [waking EXCEPT ![w] = Tail(waking[w])]
        /\ UNCHANGED <<state, outcome, waitingOn, waiters>>
    BY <1>4 DEF WakePlace
  <2>2. ~Picked(w, 1)
    BY <1>3, <2>1 DEF Picked
  <2>3. Dropped(w)
    BY <1>1, <1>2, <2>1, DropHead
  <2>4. \A u \in Threads : BeingWoken(u)' <=> BeingWoken(u)
    BY <2>2, <2>3 DEF Dropped
  <2>5. \A q \in Queues : Sleepers(q)' = Sleepers(q) /\ InFlight(q)' = InFlight(q)
    BY <2>1, <2>4 DEF Sleepers, InFlight
  <2> QED
    BY <1>2, <2>1, <2>5 DEF Undisturbed, DeadStayDead
<1>5. CASE WakeCheck(w)
  <2>1. /\ Head(waking[w]).stage = "selected"
        /\ UNCHANGED <<state, outcome, waitingOn, waiters, mode>>
        /\ IF state[Head(waking[w]).thread] = "Waiting"
           THEN waking' = [waking EXCEPT ![w] =
                              <<[Head(waking[w]) EXCEPT !.stage = "checked"]>> \o Tail(waking[w])]
           ELSE waking' = [waking EXCEPT ![w] = Tail(waking[w])]
    BY <1>5 DEF WakeCheck
  <2>2. Picked(w, 1)
    BY <1>3, <2>1 DEF Picked
  <2>3. CASE state[t] # "Waiting"
    BY <1>2, <1>3, <2>1, <2>2, <2>3, RefusalEffect
  <2>4. CASE state[t] = "Waiting"
    <3>1. waking' = [waking EXCEPT ![w] =
                        <<[Head(waking[w]) EXCEPT !.stage = "checked"]>> \o Tail(waking[w])]
      BY <1>3, <2>1, <2>4
    <3>2. Restaged(w, "checked")
      BY <1>1, <1>2, <2>2, <3>1, Restage
    <3>3. \A u \in Threads : BeingWoken(u)' <=> BeingWoken(u)
      BY <3>2 DEF Restaged
    <3>4. \A q \in Queues : Sleepers(q)' = Sleepers(q) /\ InFlight(q)' = InFlight(q)
      BY <2>1, <3>3 DEF Sleepers, InFlight
    <3>5. Len(waking'[w]) = Len(waking[w])
      BY <3>2 DEF Restaged
    <3> QED
      BY <1>2, <2>1, <3>4, <3>5 DEF Undisturbed, DeadStayDead
  <2> QED
    BY <2>3, <2>4
<1>6. CASE WakeSet(w)
  <2> DEFINE x == IF state[t] = "Waiting" THEN "woken" ELSE "again"
  <2>1. /\ Head(waking[w]).stage = "checked"
        /\ UNCHANGED <<waitingOn, waiters, mode>>
        /\ IF state[t] = "Terminated"
           THEN /\ waking' = [waking EXCEPT ![w] = Tail(waking[w])]
                /\ UNCHANGED <<state, outcome>>
           ELSE /\ waking' = [waking EXCEPT ![w] =
                                 [waking[w] EXCEPT ![1] = [waking[w][1] EXCEPT !.stage = x]]]
                /\ state' = [state EXCEPT ![t] = "Active"]
                /\ outcome' = [outcome EXCEPT ![t] = "Completed"]
    BY <1>3, <1>6 DEF WakeSet
  <2>2. Picked(w, 1)
    BY <1>3, <2>1 DEF Picked
  <2>3. CASE state[t] = "Terminated"
    BY <1>2, <1>3, <2>1, <2>2, <2>3, RefusalEffect
  <2>4. CASE state[t] # "Terminated"
    <3>1. x \in {"checked", "woken", "again"} /\ x # "checked"
      OBVIOUS
    <3> HIDE DEF x
    <3>2. waking' = [waking EXCEPT ![w] =
                        [waking[w] EXCEPT ![1] = [waking[w][1] EXCEPT !.stage = x]]]
      BY <2>1, <2>4
    <3>3. Restaged(w, x)
      BY <1>1, <1>2, <2>2, <3>1, <3>2, Restage
    <3>4. /\ state'[t] = "Active" /\ outcome'[t] = "Completed"
          /\ \A u \in Threads : u # t => state'[u] = state[u] /\ outcome'[u] = outcome[u]
      <4> HIDE DEF t
      <4> QED
        BY <1>1, <1>3, <2>1, <2>4 DEF WaitTypeOK
    <3>5. \A u \in Threads : /\ BeingWoken(u)' => BeingWoken(u)
                             /\ BeingWoken(u) => BeingWoken(u)' \/ u = t
      BY <3>3 DEF Restaged
    <3>6. BeingWoken(t)
      BY <2>2 DEF BeingWoken, Picked
    <3>7. ASSUME NEW q \in Queues PROVE InFlight(q)' = InFlight(q)
      <4>1. \A u \in Threads : u \in InFlight(q)' <=> u \in InFlight(q)
        <5> HIDE DEF t
        <5> QED
          BY <2>1, <3>4, <3>5, <3>6 DEF InFlight
      <4> QED
        BY <4>1 DEF InFlight
    <3>8. ASSUME NEW q \in Queues PROVE Sleepers(q)' \subseteq Sleepers(q)
      <4>1. Elements(waiters[q]) \subseteq Threads
        BY QueueFacts DEF WaitInv
      <4> HIDE DEF t
      <4> QED
        BY <2>1, <3>4, <4>1 DEF Sleepers
    <3>9. Len(waking'[w]) = Len(waking[w])
      BY <3>3 DEF Restaged
    <3>10. DeadStayDead
      <4> HIDE DEF t
      <4> QED
        BY <2>4, <3>4 DEF DeadStayDead
    <3> QED
      BY <1>2, <3>7, <3>8, <3>9, <3>10 DEF Undisturbed
  <2> QED
    BY <2>3, <2>4
<1> QED
  BY <1>4, <1>5, <1>6 DEF WakeStep

LEMMA KillEffect ==
    ASSUME WaitInv, NEW k \in Threads, NEW t \in Threads, Kill(k, t)
    PROVE  Departs(t)
<1>1. /\ MayRun(k) /\ waking[k] = <<>> /\ state[t] # "Terminated"
      /\ state' = [state EXCEPT ![t] = "Terminated"]
      /\ outcome' = [outcome EXCEPT ![t] = "Completed"]
      /\ waiters' = [q \in Queues |-> IF registered[t] = q THEN WithoutThread(q, t) ELSE waiters[q]]
      /\ waitingOn' = waitingOn /\ waking' = waking
  BY DEF Kill, Running
<1>2. WaitTypeOK /\ Linked
  BY DEF WaitInv
<1>3. /\ state'[t] = "Terminated"
      /\ \A u \in Threads : u # t => state'[u] = state[u] /\ outcome'[u] = outcome[u]
  BY <1>1, <1>2 DEF WaitTypeOK
<1>4. \A u \in Threads : BeingWoken(u)' <=> BeingWoken(u)
  BY <1>1 DEF BeingWoken
<1>5. state[t] = "Active" => ~BeingWoken(t)
  <2> SUFFICES ASSUME BeingWoken(t), state[t] = "Active" PROVE FALSE
    OBVIOUS
  <2>1. PICK v \in Threads : \E j \in 1 .. Len(waking[v]) :
            waking[v][j].thread = t /\ waking[v][j].stage \in {"selected", "checked"}
    BY DEF BeingWoken
  <2>2. PICK j \in 1 .. Len(waking[v]) :
            waking[v][j].thread = t /\ waking[v][j].stage \in {"selected", "checked"}
    BY <2>1
  <2>3. j \in Nat
    BY <1>2, EntryFacts
  <2>4. ~NoTimeouts
    BY <2>2, <2>3 DEF WaitInv, PickedOK, Picked
  <2>5. ~mode.interleave
    BY <1>2, <2>4 DEF WaitTypeOK
  <2>6. waking[v] = <<>>
    BY <1>1, <2>5, RunnerIsFree
  <2> QED
    BY SMT, Z3T(40), <2>6
<1>6. ASSUME NEW q \in Queues PROVE Sleepers(q)' \subseteq Sleepers(q)
  <2>1. waiters'[q] = waiters[q] \/ waiters'[q] = WithoutThread(q, t)
    BY <1>1
  <2>2. /\ Elements(waiters'[q]) \subseteq Elements(waiters[q])
        /\ Elements(waiters[q]) \subseteq Threads
    BY <1>2, <2>1, QueueFacts
  <2> QED
    BY <1>3, <2>2 DEF Sleepers
<1>7. ASSUME NEW q \in Queues, state[t] = "Active" /\ outcome[t] = "Completed" /\ waitingOn[t] = q
      PROVE  t \in InFlight(q) /\ InFlight(q)' = InFlight(q) \ {t}
  <2>1. t \in InFlight(q) /\ t \notin InFlight(q)'
    BY <1>3, <1>4, <1>5, <1>7 DEF InFlight
  <2>2. \A u \in Threads : u # t => (u \in InFlight(q)' <=> u \in InFlight(q))
    BY <1>1, <1>3, <1>4 DEF InFlight
  <2> QED
    BY <2>1, <2>2 DEF InFlight
<1>8. ASSUME NEW q \in Queues, ~(state[t] = "Active" /\ outcome[t] = "Completed" /\ waitingOn[t] = q)
      PROVE  InFlight(q)' = InFlight(q)
  <2>1. \A u \in Threads : u \in InFlight(q)' <=> u \in InFlight(q)
    BY <1>1, <1>3, <1>4, <1>8 DEF InFlight
  <2> QED
    BY <2>1 DEF InFlight
<1>9. DeadStayDead
  BY <1>3 DEF DeadStayDead
<1> QED
  BY <1>6, <1>7, <1>8, <1>9 DEF Departs

LEMMA LeaveWaitEffect ==
    ASSUME WaitInv, NEW t \in Threads, LeaveWait(t)
    PROVE  Departs(t) /\ state[t] = "Active" /\ outcome[t] \in {"Completed", "TimedOut"}
<1>1. /\ MayRun(t) /\ waking[t] = <<>> /\ waitingOn[t] # None
      /\ waitingOn' = [waitingOn EXCEPT ![t] = None]
      /\ UNCHANGED <<state, outcome, waiters>>
  BY DEF LeaveWait
<1>2. waking' = waking
  BY LeaveWaitKeeps
<1>3. WaitTypeOK /\ Told
  BY DEF WaitInv
<1>4. state[t] = "Active" /\ ~BeingWoken(t)
  BY <1>1, RunnerIsFree
<1>5. outcome[t] \in {"Completed", "TimedOut"}
  BY <1>1, <1>3, <1>4 DEF WaitTypeOK, Told
<1>6. waitingOn'[t] = None /\ \A u \in Threads : u # t => waitingOn'[u] = waitingOn[u]
  BY <1>1, <1>3 DEF WaitTypeOK
<1>7. \A u \in Threads : BeingWoken(u)' <=> BeingWoken(u)
  BY <1>2 DEF BeingWoken
<1>8. \A q \in Queues : Sleepers(q)' = Sleepers(q) /\ q # None
  BY <1>1, ThreadsAssumption DEF Sleepers, None
<1>9. \A q \in Queues : t \notin InFlight(q)'
  BY <1>6, <1>8 DEF InFlight
<1>10. \A q \in Queues, u \in Threads : u # t => (u \in InFlight(q)' <=> u \in InFlight(q))
  BY <1>1, <1>6, <1>7 DEF InFlight
<1>11. \A q \in Queues : t \in InFlight(q) <=> outcome[t] = "Completed" /\ waitingOn[t] = q
  BY <1>4 DEF InFlight
<1>12. \A q \in Queues : InFlight(q) \subseteq Threads /\ InFlight(q)' \subseteq Threads
  BY DEF InFlight
<1>13. \A q \in Queues : InFlight(q)' = InFlight(q) \ {t}
  BY <1>9, <1>10, <1>12
<1>14. ASSUME NEW q \in Queues,
              ~(state[t] = "Active" /\ outcome[t] = "Completed" /\ waitingOn[t] = q)
       PROVE  InFlight(q)' = InFlight(q)
  BY <1>4, <1>11, <1>13, <1>14
<1> QED
  BY <1>1, <1>4, <1>5, <1>8, <1>11, <1>13, <1>14 DEF Departs, DeadStayDead

(* The first n sleepers of q are on their way. *)
HandsOver(q, n) ==
    \E chosen \in Seq(Threads) :
        /\ Len(chosen) = n /\ Distinct(chosen) /\ Elements(chosen) \subseteq Sleepers(q)
        /\ InFlight(q) \cap Elements(chosen) = {}
        /\ InFlight(q)' = InFlight(q) \cup Elements(chosen)
        /\ Sleepers(q)' = Sleepers(q) \ Elements(chosen)

LEMMA SelectEffect ==
    ASSUME WaitInv, NEW w \in Threads, waking[w] = <<>>, NEW q \in Queues,
           NEW n \in 0 .. Len(Pruned(q)), Select(w, q, n)
    PROVE  /\ \A r \in Queues : r # q => Sleepers(r)' = Sleepers(r) /\ InFlight(r)' = InFlight(r)
           /\ HandsOver(q, n)
           /\ n = Len(Pruned(q)) => Sleepers(q)' = {}
<1>0. Selected(w, q, n)
  BY Chosen
<1>1. /\ UNCHANGED <<state, outcome, waitingOn>>
      /\ waiters' \in [Queues -> Seq(Threads)]
      /\ Len(waiters'[q]) = Len(Pruned(q)) - n
      /\ \A r \in Queues : r # q => waiters'[r] = waiters[r]
      /\ Len(waking'[w]) = n
      /\ \A v \in Threads : v # w => waking'[v] = waking[v]
      /\ \A i \in 1 .. n : waking'[w][i].stage = "selected"
  BY <1>0 DEF Selected
<1>2. PICK chosen \in Seq(Threads) :
          /\ Len(chosen) = n /\ Distinct(chosen)
          /\ \A i \in 1 .. n : waking'[w][i].thread = chosen[i]
          /\ Elements(chosen) \cup Elements(waiters'[q]) = Elements(Pruned(q))
          /\ Elements(chosen) \cap Elements(waiters'[q]) = {}
  BY <1>0 DEF Selected
<1>3. WaitTypeOK /\ Linked
  BY DEF WaitInv
<1>4. /\ \A u : u \in Elements(Pruned(q)) <=> u \in Elements(waiters[q]) /\ state[u] = "Waiting"
      /\ Elements(waiters[q]) \subseteq Threads /\ Pruned(q) \in Seq(Threads)
  BY <1>3, QueueFacts
<1>5. Elements(Pruned(q)) = Sleepers(q)
  BY <1>4 DEF Sleepers
<1>6. Sleepers(q)' = Elements(waiters'[q])
  BY <1>1, <1>2, <1>4 DEF Sleepers
<1>7. Elements(chosen) \subseteq Sleepers(q) /\ Sleepers(q)' = Sleepers(q) \ Elements(chosen)
  BY <1>2, <1>5, <1>6
<1>8. \A u \in Threads : BeingWoken(u)' <=> BeingWoken(u) \/ u \in Elements(chosen)
  <2> SUFFICES ASSUME NEW u \in Threads
               PROVE  BeingWoken(u)' <=> BeingWoken(u) \/ u \in Elements(chosen)
    OBVIOUS
  <2>1. 1 .. Len(waking[w]) = {}
    BY SMT, Z3T(40)
  <2>2. (\E i \in 1 .. Len(waking'[w]) :
            waking'[w][i].thread = u /\ waking'[w][i].stage \in {"selected", "checked"})
        <=> u \in Elements(chosen)
    <3>1. Elements(chosen) = {chosen[i] : i \in 1 .. n}
      BY <1>2 DEF Elements
    <3>2. (\E i \in 1 .. n :
              waking'[w][i].thread = u /\ waking'[w][i].stage \in {"selected", "checked"})
          <=> \E i \in 1 .. n : chosen[i] = u
      BY <1>1, <1>2
    <3> QED
      BY <1>1, <3>1, <3>2
  <2>3. \A v \in Threads : v # w => waking'[v] = waking[v]
    BY <1>1
  <2> QED
    BY <2>1, <2>2, <2>3 DEF BeingWoken
<1>9. \A u \in Elements(chosen) : /\ u \in Threads /\ waitingOn[u] = q /\ state[u] = "Waiting"
                                  /\ ~BeingWoken(u) /\ u \in Elements(waiters[q])
  <2> SUFFICES ASSUME NEW u \in Elements(chosen)
               PROVE  /\ u \in Threads /\ waitingOn[u] = q /\ state[u] = "Waiting"
                      /\ ~BeingWoken(u) /\ u \in Elements(waiters[q])
    OBVIOUS
  <2>1. u \in Elements(waiters[q]) /\ state[u] = "Waiting" /\ u \in Threads
    BY <1>4, <1>5, <1>7
  <2>2. waitingOn[u] = q
    BY <1>3, <2>1 DEF Linked
  <2>3. ~BeingWoken(u)
    <3> SUFFICES ASSUME BeingWoken(u) PROVE FALSE
      OBVIOUS
    <3>1. PICK v \in Threads : \E j \in 1 .. Len(waking[v]) :
              waking[v][j].thread = u /\ waking[v][j].stage \in {"selected", "checked"}
      BY DEF BeingWoken
    <3>2. PICK j \in 1 .. Len(waking[v]) :
              waking[v][j].thread = u /\ waking[v][j].stage \in {"selected", "checked"}
      BY <3>1
    <3>3. j \in Nat
      BY <1>3, EntryFacts
    <3> QED
      BY <2>1, <3>2, <3>3 DEF WaitInv, PickedOK, Picked
  <2> QED
    BY <2>1, <2>2, <2>3
<1>10. InFlight(q) \cap Elements(chosen) = {}
  BY <1>9 DEF InFlight
<1>11. InFlight(q)' = InFlight(q) \cup Elements(chosen)
  <2>1. \A u \in Threads : u \in InFlight(q)' <=> u \in InFlight(q) \/ u \in Elements(chosen)
    BY <1>1, <1>8, <1>9 DEF InFlight
  <2>2. InFlight(q)' \subseteq Threads /\ InFlight(q) \subseteq Threads /\ Elements(chosen) \subseteq Threads
    BY <1>9 DEF InFlight
  <2> QED
    BY <2>1, <2>2
<1>12. ASSUME NEW r \in Queues, r # q PROVE Sleepers(r)' = Sleepers(r) /\ InFlight(r)' = InFlight(r)
  <2>1. Sleepers(r)' = Sleepers(r)
    BY <1>1, <1>12 DEF Sleepers
  <2>2. \A u \in Threads : u \in InFlight(r)' <=> u \in InFlight(r)
    BY <1>1, <1>8, <1>9, <1>12 DEF InFlight
  <2>3. InFlight(r)' \subseteq Threads /\ InFlight(r) \subseteq Threads
    BY DEF InFlight
  <2> QED
    BY <2>1, <2>2, <2>3
<1>13. ASSUME n = Len(Pruned(q)) PROVE Sleepers(q)' = {}
  <2>1. Len(waiters'[q]) = 0
    BY SMT, Z3T(40), <1>1, <1>4, <1>13
  <2>2. 1 .. Len(waiters'[q]) = {}
    BY SMT, Z3T(40), <2>1
  <2> QED
    BY <1>6, <2>2 DEF Elements
<1> QED
  BY <1>2, <1>7, <1>10, <1>11, <1>12, <1>13 DEF HandsOver

-----------------------------------------------------------------------------
(* What the steps of the wait queue mean to semaphores, events and futexes. *)

(* No permit appears from nowhere, none disappears while nobody is killed or *)
(* times out, and nobody sleeps while one is free.                          *)
SemInv ==
    /\ permits \in [Semaphores -> Nat] /\ issued \in [Semaphores -> Nat]
    /\ acquired \in [Semaphores -> Nat]
    /\ \A s \in Semaphores :
          /\ permits[s] + acquired[s] + OnTheirWay(s) <= issued[s]
          /\ Unharmed => permits[s] + acquired[s] + OnTheirWay(s) = issued[s]
          /\ permits[s] > 0 => Sleepers(s) = {}

(* A signal is in the flag, on its way, or consumed, and never twice. *)
Flag(e) == IF signaled[e] THEN 1 ELSE 0

EventInv ==
    /\ signaled \in [Events -> BOOLEAN]
    /\ sent \in [AutoReset -> Nat] /\ consumed \in [AutoReset -> Nat]
    /\ \A e \in AutoReset : consumed[e] + Cardinality(InFlight(e)) + Flag(e) <= sent[e]
    /\ \A e \in Events : signaled[e] => Sleepers(e) = {}

-----------------------------------------------------------------------------
(* Sizes. *)
LEMMA Sizes ==
    ASSUME NEW S \in SUBSET Threads
    PROVE  /\ IsFiniteSet(S) /\ Cardinality(S) \in Nat
           /\ \A T \in SUBSET S : Cardinality(T) <= Cardinality(S)
           /\ \A t \in S : Cardinality(S \ {t}) = Cardinality(S) - 1 /\ Cardinality(S) >= 1
<1>1. IsFiniteSet(S)
  BY ThreadsAssumption, FS_Subset
<1>2. Cardinality(S) \in Nat
  BY <1>1, FS_CardinalityType
<1>3. \A T \in SUBSET S : Cardinality(T) <= Cardinality(S)
  BY <1>1, FS_Subset
<1>4. ASSUME NEW t \in S PROVE Cardinality(S \ {t}) = Cardinality(S) - 1 /\ Cardinality(S) >= 1
  <2> DEFINE T == S \ {t}
  <2>1. IsFiniteSet(T) /\ Cardinality(T) = Cardinality(S) - 1
    BY <1>1, FS_RemoveElement
  <2>2. Cardinality(T) \in Nat
    BY <2>1, FS_CardinalityType
  <2> HIDE DEF T
  <2>3. Cardinality(S) >= 1
    BY SMT, Z3T(40), <1>2, <2>1, <2>2
  <2> QED
    BY <2>1, <2>3 DEF T
<1> QED
  BY <1>1, <1>2, <1>3, <1>4

(* A list without repetitions is as long as its set is large. *)
LEMMA ListSize ==
    ASSUME NEW s \in Seq(Threads), Distinct(s)
    PROVE  Cardinality(Elements(s)) = Len(s) /\ Elements(s) \subseteq Threads
<1> DEFINE n == Len(s)
           E == Elements(s)
<1>1. n \in Nat /\ DOMAIN s = 1 .. n /\ s = [i \in 1 .. n |-> s[i]]
  BY SMT, Z3T(40)
<1>2. E \subseteq Threads
  BY ElementsAreIn
<1>3. \A i \in 1 .. n : s[i] \in E
  BY DEF Elements
<1>4. \A x \in E : \E i \in 1 .. n : s[i] = x
  BY DEF Elements
<1>5. \A i, j \in 1 .. n : s[i] = s[j] => i = j
  BY DEF Distinct
<1> HIDE DEF n, E
<1>6. s \in [1 .. n -> E]
  BY <1>1, <1>3
<1>7. s \in Bijection(1 .. n, E)
  BY <1>4, <1>5, <1>6 DEF Bijection, Injection, Surjection, IsInjective
<1>8. ExistsBijection(1 .. n, E)
  BY <1>7 DEF ExistsBijection
<1>9. Cardinality(E) = n
  BY <1>1, <1>8, FS_CountingElements
<1> QED
  BY <1>2, <1>9 DEF n, E

LEMMA FlightIsOfThreads ==
    /\ \A q : InFlight(q) \in SUBSET Threads
    /\ \A q : InFlight(q)' \in SUBSET Threads
  BY DEF InFlight

(* Handing over to n sleepers puts n more threads on their way. *)
LEMMA HandOverSize ==
    ASSUME NEW q, NEW n, HandsOver(q, n)
    PROVE  /\ Cardinality(InFlight(q)') = Cardinality(InFlight(q)) + n
           /\ Sleepers(q)' \subseteq Sleepers(q)
<1>1. PICK chosen \in Seq(Threads) :
          /\ Len(chosen) = n /\ Distinct(chosen) /\ Elements(chosen) \subseteq Sleepers(q)
          /\ InFlight(q) \cap Elements(chosen) = {}
          /\ InFlight(q)' = InFlight(q) \cup Elements(chosen)
          /\ Sleepers(q)' = Sleepers(q) \ Elements(chosen)
  BY DEF HandsOver
<1> DEFINE F == InFlight(q)
           C == Elements(chosen)
<1>2. Cardinality(C) = n /\ C \subseteq Threads /\ F \subseteq Threads
  BY <1>1, ListSize, FlightIsOfThreads
<1>3. IsFiniteSet(C) /\ Cardinality(C) \in Nat
  BY <1>2, Sizes
<1>4. IsFiniteSet(F) /\ Cardinality(F) \in Nat
  BY <1>2, Sizes
<1>5. F \cap C = {} /\ InFlight(q)' = F \cup C
  BY <1>1
<1> HIDE DEF F, C
<1>6. Cardinality(F \cup C) = Cardinality(F) + Cardinality(C) - Cardinality(F \cap C)
  BY <1>3, <1>4, FS_Union
<1>7. Cardinality(F \cap C) = 0
  BY <1>5, FS_EmptySet
<1>8. Cardinality(F \cup C) = Cardinality(F) + n
  BY SMT, Z3T(40), <1>2, <1>3, <1>4, <1>6, <1>7
<1> QED
  BY <1>1, <1>5, <1>8 DEF F

-----------------------------------------------------------------------------
(* Semaphores. *)
LEMMA SemCalm ==
    ASSUME SemInv, Undisturbed, mode' = mode, issued' = issued,
           permits' \in [Semaphores -> Nat], acquired' \in [Semaphores -> Nat],
           \A s \in Semaphores : /\ permits'[s] + acquired'[s] = permits[s] + acquired[s]
                                 /\ permits'[s] <= permits[s]
    PROVE  SemInv'
<1> SUFFICES ASSUME NEW s \in Semaphores
             PROVE  /\ permits'[s] + acquired'[s] + Cardinality(InFlight(s)') <= issued[s]
                    /\ Unharmed => permits'[s] + acquired'[s] + Cardinality(InFlight(s)') = issued[s]
                    /\ permits'[s] > 0 => Sleepers(s)' = {}
  BY DEF SemInv, OnTheirWay, Unharmed, NoTimeouts
<1> DEFINE c == Cardinality(InFlight(s))
           d == Cardinality(InFlight(s)')
<1>1. /\ s \in Queues /\ Sleepers(s)' \subseteq Sleepers(s) /\ InFlight(s)' \subseteq InFlight(s)
      /\ Unharmed => InFlight(s)' = InFlight(s)
  BY SemaphoreAssumption DEF Undisturbed
<1>2. /\ permits[s] \in Nat /\ acquired[s] \in Nat /\ issued[s] \in Nat
      /\ permits'[s] \in Nat /\ acquired'[s] \in Nat
      /\ permits[s] + acquired[s] + c <= issued[s]
      /\ Unharmed => permits[s] + acquired[s] + c = issued[s]
      /\ permits[s] > 0 => Sleepers(s) = {}
  BY DEF SemInv, OnTheirWay
<1>3. InFlight(s) \in SUBSET Threads /\ InFlight(s)' \in SUBSET Threads
  BY FlightIsOfThreads
<1>4. c \in Nat /\ d \in Nat /\ d <= c /\ (Unharmed => d = c)
  BY <1>1, <1>3, Sizes
<1>5. permits'[s] + acquired'[s] = permits[s] + acquired[s] /\ permits'[s] <= permits[s]
  OBVIOUS
<1> HIDE DEF c, d
<1>6. /\ permits'[s] + acquired'[s] + d <= issued[s]
      /\ Unharmed => permits'[s] + acquired'[s] + d = issued[s]
      /\ permits'[s] > 0 => permits[s] > 0
  BY SMT, Z3T(40), <1>2, <1>4, <1>5
<1> QED
  BY <1>1, <1>2, <1>6 DEF d

LEMMA SemBlocks ==
    ASSUME SemInv, NEW q \in Queues, q \in Semaphores => permits[q] = 0,
           \A r \in Queues : /\ InFlight(r)' = InFlight(r)
                             /\ r # q => Sleepers(r)' \subseteq Sleepers(r),
           mode' = mode, UNCHANGED semVars
    PROVE  SemInv'
<1>1. UNCHANGED <<permits, issued, acquired>>
  BY DEF semVars
<1> SUFFICES ASSUME NEW s \in Semaphores
             PROVE  /\ Cardinality(InFlight(s)') = Cardinality(InFlight(s))
                    /\ permits[s] > 0 => Sleepers(s)' = {}
  BY <1>1 DEF SemInv, OnTheirWay, Unharmed, NoTimeouts
<1>2. s \in Queues
  BY SemaphoreAssumption
<1>3. permits[s] = 0 => ~(permits[s] > 0)
  BY SMT, Z3T(40)
<1> QED
  BY <1>2, <1>3 DEF SemInv

LEMMA SemDeparts ==
    ASSUME SemInv, NEW t \in Threads, Departs(t), mode' = mode, permits' = permits, issued' = issued,
           acquired' = IF /\ state[t] = "Active" /\ waitingOn[t] \in Semaphores
                          /\ outcome[t] = "Completed"
                       THEN [acquired EXCEPT ![waitingOn[t]] = acquired[waitingOn[t]] + 1]
                       ELSE acquired
    PROVE  SemInv'
<1> DEFINE goes(s) == state[t] = "Active" /\ outcome[t] = "Completed" /\ waitingOn[t] = s
<1>1. /\ permits \in [Semaphores -> Nat] /\ issued \in [Semaphores -> Nat]
      /\ acquired \in [Semaphores -> Nat]
  BY DEF SemInv
<1>2. \A s \in Semaphores : acquired[s] \in Nat /\ acquired[s] + 1 \in Nat
  <2>1. \A s \in Semaphores : acquired[s] \in Nat
    BY <1>1
  <2> QED
    BY SMT, Z3T(40), <2>1
<1>3. /\ acquired' \in [Semaphores -> Nat]
      /\ \A s \in Semaphores : acquired'[s] = IF goes(s) THEN acquired[s] + 1 ELSE acquired[s]
  <2>1. CASE state[t] = "Active" /\ waitingOn[t] \in Semaphores /\ outcome[t] = "Completed"
    BY <1>1, <1>2, <2>1
  <2>2. CASE ~(state[t] = "Active" /\ waitingOn[t] \in Semaphores /\ outcome[t] = "Completed")
    BY <1>1, <2>2
  <2> QED
    BY <2>1, <2>2
<1> SUFFICES ASSUME NEW s \in Semaphores
             PROVE  /\ permits[s] + acquired'[s] + Cardinality(InFlight(s)') <= issued[s]
                    /\ Unharmed => permits[s] + acquired'[s] + Cardinality(InFlight(s)') = issued[s]
                    /\ permits[s] > 0 => Sleepers(s)' = {}
  BY <1>1, <1>3 DEF SemInv, OnTheirWay, Unharmed, NoTimeouts
<1>4. /\ Sleepers(s)' \subseteq Sleepers(s)
      /\ IF goes(s) THEN t \in InFlight(s) /\ InFlight(s)' = InFlight(s) \ {t}
         ELSE InFlight(s)' = InFlight(s)
  BY SemaphoreAssumption DEF Departs
<1>5. InFlight(s) \in SUBSET Threads
  BY FlightIsOfThreads
<1> DEFINE c == Cardinality(InFlight(s))
           d == Cardinality(InFlight(s)')
<1>6. c \in Nat /\ (goes(s) => d = c - 1 /\ c >= 1) /\ (~goes(s) => d = c)
  BY <1>4, <1>5, Sizes
<1>7. /\ permits[s] \in Nat /\ acquired[s] \in Nat /\ issued[s] \in Nat
      /\ permits[s] + acquired[s] + c <= issued[s]
      /\ Unharmed => permits[s] + acquired[s] + c = issued[s]
      /\ permits[s] > 0 => Sleepers(s) = {}
  BY DEF SemInv, OnTheirWay
<1> HIDE DEF c, d
<1>8. acquired'[s] + d = acquired[s] + c /\ d \in Nat /\ acquired'[s] \in Nat
  <2>1. CASE goes(s)
    BY SMT, Z3T(40), <1>3, <1>6, <1>7, <2>1
  <2>2. CASE ~goes(s)
    BY SMT, Z3T(40), <1>3, <1>6, <1>7, <2>2
  <2> QED
    BY <2>1, <2>2
<1>9. /\ permits[s] + acquired'[s] + d <= issued[s]
      /\ Unharmed => permits[s] + acquired'[s] + d = issued[s]
  BY SMT, Z3T(40), <1>6, <1>7, <1>8
<1> QED
  BY <1>4, <1>7, <1>9 DEF d

LEMMA SemHandsOver ==
    ASSUME SemInv, NEW q \in Queues, NEW n \in Nat, NEW m \in Nat, n <= m,
           HandsOver(q, n), n < m => Sleepers(q)' = {},
           \A r \in Queues : r # q => Sleepers(r)' = Sleepers(r) /\ InFlight(r)' = InFlight(r),
           mode' = mode, acquired' = acquired,
           IF q \in Semaphores
           THEN /\ permits' = [permits EXCEPT ![q] = permits[q] + (m - n)]
                /\ issued' = [issued EXCEPT ![q] = issued[q] + m]
           ELSE UNCHANGED <<permits, issued>>
    PROVE  SemInv'
<1>1. /\ permits \in [Semaphores -> Nat] /\ issued \in [Semaphores -> Nat]
      /\ acquired \in [Semaphores -> Nat]
  BY DEF SemInv
<1>2. \A s \in Semaphores : /\ permits[s] \in Nat /\ permits[s] + (m - n) \in Nat
                            /\ issued[s] \in Nat /\ issued[s] + m \in Nat
  <2>1. \A s \in Semaphores : permits[s] \in Nat /\ issued[s] \in Nat
    BY <1>1
  <2> QED
    BY SMT, Z3T(40), <2>1
<1>3. /\ permits' \in [Semaphores -> Nat] /\ issued' \in [Semaphores -> Nat]
      /\ \A s \in Semaphores :
            /\ permits'[s] = IF s = q THEN permits[s] + (m - n) ELSE permits[s]
            /\ issued'[s] = IF s = q THEN issued[s] + m ELSE issued[s]
  <2>1. CASE q \in Semaphores
    BY <1>1, <1>2, <2>1
  <2>2. CASE q \notin Semaphores
    BY <1>1, <2>2
  <2> QED
    BY <2>1, <2>2
<1> SUFFICES ASSUME NEW s \in Semaphores
             PROVE  /\ permits'[s] + acquired[s] + Cardinality(InFlight(s)') <= issued'[s]
                    /\ Unharmed => permits'[s] + acquired[s] + Cardinality(InFlight(s)') = issued'[s]
                    /\ permits'[s] > 0 => Sleepers(s)' = {}
  BY <1>1, <1>3 DEF SemInv, OnTheirWay, Unharmed, NoTimeouts
<1> DEFINE c == Cardinality(InFlight(s))
           d == Cardinality(InFlight(s)')
<1>4. /\ permits[s] \in Nat /\ acquired[s] \in Nat /\ issued[s] \in Nat
      /\ permits[s] + acquired[s] + c <= issued[s]
      /\ Unharmed => permits[s] + acquired[s] + c = issued[s]
      /\ permits[s] > 0 => Sleepers(s) = {}
  BY DEF SemInv, OnTheirWay
<1>5. c \in Nat
  BY FlightIsOfThreads, Sizes
<1>6. CASE s = q
  <2>1. d = c + n /\ Sleepers(s)' \subseteq Sleepers(s)
    BY <1>6, HandOverSize
  <2>2. permits'[s] = permits[s] + (m - n) /\ issued'[s] = issued[s] + m
    BY <1>3, <1>6
  <2> HIDE DEF c, d
  <2>3. /\ permits'[s] + acquired[s] + d <= issued'[s]
        /\ Unharmed => permits'[s] + acquired[s] + d = issued'[s]
        /\ permits'[s] > 0 => permits[s] > 0 \/ n < m
    BY SMT, Z3T(40), <1>4, <1>5, <2>1, <2>2
  <2> QED
    BY <1>4, <1>6, <2>1, <2>3 DEF d
<1>7. CASE s # q
  <2>1. Sleepers(s)' = Sleepers(s) /\ d = c /\ permits'[s] = permits[s] /\ issued'[s] = issued[s]
    BY <1>3, <1>7, SemaphoreAssumption
  <2> QED
    BY <1>4, <2>1
<1> QED
  BY <1>6, <1>7

-----------------------------------------------------------------------------
(* Events. *)
LEMMA EventsAreQueues == Events \subseteq Queues /\ AutoReset \subseteq Events
  BY EventAssumption DEF Events

LEMMA EventCalm ==
    ASSUME EventInv, Undisturbed, sent' = sent,
           signaled' \in [Events -> BOOLEAN], consumed' \in [AutoReset -> Nat],
           \A e \in Events : signaled'[e] => signaled[e],
           \A e \in AutoReset : \/ consumed'[e] = consumed[e]
                                \/ /\ consumed'[e] = consumed[e] + 1
                                   /\ signaled[e] /\ ~signaled'[e]
    PROVE  EventInv'
<1>1. ASSUME NEW e \in AutoReset
      PROVE  consumed'[e] + Cardinality(InFlight(e)') + Flag(e)' <= sent[e]
  <2> DEFINE c == Cardinality(InFlight(e))
             d == Cardinality(InFlight(e)')
             f == Flag(e)
             g == Flag(e)'
  <2>1. e \in Queues /\ e \in Events /\ InFlight(e)' \subseteq InFlight(e)
    BY EventsAreQueues DEF Undisturbed
  <2>2. /\ consumed[e] \in Nat /\ sent[e] \in Nat /\ consumed'[e] \in Nat
        /\ consumed[e] + c + f <= sent[e]
    BY DEF EventInv
  <2>3. InFlight(e) \in SUBSET Threads /\ InFlight(e)' \in SUBSET Threads
    BY FlightIsOfThreads
  <2>4. c \in Nat /\ d \in Nat /\ d <= c
    BY <2>1, <2>3, Sizes
  <2>5. /\ f = (IF signaled[e] THEN 1 ELSE 0) /\ g = (IF signaled'[e] THEN 1 ELSE 0)
        /\ signaled'[e] => signaled[e]
        /\ \/ consumed'[e] = consumed[e]
           \/ consumed'[e] = consumed[e] + 1 /\ signaled[e] /\ ~signaled'[e]
    BY <2>1 DEF Flag
  <2> HIDE DEF c, d, f, g
  <2>6. consumed'[e] + d + g <= sent[e]
    BY SMT, Z3T(40), <2>2, <2>4, <2>5
  <2> QED
    BY <2>6 DEF d, g
<1>2. \A e \in Events : signaled'[e] => Sleepers(e)' = {}
  BY EventsAreQueues DEF EventInv, Undisturbed
<1> QED
  BY <1>1, <1>2 DEF EventInv

LEMMA EventBlocks ==
    ASSUME EventInv, NEW q \in Queues, q \in Events => ~signaled[q],
           \A r \in Queues : /\ InFlight(r)' = InFlight(r)
                             /\ r # q => Sleepers(r)' \subseteq Sleepers(r),
           UNCHANGED <<signaled, sent, consumed>>
    PROVE  EventInv'
<1>1. ASSUME NEW e \in AutoReset
      PROVE  Cardinality(InFlight(e)') = Cardinality(InFlight(e)) /\ Flag(e)' = Flag(e)
  BY EventsAreQueues DEF Flag
<1>2. \A e \in Events : signaled[e] => Sleepers(e)' = {}
  BY EventsAreQueues DEF EventInv
<1>3. \A e \in AutoReset : consumed[e] + Cardinality(InFlight(e)') + Flag(e)' <= sent[e]
  BY <1>1 DEF EventInv
<1> QED
  BY <1>2, <1>3 DEF EventInv

LEMMA EventDeparts ==
    ASSUME EventInv, NEW t \in Threads, Departs(t), UNCHANGED <<signaled, sent>>,
           consumed' \in [AutoReset -> Nat],
           \A e \in AutoReset :
               \/ consumed'[e] = consumed[e]
               \/ /\ consumed'[e] = consumed[e] + 1
                  /\ state[t] = "Active" /\ outcome[t] = "Completed" /\ waitingOn[t] = e
    PROVE  EventInv'
<1>1. ASSUME NEW e \in AutoReset
      PROVE  consumed'[e] + Cardinality(InFlight(e)') + Flag(e)' <= sent[e]
  <2> DEFINE goes == state[t] = "Active" /\ outcome[t] = "Completed" /\ waitingOn[t] = e
             c == Cardinality(InFlight(e))
             d == Cardinality(InFlight(e)')
             f == Flag(e)
  <2>1. e \in Queues
    BY EventsAreQueues
  <2>2. /\ consumed[e] \in Nat /\ sent[e] \in Nat /\ consumed'[e] \in Nat
        /\ consumed[e] + c + f <= sent[e]
    BY DEF EventInv
  <2>3. IF goes THEN t \in InFlight(e) /\ InFlight(e)' = InFlight(e) \ {t}
        ELSE InFlight(e)' = InFlight(e)
    BY <2>1 DEF Departs
  <2>4. InFlight(e) \in SUBSET Threads
    BY FlightIsOfThreads
  <2>5. c \in Nat /\ (goes => d = c - 1 /\ c >= 1) /\ (~goes => d = c)
    BY <2>3, <2>4, Sizes
  <2>6. f \in {0, 1} /\ Flag(e)' = f
    BY DEF Flag
  <2>7. consumed'[e] = consumed[e] \/ (consumed'[e] = consumed[e] + 1 /\ goes)
    OBVIOUS
  <2> HIDE DEF c, d, f, goes
  <2>8. consumed'[e] + d + f <= sent[e]
    BY SMT, Z3T(40), <2>2, <2>5, <2>6, <2>7
  <2> QED
    BY <2>6, <2>8 DEF d
<1>2. \A e \in Events : signaled[e] => Sleepers(e)' = {}
  BY EventsAreQueues DEF EventInv, Departs
<1> QED
  BY <1>1, <1>2 DEF EventInv

LEMMA EventHandsOver ==
    ASSUME EventInv, NEW q \in Queues, NEW n \in Nat, NEW set \in BOOLEAN, HandsOver(q, n),
           \A r \in Queues : r # q => Sleepers(r)' = Sleepers(r) /\ InFlight(r)' = InFlight(r),
           consumed' = consumed,
           IF q \in Events
           THEN signaled' = [signaled EXCEPT ![q] = set] /\ (set => Sleepers(q)' = {})
           ELSE signaled' = signaled,
           IF q \in AutoReset
           THEN /\ sent' = [sent EXCEPT ![q] = sent[q] + 1]
                /\ n = 0 \/ (n = 1 /\ ~set)
           ELSE sent' = sent
    PROVE  EventInv'
<1>1. /\ signaled \in [Events -> BOOLEAN] /\ sent \in [AutoReset -> Nat]
      /\ consumed \in [AutoReset -> Nat]
  BY DEF EventInv
<1>2. /\ signaled' \in [Events -> BOOLEAN]
      /\ \A e \in Events : signaled'[e] = IF e = q THEN set ELSE signaled[e]
  BY <1>1
<1>3. /\ sent' \in [AutoReset -> Nat]
      /\ \A e \in AutoReset : sent'[e] = IF e = q THEN sent[e] + 1 ELSE sent[e]
  <2>1. \A e \in AutoReset : sent[e] + 1 \in Nat
    <3>1. \A e \in AutoReset : sent[e] \in Nat
      BY <1>1
    <3> QED
      BY SMT, Z3T(40), <3>1
  <2> QED
    BY <1>1, <2>1
<1>4. ASSUME NEW e \in AutoReset
      PROVE  consumed[e] + Cardinality(InFlight(e)') + Flag(e)' <= sent'[e]
  <2> DEFINE c == Cardinality(InFlight(e))
             d == Cardinality(InFlight(e)')
             f == Flag(e)
             g == Flag(e)'
  <2>1. e \in Queues /\ e \in Events
    BY EventsAreQueues
  <2>2. /\ consumed[e] \in Nat /\ sent[e] \in Nat
        /\ consumed[e] + c + f <= sent[e]
    BY DEF EventInv
  <2>3. c \in Nat /\ f \in {0, 1}
    BY FlightIsOfThreads, Sizes DEF Flag
  <2>4. CASE e = q
    <3>1. d = c + n
      BY <2>4, HandOverSize
    <3>2. g = (IF set THEN 1 ELSE 0) /\ sent'[e] = sent[e] + 1 /\ (n = 0 \/ (n = 1 /\ ~set))
      BY <1>2, <1>3, <2>1, <2>4 DEF Flag
    <3> HIDE DEF c, d, f, g
    <3>3. consumed[e] + d + g <= sent'[e]
      BY SMT, Z3T(40), <2>2, <2>3, <3>1, <3>2
    <3> QED
      BY <3>3 DEF d, g
  <2>5. CASE e # q
    <3>1. d = c /\ g = f /\ sent'[e] = sent[e]
      BY <1>2, <1>3, <2>1, <2>5 DEF Flag
    <3> QED
      BY <2>2, <3>1
  <2> QED
    BY <2>4, <2>5
<1>5. ASSUME NEW e \in Events, signaled'[e] PROVE Sleepers(e)' = {}
  <2>1. e \in Queues
    BY EventsAreQueues
  <2>2. CASE e = q
    BY <1>2, <1>5, <2>2
  <2>3. CASE e # q
    <3>1. signaled[e] /\ Sleepers(e)' = Sleepers(e)
      BY <1>2, <1>5, <2>1, <2>3
    <3> QED
      BY <3>1 DEF EventInv
  <2> QED
    BY <2>2, <2>3
<1> QED
  BY <1>1, <1>2, <1>3, <1>4, <1>5 DEF EventInv

-----------------------------------------------------------------------------
(* Futexes: the calls in progress and the registry. *)
FutexTypeOK ==
    /\ at \in [Threads -> {"user", "read", "got", "blocked", "left", "prune", "wake"}]
    /\ on \in [Threads -> Words \cup {None}]
    /\ holds \in [Threads -> Futexes \cup {None}]
    /\ entry \in [Words -> Futexes \cup {None}]

(* Two keys never share a queue. *)
OneKey == \A u, v \in Words : entry[u] = entry[v] /\ entry[u] # None => u = v

(* The queue that t's call holds is the one the registry has for its key. *)
InCall(t) ==
    /\ on[t] = None <=> at[t] = "user"
    /\ holds[t] = None <=> at[t] \in {"user", "read"}
    /\ holds[t] # None => entry[on[t]] = holds[t]
    /\ waitingOn[t] \in Futexes => at[t] = "blocked"
    /\ at[t] = "blocked" => waitingOn[t] = holds[t]
    /\ at[t] \notin {"user", "blocked"} => waitingOn[t] = None

FutexInv == FutexTypeOK /\ OneKey /\ \A t \in Threads : InCall(t)

LEMMA FutexNames == None \notin Words /\ None \notin Futexes /\ Futexes \subseteq Queues
  BY FutexAssumption, ThreadsAssumption DEF None

LEMMA FutexFrame ==
    ASSUME FutexInv, UNCHANGED <<waitingOn, at, entry, holds, on>>
    PROVE  FutexInv'
  BY DEF FutexInv, FutexTypeOK, OneKey, InCall

(* A step that concerns one call. *)
LEMMA OneCall ==
    ASSUME FutexInv, NEW t \in Threads, FutexTypeOK', OneKey', InCall(t)',
           \A u \in Threads : u # t =>
               /\ at'[u] = at[u] /\ on'[u] = on[u] /\ holds'[u] = holds[u]
               /\ waitingOn'[u] = waitingOn[u]
               /\ holds[u] # None => entry'[on[u]] = entry[on[u]]
    PROVE  FutexInv'
<1>1. ASSUME NEW u \in Threads, u # t PROVE InCall(u)'
  <2>1. InCall(u)
    BY DEF FutexInv
  <2>2. at'[u] = at[u] /\ on'[u] = on[u] /\ holds'[u] = holds[u] /\ waitingOn'[u] = waitingOn[u]
    BY <1>1
  <2>3. holds'[u] # None => entry'[on'[u]] = holds'[u]
    BY <1>1, <2>1, <2>2 DEF InCall
  <2> QED
    BY <2>1, <2>2, <2>3 DEF InCall
<1> QED
  BY <1>1 DEF FutexInv

(* What is known of a call with a queue. *)
LEMMA CallFacts ==
    ASSUME FutexInv, NEW t \in Threads, at[t] \notin {"user", "read"}
    PROVE  /\ holds[t] \in Futexes /\ holds[t] \in Queues /\ holds[t] # None
           /\ on[t] \in Words /\ entry[on[t]] = holds[t]
<1>1. InCall(t) /\ FutexTypeOK
  BY DEF FutexInv
<1> QED
  BY <1>1, FutexNames DEF InCall, FutexTypeOK

(* A thread blocks on a semaphore or an event, or comes back from it. *)
LEMMA ElsewhereKeeps ==
    ASSUME FutexInv, NEW t \in Threads, NEW q \in (Queues \ Futexes) \cup {None}, waitingOn \in [Threads -> Queues \cup {None}],
           waitingOn' = [waitingOn EXCEPT ![t] = q],
           at[t] = "user" \/ (waitingOn[t] # None /\ waitingOn[t] \notin Futexes),
           UNCHANGED <<at, entry, holds, on>>
    PROVE  FutexInv'
<1>1. FutexTypeOK' /\ OneKey'
  BY DEF FutexInv, FutexTypeOK, OneKey
<1>2. waitingOn'[t] = q /\ \A u \in Threads : u # t => waitingOn'[u] = waitingOn[u]
  OBVIOUS
<1>3. at[t] = "user"
  <2>1. InCall(t)
    BY DEF FutexInv
  <2> QED
    BY <2>1, CallFacts DEF InCall
<1>4. InCall(t) /\ q \notin Futexes
  BY FutexNames DEF FutexInv
<1>5. InCall(t)'
  BY <1>2, <1>3, <1>4 DEF InCall
<1> QED
  BY <1>1, <1>2, <1>5, OneCall

LEMMA FutexWaitKeeps ==
    ASSUME WaitInv, FutexInv, NEW t \in Threads, NEW u \in Words, FutexWait(t, u)
    PROVE  FutexInv'
<1>1. /\ at[t] = "user" /\ waitingOn[t] = None
      /\ at' = [at EXCEPT ![t] = "read"] /\ on' = [on EXCEPT ![t] = u]
      /\ UNCHANGED <<waitingOn, entry, holds>>
  BY DEF FutexWait, Running, waitVars
<1>2. FutexTypeOK /\ OneKey /\ InCall(t)
  BY DEF FutexInv
<1>3. FutexTypeOK' /\ OneKey'
  BY <1>1, <1>2 DEF FutexTypeOK, OneKey
<1>4. /\ at'[t] = "read" /\ on'[t] = u
      /\ \A x \in Threads : x # t => at'[x] = at[x] /\ on'[x] = on[x]
  BY <1>1, <1>2 DEF FutexTypeOK
<1>5. u # None /\ None \notin Futexes
  BY FutexNames
<1>6. InCall(t)'
  BY <1>1, <1>2, <1>4, <1>5 DEF InCall
<1> QED
  BY <1>1, <1>3, <1>4, <1>6, OneCall

(* There is a queue to allocate, and nobody waits on it. *)
LEMMA UnusedExists ==
    ASSUME FutexInv, NEW u \in Words, ~Alive(u)
    PROVE  /\ Unused(u) \in Futexes /\ Holders(Unused(u)) = {}
           /\ \A v \in Words \ {u} : entry[v] # Unused(u)
<1>1. entry \in [Words -> Futexes \cup {None}]
  BY DEF FutexInv, FutexTypeOK
<1>2. PICK q \in Futexes : \A v \in Words \ {u} : entry[v] # q
  BY <1>1, FutexAssumption
<1>3. Holders(q) = {}
  <2> SUFFICES ASSUME NEW t \in Threads, holds[t] = q PROVE FALSE
    BY DEF Holders
  <2>1. InCall(t) /\ FutexTypeOK /\ q # None
    BY FutexNames DEF FutexInv
  <2>2. at[t] \notin {"user", "read"}
    BY <2>1 DEF InCall
  <2>3. on[t] \in Words /\ entry[on[t]] = q
    BY <2>2, CallFacts
  <2>4. on[t] = u
    BY <1>2, <2>3
  <2> QED
    BY <2>1, <2>3, <2>4 DEF Alive, Holders
<1>4. \E r \in Futexes : Holders(r) = {} /\ \A v \in Words \ {u} : entry[v] # r
  BY <1>2, <1>3
<1> QED
  BY <1>4 DEF Unused

LEMMA GetOrCreateKeeps ==
    ASSUME WaitInv, FutexInv, NEW t \in Threads, GetOrCreateQueue(t)
    PROVE  WaitInv' /\ FutexInv' /\ Undisturbed
<1>1. /\ at[t] = "read" /\ at' = [at EXCEPT ![t] = "got"]
      /\ UNCHANGED <<state, deadline, outcome, waitingOn, registered, waking, expiring, mode, on>>
  BY DEF GetOrCreateQueue, FutexAt
<1>2. FutexTypeOK /\ OneKey /\ InCall(t)
  BY DEF FutexInv
<1>3. WaitTypeOK /\ Linked
  BY DEF WaitInv
<1>4. /\ on[t] \in Words /\ waitingOn[t] = None
  BY <1>1, <1>2, FutexNames DEF InCall, FutexTypeOK
<1>5. at'[t] = "got" /\ \A u \in Threads : u # t => at'[u] = at[u]
  BY <1>1, <1>2 DEF FutexTypeOK
<1>6. at' \in [Threads -> {"user", "read", "got", "blocked", "left", "prune", "wake"}]
  BY <1>1, <1>2 DEF FutexTypeOK
<1>7. CASE Alive(on[t])
  <2>1. holds' = [holds EXCEPT ![t] = entry[on[t]]] /\ UNCHANGED <<entry, waiters>>
    BY <1>7 DEF GetOrCreateQueue
  <2>2. entry[on[t]] \in Futexes
    BY <1>2, <1>4, <1>7 DEF Alive, FutexTypeOK
  <2>3. holds'[t] = entry[on[t]] /\ \A u \in Threads : u # t => holds'[u] = holds[u]
    BY <1>2, <2>1 DEF FutexTypeOK
  <2>4. FutexTypeOK' /\ OneKey'
    BY <1>1, <1>2, <1>6, <2>1, <2>2 DEF FutexTypeOK, OneKey
  <2>5. InCall(t)'
    BY <1>1, <1>2, <1>4, <1>5, <2>1, <2>2, <2>3, FutexNames DEF InCall
  <2>6. FutexInv'
    BY <1>1, <1>5, <2>1, <2>3, <2>4, <2>5, OneCall
  <2>7. Undisturbed
    BY <1>1, <2>1, UnlinkEffect
  <2>8. WaitInv'
    <3>1. /\ waiters' \in [Queues -> Seq(Threads)]
          /\ outcome' \in [Threads -> {"Completed", "Pending", "TimedOut"}]
          /\ \A q \in Queues : Distinct(waiters'[q])
      BY <1>1, <1>3, <2>1 DEF WaitTypeOK, Linked
    <3> QED
      BY <1>1, <2>1, <3>1, UnlinkKeeps
  <2> QED
    BY <2>6, <2>7, <2>8
<1>8. CASE ~Alive(on[t])
  <2> DEFINE q == Unused(on[t])
  <2>1. /\ holds' = [holds EXCEPT ![t] = q]
        /\ entry' = [entry EXCEPT ![on[t]] = q]
        /\ waiters' = [waiters EXCEPT ![q] = <<>>]
    BY <1>8 DEF GetOrCreateQueue
  <2>2. q \in Futexes /\ Holders(q) = {} /\ \A v \in Words \ {on[t]} : entry[v] # q
    BY <1>4, <1>8, UnusedExists
  <2> HIDE DEF q
  <2>3. q \in Queues /\ q # None
    BY <2>2, FutexNames
  <2>4. holds'[t] = q /\ \A u \in Threads : u # t => holds'[u] = holds[u]
    BY <1>2, <2>1 DEF FutexTypeOK
  <2>5. entry'[on[t]] = q /\ \A v \in Words : v # on[t] => entry'[v] = entry[v]
    BY <1>2, <1>4, <2>1 DEF FutexTypeOK
  <2>6. FutexTypeOK'
    BY <1>1, <1>2, <1>6, <2>1, <2>2 DEF FutexTypeOK
  <2>7. OneKey'
    BY <1>2, <2>2, <2>5 DEF OneKey
  <2>8. InCall(t)'
    BY <1>1, <1>2, <1>4, <1>5, <2>3, <2>4, <2>5, FutexNames DEF InCall
  <2>9. ASSUME NEW u \in Threads, u # t, holds[u] # None PROVE entry'[on[u]] = entry[on[u]]
    <3>1. InCall(u)
      BY DEF FutexInv
    <3>2. at[u] \notin {"user", "read"}
      BY <2>9, <3>1 DEF InCall
    <3>3. on[u] \in Words /\ entry[on[u]] = holds[u]
      BY <3>2, CallFacts
    <3>4. on[u] # on[t]
      BY <1>8, <2>9, <3>3 DEF Alive, Holders
    <3> QED
      BY <2>5, <3>3, <3>4
  <2>10. FutexInv'
    BY <1>1, <1>5, <2>4, <2>6, <2>7, <2>8, <2>9, OneCall
  <2>11. Elements(<<>>) = {} /\ Distinct(<<>>) /\ <<>> \in Seq(Threads)
    <3>1. 1 .. Len(<<>>) = {} /\ <<>> \in Seq(Threads)
      BY SMT, Z3T(40)
    <3> QED
      BY <3>1 DEF Elements, Distinct
  <2>12. \A r \in Queues : waiters'[r] = IF r = q THEN <<>> ELSE waiters[r]
    BY <1>3, <2>1 DEF WaitTypeOK
  <2>13. \A r \in Queues : Elements(waiters'[r]) \subseteq Elements(waiters[r])
    BY <2>11, <2>12
  <2>14. Undisturbed
    BY <1>1, <2>13, UnlinkEffect
  <2>15. \A u \in Elements(waiters[q]) : FALSE
    <3> SUFFICES ASSUME NEW u \in Elements(waiters[q]) PROVE FALSE
      OBVIOUS
    <3>1. waitingOn[u] = q /\ u \in Threads
      BY <1>3, <2>3, QueueFacts DEF Linked
    <3>2. InCall(u)
      BY <3>1 DEF FutexInv
    <3>3. holds[u] = q
      BY <2>2, <3>1, <3>2 DEF InCall
    <3> QED
      BY <2>2, <3>1, <3>3 DEF Holders
  <2>16. WaitInv'
    <3>1. /\ waiters' \in [Queues -> Seq(Threads)]
          /\ outcome' \in [Threads -> {"Completed", "Pending", "TimedOut"}]
      BY <1>1, <1>3, <2>1, <2>11 DEF WaitTypeOK
    <3>2. \A r \in Queues : /\ Distinct(waiters'[r])
                            /\ \A u \in Elements(waiters'[r]) : u \in Elements(waiters[r])
      BY <1>3, <2>11, <2>12, <2>13 DEF Linked
    <3>3. \A r \in Queues : \A u \in Elements(waiters[r]) :
              state[u] = "Waiting" => u \in Elements(waiters'[r])
      BY <2>12, <2>15
    <3> QED
      BY <1>1, <3>1, <3>2, <3>3, UnlinkKeeps
  <2> QED
    BY <2>10, <2>14, <2>16
<1> QED
  BY <1>7, <1>8

(* A call that held a queue returns; its key may leave the registry if no   *)
(* other call holds the queue.                                             *)
LEMMA ReturnKeeps ==
    ASSUME FutexInv, NEW t \in Threads, at[t] \notin {"user", "read", "blocked"},
           FutexReturns(t), waitingOn' = waitingOn,
           \/ entry' = entry
           \/ /\ entry' = [entry EXCEPT ![on[t]] = None]
              /\ \A u \in Threads : holds[u] = holds[t] => u = t
    PROVE  FutexInv'
<1>1. /\ at' = [at EXCEPT ![t] = "user"] /\ holds' = [holds EXCEPT ![t] = None]
      /\ on' = [on EXCEPT ![t] = None]
  BY DEF FutexReturns
<1>2. FutexTypeOK /\ OneKey /\ InCall(t)
  BY DEF FutexInv
<1>3. on[t] \in Words /\ entry[on[t]] = holds[t] /\ waitingOn[t] = None
  BY <1>2, CallFacts DEF InCall
<1>4. /\ at'[t] = "user" /\ holds'[t] = None /\ on'[t] = None
      /\ \A u \in Threads : u # t => at'[u] = at[u] /\ holds'[u] = holds[u] /\ on'[u] = on[u]
  BY <1>1, <1>2 DEF FutexTypeOK
<1>5. at' \in [Threads -> {"user", "read", "got", "blocked", "left", "prune", "wake"}]
  BY <1>1, <1>2 DEF FutexTypeOK
<1>6. /\ entry' \in [Words -> Futexes \cup {None}]
      /\ \A v \in Words : entry'[v] = entry[v] \/ entry'[v] = None
  BY <1>2, <1>3 DEF FutexTypeOK
<1>7. FutexTypeOK'
  BY <1>1, <1>2, <1>5, <1>6 DEF FutexTypeOK
<1>8. OneKey'
  BY <1>2, <1>6 DEF OneKey
<1>9. InCall(t)'
  BY <1>3, <1>4, FutexNames DEF InCall
<1>10. ASSUME NEW u \in Threads, u # t, holds[u] # None PROVE entry'[on[u]] = entry[on[u]]
  <2>1. InCall(u)
    BY DEF FutexInv
  <2>2. at[u] \notin {"user", "read"}
    BY <1>10, <2>1 DEF InCall
  <2>3. on[u] \in Words /\ entry[on[u]] = holds[u]
    BY <2>2, CallFacts
  <2>4. CASE entry' = entry
    BY <2>4
  <2>5. CASE /\ entry' = [entry EXCEPT ![on[t]] = None]
             /\ \A x \in Threads : holds[x] = holds[t] => x = t
    <3>1. on[u] # on[t]
      BY <1>3, <1>10, <2>3, <2>5
    <3> QED
      BY <1>2, <2>3, <2>5, <3>1 DEF FutexTypeOK
  <2> QED
    BY <2>4, <2>5
<1> QED
  BY <1>4, <1>7, <1>8, <1>9, <1>10, OneCall

(* Only the point a call is at changes, and what its thread waits on. *)
LEMMA MoveKeeps ==
    ASSUME FutexInv, NEW t \in Threads, at[t] \notin {"user", "read"},
           NEW p \in {"got", "blocked", "left", "prune", "wake"},
           at' = [at EXCEPT ![t] = p], UNCHANGED <<on, holds, entry>>,
           waitingOn'[t] = IF p = "blocked" THEN holds[t] ELSE None,
           \A u \in Threads : u # t => waitingOn'[u] = waitingOn[u]
    PROVE  FutexInv'
<1>1. FutexTypeOK /\ OneKey /\ InCall(t)
  BY DEF FutexInv
<1>2. at'[t] = p /\ \A u \in Threads : u # t => at'[u] = at[u]
  BY <1>1 DEF FutexTypeOK
<1>3. FutexTypeOK' /\ OneKey'
  BY <1>1 DEF FutexTypeOK, OneKey
<1>4. on[t] \in Words /\ holds[t] # None /\ on[t] # None
  BY CallFacts, FutexNames
<1>5. p \notin {"user", "read"}
  OBVIOUS
<1>6. InCall(t)'
  BY <1>1, <1>2, <1>4, <1>5, FutexNames DEF InCall
<1> QED
  BY <1>2, <1>3, <1>6, OneCall

LEMMA FutexBlocksKeeps ==
    ASSUME WaitInv, FutexInv, NEW t \in Threads, NEW timed \in mode.timed, FutexBlocks(t, timed)
    PROVE  /\ WaitInv' /\ FutexInv' /\ holds[t] \in Futexes
           /\ MayRun(t) /\ waking[t] = <<>> /\ waitingOn[t] = None /\ Block(t, holds[t], timed)
<1>1. /\ MayRun(t) /\ waking[t] = <<>> /\ at[t] = "got" /\ Block(t, holds[t], timed)
      /\ at' = [at EXCEPT ![t] = "blocked"] /\ UNCHANGED <<on, holds, entry>>
  BY DEF FutexBlocks, FutexAt
<1>2. InCall(t) /\ WaitTypeOK
  BY DEF FutexInv, WaitInv
<1>3. holds[t] \in Futexes /\ holds[t] \in Queues /\ waitingOn[t] = None
  BY <1>1, <1>2, CallFacts DEF InCall
<1>4. WaitInv'
  BY <1>1, <1>3, BlockKeeps
<1>5. waitingOn'[t] = holds[t] /\ \A u \in Threads : u # t => waitingOn'[u] = waitingOn[u]
  BY <1>1, <1>2 DEF Block, WaitTypeOK
<1>6. FutexInv'
  BY <1>1, <1>5, MoveKeeps
<1> QED
  BY <1>1, <1>3, <1>4, <1>6

LEMMA FutexUnblockedKeeps ==
    ASSUME WaitInv, FutexInv, NEW t \in Threads, FutexUnblocked(t)
    PROVE  WaitInv' /\ FutexInv' /\ Departs(t) /\ waitingOn[t] \in Futexes
<1>1. /\ LeaveWait(t) /\ at[t] = "blocked"
      /\ at' = [at EXCEPT ![t] = "left"] /\ UNCHANGED <<on, holds, entry>>
  BY DEF FutexUnblocked
<1>2. InCall(t) /\ WaitTypeOK
  BY DEF FutexInv, WaitInv
<1>3. waitingOn'[t] = None /\ \A u \in Threads : u # t => waitingOn'[u] = waitingOn[u]
  BY <1>1, <1>2 DEF LeaveWait, WaitTypeOK
<1>4. FutexInv'
  BY <1>1, <1>3, MoveKeeps
<1>5. waitingOn[t] \in Futexes
  BY <1>1, <1>2, CallFacts DEF InCall
<1> QED
  BY <1>1, <1>4, <1>5, LeaveWaitKeeps, LeaveWaitEffect

LEMMA WaiterCountKeeps ==
    ASSUME WaitInv, FutexInv, NEW t \in Threads, WaiterCount(t)
    PROVE  WaitInv' /\ FutexInv' /\ Undisturbed
<1>1. /\ at[t] = "left"
      /\ waiters' = [waiters EXCEPT ![holds[t]] = Pruned(holds[t])]
      /\ UNCHANGED <<state, deadline, outcome, waitingOn, registered, waking, expiring, mode, entry>>
  BY DEF WaiterCount, FutexAt
<1>2. InCall(t) /\ WaitTypeOK
  BY DEF FutexInv, WaitInv
<1>3. holds[t] \in Queues /\ waitingOn[t] = None
  BY <1>1, <1>2, CallFacts DEF InCall
<1>4. outcome' \in [Threads -> {"Completed", "Pending", "TimedOut"}]
  BY <1>1, <1>2 DEF WaitTypeOK
<1>5. WaitInv' /\ Undisturbed
  BY <1>1, <1>3, <1>4, PruneKeeps, PruneEffect
<1>6. CASE at' = [at EXCEPT ![t] = "prune"] /\ UNCHANGED <<holds, on>>
  BY <1>1, <1>3, <1>5, <1>6, MoveKeeps
<1>7. CASE FutexReturns(t)
  BY <1>1, <1>5, <1>7, ReturnKeeps
<1>8. \/ at' = [at EXCEPT ![t] = "prune"] /\ UNCHANGED <<holds, on>>
      \/ FutexReturns(t)
  BY DEF WaiterCount
<1> QED
  BY <1>5, <1>6, <1>7, <1>8

LEMMA MaybePruneKeeps ==
    ASSUME FutexInv, NEW t \in Threads, MaybePruneQueue(t)
    PROVE  FutexInv'
<1>1. at[t] = "prune" /\ FutexReturns(t) /\ waitingOn' = waitingOn
  BY DEF MaybePruneQueue, FutexAt, waitVars
<1>2. on[t] \in Words /\ entry[on[t]] = holds[t]
  BY <1>1, CallFacts
<1>3. CASE entry' = entry
  BY <1>1, <1>3, ReturnKeeps
<1>4. CASE /\ entry' = [entry EXCEPT ![on[t]] = None]
           /\ Cardinality(Holders(entry[on[t]])) = 1
  <2> DEFINE H == Holders(holds[t])
  <2>1. H \in SUBSET Threads /\ t \in H
    BY DEF Holders
  <2>2. IsFiniteSet(H) /\ Cardinality(H) = 1
    BY <1>2, <1>4, <2>1, Sizes
  <2>3. PICK x : H = {x}
    <3> HIDE DEF H
    <3> QED
      BY <2>2, FS_Singleton
  <2>4. \A u \in Threads : holds[u] = holds[t] => u \in H
    BY DEF Holders
  <2>5. \A u \in H : u = t
    BY <2>1, <2>3
  <2>6. \A u \in Threads : holds[u] = holds[t] => u = t
    BY <2>4, <2>5
  <2> QED
    BY <1>1, <1>4, <2>6, ReturnKeeps
<1>5. \/ entry' = entry
      \/ /\ entry' = [entry EXCEPT ![on[t]] = None]
         /\ Cardinality(Holders(entry[on[t]])) = 1
  BY DEF MaybePruneQueue
<1> QED
  BY <1>3, <1>4, <1>5

LEMMA FutexWakeKeeps ==
    ASSUME FutexInv, NEW t \in Threads, NEW u \in Words, NEW n, FutexWake(t, u, n)
    PROVE  FutexInv'
<1>1. at[t] = "user" /\ waitingOn[t] = None /\ UNCHANGED <<waitingOn, entry>>
  BY DEF FutexWake, Running, waitVars
<1>2. CASE ~Alive(u)
  <2>1. UNCHANGED <<at, holds, on>>
    BY <1>2 DEF FutexWake
  <2> QED
    BY <1>1, <2>1, FutexFrame
<1>3. CASE Alive(u)
  <2>1. /\ at' = [at EXCEPT ![t] = "wake"] /\ holds' = [holds EXCEPT ![t] = entry[u]]
        /\ on' = [on EXCEPT ![t] = u]
    BY <1>3 DEF FutexWake
  <2>2. FutexTypeOK /\ OneKey /\ InCall(t)
    BY DEF FutexInv
  <2>3. entry[u] \in Futexes /\ entry[u] # None /\ u # None
    BY <1>3, <2>2, FutexNames DEF Alive, FutexTypeOK
  <2>4. /\ at'[t] = "wake" /\ holds'[t] = entry[u] /\ on'[t] = u
        /\ \A x \in Threads : x # t => at'[x] = at[x] /\ holds'[x] = holds[x] /\ on'[x] = on[x]
    BY <2>1, <2>2 DEF FutexTypeOK
  <2>5. FutexTypeOK' /\ OneKey'
    BY <1>1, <2>1, <2>2, <2>3 DEF FutexTypeOK, OneKey
  <2>6. InCall(t)'
    BY <1>1, <2>3, <2>4, FutexNames DEF InCall
  <2> QED
    BY <1>1, <2>4, <2>5, <2>6, OneCall
<1> QED
  BY <1>2, <1>3

LEMMA FutexWakeOneKeeps ==
    ASSUME WaitInv, FutexInv, NEW t \in Threads, FutexWakeOne(t)
    PROVE  /\ WaitInv' /\ FutexInv' /\ holds[t] \in Futexes /\ 1 \in 0 .. Len(Pruned(holds[t]))
           /\ Select(t, holds[t], 1) /\ waking[t] = <<>>
<1>1. /\ waking[t] = <<>> /\ at[t] = "wake" /\ Select(t, holds[t], 1)
      /\ Pruned(holds[t]) # <<>> /\ UNCHANGED <<at, entry, holds, on>>
  BY DEF FutexWakeOne, FutexAt
<1>2. holds[t] \in Futexes /\ holds[t] \in Queues
  BY <1>1, CallFacts
<1>3. Pruned(holds[t]) \in Seq(Threads)
  BY <1>2, QueueFacts DEF WaitInv
<1>4. 1 \in 0 .. Len(Pruned(holds[t]))
  <2> DEFINE p == Pruned(holds[t])
  <2> HIDE DEF p
  <2>1. p \in Seq(Threads) /\ p # <<>>
    BY <1>1, <1>3 DEF p
  <2>2. 1 \in 0 .. Len(p)
    BY SMT, Z3T(40), <2>1
  <2> QED
    BY <2>2 DEF p
<1>5. WaitInv'
  BY <1>1, <1>2, <1>4, SelectKeeps
<1>6. waitingOn' = waitingOn
  BY <1>1 DEF Select
<1> QED
  BY <1>1, <1>2, <1>4, <1>5, <1>6, FutexFrame

LEMMA FutexWakeEndsKeeps ==
    ASSUME WaitInv, FutexInv, NEW t \in Threads, FutexWakeEnds(t)
    PROVE  WaitInv' /\ FutexInv' /\ Undisturbed
<1>1. /\ at[t] = "wake" /\ FutexReturns(t)
      /\ waiters' = [waiters EXCEPT ![holds[t]] = Pruned(holds[t])]
      /\ UNCHANGED <<state, deadline, outcome, waitingOn, registered, waking, expiring, mode, entry>>
  BY DEF FutexWakeEnds, FutexAt
<1>2. holds[t] \in Queues
  BY <1>1, CallFacts
<1>3. outcome' \in [Threads -> {"Completed", "Pending", "TimedOut"}]
  BY <1>1 DEF WaitInv, WaitTypeOK
<1>4. WaitInv' /\ Undisturbed
  BY <1>1, <1>2, <1>3, PruneKeeps, PruneEffect
<1>5. FutexInv'
  BY <1>1, ReturnKeeps
<1> QED
  BY <1>4, <1>5
=============================================================================
