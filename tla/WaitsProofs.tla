----------------------------- MODULE WaitsProofs -----------------------------
(***************************************************************************)
(* What the blocking primitives promise, proved for any threads, queues and *)
(* words from the invariant of the wait queue (WaitQueueProofs).  A step    *)
(* reaches a primitive in one of four ways: it disturbs nobody, blocks a    *)
(* thread, sends one off, or hands something over to the first sleepers.    *)
(***************************************************************************)
EXTENDS WaitQueueProofs

\* A leaf that names no prover is for Zenon.
USE ZenonT(60)

-----------------------------------------------------------------------------
(* Futexes: no wake-up is lost on a machine that does not interleave calls  *)
(* and whose callers pass no timeout.                                      *)
Quiet == ~mode.interleave /\ NoTimeouts

(* A sleeper whose word changed is owed a wake-up; a thread about to sleep   *)
(* still sees the value it expects; and whoever pays such a debt has enough *)
(* wake-ups left for the sleepers that are left.                           *)
Served(x) ==
    /\ \A q \in Futexes :
          at[x] = "blocked" /\ holds[x] = q /\ x \in Sleepers(q) /\ word[on[x]] # expects[x] =>
              \E w \in Threads : owes[w] = on[x]
    /\ at[x] \in {"read", "got"} /\ state[x] # "Terminated" => word[on[x]] = expects[x]
    /\ at[x] = "wake" /\ owes[x] # None =>
          /\ on[x] = owes[x]
          /\ \A q \in Futexes : holds[x] = q /\ state[x] # "Terminated" =>
                Cardinality(Sleepers(q)) <= remaining[x]

DebtTypeOK ==
    /\ word \in [Words -> {0, 1}] /\ expects \in [Threads -> {0, 1}]
    /\ owes \in [Threads -> Words \cup {None}] /\ remaining \in [Threads -> Nat]

NothingLost == DebtTypeOK /\ (Quiet => \A x \in Threads : Served(x))

LEMMA SleepersAreThreads ==
    ASSUME WaitTypeOK, NEW q \in Queues
    PROVE  Sleepers(q) \in SUBSET Threads
<1>1. waiters[q] \in Seq(Threads)
  BY DEF WaitTypeOK
<1>2. Elements(waiters[q]) \subseteq Threads
  BY <1>1, ElementsAreIn
<1> QED
  BY <1>2 DEF Sleepers

(* While t runs, every other call in progress is blocked or dead. *)
LEMMA AloneInKernel ==
    ASSUME Quiet, NEW t \in Threads, MayRun(t), NEW x \in Threads, x # t,
           at[x] \notin {"user", "blocked"}
    PROVE  state[x] = "Terminated"
  BY DEF MayRun, Quiet

(* A step that leaves x's call alone. *)
LEMMA ServedStill ==
    ASSUME WaitInv, FutexInv, NothingLost, Quiet, DeadStayDead, NEW x \in Threads,
           at'[x] = at[x], on'[x] = on[x], holds'[x] = holds[x], expects'[x] = expects[x],
           remaining'[x] = remaining[x],
           at[x] = "wake" => owes'[x] = owes[x],
           at[x] \in {"read", "got"} /\ state[x] # "Terminated" => word'[on[x]] = word[on[x]],
           \A q \in Futexes : x \in Sleepers(q)' => x \in Sleepers(q),
           at[x] = "wake" /\ state[x] # "Terminated" =>
               \A q \in Futexes : Sleepers(q)' \subseteq Sleepers(q),
           ASSUME at[x] = "blocked", NEW q \in Futexes, holds[x] = q, x \in Sleepers(q)
           PROVE  \/ word'[on[x]] = word[on[x]] /\ \A w \in Threads : owes[w] = on[x] => owes'[w] = on[x]
                  \/ \E w \in Threads : owes'[w] = on[x]
    PROVE  Served(x)'
<1>1. Served(x) /\ WaitTypeOK /\ DebtTypeOK
  BY DEF NothingLost, WaitInv
<1>2. state'[x] # "Terminated" => state[x] # "Terminated"
  BY DEF DeadStayDead
<1>3. ASSUME NEW q \in Futexes, at[x] = "blocked", holds[x] = q, x \in Sleepers(q)',
             word'[on[x]] # expects[x]
      PROVE  \E w \in Threads : owes'[w] = on[x]
  <2>1. x \in Sleepers(q)
    BY <1>3
  <2>2. \/ word'[on[x]] = word[on[x]] /\ \A w \in Threads : owes[w] = on[x] => owes'[w] = on[x]
        \/ \E w \in Threads : owes'[w] = on[x]
    BY <1>3, <2>1
  <2> QED
    BY <1>1, <1>3, <2>1, <2>2 DEF Served
<1>4. at[x] \in {"read", "got"} /\ state'[x] # "Terminated" => word'[on[x]] = expects[x]
  BY <1>1, <1>2 DEF Served
<1>5. ASSUME NEW q \in Futexes, at[x] = "wake", owes[x] # None, holds[x] = q,
             state'[x] # "Terminated"
      PROVE  Cardinality(Sleepers(q)') <= remaining[x]
  <2> DEFINE S == Sleepers(q)
             T == Sleepers(q)'
  <2>1. q \in Queues
    BY FutexNames
  <2>2. S \in SUBSET Threads /\ T \in SUBSET S
    BY <1>1, <1>2, <1>5, <2>1, SleepersAreThreads
  <2>3. Cardinality(S) <= remaining[x]
    BY <1>1, <1>2, <1>5 DEF Served
  <2>4. remaining[x] \in Nat
    BY <1>1 DEF DebtTypeOK
  <2> HIDE DEF S, T
  <2>5. /\ Cardinality(S) \in Nat /\ Cardinality(T) <= Cardinality(S)
        /\ T \in SUBSET Threads
    BY <2>2, Sizes
  <2>6. Cardinality(T) \in Nat
    BY <2>5, Sizes
  <2>7. Cardinality(T) <= remaining[x]
    BY SMT, Z3T(40), <2>3, <2>4, <2>5, <2>6
  <2> QED
    BY <2>7 DEF T
<1>6. at[x] = "wake" /\ owes[x] # None => on[x] = owes[x]
  BY <1>1 DEF Served
<1> QED
  BY <1>3, <1>4, <1>5, <1>6 DEF Served

(* A step of the semaphores, the events, the timer or a waker. *)
LEMMA FutexCalm ==
    ASSUME WaitInv, FutexInv, NothingLost, DeadStayDead, mode' = mode,
           \A q \in Futexes : Sleepers(q)' \subseteq Sleepers(q),
           UNCHANGED <<at, word, entry, holds, on, expects, owes>>,
           remaining' \in [Threads -> Nat], Quiet => remaining' = remaining
    PROVE  NothingLost'
<1>1. DebtTypeOK'
  BY DEF NothingLost, DebtTypeOK
<1>2. ASSUME Quiet, NEW x \in Threads PROVE Served(x)'
  BY <1>2, ServedStill
<1>3. Quiet' => Quiet
  BY DEF Quiet, NoTimeouts
<1> QED
  BY <1>1, <1>2, <1>3 DEF NothingLost

(* A step of one futex call. *)
LEMMA FutexMoves ==
    ASSUME WaitInv, FutexInv, NothingLost, DeadStayDead, mode' = mode, DebtTypeOK',
           NEW t \in Threads, MayRun(t),
           \A x \in Threads : x # t =>
               /\ at'[x] = at[x] /\ on'[x] = on[x] /\ holds'[x] = holds[x]
               /\ expects'[x] = expects[x] /\ remaining'[x] = remaining[x] /\ owes'[x] = owes[x],
           \A q \in Futexes : \A x \in Sleepers(q)' : x # t => x \in Sleepers(q),
           ASSUME NEW x \in Threads, x # t, at[x] = "blocked", holds[x] \in Futexes,
                  NEW q \in Futexes, holds[x] = q, x \in Sleepers(q), Quiet
           PROVE  \/ word'[on[x]] = word[on[x]] /\ (owes[t] = on[x] => owes'[t] = on[x])
                  \/ \E w \in Threads : owes'[w] = on[x],
           Quiet => Served(t)'
    PROVE  NothingLost'
<1>1. ASSUME Quiet, NEW x \in Threads, x # t PROVE Served(x)'
  <2>1. at[x] \notin {"user", "blocked"} => state[x] = "Terminated"
    BY <1>1, AloneInKernel
  <2>2. ASSUME at[x] = "blocked", NEW q \in Futexes, holds[x] = q, x \in Sleepers(q)
        PROVE  \/ word'[on[x]] = word[on[x]] /\ \A w \in Threads : owes[w] = on[x] => owes'[w] = on[x]
               \/ \E w \in Threads : owes'[w] = on[x]
    <3>1. \/ word'[on[x]] = word[on[x]] /\ (owes[t] = on[x] => owes'[t] = on[x])
          \/ \E w \in Threads : owes'[w] = on[x]
      BY <1>1, <2>2
    <3> QED
      BY <3>1
  <2> QED
    BY <1>1, <2>1, <2>2, ServedStill
<1>2. Quiet' => Quiet
  BY DEF Quiet, NoTimeouts
<1> QED
  BY <1>1, <1>2 DEF NothingLost

LEMMA SetWordServes ==
    ASSUME WaitInv, FutexInv, NothingLost, NEW t \in Threads, NEW u \in Words, SetWord(t, u)
    PROVE  NothingLost'
<1>1. /\ MayRun(t) /\ at[t] = "user" /\ word' = [word EXCEPT ![u] = 1 - word[u]]
      /\ owes' = [owes EXCEPT ![t] = u] /\ owes[t] = None
      /\ UNCHANGED <<state, waiters, mode, at, on, holds, expects, remaining>>
  BY DEF SetWord, Running, waitVars
<1>2. DebtTypeOK
  BY DEF NothingLost
<1>3. owes'[t] = u /\ \A x \in Threads : x # t => owes'[x] = owes[x]
  BY <1>1, <1>2 DEF DebtTypeOK
<1>4. DebtTypeOK'
  <2>1. word[u] \in {0, 1}
    BY <1>2 DEF DebtTypeOK
  <2>2. 1 - word[u] \in {0, 1}
    BY SMT, Z3T(40), <2>1
  <2>3. word' \in [Words -> {0, 1}]
    BY <1>1, <1>2, <2>2 DEF DebtTypeOK
  <2> QED
    BY <1>1, <1>2, <2>3 DEF DebtTypeOK
<1>5. DeadStayDead /\ \A q \in Futexes : Sleepers(q)' = Sleepers(q)
  BY <1>1 DEF DeadStayDead, Sleepers
<1>6. ASSUME NEW x \in Threads, on[x] # u, at[x] = "blocked"
      PROVE  word'[on[x]] = word[on[x]]
  BY <1>1, <1>2, <1>6, CallFacts DEF DebtTypeOK
<1>7. ASSUME NEW x \in Threads, x # t, at[x] = "blocked"
      PROVE  \/ word'[on[x]] = word[on[x]] /\ (owes[t] = on[x] => owes'[t] = on[x])
             \/ \E w \in Threads : owes'[w] = on[x]
  <2>1. on[x] # None
    BY <1>7, CallFacts, FutexNames
  <2> QED
    BY <1>1, <1>3, <1>6, <1>7, <2>1
<1>8. Served(t)'
  BY <1>1 DEF Served
<1> QED
  BY <1>1, <1>3, <1>4, <1>5, <1>7, <1>8, FutexMoves

LEMMA FutexWaitServes ==
    ASSUME WaitInv, FutexInv, NothingLost, NEW t \in Threads, NEW u \in Words, FutexWait(t, u)
    PROVE  NothingLost'
<1>1. /\ MayRun(t) /\ at' = [at EXCEPT ![t] = "read"] /\ on' = [on EXCEPT ![t] = u]
      /\ expects' = [expects EXCEPT ![t] = word[u]]
      /\ UNCHANGED <<state, waiters, mode, word, holds, remaining, owes>>
  BY DEF FutexWait, Running, waitVars
<1>2. DebtTypeOK /\ FutexTypeOK
  BY DEF NothingLost, FutexInv
<1>3. /\ at'[t] = "read" /\ on'[t] = u /\ expects'[t] = word[u]
      /\ \A x \in Threads : x # t => at'[x] = at[x] /\ on'[x] = on[x] /\ expects'[x] = expects[x]
  BY <1>1, <1>2 DEF DebtTypeOK, FutexTypeOK
<1>4. DebtTypeOK'
  BY <1>1, <1>2 DEF DebtTypeOK
<1>5. DeadStayDead /\ \A q \in Futexes : Sleepers(q)' = Sleepers(q)
  BY <1>1 DEF DeadStayDead, Sleepers
<1>6. Served(t)'
  BY <1>1, <1>3 DEF Served
<1> QED
  BY <1>1, <1>3, <1>4, <1>5, <1>6, FutexMoves

LEMMA GetOrCreateServes ==
    ASSUME WaitInv, FutexInv, NothingLost, NEW t \in Threads, GetOrCreateQueue(t)
    PROVE  NothingLost'
<1>1. /\ MayRun(t) /\ at[t] = "read" /\ at' = [at EXCEPT ![t] = "got"]
      /\ UNCHANGED <<state, mode, word, on, expects, remaining, owes>>
      /\ (\/ holds' = [holds EXCEPT ![t] = entry[on[t]]]
          \/ holds' = [holds EXCEPT ![t] = Unused(on[t])])
  BY DEF GetOrCreateQueue, FutexAt
<1>2. DebtTypeOK /\ FutexTypeOK
  BY DEF NothingLost, FutexInv
<1>3. /\ at'[t] = "got"
      /\ \A x \in Threads : x # t => at'[x] = at[x] /\ holds'[x] = holds[x]
  BY <1>1, <1>2 DEF FutexTypeOK
<1>4. DebtTypeOK'
  BY <1>1, <1>2 DEF DebtTypeOK
<1>5. DeadStayDead /\ \A q \in Futexes : Sleepers(q)' \subseteq Sleepers(q)
  BY GetOrCreateKeeps, FutexNames DEF Undisturbed
<1>6. ASSUME Quiet PROVE Served(t)'
  <2>1. Served(t)
    BY <1>6 DEF NothingLost
  <2> QED
    BY <1>1, <1>3, <2>1 DEF Served
<1> QED
  BY <1>1, <1>3, <1>4, <1>5, <1>6, FutexMoves

(* The word still had the expected value when the thread fell asleep. *)
LEMMA FutexBlocksServes ==
    ASSUME WaitInv, FutexInv, NothingLost, NEW t \in Threads, NEW timed \in mode.timed,
           FutexBlocks(t, timed)
    PROVE  NothingLost'
<1>1. /\ MayRun(t) /\ at[t] = "got" /\ at' = [at EXCEPT ![t] = "blocked"]
      /\ UNCHANGED <<word, holds, on, expects, remaining, owes>>
  BY DEF FutexBlocks, FutexAt
<1>2. /\ waking[t] = <<>> /\ waitingOn[t] = None /\ Block(t, holds[t], timed)
      /\ holds[t] \in Queues /\ mode' = mode
  BY FutexBlocksKeeps, FutexNames DEF Block
<1>3. DebtTypeOK /\ FutexTypeOK
  BY DEF NothingLost, FutexInv
<1>4. at'[t] = "blocked" /\ \A x \in Threads : x # t => at'[x] = at[x]
  BY <1>1, <1>3 DEF FutexTypeOK
<1>5. DebtTypeOK'
  BY <1>1, <1>3 DEF DebtTypeOK
<1>6. DeadStayDead /\ \A r \in Queues : \A u \in Sleepers(r)' : u # t => u \in Sleepers(r)
  BY <1>1, <1>2, BlockEffect
<1>7. \A q \in Futexes : \A x \in Sleepers(q)' : x # t => x \in Sleepers(q)
  BY <1>6, FutexNames
<1>8. ASSUME Quiet PROVE Served(t)'
  <2>1. Served(t) /\ state[t] # "Terminated"
    BY <1>1, <1>8 DEF NothingLost, MayRun
  <2>2. word[on[t]] = expects[t]
    BY <1>1, <2>1 DEF Served
  <2> QED
    BY <1>1, <1>4, <2>2 DEF Served
<1> QED
  BY <1>1, <1>2, <1>4, <1>5, <1>6, <1>7, <1>8, FutexMoves

LEMMA FutexUnblockedServes ==
    ASSUME WaitInv, FutexInv, NothingLost, NEW t \in Threads, FutexUnblocked(t)
    PROVE  NothingLost'
<1>1. /\ MayRun(t) /\ at' = [at EXCEPT ![t] = "left"] /\ mode' = mode
      /\ UNCHANGED <<word, holds, on, expects, remaining, owes>>
  BY DEF FutexUnblocked, LeaveWait
<1>2. DebtTypeOK /\ FutexTypeOK
  BY DEF NothingLost, FutexInv
<1>3. at'[t] = "left" /\ \A x \in Threads : x # t => at'[x] = at[x]
  BY <1>1, <1>2 DEF FutexTypeOK
<1>4. DebtTypeOK'
  BY <1>1, <1>2 DEF DebtTypeOK
<1>5. DeadStayDead /\ \A q \in Futexes : Sleepers(q)' \subseteq Sleepers(q)
  BY FutexUnblockedKeeps, FutexNames DEF Departs
<1>6. Served(t)'
  BY <1>3 DEF Served
<1> QED
  BY <1>1, <1>3, <1>4, <1>5, <1>6, FutexMoves

(* A call returns, or goes on to prune the registry. *)
LEMMA PruningServes ==
    ASSUME WaitInv, FutexInv, NothingLost, NEW t \in Threads, WaiterCount(t) \/ MaybePruneQueue(t)
    PROVE  NothingLost'
<1>1. /\ MayRun(t) /\ mode' = mode /\ UNCHANGED <<state, word, remaining, owes>>
      /\ FutexReturns(t) \/ (at' = [at EXCEPT ![t] = "prune"] /\ UNCHANGED <<holds, on, expects>>)
  BY DEF WaiterCount, MaybePruneQueue, FutexAt, waitVars
<1>2. DebtTypeOK /\ FutexTypeOK
  BY DEF NothingLost, FutexInv
<1>3. /\ at'[t] \in {"user", "prune"}
      /\ \A x \in Threads : x # t => /\ at'[x] = at[x] /\ on'[x] = on[x] /\ holds'[x] = holds[x]
                                     /\ expects'[x] = expects[x]
  BY <1>1, <1>2 DEF FutexTypeOK, DebtTypeOK, FutexReturns
<1>4. DebtTypeOK'
  BY <1>1, <1>2 DEF DebtTypeOK, FutexReturns
<1>5. \A q \in Futexes : Sleepers(q)' \subseteq Sleepers(q)
  <2>1. CASE WaiterCount(t)
    BY <2>1, WaiterCountKeeps, FutexNames DEF Undisturbed
  <2>2. CASE MaybePruneQueue(t)
    BY <2>2 DEF MaybePruneQueue, waitVars, Sleepers
  <2> QED
    BY <2>1, <2>2
<1>6. Served(t)' /\ DeadStayDead
  BY <1>1, <1>3 DEF Served, DeadStayDead
<1> QED
  BY <1>1, <1>3, <1>4, <1>5, <1>6, FutexMoves

LEMMA FutexWakeServes ==
    ASSUME WaitInv, FutexInv, NothingLost, NEW t \in Threads, NEW u \in Words, NEW n \in Nat,
           FutexWake(t, u, n)
    PROVE  NothingLost'
<1>1. /\ MayRun(t) /\ at[t] = "user" /\ UNCHANGED <<state, waiters, mode, word, expects>>
      /\ owes[t] # None => u = owes[t] /\ n = Cardinality(Threads)
  BY DEF FutexWake, Running, waitVars
<1>2. DebtTypeOK /\ FutexTypeOK
  BY DEF NothingLost, FutexInv
<1>3. DeadStayDead /\ \A q \in Futexes : Sleepers(q)' = Sleepers(q)
  BY <1>1 DEF DeadStayDead, Sleepers
<1>4. CASE Alive(u)
  <2>1. /\ at' = [at EXCEPT ![t] = "wake"] /\ holds' = [holds EXCEPT ![t] = entry[u]]
        /\ on' = [on EXCEPT ![t] = u] /\ remaining' = [remaining EXCEPT ![t] = n]
        /\ owes' = owes
    BY <1>4 DEF FutexWake
  <2>2. /\ at'[t] = "wake" /\ on'[t] = u /\ remaining'[t] = n
        /\ \A x \in Threads : x # t => /\ at'[x] = at[x] /\ on'[x] = on[x] /\ holds'[x] = holds[x]
                                       /\ remaining'[x] = remaining[x]
    BY <1>2, <2>1 DEF FutexTypeOK, DebtTypeOK
  <2>3. DebtTypeOK'
    BY <1>1, <1>2, <2>1 DEF DebtTypeOK
  <2>4. ASSUME NEW q \in Futexes PROVE Cardinality(Sleepers(q)) <= Cardinality(Threads)
    <3>1. q \in Queues /\ WaitTypeOK
      BY FutexNames DEF WaitInv
    <3>2. Sleepers(q) \in SUBSET Threads
      BY <3>1, SleepersAreThreads
    <3> QED
      BY <3>2, Sizes
  <2>5. Served(t)'
    BY <1>1, <1>3, <2>1, <2>2, <2>4 DEF Served
  <2> QED
    BY <1>1, <1>3, <2>1, <2>2, <2>3, <2>5, FutexMoves
<1>5. CASE ~Alive(u)
  <2>1. owes' = [owes EXCEPT ![t] = None] /\ UNCHANGED <<at, holds, on, remaining>>
    BY <1>5 DEF FutexWake
  <2>2. owes'[t] = None /\ \A x \in Threads : x # t => owes'[x] = owes[x]
    BY <1>2, <2>1 DEF DebtTypeOK
  <2>3. DebtTypeOK'
    BY <1>1, <1>2, <2>1 DEF DebtTypeOK
  <2>4. Served(t)'
    BY <1>1, <2>1 DEF Served
  <2>5. ASSUME NEW x \in Threads, at[x] = "blocked" PROVE owes[t] # on[x]
    <3>1. on[x] \in Words /\ entry[on[x]] = holds[x] /\ holds[x] # None
      BY <2>5, CallFacts
    <3>2. Alive(on[x])
      BY <3>1 DEF Alive, Holders
    <3> QED
      BY <1>1, <1>5, <3>1, <3>2, FutexNames
  <2> QED
    BY <1>1, <1>3, <2>1, <2>2, <2>3, <2>4, <2>5, FutexMoves
<1> QED
  BY <1>4, <1>5

LEMMA FutexWakeOneServes ==
    ASSUME WaitInv, FutexInv, NothingLost, NEW t \in Threads, FutexWakeOne(t)
    PROVE  NothingLost'
<1>1. /\ MayRun(t) /\ at[t] = "wake" /\ remaining[t] > 0
      /\ remaining' = [remaining EXCEPT ![t] = remaining[t] - 1]
      /\ UNCHANGED <<at, word, holds, on, expects, owes>>
  BY DEF FutexWakeOne, FutexAt
<1>2. /\ holds[t] \in Futexes /\ holds[t] \in Queues /\ 1 \in 0 .. Len(Pruned(holds[t]))
      /\ Select(t, holds[t], 1) /\ waking[t] = <<>>
  BY FutexWakeOneKeeps, FutexNames
<1>3. state' = state /\ mode' = mode
  BY <1>2 DEF Select
<1>4. DebtTypeOK
  BY DEF NothingLost
<1>5. PICK q \in Futexes : q = holds[t]
  BY <1>2
<1>6. /\ \A r \in Queues : r # q => Sleepers(r)' = Sleepers(r) /\ InFlight(r)' = InFlight(r)
      /\ HandsOver(q, 1)
  BY <1>2, <1>5, SelectEffect
<1>7. PICK chosen \in Seq(Threads) :
          /\ Len(chosen) = 1 /\ Distinct(chosen) /\ Elements(chosen) \subseteq Sleepers(q)
          /\ Sleepers(q)' = Sleepers(q) \ Elements(chosen)
  BY <1>6 DEF HandsOver
<1>8. \A r \in Futexes : Sleepers(r)' \subseteq Sleepers(r)
  BY <1>6, <1>7, FutexNames
<1>9. remaining[t] - 1 \in Nat
  <2>1. remaining[t] \in Nat
    BY <1>4 DEF DebtTypeOK
  <2> QED
    BY SMT, Z3T(40), <1>1, <2>1
<1>10. DebtTypeOK'
  BY <1>1, <1>4, <1>9 DEF DebtTypeOK
<1>11. /\ remaining'[t] = remaining[t] - 1
       /\ \A x \in Threads : x # t => remaining'[x] = remaining[x]
  BY <1>1, <1>4 DEF DebtTypeOK
<1>12. ASSUME Quiet, owes[t] # None
       PROVE  on[t] = owes[t] /\ Cardinality(Sleepers(q)') <= remaining[t] - 1
  <2> DEFINE S == Sleepers(q)
             C == Elements(chosen)
  <2>1. Served(t) /\ state[t] # "Terminated"
    BY <1>1, <1>12 DEF NothingLost, MayRun
  <2>2. on[t] = owes[t] /\ Cardinality(S) <= remaining[t]
    BY <1>1, <1>5, <1>12, <2>1 DEF Served
  <2>3. S \in SUBSET Threads /\ Cardinality(C) = 1
    BY <1>2, <1>5, <1>7, SleepersAreThreads, ListSize DEF WaitInv
  <2>4. C \subseteq S
    BY <1>7
  <2>5. remaining[t] \in Nat
    BY <1>4 DEF DebtTypeOK
  <2>6. Sleepers(q)' = S \ C
    BY <1>7
  <2> HIDE DEF S, C
  <2>7. C \in SUBSET Threads
    BY <2>3, <2>4
  <2>8. IsFiniteSet(C)
    BY <2>7, Sizes
  <2>9. PICK x : C = {x}
    BY <2>3, <2>8, FS_Singleton
  <2>10. x \in S /\ S \ C = S \ {x}
    BY <2>4, <2>9
  <2>11. Cardinality(S \ C) = Cardinality(S) - 1 /\ Cardinality(S) \in Nat
    BY <2>3, <2>10, Sizes
  <2>12. Cardinality(S \ C) <= remaining[t] - 1
    BY SMT, Z3T(40), <2>2, <2>5, <2>11
  <2> QED
    BY <2>2, <2>6, <2>12
<1>13. ASSUME Quiet PROVE Served(t)'
  BY <1>1, <1>5, <1>11, <1>12, <1>13 DEF Served
<1>14. DeadStayDead
  BY <1>3 DEF DeadStayDead
<1> QED
  BY <1>1, <1>3, <1>8, <1>10, <1>11, <1>13, <1>14, FutexMoves

(* A futex_wake that pays a debt leaves nobody asleep on the word. *)
LEMMA FutexWakeEndsServes ==
    ASSUME WaitInv, FutexInv, NothingLost, NEW t \in Threads, FutexWakeEnds(t)
    PROVE  NothingLost'
<1>1. /\ MayRun(t) /\ at[t] = "wake" /\ (remaining[t] = 0 \/ Pruned(holds[t]) = <<>>)
      /\ remaining' = [remaining EXCEPT ![t] = 0] /\ owes' = [owes EXCEPT ![t] = None]
      /\ FutexReturns(t) /\ UNCHANGED <<state, mode, word>>
  BY DEF FutexWakeEnds, FutexAt
<1>2. DebtTypeOK /\ FutexTypeOK
  BY DEF NothingLost, FutexInv
<1>3. /\ at'[t] = "user" /\ owes'[t] = None
      /\ \A x \in Threads : x # t => /\ at'[x] = at[x] /\ on'[x] = on[x] /\ holds'[x] = holds[x]
                                     /\ expects'[x] = expects[x] /\ owes'[x] = owes[x]
                                     /\ remaining'[x] = remaining[x]
  BY <1>1, <1>2 DEF FutexTypeOK, DebtTypeOK, FutexReturns
<1>4. DebtTypeOK'
  <2>1. 0 \in {0, 1} /\ 0 \in Nat
    BY SMT, Z3T(40)
  <2> QED
    BY <1>1, <1>2, <2>1 DEF DebtTypeOK, FutexReturns
<1>5. DeadStayDead /\ \A q \in Futexes : Sleepers(q)' \subseteq Sleepers(q)
  BY FutexWakeEndsKeeps, FutexNames DEF Undisturbed
<1>6. Served(t)'
  BY <1>3 DEF Served
<1>7. PICK q \in Futexes : q = holds[t]
  BY <1>1, CallFacts
<1>8. q \in Queues /\ WaitTypeOK /\ Linked
  BY <1>7, FutexNames DEF WaitInv
<1>9. ASSUME Quiet, owes[t] # None PROVE on[t] = owes[t] /\ Sleepers(q) = {}
  <2>1. Served(t) /\ state[t] # "Terminated"
    BY <1>1, <1>9 DEF NothingLost, MayRun
  <2>2. on[t] = owes[t] /\ Cardinality(Sleepers(q)) <= remaining[t]
    BY <1>1, <1>7, <1>9, <2>1 DEF Served
  <2>3. CASE remaining[t] = 0
    <3> DEFINE S == Sleepers(q)
    <3>1. S \in SUBSET Threads
      BY <1>8, SleepersAreThreads
    <3> HIDE DEF S
    <3>2. IsFiniteSet(S) /\ Cardinality(S) \in Nat
      BY <3>1, Sizes
    <3>3. Cardinality(S) <= 0
      BY <2>2, <2>3 DEF S
    <3>4. Cardinality(S) = 0
      BY SMT, Z3T(40), <3>2, <3>3
    <3>5. S = {}
      BY <3>2, <3>4, FS_EmptySet
    <3> QED
      BY <2>2, <3>5 DEF S
  <2>4. CASE Pruned(holds[t]) = <<>>
    <3>1. \A u : u \in Elements(Pruned(q)) <=> u \in Elements(waiters[q]) /\ state[u] = "Waiting"
      BY <1>8, QueueFacts
    <3>2. Elements(<<>>) = {}
      <4>1. 1 .. Len(<<>>) = {}
        BY SMT, Z3T(40)
      <4> QED
        BY <4>1 DEF Elements
    <3>3. Sleepers(q) = {}
      BY <1>7, <2>4, <3>1, <3>2 DEF Sleepers
    <3> QED
      BY <2>2, <3>3
  <2> QED
    BY <1>1, <2>3, <2>4
<1>10. ASSUME NEW x \in Threads, x # t, at[x] = "blocked", NEW r \in Futexes, holds[x] = r,
              x \in Sleepers(r), Quiet
       PROVE  owes[t] # on[x]
  <2>1. on[x] \in Words /\ entry[on[x]] = holds[x] /\ entry[on[t]] = holds[t]
    BY <1>1, <1>10, CallFacts
  <2> QED
    BY <1>7, <1>9, <1>10, <2>1, FutexNames
<1>11. ASSUME NEW x \in Threads, x # t, at[x] = "blocked", holds[x] \in Futexes,
              NEW r \in Futexes, holds[x] = r, x \in Sleepers(r), Quiet
       PROVE  word'[on[x]] = word[on[x]] /\ (owes[t] = on[x] => owes'[t] = on[x])
  BY <1>1, <1>10, <1>11
<1> QED
  BY <1>1, <1>3, <1>4, <1>5, <1>6, <1>11, FutexMoves

-----------------------------------------------------------------------------
(* The steps of the system keep all of it. *)
Inv == WaitInv /\ SemInv /\ EventInv /\ FutexInv /\ NothingLost

(* A call that does not block: an outcome is written for a thread that is in no wait. *)
LEMMA OutcomeOf ==
    ASSUME WaitInv, NEW t \in Threads, waitingOn[t] = None, NEW o \in {"Completed", "TimedOut"},
           outcome' = [outcome EXCEPT ![t] = o]
    PROVE  /\ outcome' \in [Threads -> {"Completed", "Pending", "TimedOut"}]
           /\ \A u \in Threads : waitingOn[u] # None => outcome'[u] = outcome[u]
  BY DEF WaitInv, WaitTypeOK

LEMMA NoBlockKeeps ==
    ASSUME WaitInv, NEW t \in Threads, Running(t), NEW q \in Queues, NoBlock(t, q)
    PROVE  WaitInv' /\ Undisturbed /\ UNCHANGED <<waitingOn, mode>>
<1>1. /\ waiters' = [waiters EXCEPT ![q] = Pruned(q)]
      /\ outcome' = [outcome EXCEPT ![t] = "Completed"]
      /\ UNCHANGED <<state, deadline, waitingOn, registered, waking, expiring, mode>>
      /\ waitingOn[t] = None
  BY DEF NoBlock, Running
<1>2. /\ outcome' \in [Threads -> {"Completed", "Pending", "TimedOut"}]
      /\ \A u \in Threads : waitingOn[u] # None => outcome'[u] = outcome[u]
  BY <1>1, OutcomeOf
<1> QED
  BY <1>1, <1>2, PruneKeeps, PruneEffect

(* Only an outcome changes, or nothing. *)
LEMMA OutcomeKeeps ==
    ASSUME WaitInv, outcome' \in [Threads -> {"Completed", "Pending", "TimedOut"}],
           \A u \in Threads : waitingOn[u] # None => outcome'[u] = outcome[u],
           UNCHANGED <<state, deadline, waitingOn, waiters, registered, waking, expiring, mode>>
    PROVE  WaitInv' /\ Undisturbed
<1>1. WaitTypeOK /\ Linked
  BY DEF WaitInv
<1>2. /\ waiters' \in [Queues -> Seq(Threads)]
      /\ \A q \in Queues : Distinct(waiters'[q])
  BY <1>1 DEF WaitTypeOK, Linked
<1> QED
  BY <1>2, UnlinkKeeps, UnlinkEffect

LEMMA SemaphoresAreQueues ==
    /\ Semaphores \subseteq Queues \ Futexes /\ Semaphores \cap Events = {}
    /\ Events \subseteq Queues \ Futexes
  BY SemaphoreAssumption, EventsAreQueues, WaitsAssumption

(* A semaphore or event call that leaves every wait as it is. *)
LEMMA CalmElsewhere ==
    ASSUME Inv, Undisturbed, UNCHANGED <<waitingOn, mode, futexVars>>
    PROVE  FutexInv' /\ NothingLost'
<1>1. UNCHANGED <<at, word, entry, holds, on, expects, remaining, owes>>
  BY DEF futexVars
<1>2. DeadStayDead /\ \A q \in Futexes : Sleepers(q)' \subseteq Sleepers(q)
  BY FutexNames DEF Undisturbed
<1>3. remaining' \in [Threads -> Nat]
  BY <1>1 DEF Inv, NothingLost, DebtTypeOK
<1> QED
  BY <1>1, <1>2, <1>3, FutexFrame, FutexCalm DEF Inv

(* One that blocks a thread on q. *)
LEMMA BlockElsewhere ==
    ASSUME Inv, NEW t \in Threads, NEW q \in Queues \ Futexes, NEW timed \in mode.timed,
           Running(t), Block(t, q, timed), UNCHANGED futexVars
    PROVE  /\ WaitInv' /\ FutexInv' /\ NothingLost' /\ mode' = mode
           /\ \A r \in Queues : /\ InFlight(r)' = InFlight(r)
                                /\ r # q => Sleepers(r)' \subseteq Sleepers(r)
<1>1. /\ MayRun(t) /\ waking[t] = <<>> /\ waitingOn[t] = None /\ at[t] = "user"
      /\ waitingOn' = [waitingOn EXCEPT ![t] = q] /\ mode' = mode
      /\ UNCHANGED <<at, word, entry, holds, on, expects, remaining, owes>>
  BY DEF Running, Block, futexVars
<1>2. /\ DeadStayDead
      /\ \A r \in Queues : /\ InFlight(r)' = InFlight(r)
                           /\ r # q => Sleepers(r)' \subseteq Sleepers(r)
  BY <1>1, BlockEffect DEF Inv
<1>3. WaitInv'
  BY <1>1, BlockKeeps DEF Inv
<1>4. waitingOn \in [Threads -> Queues \cup {None}] /\ remaining' \in [Threads -> Nat]
  BY <1>1 DEF Inv, WaitInv, WaitTypeOK, NothingLost, DebtTypeOK
<1>5. FutexInv'
  BY <1>1, <1>4, ElsewhereKeeps DEF Inv
<1>6. \A r \in Futexes : Sleepers(r)' \subseteq Sleepers(r)
  BY <1>2, FutexNames
<1>7. NothingLost'
  BY <1>1, <1>2, <1>4, <1>6, FutexCalm DEF Inv
<1> QED
  BY <1>1, <1>2, <1>3, <1>5, <1>7

(* One that comes back from its wait. *)
LEMMA LeaveElsewhere ==
    ASSUME Inv, NEW t \in Threads, LeaveWait(t), waitingOn[t] \notin Futexes, UNCHANGED futexVars
    PROVE  /\ WaitInv' /\ FutexInv' /\ NothingLost' /\ mode' = mode /\ Departs(t)
           /\ state[t] = "Active" /\ outcome[t] \in {"Completed", "TimedOut"}
<1>1. /\ waitingOn' = [waitingOn EXCEPT ![t] = None] /\ mode' = mode /\ waitingOn[t] # None
      /\ UNCHANGED <<at, word, entry, holds, on, expects, remaining, owes>>
  BY DEF LeaveWait, futexVars
<1>2. WaitInv' /\ Departs(t) /\ state[t] = "Active" /\ outcome[t] \in {"Completed", "TimedOut"}
  BY LeaveWaitKeeps, LeaveWaitEffect DEF Inv
<1>3. waitingOn \in [Threads -> Queues \cup {None}] /\ remaining' \in [Threads -> Nat]
  BY <1>1 DEF Inv, WaitInv, WaitTypeOK, NothingLost, DebtTypeOK
<1>4. FutexInv'
  BY <1>1, <1>3, ElsewhereKeeps DEF Inv
<1>5. DeadStayDead /\ \A r \in Futexes : Sleepers(r)' \subseteq Sleepers(r)
  BY <1>2, FutexNames DEF Departs
<1>6. NothingLost'
  BY <1>1, <1>3, <1>5, FutexCalm DEF Inv
<1> QED
  BY <1>1, <1>2, <1>4, <1>6

(* One that selects waiters of q. *)
LEMMA SelectElsewhere ==
    ASSUME Inv, NEW w \in Threads, Running(w), NEW q \in Queues \ Futexes,
           NEW n \in 0 .. Len(Pruned(q)), Select(w, q, n), UNCHANGED futexVars
    PROVE  /\ WaitInv' /\ FutexInv' /\ NothingLost' /\ mode' = mode
           /\ HandsOver(q, n) /\ (n = Len(Pruned(q)) => Sleepers(q)' = {})
           /\ \A r \in Queues : r # q => Sleepers(r)' = Sleepers(r) /\ InFlight(r)' = InFlight(r)
<1>1. /\ waking[w] = <<>> /\ UNCHANGED <<state, waitingOn, mode>>
      /\ UNCHANGED <<at, word, entry, holds, on, expects, remaining, owes>>
  BY DEF Running, Select, futexVars
<1>2. WaitInv'
  BY <1>1, SelectKeeps DEF Inv
<1>3. /\ HandsOver(q, n) /\ (n = Len(Pruned(q)) => Sleepers(q)' = {})
      /\ \A r \in Queues : r # q => Sleepers(r)' = Sleepers(r) /\ InFlight(r)' = InFlight(r)
  BY <1>1, SelectEffect DEF Inv
<1>4. FutexInv'
  BY <1>1, FutexFrame DEF Inv
<1>5. DeadStayDead /\ \A r \in Futexes : Sleepers(r)' \subseteq Sleepers(r)
  BY <1>1, <1>3, FutexNames DEF DeadStayDead
<1>6. NothingLost'
  <2>1. remaining' \in [Threads -> Nat]
    BY <1>1 DEF Inv, NothingLost, DebtTypeOK
  <2> QED
    BY <1>1, <1>5, <2>1, FutexCalm DEF Inv
<1> QED
  BY <1>1, <1>2, <1>3, <1>4, <1>6

LEMMA AcquireKeeps ==
    ASSUME Inv, NEW t \in Threads, NEW s \in Semaphores, NEW timed \in mode.timed,
           Acquire(t, s, timed), UNCHANGED <<eventVars, futexVars>>
    PROVE  Inv'
<1>1. Running(t) /\ issued' = issued /\ s \in Queues \ Futexes
  BY SemaphoresAreQueues DEF Acquire
<1>2. UNCHANGED <<signaled, sent, consumed>>
  BY DEF eventVars, ghostVars
<1>3. permits \in [Semaphores -> Nat] /\ acquired \in [Semaphores -> Nat] /\ EventInv
  BY DEF Inv, SemInv
<1>4. CASE /\ permits[s] > 0 /\ NoBlock(t, s)
           /\ permits' = [permits EXCEPT ![s] = permits[s] - 1]
           /\ acquired' = [acquired EXCEPT ![s] = acquired[s] + 1]
  <2>1. WaitInv' /\ Undisturbed /\ UNCHANGED <<waitingOn, mode>>
    BY <1>1, <1>4, NoBlockKeeps DEF Inv
  <2>2. /\ permits' \in [Semaphores -> Nat] /\ acquired' \in [Semaphores -> Nat]
        /\ \A r \in Semaphores : /\ permits'[r] + acquired'[r] = permits[r] + acquired[r]
                                 /\ permits'[r] <= permits[r]
    BY SMT, Z3T(40), <1>3, <1>4
  <2>3. SemInv'
    BY <1>1, <2>1, <2>2, SemCalm DEF Inv
  <2>4. EventInv'
    <3>1. signaled' \in [Events -> BOOLEAN] /\ consumed' \in [AutoReset -> Nat]
      BY <1>2, <1>3 DEF EventInv
    <3> QED
      BY <1>2, <1>3, <2>1, <3>1, EventCalm
  <2> QED
    BY <2>1, <2>3, <2>4, CalmElsewhere DEF Inv
<1>5. CASE permits[s] = 0 /\ Block(t, s, timed) /\ UNCHANGED <<permits, acquired>>
  <2>1. /\ WaitInv' /\ FutexInv' /\ NothingLost' /\ mode' = mode
        /\ \A r \in Queues : /\ InFlight(r)' = InFlight(r)
                             /\ r # s => Sleepers(r)' \subseteq Sleepers(r)
    BY <1>1, <1>5, BlockElsewhere
  <2>2. SemInv'
    BY <1>1, <1>5, <2>1, SemBlocks DEF Inv, semVars
  <2>3. EventInv'
    BY <1>1, <1>2, <2>1, SemaphoresAreQueues, EventBlocks DEF Inv
  <2> QED
    BY <2>1, <2>2, <2>3 DEF Inv
<1> QED
  BY <1>4, <1>5 DEF Acquire

LEMMA TryAcquireKeeps ==
    ASSUME Inv, NEW t \in Threads, NEW s \in Semaphores, NEW zeroTimeout \in BOOLEAN,
           TryAcquire(t, s, zeroTimeout), UNCHANGED <<eventVars, futexVars>>
    PROVE  Inv'
<1>1. /\ waitingOn[t] = None /\ issued' = issued
      /\ UNCHANGED <<state, deadline, waitingOn, waiters, registered, waking, expiring, mode>>
  BY DEF TryAcquire, Running
<1>2. UNCHANGED <<signaled, sent, consumed>>
  BY DEF eventVars, ghostVars
<1>3. permits \in [Semaphores -> Nat] /\ acquired \in [Semaphores -> Nat] /\ EventInv
  BY DEF Inv, SemInv
<1>4. \E o \in {"Completed", "TimedOut"} : outcome' = [outcome EXCEPT ![t] = o]
  BY DEF TryAcquire
<1>5. /\ outcome' \in [Threads -> {"Completed", "Pending", "TimedOut"}]
      /\ \A u \in Threads : waitingOn[u] # None => outcome'[u] = outcome[u]
  BY <1>1, <1>4, OutcomeOf DEF Inv
<1>6. WaitInv' /\ Undisturbed
  BY <1>1, <1>5, OutcomeKeeps DEF Inv
<1>7. /\ permits' \in [Semaphores -> Nat] /\ acquired' \in [Semaphores -> Nat]
      /\ \A r \in Semaphores : /\ permits'[r] + acquired'[r] = permits[r] + acquired[r]
                               /\ permits'[r] <= permits[r]
  <2>1. CASE /\ permits[s] > 0 /\ permits' = [permits EXCEPT ![s] = permits[s] - 1]
             /\ acquired' = [acquired EXCEPT ![s] = acquired[s] + 1]
    BY SMT, Z3T(40), <1>3, <2>1
  <2>2. CASE UNCHANGED <<permits, acquired>>
    BY SMT, Z3T(40), <1>3, <2>2
  <2> QED
    BY <2>1, <2>2 DEF TryAcquire
<1>8. SemInv'
  BY <1>1, <1>6, <1>7, SemCalm DEF Inv
<1>9. EventInv'
  <2>1. signaled' \in [Events -> BOOLEAN] /\ consumed' \in [AutoReset -> Nat]
    BY <1>2, <1>3 DEF EventInv
  <2> QED
    BY <1>2, <1>3, <1>6, <2>1, EventCalm
<1> QED
  BY <1>1, <1>6, <1>8, <1>9, CalmElsewhere DEF Inv

LEMMA ReleaseKeeps ==
    ASSUME Inv, NEW t \in Threads, NEW s \in Semaphores, NEW m \in 1 .. MaxRelease,
           Release(t, s, m), UNCHANGED <<eventVars, futexVars>>
    PROVE  Inv'
<1> DEFINE n == LeastOf(m, Len(Pruned(s)))
<1>1. /\ Running(t) /\ Select(t, s, n) /\ acquired' = acquired
      /\ permits' = [permits EXCEPT ![s] = permits[s] + (m - n)]
      /\ issued' = [issued EXCEPT ![s] = issued[s] + m]
      /\ s \in Queues \ Futexes
  BY SemaphoresAreQueues DEF Release
<1>2. Pruned(s) \in Seq(Threads)
  BY <1>1, QueueFacts DEF Inv, WaitInv
<1>3. m \in Nat /\ n \in 0 .. Len(Pruned(s)) /\ n <= m /\ (n < m => n = Len(Pruned(s))) /\ n \in Nat
  <2> DEFINE l == Len(Pruned(s))
  <2>1. l \in Nat
    BY SMT, Z3T(40), <1>2
  <2> HIDE DEF l
  <2>2. m \in Nat
    BY SMT, Z3T(40), SemaphoreAssumption
  <2>3. /\ LeastOf(m, l) \in 0 .. l /\ LeastOf(m, l) <= m /\ (LeastOf(m, l) < m => LeastOf(m, l) = l)
        /\ LeastOf(m, l) \in Nat
    BY SMT, Z3T(40), <2>1, <2>2 DEF LeastOf
  <2> QED
    BY <2>2, <2>3 DEF l
<1> HIDE DEF n
<1>4. /\ WaitInv' /\ FutexInv' /\ NothingLost' /\ mode' = mode
      /\ HandsOver(s, n) /\ (n = Len(Pruned(s)) => Sleepers(s)' = {})
      /\ \A r \in Queues : r # s => Sleepers(r)' = Sleepers(r) /\ InFlight(r)' = InFlight(r)
  BY <1>1, <1>3, SelectElsewhere
<1>5. SemInv'
  BY <1>1, <1>3, <1>4, SemHandsOver DEF Inv
<1>6. EventInv'
  <2>1. s \notin Events /\ s \notin AutoReset /\ UNCHANGED <<signaled, sent, consumed>>
    BY SemaphoresAreQueues, EventsAreQueues DEF eventVars, ghostVars
  <2> QED
    BY <1>1, <1>3, <1>4, <2>1, EventHandsOver DEF Inv
<1> QED
  BY <1>4, <1>5, <1>6 DEF Inv

LEMMA AcquireReturnsKeeps ==
    ASSUME Inv, NEW t \in Threads, AcquireReturns(t), UNCHANGED <<eventVars, futexVars>>
    PROVE  Inv'
<1>1. /\ LeaveWait(t) /\ waitingOn[t] \in Semaphores /\ permits' = permits /\ issued' = issued
      /\ acquired' = IF outcome[t] = "TimedOut" THEN acquired
                     ELSE [acquired EXCEPT ![waitingOn[t]] = acquired[waitingOn[t]] + 1]
  BY DEF AcquireReturns
<1>2. waitingOn[t] \notin Futexes
  BY <1>1, SemaphoresAreQueues
<1>3. /\ WaitInv' /\ FutexInv' /\ NothingLost' /\ mode' = mode /\ Departs(t)
      /\ state[t] = "Active" /\ outcome[t] \in {"Completed", "TimedOut"}
  BY <1>1, <1>2, LeaveElsewhere
<1>4. acquired' = IF state[t] = "Active" /\ waitingOn[t] \in Semaphores /\ outcome[t] = "Completed"
                  THEN [acquired EXCEPT ![waitingOn[t]] = acquired[waitingOn[t]] + 1]
                  ELSE acquired
  BY <1>1, <1>3
<1>5. SemInv'
  BY <1>1, <1>3, <1>4, SemDeparts DEF Inv
<1>6. EventInv'
  <2>1. UNCHANGED <<signaled, sent, consumed>> /\ consumed' \in [AutoReset -> Nat]
    BY DEF eventVars, ghostVars, Inv, EventInv
  <2> QED
    BY <1>3, <2>1, EventDeparts DEF Inv
<1> QED
  BY <1>3, <1>5, <1>6 DEF Inv

LEMMA SemKeeps ==
    ASSUME Inv, Sem
    PROVE  Inv'
  BY AcquireKeeps, TryAcquireKeeps, ReleaseKeeps, AcquireReturnsKeeps DEF Sem, SemStep

(* A wait that finds the event set consumes it. *)
LEMMA ConsumeFacts ==
    ASSUME EventInv, NEW e \in Events, Consume(e)
    PROVE  /\ sent' = sent /\ consumed' \in [AutoReset -> Nat]
           /\ \A a \in AutoReset : consumed'[a] = IF a = e THEN consumed[a] + 1 ELSE consumed[a]
<1>1. consumed \in [AutoReset -> Nat]
  BY DEF EventInv
<1>2. CASE e \in AutoReset
  <2>1. sent' = sent /\ consumed' = [consumed EXCEPT ![e] = consumed[e] + 1]
    BY <1>2 DEF Consume
  <2> QED
    BY SMT, Z3T(40), <1>1, <1>2, <2>1
<1>3. CASE e \notin AutoReset
  BY <1>1, <1>3 DEF Consume, ghostVars
<1> QED
  BY <1>2, <1>3

LEMMA ConsumeKeeps ==
    ASSUME EventInv, NEW e \in Events, signaled[e], Consume(e), Undisturbed,
           signaled' = [signaled EXCEPT ![e] = e \in ManualReset]
    PROVE  EventInv'
<1>1. signaled \in [Events -> BOOLEAN]
  BY DEF EventInv
<1>2. e \in AutoReset => e \notin ManualReset
  BY EventAssumption
<1>3. (e \in ManualReset) \in BOOLEAN
  BY SMT, Z3T(40)
<1>4. /\ signaled' \in [Events -> BOOLEAN] /\ (signaled'[e] <=> e \in ManualReset)
      /\ \A a \in Events : a # e => signaled'[a] = signaled[a]
  BY <1>1, <1>3
<1>5. \A a \in Events : signaled'[a] => signaled[a]
  BY <1>4
<1>6. /\ sent' = sent /\ consumed' \in [AutoReset -> Nat]
      /\ \A a \in AutoReset : consumed'[a] = IF a = e THEN consumed[a] + 1 ELSE consumed[a]
  BY ConsumeFacts
<1>7. \A a \in AutoReset : \/ consumed'[a] = consumed[a]
                           \/ /\ consumed'[a] = consumed[a] + 1
                              /\ signaled[a] /\ ~signaled'[a]
  BY <1>2, <1>4, <1>6
<1> QED
  BY <1>4, <1>5, <1>6, <1>7, EventCalm

(* Steps that leave the semaphores alone. *)
LEMMA SemsCalm ==
    ASSUME SemInv, Undisturbed, mode' = mode, UNCHANGED semVars
    PROVE  SemInv'
<1>1. permits' = permits /\ issued' = issued /\ acquired' = acquired
  BY DEF semVars
<1>2. permits \in [Semaphores -> Nat]
  BY DEF SemInv
<1>3. \A s \in Semaphores : permits[s] <= permits[s]
  BY SMT, Z3T(40), <1>2
<1>4. permits' \in [Semaphores -> Nat] /\ acquired' \in [Semaphores -> Nat]
  BY <1>1 DEF SemInv
<1> QED
  BY <1>1, <1>3, <1>4, SemCalm

LEMMA EventsCalm ==
    ASSUME EventInv, Undisturbed, UNCHANGED eventVars
    PROVE  EventInv'
<1>1. UNCHANGED <<signaled, sent, consumed>>
  BY DEF eventVars, ghostVars
<1>2. signaled' \in [Events -> BOOLEAN] /\ consumed' \in [AutoReset -> Nat]
  BY <1>1 DEF EventInv
<1> QED
  BY <1>1, <1>2, EventCalm

LEMMA WaitKeeps ==
    ASSUME Inv, NEW t \in Threads, NEW e \in Events, NEW timed \in mode.timed,
           Wait(t, e, timed), UNCHANGED <<semVars, futexVars>>
    PROVE  Inv'
<1>1. Running(t) /\ e \in Queues \ Futexes
  BY SemaphoresAreQueues DEF Wait
<1>2. CASE /\ signaled[e] /\ signaled' = [signaled EXCEPT ![e] = e \in ManualReset]
           /\ Consume(e) /\ NoBlock(t, e)
  <2>1. WaitInv' /\ Undisturbed /\ UNCHANGED <<waitingOn, mode>>
    BY <1>1, <1>2, NoBlockKeeps DEF Inv
  <2>2. EventInv'
    BY <1>2, <2>1, ConsumeKeeps DEF Inv
  <2>3. SemInv'
    BY <2>1, SemsCalm DEF Inv
  <2> QED
    BY <2>1, <2>2, <2>3, CalmElsewhere DEF Inv
<1>3. CASE ~signaled[e] /\ Block(t, e, timed) /\ UNCHANGED <<signaled, ghostVars>>
  <2>1. /\ WaitInv' /\ FutexInv' /\ NothingLost' /\ mode' = mode
        /\ \A r \in Queues : /\ InFlight(r)' = InFlight(r)
                             /\ r # e => Sleepers(r)' \subseteq Sleepers(r)
    BY <1>1, <1>3, BlockElsewhere
  <2>2. SemInv'
    BY <1>1, <2>1, SemaphoresAreQueues, SemBlocks DEF Inv
  <2>3. EventInv'
    BY <1>1, <1>3, <2>1, EventBlocks DEF Inv, ghostVars
  <2> QED
    BY <2>1, <2>2, <2>3 DEF Inv
<1> QED
  BY <1>2, <1>3 DEF Wait

LEMMA ProbeKeeps ==
    ASSUME Inv, NEW t \in Threads, NEW e \in Events, Probe(t, e), UNCHANGED <<semVars, futexVars>>
    PROVE  Inv'
<1>1. /\ waitingOn[t] = None
      /\ UNCHANGED <<state, deadline, waitingOn, waiters, registered, waking, expiring, mode>>
  BY DEF Probe, Running
<1>2. \E o \in {"Completed", "TimedOut"} : outcome' = [outcome EXCEPT ![t] = o]
  BY DEF Probe
<1>3. /\ outcome' \in [Threads -> {"Completed", "Pending", "TimedOut"}]
      /\ \A u \in Threads : waitingOn[u] # None => outcome'[u] = outcome[u]
  BY <1>1, <1>2, OutcomeOf DEF Inv
<1>4. WaitInv' /\ Undisturbed
  BY <1>1, <1>3, OutcomeKeeps DEF Inv
<1>5. EventInv'
  BY <1>4, ConsumeKeeps, EventsCalm DEF Probe, Inv, eventVars
<1>6. SemInv'
  BY <1>1, <1>4, SemsCalm DEF Inv
<1> QED
  BY <1>1, <1>4, <1>5, <1>6, CalmElsewhere DEF Inv

LEMMA ResetKeeps ==
    ASSUME Inv, NEW t \in Threads, NEW e \in Events, Reset(t, e), UNCHANGED <<semVars, futexVars>>
    PROVE  Inv'
<1>1. /\ UNCHANGED <<state, deadline, outcome, waitingOn, waiters, registered, waking, expiring, mode>>
      /\ signaled' = [signaled EXCEPT ![e] = FALSE] /\ UNCHANGED <<sent, consumed>>
  BY DEF Reset, waitVars
<1>2. outcome' \in [Threads -> {"Completed", "Pending", "TimedOut"}]
  BY <1>1 DEF Inv, WaitInv, WaitTypeOK
<1>3. WaitInv' /\ Undisturbed
  BY <1>1, <1>2, OutcomeKeeps DEF Inv
<1>4. signaled \in [Events -> BOOLEAN] /\ consumed' \in [AutoReset -> Nat]
  BY <1>1 DEF Inv, EventInv
<1>5. signaled' \in [Events -> BOOLEAN] /\ \A a \in Events : signaled'[a] => signaled[a]
  BY <1>1, <1>4
<1>6. EventInv'
  BY <1>1, <1>3, <1>4, <1>5, EventCalm DEF Inv
<1>7. SemInv'
  BY <1>1, <1>3, SemsCalm DEF Inv
<1> QED
  BY <1>1, <1>3, <1>6, <1>7, CalmElsewhere DEF Inv

LEMMA SignalWithKeeps ==
    ASSUME Inv, NEW w \in Threads, NEW e \in Events, NEW n \in 0 .. Len(Pruned(e)), n \in Nat,
           NEW set \in BOOLEAN, set => n = Len(Pruned(e)),
           e \in AutoReset => n = 0 \/ (n = 1 /\ ~set),
           SignalWith(w, e, n, set), UNCHANGED <<semVars, futexVars>>
    PROVE  Inv'
<1>1. /\ Running(w) /\ Select(w, e, n) /\ e \in Queues \ Futexes
      /\ signaled' = [signaled EXCEPT ![e] = set] /\ consumed' = consumed
      /\ IF e \in AutoReset THEN sent' = [sent EXCEPT ![e] = sent[e] + 1] ELSE sent' = sent
  BY SemaphoresAreQueues DEF SignalWith, ghostVars
<1>2. /\ WaitInv' /\ FutexInv' /\ NothingLost' /\ mode' = mode
      /\ HandsOver(e, n) /\ (n = Len(Pruned(e)) => Sleepers(e)' = {})
      /\ \A r \in Queues : r # e => Sleepers(r)' = Sleepers(r) /\ InFlight(r)' = InFlight(r)
  BY <1>1, SelectElsewhere
<1>3. EventInv'
  BY <1>1, <1>2, EventHandsOver DEF Inv
<1>4. SemInv'
  <2>1. e \notin Semaphores /\ UNCHANGED <<permits, issued, acquired>>
    BY SemaphoresAreQueues DEF semVars
  <2>2. n <= n /\ ~(n < n)
    BY SMT, Z3T(40)
  <2> QED
    BY <1>1, <1>2, <2>1, <2>2, SemHandsOver DEF Inv
<1> QED
  BY <1>2, <1>3, <1>4 DEF Inv

LEMMA SignalKeeps ==
    ASSUME Inv, NEW w \in Threads, NEW e \in Events, Signal(w, e), UNCHANGED <<semVars, futexVars>>
    PROVE  Inv'
<1> DEFINE l == Len(Pruned(e))
<1>1. Pruned(e) \in Seq(Threads)
  BY SemaphoresAreQueues, QueueFacts DEF Inv, WaitInv
<1>2. l \in Nat
  BY SMT, Z3T(40), <1>1
<1>3. IF e \in ManualReset THEN SignalWith(w, e, l, TRUE)
      ELSE IF l > 0 THEN SignalWith(w, e, 1, FALSE) ELSE SignalWith(w, e, 0, TRUE)
  BY DEF Signal
<1>4. e \in ManualReset => e \notin AutoReset
  BY EventAssumption
<1> HIDE DEF l
<1>5. l \in 0 .. l /\ (l > 0 => 1 \in 0 .. l) /\ 0 \in 0 .. l /\ (~(l > 0) => l = 0)
      /\ 0 \in Nat /\ 1 \in Nat
  BY SMT, Z3T(40), <1>2
<1>6. CASE e \in ManualReset
  <2>1. SignalWith(w, e, l, TRUE) /\ e \notin AutoReset
    BY <1>3, <1>4, <1>6
  <2> QED
    BY <1>2, <1>5, <2>1, SignalWithKeeps DEF l
<1>7. CASE e \notin ManualReset /\ l > 0
  BY <1>3, <1>5, <1>7, SignalWithKeeps DEF l
<1>8. CASE e \notin ManualReset /\ ~(l > 0)
  BY <1>3, <1>5, <1>8, SignalWithKeeps DEF l
<1> QED
  BY <1>6, <1>7, <1>8

LEMMA WaitReturnsKeeps ==
    ASSUME Inv, NEW t \in Threads, WaitReturns(t), UNCHANGED <<semVars, futexVars>>
    PROVE  Inv'
<1>1. PICK e \in Events : e = waitingOn[t]
  BY DEF WaitReturns
<1>2. /\ LeaveWait(t) /\ signaled' = signaled /\ waitingOn[t] \notin Futexes
      /\ IF outcome[t] = "TimedOut" THEN UNCHANGED ghostVars ELSE Consume(e)
  BY <1>1, SemaphoresAreQueues DEF WaitReturns
<1>3. /\ WaitInv' /\ FutexInv' /\ NothingLost' /\ mode' = mode /\ Departs(t)
      /\ state[t] = "Active" /\ outcome[t] \in {"Completed", "TimedOut"}
  BY <1>2, LeaveElsewhere
<1>4. SemInv'
  <2>1. waitingOn[t] \notin Semaphores /\ UNCHANGED <<permits, issued, acquired>>
    BY <1>1, SemaphoresAreQueues DEF semVars
  <2> QED
    BY <1>3, <2>1, SemDeparts DEF Inv
<1>5. CASE outcome[t] = "TimedOut"
  <2>1. UNCHANGED <<sent, consumed>> /\ consumed' \in [AutoReset -> Nat]
    BY <1>2, <1>5 DEF ghostVars, Inv, EventInv
  <2>2. EventInv'
    BY <1>2, <1>3, <2>1, EventDeparts DEF Inv
  <2> QED
    BY <1>3, <1>4, <2>2 DEF Inv
<1>6. CASE outcome[t] # "TimedOut"
  <2>1. /\ sent' = sent /\ consumed' \in [AutoReset -> Nat]
        /\ \A a \in AutoReset : consumed'[a] = IF a = e THEN consumed[a] + 1 ELSE consumed[a]
    BY <1>2, <1>6, ConsumeFacts DEF Inv
  <2>2. EventInv'
    BY <1>1, <1>2, <1>3, <1>6, <2>1, EventDeparts DEF Inv
  <2> QED
    BY <1>3, <1>4, <2>2 DEF Inv
<1> QED
  BY <1>5, <1>6

LEMMA EvtKeeps ==
    ASSUME Inv, Evt
    PROVE  Inv'
  BY WaitKeeps, ProbeKeeps, SignalKeeps, ResetKeeps, WaitReturnsKeeps DEF Evt, EventStep

(* A futex call that disturbs nobody, and touches nothing but futexes. *)
LEMMA FutexCallKeeps ==
    ASSUME Inv, WaitInv', FutexInv', NothingLost', Undisturbed, mode' = mode,
           UNCHANGED <<semVars, eventVars>>
    PROVE  Inv'
  BY SemsCalm, EventsCalm DEF Inv

(* The wait-queue state is left alone. *)
LEMMA NoWaitTouched ==
    ASSUME WaitInv, UNCHANGED waitVars
    PROVE  WaitInv' /\ Undisturbed /\ mode' = mode
<1>1. UNCHANGED <<state, deadline, outcome, waitingOn, waiters, registered, waking, expiring, mode>>
  BY DEF waitVars
<1>2. outcome' \in [Threads -> {"Completed", "Pending", "TimedOut"}]
  BY <1>1 DEF WaitInv, WaitTypeOK
<1> QED
  BY <1>1, <1>2, OutcomeKeeps

LEMMA FutexGoesOnKeeps ==
    ASSUME Inv, NEW t \in Threads, FutexGoesOn(t), UNCHANGED <<semVars, eventVars>>
    PROVE  Inv'
<1>1. WaitInv /\ FutexInv /\ NothingLost /\ SemInv /\ EventInv
  BY DEF Inv
<1>2. UNCHANGED <<permits, issued, acquired, signaled, sent, consumed>>
  BY DEF semVars, eventVars, ghostVars
<1>3. CASE GetOrCreateQueue(t)
  <2>1. mode' = mode
    BY <1>3 DEF GetOrCreateQueue
  <2> QED
    BY <1>1, <1>3, <2>1, GetOrCreateKeeps, GetOrCreateServes, FutexCallKeeps
<1>4. ASSUME NEW timed \in mode.timed, FutexBlocks(t, timed) PROVE Inv'
  <2>1. /\ WaitInv' /\ FutexInv' /\ holds[t] \in Futexes /\ holds[t] \in Queues
        /\ MayRun(t) /\ waking[t] = <<>> /\ waitingOn[t] = None /\ Block(t, holds[t], timed)
    BY <1>1, <1>4, FutexBlocksKeeps, FutexNames
  <2>2. PICK q \in Futexes : q = holds[t]
    BY <2>1
  <2>3. q \in Queues /\ q \notin Semaphores /\ q \notin Events /\ mode' = mode
    BY <2>1, <2>2, SemaphoresAreQueues DEF Block
  <2>4. \A r \in Queues : /\ InFlight(r)' = InFlight(r)
                          /\ r # q => Sleepers(r)' \subseteq Sleepers(r)
    BY <1>1, <2>1, <2>2, <2>3, BlockEffect
  <2>5. SemInv' /\ EventInv'
    BY <1>1, <1>2, <2>3, <2>4, SemBlocks, EventBlocks
  <2>6. NothingLost'
    BY <1>1, <1>4, FutexBlocksServes
  <2> QED
    BY <2>1, <2>5, <2>6 DEF Inv
<1>5. CASE FutexUnblocked(t)
  <2>1. WaitInv' /\ FutexInv' /\ Departs(t) /\ waitingOn[t] \in Futexes
    BY <1>1, <1>5, FutexUnblockedKeeps
  <2>2. waitingOn[t] \notin Semaphores /\ mode' = mode /\ consumed' \in [AutoReset -> Nat]
    BY <1>1, <1>2, <1>5, <2>1, SemaphoresAreQueues DEF FutexUnblocked, LeaveWait, EventInv
  <2>3. SemInv'
    BY <1>1, <1>2, <2>1, <2>2, SemDeparts
  <2>4. EventInv'
    BY <1>1, <1>2, <2>1, <2>2, EventDeparts
  <2>5. NothingLost'
    BY <1>1, <1>5, FutexUnblockedServes
  <2> QED
    BY <2>1, <2>3, <2>4, <2>5 DEF Inv
<1>6. CASE WaiterCount(t)
  <2>1. mode' = mode
    BY <1>6 DEF WaiterCount
  <2> QED
    BY <1>1, <1>6, <2>1, WaiterCountKeeps, PruningServes, FutexCallKeeps
<1>7. CASE MaybePruneQueue(t)
  <2>1. UNCHANGED waitVars
    BY <1>7 DEF MaybePruneQueue
  <2> QED
    BY <1>1, <1>7, <2>1, NoWaitTouched, MaybePruneKeeps, PruningServes, FutexCallKeeps
<1>8. CASE FutexWakeOne(t)
  <2>1. /\ WaitInv' /\ FutexInv' /\ holds[t] \in Futexes /\ holds[t] \in Queues
        /\ 1 \in 0 .. Len(Pruned(holds[t])) /\ Select(t, holds[t], 1) /\ waking[t] = <<>>
    BY <1>1, <1>8, FutexWakeOneKeeps, FutexNames
  <2>2. PICK q \in Futexes : q = holds[t]
    BY <2>1
  <2>3. /\ q \in Queues /\ q \notin Semaphores /\ q \notin Events /\ q \notin AutoReset
        /\ mode' = mode
    BY <2>1, <2>2, SemaphoresAreQueues, EventsAreQueues DEF Select
  <2>4. /\ \A r \in Queues : r # q => Sleepers(r)' = Sleepers(r) /\ InFlight(r)' = InFlight(r)
        /\ HandsOver(q, 1)
    BY <1>1, <2>1, <2>2, SelectEffect
  <2>5. 1 \in Nat /\ 1 <= 1 /\ ~(1 < 1)
    BY SMT, Z3T(40)
  <2>6. SemInv'
    BY <1>1, <1>2, <2>3, <2>4, <2>5, SemHandsOver
  <2>7. EventInv'
    BY <1>1, <1>2, <2>3, <2>4, <2>5, EventHandsOver
  <2>8. NothingLost'
    BY <1>1, <1>8, FutexWakeOneServes
  <2> QED
    BY <2>1, <2>6, <2>7, <2>8 DEF Inv
<1>9. CASE FutexWakeEnds(t)
  <2>1. mode' = mode
    BY <1>9 DEF FutexWakeEnds
  <2> QED
    BY <1>1, <1>9, <2>1, FutexWakeEndsKeeps, FutexWakeEndsServes, FutexCallKeeps
<1> QED
  BY <1>3, <1>4, <1>5, <1>6, <1>7, <1>8, <1>9 DEF FutexGoesOn

LEMMA FtxKeeps ==
    ASSUME Inv, Ftx
    PROVE  Inv'
<1>1. WaitInv /\ FutexInv /\ NothingLost
  BY DEF Inv
<1>2. PICK t \in Threads :
          \/ FutexGoesOn(t)
          \/ \E u \in Words : \/ SetWord(t, u) \/ FutexWait(t, u)
                              \/ \E n \in {1, Cardinality(Threads)} : FutexWake(t, u, n)
  BY DEF Ftx, FutexStep
<1>3. UNCHANGED <<semVars, eventVars>>
  BY DEF Ftx
<1>4. ASSUME NEW u \in Words, SetWord(t, u) PROVE Inv'
  <2>1. UNCHANGED waitVars /\ UNCHANGED <<waitingOn, at, entry, holds, on>>
    BY <1>4 DEF SetWord, waitVars
  <2> QED
    BY <1>1, <1>3, <1>4, <2>1, NoWaitTouched, FutexFrame, SetWordServes, FutexCallKeeps
<1>5. ASSUME NEW u \in Words, FutexWait(t, u) PROVE Inv'
  <2>1. UNCHANGED waitVars
    BY <1>5 DEF FutexWait
  <2> QED
    BY <1>1, <1>3, <1>5, <2>1, NoWaitTouched, FutexWaitKeeps, FutexWaitServes, FutexCallKeeps
<1>6. ASSUME NEW u \in Words, NEW n \in {1, Cardinality(Threads)}, FutexWake(t, u, n) PROVE Inv'
  <2>1. UNCHANGED waitVars
    BY <1>6 DEF FutexWake
  <2>2. n \in Nat
    <3>1. Cardinality(Threads) \in Nat /\ 1 \in Nat
      BY ThreadsAssumption, FS_CardinalityType, SMT, Z3T(40)
    <3> QED
      BY <3>1
  <2> QED
    BY <1>1, <1>3, <1>6, <2>1, <2>2, NoWaitTouched, FutexWakeKeeps, FutexWakeServes, FutexCallKeeps
<1> QED
  BY <1>2, <1>3, <1>4, <1>5, <1>6, FutexGoesOnKeeps

LEMMA TimerKeeps ==
    ASSUME Inv, Timer
    PROVE  Inv'
<1>1. TimerStep /\ UNCHANGED <<semVars, eventVars, futexVars>>
  BY DEF Timer
<1>2. WaitInv' /\ Undisturbed
  BY <1>1, StepsKeep, TimerEffect DEF Inv
<1>3. UNCHANGED <<waitingOn, mode>>
  BY <1>1 DEF TimerStep, Tick, Expire
<1> QED
  BY <1>1, <1>2, <1>3, CalmElsewhere, FutexCallKeeps

(* Where nobody is killed or times out wake_thread refuses no waiter. *)
LEMMA WakeKeeps ==
    ASSUME Inv, NEW w \in Threads, Wake(w)
    PROVE  Inv'
<1>1. WakeStep(w) /\ UNCHANGED <<semVars, eventVars>>
  BY DEF Wake
<1>2. /\ WaitInv' /\ Undisturbed
      /\ Unharmed => \/ Len(waking'[w]) = Len(waking[w])
                     \/ Head(waking[w]).stage \in {"woken", "again"}
  BY <1>1, StepsKeep, WakeEffect DEF Inv
<1>3. UNCHANGED <<waitingOn, mode>>
  BY <1>1 DEF WakeStep, WakeCheck, WakeSet, WakePlace
<1>4. CASE UNCHANGED futexVars
  BY <1>1, <1>2, <1>3, <1>4, CalmElsewhere, FutexCallKeeps
<1>5. CASE FutexWoke(w)
  <2>1. /\ remaining' = [remaining EXCEPT ![w] = IF Refused(w) THEN 0 ELSE remaining[w]]
        /\ UNCHANGED <<at, word, entry, holds, on, expects, owes>>
    BY <1>5 DEF FutexWoke
  <2>2. remaining \in [Threads -> Nat] /\ waking \in [Threads -> Seq(WakeEntry)]
    BY DEF Inv, NothingLost, DebtTypeOK, WaitInv, WaitTypeOK
  <2>3. Quiet => ~Refused(w)
    <3>1. Quiet => Unharmed
      BY DEF Quiet, Unharmed
    <3>2. Len(waking'[w]) = Len(waking[w]) => ~(Len(waking'[w]) < Len(waking[w]))
      <4> DEFINE l == Len(waking[w])
      <4>1. waking[w] \in Seq(WakeEntry)
        BY <2>2
      <4>2. l \in Nat
        BY SMT, Z3T(40), <4>1
      <4> HIDE DEF l
      <4>3. ~(l < l)
        BY SMT, Z3T(40), <4>2
      <4> QED
        BY <4>3 DEF l
    <3> QED
      BY <1>2, <3>1, <3>2 DEF Refused
  <2>4. remaining' \in [Threads -> Nat]
    <3>1. 0 \in Nat
      BY SMT, Z3T(40)
    <3> QED
      BY <2>1, <2>2, <3>1
  <2>5. Quiet => remaining' = remaining
    BY SMT, Z3T(40), <2>1, <2>2, <2>3
  <2>6. DeadStayDead /\ \A q \in Futexes : Sleepers(q)' \subseteq Sleepers(q)
    BY <1>2, FutexNames DEF Undisturbed
  <2>7. FutexInv' /\ NothingLost'
    BY <1>3, <2>1, <2>4, <2>5, <2>6, FutexFrame, FutexCalm DEF Inv
  <2> QED
    BY <1>1, <1>2, <1>3, <2>7, FutexCallKeeps
<1> QED
  BY <1>4, <1>5 DEF Wake

LEMMA KilledKeeps ==
    ASSUME Inv, NEW k \in Threads, NEW t \in Threads, Killed(k, t)
    PROVE  Inv'
<1>1. Kill(k, t) /\ SemKilled(t) /\ UNCHANGED <<eventVars, futexVars>>
  BY DEF Killed
<1>2. WaitInv' /\ Departs(t) /\ UNCHANGED <<waitingOn, mode>>
  BY <1>1, KillKeeps, KillEffect DEF Inv, Kill
<1>3. SemInv'
  <2>1. /\ permits' = permits /\ issued' = issued
        /\ acquired' = IF /\ state[t] = "Active" /\ waitingOn[t] \in Semaphores
                          /\ outcome[t] = "Completed"
                       THEN [acquired EXCEPT ![waitingOn[t]] = acquired[waitingOn[t]] + 1]
                       ELSE acquired
    BY <1>1 DEF SemKilled
  <2> QED
    BY <1>2, <2>1, SemDeparts DEF Inv
<1>4. EventInv'
  <2>1. UNCHANGED <<signaled, sent, consumed>> /\ consumed' \in [AutoReset -> Nat]
    BY <1>1 DEF eventVars, ghostVars, Inv, EventInv
  <2> QED
    BY <1>2, <2>1, EventDeparts DEF Inv
<1>5. UNCHANGED <<at, word, entry, holds, on, expects, remaining, owes>>
  BY <1>1 DEF futexVars
<1>6. DeadStayDead /\ \A q \in Futexes : Sleepers(q)' \subseteq Sleepers(q)
  BY <1>2, FutexNames DEF Departs
<1>7. remaining' \in [Threads -> Nat]
  BY <1>5 DEF Inv, NothingLost, DebtTypeOK
<1>8. FutexInv' /\ NothingLost'
  BY <1>2, <1>5, <1>6, <1>7, FutexFrame, FutexCalm DEF Inv
<1> QED
  BY <1>2, <1>3, <1>4, <1>8 DEF Inv

LEMMA StutterKeeps ==
    ASSUME Inv, UNCHANGED vars
    PROVE  Inv'
<1>1. UNCHANGED <<waitVars, semVars, eventVars, futexVars>>
  BY DEF vars
<1>2. WaitInv' /\ Undisturbed /\ UNCHANGED <<waitingOn, mode>>
  BY <1>1, NoWaitTouched DEF Inv, waitVars
<1> QED
  BY <1>1, <1>2, CalmElsewhere, FutexCallKeeps

LEMMA NextKeeps ==
    ASSUME Inv, [WaitsNext]_vars
    PROVE  Inv'
  BY SemKeeps, EvtKeeps, FtxKeeps, TimerKeeps, WakeKeeps, KilledKeeps, StutterKeeps DEF WaitsNext

LEMMA WaitsStart ==
    ASSUME WaitsInit, \A m \in Modes : m.interleave => TRUE \notin m.timed
    PROVE  Inv
<1>1. WaitInit /\ SemInit /\ EventInit /\ FutexInit
  BY DEF WaitsInit
<1>2. WaitInv
  BY <1>1, WaitStarts
<1>3. ASSUME NEW q \in Queues PROVE InFlight(q) = {} /\ Sleepers(q) = {}
  <2>1. \A t \in Threads : waitingOn[t] = None /\ state[t] = "Active"
    BY <1>1 DEF WaitInit
  <2>2. q # None
    BY ThreadsAssumption DEF None
  <2>3. InFlight(q) = {}
    BY <2>1, <2>2 DEF InFlight
  <2>4. waiters[q] = <<>>
    BY <1>1 DEF WaitInit
  <2>5. Elements(<<>>) = {}
    <3>1. 1 .. Len(<<>>) = {}
      BY SMT, Z3T(40)
    <3> QED
      BY <3>1 DEF Elements
  <2> QED
    BY <2>3, <2>4, <2>5 DEF Sleepers
<1>4. Cardinality({}) = 0
  BY FS_EmptySet
<1>5. SemInv
  <2>1. \A s \in Semaphores : OnTheirWay(s) = 0 /\ Sleepers(s) = {}
    BY <1>3, <1>4, SemaphoreAssumption DEF OnTheirWay
  <2>2. Initial \in Nat
    BY SemaphoreAssumption
  <2>3. /\ permits = [s \in Semaphores |-> Initial] /\ issued = [s \in Semaphores |-> Initial]
        /\ acquired = [s \in Semaphores |-> 0]
    BY <1>1 DEF SemInit
  <2> QED
    BY SMT, Z3T(40), <2>1, <2>2, <2>3 DEF SemInv
<1>6. EventInv
  <2>1. \A e \in Events : Cardinality(InFlight(e)) = 0 /\ Sleepers(e) = {}
    BY <1>3, <1>4, EventsAreQueues
  <2>2. /\ signaled = [e \in Events |-> FALSE]
        /\ sent = [e \in AutoReset |-> 0] /\ consumed = [e \in AutoReset |-> 0]
    BY <1>1 DEF EventInit
  <2>3. \A e \in AutoReset : Flag(e) = 0 /\ Cardinality(InFlight(e)) = 0
    BY <2>1, <2>2, EventsAreQueues DEF Flag
  <2> QED
    BY SMT, Z3T(40), <2>1, <2>2, <2>3 DEF EventInv
<1>7. FutexInv
  <2>1. /\ at = [t \in Threads |-> "user"] /\ waitingOn = [t \in Threads |-> None]
        /\ on = [t \in Threads |-> None] /\ holds = [t \in Threads |-> None]
        /\ entry = [u \in Words |-> None]
    BY <1>1 DEF WaitInit, FutexInit
  <2>2. FutexTypeOK /\ OneKey
    BY <2>1 DEF FutexTypeOK, OneKey
  <2>3. \A t \in Threads : InCall(t)
    BY <2>1, FutexNames DEF InCall
  <2> QED
    BY <2>2, <2>3 DEF FutexInv
<1>8. NothingLost
  <2>1. at = [t \in Threads |-> "user"]
    BY <1>1 DEF WaitInit
  <2>2. \A x \in Threads : Served(x)
    BY <2>1 DEF Served
  <2>3. 0 \in Nat
    BY SMT, Z3T(40)
  <2>4. DebtTypeOK
    BY <1>1, <2>3 DEF FutexInit, DebtTypeOK
  <2> QED
    BY <2>2, <2>4 DEF NothingLost
<1> QED
  BY <1>2, <1>5, <1>6, <1>7, <1>8 DEF Inv

-----------------------------------------------------------------------------
(* What follows from it. *)
(* A sleeper that no waker has selected is linked in its queue. *)
LEMMA SleepersLinked ==
    ASSUME WaitInv, NEW t \in Threads, state[t] = "Waiting", ~BeingWoken(t)
    PROVE  waitingOn[t] \in Queues /\ \A q : q = waitingOn[t] => t \in Sleepers(q)
  BY DEF WaitInv, Found, Sleepers

(* Each theorem is for any threads, queues and words, on machines that do   *)
(* not cross a wake-up of a timed wait with other threads: uniprocessors     *)
(* that do not preempt the kernel, or callers that pass no timeout.         *)
ModesAreOrderly == \A m \in Modes : m.interleave => TRUE \notin m.timed

(* The invariant holds whatever the calls, the timer, the wakers and the     *)
(* killers do, and in whatever order.                                      *)
THEOREM InvHolds ==
    ASSUME ModesAreOrderly
    PROVE  WaitsSpec => []Inv
<1>1. WaitsInit => Inv
  BY WaitsStart DEF ModesAreOrderly
<1>2. Inv /\ [WaitsNext]_vars => Inv'
  BY NextKeeps
<1> QED
  BY <1>1, <1>2, PTL DEF WaitsSpec

(* Semaphore: a permit that is free while a thread sleeps on the semaphore   *)
(* means that a release is about to wake that thread.                       *)
THEOREM FreePermitsFindSleepers ==
    ASSUME ModesAreOrderly
    PROVE  WaitsSpec => []NoIdlePermit
<1>1. Inv => NoIdlePermit
  <2> SUFFICES ASSUME Inv, NEW s \in Semaphores, permits[s] > 0, NEW t \in Threads,
                      state[t] = "Waiting", waitingOn[t] = s
               PROVE  BeingWoken(t)
    BY DEF NoIdlePermit
  <2>1. Sleepers(s) = {}
    BY DEF Inv, SemInv
  <2> QED
    BY <2>1, SleepersLinked DEF Inv
<1> QED
  BY <1>1, InvHolds, PTL

(* Semaphore: nobody is told of a permit that was not issued; and without    *)
(* timeouts none is lost between release, acquire, wake-up and termination.  *)
THEOREM PermitsAreAccounted ==
    ASSUME ModesAreOrderly
    PROVE  WaitsSpec => []PermitsAccounted
<1>1. Inv => PermitsAccounted
  <2> SUFFICES ASSUME Inv PROVE PermitsAccounted
    OBVIOUS
  <2>1. ASSUME NEW s \in Semaphores PROVE permits[s] + acquired[s] <= issued[s]
    <3> DEFINE c == OnTheirWay(s)
    <3>1. /\ permits[s] \in Nat /\ acquired[s] \in Nat /\ issued[s] \in Nat
          /\ permits[s] + acquired[s] + c <= issued[s]
      BY DEF Inv, SemInv
    <3>2. c \in Nat
      BY FlightIsOfThreads, Sizes DEF OnTheirWay
    <3> HIDE DEF c
    <3> QED
      BY SMT, Z3T(40), <3>1, <3>2
  <2>2. Unharmed => PermitConservation
    BY DEF Inv, SemInv, PermitConservation
  <2> QED
    BY <2>1, <2>2 DEF PermitsAccounted, Unharmed, NoTimeouts
<1> QED
  BY <1>1, InvHolds, PTL

(* Event: a thread asleep on a signaled event is being woken. *)
THEOREM SetEventsWake ==
    ASSUME ModesAreOrderly
    PROVE  WaitsSpec => []SetEventHasNoSleeper
<1>1. Inv => SetEventHasNoSleeper
  <2> SUFFICES ASSUME Inv, NEW t \in Threads, state[t] = "Waiting", waitingOn[t] \in Events,
                      signaled[waitingOn[t]]
               PROVE  BeingWoken(t)
    BY DEF SetEventHasNoSleeper
  <2>1. PICK e \in Events : e = waitingOn[t]
    OBVIOUS
  <2>2. Sleepers(e) = {}
    BY <2>1 DEF Inv, EventInv
  <2> QED
    BY <2>1, <2>2, SleepersLinked DEF Inv
<1> QED
  BY <1>1, InvHolds, PTL

(* Event: an auto-reset event completes no more waits than it was signaled.  *)
THEOREM OneWaitForEachSignal ==
    ASSUME ModesAreOrderly
    PROVE  WaitsSpec => []OneWaitPerSignal
<1>1. Inv => OneWaitPerSignal
  <2> SUFFICES ASSUME Inv, NEW e \in AutoReset PROVE consumed[e] <= sent[e]
    BY DEF OneWaitPerSignal
  <2> DEFINE c == Cardinality(InFlight(e))
             f == Flag(e)
  <2>1. /\ consumed[e] \in Nat /\ sent[e] \in Nat /\ consumed[e] + c + f <= sent[e]
    BY DEF Inv, EventInv
  <2>2. c \in Nat
    BY FlightIsOfThreads, Sizes
  <2>3. f \in Nat
    BY SMT, Z3T(40) DEF Flag
  <2> HIDE DEF c, f
  <2> QED
    BY SMT, Z3T(40), <2>1, <2>2, <2>3
<1> QED
  BY <1>1, InvHolds, PTL

(* Futex: whoever sleeps on a word sleeps on the queue that FUTEX_WAKE will  *)
(* find for it, although queues are created, shared and pruned meanwhile.   *)
THEOREM FutexWaitersAreRegistered ==
    ASSUME ModesAreOrderly
    PROVE  WaitsSpec => []FutexWaiterRegistered
<1>1. Inv => FutexWaiterRegistered
  BY CallFacts DEF Inv, FutexWaiterRegistered
<1> QED
  BY <1>1, InvHolds, PTL

(* Futex: without interleaved calls and timeouts, no thread is left asleep   *)
(* on a word that has changed after whoever changed it has called FUTEX_WAKE. *)
THEOREM FutexWakesAreKept ==
    ASSUME ModesAreOrderly
    PROVE  WaitsSpec => []UntimedFutexWakesKept
<1>1. Inv => UntimedFutexWakesKept
  <2> SUFFICES ASSUME Inv, Quiet, NEW t \in Threads, at[t] = "blocked", state[t] = "Waiting",
                      word[on[t]] # expects[t], ~BeingWoken(t)
               PROVE  \E w \in Threads : owes[w] = on[t]
    BY DEF UntimedFutexWakesKept, NoLostFutexWake, Quiet, NoTimeouts
  <2>1. PICK q \in Futexes : q = holds[t]
    BY CallFacts DEF Inv
  <2>2. waitingOn[t] = q
    BY <2>1 DEF Inv, FutexInv, InCall
  <2>3. t \in Sleepers(q)
    BY <2>2, SleepersLinked DEF Inv
  <2> QED
    BY <2>1, <2>3 DEF Inv, NothingLost, Served
<1> QED
  BY <1>1, InvHolds, PTL
=============================================================================
