---------------------------- MODULE ProcessProofs ----------------------------
(***************************************************************************)
(* Proofs about what belongs to a process: the memory it shares, its end.   *)
(*                                                                         *)
(* SharedMemory, for processes that attach a segment once and are not       *)
(* preempted in a call, for any number of processes, keys, segments and     *)
(* addresses: the inductive invariant, its preservation by making,          *)
(* attaching, detaching and removing segments and by the end of a process,  *)
(* and what follows from it.                                               *)
(*                                                                         *)
(* Termination, for any number of killers and waiters, on machines where    *)
(* one call at a time tears the process down: one CPU that does not preempt *)
(* the kernel, or several CPUs on which the process either exits or has its *)
(* sleeping thread killed by one killer while those who wait for it already *)
(* sleep.                                                                  *)
(***************************************************************************)
EXTENDS SharedMemory, Termination, FiniteSetTheorems, TLAPS

\* A leaf that names no prover is for Zenon.
USE ZenonT(60)

-----------------------------------------------------------------------------
(* Shared memory. *)

Disciplined == "again" \notin Allowed /\ "preempt" \notin Allowed

Attachment == [id : Ids, va : Nat]

Call == [at : {"user", "detach", "forget", "reap", "exit", "clear"},
         id : Ids \cup {NoId},
         found : SUBSET Attachment,
         owner : Processes \cup {NoId}]

\* Every variable has its type.
ShmTypeOK ==
  /\ byId \subseteq Ids
  /\ byKey \in [Keys -> Ids \cup {NoId}]
  /\ nextId \in Nat
  /\ keyOf \in [Ids -> Keys \cup {NoId}]
  /\ size \in [Ids -> Nat]
  /\ attachCount \in [Ids -> Nat]
  /\ deleted \in [Ids -> BOOLEAN]
  /\ attachments \in [Processes -> SUBSET Attachment]
  /\ mapped \in [Processes -> SUBSET Attachment]
  /\ vaHint \in [Processes -> Nat]
  /\ gone \subseteq Processes
  /\ call \in [Processes -> Call]

Detaching(r, p) == call[r].at \in {"exit", "clear"} /\ call[r].owner = p

\* p has the segment attached, and attach_count counts it: it has not been
\* counted down by a detach that has yet to change the list.
Holds(p, id) ==
  /\ \E a \in attachments[p] : a.id = id
  /\ ~ (call[p].at = "forget" /\ call[p].id = id)
  /\ \A r \in Processes : ~ (call[r].at = "clear" /\ call[r].owner = p)

Holders(id) == {p \in Processes : Holds(p, id)}

CountIsHolders == \A id \in byId : attachCount[id] = Cardinality(Holders(id))

HeldIsKnown == \A p \in Processes, id \in Ids : Holds(p, id) => id \in byId

AttachedOnce == \A p \in Processes : \A a, b \in attachments[p] : a.id = b.id => a = b

MappedIsHeld ==
  \A p \in Processes \ gone : \A m \in mapped[p] :
    Holds(p, m.id) /\ \E a \in attachments[p] : a.id = m.id /\ m.va \in Addresses(a)

\* What a process knows in the middle of a call is still so.
CallOK(p) ==
  /\ call[p].at \in {"detach", "forget", "reap"} => p \notin gone /\ call[p].id \in Ids
  /\ call[p].at = "detach" => Holds(p, call[p].id) /\ call[p].found = Of(attachments[p], call[p].id)
  /\ call[p].at = "forget" => Of(attachments[p], call[p].id) # {}
  /\ call[p].at \in {"exit", "clear"} => call[p].owner \in gone
  /\ call[p].at = "exit" => call[p].found = attachments[call[p].owner]
  /\ p \in gone => call[p].at = "user" \/ Detaching(p, p)
  /\ \A r \in Processes : Detaching(p, call[p].owner) /\ Detaching(r, call[p].owner) => r = p

\* A removed segment in the registry is held, or will be reaped.
RemovedIsPending ==
  \A id \in byId : deleted[id] =>
    attachCount[id] # 0 \/ \E p \in Processes : call[p].at \in {"forget", "reap"} /\ call[p].id = id

KeysAgree ==
  /\ \A k \in Keys : byKey[k] # NoId => byKey[k] \in byId /\ keyOf[byKey[k]] = k
  /\ \A id \in byId : keyOf[id] \in Keys /\ byKey[keyOf[id]] = id

\* An id that was not given yet is nowhere.
UnusedIsFresh ==
  /\ \A id \in Ids : id >= nextId => id \notin byId /\ attachCount[id] = 0 /\ ~ deleted[id]
  /\ \A p \in Processes : \A a \in attachments[p] : a.id < nextId

IInv ==
  /\ ShmTypeOK
  /\ CountIsHolders /\ HeldIsKnown /\ AttachedOnce /\ MappedIsHeld
  /\ \A p \in Processes : CallOK(p)
  /\ RemovedIsPending /\ KeysAgree /\ UnusedIsFresh

-----------------------------------------------------------------------------
(* Sets of processes are finite. *)
LEMMA ProcessSets ==
  ASSUME NEW S \in SUBSET Processes
  PROVE  IsFiniteSet(S) /\ Cardinality(S) \in Nat /\ Cardinality(S) <= Cardinality(Processes)
<1>1. IsFiniteSet(Processes)
  BY ShmAssumption
<1>2. IsFiniteSet(S) /\ Cardinality(S) <= Cardinality(Processes)
  BY <1>1, FS_Subset
<1> QED
  BY <1>2, FS_CardinalityType

(* A call that a step leaves alone, with what the call rests on: a detach    *)
(* still finds what it found, and nobody joins the detaching of its process.  *)
LEMMA CallStays ==
  ASSUME NEW r \in Processes, CallOK(r), call'[r] = call[r],
         gone \subseteq gone', r \in gone' => r \in gone,
         call[r].at = "detach" => Holds(r, call[r].id)',
         call[r].at \in {"detach", "forget"} => attachments'[r] = attachments[r],
         call[r].at = "exit" => attachments'[call[r].owner] = attachments[call[r].owner],
         \A x \in Processes : \A o : Detaching(r, o) /\ Detaching(x, o)' => Detaching(x, o)
  PROVE  CallOK(r)'
<1>1. \A o : Detaching(r, o)' <=> Detaching(r, o)
  BY DEF Detaching
<1>2. /\ call[r].at = "detach" => call[r].found = Of(attachments'[r], call[r].id)
      /\ call[r].at = "forget" => Of(attachments'[r], call[r].id) # {}
  BY DEF CallOK
<1>3. /\ call[r].at = "exit" => call[r].found = attachments'[call[r].owner]
      /\ call[r].at \in {"detach", "forget", "reap"} => r \notin gone' /\ call[r].id \in Ids
      /\ call[r].at \in {"exit", "clear"} => call[r].owner \in gone'
      /\ r \in gone' => call[r].at = "user" \/ Detaching(r, r)'
  BY <1>1 DEF CallOK
<1>4. \A x \in Processes : Detaching(r, call[r].owner)' /\ Detaching(x, call[r].owner)' => x = r
  BY <1>1 DEF CallOK, Detaching
<1> QED
  BY <1>2, <1>3, <1>4 DEF CallOK, Detaching, Of

(* The initial state. *)
LEMMA InitIInv == ShmInit => IInv
<1> SUFFICES ASSUME ShmInit PROVE IInv
  OBVIOUS
<1>1. ShmTypeOK
  BY ShmAssumption DEF ShmInit, ShmTypeOK, Rest, Call, Attachment
<1>2. CountIsHolders /\ HeldIsKnown /\ AttachedOnce /\ MappedIsHeld
  BY DEF ShmInit, CountIsHolders, HeldIsKnown, AttachedOnce, MappedIsHeld, Holds
<1>3. \A p \in Processes : CallOK(p)
  BY DEF ShmInit, CallOK, Rest, Detaching
<1>4. RemovedIsPending /\ KeysAgree /\ UnusedIsFresh
  BY DEF ShmInit, RemovedIsPending, KeysAgree, UnusedIsFresh
<1> QED
  BY <1>1, <1>2, <1>3, <1>4 DEF IInv

-----------------------------------------------------------------------------
(* Calls that change neither a list nor what a process is doing: the holders  *)
(* stay the same.                                                             *)
LEMMA SameHolders ==
  ASSUME UNCHANGED <<attachments, call>>
  PROVE  /\ \A p, id : Holds(p, id)' <=> Holds(p, id)
         /\ \A id : Holders(id)' = Holders(id)
<1>1. \A p, id : Holds(p, id)' <=> Holds(p, id)
  BY DEF Holds
<1> QED
  BY <1>1 DEF Holders

LEMMA ShmgetKeeps ==
  ASSUME IInv, NEW p \in Processes, NEW k \in Keys, NEW n \in Sizes, Shmget(p, k, n)
  PROVE  IInv'
<1> USE DEF IInv
<1>1. ShmTypeOK'
  BY SMT, Z3T(40), ShmAssumption DEF Shmget, ShmTypeOK, processVars, segmentVars
<1>2. UNCHANGED <<attachments, call>>
  BY DEF Shmget
<1>3. /\ \A q, id : Holds(q, id)' <=> Holds(q, id)
      /\ \A id : Holders(id)' = Holders(id)
  BY <1>2, SameHolders
<1>4. nextId \in Ids /\ nextId \notin byId /\ attachCount[nextId] = 0 /\ ~ deleted[nextId]
  BY SMT, Z3T(40) DEF Shmget, UnusedIsFresh, ShmTypeOK
<1>5. \A q \in Processes : \A a \in attachments[q] : a.id # nextId
  BY SMT, Z3T(40) DEF UnusedIsFresh, ShmTypeOK, Attachment
<1>6. Holders(nextId) = {}
  BY <1>5 DEF Holders, Holds
<1>7. CountIsHolders'
  <2> SUFFICES ASSUME NEW id \in byId' PROVE attachCount'[id] = Cardinality(Holders(id)')
    BY DEF CountIsHolders
  <2>1. CASE id = nextId
    BY <1>3, <1>4, <1>6, <2>1, FS_EmptySet DEF Shmget
  <2>2. CASE id # nextId
    BY <1>3, <2>2 DEF Shmget, CountIsHolders
  <2> QED
    BY <2>1, <2>2
<1>8. HeldIsKnown' /\ AttachedOnce'
  BY <1>2, <1>3 DEF HeldIsKnown, AttachedOnce, Shmget
<1>9. MappedIsHeld'
  <2> SUFFICES ASSUME NEW q \in Processes \ gone, NEW m \in mapped[q]
               PROVE  Holds(q, m.id) /\ \E a \in attachments[q] : a.id = m.id /\ m.va \in Addresses(a)'
    BY <1>2, <1>3 DEF MappedIsHeld, Shmget, processVars
  <2>1. Holds(q, m.id) /\ \E a \in attachments[q] : a.id = m.id /\ m.va \in Addresses(a)
    BY DEF MappedIsHeld
  <2>2. \A a \in attachments[q] : size'[a.id] = size[a.id]
    BY SMT, Z3T(40), <1>5 DEF Shmget, ShmTypeOK, Attachment
  <2> QED
    BY <2>1, <2>2 DEF Addresses
<1>10. \A q \in Processes : CallOK(q)'
  BY SMT, Z3T(40), <1>2, <1>3 DEF CallOK, Detaching, Of, Shmget, processVars
<1>11. RemovedIsPending'
  BY <1>4 DEF RemovedIsPending, Shmget
<1>12. KeysAgree'
  BY SMT, Z3T(40), <1>4, ShmAssumption DEF KeysAgree, Shmget, ShmTypeOK
<1>13. UnusedIsFresh'
  <2>1. nextId \in Nat /\ nextId' = nextId + 1 /\ byId' = byId \cup {nextId}
    BY DEF Shmget, ShmTypeOK
  <2>2. \A id \in Ids : id \in Nat
    BY ShmAssumption
  <2>3. \A q \in Processes : \A a \in attachments[q] : a.id \in Ids
    BY SMT, Z3T(40) DEF ShmTypeOK, Attachment
  <2>4. UNCHANGED <<attachCount, deleted, attachments>>
    BY DEF Shmget
  <2> QED
    BY SMT, Z3T(40), <2>1, <2>2, <2>3, <2>4 DEF UnusedIsFresh
<1> QED
  BY <1>1, <1>7, <1>8, <1>9, <1>10, <1>11, <1>12, <1>13

LEMMA QuietKeeps ==
  ASSUME IInv, NEW p \in Processes,
         \/ \E k \in Keys : ShmgetFails(p, k)
         \/ \E id \in Ids : ShmatFails(p, id)
         \/ Exec(p)
  PROVE  IInv'
<1> USE DEF IInv
<1>1. UNCHANGED <<byId, byKey, keyOf, size, attachCount, deleted, attachments, gone, call>>
  BY DEF ShmgetFails, ShmatFails, Exec, segmentVars, processVars
<1>2. /\ nextId' \in Nat /\ nextId' >= nextId
      /\ vaHint' \in [Processes -> Nat]
      /\ mapped' \in [Processes -> SUBSET Attachment]
      /\ \A q \in Processes : mapped'[q] \subseteq mapped[q]
  BY SMT, Z3T(40) DEF ShmgetFails, ShmatFails, Exec, segmentVars, processVars, MovesHint, ShmTypeOK
<1>3. /\ \A q, id : Holds(q, id)' <=> Holds(q, id)
      /\ \A id : Holders(id)' = Holders(id)
  BY <1>1, SameHolders
<1>4. ShmTypeOK'
  BY <1>1, <1>2 DEF ShmTypeOK
<1>5. CountIsHolders' /\ HeldIsKnown' /\ AttachedOnce'
  BY <1>1, <1>3 DEF CountIsHolders, HeldIsKnown, AttachedOnce
<1>6. MappedIsHeld'
  BY <1>1, <1>2, <1>3 DEF MappedIsHeld, Addresses
<1>7. \A q \in Processes : CallOK(q)'
  BY SMT, Z3T(40), <1>1, <1>3 DEF CallOK, Detaching, Of
<1>8. RemovedIsPending' /\ KeysAgree'
  BY <1>1 DEF RemovedIsPending, KeysAgree
<1>9. UnusedIsFresh'
  <2>1. nextId \in Nat
    BY DEF ShmTypeOK
  <2>2. \A id \in Ids : id \in Nat
    BY ShmAssumption
  <2>3. \A q \in Processes : \A a \in attachments[q] : a.id \in Ids
    BY SMT, Z3T(40) DEF ShmTypeOK, Attachment
  <2> QED
    BY SMT, Z3T(40), <1>1, <1>2, <2>1, <2>2, <2>3 DEF UnusedIsFresh
<1> QED
  BY <1>4, <1>5, <1>6, <1>7, <1>8, <1>9

-----------------------------------------------------------------------------
(* shmat: the process becomes a holder, and the count cannot wrap because a   *)
(* process holds a segment once.                                              *)
LEMMA ShmatKeeps ==
  ASSUME IInv, Disciplined, NEW p \in Processes, NEW id \in Ids, Shmat(p, id)
  PROVE  IInv'
<1> DEFINE a == [id |-> id, va |-> vaHint[p]]
<1> USE DEF IInv
<1>1. /\ p \notin gone /\ call[p].at = "user" /\ id \in byId /\ ~ deleted[id]
      /\ Of(attachments[p], id) = {}
      /\ call' = call /\ gone' = gone /\ byId' = byId /\ size' = size
  BY DEF Shmat, Attachable, InUser, Disciplined, segmentVars
<1>2. /\ attachments' = [attachments EXCEPT ![p] = @ \cup {a}]
      /\ mapped' = [mapped EXCEPT ![p] = @ \cup Pages(a)]
      /\ attachCount' = [attachCount EXCEPT ![id] = CountedUp(id)]
      /\ UNCHANGED <<byKey, keyOf, nextId, deleted>>
  BY DEF Shmat, segmentVars
<1>3. a \in Attachment /\ a.id = id
  BY DEF ShmTypeOK, Attachment
<1>4. \A r \in Processes : ~ (call[r].at = "clear" /\ call[r].owner = p)
  BY SMT, Z3T(40), <1>1 DEF CallOK
<1>5. /\ attachments'[p] = attachments[p] \cup {a}
      /\ \A q \in Processes : q # p => attachments'[q] = attachments[q]
  BY <1>2 DEF ShmTypeOK
<1>6. \A q \in Processes, i \in Ids : Holds(q, i)' <=> Holds(q, i) \/ (q = p /\ i = id)
  BY <1>1, <1>3, <1>4, <1>5 DEF Holds
<1>7. ~ Holds(p, id)
  BY <1>1 DEF Holds, Of
<1>8. \A i \in Ids : i # id => Holders(i)' = Holders(i)
  BY <1>6 DEF Holders
<1>9. /\ Holders(id)' = Holders(id) \cup {p}
      /\ p \notin Holders(id)
      /\ Holders(id) \in SUBSET Processes
  BY <1>6, <1>7 DEF Holders
<1>10. /\ Cardinality(Holders(id) \cup {p}) = Cardinality(Holders(id)) + 1
       /\ Cardinality(Holders(id)) + 1 < CountSpace
       /\ Cardinality(Holders(id)) \in Nat
  <2>1. IsFiniteSet(Holders(id)) /\ Cardinality(Holders(id)) \in Nat
    BY <1>9, ProcessSets
  <2>2. Cardinality(Holders(id) \cup {p}) = Cardinality(Holders(id)) + 1
    BY <2>1, <1>9, FS_AddElement
  <2>3. Cardinality(Holders(id) \cup {p}) <= Cardinality(Processes)
    BY <1>9, ProcessSets
  <2>4. Cardinality(Processes) \in Nat /\ CountSpace \in Nat /\ CountSpace > Cardinality(Processes)
    BY ShmAssumption, FS_CardinalityType
  <2> QED
    BY SMT, Z3T(40), <2>1, <2>2, <2>3, <2>4
<1>11. attachCount[id] = Cardinality(Holders(id)) /\ attachCount \in [Ids -> Nat]
  BY <1>1 DEF CountIsHolders, ShmTypeOK
<1>12. CountedUp(id) = Cardinality(Holders(id)) + 1 /\ CountedUp(id) \in Nat \ {0}
  BY SMT, Z3T(40), <1>10, <1>11 DEF CountedUp
<1>13. ShmTypeOK'
  <2>1. Pages(a) \subseteq Attachment
    <3>1. \A v \in Addresses(a) : v \in Nat
      BY SMT, Z3T(40), <1>3 DEF Addresses, ShmTypeOK, Attachment
    <3> QED
      BY SMT, Z3T(40), <1>3, <3>1 DEF Pages, Attachment
  <2>2. vaHint' \in [Processes -> Nat]
    BY SMT, Z3T(40) DEF Shmat, MovesHint, ShmTypeOK
  <2> QED
    BY <1>1, <1>2, <1>3, <1>12, <2>1, <2>2 DEF ShmTypeOK
<1>14. CountIsHolders'
  BY <1>1, <1>2, <1>8, <1>9, <1>10, <1>12, <1>11 DEF CountIsHolders, ShmTypeOK
<1>15. HeldIsKnown'
  BY <1>1, <1>6 DEF HeldIsKnown
<1>16. AttachedOnce'
  BY SMT, Z3T(40), <1>1, <1>3, <1>5 DEF AttachedOnce, Of
<1>17. MappedIsHeld'
  <2> SUFFICES ASSUME NEW q \in Processes \ gone, NEW m \in mapped'[q]
               PROVE  Holds(q, m.id)' /\ \E b \in attachments'[q] : b.id = m.id /\ m.va \in Addresses(b)'
    BY <1>1 DEF MappedIsHeld
  <2>0. \A b : Addresses(b)' = Addresses(b)
    BY <1>1 DEF Addresses
  <2>1. CASE m \in mapped[q]
    <3>1. m.id \in Ids
      BY SMT, Z3T(40), <2>1 DEF ShmTypeOK, Attachment
    <3>2. Holds(q, m.id) /\ \E b \in attachments[q] : b.id = m.id /\ m.va \in Addresses(b)
      BY <2>1 DEF MappedIsHeld
    <3> QED
      BY <1>5, <1>6, <2>0, <3>1, <3>2
  <2>2. CASE m \notin mapped[q]
    <3>1. q = p /\ m \in Pages(a)
      BY <1>2, <2>2 DEF ShmTypeOK
    <3>2. m.id = id /\ m.va \in Addresses(a)
      BY SMT, Z3T(40), <1>3, <3>1 DEF Pages
    <3> QED
      BY <1>3, <1>5, <1>6, <2>0, <3>1, <3>2
  <2> QED
    BY <2>1, <2>2
<1>18. \A q \in Processes : CallOK(q)'
  <2> SUFFICES ASSUME NEW q \in Processes PROVE CallOK(q)'
    OBVIOUS
  <2>1. CallOK(q)
    OBVIOUS
  <2>2. call[q].at \in {"detach", "forget"} => attachments'[q] = attachments[q]
    BY <1>1, <1>5
  <2>3. call[q].at = "exit" => attachments'[call[q].owner] = attachments[call[q].owner]
    BY SMTT(40), Z3T(40), <1>1, <1>5, <2>1 DEF CallOK, ShmTypeOK
  <2>4. call[q].at = "detach" => Holds(q, call[q].id)'
    BY <1>1, <1>6, <2>1 DEF CallOK
  <2> QED
    BY SMTT(40), Z3T(40), <1>1, <2>1, <2>2, <2>3, <2>4 DEF CallOK, Detaching, Of
<1>19. RemovedIsPending'
  BY <1>1, <1>2 DEF RemovedIsPending, ShmTypeOK
<1>20. KeysAgree'
  BY <1>1, <1>2 DEF KeysAgree
<1>21. UnusedIsFresh'
  <2>1. \A i \in Ids : i \in Nat
    BY ShmAssumption
  <2>2. id < nextId
    BY SMT, Z3T(40), <1>1, <2>1 DEF UnusedIsFresh, ShmTypeOK
  <2>3. \A i \in Ids : i # id => attachCount'[i] = attachCount[i]
    BY <1>2, <1>11
  <2> QED
    BY ZenonT(40), <1>1, <1>2, <1>3, <1>5, <2>1, <2>2, <2>3 DEF UnusedIsFresh, ShmTypeOK
<1> QED
  BY <1>13, <1>14, <1>15, <1>16, <1>17, <1>18, <1>19, <1>20, <1>21

-----------------------------------------------------------------------------
(* How a process goes on in a call, and returns from it.                      *)
LEMMA GoesOn ==
  ASSUME call \in [Processes -> Call], NEW p \in Processes,
         NEW next \in {"detach", "forget", "reap", "clear"},
         NEW i \in Ids \cup {NoId}, NEW f \in SUBSET Attachment, StepsTo(p, next, i, f)
  PROVE  /\ call' \in [Processes -> Call]
         /\ \A q \in Processes : q # p => call'[q] = call[q]
         /\ call'[p].at = next /\ call'[p].id = i /\ call'[p].found = f /\ call'[p].owner = call[p].owner
<1>1. call[p] \in Call
  OBVIOUS
<1>2. call'[p] = [call[p] EXCEPT !.at = next, !.id = i, !.found = f]
  BY DEF StepsTo
<1>3. [call[p] EXCEPT !.at = next, !.id = i, !.found = f] \in Call
  BY <1>1 DEF Call
<1>4. /\ call'[p] \in Call
      /\ call'[p].at = next /\ call'[p].id = i /\ call'[p].found = f /\ call'[p].owner = call[p].owner
  BY <1>1, <1>2, <1>3 DEF Call
<1>5. call' = [call EXCEPT ![p] = call'[p]]
  BY <1>2 DEF StepsTo
<1> QED
  BY <1>4, <1>5

LEMMA GoesBack ==
  ASSUME call \in [Processes -> Call], NEW p \in Processes, Returns(p)
  PROVE  /\ call' \in [Processes -> Call]
         /\ \A q \in Processes : q # p => call'[q] = call[q]
         /\ call'[p].at = "user"
  BY DEF Returns, Rest, Call

-----------------------------------------------------------------------------
(* Detaching and removing. *)

(* shmdt.                                                                     *)
LEMMA ShmdtFindsKeeps ==
  ASSUME IInv, NEW p \in Processes, NEW id \in Ids, ShmdtFinds(p, id)
  PROVE  IInv'
<1> USE DEF IInv
<1>1. /\ p \notin gone /\ call[p].at = "user" /\ Of(attachments[p], id) # {}
      /\ UNCHANGED <<byId, byKey, nextId, keyOf, size, attachCount, deleted, attachments, mapped, vaHint, gone>>
  BY DEF ShmdtFinds, InUser, segmentVars, processVars
<1>2. First(attachments[p], id) = Of(attachments[p], id)
  <2>1. \A a, b \in Of(attachments[p], id) : a = b /\ a.va \in Nat
    BY SMT, Z3T(40) DEF AttachedOnce, Of, ShmTypeOK, Attachment
  <2> QED
    BY SMT, Z3T(40), <2>1 DEF First
<1>4. Of(attachments[p], id) \in SUBSET Attachment
  BY DEF Of, ShmTypeOK
<1>3. /\ call' \in [Processes -> Call]
      /\ \A q \in Processes : q # p => call'[q] = call[q]
      /\ call'[p].at = "detach" /\ call'[p].id = id
      /\ call'[p].found = Of(attachments[p], id)
  BY SMT, Z3T(40), <1>2, <1>4, GoesOn DEF ShmdtFinds, ShmTypeOK
<1>5. \A q \in Processes, i \in Ids : Holds(q, i)' <=> Holds(q, i)
  BY ZenonT(40), <1>1, <1>3 DEF Holds
<1>6. \A i \in Ids : Holders(i)' = Holders(i)
  BY <1>5 DEF Holders
<1>7. \A r \in Processes : ~ (call[r].at = "clear" /\ call[r].owner = p)
  BY SMTT(40), Z3T(40), <1>1 DEF CallOK
<1>8. Holds(p, id)
  BY <1>1, <1>7 DEF Holds, Of
<1>9. ShmTypeOK'
  BY <1>1, <1>3 DEF ShmTypeOK
<1>10. CountIsHolders' /\ HeldIsKnown' /\ AttachedOnce'
  BY <1>1, <1>5, <1>6 DEF CountIsHolders, HeldIsKnown, AttachedOnce, ShmTypeOK
<1>13. MappedIsHeld'
  <2>1. \A q \in Processes : \A m \in mapped[q] : m.id \in Ids
    BY SMT, Z3T(40) DEF ShmTypeOK, Attachment
  <2> QED
    BY SMT, Z3T(40), <1>1, <1>5, <2>1 DEF MappedIsHeld, Addresses
<1>11. \A q \in Processes : CallOK(q)'
  <2> SUFFICES ASSUME NEW q \in Processes PROVE CallOK(q)'
    OBVIOUS
  <2>1. \A r \in Processes : \A o : Detaching(r, o)' <=> Detaching(r, o)
    BY <1>1, <1>3 DEF Detaching
  <2>2. CASE q = p
    BY <1>1, <1>3, <1>5, <1>8, <2>2 DEF CallOK, Detaching
  <2>3. CASE q # p
    <3>1. call[q].at = "detach" => Holds(q, call[q].id)'
      BY <1>1, <1>3, <1>5, <2>3 DEF CallOK
    <3> QED
      BY <1>1, <1>3, <2>1, <2>3, <3>1, CallStays
  <2> QED
    BY <2>2, <2>3
<1>12. RemovedIsPending' /\ KeysAgree' /\ UnusedIsFresh'
  BY SMT, Z3T(40), <1>1, <1>3 DEF RemovedIsPending, KeysAgree, UnusedIsFresh
<1> QED
  BY <1>9, <1>10, <1>11, <1>12, <1>13

LEMMA ShmdtDetachesKeeps ==
  ASSUME IInv, NEW p \in Processes, ShmdtDetaches(p)
  PROVE  IInv'
<1> USE DEF IInv
<1>0. PICK id \in Ids : id = call[p].id
  BY DEF ShmdtDetaches, CallOK
<1>1. /\ call[p].at = "detach" /\ p \notin gone
      /\ Holds(p, id) /\ call[p].found = Of(attachments[p], id)
  BY <1>0 DEF ShmdtDetaches, CallOK
<1>2. id \in byId
  BY <1>1 DEF HeldIsKnown
<1>3. /\ mapped' = [mapped EXCEPT ![p] = Unmapped(p, call[p].found)]
      /\ attachCount' = [attachCount EXCEPT ![id] = CountedDown(id, 1)]
      /\ StepsTo(p, "forget", id, {})
      /\ UNCHANGED <<byId, byKey, nextId, keyOf, size, deleted, attachments, vaHint, gone>>
  BY <1>0, <1>2 DEF ShmdtDetaches, segmentVars
<1>4. /\ \A q \in Processes : q # p => call'[q] = call[q]
      /\ call'[p].at = "forget" /\ call'[p].id = id
      /\ call' \in [Processes -> Call]
  BY SMT, Z3T(40), <1>3, GoesOn DEF ShmTypeOK
<1>5. \A q \in Processes, i \in Ids : Holds(q, i)' <=> Holds(q, i) /\ ~ (q = p /\ i = id)
  BY ZenonT(40), <1>1, <1>3, <1>4 DEF Holds
<1>6. \A i \in Ids : i # id => Holders(i)' = Holders(i)
  BY <1>5 DEF Holders
<1>7. Holders(id)' = Holders(id) \ {p} /\ p \in Holders(id) /\ Holders(id) \in SUBSET Processes
  BY <1>1, <1>5 DEF Holders
<1>8. /\ Cardinality(Holders(id) \ {p}) = Cardinality(Holders(id)) - 1
      /\ Cardinality(Holders(id)) \in Nat /\ Cardinality(Holders(id)) >= 1
  <2>1. IsFiniteSet(Holders(id)) /\ Cardinality(Holders(id)) \in Nat
    BY <1>7, ProcessSets
  <2>2. Cardinality(Holders(id) \ {p}) = Cardinality(Holders(id)) - 1
    BY <1>7, <2>1, FS_RemoveElement
  <2>3. Cardinality(Holders(id)) # 0
    BY <1>7, <2>1, FS_EmptySet
  <2> QED
    BY SMT, Z3T(40), <2>1, <2>2, <2>3
<1>9. attachCount[id] = Cardinality(Holders(id)) /\ attachCount \in [Ids -> Nat]
  BY <1>2 DEF CountIsHolders, ShmTypeOK
<1>10. CountedDown(id, 1) = Cardinality(Holders(id)) - 1 /\ CountedDown(id, 1) \in Nat
  BY SMT, Z3T(40), <1>8, <1>9 DEF CountedDown
<1>11. ShmTypeOK'
  BY <1>1, <1>3, <1>4, <1>10 DEF ShmTypeOK, Unmapped
<1>12. CountIsHolders'
  BY <1>1, <1>3, <1>6, <1>7, <1>8, <1>9, <1>10 DEF CountIsHolders, ShmTypeOK
<1>13. HeldIsKnown' /\ AttachedOnce'
  BY <1>3, <1>5 DEF HeldIsKnown, AttachedOnce
<1>14. MappedIsHeld'
  <2> SUFFICES ASSUME NEW q \in Processes \ gone, NEW m \in mapped'[q]
               PROVE  Holds(q, m.id)' /\ \E b \in attachments[q] : b.id = m.id /\ m.va \in Addresses(b)'
    BY <1>3 DEF MappedIsHeld
  <2>1. m \in mapped[q] /\ (q = p => \A a \in call[p].found : m.va \notin Addresses(a))
    BY <1>3 DEF Unmapped, ShmTypeOK
  <2>2. m.id \in Ids
    BY SMT, Z3T(40), <2>1 DEF ShmTypeOK, Attachment
  <2>3. PICK b \in attachments[q] : b.id = m.id /\ m.va \in Addresses(b) /\ Holds(q, m.id)
    BY <2>1 DEF MappedIsHeld
  <2>4. ~ (q = p /\ m.id = id)
    BY <1>1, <2>1, <2>3 DEF Of
  <2>5. Addresses(b)' = Addresses(b)
    BY <1>3 DEF Addresses
  <2>6. Holds(q, m.id)'
    BY <1>5, <2>2, <2>3, <2>4
  <2> QED
    BY <2>3, <2>5, <2>6
<1>15. \A q \in Processes : CallOK(q)'
  <2> SUFFICES ASSUME NEW q \in Processes PROVE CallOK(q)'
    OBVIOUS
  <2>1. \A r \in Processes : \A o : Detaching(r, o)' <=> Detaching(r, o)
    BY <1>1, <1>4 DEF Detaching
  <2>2. CASE q = p
    BY <1>1, <1>3, <1>4, <2>2 DEF CallOK, Detaching, Holds, Of
  <2>3. CASE q # p
    <3>1. call[q].at = "detach" => Holds(q, call[q].id)'
      BY <1>4, <1>5, <2>3 DEF CallOK
    <3> QED
      BY <1>3, <1>4, <2>1, <2>3, <3>1, CallStays
  <2> QED
    BY <2>2, <2>3
<1>16. RemovedIsPending'
  <2> SUFFICES ASSUME NEW i \in byId, deleted[i]
               PROVE  attachCount'[i] # 0 \/ \E q \in Processes : call'[q].at \in {"forget", "reap"} /\ call'[q].id = i
    BY <1>3 DEF RemovedIsPending
  <2>1. CASE i = id
    BY <1>4, <2>1
  <2>2. CASE i # id
    <3>1. attachCount'[i] = attachCount[i]
      BY <1>3, <1>9, <2>2 DEF ShmTypeOK
    <3> QED
      BY SMT, Z3T(40), <1>1, <1>4, <3>1 DEF RemovedIsPending
  <2> QED
    BY <2>1, <2>2
<1>17. KeysAgree'
  BY <1>3 DEF KeysAgree
<1>18. UnusedIsFresh'
  <2>1. \A i \in Ids : i >= nextId => attachCount'[i] = attachCount[i]
    BY <1>2, <1>3, <1>9 DEF UnusedIsFresh
  <2> QED
    BY <1>3, <2>1 DEF UnusedIsFresh
<1> QED
  BY <1>11, <1>12, <1>13, <1>14, <1>15, <1>16, <1>17, <1>18

LEMMA ShmdtForgetsKeeps ==
  ASSUME IInv, NEW p \in Processes, ShmdtForgets(p)
  PROVE  IInv'
<1> USE DEF IInv
<1>0. PICK id \in Ids : id = call[p].id
  BY DEF ShmdtForgets, CallOK
<1>1. /\ call[p].at = "forget" /\ p \notin gone
      /\ UNCHANGED <<byId, byKey, nextId, keyOf, size, attachCount, deleted, mapped, vaHint, gone>>
  BY DEF ShmdtForgets, CallOK, segmentVars, processVars
<1>2. /\ attachments' = [attachments EXCEPT ![p] = @ \ Of(@, id)]
      /\ attachments'[p] = {a \in attachments[p] : a.id # id}
      /\ \A q \in Processes : q # p => attachments'[q] = attachments[q]
  BY <1>0 DEF ShmdtForgets, ShmTypeOK, Of
<1>3. /\ call' \in [Processes -> Call]
      /\ \A q \in Processes : q # p => call'[q] = call[q]
      /\ call'[p].at = "reap" /\ call'[p].id = id
  BY SMT, Z3T(40), <1>0, GoesOn DEF ShmdtForgets, ShmTypeOK
<1>4. \A q \in Processes, i \in Ids : Holds(q, i)' <=> Holds(q, i)
  BY SMT, Z3T(40), <1>0, <1>1, <1>2, <1>3 DEF Holds
<1>5. \A i \in Ids : Holders(i)' = Holders(i)
  BY <1>4 DEF Holders
<1>6. ShmTypeOK'
  BY <1>1, <1>2, <1>3 DEF ShmTypeOK, Of
<1>7. CountIsHolders' /\ HeldIsKnown' /\ AttachedOnce'
  BY SMT, Z3T(40), <1>1, <1>2, <1>4, <1>5 DEF CountIsHolders, HeldIsKnown, AttachedOnce, ShmTypeOK
<1>8. MappedIsHeld'
  <2> SUFFICES ASSUME NEW q \in Processes \ gone, NEW m \in mapped[q]
               PROVE  Holds(q, m.id)' /\ \E b \in attachments'[q] : b.id = m.id /\ m.va \in Addresses(b)'
    BY <1>1 DEF MappedIsHeld
  <2>1. m.id \in Ids
    BY SMT, Z3T(40) DEF ShmTypeOK, Attachment
  <2>2. PICK b \in attachments[q] : b.id = m.id /\ m.va \in Addresses(b) /\ Holds(q, m.id)
    BY DEF MappedIsHeld
  <2>3. ~ (q = p /\ m.id = id)
    BY <1>0, <1>1, <2>2 DEF Holds
  <2>4. b \in attachments'[q] /\ Addresses(b)' = Addresses(b)
    BY <1>1, <1>2, <2>2, <2>3 DEF Addresses
  <2> QED
    BY <1>4, <2>1, <2>2, <2>4
<1>9. \A q \in Processes : CallOK(q)'
  <2> SUFFICES ASSUME NEW q \in Processes PROVE CallOK(q)'
    OBVIOUS
  <2>1. \A r \in Processes : \A o : Detaching(r, o)' <=> Detaching(r, o)
    BY <1>1, <1>3 DEF Detaching
  <2>2. CASE q = p
    BY ZenonT(40), <1>1, <1>3, <2>2 DEF CallOK, Detaching
  <2>3. CASE q # p
    <3>1. call[q].at = "exit" => attachments'[call[q].owner] = attachments[call[q].owner]
      BY SMTT(40), Z3T(40), <1>1, <1>2 DEF CallOK, ShmTypeOK
    <3>2. call[q].at = "detach" => Holds(q, call[q].id)'
      BY <1>3, <1>4, <2>3 DEF CallOK
    <3> QED
      BY <1>1, <1>2, <1>3, <2>1, <2>3, <3>1, <3>2, CallStays
  <2> QED
    BY <2>2, <2>3
<1>10. RemovedIsPending'
  BY SMTT(40), Z3T(40), <1>0, <1>1, <1>3 DEF RemovedIsPending
<1>11. KeysAgree'
  BY <1>1 DEF KeysAgree
<1>12. UnusedIsFresh'
  BY <1>1, <1>2 DEF UnusedIsFresh
<1> QED
  BY <1>6, <1>7, <1>8, <1>9, <1>10, <1>11, <1>12

-----------------------------------------------------------------------------
(* A segment that is taken out of both indexes leaves them in agreement, and  *)
(* one whose count is zero is held by nobody.                                 *)
LEMMA RemovesKeeps ==
  ASSUME ShmTypeOK, KeysAgree, NEW dead \in SUBSET byId, Removes(dead), keyOf' = keyOf
  PROVE  KeysAgree' /\ byId' \subseteq Ids /\ byKey' \in [Keys -> Ids \cup {NoId}]
<1>1. byId' = byId \ dead
  BY DEF Removes
<1>2. \A k \in Keys : byKey'[k] = IF \E id \in dead : keyOf[id] = k THEN NoId ELSE byKey[k]
  BY DEF Removes
<1>3. byId' \subseteq Ids /\ byKey' \in [Keys -> Ids \cup {NoId}]
  BY DEF Removes, ShmTypeOK
<1>4. \A k \in Keys : byKey'[k] # NoId => byKey'[k] \in byId' /\ keyOf[byKey'[k]] = k
  BY ZenonT(40), <1>1, <1>2 DEF KeysAgree
<1>5. \A id \in byId' : keyOf[id] \in Keys /\ byKey'[keyOf[id]] = id
  BY SMT, Z3T(40), <1>1, <1>2 DEF KeysAgree
<1> QED
  BY <1>3, <1>4, <1>5 DEF KeysAgree

LEMMA UncountedIsFree ==
  ASSUME IInv, NEW id \in byId, attachCount[id] = 0
  PROVE  \A q \in Processes : ~ Holds(q, id)
<1>1. Holders(id) \in SUBSET Processes /\ Cardinality(Holders(id)) = 0
  BY DEF IInv, CountIsHolders, Holders
<1>2. IsFiniteSet(Holders(id))
  BY <1>1, ProcessSets
<1>3. Holders(id) = {}
  BY <1>1, <1>2, FS_EmptySet
<1> QED
  BY <1>3 DEF Holders

LEMMA ShmdtReapsKeeps ==
  ASSUME IInv, NEW p \in Processes, ShmdtReaps(p)
  PROVE  IInv'
<1> DEFINE dead == {id \in {call[p].id} : Reapable(id, attachCount[id])}
<1> USE DEF IInv
<1>1. /\ call[p].at = "reap" /\ p \notin gone /\ Removes(dead)
      /\ UNCHANGED <<nextId, keyOf, size, attachCount, deleted, attachments, mapped, vaHint, gone>>
  BY DEF ShmdtReaps, CallOK, segmentVars, processVars
<1>2. /\ call' \in [Processes -> Call]
      /\ \A q \in Processes : q # p => call'[q] = call[q]
      /\ call'[p].at = "user"
  BY GoesBack DEF ShmdtReaps, ShmTypeOK
<1>3. dead \in SUBSET byId /\ \A id \in dead : attachCount[id] = 0
  BY DEF Reapable
<1>4. KeysAgree' /\ byId' \subseteq Ids /\ byKey' \in [Keys -> Ids \cup {NoId}]
  BY <1>1, <1>3, RemovesKeeps
<1>5. byId' = byId \ dead
  BY <1>1 DEF Removes
<1>6. \A q \in Processes, i \in Ids : Holds(q, i)' <=> Holds(q, i)
  BY ZenonT(40), <1>1, <1>2 DEF Holds
<1>7. \A i \in Ids : Holders(i)' = Holders(i)
  BY <1>6 DEF Holders
<1>8. ShmTypeOK'
  BY <1>1, <1>2, <1>4 DEF ShmTypeOK
<1>9. CountIsHolders'
  BY <1>1, <1>5, <1>7 DEF CountIsHolders, ShmTypeOK
<1>10. HeldIsKnown'
  <2>1. \A q \in Processes, i \in Ids : Holds(q, i) => i \notin dead
    BY <1>3, UncountedIsFree
  <2> QED
    BY <1>5, <1>6, <2>1 DEF HeldIsKnown
<1>11. AttachedOnce'
  BY <1>1 DEF AttachedOnce
<1>12. MappedIsHeld'
  <2>1. \A q \in Processes : \A m \in mapped[q] : m.id \in Ids
    BY SMT, Z3T(40) DEF ShmTypeOK, Attachment
  <2> QED
    BY SMT, Z3T(40), <1>1, <1>6, <2>1 DEF MappedIsHeld, Addresses
<1>13. \A q \in Processes : CallOK(q)'
  <2> SUFFICES ASSUME NEW q \in Processes PROVE CallOK(q)'
    OBVIOUS
  <2>1. \A r \in Processes : \A o : Detaching(r, o)' <=> Detaching(r, o)
    BY <1>1, <1>2 DEF Detaching
  <2>2. CASE q = p
    BY <1>1, <1>2, <2>2 DEF CallOK, Detaching
  <2>3. CASE q # p
    <3>1. call[q].at = "detach" => Holds(q, call[q].id)'
      BY <1>2, <1>6, <2>3 DEF CallOK
    <3>2. call'[q] = call[q] /\ attachments' = attachments /\ gone' = gone /\ CallOK(q)
      BY <1>1, <1>2, <2>3
    <3> HIDE DEF IInv
    <3> QED
      BY <2>1, <3>1, <3>2 DEF CallOK, Of
  <2> QED
    BY <2>2, <2>3
<1>14. RemovedIsPending'
  <2> SUFFICES ASSUME NEW i \in byId', deleted[i], attachCount[i] = 0
               PROVE  \E q \in Processes : call'[q].at \in {"forget", "reap"} /\ call'[q].id = i
    BY <1>1 DEF RemovedIsPending
  <2>1. i \in byId /\ i # call[p].id
    BY <1>5 DEF Reapable
  <2> QED
    BY SMT, Z3T(40), <1>2, <2>1 DEF RemovedIsPending
<1>15. UnusedIsFresh'
  BY <1>1, <1>5 DEF UnusedIsFresh
<1> QED
  BY <1>4, <1>8, <1>9, <1>10, <1>11, <1>12, <1>13, <1>14, <1>15

LEMMA RmidKeeps ==
  ASSUME IInv, NEW p \in Processes, NEW id \in Ids, Rmid(p, id)
  PROVE  IInv'
<1> DEFINE dead == {i \in {id} : attachCount[i] = 0}
<1> USE DEF IInv
<1>1. /\ id \in byId /\ Removes(dead) /\ deleted' = [deleted EXCEPT ![id] = TRUE]
      /\ UNCHANGED <<nextId, keyOf, size, attachCount, attachments, mapped, vaHint, gone, call>>
  BY DEF Rmid, segmentVars, processVars
<1>2. dead \in SUBSET byId /\ \A i \in dead : attachCount[i] = 0
  BY <1>1
<1>3. KeysAgree' /\ byId' \subseteq Ids /\ byKey' \in [Keys -> Ids \cup {NoId}]
  BY <1>1, <1>2, RemovesKeeps
<1>4. byId' = byId \ dead
  BY <1>1 DEF Removes
<1>5. /\ \A q, i : Holds(q, i)' <=> Holds(q, i)
      /\ \A i : Holders(i)' = Holders(i)
  BY <1>1, SameHolders
<1>6. ShmTypeOK'
  BY <1>1, <1>3 DEF ShmTypeOK
<1>7. CountIsHolders'
  BY <1>1, <1>4, <1>5 DEF CountIsHolders
<1>8. HeldIsKnown'
  <2>1. \A q \in Processes, i \in Ids : Holds(q, i) => i \notin dead
    BY <1>2, UncountedIsFree
  <2> QED
    BY <1>4, <1>5, <2>1 DEF HeldIsKnown
<1>9. AttachedOnce' /\ MappedIsHeld'
  <2>1. AttachedOnce'
    BY <1>1 DEF AttachedOnce
  <2>2. MappedIsHeld'
    BY <1>1, <1>5 DEF MappedIsHeld, Addresses
  <2> QED
    BY <2>1, <2>2
<1>10. \A q \in Processes : CallOK(q)'
  BY SMTT(40), Z3T(40), <1>1, <1>5 DEF CallOK, Detaching, Of
<1>11. RemovedIsPending'
  BY <1>1, <1>4 DEF RemovedIsPending, ShmTypeOK
<1>12. UnusedIsFresh'
  <2>1. \A i \in Ids : i >= nextId => i # id
    BY <1>1 DEF UnusedIsFresh
  <2> QED
    BY <1>1, <1>4, <2>1 DEF UnusedIsFresh, ShmTypeOK
<1> QED
  BY <1>3, <1>6, <1>7, <1>8, <1>9, <1>10, <1>11, <1>12

-----------------------------------------------------------------------------
(* The end of a process, and the whole specification. *)

(* The end of a process.                                                      *)
LEMMA ExitCollectsKeeps ==
  ASSUME IInv, Disciplined, NEW p \in Processes, NEW q \in Processes, ExitCollects(p, q)
  PROVE  IInv'
<1> DEFINE exit == [at |-> "exit", id |-> NoId, found |-> attachments[q], owner |-> q]
<1> USE DEF IInv
<1>1. /\ p \notin gone /\ call[p].at = "user" /\ q \notin gone /\ call[q].at = "user"
      /\ gone' = gone \cup {q}
      /\ UNCHANGED <<byId, byKey, nextId, keyOf, size, attachCount, deleted, attachments, mapped, vaHint>>
  BY DEF ExitCollects, InUser, Disciplined, segmentVars
<1>2. exit \in Call /\ Rest \in Call
  BY DEF ShmTypeOK, Call, Rest
<1>3. /\ call' \in [Processes -> Call]
      /\ call'[p] = exit
      /\ \A r \in Processes : r # p /\ r # q => call'[r] = call[r]
      /\ q # p => call'[q] = Rest
  BY <1>2 DEF ExitCollects, ShmTypeOK
<1>4. q # p => call'[q].at = "user"
  BY SMT, Z3T(40), <1>3 DEF Rest
<1>5. \A r \in Processes : ~ Detaching(r, q)
  BY SMTT(40), Z3T(40), <1>1 DEF CallOK, Detaching
<1>6. \A r \in Processes, i \in Ids : Holds(r, i)' <=> Holds(r, i)
  <2>1. exit.at = "exit"
    BY SMT, Z3T(40)
  <2>2. \A x \in Processes : call'[x] = call[x] \/ (call[x].at = "user" /\ call'[x].at \in {"user", "exit"})
    BY <1>1, <1>3, <1>4, <2>1
  <2> HIDE DEF IInv
  <2>3. ASSUME NEW x \in Processes, NEW i
        PROVE  /\ call'[x].at = "forget" /\ call'[x].id = i <=> call[x].at = "forget" /\ call[x].id = i
               /\ call'[x].at = "clear" /\ call'[x].owner = i <=> call[x].at = "clear" /\ call[x].owner = i
    BY <2>2
  <2> SUFFICES ASSUME NEW r \in Processes, NEW i \in Ids PROVE Holds(r, i)' <=> Holds(r, i)
    OBVIOUS
  <2>4. (\A x \in Processes : ~ (call'[x].at = "clear" /\ call'[x].owner = r)) <=>
        (\A x \in Processes : ~ (call[x].at = "clear" /\ call[x].owner = r))
    BY <2>3
  <2>5. call'[r].at = "forget" /\ call'[r].id = i <=> call[r].at = "forget" /\ call[r].id = i
    BY <2>3
  <2> QED
    BY <1>1, <2>4, <2>5 DEF Holds
<1>7. \A i \in Ids : Holders(i)' = Holders(i)
  BY <1>6 DEF Holders
<1>8. ShmTypeOK'
  BY <1>1, <1>3 DEF ShmTypeOK
<1>9. CountIsHolders' /\ HeldIsKnown' /\ AttachedOnce'
  BY <1>1, <1>6, <1>7 DEF CountIsHolders, HeldIsKnown, AttachedOnce, ShmTypeOK
<1>10. MappedIsHeld'
  <2>1. \A r \in Processes : \A m \in mapped[r] : m.id \in Ids
    BY SMT, Z3T(40) DEF ShmTypeOK, Attachment
  <2> QED
    BY SMTT(40), Z3T(40), <1>1, <1>6, <2>1 DEF MappedIsHeld, Addresses
<1>11. \A r \in Processes : CallOK(r)'
  <2> SUFFICES ASSUME NEW r \in Processes PROVE CallOK(r)'
    OBVIOUS
  <2>1. \A x \in Processes : \A o : Detaching(x, o)' <=> Detaching(x, o) \/ (x = p /\ o = q)
    BY SMTT(40), Z3T(40), <1>1, <1>3, <1>4 DEF Detaching
  <2>2. CASE r = p
    <3>1. exit.at = "exit" /\ exit.owner = q /\ exit.found = attachments[q]
      BY SMT, Z3T(40)
    <3>2. call'[r].at = "exit" /\ call'[r].owner = q /\ call'[r].found = attachments[q]
      BY <1>3, <2>2, <3>1
    <3>3. q \in gone' /\ attachments' = attachments /\ (r \in gone' => r = q)
      BY <1>1, <2>2
    <3>4. \A x \in Processes : Detaching(x, q)' <=> x = r
      BY <1>5, <2>1, <2>2
    <3>5. r \in gone' => Detaching(r, r)'
      BY <3>2, <3>3 DEF Detaching
    <3> HIDE DEF IInv
    <3> QED
      BY <3>2, <3>3, <3>4, <3>5 DEF CallOK
  <2>3. CASE r # p /\ r = q
    BY <1>4, <2>1, <2>3, <1>5, <1>1 DEF CallOK, Detaching
  <2>4. CASE r # p /\ r # q
    <3>1. call'[r] = call[r] /\ (r \in gone' <=> r \in gone)
      BY <1>1, <1>3, <2>4
    <3>2. call[r].at = "detach" => Holds(r, call[r].id)'
      BY <1>6, <3>1 DEF CallOK
    <3>3. \A x \in Processes : \A o : Detaching(r, o) /\ Detaching(x, o)' => Detaching(x, o)
      BY <1>5, <2>1
    <3> QED
      BY <1>1, <3>1, <3>2, <3>3, CallStays
  <2> QED
    BY <2>2, <2>3, <2>4
<1>12. RemovedIsPending'
  <2>1. RemovedIsPending
    OBVIOUS
  <2>2. \A r \in Processes : call[r].at \in {"forget", "reap"} => call'[r] = call[r]
    BY <1>1, <1>3
  <2> HIDE DEF IInv
  <2> QED
    BY SMT, Z3T(40), <1>1, <2>1, <2>2 DEF RemovedIsPending
<1>13. KeysAgree' /\ UnusedIsFresh'
  BY <1>1 DEF KeysAgree, UnusedIsFresh
<1> QED
  BY <1>8, <1>9, <1>10, <1>11, <1>12, <1>13

(* Every segment of the process is known and counted for it once.             *)
LEMMA ExitDetachesKeeps ==
  ASSUME IInv, NEW p \in Processes, ExitDetaches(p)
  PROVE  IInv'
<1> USE DEF IInv
<1>0. PICK q \in Processes : q = call[p].owner /\ q \in gone
  BY DEF ExitDetaches, CallOK, ShmTypeOK
<1> DEFINE dead == {id \in {a.id : a \in call[p].found} : Reapable(id, CountAfterExit(p, id))}
<1>1. /\ call[p].at = "exit" /\ call[p].found = attachments[q]
      /\ mapped' = [mapped EXCEPT ![p] = Unmapped(p, {a \in call[p].found : a.id \in byId})]
      /\ attachCount' = [id \in Ids |-> CountAfterExit(p, id)]
      /\ Removes(dead)
      /\ UNCHANGED <<nextId, keyOf, size, deleted, attachments, vaHint, gone>>
  BY <1>0 DEF ExitDetaches, CallOK, segmentVars
<1>2. /\ call' \in [Processes -> Call]
      /\ \A r \in Processes : r # p => call'[r] = call[r]
      /\ call'[p].at = "clear" /\ call'[p].owner = q
  <2>1. call \in [Processes -> Call] /\ StepsTo(p, "clear", NoId, {})
    BY DEF ExitDetaches, ShmTypeOK
  <2> QED
    BY SMT, Z3T(40), <1>0, <2>1, GoesOn
<1>3. \A r \in Processes : Detaching(r, q) => r = p
  BY <1>0, <1>1 DEF CallOK, Detaching
<1>4. \A i \in Ids : Holds(q, i) <=> \E a \in attachments[q] : a.id = i
  <2>1. call[q].at # "forget"
    BY <1>0 DEF CallOK
  <2>2. \A r \in Processes : ~ (call[r].at = "clear" /\ call[r].owner = q)
    BY <1>1, <1>3 DEF Detaching
  <2> QED
    BY <2>1, <2>2 DEF Holds
<1>5. \A r \in Processes, i \in Ids : Holds(r, i)' <=> Holds(r, i) /\ r # q
  BY ZenonT(40), <1>0, <1>1, <1>2 DEF Holds
<1>6. \A i \in Ids : Holders(i)' = Holders(i) \ {q}
  BY <1>5 DEF Holders
<1>7. \A i \in byId : /\ CountAfterExit(p, i) = Cardinality(Holders(i)')
                      /\ CountAfterExit(p, i) \in Nat
                      /\ ~ Holds(q, i) => CountAfterExit(p, i) = attachCount[i]
  <2> SUFFICES ASSUME NEW i \in byId
               PROVE  /\ CountAfterExit(p, i) = Cardinality(Holders(i) \ {q})
                      /\ CountAfterExit(p, i) \in Nat
                      /\ ~ Holds(q, i) => CountAfterExit(p, i) = attachCount[i]
    BY <1>6 DEF ShmTypeOK
  <2>1. i \in Ids /\ attachCount[i] = Cardinality(Holders(i)) /\ Holders(i) \in SUBSET Processes
    BY DEF ShmTypeOK, CountIsHolders, Holders
  <2>2. IsFiniteSet(Holders(i)) /\ Cardinality(Holders(i)) \in Nat
    BY <2>1, ProcessSets
  <2>3. CountAfterExit(p, i) = CountedDown(i, Cardinality(Of(attachments[q], i)))
    BY <1>1 DEF CountAfterExit, Detached
  <2>4. CASE Holds(q, i)
    <3>1. PICK a \in attachments[q] : a.id = i
      BY <1>4, <2>1, <2>4
    <3>2. Of(attachments[q], i) = {a}
      BY <3>1 DEF Of, AttachedOnce
    <3>3. Cardinality(Of(attachments[q], i)) = 1
      BY <3>2, FS_Singleton
    <3>4. q \in Holders(i)
      BY <2>4 DEF Holders
    <3>5. Cardinality(Holders(i) \ {q}) = Cardinality(Holders(i)) - 1
      BY <2>2, <3>4, FS_RemoveElement
    <3>6. Cardinality(Holders(i)) # 0
      BY <2>2, <3>4, FS_EmptySet
    <3> QED
      BY SMTT(40), Z3T(40), <2>1, <2>2, <2>3, <2>4, <3>3, <3>5, <3>6 DEF CountedDown
  <2>5. CASE ~ Holds(q, i)
    <3>1. Of(attachments[q], i) = {}
      BY <1>4, <2>1, <2>5 DEF Of
    <3>2. Cardinality(Of(attachments[q], i)) = 0
      BY <3>1, FS_EmptySet
    <3>3. Holders(i) \ {q} = Holders(i)
      BY <2>5 DEF Holders
    <3> QED
      BY SMT, Z3T(40), <2>1, <2>2, <2>3, <3>2, <3>3 DEF CountedDown
  <2> QED
    BY <2>4, <2>5
<1>8. \A i \in Ids : i \notin byId => CountAfterExit(p, i) = attachCount[i]
  BY DEF CountAfterExit
<1>9. dead \in SUBSET byId /\ \A i \in dead : CountAfterExit(p, i) = 0
  BY DEF Reapable
<1>10. KeysAgree' /\ byId' \subseteq Ids /\ byKey' \in [Keys -> Ids \cup {NoId}]
  BY <1>1, <1>9, RemovesKeeps
<1>11. byId' = byId \ dead
  BY <1>1 DEF Removes
<1>12. ShmTypeOK'
  <2>1. attachCount' \in [Ids -> Nat]
    BY <1>1, <1>7, <1>8 DEF ShmTypeOK
  <2> QED
    BY <1>1, <1>2, <1>10, <2>1 DEF ShmTypeOK, Unmapped
<1>13. CountIsHolders'
  BY <1>1, <1>7, <1>10, <1>11 DEF CountIsHolders
<1>14. HeldIsKnown'
  <2> SUFFICES ASSUME NEW r \in Processes, NEW i \in Ids, Holds(r, i)'
               PROVE  i \in byId'
    BY DEF HeldIsKnown
  <2>1. i \in byId /\ r \in Holders(i)' /\ Holders(i)' \in SUBSET Processes
    BY <1>5 DEF HeldIsKnown, Holders
  <2>2. IsFiniteSet(Holders(i)')
    BY <2>1, ProcessSets
  <2>3. CountAfterExit(p, i) # 0
    BY <1>7, <2>1, <2>2, FS_EmptySet
  <2> QED
    BY <1>9, <1>11, <2>1, <2>3
<1>15. AttachedOnce'
  BY <1>1 DEF AttachedOnce
<1>16. MappedIsHeld'
  <2>1. \A r \in Processes : mapped'[r] \subseteq mapped[r] /\ \A m \in mapped[r] : m.id \in Ids
    <3>1. mapped \in [Processes -> SUBSET Attachment]
      BY DEF ShmTypeOK
    <3>2. \A m \in Attachment : m.id \in Ids
      BY SMT, Z3T(40) DEF Attachment
    <3>3. \A r \in Processes : mapped'[r] \subseteq mapped[r]
      BY <1>1, <3>1 DEF Unmapped
    <3> HIDE DEF IInv
    <3> QED
      BY <3>1, <3>2, <3>3
  <2>2. \A a : Addresses(a)' = Addresses(a)
    BY <1>1 DEF Addresses
  <2> QED
    BY SMTT(40), Z3T(40), <1>0, <1>1, <1>5, <2>1, <2>2 DEF MappedIsHeld
<1>17. \A r \in Processes : CallOK(r)'
  <2> SUFFICES ASSUME NEW r \in Processes PROVE CallOK(r)'
    OBVIOUS
  <2>1. \A x \in Processes : \A o : Detaching(x, o)' <=> Detaching(x, o)
    BY ZenonT(40), <1>0, <1>1, <1>2 DEF Detaching
  <2>2. CASE r = p
    <3>1. call'[r].at = "clear" /\ call'[r].owner = q /\ q \in gone'
      BY <1>0, <1>1, <1>2, <2>2
    <3>2. r \in gone' => Detaching(r, r)'
      BY <1>1, <2>1, <2>2 DEF CallOK
    <3>3. \A x \in Processes : Detaching(x, q)' => x = r
      BY <1>3, <2>1, <2>2
    <3> QED
      BY <3>1, <3>2, <3>3 DEF CallOK
  <2>3. CASE r # p
    <3>1. call[r].at = "detach" => Holds(r, call[r].id)'
      BY ZenonT(40), <1>0, <1>2, <1>5, <2>3 DEF CallOK
    <3> QED
      BY <1>1, <1>2, <2>1, <2>3, <3>1, CallStays
  <2> QED
    BY <2>2, <2>3
<1>18. RemovedIsPending'
  <2> SUFFICES ASSUME NEW i \in byId', deleted[i], attachCount'[i] = 0
               PROVE  \E r \in Processes : call'[r].at \in {"forget", "reap"} /\ call'[r].id = i
    BY <1>1 DEF RemovedIsPending
  <2>1. i \in byId /\ i \notin dead /\ i \in Ids /\ CountAfterExit(p, i) = 0
    BY <1>1, <1>10, <1>11
  <2>2. \A a \in attachments[q] : a.id # i
    BY <1>1, <2>1 DEF Reapable
  <2>3. attachCount[i] = 0
    BY <1>4, <1>7, <2>1, <2>2
  <2>4. PICK r \in Processes : call[r].at \in {"forget", "reap"} /\ call[r].id = i
    BY <1>1, <2>1, <2>3 DEF RemovedIsPending
  <2> QED
    BY <1>1, <1>2, <2>4
<1>19. UnusedIsFresh'
  BY <1>1, <1>8, <1>11 DEF UnusedIsFresh
<1> QED
  BY <1>10, <1>12, <1>13, <1>14, <1>15, <1>16, <1>17, <1>18, <1>19

LEMMA ExitClearsKeeps ==
  ASSUME IInv, NEW p \in Processes, ExitClears(p)
  PROVE  IInv'
<1> USE DEF IInv
<1>0. PICK q \in Processes : q = call[p].owner /\ q \in gone
  BY DEF ExitClears, CallOK, ShmTypeOK
<1>1. /\ call[p].at = "clear"
      /\ attachments' = [attachments EXCEPT ![q] = {}]
      /\ mapped' = [mapped EXCEPT ![q] = {}]
      /\ UNCHANGED <<byId, byKey, nextId, keyOf, size, attachCount, deleted, vaHint, gone>>
  BY <1>0 DEF ExitClears, segmentVars
<1>2. /\ call' \in [Processes -> Call]
      /\ \A r \in Processes : r # p => call'[r] = call[r]
      /\ call'[p].at = "user"
  BY GoesBack DEF ExitClears, ShmTypeOK
<1>3. /\ attachments'[q] = {}
      /\ \A r \in Processes : r # q => attachments'[r] = attachments[r]
  BY <1>1 DEF ShmTypeOK
<1>4. \A r \in Processes : Detaching(r, q) => r = p
  BY <1>0, <1>1 DEF CallOK, Detaching
<1>5. \A r \in Processes, i \in Ids : Holds(r, i)' <=> Holds(r, i)
  BY SMTT(40), Z3T(40), <1>0, <1>1, <1>2, <1>3 DEF Holds
<1>6. \A i \in Ids : Holders(i)' = Holders(i)
  BY <1>5 DEF Holders
<1>7. ShmTypeOK'
  BY <1>1, <1>2 DEF ShmTypeOK
<1>8. CountIsHolders' /\ HeldIsKnown' /\ AttachedOnce'
  BY <1>1, <1>3, <1>5, <1>6 DEF CountIsHolders, HeldIsKnown, AttachedOnce, ShmTypeOK
<1>9. MappedIsHeld'
  <2>1. \A r \in Processes \ gone : r # q /\ mapped'[r] = mapped[r] /\ \A m \in mapped[r] : m.id \in Ids
    BY SMT, Z3T(40), <1>0, <1>1 DEF ShmTypeOK, Attachment
  <2> QED
    BY ZenonT(40), <1>1, <1>3, <1>5, <2>1 DEF MappedIsHeld, Addresses
<1>10. \A r \in Processes : CallOK(r)'
  <2> SUFFICES ASSUME NEW r \in Processes PROVE CallOK(r)'
    OBVIOUS
  <2>1. \A x \in Processes : \A o : Detaching(x, o)' <=> Detaching(x, o) /\ x # p
    BY <1>1, <1>2 DEF Detaching
  <2>2. CASE r = p
    BY <1>2, <2>1, <2>2 DEF CallOK
  <2>3. CASE r # p
    <3>1. call[r].at = "detach" => Holds(r, call[r].id)'
      BY <1>2, <1>5, <2>3 DEF CallOK
    <3>2. call[r].at \in {"detach", "forget"} => attachments'[r] = attachments[r]
      BY SMTT(40), Z3T(40), <1>0, <1>3 DEF CallOK
    <3>3. call[r].at = "exit" => attachments'[call[r].owner] = attachments[call[r].owner]
      BY <1>3, <1>4, <2>3 DEF Detaching, CallOK, ShmTypeOK
    <3> QED
      BY <1>1, <1>2, <2>1, <2>3, <3>1, <3>2, <3>3, CallStays
  <2> QED
    BY <2>2, <2>3
<1>11. RemovedIsPending'
  BY SMTT(40), Z3T(40), <1>1, <1>2 DEF RemovedIsPending
<1>12. KeysAgree' /\ UnusedIsFresh'
  BY <1>1, <1>3 DEF KeysAgree, UnusedIsFresh
<1> QED
  BY <1>7, <1>8, <1>9, <1>10, <1>11, <1>12

-----------------------------------------------------------------------------
(* Every step preserves the invariant.                                        *)
LEMMA NextKeeps ==
  ASSUME Disciplined, IInv, [ShmNext]_shmVars
  PROVE  IInv'
<1>1. CASE UNCHANGED shmVars
  <2>1. ShmTypeOK' /\ KeysAgree' /\ UnusedIsFresh'
    BY <1>1 DEF shmVars, segmentVars, processVars, IInv, ShmTypeOK, KeysAgree, UnusedIsFresh
  <2>2. CountIsHolders' /\ HeldIsKnown'
    BY <1>1 DEF shmVars, segmentVars, processVars, IInv, CountIsHolders, HeldIsKnown, Holders, Holds, Detaching
  <2>3. AttachedOnce' /\ MappedIsHeld'
    BY SMTT(40), Z3T(40), <1>1 DEF shmVars, segmentVars, processVars, IInv, AttachedOnce, MappedIsHeld, Addresses, Holds
  <2>4. \A q \in Processes : CallOK(q)'
    BY SMTT(40), Z3T(40), <1>1 DEF shmVars, segmentVars, processVars, IInv, CallOK, Detaching, Of, Holds
  <2>5. RemovedIsPending'
    BY <1>1 DEF shmVars, segmentVars, processVars, IInv, RemovedIsPending
  <2> QED
    BY <2>1, <2>2, <2>3, <2>4, <2>5 DEF IInv
<1>2. ASSUME NEW p \in Processes, ShmStep(p) PROVE IInv'
  BY <1>2, Disciplined, ShmgetKeeps, QuietKeeps, ShmatKeeps, ShmdtFindsKeeps, ShmdtDetachesKeeps,
     ShmdtForgetsKeeps, ShmdtReapsKeeps, RmidKeeps, ExitCollectsKeeps, ExitDetachesKeeps,
     ExitClearsKeeps DEF ShmStep
<1> QED
  BY <1>1, <1>2 DEF ShmNext

(* IInv is an inductive invariant of disciplined processes.                   *)
LEMMA IInvInvariant ==
  ASSUME Disciplined
  PROVE  ShmSpec => []IInv
<1>1. ShmInit => IInv
  BY InitIInv
<1>2. IInv /\ [ShmNext]_shmVars => IInv'
  BY NextKeeps
<1> QED
  BY <1>1, <1>2, PTL DEF ShmSpec

\* The frames of a segment are not freed under a process that maps them
\* (reap_unattached), whatever the processes exec, kill and exit, as long as
\* each attaches a segment once and is not preempted in a call.
THEOREM MappingsAreBacked ==
  ASSUME Disciplined
  PROVE  ShmSpec => []MappingIsBacked
<1>1. IInv => MappingIsBacked
  BY SMT, Z3T(40) DEF IInv, MappingIsBacked, MappedIsHeld, HeldIsKnown, ShmTypeOK, Attachment
<1>2. ShmSpec => []IInv
  BY IInvInvariant
<1> QED
  BY <1>1, <1>2, PTL

\* A removed segment does not outlive its last attachment: shmdt's and exit's
\* reap_unattached take it out.
THEOREM RemovedAreForgotten ==
  ASSUME Disciplined
  PROVE  ShmSpec => []RemovedIsForgotten
<1>1. IInv => RemovedIsForgotten
  <2> SUFFICES ASSUME IInv, NEW id \in byId, deleted[id]
               PROVE  \/ \E p \in Processes : Of(attachments[p], id) # {}
                      \/ \E p \in Processes : call[p].at = "reap" /\ call[p].id = id
    BY DEF RemovedIsForgotten
  <2>1. CASE attachCount[id] # 0
    <3>1. Cardinality(Holders(id)) # 0
      BY <2>1 DEF IInv, CountIsHolders
    <3>2. Holders(id) # {}
      BY <3>1, FS_EmptySet
    <3> QED
      BY <3>2 DEF Holders, Holds, Of
  <2>2. CASE attachCount[id] = 0
    BY SMTT(40), Z3T(40), <2>2 DEF IInv, RemovedIsPending, CallOK
  <2> QED
    BY <2>1, <2>2
<1>2. ShmSpec => []IInv
  BY IInvInvariant
<1> QED
  BY <1>1, <1>2, PTL

\* shmget's two indexes name the same segments at every step of every call.
THEOREM IndexesAlwaysAgree ==
  ASSUME Disciplined
  PROVE  ShmSpec => []IndexesAgree
<1>1. IInv => IndexesAgree
  BY DEF IInv, KeysAgree, IndexesAgree
<1>2. ShmSpec => []IInv
  BY IInvInvariant
<1> QED
  BY <1>1, <1>2, PTL
-----------------------------------------------------------------------------
(* Termination.  The life of a process has three stages: Living, Dying (one  *)
(* actor is ending it) and Dead.  The invariant says what each stage has     *)
(* settled.                                                                 *)

Orderly(m) ==
  /\ ~ m.suicide
  /\ m.parallel => /\ m.asleep
                   /\ m.killers # {} => m.place = "parked" /\ ~ m.moves
                   /\ \A j, k \in m.killers : j = k

MachinesAreOrderly == \A m \in Machines : Orderly(m)

(* What an actor may be about to do. *)
Steps ==
    {"rest", "write", "settle", "prepare", "terminate", "last",
     "complete", "record_last", "reopen_last", "release", "signal",
     "record", "mark", "reopen", "scan_ready", "scan_waiting",
     "scan_current", "done", "probe", "wait", "asleep", "woken",
     "find", "claim", "take", "forget"}

Reasons == {"exit", "kill"}
Collected == {"nothing"} \cup Reasons

(* Who acts at all.  Several CPUs leave either the thread or one killer to   *)
(* act until the waiters are woken.                                         *)
Cast ==
  /\ machine \in Machine /\ Orderly(machine)
  /\ at \in [Actors -> Steps] /\ got \in [Waiters -> Collected]
  /\ \A k \in Killers : k \notin machine.killers => at[k] = "rest"
  /\ machine.parallel => \A w \in Waiters : at[w] # "rest"
  /\ machine.parallel /\ machine.killers # {} =>
        ~ machine.moves /\ at["thread"] = "rest" /\ place \in {"parked", "nowhere"}

(* Nothing of the process has been given away yet. *)
Whole ==
  /\ registered = TRUE /\ freed = 0 /\ reaped = FALSE /\ signaled = FALSE
  /\ \A w \in Waiters : got[w] = "nothing"
  /\ machine.parallel => \A w \in Waiters : at[w] = "asleep"

States == {"Ready", "Running", "Waiting"}

(* Where a thread that has not ended is, and what it is about to become. *)
Placed ==
  \/ at["thread"] = "rest" /\ place = "queue" /\ tstate = "Ready"
  \/ at["thread"] = "rest" /\ place = "current" /\ tstate = "Running"
  \/ at["thread"] = "rest" /\ place = "parked" /\ tstate = "Waiting"
  \/ at["thread"] = "prepare" /\ place = "hand" /\ tstate = "Ready"
  \/ at["thread"] = "write" /\ place \in {"hand", "parked"} /\ tstate \in States /\ target \in States
  \/ at["thread"] = "settle" /\ place \in {"hand", "parked"} /\ tstate \in States /\ target = tstate

OneRuns == \A a, b \in Actors : AtRest(a) \/ AtRest(b) \/ a = b

Living ==
  /\ Whole /\ Placed /\ OneRuns
  /\ pstate = "Live" /\ reason = "none" /\ space = "installed" /\ scanned = {}
  /\ \A k \in Killers : at[k] = "rest" \/ (at[k] = "record" /\ place # "current")
  /\ \A w \in Waiters : at[w] \in {"rest", "probe", "wait", "asleep"}

(* The thread exits. *)
Exiting ==
  /\ place = "nowhere" /\ target = "Exit" /\ scanned = {}
  /\ at["thread"] \in {"terminate", "last", "complete", "record_last", "reopen_last", "release", "signal"}
  /\ tstate = "Terminated" <=> at["thread"] # "terminate"
  /\ pstate = IF at["thread"] \in {"terminate", "last", "complete"} THEN "Live" ELSE "Terminated"
  /\ reason = IF at["thread"] \in {"reopen_last", "release", "signal"} THEN "exit" ELSE "none"
  /\ space = IF at["thread"] = "signal" THEN "deferred" ELSE "installed"

Searching == {"mark", "reopen", "scan_ready", "scan_waiting"}
Completing == {"complete", "record_last", "reopen_last", "release", "signal"}

(* Killer k has recorded its reason; until it finds the thread, the thread   *)
(* is queued or parked.                                                     *)
Killing(k) ==
  /\ at[k] \in Searching \cup {"terminate", "last", "scan_current"} \cup Completing
  /\ reason = "kill" /\ at["thread"] = "rest"
  /\ pstate = IF at[k] = "mark" THEN "Live" ELSE "Terminated"
  /\ place \in (CASE at[k] = "scan_waiting" -> {"parked"}
                  [] at[k] \in Searching \ {"scan_waiting"} -> {"queue", "parked"}
                  [] OTHER -> {"nowhere"})
  /\ tstate = "Terminated" <=> at[k] \notin Searching \cup {"terminate"}
  /\ scanned = IF at[k] \in Completing THEN {k} ELSE {}
  /\ space = IF at[k] = "signal" THEN "deferred" ELSE "installed"

(* Actor a ends the process, and all others are at rest. *)
Dying(a) ==
  /\ Whole
  /\ IF a = "thread" THEN Exiting ELSE Killing(a)
  /\ \A k \in Killers \ {a} : at[k] = "rest"
  /\ \A w \in Waiters : at[w] \in {"rest", "asleep"}

Reaping(w) == at[w] \in {"take", "forget"}

(* One waiter collects the process: not yet, just now, or before. *)
Unreaped ==
  /\ reaped = FALSE /\ registered = TRUE /\ freed = 0 /\ space = "deferred" /\ reason \in Reasons
  /\ \A w \in Waiters : ~ Reaping(w)

ReapedBy(w) ==
  /\ reaped = TRUE /\ registered = TRUE /\ freed = 0 /\ space = "deferred"
  /\ at[w] = "forget" \/ (at[w] = "take" /\ reason \in Reasons)
  /\ \A v \in Waiters \ {w} : ~ Reaping(v)

Forgotten ==
  /\ reaped = TRUE /\ registered = FALSE /\ freed = 1 /\ space = "given back"
  /\ \A w \in Waiters : ~ Reaping(w)

Dead ==
  /\ pstate = "Terminated" /\ tstate = "Terminated" /\ place = "nowhere" /\ signaled = TRUE
  /\ at["thread"] = "rest" /\ \A k \in Killers : at[k] \in {"rest", "done"}
  /\ \A w \in Waiters :
        at[w] \in {"rest", "probe", "wait", "woken", "find", "claim", "take", "forget", "done"}
  /\ Unreaped \/ (\E w \in Waiters : ReapedBy(w)) \/ Forgotten

TermInv ==
  /\ Cast
  /\ Living \/ (\E a \in {"thread"} \cup Killers : Dying(a)) \/ Dead

-----------------------------------------------------------------------------
(* Steps of one actor. *)

LEMMA ActorsApart ==
    /\ "thread" \in Actors /\ "thread" \notin Killers /\ "thread" \notin Waiters
    /\ \A k \in Killers : k \in Actors /\ k \notin Waiters
    /\ \A w \in Waiters : w \in Actors /\ w \notin Killers
  BY TerminationAssumption DEF Actors

LEMMA StepNames ==
    /\ "rest" \in Steps /\ "write" \in Steps /\ "settle" \in Steps /\ "prepare" \in Steps
    /\ "terminate" \in Steps /\ "last" \in Steps /\ "complete" \in Steps /\ "record_last" \in Steps
    /\ "reopen_last" \in Steps /\ "release" \in Steps /\ "signal" \in Steps /\ "record" \in Steps
    /\ "mark" \in Steps /\ "reopen" \in Steps /\ "scan_ready" \in Steps /\ "scan_waiting" \in Steps
    /\ "scan_current" \in Steps /\ "done" \in Steps /\ "probe" \in Steps /\ "wait" \in Steps
    /\ "asleep" \in Steps /\ "woken" \in Steps /\ "find" \in Steps /\ "claim" \in Steps
    /\ "take" \in Steps /\ "forget" \in Steps
  BY DEF Steps

LEMMA Moved ==
  ASSUME Cast, NEW a \in Actors, NEW s \in Steps, Goes(a, s)
  PROVE  /\ at'[a] = s
         /\ \A b \in Actors : b # a => at'[b] = at[b]
         /\ at' \in [Actors -> Steps]
  BY DEF Cast, Goes

LEMMA CastKept ==
  ASSUME Cast, machine' = machine, got' \in [Waiters -> Collected],
         NEW a \in Actors, NEW s \in Steps, Goes(a, s),
         a \in Killers => a \in machine.killers,
         a \in Waiters => s # "rest",
         machine.parallel /\ machine.killers # {} =>
            at'["thread"] = "rest" /\ place' \in {"parked", "nowhere"}
  PROVE  Cast'
<1>1. /\ at'[a] = s
      /\ \A b \in Actors : b # a => at'[b] = at[b]
      /\ at' \in [Actors -> Steps]
  BY Moved
<1>2. \A k \in Killers : k \notin machine.killers => at'[k] = "rest"
  BY <1>1, ActorsApart DEF Cast
<1>3. machine.parallel => \A w \in Waiters : at'[w] # "rest"
  BY <1>1, ActorsApart DEF Cast
<1> QED
  BY <1>1, <1>2, <1>3 DEF Cast

-----------------------------------------------------------------------------
(* The process lives. *)

(* A step of one actor that leaves it living. *)
LEMMA LivesOn ==
  ASSUME Cast, Living, NEW a \in Actors, NEW s \in Steps, Goes(a, s),
         Placed', \A b \in Actors : b # a => AtRest(b),
         a \in Killers => s = "record" /\ place' # "current",
         a \in Waiters => s \in {"rest", "probe", "wait", "asleep"} /\ ~ machine.parallel,
         UNCHANGED <<machine, pstate, reason, space, scanned, reaped, signaled, registered, freed, got>>
  PROVE  Living'
<1>1. at'[a] = s /\ \A b \in Actors : b # a => at'[b] = at[b]
  BY Moved
<1>2. OneRuns'
  BY <1>1 DEF OneRuns, AtRest
<1>3. \A k \in Killers : at'[k] = "rest" \/ (at'[k] = "record" /\ place' # "current")
  BY <1>1, ActorsApart DEF Living, AtRest
<1>4. \A w \in Waiters : at'[w] \in {"rest", "probe", "wait", "asleep"}
  BY <1>1, ActorsApart DEF Living
<1>5. machine.parallel => \A w \in Waiters : at'[w] = "asleep"
  BY <1>1, ActorsApart DEF Living, Whole
<1>6. Whole'
  BY <1>5 DEF Living, Whole
<1> QED
  BY <1>2, <1>3, <1>4, <1>6 DEF Living

LEMMA OthersRest ==
  ASSUME Cast, Living, NEW a \in Actors, ~ AtRest(a) \/ MayRun(a),
         a = "thread" /\ machine.parallel => machine.killers = {},
         a \in Killers => a \in machine.killers,
         a \in Waiters => ~ machine.parallel
  PROVE  \A b \in Actors : b # a => AtRest(b)
<1>1. CASE ~ machine.parallel
  BY <1>1 DEF Living, OneRuns, MayRun
<1>2. CASE machine.parallel
  <2> SUFFICES ASSUME NEW b \in Actors, b # a PROVE AtRest(b)
    OBVIOUS
  <2>1. CASE b \in Waiters
    BY <1>2, <2>1 DEF Living, Whole, AtRest
  <2>2. CASE b \in Killers /\ b \notin machine.killers
    BY <2>2 DEF Cast, AtRest
  <2>3. CASE b \in machine.killers
    <3>1. \A j, k \in machine.killers : j = k
      BY <1>2 DEF Cast, Orderly
    <3>2. a \notin Killers
      BY <3>1, <2>3
    <3>3. a = "thread"
      BY <3>2, <1>2 DEF Actors
    <3> QED
      BY <3>3, <2>3, <1>2
  <2>4. CASE b = "thread"
    <3>1. a \in machine.killers
      BY <2>4, <1>2 DEF Actors
    <3> QED
      BY <3>1, <2>4, <1>2 DEF Cast, AtRest
  <2> QED
    BY <2>1, <2>2, <2>3, <2>4 DEF Actors
<1> QED
  BY <1>1, <1>2

(* Only where nobody kills does the thread act on several CPUs. *)
ThreadActs ==
  \/ Writes \/ Settles \/ DispatchPrepares \/ DispatchTakes
  \/ Leaves("Ready") \/ Leaves("Waiting") \/ Wakes \/ Exits

LEMMA ThreadActsAlone ==
  ASSUME Cast, Living, ThreadActs
  PROVE  /\ machine.parallel => machine.killers = {}
         /\ \A b \in Actors : b # "thread" => AtRest(b)
<1>1. machine.parallel => machine.killers = {}
  BY DEF ThreadActs, Writes, Settles, DispatchPrepares, DispatchTakes, Leaves, Wakes, Exits, Cast
<1>2. ~ AtRest("thread") \/ MayRun("thread")
  BY DEF ThreadActs, Writes, Settles, DispatchPrepares, DispatchTakes, Leaves, Wakes, Exits, AtRest
<1> QED
  BY <1>1, <1>2, OthersRest, ActorsApart

(* What a step of the thread between its queues leaves alone. *)
LEMMA ThreadStaysLive ==
  ASSUME Cast, Living, ThreadActs, NEW s \in Steps, Goes("thread", s), Placed', pstate' = "Live",
         UNCHANGED <<machine, endVars, tableVars, scanned>>
  PROVE  TermInv'
<1>1. /\ machine.parallel => machine.killers = {}
      /\ \A b \in Actors : b # "thread" => AtRest(b)
  BY ThreadActsAlone
<1>2. UNCHANGED <<machine, reason, space, scanned, reaped, signaled, registered, freed, got>> /\ pstate' = pstate
  BY DEF endVars, tableVars, Living
<1>3. Living'
  BY <1>1, <1>2, LivesOn, ActorsApart
<1>4. Cast'
  <2>1. got' \in [Waiters -> Collected] /\ machine' = machine
    BY <1>2 DEF Cast
  <2> QED
    BY <2>1, <1>1, CastKept, ActorsApart
<1> QED
  BY <1>3, <1>4 DEF TermInv

LEMMA WritesKeeps ==
  ASSUME Cast, Living, Writes PROVE TermInv'
<1>1. Goes("thread", "settle") /\ at'["thread"] = "settle"
  BY Moved, ActorsApart, StepNames DEF Writes
<1>2. Placed'
  BY <1>1 DEF Living, Placed, Writes, States
<1> QED
  BY <1>1, <1>2, ThreadStaysLive, StepNames DEF ThreadActs, Writes

LEMMA SettlesKeeps ==
  ASSUME Cast, Living, Settles PROVE TermInv'
<1>1. Goes("thread", "rest") /\ at'["thread"] = "rest"
  BY Moved, ActorsApart, StepNames DEF Settles
<1>2. tstate = target /\ target \in States /\ tstate' = tstate
  BY DEF Living, Placed, Settles
<1>3. Placed'
  BY <1>1, <1>2 DEF Placed, Settles, States
<1>4. pstate' = "Live"
  BY DEF Living, Settles
<1> QED
  BY <1>1, <1>3, <1>4, ThreadStaysLive, StepNames DEF ThreadActs, Settles

LEMMA PreparesKeeps ==
  ASSUME Cast, Living, DispatchPrepares PROVE TermInv'
<1>1. tstate = "Ready" /\ place = "hand" /\ pstate = "Live" /\ space = "installed"
  BY DEF Living, Placed, DispatchPrepares
<1>2. Goes("thread", "write") /\ target' = "Running" /\ place' = place
  BY <1>1 DEF DispatchPrepares, Enters, Gone
<1>3. at'["thread"] = "write"
  BY <1>2, Moved, ActorsApart, StepNames
<1>4. Placed'
  BY <1>1, <1>2, <1>3 DEF Placed, DispatchPrepares, States
<1> QED
  BY <1>1, <1>2, <1>4, ThreadStaysLive, StepNames DEF ThreadActs, DispatchPrepares

LEMMA TakesKeeps ==
  ASSUME Cast, Living, DispatchTakes PROVE TermInv'
<1>1. tstate = "Ready" /\ pstate = "Live"
  BY DEF Living, Placed, DispatchTakes
<1>2. Goes("thread", "prepare") /\ place' = "hand"
  BY <1>1 DEF DispatchTakes
<1>3. at'["thread"] = "prepare"
  BY <1>2, Moved, ActorsApart, StepNames
<1>4. Placed'
  BY <1>1, <1>2, <1>3 DEF Placed, DispatchTakes
<1> QED
  BY <1>1, <1>2, <1>4, ThreadStaysLive, StepNames DEF ThreadActs, DispatchTakes

LEMMA LeavesKeeps ==
  ASSUME Cast, Living, NEW s \in {"Ready", "Waiting"}, Leaves(s) PROVE TermInv'
<1>1. tstate = "Running" /\ pstate = "Live"
  BY DEF Living, Placed, Leaves
<1>2. Goes("thread", "write") /\ target' = s /\ place' = "hand"
  BY <1>1 DEF Leaves, Enters, Gone
<1>3. at'["thread"] = "write"
  BY <1>2, Moved, ActorsApart, StepNames
<1>4. Placed'
  BY <1>1, <1>2, <1>3 DEF Placed, Leaves, States
<1>5. ThreadActs
  BY DEF ThreadActs
<1> QED
  BY <1>1, <1>2, <1>4, <1>5, ThreadStaysLive, StepNames DEF Leaves

LEMMA WakesKeeps ==
  ASSUME Cast, Living, Wakes PROVE TermInv'
<1>1. tstate = "Waiting" /\ pstate = "Live" /\ place = "parked"
  BY DEF Living, Wakes
<1>2. Goes("thread", "write") /\ target' = "Ready" /\ place' = place
  BY <1>1 DEF Wakes, Enters, Gone
<1>3. at'["thread"] = "write"
  BY <1>2, Moved, ActorsApart, StepNames
<1>4. Placed'
  BY <1>1, <1>2, <1>3 DEF Placed, Wakes, States
<1> QED
  BY <1>1, <1>2, <1>4, ThreadStaysLive, StepNames DEF ThreadActs, Wakes

(* finish_current_thread: from here on the thread ends the process. *)
LEMMA ExitsKeeps ==
  ASSUME Cast, Living, Exits PROVE TermInv'
<1>1. Goes("thread", "terminate") /\ machine' = machine /\ place' = "nowhere" /\ target' = "Exit"
  BY DEF Exits
<1>2. /\ at'["thread"] = "terminate"
      /\ \A b \in Actors : b # "thread" => at'[b] = at[b]
  BY <1>1, Moved, ActorsApart, StepNames
<1>3. /\ machine.parallel => machine.killers = {}
      /\ \A b \in Actors : b # "thread" => AtRest(b)
  BY ThreadActsAlone DEF ThreadActs
<1>4. Cast'
  <2>1. got' \in [Waiters -> Collected]
    BY DEF Cast, Exits, tableVars
  <2> QED
    BY <1>1, <1>3, <2>1, CastKept, ActorsApart, StepNames
<1>5. \A k \in Killers : at'[k] = "rest"
  BY <1>2, <1>3, ActorsApart DEF Living, AtRest
<1>6. \A w \in Waiters : at'[w] \in {"rest", "asleep"} /\ (machine.parallel => at'[w] = "asleep")
  BY <1>2, <1>3, ActorsApart DEF Living, Whole, AtRest
<1>7. Whole'
  BY <1>6 DEF Living, Whole, Exits, endVars, tableVars
<1>8. tstate = "Running"
  BY DEF Living, Placed, Exits
<1>9. Exiting'
  BY <1>1, <1>2, <1>8 DEF Living, Exiting, Exits, endVars
<1>10. Dying("thread")'
  BY <1>5, <1>6, <1>7, <1>9 DEF Dying
<1> QED
  BY <1>4, <1>10 DEF TermInv

(* request_termination of a living process by another's thread. *)
LEMMA KillStartsOnLiving ==
  ASSUME Cast, Living, NEW k \in Killers, KillStarts(k) PROVE TermInv'
<1>1. /\ k \in Actors /\ k # "thread" /\ k \notin Waiters
      /\ k \in machine.killers /\ MayRun(k)
  BY ActorsApart DEF KillStarts, Begins, IsDispatched
<1>2. Goes(k, "record")
  BY <1>1 DEF KillStarts, Living, Whole
<1>3. at'[k] = "record" /\ \A b \in Actors : b # k => at'[b] = at[b]
  BY <1>1, <1>2, Moved, StepNames
<1>4. \A b \in Actors : b # k => AtRest(b)
  BY <1>1, OthersRest
<1>5. UNCHANGED <<machine, pstate, tstate, place, target, reason, space, scanned, reaped, signaled, registered,
                  freed, got>>
  BY DEF KillStarts, threadVars, endVars, tableVars
<1>6. at'["thread"] = at["thread"]
  BY <1>1, <1>3, ActorsApart
<1>7. Placed'
  BY <1>5, <1>6 DEF Living, Placed
<1>8. place # "current"
  BY <1>1 DEF KillStarts, Begins, IsDispatched, Cast
<1>9. Living'
  BY <1>1, <1>2, <1>4, <1>5, <1>7, <1>8, LivesOn, StepNames
<1>10. Cast'
  <2>1. got' \in [Waiters -> Collected] /\ machine' = machine
    BY <1>5 DEF Cast
  <2>2. machine.parallel /\ machine.killers # {} => at'["thread"] = "rest" /\ place' \in {"parked", "nowhere"}
    BY <1>5, <1>6 DEF Cast
  <2> QED
    BY <1>1, <1>2, <2>1, <2>2, CastKept, StepNames
<1> QED
  BY <1>9, <1>10 DEF TermInv

LEMMA KillRecordsKeeps ==
  ASSUME Cast, Living, NEW k \in Killers, KillRecords(k) PROVE TermInv'
<1>1. /\ k \in Actors /\ k # "thread" /\ k \notin Waiters
      /\ k \in machine.killers /\ ~ AtRest(k)
  BY ActorsApart DEF KillRecords, Cast, AtRest
<1>2. Goes(k, "mark")
  BY DEF KillRecords
<1>3. at'[k] = "mark" /\ \A b \in Actors : b # k => at'[b] = at[b]
  BY <1>1, <1>2, Moved, StepNames
<1>4. \A b \in Actors : b # k => AtRest(b)
  BY <1>1, OthersRest
<1>5. /\ UNCHANGED <<machine, pstate, tstate, place, target, space, scanned, reaped, signaled, registered,
                     freed, got>>
      /\ reason' = "kill"
  BY DEF KillRecords, threadVars, tableVars
<1>6. at'["thread"] = at["thread"] /\ AtRest("thread")
  BY <1>1, <1>3, <1>4, ActorsApart
<1>7. Cast'
  <2>1. got' \in [Waiters -> Collected] /\ machine' = machine
    BY <1>5 DEF Cast
  <2>2. machine.parallel /\ machine.killers # {} => at'["thread"] = "rest" /\ place' \in {"parked", "nowhere"}
    BY <1>5, <1>6 DEF Cast
  <2> QED
    BY <1>1, <1>2, <2>1, <2>2, CastKept, StepNames
<1>8. at["thread"] = "rest" /\ place \in {"queue", "parked"} /\ tstate \in States
  <2>1. place # "current"
    BY DEF Living, KillRecords
  <2> QED
    BY <1>6, <2>1 DEF Living, Placed, AtRest, States
<1>9. Killing(k)'
  BY <1>3, <1>5, <1>6, <1>8 DEF Living, Killing, Searching, Completing, States
<1>10. \A j \in Killers \ {k} : at'[j] = "rest"
  BY <1>3, <1>4, ActorsApart DEF Living, AtRest
<1>11. \A w \in Waiters : at'[w] \in {"rest", "asleep"} /\ (machine.parallel => at'[w] = "asleep")
  BY <1>1, <1>3, <1>4, ActorsApart DEF Living, Whole, AtRest
<1>12. Whole'
  BY <1>5, <1>11 DEF Living, Whole
<1>13. Dying(k)'
  BY <1>1, <1>9, <1>10, <1>11, <1>12 DEF Dying
<1> QED
  BY <1>7, <1>13 DEF TermInv

(* wait_for_process_termination of a living process. *)
LEMMA WaitsOnLiving ==
  ASSUME Cast, Living, NEW w \in Waiters, WaitStarts(w) \/ Waits(w) PROVE TermInv'
<1>1. w \in Actors /\ w # "thread" /\ w \notin Killers
  BY ActorsApart
<1>2. WaitStarts(w) \/ (WaitProbes(w) /\ at[w] = "probe") \/ WaitBlocks(w)
  BY DEF Living, Waits, WaitProbes, ReapFinds, ReapClaims, ReapTakes, ReapForgets
<1>3. ~ machine.parallel
  BY <1>2 DEF Cast, Living, Whole, WaitStarts, Begins, WaitBlocks
<1>4. ~ AtRest(w) \/ MayRun(w)
  BY <1>2 DEF WaitStarts, Begins, IsDispatched, WaitBlocks, AtRest
<1>5. \A b \in Actors : b # w => AtRest(b)
  BY <1>1, <1>3, <1>4, OthersRest
<1>6. PICK s \in {"probe", "wait", "asleep"} : Goes(w, s)
  BY <1>2 DEF Living, Whole, WaitStarts, WaitProbes, WaitBlocks
<1>7. s \in Steps
  BY <1>6, StepNames
<1>8. at'["thread"] = at["thread"]
  BY <1>1, <1>6, <1>7, Moved, ActorsApart
<1>9. UNCHANGED <<machine, pstate, tstate, place, target, reason, space, scanned, reaped, signaled, registered,
                  freed, got>>
  BY <1>2 DEF WaitStarts, WaitProbes, WaitBlocks, threadVars, endVars, tableVars
<1>10. Placed'
  BY <1>8, <1>9 DEF Living, Placed
<1>11. s \in {"rest", "probe", "wait", "asleep"} /\ s # "rest"
  BY <1>6
<1>12. Living'
  BY <1>1, <1>3, <1>5, <1>6, <1>7, <1>9, <1>10, <1>11, LivesOn
<1>13. Cast'
  <2>1. got' \in [Waiters -> Collected] /\ machine' = machine
    BY <1>9 DEF Cast
  <2> QED
    BY <1>1, <1>3, <1>6, <1>7, <1>11, <2>1, CastKept
<1> QED
  BY <1>12, <1>13 DEF TermInv

LEMMA LivingStep ==
  ASSUME Cast, Living, TermNext PROVE TermInv'
<1>1. CASE ThreadActs
  BY <1>1, WritesKeeps, SettlesKeeps, PreparesKeeps, TakesKeeps, LeavesKeeps, WakesKeeps, ExitsKeeps
     DEF ThreadActs
<1>2. CASE \E a \in {"thread"} \cup Killers : KillStarts(a)
  <2>1. ~ KillStarts("thread")
    BY DEF KillStarts, Cast, Orderly
  <2> QED
    BY <1>2, <2>1, KillStartsOnLiving
<1>3. CASE \E a \in {"thread"} \cup Killers : Finishes(a) \/ Kills(a)
  <2>1. PICK a \in {"thread"} \cup Killers : Finishes(a) \/ Kills(a)
    BY <1>3
  <2>2. at[a] \notin {"terminate", "last", "complete", "record_last", "reopen_last", "release", "signal",
                     "mark", "reopen", "scan_ready", "scan_waiting", "scan_current"}
    BY DEF Living, Placed
  <2>3. KillRecords(a)
    BY <2>1, <2>2 DEF Finishes, Kills, Terminates, Last, CompleteMarks, CompleteRecords, CompleteReopens,
                      CompleteReleases, CompleteSignals, KillMarks, KillReopens, ScanReady, ScanWaiting,
                      ScanCurrent, Scans
  <2>4. a # "thread"
    BY <2>3 DEF KillRecords, Living, Placed
  <2> QED
    BY <2>3, <2>4, KillRecordsKeeps
<1>4. CASE \E w \in Waiters : WaitStarts(w) \/ Waits(w)
  BY <1>4, WaitsOnLiving
<1> QED
  BY <1>1, <1>2, <1>3, <1>4 DEF TermNext, Starts, Moves, ThreadActs

-----------------------------------------------------------------------------
(* The process is being ended. *)

LEMMA DyingActs ==
  ASSUME Cast, NEW a \in {"thread"} \cup Killers, Dying(a)
  PROVE  /\ a \in Actors /\ a \notin Waiters
         /\ ~ AtRest(a) /\ at[a] \notin {"write", "settle", "prepare", "record"}
         /\ a \in Killers => a \in machine.killers /\ a # "thread" /\ at["thread"] = "rest"
         /\ a = "thread" /\ machine.parallel => machine.killers = {}
<1>1. a \in Actors /\ a \notin Waiters /\ (a \in Killers => a # "thread")
  BY ActorsApart
<1>2. ~ AtRest(a) /\ at[a] \notin {"write", "settle", "prepare", "record"}
  BY DEF Dying, Exiting, Killing, AtRest, Searching, Completing
<1>3. at[a] # "rest"
  BY <1>2 DEF AtRest
<1>4. a \in Killers => a \in machine.killers /\ at["thread"] = "rest"
  BY <1>1, <1>3 DEF Cast, Dying, Killing
<1>5. a = "thread" /\ machine.parallel => machine.killers = {}
  BY <1>3 DEF Cast
<1> QED
  BY <1>1, <1>2, <1>4, <1>5

(* A step that brings the end nearer and changes nothing of what is whole. *)
LEMMA DiesOn ==
  ASSUME Cast, NEW a \in {"thread"} \cup Killers, Dying(a), NEW s \in Steps, Goes(a, s),
         IF a = "thread" THEN Exiting' ELSE Killing(a)',
         place' \in {place, "nowhere"},
         UNCHANGED <<machine, registered, freed, reaped, signaled, got>>
  PROVE  TermInv'
<1>1. /\ a \in Actors /\ a \notin Waiters
      /\ a \in Killers => a \in machine.killers /\ a # "thread" /\ at["thread"] = "rest"
      /\ a = "thread" /\ machine.parallel => machine.killers = {}
  BY DyingActs
<1>2. at'[a] = s /\ \A b \in Actors : b # a => at'[b] = at[b]
  BY <1>1, Moved
<1>3. \A k \in Killers \ {a} : at'[k] = "rest"
  BY <1>2, ActorsApart DEF Dying
<1>4. \A w \in Waiters : at'[w] = at[w]
  BY <1>1, <1>2, ActorsApart
<1>5. \A w \in Waiters : at'[w] \in {"rest", "asleep"}
  BY <1>4 DEF Dying
<1>6. Whole'
  BY <1>4 DEF Dying, Whole
<1>7. Dying(a)'
  BY <1>3, <1>5, <1>6 DEF Dying
<1>8. machine.parallel /\ machine.killers # {} => at'["thread"] = "rest" /\ place' \in {"parked", "nowhere"}
  BY <1>1, <1>2, ActorsApart DEF Cast
<1>9. Cast'
  <2>1. got' \in [Waiters -> Collected]
    BY DEF Cast
  <2> QED
    BY <1>1, <1>8, <2>1, CastKept
<1> QED
  BY <1>7, <1>9 DEF TermInv

LEMMA ThreadEndsItself ==
  ASSUME Cast, Dying("thread"), Finishes("thread"), ~ CompleteSignals("thread") PROVE TermInv'
<1>1. Exiting /\ Whole
  BY DEF Dying
<1>2. ASSUME NEW s \in Steps, Goes("thread", s) PROVE at'["thread"] = s
  BY <1>2, Moved, ActorsApart
<1>3. CASE Terminates("thread")
  <2>1. Goes("thread", "last")
    BY <1>1, <1>3 DEF Terminates, Exiting
  <2>2. at'["thread"] = "last" /\ "last" \in Steps
    BY <1>2, <2>1, StepNames
  <2>3. Exiting'
    BY <1>1, <1>3, <2>2 DEF Exiting, Terminates, endVars
  <2> QED
    BY <1>3, <2>1, <2>2, <2>3, DiesOn DEF Terminates, endVars, tableVars
<1>4. CASE Last("thread")
  <2>1. Goes("thread", "complete")
    BY <1>1, <1>4 DEF Last, Exiting
  <2>2. at'["thread"] = "complete" /\ "complete" \in Steps
    BY <1>2, <2>1, StepNames
  <2>3. Exiting'
    BY <1>1, <1>4, <2>2 DEF Exiting, Last, threadVars, endVars
  <2> QED
    BY <1>4, <2>1, <2>2, <2>3, DiesOn DEF Last, threadVars, endVars, tableVars
<1>5. CASE CompleteMarks("thread")
  <2>1. Goes("thread", "record_last")
    BY <1>5 DEF CompleteMarks
  <2>2. at'["thread"] = "record_last" /\ "record_last" \in Steps
    BY <1>2, <2>1, StepNames
  <2>3. Exiting'
    BY <1>1, <1>5, <2>2 DEF Exiting, CompleteMarks, threadVars, endVars
  <2> QED
    BY <1>5, <2>1, <2>2, <2>3, DiesOn DEF CompleteMarks, threadVars, endVars, tableVars
<1>6. CASE CompleteRecords("thread")
  <2>1. Goes("thread", "reopen_last") /\ reason' = "exit"
    BY <1>1, <1>6 DEF CompleteRecords, Reported, Exiting
  <2>2. at'["thread"] = "reopen_last" /\ "reopen_last" \in Steps
    BY <1>2, <2>1, StepNames
  <2>3. Exiting'
    BY <1>1, <1>6, <2>1, <2>2 DEF Exiting, CompleteRecords, threadVars
  <2> QED
    BY <1>6, <2>1, <2>2, <2>3, DiesOn DEF CompleteRecords, threadVars, tableVars
<1>7. CASE CompleteReopens("thread")
  <2>1. Goes("thread", "release") /\ reaped' = reaped
    BY <1>1, <1>7 DEF CompleteReopens, Whole
  <2>2. at'["thread"] = "release" /\ "release" \in Steps
    BY <1>2, <2>1, StepNames
  <2>3. Exiting'
    BY <1>1, <1>7, <2>2 DEF Exiting, CompleteReopens, threadVars
  <2> QED
    BY <1>7, <2>1, <2>2, <2>3, DiesOn DEF CompleteReopens, threadVars, tableVars
<1>8. CASE CompleteReleases("thread")
  <2>1. Goes("thread", "signal") /\ space' = "deferred"
    BY <1>1, <1>8 DEF CompleteReleases, Exiting
  <2>2. at'["thread"] = "signal" /\ "signal" \in Steps
    BY <1>2, <2>1, StepNames
  <2>3. Exiting'
    BY <1>1, <1>8, <2>1, <2>2 DEF Exiting, CompleteReleases, threadVars
  <2> QED
    BY <1>8, <2>1, <2>2, <2>3, DiesOn DEF CompleteReleases, threadVars, tableVars
<1> QED
  BY <1>3, <1>4, <1>5, <1>6, <1>7, <1>8 DEF Finishes

(* What a killer finds at each of its steps. *)
LEMMA KillerKnows ==
  ASSUME NEW k, Killing(k)
  PROVE  /\ at[k] \in {"reopen", "scan_ready"} => pstate = "Terminated" /\ place \in {"queue", "parked"}
         /\ at[k] = "mark" => place \in {"queue", "parked"}
         /\ at[k] = "scan_waiting" => pstate = "Terminated" /\ place = "parked"
         /\ at[k] \in Searching \cup {"terminate"} => tstate # "Terminated" /\ scanned = {}
         /\ at[k] \in {"terminate", "last", "scan_current"} \cup Completing =>
               pstate = "Terminated" /\ place = "nowhere"
         /\ at[k] \in {"last", "scan_current"} \cup Completing => tstate = "Terminated"
         /\ at[k] \in {"last", "scan_current"} => scanned = {}
         /\ at[k] \in Completing => scanned = {k}
         /\ at[k] # "signal" => space = "installed"
  BY DEF Killing, Searching, Completing

LEMMA KillerSearches ==
  ASSUME Cast, NEW k \in Killers, Dying(k), KillMarks(k) \/ KillReopens(k) \/ ScanReady(k) \/ ScanWaiting(k)
  PROVE  TermInv'
<1>1. k \in Actors /\ k # "thread" /\ Killing(k) /\ Whole
  BY DyingActs, ActorsApart DEF Dying
<1>2. ASSUME NEW s \in Steps, Goes(k, s) PROVE at'[k] = s /\ at'["thread"] = "rest"
  BY <1>1, <1>2, Moved, ActorsApart DEF Killing
<1>3. CASE KillMarks(k)
  <2>1. Goes(k, "reopen") /\ "reopen" \in Steps
    BY <1>3, StepNames DEF KillMarks
  <2>2. at'[k] = "reopen" /\ at'["thread"] = "rest"
    BY <1>2, <2>1
  <2>3. place \in {"queue", "parked"} /\ tstate # "Terminated" /\ scanned = {} /\ space = "installed"
    BY <1>1, <1>3, KillerKnows DEF KillMarks, Searching
  <2>4. Killing(k)'
    BY <1>1, <1>3, <2>2, <2>3 DEF Killing, KillMarks, threadVars, endVars, Searching, Completing
  <2> QED
    BY <1>1, <1>3, <2>1, <2>4, DiesOn DEF KillMarks, threadVars, endVars, tableVars
<1>4. CASE KillReopens(k)
  <2>1. Goes(k, "scan_ready") /\ "scan_ready" \in Steps /\ reaped' = reaped
    BY <1>1, <1>4, StepNames DEF KillReopens, Whole
  <2>2. at'[k] = "scan_ready" /\ at'["thread"] = "rest"
    BY <1>2, <2>1
  <2>3. /\ place \in {"queue", "parked"} /\ tstate # "Terminated" /\ scanned = {}
        /\ pstate = "Terminated" /\ space = "installed"
    BY <1>1, <1>4, KillerKnows DEF KillReopens, Searching
  <2>4. Killing(k)'
    BY <1>1, <1>4, <2>2, <2>3 DEF Killing, KillReopens, threadVars, Searching, Completing
  <2> QED
    BY <1>1, <1>4, <2>1, <2>4, DiesOn DEF KillReopens, threadVars, tableVars
<1>5. CASE ScanReady(k)
  <2>1. /\ place \in {"queue", "parked"} /\ tstate # "Terminated" /\ scanned = {}
        /\ pstate = "Terminated" /\ space = "installed"
    BY <1>1, <1>5, KillerKnows DEF ScanReady, Scans, Searching
  <2>2. CASE place = "queue"
    <3>1. Goes(k, "terminate") /\ "terminate" \in Steps /\ place' = "nowhere"
      BY <1>5, <2>2, StepNames DEF ScanReady, Scans
    <3>2. at'[k] = "terminate" /\ at'["thread"] = "rest"
      BY <1>2, <3>1
    <3>3. Killing(k)'
      BY <1>1, <1>5, <2>1, <3>1, <3>2 DEF Killing, ScanReady, Scans, endVars, Searching, Completing
    <3> QED
      BY <1>1, <1>5, <3>1, <3>3, DiesOn DEF ScanReady, Scans, endVars, tableVars
  <2>3. CASE place = "parked"
    <3>1. Goes(k, "scan_waiting") /\ "scan_waiting" \in Steps /\ place' = "parked"
      BY <1>5, <2>3, StepNames DEF ScanReady, Scans
    <3>2. at'[k] = "scan_waiting" /\ at'["thread"] = "rest"
      BY <1>2, <3>1
    <3>3. Killing(k)'
      BY <1>1, <1>5, <2>1, <3>1, <3>2 DEF Killing, ScanReady, Scans, endVars, Searching, Completing
    <3> QED
      BY <1>1, <1>5, <2>3, <3>1, <3>3, DiesOn DEF ScanReady, Scans, endVars, tableVars
  <2> QED
    BY <2>1, <2>2, <2>3
<1>6. CASE ScanWaiting(k)
  <2>1. /\ place = "parked" /\ tstate # "Terminated" /\ scanned = {}
        /\ pstate = "Terminated" /\ space = "installed"
    BY <1>1, <1>6, KillerKnows DEF ScanWaiting, Scans, Searching
  <2>2. Goes(k, "terminate") /\ "terminate" \in Steps /\ place' = "nowhere"
    BY <1>6, <2>1, StepNames DEF ScanWaiting, Scans
  <2>3. at'[k] = "terminate" /\ at'["thread"] = "rest"
    BY <1>2, <2>2
  <2>4. Killing(k)'
    BY <1>1, <1>6, <2>1, <2>2, <2>3 DEF Killing, ScanWaiting, Scans, endVars, Searching, Completing
  <2> QED
    BY <1>1, <1>6, <2>2, <2>4, DiesOn DEF ScanWaiting, Scans, endVars, tableVars
<1> QED
  BY <1>3, <1>4, <1>5, <1>6

(* The thread found is terminated, and the killer goes on to the current slot. *)
LEMMA KillerTerminates ==
  ASSUME Cast, NEW k \in Killers, Dying(k), Terminates(k) \/ Last(k) \/ ScanCurrent(k)
  PROVE  TermInv'
<1>1. k \in Actors /\ k # "thread" /\ Killing(k) /\ Whole
  BY DyingActs, ActorsApart DEF Dying
<1>2. ASSUME NEW s \in Steps, Goes(k, s) PROVE at'[k] = s /\ at'["thread"] = "rest"
  BY <1>1, <1>2, Moved, ActorsApart DEF Killing
<1>3. CASE Terminates(k)
  <2>1. tstate # "Terminated" /\ scanned = {} /\ pstate = "Terminated" /\ place = "nowhere" /\ space = "installed"
    BY <1>1, <1>3, KillerKnows DEF Terminates
  <2>2. Goes(k, "last") /\ "last" \in Steps
    BY <1>3, <2>1, StepNames DEF Terminates
  <2>3. at'[k] = "last" /\ at'["thread"] = "rest"
    BY <1>2, <2>2
  <2>4. Killing(k)'
    BY <1>1, <1>3, <2>1, <2>3 DEF Killing, Terminates, endVars, Searching, Completing
  <2> QED
    BY <1>1, <1>3, <2>2, <2>4, DiesOn DEF Terminates, endVars, tableVars
<1>4. CASE Last(k)
  <2>1. tstate = "Terminated" /\ scanned = {} /\ pstate = "Terminated" /\ place = "nowhere" /\ space = "installed"
    BY <1>1, <1>4, KillerKnows DEF Last
  <2>2. Goes(k, "scan_current") /\ "scan_current" \in Steps
    BY <1>1, <1>4, <2>1, StepNames DEF Last, After
  <2>3. at'[k] = "scan_current" /\ at'["thread"] = "rest"
    BY <1>2, <2>2
  <2>4. Killing(k)'
    BY <1>1, <1>4, <2>1, <2>3 DEF Killing, Last, threadVars, endVars, Searching, Completing
  <2> QED
    BY <1>1, <1>4, <2>2, <2>4, DiesOn DEF Last, threadVars, endVars, tableVars
<1>5. CASE ScanCurrent(k)
  <2>1. tstate = "Terminated" /\ scanned = {} /\ pstate = "Terminated" /\ place = "nowhere" /\ space = "installed"
    BY <1>1, <1>5, KillerKnows DEF ScanCurrent
  <2>2. Goes(k, "complete") /\ "complete" \in Steps /\ scanned' = {k}
    BY <1>5, <2>1, StepNames DEF ScanCurrent
  <2>3. at'[k] = "complete" /\ at'["thread"] = "rest"
    BY <1>2, <2>2
  <2>4. Killing(k)'
    BY <1>1, <1>5, <2>1, <2>2, <2>3 DEF Killing, ScanCurrent, endVars, Searching, Completing
  <2> QED
    BY <1>1, <1>5, <2>2, <2>4, DiesOn DEF ScanCurrent, endVars, tableVars
<1> QED
  BY <1>3, <1>4, <1>5

(* complete_termination by the killer, up to the signal. *)
LEMMA KillerCompletes ==
  ASSUME Cast, NEW k \in Killers, Dying(k),
         CompleteMarks(k) \/ CompleteRecords(k) \/ CompleteReopens(k) \/ CompleteReleases(k)
  PROVE  TermInv'
<1>1. k \in Actors /\ k # "thread" /\ Killing(k) /\ Whole
  BY DyingActs, ActorsApart DEF Dying
<1>2. ASSUME NEW s \in Steps, Goes(k, s) PROVE at'[k] = s /\ at'["thread"] = "rest"
  BY <1>1, <1>2, Moved, ActorsApart DEF Killing
<1>3. at[k] \in Completing /\ at[k] # "signal"
  BY DEF CompleteMarks, CompleteRecords, CompleteReopens, CompleteReleases, Completing
<1>4. tstate = "Terminated" /\ scanned = {k} /\ pstate = "Terminated" /\ place = "nowhere" /\ space = "installed"
  BY <1>1, <1>3, KillerKnows
<1>5. CASE CompleteMarks(k)
  <2>1. Goes(k, "record_last") /\ "record_last" \in Steps
    BY <1>5, StepNames DEF CompleteMarks
  <2>2. at'[k] = "record_last" /\ at'["thread"] = "rest"
    BY <1>2, <2>1
  <2>3. Killing(k)'
    BY <1>1, <1>4, <1>5, <2>2 DEF Killing, CompleteMarks, threadVars, endVars, Searching, Completing
  <2> QED
    BY <1>1, <1>5, <2>1, <2>3, DiesOn DEF CompleteMarks, threadVars, endVars, tableVars
<1>6. CASE CompleteRecords(k)
  <2>1. Goes(k, "reopen_last") /\ "reopen_last" \in Steps /\ reason' = "kill"
    BY <1>1, <1>4, <1>6, StepNames DEF CompleteRecords, Reported
  <2>2. at'[k] = "reopen_last" /\ at'["thread"] = "rest"
    BY <1>2, <2>1
  <2>3. Killing(k)'
    BY <1>1, <1>4, <1>6, <2>1, <2>2 DEF Killing, CompleteRecords, threadVars, Searching, Completing
  <2> QED
    BY <1>1, <1>6, <2>1, <2>3, DiesOn DEF CompleteRecords, threadVars, tableVars
<1>7. CASE CompleteReopens(k)
  <2>1. Goes(k, "release") /\ "release" \in Steps /\ reaped' = reaped
    BY <1>1, <1>7, StepNames DEF CompleteReopens, Whole
  <2>2. at'[k] = "release" /\ at'["thread"] = "rest"
    BY <1>2, <2>1
  <2>3. Killing(k)'
    BY <1>1, <1>4, <1>7, <2>2 DEF Killing, CompleteReopens, threadVars, Searching, Completing
  <2> QED
    BY <1>1, <1>7, <2>1, <2>3, DiesOn DEF CompleteReopens, threadVars, tableVars
<1>8. CASE CompleteReleases(k)
  <2>1. Goes(k, "signal") /\ "signal" \in Steps /\ space' = "deferred"
    BY <1>4, <1>8, StepNames DEF CompleteReleases
  <2>2. at'[k] = "signal" /\ at'["thread"] = "rest"
    BY <1>2, <2>1
  <2>3. Killing(k)'
    BY <1>1, <1>4, <1>8, <2>1, <2>2 DEF Killing, CompleteReleases, threadVars, Searching, Completing
  <2> QED
    BY <1>1, <1>8, <2>1, <2>3, DiesOn DEF CompleteReleases, threadVars, tableVars
<1> QED
  BY <1>5, <1>6, <1>7, <1>8

(* The signal is the last step of the end, and wakes everybody who sleeps. *)
LEMMA SignalKeeps ==
  ASSUME Cast, NEW a \in {"thread"} \cup Killers, Dying(a), CompleteSignals(a)
  PROVE  TermInv'
<1>1. /\ a \in Actors /\ a \notin Waiters
      /\ a \in Killers => a \in machine.killers /\ a # "thread" /\ at["thread"] = "rest"
      /\ a = "thread" /\ machine.parallel => machine.killers = {}
  BY DyingActs
<1>2. /\ at[a] = "signal" /\ signaled' = TRUE
      /\ at' = [b \in Actors |-> CASE b = a -> After(a) [] b \in Woken -> "woken" [] OTHER -> at[b]]
      /\ UNCHANGED <<machine, pstate, tstate, place, reason, reaped, space, registered, freed, got, scanned>>
  BY DEF CompleteSignals, threadVars, tableVars
<1>3. /\ pstate = "Terminated" /\ tstate = "Terminated" /\ place = "nowhere" /\ space = "deferred"
      /\ reason \in Reasons /\ (a \in Killers => a \in scanned)
  BY <1>1, <1>2 DEF Dying, Exiting, Killing, Reasons, Searching, Completing
<1>4. After(a) = IF a = "thread" THEN "rest" ELSE "done"
  BY <1>1, <1>3 DEF After
<1>5. at'[a] = After(a)
  <2>1. a \notin Woken
    BY <1>1 DEF Woken
  <2> QED
    BY <1>1, <1>2, <2>1
<1>6. \A k \in Killers : k # a => at'[k] = "rest"
  <2> SUFFICES ASSUME NEW k \in Killers, k # a PROVE at'[k] = "rest"
    OBVIOUS
  <2>1. k \in Actors /\ k \notin Woken /\ at[k] = "rest"
    BY ActorsApart DEF Woken, Dying
  <2> QED
    BY <1>2, <2>1
<1>7. at'["thread"] = "rest"
  <2>1. CASE a = "thread"
    BY <2>1, <1>4, <1>5
  <2>2. CASE a \in Killers
    <3>1. "thread" \in Actors /\ "thread" \notin Woken /\ at["thread"] = "rest" /\ a # "thread"
      BY <1>1, <2>2, ActorsApart DEF Woken
    <3> QED
      BY <1>2, <3>1
  <2> QED
    BY <2>1, <2>2
<1>8. \A w \in Waiters : at'[w] = IF at[w] = "asleep" THEN "woken" ELSE "rest"
  <2> SUFFICES ASSUME NEW w \in Waiters PROVE at'[w] = IF at[w] = "asleep" THEN "woken" ELSE "rest"
    OBVIOUS
  <2>1. w \in Actors /\ w # a /\ at[w] \in {"rest", "asleep"} /\ (w \in Woken <=> at[w] = "asleep")
    BY <1>1, ActorsApart DEF Woken, Dying
  <2> QED
    BY <1>2, <2>1
<1>9. at' \in [Actors -> Steps]
  <2> SUFFICES ASSUME NEW b \in Actors
               PROVE  (CASE b = a -> After(a) [] b \in Woken -> "woken" [] OTHER -> at[b]) \in Steps
    BY <1>2
  <2>1. at[b] \in Steps /\ After(a) \in Steps /\ "woken" \in Steps
    BY <1>4, StepNames DEF Cast
  <2> QED
    BY <2>1
<1>10. Cast'
  <2>1. \A k \in Killers : k \notin machine.killers => at'[k] = "rest"
    BY <1>1, <1>6
  <2>2. machine.parallel => \A w \in Waiters : at'[w] # "rest"
    BY <1>8 DEF Cast, Dying, Whole
  <2> QED
    BY <1>2, <1>3, <1>7, <1>9, <2>1, <2>2 DEF Cast
<1>11. \A w \in Waiters : at'[w] \in {"rest", "woken"}
  BY <1>8
<1>12. Unreaped'
  BY <1>2, <1>3, <1>11 DEF Unreaped, Dying, Whole, Reaping
<1>13. \A k \in Killers : at'[k] \in {"rest", "done"}
  BY <1>1, <1>4, <1>5, <1>6
<1>14. \A w \in Waiters :
          at'[w] \in {"rest", "probe", "wait", "woken", "find", "claim", "take", "forget", "done"}
  BY <1>11
<1>15. Dead'
  BY <1>2, <1>3, <1>7, <1>12, <1>13, <1>14 DEF Dead
<1> QED
  BY <1>10, <1>15 DEF TermInv

LEMMA DyingStep ==
  ASSUME Cast, NEW a \in {"thread"} \cup Killers, Dying(a), TermNext PROVE TermInv'
<1>1. /\ a \in Actors /\ a \notin Waiters
      /\ ~ AtRest(a) /\ at[a] \notin {"write", "settle", "prepare", "record"}
      /\ a \in Killers => a \in machine.killers /\ a # "thread" /\ at["thread"] = "rest"
      /\ a = "thread" /\ machine.parallel => machine.killers = {}
  BY DyingActs
<1>2. at[a] # "rest"
  BY <1>1 DEF AtRest
<1>3. ~ ThreadActs
  <2>1. CASE a = "thread"
    BY <1>1, <1>2, <2>1 DEF ThreadActs, Writes, Settles, DispatchPrepares, DispatchTakes, Leaves, Wakes, Exits
  <2>2. CASE a \in Killers
    <3>1. at["thread"] = "rest"
      BY <1>1, <2>2
    <3>2. ~ (Writes \/ Settles \/ DispatchPrepares)
      BY <3>1 DEF Writes, Settles, DispatchPrepares
    <3>3. MayRun("thread") => machine.parallel
      BY <1>1, <2>2 DEF MayRun
    <3>4. machine.parallel => ~ machine.moves /\ place \in {"parked", "nowhere"}
      BY <1>1, <2>2 DEF Cast
    <3> QED
      BY <3>2, <3>3, <3>4 DEF ThreadActs, DispatchTakes, Leaves, Wakes, Exits
  <2> QED
    BY <2>1, <2>2
<1>4. \A b \in {"thread"} \cup Killers : ~ KillStarts(b)
  <2> SUFFICES ASSUME NEW b \in {"thread"} \cup Killers, KillStarts(b) PROVE FALSE
    OBVIOUS
  <2>1. b # "thread"
    BY DEF KillStarts, Cast, Orderly
  <2>2. b \in machine.killers /\ at[b] = "rest" /\ MayRun(b)
    BY <2>1 DEF KillStarts, Begins, IsDispatched
  <2>3. machine.parallel
    BY <1>1, <1>2, <2>2 DEF MayRun
  <2>4. \A j, k \in machine.killers : j = k
    BY <2>3 DEF Cast, Orderly
  <2> QED
    BY <1>1, <1>2, <2>2, <2>3, <2>4
<1>5. \A w \in Waiters : ~ (WaitStarts(w) \/ Waits(w))
  <2> SUFFICES ASSUME NEW w \in Waiters, WaitStarts(w) \/ Waits(w) PROVE FALSE
    OBVIOUS
  <2>1. at[w] \in {"rest", "asleep"} /\ w # a
    BY <1>1 DEF Dying
  <2>2. WaitStarts(w)
    BY <2>1 DEF Waits, WaitProbes, WaitBlocks, ReapFinds, ReapClaims, ReapTakes, ReapForgets
  <2>3. machine.parallel
    BY <1>1, <2>1, <2>2 DEF WaitStarts, Begins, IsDispatched, MayRun
  <2> QED
    BY <2>2, <2>3 DEF Cast, WaitStarts, Begins
<1>6. PICK b \in {"thread"} \cup Killers : Finishes(b) \/ Kills(b)
  BY <1>3, <1>4, <1>5 DEF TermNext, Starts, Moves, ThreadActs
<1>7. at[b] # "rest"
  BY <1>6 DEF Finishes, Kills, Terminates, Last, CompleteMarks, CompleteRecords, CompleteReopens,
              CompleteReleases, CompleteSignals, KillRecords, KillMarks, KillReopens, ScanReady, ScanWaiting,
              ScanCurrent, Scans
<1>8. b = a
  BY <1>1, <1>7 DEF Dying
<1>9. CASE CompleteSignals(a)
  BY <1>9, SignalKeeps
<1>10. CASE a = "thread" /\ ~ CompleteSignals(a)
  <2>1. ~ Kills("thread")
    BY <1>10 DEF Dying, Exiting, Kills, KillRecords, KillMarks, KillReopens, ScanReady, ScanWaiting, ScanCurrent,
                 Scans
  <2> QED
    BY <1>6, <1>8, <1>10, <2>1, ThreadEndsItself
<1>11. CASE a \in Killers /\ ~ CompleteSignals(a)
  <2>1. ~ KillRecords(a)
    BY <1>1 DEF KillRecords
  <2> QED
    BY <1>6, <1>8, <1>11, <2>1, KillerSearches, KillerTerminates, KillerCompletes DEF Finishes, Kills
<1> QED
  BY <1>9, <1>10, <1>11

-----------------------------------------------------------------------------
(* The process is over, and is collected. *)

(* A waiter's step that changes nothing but where it is. *)
LEMMA WaiterGoesOn ==
  ASSUME Cast, Dead, NEW w \in Waiters,
         NEW s \in {"probe", "wait", "find", "claim", "done"}, Goes(w, s), ~ Reaping(w),
         UNCHANGED <<machine, pstate, tstate, place, reason, reaped, space, signaled, registered, freed, got>>
  PROVE  TermInv'
<1>1. w \in Actors /\ w # "thread" /\ w \notin Killers
  BY ActorsApart
<1>2. s \in Steps /\ s # "rest"
  BY StepNames
<1>3. at'[w] = s /\ \A b \in Actors : b # w => at'[b] = at[b]
  BY <1>1, <1>2, Moved
<1>4. at'["thread"] = at["thread"] /\ \A k \in Killers : at'[k] = at[k]
  BY <1>1, <1>3, ActorsApart
<1>5. \A v \in Waiters : at'[v] = at[v] \/ (v = w /\ at'[v] = s)
  BY <1>3, ActorsApart
<1>6. \A v \in Waiters : Reaping(v)' => Reaping(v)
  BY <1>5 DEF Reaping
<1>7. \A v \in Waiters :
         at'[v] \in {"rest", "probe", "wait", "woken", "find", "claim", "take", "forget", "done"}
  BY <1>5 DEF Dead
<1>8. ASSUME Unreaped PROVE Unreaped'
  BY <1>6, <1>8 DEF Unreaped
<1>9. ASSUME Forgotten PROVE Forgotten'
  BY <1>6, <1>9 DEF Forgotten
<1>10. ASSUME NEW v \in Waiters, ReapedBy(v) PROVE ReapedBy(v)'
  <2>1. v # w
    BY <1>10 DEF ReapedBy, Reaping
  <2>2. at'[v] = at[v]
    BY <1>5, <2>1
  <2> QED
    BY <1>6, <1>10, <2>2 DEF ReapedBy
<1>11. Dead'
  BY <1>4, <1>7, <1>8, <1>9, <1>10 DEF Dead
<1>12. Cast'
  <2>1. got' \in [Waiters -> Collected]
    BY DEF Cast
  <2>2. at'["thread"] = "rest" /\ place' \in {"parked", "nowhere"}
    BY <1>4 DEF Dead
  <2> QED
    BY <1>1, <1>2, <2>1, <2>2, CastKept
<1> QED
  BY <1>11, <1>12 DEF TermInv

LEMMA WaiterLooks ==
  ASSUME Cast, Dead, NEW w \in Waiters, WaitStarts(w) \/ WaitProbes(w) \/ WaitBlocks(w) \/ ReapFinds(w)
  PROVE  TermInv'
<1>1. ~ Reaping(w)
  BY DEF WaitStarts, Begins, WaitProbes, WaitBlocks, ReapFinds, Reaping
<1>2. PICK s \in {"probe", "wait", "find", "claim", "done"} : Goes(w, s)
  BY DEF WaitStarts, WaitProbes, WaitBlocks, ReapFinds, Dead
<1>3. UNCHANGED <<machine, pstate, tstate, place, reason, reaped, space, signaled, registered, freed, got>>
  BY DEF WaitStarts, WaitProbes, WaitBlocks, ReapFinds, threadVars, endVars, tableVars
<1> QED
  BY <1>1, <1>2, <1>3, WaiterGoesOn

(* A waiter's step that has a part in the reaping. *)
LEMMA WaiterReaps ==
  ASSUME Cast, Dead, NEW w \in Waiters, NEW s \in {"take", "forget", "done"}, Goes(w, s),
         UNCHANGED <<machine, pstate, tstate, place, signaled>>,
         got' \in [Waiters -> Collected],
         (Unreaped \/ (\E v \in Waiters : ReapedBy(v)) \/ Forgotten)'
  PROVE  TermInv'
<1>1. w \in Actors /\ w # "thread" /\ w \notin Killers
  BY ActorsApart
<1>2. s \in Steps /\ s # "rest"
  BY StepNames
<1>3. at'[w] = s /\ \A b \in Actors : b # w => at'[b] = at[b]
  BY <1>1, <1>2, Moved
<1>4. at'["thread"] = at["thread"] /\ \A k \in Killers : at'[k] = at[k]
  BY <1>1, <1>3, ActorsApart
<1>5. \A v \in Waiters :
         at'[v] \in {"rest", "probe", "wait", "woken", "find", "claim", "take", "forget", "done"}
  <2> SUFFICES ASSUME NEW v \in Waiters
               PROVE  at'[v] \in {"rest", "probe", "wait", "woken", "find", "claim", "take", "forget", "done"}
    OBVIOUS
  <2>1. CASE v = w
    BY <1>3, <2>1
  <2>2. CASE v # w
    BY <1>3, <2>2, ActorsApart DEF Dead
  <2> QED
    BY <2>1, <2>2
<1>6. Dead'
  BY <1>4, <1>5 DEF Dead
<1>7. Cast'
  <2>1. at'["thread"] = "rest" /\ place' \in {"parked", "nowhere"}
    BY <1>4 DEF Dead
  <2> QED
    BY <1>1, <1>2, <2>1, CastKept
<1> QED
  BY <1>6, <1>7 DEF TermInv

LEMMA ClaimKeeps ==
  ASSUME Cast, Dead, NEW w \in Waiters, ReapClaims(w) PROVE TermInv'
<1>1. /\ at[w] = "claim" /\ pstate = "Terminated" /\ w \in Actors
      /\ UNCHANGED <<machine, pstate, tstate, place, reason, space, signaled, registered, freed, got>>
  BY ActorsApart DEF Dead, ReapClaims, threadVars, tableVars
<1>2. CASE reaped = FALSE
  <2>1. Goes(w, "take") /\ "take" \in Steps /\ reaped' = TRUE
    BY <1>1, <1>2, StepNames DEF ReapClaims
  <2>2. at'[w] = "take" /\ \A b \in Actors : b # w => at'[b] = at[b]
    BY <1>1, <2>1, Moved
  <2>3. Unreaped
    BY <1>2 DEF Dead, ReapedBy, Forgotten
  <2>4. \A v \in Waiters \ {w} : ~ Reaping(v)'
    BY <2>2, <2>3, ActorsApart DEF Unreaped, Reaping
  <2>5. ReapedBy(w)'
    BY <1>1, <2>1, <2>2, <2>3, <2>4 DEF ReapedBy, Unreaped
  <2>6. got' \in [Waiters -> Collected]
    BY <1>1 DEF Cast
  <2> QED
    BY <1>1, <2>1, <2>5, <2>6, WaiterReaps
<1>3. CASE reaped # FALSE
  <2>1. reaped = TRUE
    BY <1>3 DEF Dead, Unreaped, ReapedBy, Forgotten
  <2>2. Goes(w, "done") /\ reaped' = reaped
    BY <1>1, <2>1 DEF ReapClaims
  <2>3. ~ Reaping(w)
    BY <1>1 DEF Reaping
  <2> QED
    BY <1>1, <2>2, <2>3, WaiterGoesOn
<1> QED
  BY <1>2, <1>3

(* Whoever takes or forgets is the one who claimed. *)
LEMMA ReaperIsOne ==
  ASSUME Dead, NEW w \in Waiters, Reaping(w)
  PROVE  ReapedBy(w)
  BY DEF Dead, Unreaped, ReapedBy, Forgotten

LEMMA TakeKeeps ==
  ASSUME Cast, Dead, NEW w \in Waiters, ReapTakes(w) PROVE TermInv'
<1>1. /\ at[w] = "take" /\ w \in Actors /\ Goes(w, "forget") /\ "forget" \in Steps
      /\ UNCHANGED <<machine, pstate, tstate, place, space, signaled, registered, freed, reaped>>
      /\ got' = [got EXCEPT ![w] = reason]
  BY ActorsApart, StepNames DEF ReapTakes, threadVars
<1>2. ReapedBy(w)
  BY <1>1, ReaperIsOne DEF Reaping
<1>3. at'[w] = "forget" /\ \A b \in Actors : b # w => at'[b] = at[b]
  BY <1>1, Moved
<1>4. \A v \in Waiters \ {w} : ~ Reaping(v)'
  BY <1>2, <1>3, ActorsApart DEF ReapedBy, Reaping
<1>5. ReapedBy(w)'
  BY <1>1, <1>2, <1>3, <1>4 DEF ReapedBy
<1>6. got' \in [Waiters -> Collected]
  <2>1. reason \in Collected
    BY <1>1, <1>2 DEF ReapedBy, Collected
  <2> QED
    BY <1>1, <2>1 DEF Cast
<1> QED
  BY <1>1, <1>5, <1>6, WaiterReaps

LEMMA ForgetKeeps ==
  ASSUME Cast, Dead, NEW w \in Waiters, ReapForgets(w) PROVE TermInv'
<1>1. /\ at[w] = "forget" /\ w \in Actors /\ Goes(w, "done") /\ "done" \in Steps
      /\ UNCHANGED <<machine, pstate, tstate, place, signaled, reaped, got>>
      /\ registered' = FALSE
  BY ActorsApart, StepNames DEF ReapForgets, threadVars
<1>2. ReapedBy(w)
  BY <1>1, ReaperIsOne DEF Reaping
<1>3. at'[w] = "done" /\ \A b \in Actors : b # w => at'[b] = at[b]
  BY <1>1, Moved
<1>4. \A v \in Waiters : ~ Reaping(v)'
  BY <1>2, <1>3, ActorsApart DEF ReapedBy, Reaping
<1>5. space' = "given back"
  BY <1>2 DEF ReapForgets, ReapedBy
<1>6. freed' = 1
  <2>1. freed = 0 /\ freed' = freed + 1
    BY <1>2 DEF ReapForgets, ReapedBy
  <2> QED
    BY SMT, Z3T(40), <2>1
<1>7. Forgotten'
  BY <1>1, <1>2, <1>4, <1>5, <1>6 DEF ReapedBy, Forgotten
<1>8. got' \in [Waiters -> Collected]
  BY <1>1 DEF Cast
<1> QED
  BY <1>1, <1>7, <1>8, WaiterReaps

LEMMA DeadStep ==
  ASSUME Cast, Dead, TermNext PROVE TermInv'
<1>1. ~ ThreadActs
  BY DEF Dead, ThreadActs, Writes, Settles, DispatchPrepares, DispatchTakes, Leaves, Wakes, Exits
<1>2. \A a \in {"thread"} \cup Killers : ~ (Finishes(a) \/ Kills(a))
  BY DEF Dead, Finishes, Kills, Terminates, Last, CompleteMarks, CompleteRecords, CompleteReopens,
         CompleteReleases, CompleteSignals, KillRecords, KillMarks, KillReopens, ScanReady, ScanWaiting,
         ScanCurrent, Scans
<1>3. CASE \E a \in {"thread"} \cup Killers : KillStarts(a)
  <2>1. PICK k \in {"thread"} \cup Killers : KillStarts(k)
    BY <1>3
  <2>2. k \in Killers /\ k \in Actors /\ k # "thread" /\ k \notin Waiters /\ k \in machine.killers
    BY <2>1, ActorsApart DEF KillStarts, Cast, Orderly
  <2>3. Goes(k, "done") /\ "done" \in Steps
    BY <2>1, <2>2, StepNames DEF KillStarts, Dead
  <2>4. at'[k] = "done" /\ \A b \in Actors : b # k => at'[b] = at[b]
    BY <2>2, <2>3, Moved
  <2>5. UNCHANGED <<machine, pstate, tstate, place, reason, reaped, space, signaled, registered, freed, got>>
    BY <2>1 DEF KillStarts, threadVars, endVars, tableVars
  <2>6. at'["thread"] = at["thread"] /\ \A w \in Waiters : at'[w] = at[w]
    BY <2>2, <2>4, ActorsApart
  <2>7. \A j \in Killers : at'[j] \in {"rest", "done"}
    BY <2>4, ActorsApart DEF Dead
  <2>8. (Unreaped \/ (\E w \in Waiters : ReapedBy(w)) \/ Forgotten)'
    BY <2>5, <2>6 DEF Dead, Unreaped, ReapedBy, Forgotten, Reaping
  <2>9. Dead'
    BY <2>5, <2>6, <2>7, <2>8 DEF Dead
  <2>10. Cast'
    <3>1. got' \in [Waiters -> Collected] /\ machine' = machine
      BY <2>5 DEF Cast
    <3>2. at'["thread"] = "rest" /\ place' \in {"parked", "nowhere"}
      BY <2>9 DEF Dead
    <3> QED
      BY <2>2, <2>3, <3>1, <3>2, CastKept
  <2> QED
    BY <2>9, <2>10 DEF TermInv
<1>4. CASE \E w \in Waiters : WaitStarts(w) \/ Waits(w)
  BY <1>4, WaiterLooks, ClaimKeeps, TakeKeeps, ForgetKeeps DEF Waits
<1> QED
  BY <1>1, <1>2, <1>3, <1>4 DEF TermNext, Starts, Moves, ThreadActs

-----------------------------------------------------------------------------
(* What follows. *)

LEMMA LifeStarts ==
  ASSUME MachinesAreOrderly, TermInit PROVE TermInv
<1>1. machine \in Machine /\ Orderly(machine)
  BY TerminationAssumption DEF MachinesAreOrderly, TermInit
<1>2. at["thread"] = "rest" /\ \A k \in Killers : at[k] = "rest"
  BY ActorsApart DEF TermInit
<1>3. \A w \in Waiters : at[w] = IF machine.asleep THEN "asleep" ELSE "rest"
  BY ActorsApart DEF TermInit
<1>4. at \in [Actors -> Steps]
  <2> SUFFICES ASSUME NEW a \in Actors
               PROVE  (IF machine.asleep /\ a \in Waiters THEN "asleep" ELSE "rest") \in Steps
    BY DEF TermInit
  <2> QED
    BY StepNames
<1>5. got \in [Waiters -> Collected] /\ \A w \in Waiters : got[w] = "nothing"
  BY DEF TermInit, Collected
<1>6. machine.parallel => machine.asleep
  BY <1>1 DEF Orderly
<1>7. place = machine.place /\ place \in {"queue", "current", "parked"}
  BY <1>1 DEF TermInit, Machine
<1>8. Cast
  <2>1. machine.parallel /\ machine.killers # {} => ~ machine.moves /\ place = "parked"
    BY <1>1, <1>7 DEF Orderly
  <2> QED
    BY <1>1, <1>2, <1>3, <1>4, <1>5, <1>6, <2>1 DEF Cast
<1>9. Placed
  BY <1>2, <1>7 DEF Placed, TermInit
<1>10. \A a \in Actors : AtRest(a)
  BY <1>2, <1>3 DEF Actors, AtRest
<1>11. Living
  BY <1>2, <1>3, <1>5, <1>6, <1>9, <1>10 DEF Living, Whole, OneRuns, TermInit
<1> QED
  BY <1>8, <1>11 DEF TermInv

LEMMA LifeGoesOn ==
  ASSUME TermInv, [TermNext]_termVars PROVE TermInv'
<1>1. CASE TermNext
  BY <1>1, LivingStep, DyingStep, DeadStep DEF TermInv
<1>2. CASE UNCHANGED termVars
  <2>1. UNCHANGED <<machine, pstate, tstate, place, target, reason, reaped, space, signaled, registered, freed,
                    got, scanned, at>>
    BY <1>2 DEF termVars, threadVars, endVars, tableVars
  <2>2. Cast'
    BY <2>1 DEF TermInv, Cast
  <2>3. ASSUME Whole PROVE Whole'
    BY <2>1, <2>3 DEF Whole
  <2>4. ASSUME Living PROVE Living'
    <3>1. Placed' /\ OneRuns'
      BY <2>1, <2>4 DEF Living, Placed, OneRuns, AtRest
    <3> QED
      BY <2>1, <2>3, <2>4, <3>1 DEF Living
  <2>5. ASSUME NEW a \in {"thread"} \cup Killers, Dying(a) PROVE Dying(a)'
    <3>1. IF a = "thread" THEN Exiting' ELSE Killing(a)'
      BY <2>1, <2>5 DEF Dying, Exiting, Killing
    <3> QED
      BY <2>1, <2>3, <2>5, <3>1 DEF Dying
  <2>6. ASSUME Dead PROVE Dead'
    <3>1. (Unreaped \/ (\E w \in Waiters : ReapedBy(w)) \/ Forgotten)'
      BY <2>1, <2>6 DEF Dead, Unreaped, ReapedBy, Forgotten, Reaping
    <3> QED
      BY <2>1, <2>6, <3>1 DEF Dead
  <2> QED
    BY <2>2, <2>4, <2>5, <2>6 DEF TermInv
<1> QED
  BY <1>1, <1>2

(* The invariant of a process's life: whoever exits, kills and waits, in     *)
(* whatever order, the process is living, being ended by one actor, or dead  *)
(* and collected by at most one waiter.                                     *)
THEOREM LifeIsOrderly ==
  ASSUME MachinesAreOrderly
  PROVE  TermSpec => []TermInv
<1>1. TermInit => TermInv
  BY LifeStarts
<1>2. TermInv /\ [TermNext]_termVars => TermInv'
  BY LifeGoesOn
<1> QED
  BY <1>1, <1>2, PTL DEF TermSpec

(* reap_process: the waiter that collects the process learns why it ended.   *)
THEOREM ReapersLearnTheReason ==
  ASSUME MachinesAreOrderly
  PROVE  TermSpec => []ReasonReported
<1>1. TermInv => ReasonReported
  BY DEF TermInv, Cast, Collected, Reasons, ReasonReported
<1> QED
  BY <1>1, LifeIsOrderly, PTL

(* clear_deferred_user_address_space finds the address space that            *)
(* release_termination_resources has put away: once the process has left the *)
(* table, its memory has been given back.                                   *)
THEOREM SpacesAreGivenBack ==
  ASSUME MachinesAreOrderly
  PROVE  TermSpec => []SpaceGivenBack
<1>1. TermInv => SpaceGivenBack
  BY DEF TermInv, Living, Dying, Whole, Dead, Unreaped, ReapedBy, Forgotten, SpaceGivenBack
<1> QED
  BY <1>1, LifeIsOrderly, PTL

(* reap_termination_reason is one-shot: a pid is handed back once.           *)
THEOREM PidsAreFreedOnce ==
  ASSUME MachinesAreOrderly
  PROVE  TermSpec => []ReapedOnce
<1>1. TermInv => freed = 0 \/ freed = 1
  BY DEF TermInv, Living, Dying, Whole, Dead, Unreaped, ReapedBy, Forgotten
<1>2. TermInv => ReapedOnce
  BY SMT, Z3T(40), <1>1 DEF ReapedOnce
<1> QED
  BY <1>2, LifeIsOrderly, PTL
=============================================================================
