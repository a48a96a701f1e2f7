---------------------------- MODULE SharedMemory ----------------------------
(***************************************************************************)
(* System V shared memory, src/src/kernel/shm.rs: the registry of segments *)
(* behind one lock, each process's own list of attachments, and the calls  *)
(* that go from one to the other.  shmget, shmat and shmctl hold the       *)
(* registry's lock from end to end and are one step.  shmdt and the        *)
(* detaching of a process that ends are not: they consult the process's    *)
(* list before the lock and change it after.                               *)
(*                                                                         *)
(* A segment's frames are its place in the registry: they are freed by the *)
(* step that removes it.  Addresses are counted in frames from SHM_BASE.   *)
(* A process has one thread and its calls; it ends in the context of that  *)
(* thread, or, when the thread is not running, in that of whoever kills    *)
(* it.                                                                     *)
(***************************************************************************)
EXTENDS Naturals, FiniteSets

CONSTANTS Processes,
          Keys,
          Ids,         \* the values of next_id
          Sizes,       \* sizes of segments, in frames
          MaxSegments, \* SHM_SEG_COUNT_MAX
          AddressEnd,  \* SHM_LIMIT
          CountSpace,  \* the values of attach_count
          Allowed,     \* "again": attach what is attached; "exec"; "kill",
                       \* and "preempt": kill a process that is in a call
          NoId

ASSUME ShmAssumption ==
  /\ IsFiniteSet(Processes)
  /\ Ids \subseteq Nat /\ NoId \notin Ids
  /\ Sizes \subseteq Nat /\ AddressEnd \in Nat /\ MaxSegments \in Nat
  /\ CountSpace \in Nat /\ CountSpace > Cardinality(Processes)
  /\ Allowed \subseteq {"again", "exec", "kill", "preempt"}

VARIABLES
  byId,      \* the ids of the registry's segments
  byKey,     \* the segment of a key
  nextId,
  keyOf, size, attachCount, deleted,   \* the fields of a segment
  attachments,  \* shm_attachments of each process
  mapped,       \* the segments' pages in each process's hardware page tables
  vaHint,       \* shm_va_hint of each process
  gone,         \* processes that have ended
  call          \* what each process is in the middle of

segmentVars == <<keyOf, size>>
processVars == <<mapped, vaHint, gone>>
shmVars == <<byId, byKey, nextId, segmentVars, attachCount, deleted, attachments, processVars, call>>

Rest == [at |-> "user", id |-> NoId, found |-> {}, owner |-> NoId]

InUser(p) == call[p].at = "user" /\ p \notin gone

StepsTo(p, at, id, found) ==
  call' = [call EXCEPT ![p].at = at, ![p].id = id, ![p].found = found]

Returns(p) == call' = [call EXCEPT ![p] = Rest]

Of(list, id) == {a \in list : a.id = id}

\* find_shm_attachment: addresses grow with the list.
First(list, id) == {a \in Of(list, id) : \A b \in Of(list, id) : a.va <= b.va}

Addresses(a) == a.va .. (a.va + size[a.id] - 1)

\* attach_to_process on the running process's page tables.
Pages(a) == {[id |-> a.id, va |-> v] : v \in Addresses(a)}

\* detach_one for every page of some attachments, on the page tables of p.
Unmapped(p, as) == {m \in mapped[p] : \A a \in as : m.va \notin Addresses(a)}

\* fetch_add and fetch_sub wrap around.
CountedUp(id) == IF attachCount[id] + 1 = CountSpace THEN 0 ELSE attachCount[id] + 1
CountedDown(id, n) ==
  IF attachCount[id] >= n THEN attachCount[id] - n ELSE attachCount[id] + CountSpace - n

\* Take segments out of both indexes and free their frames.
Removes(dead) ==
  /\ byId' = byId \ dead
  /\ byKey' = [k \in Keys |-> IF \E id \in dead : keyOf[id] = k THEN NoId ELSE byKey[k]]

\* Variant: whoever is attached.
ReapableAttached(id, count) == id \in byId /\ deleted[id]

\* reap_unattached
Reapable(id, count) == id \in byId /\ deleted[id] /\ count = 0

-----------------------------------------------------------------------------
Shmget(p, k, n) ==
  /\ InUser(p)
  /\ byKey[k] = NoId
  /\ Cardinality(byId) < MaxSegments
  /\ nextId \in Ids
  /\ byId' = byId \cup {nextId}
  /\ byKey' = [byKey EXCEPT ![k] = nextId]
  /\ keyOf' = [keyOf EXCEPT ![nextId] = k]
  /\ size' = [size EXCEPT ![nextId] = n]
  /\ nextId' = nextId + 1
  /\ UNCHANGED <<attachCount, deleted, attachments, processVars, call>>

\* The frames run out after the id has been taken.
ShmgetFails(p, k) ==
  /\ InUser(p)
  /\ byKey[k] = NoId
  /\ Cardinality(byId) < MaxSegments
  /\ nextId \in Ids
  /\ nextId' = nextId + 1
  /\ UNCHANGED <<byId, byKey, segmentVars, attachCount, deleted, attachments, processVars, call>>

Attachable(p, id) ==
  /\ InUser(p)
  /\ id \in byId
  /\ ~ deleted[id]
  /\ vaHint[p] + size[id] <= AddressEnd
  /\ "again" \in Allowed \/ Of(attachments[p], id) = {}

MovesHint(p, id) ==
  vaHint' = [vaHint EXCEPT ![p] = @ + size[id]]

Shmat(p, id) ==
  LET a == [id |-> id, va |-> vaHint[p]]
  IN /\ Attachable(p, id)
     /\ MovesHint(p, id)
     /\ mapped' = [mapped EXCEPT ![p] = @ \cup Pages(a)]
     /\ attachCount' = [attachCount EXCEPT ![id] = CountedUp(id)]
     /\ attachments' = [attachments EXCEPT ![p] = @ \cup {a}]
     /\ UNCHANGED <<byId, byKey, nextId, segmentVars, deleted, gone, call>>

\* A page cannot be installed or registered: the pages before it are taken out
\* of the hardware tables again, the address stays used.  What the software
\* tables keep of them when the hardware refused is not modelled.
ShmatFails(p, id) ==
  /\ Attachable(p, id)
  /\ MovesHint(p, id)
  /\ UNCHANGED <<byId, byKey, nextId, segmentVars, attachCount, deleted, attachments, mapped, gone, call>>

-----------------------------------------------------------------------------
(* shmdt.                                                                  *)

ShmdtFinds(p, id) ==
  /\ InUser(p)
  /\ Of(attachments[p], id) # {}
  /\ StepsTo(p, "detach", id, First(attachments[p], id))
  /\ UNCHANGED <<byId, byKey, nextId, segmentVars, attachCount, deleted, attachments, processVars>>

\* NotFound if the segment has left the registry since.
ShmdtDetaches(p) ==
  LET id == call[p].id
  IN /\ call[p].at = "detach"
     /\ IF id \in byId
        THEN /\ mapped' = [mapped EXCEPT ![p] = Unmapped(p, call[p].found)]
             /\ attachCount' = [attachCount EXCEPT ![id] = CountedDown(id, 1)]
             /\ StepsTo(p, "forget", id, {})
        ELSE Returns(p) /\ UNCHANGED <<mapped, attachCount>>
     /\ UNCHANGED <<byId, byKey, nextId, segmentVars, deleted, attachments, vaHint, gone>>

\* remove_shm_attachment drops every attachment of the id.
ShmdtForgets(p) ==
  LET id == call[p].id
  IN /\ call[p].at = "forget"
     /\ attachments' = [attachments EXCEPT ![p] = @ \ Of(@, id)]
     /\ StepsTo(p, "reap", id, {})
     /\ UNCHANGED <<byId, byKey, nextId, segmentVars, attachCount, deleted, processVars>>

ShmdtReaps(p) ==
  /\ call[p].at = "reap"
  /\ Removes({id \in {call[p].id} : Reapable(id, attachCount[id])})
  /\ Returns(p)
  /\ UNCHANGED <<nextId, segmentVars, attachCount, deleted, attachments, processVars>>

-----------------------------------------------------------------------------
\* shmctl(IPC_RMID)
Rmid(p, id) ==
  /\ InUser(p)
  /\ id \in byId
  /\ deleted' = [deleted EXCEPT ![id] = TRUE]
  /\ Removes({i \in {id} : attachCount[i] = 0})
  /\ UNCHANGED <<nextId, segmentVars, attachCount, attachments, processVars, call>>

-----------------------------------------------------------------------------
\* replace_exec_state: another address space, the same attachments.
Exec(p) ==
  /\ "exec" \in Allowed /\ InUser(p)
  /\ mapped' = [mapped EXCEPT ![p] = {}]
  /\ UNCHANGED <<byId, byKey, nextId, segmentVars, attachCount, deleted, attachments, vaHint, gone, call>>

-----------------------------------------------------------------------------
(* complete_termination and detach_all_for_process.                        *)

\* By the process itself, or by a killer that found its thread not running: in
\* user mode or, where the kernel is preempted, in the middle of a call.
ExitCollects(p, q) ==
  /\ InUser(p)
  /\ q = p \/ ("kill" \in Allowed /\ q \notin gone)
  /\ call[q].at = "user" \/ "preempt" \in Allowed
  /\ call' = [call EXCEPT ![q] = Rest,
                          ![p] = [at |-> "exit", id |-> NoId, found |-> attachments[q], owner |-> q]]
  /\ gone' = gone \cup {q}
  /\ UNCHANGED <<byId, byKey, nextId, segmentVars, attachCount, deleted, attachments, mapped, vaHint>>

Detached(p, id) == Cardinality(Of(call[p].found, id))

CountAfterExit(p, id) ==
  IF id \in byId THEN CountedDown(id, Detached(p, id)) ELSE attachCount[id]

\* Variant: the segments that were removed before are left.
ExitDetachesOnly(p) ==
  /\ call[p].at = "exit"
  /\ mapped' = [mapped EXCEPT ![p] = Unmapped(p, {a \in call[p].found : a.id \in byId})]
  /\ attachCount' = [id \in Ids |-> CountAfterExit(p, id)]
  /\ StepsTo(p, "clear", NoId, {})
  /\ UNCHANGED <<byId, byKey, nextId, segmentVars, deleted, attachments, vaHint, gone>>

\* Every attachment's segment is detached, from the page tables the CPU is
\* running on; then every one of them is reaped.
ExitDetaches(p) ==
  /\ call[p].at = "exit"
  /\ mapped' = [mapped EXCEPT ![p] = Unmapped(p, {a \in call[p].found : a.id \in byId})]
  /\ attachCount' = [id \in Ids |-> CountAfterExit(p, id)]
  /\ Removes({id \in {a.id : a \in call[p].found} : Reapable(id, CountAfterExit(p, id))})
  /\ StepsTo(p, "clear", NoId, {})
  /\ UNCHANGED <<nextId, segmentVars, deleted, attachments, vaHint, gone>>

\* clear_shm_attachments; the address space is taken away after it.
ExitClears(p) ==
  LET q == call[p].owner
  IN /\ call[p].at = "clear"
     /\ attachments' = [attachments EXCEPT ![q] = {}]
     /\ mapped' = [mapped EXCEPT ![q] = {}]
     /\ Returns(p)
     /\ UNCHANGED <<byId, byKey, nextId, segmentVars, attachCount, deleted, vaHint, gone>>

-----------------------------------------------------------------------------
ShmInit ==
  /\ byId = {}
  /\ byKey = [k \in Keys |-> NoId]
  /\ nextId = 0
  /\ keyOf = [id \in Ids |-> NoId]
  /\ size = [id \in Ids |-> 0]
  /\ attachCount = [id \in Ids |-> 0]
  /\ deleted = [id \in Ids |-> FALSE]
  /\ attachments = [p \in Processes |-> {}]
  /\ mapped = [p \in Processes |-> {}]
  /\ vaHint = [p \in Processes |-> 0]
  /\ gone = {}
  /\ call = [p \in Processes |-> Rest]

ShmStep(p) ==
  \/ \E k \in Keys : ShmgetFails(p, k) \/ \E n \in Sizes : Shmget(p, k, n)
  \/ \E id \in Ids : Shmat(p, id) \/ ShmatFails(p, id) \/ ShmdtFinds(p, id) \/ Rmid(p, id)
  \/ ShmdtDetaches(p) \/ ShmdtForgets(p) \/ ShmdtReaps(p)
  \/ Exec(p) \/ (\E q \in Processes : ExitCollects(p, q)) \/ ExitDetaches(p) \/ ExitClears(p)

ShmNext == \E p \in Processes : ShmStep(p)

ShmSpec == ShmInit /\ [][ShmNext]_shmVars

-----------------------------------------------------------------------------
(* Properties.                                                             *)

\* A process maps only segments that are still in the registry: the frames of a
\* mapping are not freed under it (reap_unattached: "an id is never reusable
\* while a mapping of it is live").
MappingIsBacked ==
  \A p \in Processes \ gone : \A m \in mapped[p] : m.id \in byId

\* A segment that was removed stays in the registry only while a process has it
\* attached or a detach has yet to reap it (reap_unattached: "and never left
\* behind after the mapping is gone").
RemovedIsForgotten ==
  \A id \in byId :
    deleted[id] => \/ \E p \in Processes : Of(attachments[p], id) # {}
                   \/ \E p \in Processes : call[p].at = "reap" /\ call[p].id = id

\* The two indexes of the registry name the same segments, so shmget finds the
\* id of every key it knows, and a key can be used again once its segment is
\* gone.
IndexesAgree ==
  /\ \A k \in Keys : byKey[k] # NoId => byKey[k] \in byId /\ keyOf[byKey[k]] = k
  /\ \A id \in byId : byKey[keyOf[id]] = id

\* What a process has attached is in its page tables, except while it detaches
\* it (detach_one: "under the address space that attached it").
AttachedIsMapped ==
  \A p \in Processes \ gone : \A a \in attachments[p] :
    \/ Pages(a) \subseteq mapped[p]
    \/ call[p].at = "forget" /\ call[p].id = a.id
=============================================================================
