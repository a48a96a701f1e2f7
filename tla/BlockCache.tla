----------------------------- MODULE BlockCache -----------------------------
(***************************************************************************)
(* The block cache of src/src/fs/block_cache.rs: a fixed pool of slots     *)
(* between a file system and its device, with deferred writes, a queued    *)
(* flush and read-ahead.  One action per lock section and per device       *)
(* request, because that is where another caller can come in between.      *)
(*                                                                         *)
(* A block's content is the number of the write that put it there, so      *)
(* "newer" is ">".  Two numbers of the code are abstracted:                *)
(*   - an entry's generation is used to choose a victim and to tell, when  *)
(*     a queued write completes, whether the entry is still the one that   *)
(*     was submitted.  The first use is a free choice here; for the        *)
(*     second, "stamp" is the flusher whose submit wrote the generation,   *)
(*     and every other change of the generation resets it;                 *)
(*   - dirty_since only decides which blocks an aged flush takes, and it   *)
(*     may take any.                                                       *)
(***************************************************************************)
EXTENDS Naturals, Sequences

CONSTANTS Callers,     \* threads that use the cache
          LastBlock,   \* the device holds blocks 0 .. LastBlock
          Capacity,    \* CACHE_CAPACITY
          QueueDepth,  \* what the device's queue holds
          EMPTY_LBA,   \* the address of an empty slot
          Nobody,      \* no flusher, no lock holder
          Usages       \* the ways file systems use a cache

Blocks == 0 .. LastBlock
Cells == 1 .. Capacity         \* the slots of the pool, by number

Ops == {"read", "back", "through", "cached", "flush"}

\* Which calls each thread makes, on which blocks and how many
\* writes of each (a bound); which calls may overlap (what
\* the file system's own lock leaves); and what the device may do.
CacheUse ==
  [does : [Callers -> SUBSET Ops], together : SUBSET Ops,
   blocks : SUBSET Blocks, writes : [Blocks -> Nat], readAhead : Nat,
   failures : Nat, timeouts : Nat]

ASSUME CacheAssumption ==
  /\ Callers # {}
  /\ LastBlock \in Nat
  /\ Capacity \in Nat \ {0}
  /\ QueueDepth \in Nat \ {0}
  /\ EMPTY_LBA \notin Blocks
  /\ Nobody \notin Callers
  /\ Usages \subseteq CacheUse

VARIABLES
  slots,    \* entries: the pool
  holder,   \* the flusher that holds the pool's lock across several submits
  disk,     \* the device's blocks
  queue,    \* queued writes the device has not finished
  broken,   \* queued writes the device finished with an error
  call,     \* what each caller is in the middle of
  lastRead, \* last_read_lba
  newest,   \* ghost: the last write of each block
  lost,     \* ghost: blocks whose last write the device failed outside of a flush
  budget,   \* device failures and timeouts still to come
  usage     \* how this cache is used

cacheVars == <<slots, holder, disk, queue, broken, call, lastRead, newest, lost, budget, usage>>

EmptySlot == [lba |-> EMPTY_LBA, data |-> 0, dirty |-> FALSE, stamp |-> Nobody]

Entry(b, v, d) == [lba |-> b, data |-> v, dirty |-> d, stamp |-> Nobody]

\* entries.iter().find(|e| e.lba == lba)
Found(s, b) == slots[s].lba = b /\ \A r \in 1 .. (s - 1) : slots[r].lba # b

Cached(b) == \E s \in Cells : slots[s].lba = b

Rest == [at |-> "idle", op |-> "none", lba |-> 0, data |-> 0, last |-> 0,
         image |-> [b \in Blocks |-> 0], victim |-> EmptySlot, want |-> {}, tried |-> {},
         pending |-> <<>>, failed |-> FALSE, floor |-> [b \in Blocks |-> 0]]

Idle(t) == call[t].at = "idle"

Begins(t, op) ==
  /\ Idle(t)
  /\ op \in usage.does[t]
  /\ \A u \in Callers : Idle(u) \/ {op, call[u].op} \subseteq usage.together

Free(t) == holder \in {Nobody, t}

Goes(t, c) == call' = [call EXCEPT ![t] = c]

Called(t, op, b, v, next) ==
  Goes(t, [Rest EXCEPT !.at = next, !.op = op, !.lba = b, !.data = v, !.last = b, !.floor = newest])

Moves(t, next) == Goes(t, [call[t] EXCEPT !.at = next])

Returns(t) == Goes(t, Rest)

DeviceFails == /\ budget.failures > 0
               /\ budget' = [budget EXCEPT !.failures = @ - 1]

DeviceIsLate == /\ budget.timeouts > 0
                /\ budget' = [budget EXCEPT !.timeouts = @ - 1]

\* write_blocks reports an error.  The device may have done the write all the
\* same, or, where the driver's patience ended first, still have it in its queue.
WriteFails(w) ==
  /\ \/ /\ DeviceFails
        /\ disk' \in {disk, [disk EXCEPT ![w.lba] = w.data]}
        /\ UNCHANGED queue
     \/ /\ DeviceIsLate
        /\ queue' = queue \cup {w}
        /\ UNCHANGED disk
  /\ lost' = lost \cup {w.lba}

-----------------------------------------------------------------------------
(* Reads.                                                                  *)

\* The n blocks after b that a miss reads along when it follows the read before
\* it: as far as the depth, or the first block that is cached.  The end of the
\* device does not stop it.
Lookahead(b, n) ==
  IF lastRead # EMPTY_LBA /\ b = lastRead + 1
  THEN /\ \A i \in 1 .. n : ~ Cached(b + i)
       /\ n = usage.readAhead \/ Cached(b + n + 1)
  ELSE n = 0

\* last_read_lba, which is of consequence only to a volume with read-ahead.
ReadAt(b) == lastRead' = IF usage.readAhead > 0 THEN b ELSE lastRead

ReadHit(t, b) ==
  /\ Begins(t, "read") /\ b \in usage.blocks /\ Free(t)
  /\ \E s \in Cells : Found(s, b) /\ Called(t, "read", b, slots[s].data, "bump")
  /\ ReadAt(b)
  /\ UNCHANGED <<slots, holder, disk, queue, broken, newest, lost, budget, usage>>

ReadMiss(t, b) ==
  /\ Begins(t, "read") /\ b \in usage.blocks /\ Free(t)
  /\ ~ Cached(b)
  /\ \E n \in 0 .. usage.readAhead :
       /\ Lookahead(b, n)
       /\ Goes(t, [Rest EXCEPT !.at = "fetch", !.op = "read", !.lba = b, !.last = b + n,
                               !.floor = newest])
  /\ ReadAt(b)
  /\ UNCHANGED <<slots, holder, disk, queue, broken, newest, lost, budget, usage>>

\* One device request covers the block and its lookahead.
Fetch(t) ==
  /\ call[t].at = "fetch"
  /\ call[t].last \in Blocks
  /\ Goes(t, [call[t] EXCEPT !.at = "insert", !.data = disk[call[t].lba],
                             !.image = [b \in Blocks |-> IF b \in call[t].lba .. call[t].last
                                                         THEN disk[b] ELSE 0]])
  /\ UNCHANGED <<slots, holder, disk, queue, broken, lastRead, newest, lost, budget, usage>>

\* A device refuses a run that reaches past its end.
FetchPastEnd(t) ==
  /\ call[t].at = "fetch"
  /\ call[t].last \notin Blocks
  /\ Returns(t)
  /\ UNCHANGED <<slots, holder, disk, queue, broken, lastRead, newest, lost, budget, usage>>

FetchFails(t) ==
  /\ call[t].at = "fetch"
  /\ DeviceFails
  /\ Returns(t)
  /\ UNCHANGED <<slots, holder, disk, queue, broken, lastRead, newest, lost, usage>>

\* bump_generation_and_update, the last lock section of a hit and of a write
\* that found its block in the pool.
Bump(t) ==
  /\ call[t].at = "bump" /\ Free(t)
  /\ \/ \E s \in Cells : Found(s, call[t].lba)
                         /\ slots' = [slots EXCEPT ![s].stamp = Nobody]
     \/ ~ Cached(call[t].lba) /\ UNCHANGED slots
  /\ Returns(t)
  /\ UNCHANGED <<holder, disk, queue, broken, lastRead, newest, lost, budget, usage>>

-----------------------------------------------------------------------------
(* insert.                                                                 *)

\* The next block of a run, or the end of the call.
Inserted(t) ==
  IF call[t].lba < call[t].last
  THEN Goes(t, [call[t] EXCEPT !.at = "insert", !.lba = @ + 1,
                               !.data = call[t].image[call[t].lba + 1]])
  ELSE Returns(t)

InsertedEntry(t) == Entry(call[t].lba, call[t].data, call[t].op = "back")

InPlace(t, s) == Found(s, call[t].lba)

IntoEmpty(t, s) == ~ Cached(call[t].lba) /\ Found(s, EMPTY_LBA)

\* Variant: a dirty entry may be overwritten.
OverAny(t, s) ==
  ~ Cached(call[t].lba) /\ ~ Cached(EMPTY_LBA)

OverClean(t, s) ==
  ~ Cached(call[t].lba) /\ ~ Cached(EMPTY_LBA) /\ ~ slots[s].dirty

Insert(t) ==
  /\ call[t].at = "insert" /\ Free(t)
  /\ \E s \in Cells : /\ InPlace(t, s) \/ IntoEmpty(t, s) \/ OverClean(t, s)
                      /\ slots' = [slots EXCEPT ![s] = InsertedEntry(t)]
  /\ Inserted(t)
  /\ UNCHANGED <<holder, disk, queue, broken, lastRead, newest, lost, budget, usage>>

\* Every slot is dirty: the victim's slot is emptied and the lock released
\* while its content is written to the device.
Evict(t) ==
  /\ call[t].at = "insert" /\ Free(t)
  /\ ~ Cached(call[t].lba) /\ ~ Cached(EMPTY_LBA)
  /\ \A s \in Cells : slots[s].dirty
  /\ \E s \in Cells :
       /\ slots' = [slots EXCEPT ![s] = EmptySlot]
       /\ Goes(t, [call[t] EXCEPT !.at = "evict", !.victim = slots[s]])
  /\ UNCHANGED <<holder, disk, queue, broken, lastRead, newest, lost, budget, usage>>

EvictWrites(t) ==
  /\ call[t].at = "evict"
  /\ disk' = [disk EXCEPT ![call[t].victim.lba] = call[t].victim.data]
  /\ Goes(t, [call[t] EXCEPT !.at = "place", !.victim = EmptySlot])
  /\ UNCHANGED <<slots, holder, queue, broken, lastRead, newest, lost, budget, usage>>

\* The result of the eviction's write is dropped.
EvictFails(t) ==
  /\ call[t].at = "evict"
  /\ WriteFails([by |-> t, lba |-> call[t].victim.lba, data |-> call[t].victim.data])
  /\ Goes(t, [call[t] EXCEPT !.at = "place", !.victim = EmptySlot])
  /\ UNCHANGED <<slots, holder, broken, lastRead, newest, usage>>

Place(t) ==
  /\ call[t].at = "place" /\ Free(t)
  /\ \E s \in Cells : /\ Found(s, EMPTY_LBA)
                      /\ slots' = [slots EXCEPT ![s] = InsertedEntry(t)]
  /\ Inserted(t)
  /\ UNCHANGED <<holder, disk, queue, broken, lastRead, newest, lost, budget, usage>>

\* expect("a slot must have been freed by eviction")
PlacePanics(t) ==
  /\ call[t].at = "place" /\ Free(t)
  /\ ~ Cached(EMPTY_LBA)
  /\ Moves(t, "panic")
  /\ UNCHANGED <<slots, holder, disk, queue, broken, lastRead, newest, lost, budget, usage>>

-----------------------------------------------------------------------------
(* Writes.                                                                 *)

Newer(b) == newest[b] + 1

\* Whatever became of the writes before, the block has a content of its own again.
Renewed(b) ==
  /\ newest' = [newest EXCEPT ![b] = Newer(b)]
  /\ lost' = lost \ {b}

CanWrite(t, op, b) ==
  Begins(t, op) /\ b \in usage.blocks /\ newest[b] < usage.writes[b]

\* The entry is changed under the lock; its generation only after the lock has
\* been released and taken again.
WriteBackHit(t, b) ==
  /\ CanWrite(t, "back", b) /\ Free(t)
  /\ \E s \in Cells : /\ Found(s, b)
                      /\ slots' = [slots EXCEPT ![s].data = Newer(b), ![s].dirty = TRUE]
  /\ Renewed(b)
  /\ Called(t, "back", b, Newer(b), "bump")
  /\ UNCHANGED <<holder, disk, queue, broken, lastRead, budget, usage>>

WriteBackMiss(t, b) ==
  /\ CanWrite(t, "back", b) /\ Free(t)
  /\ ~ Cached(b)
  /\ Renewed(b)
  /\ Called(t, "back", b, Newer(b), "insert")
  /\ UNCHANGED <<slots, holder, disk, queue, broken, lastRead, budget, usage>>

\* write_through and SimpleFs's write_blocks_cached: the device first.  An error
\* of the device ends the call, and the entry stays as it was.
StoreWrites(t, op, b) ==
  /\ CanWrite(t, op, b)
  /\ disk' = [disk EXCEPT ![b] = Newer(b)]
  /\ Renewed(b)
  /\ Called(t, op, b, Newer(b), IF op = "through" THEN "update" ELSE "insert")
  /\ UNCHANGED <<slots, holder, queue, broken, lastRead, budget, usage>>

StoreFails(t, op, b) ==
  /\ CanWrite(t, op, b)
  /\ WriteFails([by |-> t, lba |-> b, data |-> Newer(b)])
  /\ newest' = [newest EXCEPT ![b] = Newer(b)]
  /\ UNCHANGED <<slots, holder, broken, call, lastRead, usage>>

Update(t) ==
  /\ call[t].at = "update" /\ Free(t)
  /\ \/ /\ \E s \in Cells :
             /\ Found(s, call[t].lba)
             /\ slots' = [slots EXCEPT ![s].data = call[t].data, ![s].dirty = FALSE]
        /\ Moves(t, "bump")
     \/ /\ ~ Cached(call[t].lba)
        /\ Returns(t) /\ UNCHANGED slots
  /\ UNCHANGED <<holder, disk, queue, broken, lastRead, newest, lost, budget, usage>>

-----------------------------------------------------------------------------
(* flush, flush_aged and flush_range: flush_selected.                      *)

FlushBegins(t, chosen) ==
  /\ Begins(t, "flush")
  /\ Goes(t, [Rest EXCEPT !.at = "submit", !.op = "flush", !.want = chosen, !.floor = newest])
  /\ UNCHANGED <<slots, holder, disk, queue, broken, lastRead, newest, lost, budget, usage>>

Selectable(t, s) ==
  slots[s].dirty /\ slots[s].lba \in call[t].want \ call[t].tried

\* The first slot that submit_selected would take.
Selected(t, s) ==
  Selectable(t, s) /\ \A r \in 1 .. (s - 1) : ~ Selectable(t, r)

QueuedWrite(t, s) == [by |-> t, lba |-> slots[s].lba, data |-> slots[s].data]

Submitting(t) ==
  /\ call[t].at = "submit" /\ Free(t)
  /\ ~ call[t].failed /\ Len(call[t].pending) < QueueDepth

\* One turn of submit_selected's loop; the lock is kept for the next.
Submit(t) ==
  /\ Submitting(t)
  /\ \E s \in Cells :
       /\ Selected(t, s)
       /\ slots' = [slots EXCEPT ![s].stamp = t]
       /\ queue' = queue \cup {QueuedWrite(t, s)}
       /\ Goes(t, [call[t] EXCEPT !.tried = @ \cup {slots[s].lba},
                                  !.pending = Append(@, QueuedWrite(t, s))])
  /\ holder' = t
  /\ UNCHANGED <<disk, broken, lastRead, newest, lost, budget, usage>>

\* The device refuses the request: the generation is written all the same.
SubmitFails(t) ==
  /\ Submitting(t)
  /\ DeviceFails
  /\ \E s \in Cells : Selected(t, s) /\ slots' = [slots EXCEPT ![s].stamp = t]
  /\ Goes(t, [call[t] EXCEPT !.at = "wait", !.failed = TRUE])
  /\ holder' = Nobody
  /\ UNCHANGED <<disk, queue, broken, lastRead, newest, lost, usage>>

\* The queue is full, nothing is left to take, or something failed before.
SubmitEnds(t) ==
  /\ call[t].at = "submit" /\ Free(t)
  /\ \/ call[t].failed
     \/ Len(call[t].pending) >= QueueDepth
     \/ \A s \in Cells : ~ Selectable(t, s)
  /\ Moves(t, "wait")
  /\ holder' = Nobody
  /\ UNCHANGED <<slots, disk, queue, broken, lastRead, newest, lost, budget, usage>>

Oldest(t) == Head(call[t].pending)

Waiting(t) == call[t].at = "wait" /\ call[t].pending # <<>>

WaitedFor(t, failed) ==
  Goes(t, [call[t] EXCEPT !.at = "submit", !.pending = Tail(@), !.failed = @ \/ failed])

\* retire_write finds the entry its write was submitted from.
Retires(t, s) ==
  /\ slots[s].lba = Oldest(t).lba /\ slots[s].stamp = t
  /\ \A r \in 1 .. (s - 1) : ~ (slots[r].lba = Oldest(t).lba /\ slots[r].stamp = t)

\* The write completed: wait_for_write, then retire_write.
WaitDone(t) ==
  /\ Waiting(t) /\ Free(t)
  /\ Oldest(t) \notin queue \cup broken
  /\ \/ \E s \in Cells : Retires(t, s) /\ slots' = [slots EXCEPT ![s].dirty = FALSE]
     \/ (\A s \in Cells : ~ Retires(t, s)) /\ UNCHANGED slots
  /\ WaitedFor(t, FALSE)
  /\ UNCHANGED <<holder, disk, queue, broken, lastRead, newest, lost, budget, usage>>

\* Variant: the entry of a failed write is marked clean.
WaitFailedClean(t) ==
  /\ Waiting(t) /\ Free(t)
  /\ Oldest(t) \in broken
  /\ broken' = broken \ {Oldest(t)}
  /\ \/ \E s \in Cells : Retires(t, s) /\ slots' = [slots EXCEPT ![s].dirty = FALSE]
     \/ (\A s \in Cells : ~ Retires(t, s)) /\ UNCHANGED slots
  /\ WaitedFor(t, TRUE)
  /\ UNCHANGED <<holder, disk, queue, lastRead, newest, lost, budget, usage>>

\* Variant: the flush does not report it.
WaitFailedQuietly(t) ==
  /\ Waiting(t)
  /\ Oldest(t) \in broken
  /\ broken' = broken \ {Oldest(t)}
  /\ WaitedFor(t, FALSE)
  /\ UNCHANGED <<slots, holder, disk, queue, lastRead, newest, lost, budget, usage>>

WaitFailed(t) ==
  /\ Waiting(t)
  /\ Oldest(t) \in broken
  /\ broken' = broken \ {Oldest(t)}
  /\ WaitedFor(t, TRUE)
  /\ UNCHANGED <<slots, holder, disk, queue, lastRead, newest, lost, budget, usage>>

\* FLUSH_POLL_LIMIT: the flush gives up on a write the device still has.
WaitTimesOut(t) ==
  /\ Waiting(t)
  /\ Oldest(t) \in queue
  /\ DeviceIsLate
  /\ WaitedFor(t, TRUE)
  /\ UNCHANGED <<slots, holder, disk, queue, broken, lastRead, newest, lost, usage>>

\* Variant: the flush starts over until it finds its blocks clean.
FlushUntilClean(t) ==
  /\ call[t].at = "wait" /\ call[t].pending = <<>>
  /\ IF ~ call[t].failed /\ \E s \in Cells : slots[s].dirty /\ slots[s].lba \in call[t].want
     THEN Goes(t, [call[t] EXCEPT !.at = "submit", !.tried = {}])
     ELSE Returns(t)
  /\ UNCHANGED <<slots, holder, disk, queue, broken, lastRead, newest, lost, budget, usage>>

FlushEnds(t) ==
  /\ call[t].at = "wait" /\ call[t].pending = <<>>
  /\ Returns(t)
  /\ UNCHANGED <<slots, holder, disk, queue, broken, lastRead, newest, lost, budget, usage>>

-----------------------------------------------------------------------------
(* The device's queue: a write lands in any order, or fails.               *)

Lands(w) ==
  /\ disk' = [disk EXCEPT ![w.lba] = w.data]
  /\ queue' = queue \ {w}
  /\ UNCHANGED <<slots, holder, broken, call, lastRead, newest, lost, budget, usage>>

\* A failed write may have changed the block all the same.
Breaks(w) ==
  /\ DeviceFails
  /\ disk' \in {disk, [disk EXCEPT ![w.lba] = w.data]}
  /\ queue' = queue \ {w}
  /\ broken' = broken \cup {w}
  /\ UNCHANGED <<slots, holder, call, lastRead, newest, lost, usage>>

DeviceStep == \E w \in queue : Lands(w) \/ Breaks(w)

-----------------------------------------------------------------------------
CacheInit ==
  /\ usage \in Usages
  /\ slots = [s \in Cells |-> EmptySlot]
  /\ holder = Nobody
  /\ disk = [b \in Blocks |-> 0]
  /\ queue = {} /\ broken = {}
  /\ call = [t \in Callers |-> Rest]
  /\ lastRead = EMPTY_LBA
  /\ newest = [b \in Blocks |-> 0] /\ lost = {}
  /\ budget = [failures |-> usage.failures, timeouts |-> usage.timeouts]

BeginStep(t) ==
  \/ \E b \in Blocks : ReadHit(t, b) \/ ReadMiss(t, b)
  \/ \E b \in Blocks : WriteBackHit(t, b) \/ WriteBackMiss(t, b)
  \/ \E b \in Blocks, op \in {"through", "cached"} : StoreWrites(t, op, b) \/ StoreFails(t, op, b)
  \/ \E chosen \in SUBSET usage.blocks : FlushBegins(t, chosen)

CallStep(t) ==
  \/ Fetch(t) \/ FetchPastEnd(t) \/ FetchFails(t) \/ Bump(t)
  \/ Insert(t) \/ Evict(t) \/ EvictWrites(t) \/ EvictFails(t) \/ Place(t)
  \/ Update(t)
  \/ Submit(t) \/ SubmitFails(t) \/ SubmitEnds(t)
  \/ WaitDone(t) \/ WaitFailed(t) \/ WaitTimesOut(t) \/ FlushEnds(t)

CacheNext == (\E t \in Callers : BeginStep(t) \/ CallStep(t)) \/ DeviceStep

CacheSpec == CacheInit /\ [][CacheNext]_cacheVars

\* A call that has begun keeps running, and the device finishes what it holds.
FairCacheSpec ==
  /\ CacheSpec
  /\ \A t \in Callers : WF_cacheVars(CallStep(t))
  /\ WF_cacheVars(DeviceStep)

\* What the code takes for granted: that no second caller comes into the window of
\* an eviction.
RoughCacheSpec ==
  /\ CacheInit
  /\ [][CacheNext \/ \E t \in Callers : PlacePanics(t)]_cacheVars

-----------------------------------------------------------------------------
(* Properties.  One write of a block may fail without a trace in the pool:  *)
(* an eviction's, whose result is dropped, or a store's, whose caller gets   *)
(* the error and whose entry stays as it was.  The first three say that no   *)
(* other block pays for it, and the block itself only until it is written    *)
(* again.                                                                   *)

Storing(b) ==
  \E t \in Callers : call[t].op \in {"through", "cached"} /\ call[t].lba = b

\* An entry that is not dirty holds what the device holds, unless the device
\* failed the block's last write, or a caller has just written the device and is
\* about to bring the entry up to date: what insert's comment calls clean
\* ("matches the device").
CleanMatchesDevice ==
  \A s \in Cells :
    slots[s].lba \in Blocks \ lost /\ ~ slots[s].dirty /\ ~ Storing(slots[s].lba)
      => slots[s].data = disk[slots[s].lba]

\* The content a read has found, in the pool or on the device, is no older than
\* the last write that was complete when the read began.
FoundIsLatest(t) == call[t]'.data >= call[t]'.floor[call[t]'.lba]

ReadFinds(t) ==
  /\ call[t].at \in {"idle", "fetch"}
  /\ call[t]'.op = "read" /\ call[t]'.at \in {"bump", "insert"}

\* read_cached never returns a content older than the last write that was
\* complete when the read began, wherever the block is by then: in a slot, on
\* its way out of one, or on the device.  A failed eviction or store costs its
\* own block's content and no other's.
ReadsLatest ==
  [][\A t \in Callers :
       ReadFinds(t) /\ call[t]'.lba \notin lost => FoundIsLatest(t)]_cacheVars

\* The same of every block: what flush_if_under_pressure takes for granted when
\* it ignores errors ("dirty data remains safe in the cache and will be retried
\* on eviction or explicit flush()").
EveryReadLatest ==
  [][\A t \in Callers : ReadFinds(t) => FoundIsLatest(t)]_cacheVars

\* When a flush returns without an error, every block it was asked for is on
\* the device at least as new as when the flush began, but for those that an
\* eviction or a store has lost.
FlushedIsOnDisk ==
  [][\A t \in Callers :
       /\ call[t].op = "flush" /\ call[t]'.op = "none" /\ ~ call[t].failed
       => \A b \in call[t].want \ lost : disk'[b] >= call[t].floor[b]]_cacheVars

\* A flush returns, however often its blocks are touched while it runs: each
\* block is written at most once per flush.
FlushReturns ==
  \A t \in Callers : call[t].op = "flush" ~> Idle(t)

\* read_cached fails only where the device failed a request that it could have
\* served: what its comment promises of a miss ("on miss the block is read from
\* the underlying device and stored in the cache before returning").
ReadServed ==
  [][\A t \in Callers :
       call[t].at = "fetch" /\ call[t]'.at = "idle" => budget' # budget]_cacheVars

\* The eviction's second lock section finds the slot that it emptied.
EvictionFindsItsSlot == \A t \in Callers : call[t].at # "panic"
=============================================================================
