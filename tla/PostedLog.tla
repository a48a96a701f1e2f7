------------------------------ MODULE PostedLog ------------------------------
(***************************************************************************)
(* TLB invalidation across CPUs (src/kernel/smp/tlb.rs): a ring of ranges, *)
(* a cursor per CPU and a full-flush generation.  A CPU that edits a page   *)
(* table drops its own translations and posts the range; every CPU walks    *)
(* the log on its next kernel entry and publishes how far it got.           *)
(*                                                                         *)
(* A page's version counts its edits; cached[c][p] is the version CPU c     *)
(* holds a translation of.  CPU ids are logical ids, 0 being the boot CPU.  *)
(* Loads and stores are sequentially consistent: the code publishes with    *)
(* release stores and reads with acquire loads.                            *)
(***************************************************************************)
EXTENDS Integers, FiniteSets

CONSTANTS LogCpus,          \* LOG_CPUS: ids the log keeps cursors for
          Slots,            \* POSTED_SLOTS
          FullFlushPages,   \* FULL_FLUSH_PAGES
          PageCount,        \* pages whose translations are followed
          Up,               \* the CPUs that answer their start request
          Early,            \* those already registered when the run begins
          Editors,          \* those whose threads edit page tables
          Users,            \* those that use the pages: their TLBs are followed
          MaxEdits          \* bound: page-table edits

CPUs == 0 .. LogCpus - 1
Pages == 0 .. PageCount - 1

ASSUME PostedLogAssumption ==
    /\ LogCpus \in Nat \ {0} /\ Slots \in Nat \ {0}
    /\ FullFlushPages \in Nat /\ PageCount \in Nat /\ MaxEdits \in Nat
    /\ Up \subseteq CPUs /\ Early \subseteq Up /\ 0 \in Early
    /\ Editors \subseteq Up /\ Users \subseteq Up

VARIABLES slots,        \* the ring: a range [start, end) per slot
          head,         \* next position to hand out
          cursors,      \* per CPU: position walked to
          flushed,      \* per CPU: generation of its last full flush
          generation,   \* full-flush generation
          appending,    \* the producers' lock
          started,      \* CPUs running kernel code
          online,       \* CPUs in the registry
          version,      \* per page: edits made so far
          cached,       \* per CPU and page: the version translated, or Absent
          post,         \* per CPU: its request in progress
          walk,         \* per CPU: its catch_up in progress
          edits,        \* edits made, against MaxEdits
          requests      \* ghost: every request made, with what it must remove

logVars == <<slots, head, cursors, flushed, generation, appending>>
tlbVars == <<version, cached>>
bootVars == <<started, online>>
vars == <<logVars, tlbVars, bootVars, post, walk, edits, requests>>

Absent == -1
PagesIn(start, end) == {p \in Pages : start <= p /\ p < end}

Mark == [kind : {"Posted", "Flushed"}, at : Nat]
NoMark == [kind |-> "Flushed", at |-> 0]
NothingSeen == [p \in Pages |-> 0]

IdlePost == [pc |-> "idle", start |-> 0, end |-> 0, count |-> 0,
             seen |-> NothingSeen, mark |-> NoMark]
IdleWalk == [pc |-> "idle", head |-> 0, generation |-> 0, cursor |-> 0, start |-> 0]

Init ==
    /\ slots = [i \in 0 .. Slots - 1 |-> [start |-> 0, end |-> 0]]
    /\ head = 0 /\ generation = 0 /\ appending = FALSE
    /\ cursors = [c \in CPUs |-> 0] /\ flushed = [c \in CPUs |-> 0]
    /\ started = Early /\ online = Early
    /\ version = NothingSeen
    /\ cached = [c \in CPUs |-> [p \in Pages |-> Absent]]
    /\ post = [c \in CPUs |-> IdlePost]
    /\ walk = [c \in CPUs |-> IdleWalk]
    /\ edits = 0
    /\ requests = {}

-----------------------------------------------------------------------------
(* Bring-up.  A CPU runs kernel code from its entry point on; it joins the  *)
(* registry, and online_cpu_count, some time later.  One that never answers *)
(* leaves its id unused.                                                    *)
Start(c) ==
    /\ c \in Up \ started
    /\ started' = started \cup {c}
    /\ UNCHANGED <<logVars, tlbVars, online, post, walk, edits, requests>>

Register(c) ==
    /\ c \in started \ online
    /\ online' = online \cup {c}
    /\ UNCHANGED <<logVars, tlbVars, started, post, walk, edits, requests>>

OnlineCount == Cardinality(online)

(* The CPUs a count stands for: the ids below it. *)
Counted(count) == {c \in CPUs : c < count}

-----------------------------------------------------------------------------
(* A memory access through a mapping the CPU has not cached. *)
Touch(c, p) ==
    /\ c \in started \cap Users /\ cached[c][p] = Absent
    /\ cached' = [cached EXCEPT ![c] = [@ EXCEPT ![p] = version[p]]]
    /\ UNCHANGED <<logVars, version, bootVars, post, walk, edits, requests>>

Dropping(c, pages) ==
    [cached EXCEPT ![c] = [p \in Pages |-> IF p \in pages THEN Absent ELSE cached[c][p]]]

(* A catch_up runs in an interrupt on its CPU: the interrupted thread waits. *)
Thread(c) == c \in started /\ walk[c].pc = "idle"

(* The page-table edit and the local drop that goes with it.  The boot CPU's *)
(* thread edits nothing until bring_up_aps has registered every CPU that     *)
(* answers.                                                                  *)
EditPages(c, start, end) ==
    /\ Thread(c) /\ c \in Editors /\ post[c].pc = "idle" /\ edits < MaxEdits
    /\ c = 0 => Up \subseteq online
    /\ edits' = edits + 1
    /\ version' = [p \in Pages |-> IF p \in PagesIn(start, end) THEN version[p] + 1 ELSE version[p]]
    /\ cached' = Dropping(c, IF end - start > FullFlushPages THEN Pages ELSE PagesIn(start, end))
    /\ post' = [post EXCEPT ![c] =
          [pc |-> "edited", start |-> start, end |-> end, count |-> 0,
           seen |-> [p \in Pages |-> IF p \in PagesIn(start, end) THEN version[p] + 1 ELSE 0],
           mark |-> NoMark]]

Edit(c, start, end) ==
    /\ EditPages(c, start, end)
    /\ UNCHANGED <<logVars, bootVars, walk, requests>>

(* A request has been made: the caller has its mark. *)
Answer(c, mark) ==
    /\ post' = [post EXCEPT ![c] =
          [pc |-> "answered", start |-> post[c].start, end |-> post[c].end,
           count |-> post[c].count, seen |-> post[c].seen, mark |-> mark]]
    /\ requests' = requests \cup {[mark |-> mark, seen |-> post[c].seen]}

PostGoes(c, pc, count) ==
    post' = [post EXCEPT ![c] =
          [pc |-> pc, start |-> post[c].start, end |-> post[c].end, count |-> count,
           seen |-> post[c].seen, mark |-> NoMark]]

(* The caller reads online_cpu_count before post takes the lock. *)
CountOnline(c) ==
    /\ Thread(c) /\ post[c].pc = "edited"
    /\ PostGoes(c, IF post[c].end - post[c].start > FullFlushPages THEN "promote" ELSE "counted",
                OnlineCount)
    /\ UNCHANGED <<logVars, tlbVars, bootVars, walk, edits, requests>>

(* No room: a slot is spent once every counted CPU has walked past it. *)
Full(count) == \E c \in Counted(count) : head - cursors[c] >= Slots

Promote(c) ==
    /\ ~appending /\ Full(post[c].count)
    /\ PostGoes(c, "promote", post[c].count)
    /\ UNCHANGED <<slots, appending>>

TakeSlot(c) ==
    /\ ~appending
    /\ appending' = TRUE
    /\ slots' = [slots EXCEPT ![head % Slots] = [start |-> post[c].start, end |-> @.end]]
    /\ PostGoes(c, "append", post[c].count)

(* Variant: the slot is taken whether or not it is spent. *)
AppendAnyway(c) ==
    /\ Thread(c) /\ post[c].pc = "counted"
    /\ TakeSlot(c)
    /\ UNCHANGED <<head, cursors, flushed, generation, tlbVars, bootVars, walk, edits, requests>>

(* post, under the append lock: look for room and store the start. *)
AppendRange(c) ==
    /\ Thread(c) /\ post[c].pc = "counted"
    /\ Promote(c) \/ (~Full(post[c].count) /\ TakeSlot(c))
    /\ UNCHANGED <<head, cursors, flushed, generation, tlbVars, bootVars, walk, edits, requests>>

(* post: store the end, publish the head, drop the lock. *)
Publish(c) ==
    /\ Thread(c) /\ post[c].pc = "append"
    /\ slots' = [slots EXCEPT ![head % Slots] = [start |-> @.start, end |-> post[c].end]]
    /\ head' = head + 1
    /\ appending' = FALSE
    /\ Answer(c, [kind |-> "Posted", at |-> head])
    /\ UNCHANGED <<cursors, flushed, generation, tlbVars, bootVars, walk, edits>>

PostFullFlush(c) ==
    /\ Thread(c) /\ post[c].pc = "promote"
    /\ generation' = generation + 1
    /\ Answer(c, [kind |-> "Flushed", at |-> generation + 1])
    /\ UNCHANGED <<slots, head, cursors, flushed, appending, tlbVars, bootVars, walk, edits>>

(* The caller that keeps no mark goes on. *)
Return(c) ==
    /\ Thread(c) /\ post[c].pc = "answered"
    /\ post' = [post EXCEPT ![c] = IdlePost]
    /\ UNCHANGED <<logVars, tlbVars, bootVars, walk, edits, requests>>

-----------------------------------------------------------------------------
WalkGoes(c, pc, generationRead, cursor, start) ==
    walk' = [walk EXCEPT ![c] = [pc |-> pc, head |-> walk[c].head, generation |-> generationRead,
                                 cursor |-> cursor, start |-> start]]

(* catch_up: nothing for an id outside the count; else read the head.  The  *)
(* append lock is held with interrupts off.                                *)
CatchUp(c) ==
    /\ c \in started /\ walk[c].pc = "idle" /\ post[c].pc # "append"
    /\ c \in Counted(OnlineCount)
    /\ walk' = [walk EXCEPT ![c] = [pc |-> "entered", head |-> head, generation |-> 0,
                                    cursor |-> 0, start |-> 0]]
    /\ UNCHANGED <<logVars, tlbVars, bootVars, post, edits, requests>>

(* Variant: a flush is owed from the second request on. *)
ReadGenerationLate(c) ==
    /\ walk[c].pc = "entered"
    /\ WalkGoes(c, IF generation > flushed[c] + 1 THEN "flush" ELSE "walk", generation,
                cursors[c], 0)
    /\ UNCHANGED <<logVars, tlbVars, bootVars, post, edits, requests>>

(* Read the generation, and decide between a flush and a walk. *)
ReadGeneration(c) ==
    /\ walk[c].pc = "entered"
    /\ WalkGoes(c, IF generation > flushed[c] THEN "flush" ELSE "walk", generation, cursors[c], 0)
    /\ UNCHANGED <<logVars, tlbVars, bootVars, post, edits, requests>>

FlushAll(c) ==
    /\ walk[c].pc = "flush"
    /\ cached' = Dropping(c, Pages)
    /\ WalkGoes(c, "flushed", walk[c].generation, walk[c].cursor, 0)
    /\ UNCHANGED <<logVars, version, bootVars, post, edits, requests>>

(* After the flush: both records, of what was read before it. *)
PublishFlush(c) ==
    /\ walk[c].pc = "flushed"
    /\ flushed' = [flushed EXCEPT ![c] = walk[c].generation]
    /\ cursors' = [cursors EXCEPT ![c] = walk[c].head]
    /\ walk' = [walk EXCEPT ![c] = IdleWalk]
    /\ UNCHANGED <<slots, head, generation, appending, tlbVars, bootVars, post, edits, requests>>

WalkStart(c) ==
    /\ walk[c].pc = "walk" /\ walk[c].cursor < walk[c].head
    /\ WalkGoes(c, "half", walk[c].generation, walk[c].cursor,
                slots[walk[c].cursor % Slots].start)
    /\ UNCHANGED <<logVars, tlbVars, bootVars, post, edits, requests>>

(* Variant: the end of a range is left in place. *)
InvalidateButLast(c) ==
    /\ walk[c].pc = "half"
    /\ cached' = Dropping(c, PagesIn(walk[c].start, slots[walk[c].cursor % Slots].end - 1))
    /\ WalkGoes(c, "walk", walk[c].generation, walk[c].cursor + 1, 0)
    /\ UNCHANGED <<logVars, version, bootVars, post, edits, requests>>

(* Read the end and drop the range. *)
Invalidate(c) ==
    /\ walk[c].pc = "half"
    /\ cached' = Dropping(c, PagesIn(walk[c].start, slots[walk[c].cursor % Slots].end))
    /\ WalkGoes(c, "walk", walk[c].generation, walk[c].cursor + 1, 0)
    /\ UNCHANGED <<logVars, version, bootVars, post, edits, requests>>

(* Variant: what was walked is never published. *)
LeaveUnpublished(c) ==
    /\ walk[c].pc = "walk" /\ walk[c].cursor >= walk[c].head
    /\ walk' = [walk EXCEPT ![c] = IdleWalk]
    /\ UNCHANGED <<logVars, tlbVars, bootVars, post, edits, requests>>

(* The walk is done: publish how far it got. *)
PublishCursor(c) ==
    /\ walk[c].pc = "walk" /\ walk[c].cursor >= walk[c].head
    /\ cursors' = [cursors EXCEPT ![c] = walk[c].cursor]
    /\ walk' = [walk EXCEPT ![c] = IdleWalk]
    /\ UNCHANGED <<slots, head, flushed, generation, appending, tlbVars, bootVars, post, edits,
                   requests>>

-----------------------------------------------------------------------------
(* The mark's question: has every counted CPU dropped it? *)
AllFlushed(mark, count) ==
    \A c \in Counted(count) :
        IF mark.kind = "Posted" THEN cursors[c] > mark.at ELSE flushed[c] >= mark.at

Posting(c) ==
    CountOnline(c) \/ AppendRange(c) \/ Publish(c) \/ PostFullFlush(c)

Walking(c) ==
    \/ ReadGeneration(c) \/ FlushAll(c) \/ PublishFlush(c)
    \/ WalkStart(c) \/ Invalidate(c) \/ PublishCursor(c)

Next ==
    \E c \in CPUs :
        \/ Start(c) \/ Register(c)
        \/ \E p \in Pages : Touch(c, p)
        \/ \E p, q \in Pages : p <= q /\ Edit(c, p, q + 1)
        \/ Posting(c) \/ Return(c)
        \/ CatchUp(c) \/ Walking(c)

Spec == Init /\ [][Next]_vars

(* Every CPU enters the kernel again and again (its timer ticks) and ends    *)
(* what it began there; between two ticks the interrupted thread goes on,   *)
(* which is strong fairness; a started CPU gets registered.                 *)
FairSpec ==
    Spec /\ \A c \in CPUs : /\ WF_vars(Register(c))
                            /\ SF_vars(Posting(c) \/ Return(c))
                            /\ WF_vars(Walking(c))
                            /\ SF_vars(CatchUp(c))

-----------------------------------------------------------------------------
PostRecord == [pc : {"idle", "edited", "counted", "append", "promote", "answered"},
               start : Nat, end : Nat, count : Nat, seen : [Pages -> Nat], mark : Mark]
WalkRecord == [pc : {"idle", "entered", "flush", "flushed", "walk", "half"},
               head : Nat, generation : Nat, cursor : Nat, start : Nat]

(* Type correctness of the log, the TLBs and the operations in progress. *)
TypeOK ==
    /\ slots \in [0 .. Slots - 1 -> [start : Nat, end : Nat]]
    /\ head \in Nat /\ generation \in Nat /\ appending \in BOOLEAN
    /\ cursors \in [CPUs -> Nat] /\ flushed \in [CPUs -> Nat]
    /\ started \subseteq CPUs /\ online \subseteq started
    /\ version \in [Pages -> Nat]
    /\ cached \in [CPUs -> [Pages -> Nat \cup {Absent}]]
    /\ post \in [CPUs -> PostRecord] /\ walk \in [CPUs -> WalkRecord]
    /\ edits \in Nat
    /\ requests \subseteq [mark : Mark, seen : [Pages -> Nat]]

(* Nothing a request was to remove is left in CPU c's TLB. *)
Gone(c, seen) == \A p \in Pages : cached[c][p] = Absent \/ cached[c][p] >= seen[p]

(* The promise of all_cpus_flushed: once a mark says so, no online CPU holds *)
(* a translation older than the edit the mark was made for.                 *)
HonouredIsDropped ==
    \A r \in requests : AllFlushed(r.mark, OnlineCount) => \A c \in online : Gone(c, r.seen)

(* An entry a CPU is walking towards is not overwritten under it, so the    *)
(* range it hands to drop_local_range is one that was posted, not half of   *)
(* one and half of another.                                                *)
WalkedEntryIsKept ==
    [][\A c \in CPUs : walk[c].pc \in {"walk", "half"} =>
           \A at \in walk[c].cursor .. walk[c].head - 1 :
               slots'[at % Slots] = slots[at % Slots]]_vars

(* Cursors and flush generations never go back, and never pass what was     *)
(* handed out: a mark that was honoured stays honoured.                    *)
ProgressIsMonotone ==
    [][\A c \in CPUs : /\ cursors[c] <= cursors'[c] /\ cursors'[c] <= head'
                       /\ flushed[c] <= flushed'[c] /\ flushed'[c] <= generation']_vars

(* An edit reaches every CPU: a stale translation is dropped some time.      *)
Stale(c, p) == cached[c][p] # Absent /\ cached[c][p] # version[p]
EditReachesEveryCpu ==
    \A c \in Users, p \in Pages : (c \in online /\ Stale(c, p)) ~> ~Stale(c, p)
=============================================================================
