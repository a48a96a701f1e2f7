------------------------------ MODULE SimpleFS ------------------------------
(***************************************************************************)
(* SimpleFS metadata commits (src/fs/simplefs/file_io.rs, extent_repair.rs, *)
(* superblock.rs).  An operation changes the tree in memory under the state *)
(* lock, writes its data block, flushes the metadata into the shadow slot   *)
(* and publishes it through the two superblock mirrors.  Every device write *)
(* is a step; it can fail, or be cut short by a crash.  A boot mounts the   *)
(* volume and runs check_and_repair before anything else uses it.           *)
(***************************************************************************)
EXTENDS SimpleFSDisk

CONSTANTS Writers,      \* threads that use the volume
          Owns,         \* the names each of them works on
          Machines,     \* what a behaviour may meet; see Machine
          InodeCapacity

Machine == [blocks : Nat \ {0}, \* size of the data area
            format : {2, 3},    \* on-disk format; V4 commits as V3 does
            ops : Nat,          \* bound: operations, and volume checks asked for
            crashes : Nat,      \* bound: crashes
            errors : Nat,       \* bound: device writes that fail
            tears : BOOLEAN,    \* can a superblock write be cut short?
            online : BOOLEAN]   \* is a volume check asked for while files are in use?

VARIABLES machine,  \* fixed in Init
          phase,    \* "off", "mounted" (not yet checked), "ready", "lost" (no mount)
          disk, mem,
          cache,    \* table images the block cache may still hold
          commit,   \* the holder of the state lock: its writes still to come
          snap,     \* the inode a writer read before it takes the lock
          check,    \* check_and_repair
          acked,    \* tree and contents as of the last success or mount
          attempts, \* those of the operations begun since
          aliased,  \* has the free map named a block of a live file?
          txs, crashes, errors

vars == <<machine, phase, disk, mem, cache, commit, snap, check, acked, attempts, aliased,
          txs, crashes, errors>>

ASSUME MachineAssumption == Machines \subseteq Machine

Blocks == 1 .. machine.blocks
EmptyTree == [inodes |-> <<>>, dirents |-> <<>>]
Nothing == [n \in Names |-> Absent]
Tables == {"inode", "dirent"}
ColdCache == [kind \in Tables |-> [slot \in Slots |-> {}]]
NoCommit == [kind |-> "none", stage |-> "none", writes |-> <<>>,
             undo |-> [tree |-> EmptyTree, free |-> <<>>, slots |-> <<>>], view |-> Nothing]
NoSnap == [inode |-> 0, block |-> 0, empty |-> TRUE]
NoCheck == [stage |-> "idle", orphans |-> {}, clean |-> TRUE, round |-> 0, failed |-> FALSE]

(* A volume as the image builder leaves it. *)
FreshDisk ==
    [super  |-> [m \in {"primary", "secondary"} |->
                   [gen |-> 0, active |-> 0, pending |-> 0, inodes |-> 0, dirents |-> 0]],
     inode  |-> [s \in Slots |-> InodeImage(EmptyTree)],
     dirent |-> [s \in Slots |-> <<>>],
     data   |-> [b \in Blocks |-> Zeroed]]

(* open_with_runtime_policy: deleted inodes are free slots, the free map is  *)
(* rebuilt, and nothing is known of the shadow slot.                         *)
Opened(sb, d) ==
    LET tree == LoadedTree(sb, d)
    IN  [tree |-> tree, free |-> RebuiltExtents(tree.inodes, machine.blocks),
         slots |-> Keep([i \in DOMAIN tree.inodes |-> i], DOMAIN tree.inodes \ Live(tree.inodes)),
         active |-> sb.active, gen |-> sb.gen, sync |-> TRUE]

Unmounted == [Opened(FreshDisk.super["primary"], FreshDisk) EXCEPT !.gen = -1]

Init ==
    /\ machine \in Machines
    /\ disk = FreshDisk /\ mem = Unmounted /\ phase = "off"
    /\ cache = ColdCache /\ commit = NoCommit /\ check = NoCheck
    /\ snap = [w \in Writers |-> NoSnap]
    /\ acked = [tree |-> EmptyTree, view |-> Nothing] /\ attempts = {} /\ aliased = FALSE
    /\ txs = 0 /\ crashes = 0 /\ errors = 0

Idle == phase = "ready" /\ commit.kind = "none"

-----------------------------------------------------------------------------
(* Operations.  Each is the closure a commit_metadata_update is given: it    *)
(* holds the state lock from here to the end of the commit.                  *)
Undo == [tree |-> mem.tree, free |-> mem.free, slots |-> mem.slots]

At(kind, where, value) == [kind |-> kind, where |-> where, value |-> value]

Begin(tree, free, slots, writes, view) ==
    /\ txs < machine.ops /\ txs' = txs + 1
    /\ mem' = [mem EXCEPT !.tree = tree, !.free = free, !.slots = slots]
    /\ commit' = [kind |-> "op", stage |-> "mutate", writes |-> writes, undo |-> Undo, view |-> view]
    /\ attempts' = attempts \cup {[tree |-> tree, view |-> view]}
    /\ aliased' = (aliased \/ FreeBlocks(free) \cap Referenced(tree.inodes) # {})
    /\ UNCHANGED <<machine, phase, disk, cache, check, acked, crashes, errors>>

Entry(n) == {i \in DOMAIN mem.tree.dirents : mem.tree.dirents[i].name = n}

(* Namespace operations hold the filesystem lock, as a volume check does. *)
Namespace(w, n) == Idle /\ check.stage = "idle" /\ snap[w] = NoSnap /\ n \in Owns[w]

(* create_file: a recycled inode (the last one freed) or a new one, a zeroed *)
(* data block, an entry at the end of the root.                              *)
Create(w, n) ==
    LET inodes == mem.tree.inodes
        recycled == mem.slots # <<>>
        slot == IF recycled THEN mem.slots[Len(mem.slots)] ELSE Len(inodes) + 1
        inode(block) == [deleted |-> FALSE, block |-> block, empty |-> TRUE]
    IN  /\ Namespace(w, n) /\ Entry(n) = {}
        /\ recycled \/ Len(inodes) < InodeCapacity
        /\ \E block \in BestFit(mem.free) :
              Begin([inodes  |-> IF recycled THEN [inodes EXCEPT ![slot] = inode(block)]
                                 ELSE Append(inodes, inode(block)),
                     dirents |-> Append(mem.tree.dirents, [name |-> n, inode |-> slot])],
                    MarkAllocated(mem.free, block),
                    IF recycled THEN SubSeq(mem.slots, 1, Len(mem.slots) - 1) ELSE mem.slots,
                    <<At("data", block, Zeroed)>>,
                    [acked.view EXCEPT ![n] = Zeroed])
        /\ UNCHANGED snap

(* remove_path *)
Remove(w, n) ==
    /\ Namespace(w, n)
    /\ \E i \in Entry(n) :
          LET k == mem.tree.dirents[i].inode
              gone == [deleted |-> TRUE, block |-> 0, empty |-> TRUE]
          IN  Begin([inodes  |-> [mem.tree.inodes EXCEPT ![k] = gone],
                     dirents |-> SubSeq(mem.tree.dirents, 1, i - 1)
                                 \o SubSeq(mem.tree.dirents, i + 1, Len(mem.tree.dirents))],
                    MarkFree(mem.free, mem.tree.inodes[k].block), Append(mem.slots, k), <<>>,
                    [acked.view EXCEPT ![n] = Absent])
    /\ UNCHANGED snap

(* write_file through an open handle reads the inode under the state lock,   *)
(* drops it, and takes it again to commit.                                   *)
ReadInode(w, n) ==
    /\ Idle /\ n \in Owns[w] /\ snap[w] = NoSnap /\ txs < machine.ops
    /\ \E i \in Entry(n) :
          LET k == mem.tree.dirents[i].inode
          IN  snap' = [snap EXCEPT ![w] = [inode |-> k, block |-> mem.tree.inodes[k].block,
                                           empty |-> mem.tree.inodes[k].empty]]
    /\ UNCHANGED <<machine, phase, disk, mem, cache, commit, check, acked, attempts, aliased,
                   txs, crashes, errors>>

(* What the names show once inode k has the content of this operation. *)
Written(k) ==
    [n \in Names |-> IF \E i \in Entry(n) : mem.tree.dirents[i].inode = k
                     THEN txs + 1 ELSE acked.view[n]]

(* Bytes beyond the end of the file are written in place, before the size.   *)
AppendData(w) ==
    LET k == snap[w].inode
    IN  /\ Idle /\ snap[w] # NoSnap /\ snap[w].empty
        /\ Begin([mem.tree EXCEPT !.inodes[k].empty = FALSE], mem.free, mem.slots,
                 <<At("data", snap[w].block, txs + 1)>>, Written(k))
        /\ snap' = [snap EXCEPT ![w] = NoSnap]

(* replace_file_contents_transactionally: visible bytes are replaced by a     *)
(* new block; the old one, as read before the lock, is freed first.          *)
Replace(w) ==
    LET k == snap[w].inode
        freed(block) == IF snap[w].block = block THEN mem.free ELSE MarkFree(mem.free, snap[w].block)
    IN  /\ Idle /\ snap[w] # NoSnap /\ ~snap[w].empty
        /\ \E block \in BestFit(mem.free) :
              Begin([mem.tree EXCEPT !.inodes[k].block = block],
                    MarkAllocated(freed(block), block),
                    mem.slots, <<At("data", block, txs + 1)>>, Written(k))
        /\ snap' = [snap EXCEPT ![w] = NoSnap]

(* A write that finds no space gives up. *)
NoSpace(w) ==
    /\ Idle /\ snap[w] # NoSnap /\ ~snap[w].empty /\ DOMAIN mem.free = {}
    /\ snap' = [snap EXCEPT ![w] = NoSnap]
    /\ UNCHANGED <<machine, phase, disk, mem, cache, commit, check, acked, attempts, aliased,
                   txs, crashes, errors>>

-----------------------------------------------------------------------------
(* The commit. *)

(* Both mirrors, one after the other. *)
Mirrors(sb) == <<At("super", "secondary", sb), At("super", "primary", sb)>>

(* runtime_superblock_record *)
Super(m) == [gen |-> m.gen, active |-> m.active, pending |-> 0,
             inodes |-> Len(m.tree.inodes), dirents |-> Len(m.tree.dirents)]

(* Variant: the counts of the new tree. *)
PendingNewCounts == [Super(mem) EXCEPT !.pending = mem.gen + 1]

(* Phase 1, V3 and later: the active tables, and a commit under way. *)
Pending == [gen |-> mem.gen, active |-> mem.active, pending |-> mem.gen + 1,
            inodes |-> Len(commit.undo.tree.inodes), dirents |-> Len(commit.undo.tree.dirents)]

(* Phase 3: the slots change places. *)
Swapped == [mem EXCEPT !.active = Other(@), !.gen = @ + 1, !.sync = FALSE]

(* What a read of the shadow slot finds: the cached image or, if the cache    *)
(* let go of it, the device's.                                               *)
Seen(kind) == LET slot == Other(mem.active) IN {disk[kind][slot]} \cup cache[kind][slot]

(* Phase 2, write_shadow_table: nothing if the slot holds the image. *)
TableWrite(kind, image, seen) ==
    IF ~mem.sync /\ seen = image THEN <<>> ELSE <<At(kind, Other(mem.active), image)>>

FlushWrites(seenInode, seenDirent) ==
    (IF machine.format >= 3 THEN Mirrors(Pending) ELSE <<>>)
    \o TableWrite("inode", InodeImage(mem.tree), seenInode)
    \o TableWrite("dirent", mem.tree.dirents, seenDirent)
    \o Mirrors(Super(Swapped))

RolledBack == [mem EXCEPT !.tree = commit.undo.tree, !.free = commit.undo.free,
                          !.slots = commit.undo.slots]

(* Variant: the data goes out after the metadata. *)
FlushDataLast ==
    /\ commit.stage = "mutate"
    /\ \E seenInode \in Seen("inode"), seenDirent \in Seen("dirent") :
          commit' = [commit EXCEPT !.stage = "flush",
                                   !.writes = FlushWrites(seenInode, seenDirent) \o @]
    /\ UNCHANGED <<machine, phase, disk, mem, cache, snap, check, acked, attempts, aliased,
                   txs, crashes, errors>>

(* The closure is done: validate_runtime_state, then flush_metadata. *)
Flush ==
    /\ commit.stage = "mutate" /\ commit.writes = <<>>
    /\ LET valid == Valid(Len(mem.tree.dirents), mem.tree.inodes, mem.tree.dirents)
       IN  \/ /\ valid
              /\ \E seenInode \in Seen("inode"), seenDirent \in Seen("dirent") :
                    commit' = [commit EXCEPT !.stage = "flush",
                                             !.writes = FlushWrites(seenInode, seenDirent)]
              /\ UNCHANGED mem
           \/ ~valid /\ mem' = RolledBack /\ commit' = NoCommit
    /\ UNCHANGED <<machine, phase, disk, cache, snap, check, acked, attempts, aliased,
                   txs, crashes, errors>>

(* write_blocks_cached: the device first, then the cache. *)
WriteNext ==
    /\ commit.writes # <<>>
    /\ LET x == Head(commit.writes)
       IN  /\ disk' = [disk EXCEPT ![x.kind][x.where] = x.value]
           /\ cache' = IF x.kind \in Tables THEN [cache EXCEPT ![x.kind][x.where] = {x.value}]
                       ELSE cache
    /\ commit' = [commit EXCEPT !.writes = Tail(@)]
    /\ UNCHANGED <<machine, phase, mem, snap, check, acked, attempts, aliased, txs, crashes, errors>>

(* The write under way leaves nothing, or a part of it, on the device. *)
Interrupted(writes) ==
    \/ disk' = disk
    \/ /\ writes # <<>>
       /\ Head(writes).kind = "super" => machine.tears
       /\ disk' = [disk EXCEPT ![Head(writes).kind][Head(writes).where] = Torn]

(* A device write fails: the memory is rolled back, and after a failed flush *)
(* the next one writes the whole slot.  A failed check gives up.             *)
AfterFailure == [RolledBack EXCEPT !.sync = @ \/ commit.stage = "flush"]
Fail ==
    /\ commit.writes # <<>> /\ errors < machine.errors
    /\ errors' = errors + 1
    /\ Interrupted(commit.writes)
    /\ mem' = AfterFailure /\ commit' = NoCommit
    /\ check' = IF commit.kind = "repair" THEN [NoCheck EXCEPT !.failed = TRUE] ELSE check
    /\ phase' = "ready"
    /\ UNCHANGED <<machine, cache, snap, acked, attempts, aliased, txs, crashes>>

(* Every write has succeeded: the slots are swapped in memory. *)
Finish ==
    /\ commit.stage = "flush" /\ commit.writes = <<>>
    /\ mem' = Swapped /\ commit' = NoCommit
    /\ \/ /\ commit.kind = "op"
          /\ acked' = [tree |-> mem.tree, view |-> commit.view] /\ attempts' = {}
          /\ UNCHANGED check
       \/ /\ commit.kind = "repair"
          /\ check' = [check EXCEPT !.stage = "inspect"]
          /\ UNCHANGED <<acked, attempts>>
    /\ UNCHANGED <<machine, phase, disk, cache, snap, aliased, txs, crashes, errors>>

-----------------------------------------------------------------------------
(* check_and_repair, by recover_volumes at boot or by the CheckVolume call.  *)

(* inspect_runtime_health: both mirrors and both slots hold what is in memory. *)
Clean(m) ==
    /\ \A x \in {"primary", "secondary"} : disk.super[x] = Super(m)
    /\ \A s \in Slots : disk.inode[s] = InodeImage(m.tree) /\ disk.dirent[s] = m.tree.dirents

(* The state is cloned and the lock dropped; all that follows goes by the clone. *)
CheckStart ==
    /\ commit.kind = "none" /\ check.stage = "idle"
    /\ \/ phase = "mounted" /\ UNCHANGED txs
       \/ phase = "ready" /\ machine.online /\ txs < machine.ops /\ txs' = txs + 1
    /\ check' = [stage |-> "zero", orphans |-> Orphans(mem.tree.inodes), clean |-> Clean(mem),
                 round |-> 0, failed |-> FALSE]
    /\ UNCHANGED <<machine, phase, disk, mem, cache, commit, snap, acked, attempts, aliased,
                   crashes, errors>>

(* Orphans are zeroed on the device; a write that fails is passed over.  A    *)
(* clean volume without any is done.                                         *)
CheckZero ==
    /\ check.stage = "zero"
    /\ \E done \in SUBSET check.orphans :
          /\ done = check.orphans \/ errors < machine.errors
          /\ errors' = IF done = check.orphans THEN errors ELSE errors + 1
          /\ disk' = [disk EXCEPT !.data = [b \in Blocks |-> IF b \in done THEN Zeroed ELSE @[b]]]
          /\ \/ ~check.clean /\ check' = [check EXCEPT !.stage = "commit"] /\ UNCHANGED phase
             \/ check.clean /\ done # {} /\ check' = [check EXCEPT !.stage = "rebuild"] /\ UNCHANGED phase
             \/ check.clean /\ done = {} /\ check' = NoCheck /\ phase' = "ready"
    /\ UNCHANGED <<machine, mem, cache, commit, snap, acked, attempts, aliased, txs, crashes>>

Rebuilt == [mem EXCEPT !.free = RebuiltExtents(mem.tree.inodes, machine.blocks)]

(* A clean volume with orphans: only the free map is rebuilt. *)
CheckRebuild ==
    /\ check.stage = "rebuild" /\ commit.kind = "none"
    /\ mem' = Rebuilt /\ check' = NoCheck /\ phase' = "ready"
    /\ UNCHANGED <<machine, disk, cache, commit, snap, acked, attempts, aliased, txs, crashes, errors>>

(* Otherwise the tree is committed as it is. *)
CheckCommit ==
    /\ check.stage = "commit" /\ commit.kind = "none"
    /\ mem' = Rebuilt
    /\ commit' = [kind |-> "repair", stage |-> "mutate", writes |-> <<>>, undo |-> Undo,
                  view |-> acked.view]
    /\ check' = [check EXCEPT !.stage = "committing", !.round = @ + 1]
    /\ UNCHANGED <<machine, phase, disk, cache, snap, acked, attempts, aliased, txs, crashes, errors>>

(* Variant: the volume is compared with the state cloned before the commit. *)
CheckInspectStale ==
    LET before == [mem EXCEPT !.active = Other(@), !.gen = @ - 1]
    IN  /\ check.stage = "inspect" /\ commit.kind = "none"
        /\ \/ Clean(before) /\ check' = NoCheck /\ phase' = "ready"
           \/ ~Clean(before) /\ check.round < 2 /\ check' = [check EXCEPT !.stage = "commit"] /\ UNCHANGED phase
           \/ ~Clean(before) /\ check.round = 2 /\ check' = [NoCheck EXCEPT !.failed = TRUE] /\ phase' = "ready"
        /\ UNCHANGED <<machine, disk, mem, cache, commit, snap, acked, attempts, aliased,
                       txs, crashes, errors>>

(* Twice at most. *)
CheckInspect ==
    /\ check.stage = "inspect" /\ commit.kind = "none"
    /\ \/ Clean(mem) /\ check' = NoCheck /\ phase' = "ready"
       \/ ~Clean(mem) /\ check.round < 2 /\ check' = [check EXCEPT !.stage = "commit"] /\ UNCHANGED phase
       \/ ~Clean(mem) /\ check.round = 2 /\ check' = [NoCheck EXCEPT !.failed = TRUE] /\ phase' = "ready"
    /\ UNCHANGED <<machine, disk, mem, cache, commit, snap, acked, attempts, aliased, txs, crashes, errors>>

-----------------------------------------------------------------------------
(* Power is lost. *)
Crash ==
    /\ phase \in {"mounted", "ready"} /\ crashes < machine.crashes
    /\ crashes' = crashes + 1
    /\ Interrupted(commit.writes)
    /\ phase' = "off" /\ mem' = Unmounted
    /\ commit' = NoCommit /\ cache' = ColdCache /\ check' = NoCheck
    /\ snap' = [w \in Writers |-> NoSnap]
    /\ UNCHANGED <<machine, acked, attempts, aliased, txs, errors>>

Mount ==
    /\ phase = "off"
    /\ \/ /\ Loadable(disk) = {}
          /\ phase' = "lost" /\ UNCHANGED <<mem, acked, attempts, aliased>>
       \/ /\ Loadable(disk) # {}
          /\ mem' = Opened(FirstLoadable(disk), disk) /\ phase' = "mounted"
          /\ acked' = [tree |-> mem'.tree, view |-> View(mem'.tree, disk.data)]
          /\ attempts' = {} /\ aliased' = FALSE
    /\ UNCHANGED <<machine, disk, cache, commit, snap, check, txs, crashes, errors>>

Next ==
    \/ \E w \in Writers :
          \/ \E n \in Names : Create(w, n) \/ Remove(w, n) \/ ReadInode(w, n)
          \/ AppendData(w) \/ Replace(w) \/ NoSpace(w)
    \/ Flush \/ WriteNext \/ Fail \/ Finish
    \/ CheckStart \/ CheckZero \/ CheckRebuild \/ CheckCommit \/ CheckInspect
    \/ Crash \/ Mount

Spec == Init /\ [][Next]_vars

-----------------------------------------------------------------------------
(* SimpleFsState's tables, within the volume's capacity. *)
IsTree(t) ==
    /\ DOMAIN t.inodes \subseteq 1 .. InodeCapacity
    /\ \A i \in DOMAIN t.inodes : t.inodes[i] \in [deleted : BOOLEAN, block : Blocks \cup {0}, empty : BOOLEAN]
    /\ \A i \in DOMAIN t.dirents : t.dirents[i] \in [name : Names, inode : 1 .. InodeCapacity]

(* The state of a volume stays within its bounds: inode numbers and blocks    *)
(* exist, and no free extent is empty or leaves the data area (SimpleFsState). *)
FsTypeOK ==
    /\ machine \in Machines /\ phase \in {"off", "mounted", "ready", "lost"}
    /\ IsTree(mem.tree) /\ IsTree(acked.tree)
    /\ \A k \in DOMAIN mem.free : k \in Blocks /\ mem.free[k] > 0 /\ k + mem.free[k] - 1 \in Blocks
    /\ mem.active \in Slots /\ mem.sync \in BOOLEAN
    /\ commit.kind \in {"none", "op", "repair"}
    /\ check.stage \in {"idle", "zero", "rebuild", "commit", "committing", "inspect"}
    /\ check.round \in 0 .. 2
    /\ \A w \in Writers : snap[w].inode \in 0 .. InodeCapacity /\ snap[w].block \in Blocks \cup {0}

(* The superblock a mount would go by now, and what it would show. *)
Newest == Head(Candidates(disk))
Recovered == [tree |-> LoadedTree(Newest, disk), view |-> View(LoadedTree(Newest, disk), disk.data)]
Mountable == Candidates(disk) # <<>> /\ Loads(Newest, disk)

(* At most one of the mirrors can be cut short. *)
OneTear == machine.tears => machine.crashes + machine.errors <= 1

(* What the three phases of flush_metadata_inner are for: V3, or no write fails. *)
Guarded == OneTear /\ (machine.errors = 0 \/ machine.format >= 3)

(* A crash at any moment leaves a superblock whose tables load, and they are   *)
(* the tree of the last success or of an operation begun since, also after     *)
(* failed and torn writes (V3), a volume check in use, and repeated crashes:   *)
(* flush_metadata_inner's three phases.                                        *)
CrashAtomic == Guarded => Mountable /\ Recovered.tree \in {x.tree : x \in {acked} \cup attempts}

(* Nobody holds the state lock; the files hold what was acknowledged. *)
Settled == phase \in {"mounted", "ready"} /\ commit.kind = "none"
ContentsKept == mem.tree = acked.tree /\ View(mem.tree, disk.data) = acked.view

(* Between operations the files read as the last successful operation left     *)
(* them: a failed one is rolled back (rollback_undo) and neither it nor the     *)
(* zeroing of orphans touched a block of another file.  Where no device write  *)
(* fails, a crash at any moment leaves the contents of that operation or of    *)
(* one begun since: the data is written before the inode, and an overwrite     *)
(* goes to a copy (replace_file_contents_transactionally).                     *)
FilesAsAcknowledged ==
    ~aliased /\ ~machine.online =>
        /\ Settled => ContentsKept
        /\ OneTear /\ machine.errors = 0 => Recovered \in {acked} \cup attempts

(* The same while check_and_repair, called through CheckVolume, runs beside    *)
(* write_file on open handles.                                                 *)
FilesSurviveCheck == Settled /\ ~aliased => ContentsKept

(* The same also when mark_extent_allocated left a live block in the free map. *)
FilesSurvive == Settled => ContentsKept

(* The incrementally kept map of free extents (mark_extent_free,               *)
(* mark_extent_allocated, rollbacks) is the one a mount would rebuild.          *)
FreeMapExact == Settled /\ ~aliased => mem.free = RebuiltExtents(mem.tree.inodes, machine.blocks)

(* mark_extent_allocated takes a block of a live file out of the free map.     *)
AllocatedIsNotFree == Settled => FreeBlocks(mem.free) \cap Referenced(mem.tree.inodes) = {}

(* check_and_repair at boot ends with both mirrors and both slots in order     *)
(* whatever crash came before, unless the device fails it.                     *)
RepairConverges == machine.errors = 0 /\ ~machine.online => ~check.failed

(* A step leaves the tables alone that a mount would read before it. *)
SparesActive ==
    Mountable => \A kind \in Tables : disk'[kind][Newest.active] = disk[kind][Newest.active]

(* No step writes the tables a mount would read (open_with_runtime_policy:     *)
(* 'the active tables, which are never written during a commit').              *)
NeverWritesActive == [][SparesActive]_vars

(* The same where flush_metadata_inner's phases promise it. *)
ActiveTablesKept == [][Guarded => SparesActive]_vars
=============================================================================
