---------------------------- MODULE SimpleFSDisk ----------------------------
(***************************************************************************)
(* What a SimpleFS volume holds (src/fs/simplefs): two superblock mirrors,  *)
(* two slots of an inode and a dirent table, data blocks; how a mount reads *)
(* it, and the map of free extents.  The volume has one directory, the      *)
(* root, and files of one data block; the content of a block is a number.   *)
(* Torn stands for a block of which a write left only a part.               *)
(***************************************************************************)
EXTENDS Integers, Sequences, FiniteSetsExt, Functions, Sublists

CONSTANTS Names,        \* names of files in the root directory
          Torn          \* a model value

Slots == {0, 1}
Other(slot) == 1 - slot

Zeroed == 0             \* a cleared block, an empty file
Absent == -1            \* what a name without a file shows

(* The inode table holds the root's entry count besides the file inodes. *)
InodeImage(tree) == [entries |-> Len(tree.dirents), files |-> tree.inodes]

Inode == [deleted : BOOLEAN, block : Nat, empty : BOOLEAN]
Dirent == [name : Names, inode : Nat]
Tree == [inodes : Seq(Inode), dirents : Seq(Dirent)]
Superblock == [gen : Nat, active : Slots, pending : Nat, inodes : Nat, dirents : Nat]

(* A checksum tells a torn block from anything that was written whole. *)
ASSUME TornAssumption ==
    Torn \notin Superblock \cup [entries : Nat, files : Seq(Inode)] \cup Seq(Dirent)

Live(inodes) == {i \in DOMAIN inodes : ~inodes[i].deleted}
Referenced(inodes) == {inodes[i].block : i \in Live(inodes)}

(* validate_loaded_metadata: the root's entries are all entries, names are  *)
(* distinct, extents do not overlap, and every live inode has one entry.    *)
Valid(entries, inodes, dirents) ==
    /\ entries = Len(dirents)
    /\ \A i, j \in DOMAIN dirents : i # j => dirents[i].name # dirents[j].name
    /\ \A i, j \in Live(inodes) : i # j => inodes[i].block # inodes[j].block
    /\ \A i \in DOMAIN dirents : dirents[i].inode \in Live(inodes)
    /\ \A k \in Live(inodes) :
          Cardinality({i \in DOMAIN dirents : dirents[i].inode = k}) = 1

(* The superblock's counts say how much of the active tables is read. *)
LoadedTree(sb, disk) ==
    [inodes  |-> SubSeq(disk.inode[sb.active].files, 1, sb.inodes),
     dirents |-> SubSeq(disk.dirent[sb.active], 1, sb.dirents)]

(* load_runtime_state_from_superblock; beyond the records a table is zeroed, *)
(* which decodes to no inode or entry.                                       *)
Loads(sb, disk) ==
    LET inodes == disk.inode[sb.active]
        dirents == disk.dirent[sb.active]
    IN  /\ inodes # Torn /\ dirents # Torn
        /\ sb.inodes <= Len(inodes.files) /\ sb.dirents <= Len(dirents)
        /\ Valid(inodes.entries, LoadedTree(sb, disk).inodes, LoadedTree(sb, disk).dirents)

(* readable_superblock_candidates, by descending generation; the sort is     *)
(* stable and the primary is first.  A torn mirror fails its checksum.       *)
Candidates(disk) ==
    LET p == disk.super["primary"]
        s == disk.super["secondary"]
    IN  CASE p = Torn -> IF s = Torn THEN <<>> ELSE <<s>>
          [] p # Torn /\ s = Torn -> <<p>>
          [] OTHER -> IF s.gen > p.gen THEN <<s, p>> ELSE <<p, s>>

(* load_current_runtime_state takes the first candidate that loads. *)
Loadable(disk) == {i \in DOMAIN Candidates(disk) : Loads(Candidates(disk)[i], disk)}
FirstLoadable(disk) == Candidates(disk)[Min(Loadable(disk))]

(* What the files of a tree read as. *)
Contents(inode, data) == IF inode.empty THEN Zeroed ELSE data[inode.block]
View(tree, data) ==
    [n \in Names |->
        LET found == {tree.dirents[i].inode : i \in {j \in DOMAIN tree.dirents : tree.dirents[j].name = n}}
        IN  IF found = {} THEN Absent ELSE Contents(tree.inodes[Min(found)], data)]

-----------------------------------------------------------------------------
(* free_data_extents: a function from the first block of a free extent to   *)
(* its length.                                                              *)
FreeBlocks(free) == UNION {k .. (k + free[k] - 1) : k \in DOMAIN free}

(* rebuild_free_data_extents: the gaps between the live files in a data area *)
(* of n blocks.                                                             *)
RebuiltExtents(inodes, n) ==
    LET gaps == (1 .. n) \ Referenced(inodes)
        starts == {b \in gaps : b - 1 \notin gaps}
    IN  [b \in starts |-> Min({e \in b .. (n + 1) : e \notin gaps}) - b]

Without(free, keys) == Restrict(free, DOMAIN free \ keys)
With(free, start, len) == [k \in DOMAIN free \cup {start} |-> IF k = start THEN len ELSE free[k]]

(* mark_extent_allocated, for one block: the extent that starts there. *)
MarkAllocated(free, b) ==
    IF b \notin DOMAIN free THEN free
    ELSE IF free[b] = 1 THEN Without(free, {b})
    ELSE With(Without(free, {b}), b + 1, free[b] - 1)

(* Variant: no merge with the extent before. *)
MarkFreeUnmerged(free, b) ==
    IF b + 1 \in DOMAIN free THEN With(Without(free, {b + 1}), b, free[b + 1] + 1)
    ELSE With(free, b, 1)

(* mark_extent_free, for one block: merged with the extents that touch it. *)
MarkFree(free, b) ==
    LET below == {k \in DOMAIN free : k < b}
        prev == {k \in below : k = Max(below) /\ k + free[k] = b}
        start == IF prev = {} THEN b ELSE Max(prev)
        rest == Without(free, prev)
        above == {k \in DOMAIN rest : k >= start}
        next == {k \in above : k = Min(above) /\ k = b + 1}
        end == IF next = {} THEN b + 1 ELSE b + 1 + rest[b + 1]
    IN  With(Without(rest, next), start, end - start)

(* find_free_data_block_span: the smallest extent, the first of equal ones;  *)
(* none if nothing is free.                                                 *)
BestFit(free) ==
    {b \in DOMAIN free : \A c \in DOMAIN free : free[b] < free[c] \/ (free[b] = free[c] /\ b <= c)}

(* cleanup_orphan_data_blocks_locked: unreferenced blocks below the last     *)
(* referenced one.                                                          *)
Orphans(inodes) == UNION {1 .. r : r \in Referenced(inodes)} \ Referenced(inodes)
=============================================================================
