------------------------ MODULE SimpleFSCommitProofs ------------------------
(***************************************************************************)
(* The invariant of SimpleFS commits, and the steps of a running volume     *)
(* that keep it: the operations in memory, the stages of a check, the plan  *)
(* of a flush, its rollback, and every write that reaches the device.       *)
(***************************************************************************)
EXTENDS SimpleFS, SublistLemmas, TLAPS

MirrorNames == {"primary", "secondary"}
InodeTable == [entries : Nat, files : Seq(Inode)]

(* The device. *)
DiskShape ==
    /\ disk = [super |-> disk.super, inode |-> disk.inode, dirent |-> disk.dirent, data |-> disk.data]
    /\ disk.super \in [MirrorNames -> Superblock \cup {Torn}]
    /\ disk.inode \in [Slots -> InodeTable \cup {Torn}]
    /\ disk.dirent \in [Slots -> Seq(Dirent) \cup {Torn}]

(* The free map, by the blocks it names. *)
FreeShape(free) == DOMAIN free \subseteq Nat

MemShape ==
    /\ mem = [tree |-> mem.tree, free |-> mem.free, slots |-> mem.slots,
              active |-> mem.active, gen |-> mem.gen, sync |-> mem.sync]
    /\ mem.tree \in Tree /\ FreeShape(mem.free) /\ mem.slots \in Seq(Nat)
    /\ mem.active \in Slots /\ mem.gen \in Int /\ mem.sync \in BOOLEAN

CommitShape ==
    /\ commit = [kind |-> commit.kind, stage |-> commit.stage, writes |-> commit.writes,
                 undo |-> commit.undo, view |-> commit.view]
    /\ commit.undo = [tree |-> commit.undo.tree, free |-> commit.undo.free, slots |-> commit.undo.slots]
    /\ commit.undo.tree \in Tree /\ FreeShape(commit.undo.free) /\ commit.undo.slots \in Seq(Nat)
    /\ \/ commit.kind = "none" /\ commit.stage = "none"
       \/ commit.kind \in {"op", "repair"} /\ commit.stage \in {"mutate", "flush"}

CheckStages == {"idle", "zero", "rebuild", "commit", "committing", "inspect"}

RestShape ==
    /\ machine \in Machines /\ phase \in {"off", "mounted", "ready", "lost"}
    /\ snap \in [Writers -> [inode : Nat, block : Nat, empty : BOOLEAN]]
    /\ check = [stage |-> check.stage, orphans |-> check.orphans, clean |-> check.clean,
                round |-> check.round, failed |-> check.failed]
    /\ check.stage \in CheckStages /\ check.round \in 0 .. 2
    /\ (check.stage = "zero" => check.round = 0) /\ (check.stage = "commit" => check.round < 2)
    /\ acked.tree \in Tree /\ \A x \in attempts : x.tree \in Tree
    /\ crashes \in 0 .. machine.crashes /\ errors \in 0 .. machine.errors
    /\ cache = [kind \in Tables |-> [slot \in Slots |-> cache[kind][slot]]]

Shape == DiskShape /\ MemShape /\ CommitShape /\ RestShape

-----------------------------------------------------------------------------
(* The writes of a commit. *)
Running == phase \in {"mounted", "ready"}
Shadow == Other(mem.active)
Published == Super(Swapped)

PendingWrite(m) == At("super", m, Pending)
PublishWrite(m) == At("super", m, Published)
Image(kind) == IF kind = "inode" THEN InodeImage(mem.tree) ELSE mem.tree.dirents
ShadowWrite(kind) == At(kind, Shadow, Image(kind))

PlannedWrites ==
    {PendingWrite(m) : m \in MirrorNames} \cup {ShadowWrite(kind) : kind \in Tables}
    \cup {PublishWrite(m) : m \in MirrorNames}

(* The place of a write in a flush. *)
Rank(x) ==
    IF x.kind = "super"
    THEN (IF x.value.pending = 0 THEN 5 ELSE 1) + (IF x.where = "primary" THEN 1 ELSE 0)
    ELSE IF x.kind = "inode" THEN 3 ELSE 4

InOrder(writes) == \A i, j \in 1 .. Len(writes) : i < j => Rank(writes[i]) < Rank(writes[j])
ToCome == Elements(commit.writes)

(* What is not to be written any more is on the device. *)
Landed ==
    /\ machine.format >= 3 =>
          \A m \in MirrorNames : \/ PendingWrite(m) \in ToCome
                                 \/ disk.super[m] \in {Pending, Published}
    /\ \A kind \in Tables :
          \/ ShadowWrite(kind) \in ToCome
          \/ disk[kind][Shadow] = Image(kind) /\ cache[kind][Shadow] \subseteq {Image(kind)}
    /\ \A m \in MirrorNames : PublishWrite(m) \in ToCome \/ disk.super[m] = Published

Flushing ==
    /\ commit.writes \in Seq(PlannedWrites) /\ InOrder(commit.writes)
    /\ \A x \in ToCome : /\ Rank(x) < 5 => PublishWrite("secondary") \in ToCome
                         /\ PublishWrite("primary") \in ToCome
    /\ Landed
    /\ Valid(Len(mem.tree.dirents), mem.tree.inodes, mem.tree.dirents)

Whole(tree) == tree \in Tree /\ Valid(Len(tree.dirents), tree.inodes, tree.dirents)

(* The tree that a failed commit goes back to. *)
BaseTree == IF commit.kind = "none" THEN mem.tree ELSE commit.undo.tree

Coherent(slot) == \A kind \in Tables : cache[kind][slot] \subseteq {disk[kind][slot]}

(* What an operation writes before its metadata. *)
DataWrites(writes) == writes = <<>> \/ \E x : x.kind = "data" /\ writes = <<x>>

(* The state lock: operations begin on a volume in use, and the block cache   *)
(* knows the active slot, and the shadow slot unless a flush failed.           *)
CommitInv ==
    /\ commit.kind = "none" => commit.writes = <<>>
    /\ commit.kind # "none" => Running
    /\ Running => mem.gen \in Nat /\ Whole(BaseTree)
    /\ ~Running => cache = ColdCache /\ mem = Unmounted /\ check = NoCheck
    /\ commit.kind = "repair" <=> check.stage = "committing"
    /\ commit.kind = "repair" => mem.tree = commit.undo.tree
    /\ commit.stage = "mutate" => DataWrites(commit.writes)
    /\ commit.stage = "flush" => Flushing
    /\ Coherent(mem.active)
    /\ ~mem.sync /\ commit.stage # "flush" => Coherent(Shadow)

-----------------------------------------------------------------------------
(* What a mount finds. *)
Trees == {x.tree : x \in {acked} \cup attempts}
Holds(slot, tree) == disk.inode[slot] = InodeImage(tree) /\ disk.dirent[slot] = tree.dirents
Records(m, gen, slot, tree) ==
    /\ disk.super[m] # Torn
    /\ disk.super[m].gen = gen /\ disk.super[m].active = slot
    /\ disk.super[m].inodes = Len(tree.inodes) /\ disk.super[m].dirents = Len(tree.dirents)
Before(m, gen) == disk.super[m] = Torn \/ disk.super[m].gen < gen

(* The newest readable mirror names this tree, and so does one as new. *)
Named(gen, slot, tree) ==
    \/ Records("primary", gen, slot, tree) /\ (Records("secondary", gen, slot, tree) \/ disk.super["secondary"] = Torn)
    \/ Records("secondary", gen, slot, tree) /\ Before("primary", gen)

Unharmed == crashes = 0 /\ errors = 0

Off ==
    \E gen \in Nat, slot \in Slots, tree \in Trees :
        /\ Whole(tree) /\ Holds(slot, tree) /\ Named(gen, slot, tree)
        /\ Unharmed => \A m \in MirrorNames : Records(m, gen, slot, tree)

Current(m) == Records(m, mem.gen, mem.active, acked.tree)
PrimaryOld == Before("primary", mem.gen) \/ Current("primary")

(* A failed commit has left the secondary mirror ahead of the memory. *)
Ahead ==
    \E tree \in Trees : Whole(tree) /\ Holds(Shadow, tree) /\ Records("secondary", mem.gen + 1, Shadow, tree)

AheadAllowed ==
    /\ machine.format >= 3
    /\ commit.stage = "flush" => PendingWrite("secondary") \in ToCome

Unpublished ==
    /\ PrimaryOld
    /\ \/ Current("secondary")
       \/ Current("primary") /\ disk.super["secondary"] = Torn
       \/ AheadAllowed /\ Ahead
    /\ machine.tears /\ Unharmed => Current("primary") /\ Current("secondary")

Publishing ==
    /\ disk.super["secondary"] = Published
    /\ PrimaryOld \/ disk.super["primary"] = Published
    /\ PublishWrite("primary") \in ToCome => PrimaryOld
    /\ machine.tears /\ Unharmed => Current("primary") \/ disk.super["primary"] = Published

Mounted ==
    /\ BaseTree = acked.tree /\ mem.tree \in Trees
    /\ Whole(acked.tree) /\ Holds(mem.active, acked.tree)
    /\ IF commit.stage = "flush" /\ PublishWrite("secondary") \notin ToCome THEN Publishing ELSE Unpublished

RecoveryInv == Guarded => phase # "lost" /\ IF Running THEN Mounted ELSE Off

(* The boot check. *)
Calm == machine.errors = 0 /\ ~machine.online
BothMirrors == \A m \in MirrorNames : disk.super[m] = Super(mem)
RepairInv ==
    Calm =>
        /\ ~check.failed
        /\ check.stage # "idle" => phase = "mounted"
        /\ phase = "mounted" => commit.kind # "op"
        /\ check.stage = "inspect" =>
              /\ check.round \in {1, 2} /\ BothMirrors /\ Holds(mem.active, mem.tree)
              /\ check.round = 2 => Holds(Shadow, mem.tree)
        /\ check.stage = "commit" => check.round \in {0, 1} /\ (check.round = 1 => Holds(mem.active, mem.tree))
        /\ check.stage = "committing" =>
              check.round \in {1, 2} /\ (check.round = 2 => Holds(mem.active, mem.tree))

FsInv == Shape /\ CommitInv /\ RecoveryInv /\ RepairInv

-----------------------------------------------------------------------------
(* The device as a record of its regions. *)

USE ZenonT(60)

LEMMA SuperWritten ==
  ASSUME DiskShape, NEW m, NEW v, NEW k, k = "super", NEW d, d = [disk EXCEPT ![k][m] = v]
  PROVE  d = [super |-> [disk.super EXCEPT ![m] = v], inode |-> disk.inode,
              dirent |-> disk.dirent, data |-> disk.data]
BY DEF DiskShape

LEMMA InodeWritten ==
  ASSUME DiskShape, NEW m, NEW v, NEW k, k = "inode", NEW d, d = [disk EXCEPT ![k][m] = v]
  PROVE  d = [super |-> disk.super, inode |-> [disk.inode EXCEPT ![m] = v],
              dirent |-> disk.dirent, data |-> disk.data]
BY DEF DiskShape

LEMMA DirentWritten ==
  ASSUME DiskShape, NEW m, NEW v, NEW k, k = "dirent", NEW d, d = [disk EXCEPT ![k][m] = v]
  PROVE  d = [super |-> disk.super, inode |-> disk.inode,
              dirent |-> [disk.dirent EXCEPT ![m] = v], data |-> disk.data]
BY DEF DiskShape

LEMMA DataWritten ==
  ASSUME DiskShape, NEW m, NEW v, NEW k, k = "data", NEW d, d = [disk EXCEPT ![k][m] = v]
  PROVE  d = [super |-> disk.super, inode |-> disk.inode,
              dirent |-> disk.dirent, data |-> [disk.data EXCEPT ![m] = v]]
BY DEF DiskShape

LEMMA SlotFacts ==
  /\ \A s \in Slots : Other(s) \in Slots /\ Other(s) # s /\ Other(Other(s)) = s
  /\ \A s, r \in Slots : r = s \/ r = Other(s)
BY SMT, Z3T(40) DEF Slots, Other

LEMMA Lengths ==
  ASSUME NEW S, NEW s \in Seq(S)
  PROVE  Len(s) \in Nat
BY SMT, Z3T(40)

LEMMA ImageFields ==
  ASSUME NEW tree \in Tree
  PROVE  /\ tree = [inodes |-> tree.inodes, dirents |-> tree.dirents]
         /\ tree.inodes \in Seq(Inode) /\ tree.dirents \in Seq(Dirent)
         /\ InodeImage(tree) \in InodeTable /\ InodeImage(tree) # Torn /\ tree.dirents # Torn
         /\ InodeImage(tree).entries = Len(tree.dirents) /\ InodeImage(tree).files = tree.inodes
         /\ Len(tree.inodes) \in Nat /\ Len(tree.dirents) \in Nat
<1>1. /\ tree = [inodes |-> tree.inodes, dirents |-> tree.dirents]
      /\ tree.inodes \in Seq(Inode) /\ tree.dirents \in Seq(Dirent)
  BY DEF Tree
<1>2. Len(tree.inodes) \in Nat /\ Len(tree.dirents) \in Nat
  BY <1>1, Lengths
<1>3. InodeImage(tree) \in InodeTable
  BY <1>1, <1>2 DEF InodeImage, InodeTable
<1>4. InodeImage(tree) # Torn /\ tree.dirents # Torn
  BY <1>1, <1>3, TornAssumption DEF InodeTable
<1>5. InodeImage(tree).entries = Len(tree.dirents) /\ InodeImage(tree).files = tree.inodes
  BY DEF InodeImage
<1> QED
  BY <1>1, <1>2, <1>3, <1>4, <1>5

(* A superblock that names a slot with a whole tree loads that tree. *)
LEMMA WholeTreesLoad ==
  ASSUME NEW m, NEW gen, NEW slot, NEW tree, Whole(tree), Holds(slot, tree), Records(m, gen, slot, tree)
  PROVE  Loads(disk.super[m], disk) /\ LoadedTree(disk.super[m], disk) = tree
<1>1. tree \in Tree
  BY DEF Whole
<1>2. LoadedTree(disk.super[m], disk) = tree
  <2>1. /\ SubSeq(disk.inode[slot].files, 1, Len(tree.inodes)) = tree.inodes
        /\ SubSeq(disk.dirent[slot], 1, Len(tree.dirents)) = tree.dirents
    BY <1>1, ImageFields, SubSeqWhole DEF Holds
  <2> QED
    BY <1>1, <2>1, ImageFields DEF LoadedTree, Records
<1>3. /\ disk.inode[disk.super[m].active] # Torn /\ disk.dirent[disk.super[m].active] # Torn
      /\ disk.inode[disk.super[m].active].files = tree.inodes
      /\ disk.inode[disk.super[m].active].entries = Len(tree.dirents)
      /\ disk.dirent[disk.super[m].active] = tree.dirents
  BY <1>1, ImageFields DEF Holds, Records
<1>4. disk.super[m].inodes <= Len(tree.inodes) /\ disk.super[m].dirents <= Len(tree.dirents)
  BY <1>1, ImageFields, SMT, Z3T(40) DEF Records
<1> QED
  BY <1>2, <1>3, <1>4 DEF Loads, Whole

(* The mirrors are tried from the newest on. *)
LEMMA CandidateOrder ==
  ASSUME NEW p, NEW s, p = disk.super["primary"], s = disk.super["secondary"]
  PROVE  /\ p = Torn /\ s # Torn => Candidates(disk) = <<s>>
         /\ p # Torn /\ s = Torn => Candidates(disk) = <<p>>
         /\ p # Torn /\ s # Torn /\ s.gen > p.gen => Candidates(disk) = <<s, p>>
         /\ p # Torn /\ s # Torn /\ ~(s.gen > p.gen) => Candidates(disk) = <<p, s>>
<1>1. CASE p = Torn
  BY <1>1 DEF Candidates
<1>2. CASE p # Torn /\ s = Torn
  BY <1>2 DEF Candidates
<1>3. CASE p # Torn /\ s # Torn
  BY <1>3 DEF Candidates
<1> QED
  BY <1>1, <1>2, <1>3

LEMMA FirstLoads ==
  ASSUME NEW x, NEW y, Candidates(disk) = <<x>> \/ Candidates(disk) = <<x, y>>, Loads(x, disk)
  PROVE  /\ Candidates(disk) # <<>> /\ Newest = x
         /\ Loadable(disk) # {} /\ FirstLoadable(disk) = x
<1>1. /\ Candidates(disk) # <<>> /\ Head(Candidates(disk)) = x /\ Candidates(disk)[1] = x
      /\ 1 \in DOMAIN Candidates(disk) /\ DOMAIN Candidates(disk) \subseteq {1, 2}
  BY SMT, Z3T(40)
<1>2. 1 \in Loadable(disk) /\ Loadable(disk) \subseteq {1, 2}
  BY <1>1 DEF Loadable
<1>3. Min(Loadable(disk)) = 1
  <2> DEFINE S == Loadable(disk)
  <2>1. 1 \in S /\ S \subseteq {1, 2}
    BY <1>2
  <2> HIDE DEF S
  <2>2. 1 \in S /\ \A w \in S : 1 =< w
    BY <2>1, SMT, Z3T(40)
  <2>3. PICK c : c = Min(S)
    OBVIOUS
  <2>4. c \in S /\ \A w \in S : c =< w
    BY <2>2, <2>3 DEF Min
  <2>5. c = 1
    BY <2>1, <2>4, SMT, Z3T(40)
  <2> QED
    BY <2>3, <2>5 DEF S
<1> QED
  BY <1>1, <1>2, <1>3 DEF Newest, FirstLoadable

LEMMA NamedMounts ==
  ASSUME NEW gen \in Nat, NEW slot, NEW tree, Whole(tree), Holds(slot, tree), Named(gen, slot, tree)
  PROVE  /\ Mountable /\ Recovered.tree = tree /\ Newest.active = slot
         /\ Loadable(disk) # {} /\ LoadedTree(FirstLoadable(disk), disk) = tree
         /\ FirstLoadable(disk).active = slot /\ FirstLoadable(disk).gen = gen
<1> DEFINE p == disk.super["primary"]
           s == disk.super["secondary"]
<1>1. ASSUME NEW m, NEW y, Records(m, gen, slot, tree),
             Candidates(disk) = <<disk.super[m]>> \/ Candidates(disk) = <<disk.super[m], y>>
      PROVE  /\ Mountable /\ Recovered.tree = tree /\ Newest.active = slot
             /\ Loadable(disk) # {} /\ LoadedTree(FirstLoadable(disk), disk) = tree
             /\ FirstLoadable(disk).active = slot /\ FirstLoadable(disk).gen = gen
  <2>1. Loads(disk.super[m], disk) /\ LoadedTree(disk.super[m], disk) = tree
    BY <1>1, WholeTreesLoad
  <2>2. /\ Candidates(disk) # <<>> /\ Newest = disk.super[m]
        /\ Loadable(disk) # {} /\ FirstLoadable(disk) = disk.super[m]
    BY <1>1, <2>1, FirstLoads
  <2> QED
    BY <1>1, <2>1, <2>2 DEF Mountable, Recovered, Records
<1>2. CASE Records("primary", gen, slot, tree) /\ s = Torn
  BY <1>1, <1>2, CandidateOrder DEF Records
<1>3. CASE Records("primary", gen, slot, tree) /\ Records("secondary", gen, slot, tree)
  <2>1. p # Torn /\ s # Torn /\ ~(s.gen > p.gen)
    BY <1>3, SMT, Z3T(40) DEF Records
  <2>2. Candidates(disk) = <<p, s>>
    BY <2>1, CandidateOrder
  <2> QED
    BY <1>1, <1>3, <2>2
<1>4. CASE Records("secondary", gen, slot, tree) /\ p = Torn
  BY <1>1, <1>4, CandidateOrder DEF Records
<1>5. CASE Records("secondary", gen, slot, tree) /\ p # Torn /\ p.gen < gen
  <2>1. p # Torn /\ s # Torn /\ p.gen < s.gen
    BY <1>5 DEF Records
  <2>2. s.gen > p.gen
    BY <2>1, SMT, Z3T(40)
  <2>3. Candidates(disk) = <<s, p>>
    BY <2>1, <2>2, CandidateOrder
  <2> QED
    BY <1>1, <1>5, <2>3
<1> QED
  BY <1>2, <1>3, <1>4, <1>5 DEF Named, Before

-----------------------------------------------------------------------------
(* The writes of a flush. *)

LEMMA Roles ==
  /\ MirrorNames = {"primary", "secondary"} /\ Tables = {"inode", "dirent"}
  /\ "primary" # "secondary" /\ "inode" # "dirent" /\ "super" \notin Tables /\ "data" \notin Tables
BY DEF MirrorNames, Tables

LEMMA WriteFields ==
  ASSUME MemShape, CommitShape, mem.gen \in Nat
  PROVE  /\ \A m : /\ PendingWrite(m).kind = "super" /\ PendingWrite(m).where = m
                   /\ PendingWrite(m).value = Pending
                   /\ PublishWrite(m).kind = "super" /\ PublishWrite(m).where = m
                   /\ PublishWrite(m).value = Published
         /\ \A k : /\ ShadowWrite(k).kind = k /\ ShadowWrite(k).where = Shadow
                   /\ ShadowWrite(k).value = Image(k)
         /\ Pending \in Superblock /\ Published \in Superblock /\ Pending # Torn /\ Published # Torn
         /\ Pending.pending = mem.gen + 1 /\ Published.pending = 0
         /\ Pending.gen = mem.gen /\ Published.gen = mem.gen + 1
         /\ Pending.active = mem.active /\ Published.active = Shadow
         /\ Pending.inodes = Len(commit.undo.tree.inodes) /\ Pending.dirents = Len(commit.undo.tree.dirents)
         /\ Published.inodes = Len(mem.tree.inodes) /\ Published.dirents = Len(mem.tree.dirents)
<1>1. \A m : /\ PendingWrite(m).kind = "super" /\ PendingWrite(m).where = m
             /\ PendingWrite(m).value = Pending
             /\ PublishWrite(m).kind = "super" /\ PublishWrite(m).where = m
             /\ PublishWrite(m).value = Published
  BY DEF PendingWrite, PublishWrite, At
<1>2. \A k : /\ ShadowWrite(k).kind = k /\ ShadowWrite(k).where = Shadow
             /\ ShadowWrite(k).value = Image(k)
  BY DEF ShadowWrite, At
<1>3. Pending = [gen |-> mem.gen, active |-> mem.active, pending |-> mem.gen + 1,
                 inodes |-> Len(commit.undo.tree.inodes), dirents |-> Len(commit.undo.tree.dirents)]
  BY DEF Pending
<1>4. Published = [gen |-> mem.gen + 1, active |-> Shadow, pending |-> 0,
                   inodes |-> Len(mem.tree.inodes), dirents |-> Len(mem.tree.dirents)]
  BY DEF Published, Super, Swapped, MemShape, Shadow
<1>5. mem.gen + 1 \in Nat /\ 0 \in Nat
  BY SMT, Z3T(40)
<1>6. mem.active \in Slots /\ Shadow \in Slots
  BY SlotFacts DEF MemShape, Shadow
<1>7. /\ Len(commit.undo.tree.inodes) \in Nat /\ Len(commit.undo.tree.dirents) \in Nat
      /\ Len(mem.tree.inodes) \in Nat /\ Len(mem.tree.dirents) \in Nat
  BY ImageFields DEF MemShape, CommitShape
<1>8. Pending \in Superblock /\ Published \in Superblock
  BY <1>3, <1>4, <1>5, <1>6, <1>7 DEF Superblock
<1>9. Pending # Torn /\ Published # Torn
  BY <1>8, TornAssumption
<1>10. /\ Pending.pending = mem.gen + 1 /\ Pending.gen = mem.gen /\ Pending.active = mem.active
       /\ Pending.inodes = Len(commit.undo.tree.inodes) /\ Pending.dirents = Len(commit.undo.tree.dirents)
  BY <1>3
<1>11. /\ Published.pending = 0 /\ Published.gen = mem.gen + 1 /\ Published.active = Shadow
       /\ Published.inodes = Len(mem.tree.inodes) /\ Published.dirents = Len(mem.tree.dirents)
  BY <1>4
<1> QED
  BY <1>1, <1>2, <1>8, <1>9, <1>10, <1>11

LEMMA Ranks ==
  ASSUME MemShape, CommitShape, mem.gen \in Nat
  PROVE  /\ Rank(PendingWrite("secondary")) = 1 /\ Rank(PendingWrite("primary")) = 2
         /\ Rank(ShadowWrite("inode")) = 3 /\ Rank(ShadowWrite("dirent")) = 4
         /\ Rank(PublishWrite("secondary")) = 5 /\ Rank(PublishWrite("primary")) = 6
         /\ \A x \in PlannedWrites :
               x \in {PendingWrite("secondary"), PendingWrite("primary"), ShadowWrite("inode"),
                      ShadowWrite("dirent"), PublishWrite("secondary"), PublishWrite("primary")}
<1>1. Pending.pending # 0 /\ Published.pending = 0
  BY WriteFields, SMT, Z3T(40)
<1>2. ASSUME NEW x, x.kind = "super"
      PROVE  /\ x.value.pending # 0 /\ x.where = "secondary" => Rank(x) = 1
             /\ x.value.pending # 0 /\ x.where = "primary" => Rank(x) = 2
             /\ x.value.pending = 0 /\ x.where = "secondary" => Rank(x) = 5
             /\ x.value.pending = 0 /\ x.where = "primary" => Rank(x) = 6
  BY <1>2, SMT, Z3T(40) DEF Rank
<1>3. Rank(PendingWrite("secondary")) = 1 /\ Rank(PendingWrite("primary")) = 2
  <2>1. \A m : PendingWrite(m).value.pending # 0
    BY <1>1, WriteFields
  <2>2. \A m : PendingWrite(m).kind = "super" /\ PendingWrite(m).where = m
    BY WriteFields
  <2>3. Rank(PendingWrite("secondary")) = 1
    BY <1>2, <2>1, <2>2
  <2>4. Rank(PendingWrite("primary")) = 2
    BY <1>2, <2>1, <2>2
  <2> QED
    BY <2>3, <2>4
<1>4. Rank(PublishWrite("secondary")) = 5 /\ Rank(PublishWrite("primary")) = 6
  <2>1. \A m : PublishWrite(m).value.pending = 0
    BY <1>1, WriteFields
  <2>2. \A m : PublishWrite(m).kind = "super" /\ PublishWrite(m).where = m
    BY WriteFields
  <2>3. Rank(PublishWrite("secondary")) = 5
    BY <1>2, <2>1, <2>2
  <2>4. Rank(PublishWrite("primary")) = 6
    BY <1>2, <2>1, <2>2
  <2> QED
    BY <2>3, <2>4
<1>5. Rank(ShadowWrite("inode")) = 3 /\ Rank(ShadowWrite("dirent")) = 4
  <2>1. \A x : (x.kind = "inode" => Rank(x) = 3) /\ (x.kind = "dirent" => Rank(x) = 4)
    BY SMT, Z3T(40) DEF Rank
  <2> QED
    BY <2>1, WriteFields
<1>6. \A x \in PlannedWrites :
         x \in {PendingWrite("secondary"), PendingWrite("primary"), ShadowWrite("inode"),
                ShadowWrite("dirent"), PublishWrite("secondary"), PublishWrite("primary")}
  BY DEF PlannedWrites, MirrorNames, Tables
<1> QED
  BY <1>3, <1>4, <1>5, <1>6

(* One write is done; the others come after it. *)
LEMMA NextWrite ==
  ASSUME NEW P, NEW writes \in Seq(P), writes # <<>>, InOrder(writes), \A x \in P : Rank(x) \in Nat
  PROVE  /\ Head(writes) \in P /\ Tail(writes) \in Seq(P) /\ InOrder(Tail(writes))
         /\ Elements(writes) = {Head(writes)} \cup Elements(Tail(writes))
         /\ \A y \in Elements(Tail(writes)) : y \in P /\ Rank(Head(writes)) < Rank(y) /\ y # Head(writes)
<1>1. /\ Len(writes) \in Nat /\ Len(writes) >= 1 /\ Head(writes) = writes[1] /\ writes[1] \in P
      /\ Tail(writes) \in Seq(P) /\ Len(Tail(writes)) = Len(writes) - 1
      /\ \A i \in 1 .. Len(writes) - 1 : i + 1 \in 1 .. Len(writes) /\ Tail(writes)[i] = writes[i + 1]
  BY TailFacts
<1>2. InOrder(Tail(writes))
  BY <1>1, SMT, Z3T(40) DEF InOrder
<1>3. Elements(writes) = {Head(writes)} \cup Elements(Tail(writes))
  <2>1. 1 \in 1 .. Len(writes)
    BY <1>1, SMT, Z3T(40)
  <2>2. \A i \in 1 .. Len(writes) : i = 1 \/ (i - 1 \in 1 .. Len(writes) - 1 /\ writes[i] = Tail(writes)[i - 1])
    BY <1>1, SMT, Z3T(40)
  <2>3. Elements(writes) \subseteq {Head(writes)} \cup Elements(Tail(writes))
    <3>1. ASSUME NEW i \in 1 .. Len(writes)
          PROVE  writes[i] \in {Head(writes)} \cup {Tail(writes)[j] : j \in 1 .. Len(writes) - 1}
      BY <1>1, <2>2
    <3> QED
      BY <1>1, <3>1 DEF Elements
  <2>4. Head(writes) \in Elements(writes)
    BY <1>1, <2>1 DEF Elements
  <2>5. Elements(Tail(writes)) \subseteq Elements(writes)
    <3>1. ASSUME NEW i \in 1 .. Len(writes) - 1
          PROVE  Tail(writes)[i] \in Elements(writes)
      BY <1>1 DEF Elements
    <3> QED
      BY <1>1, <3>1 DEF Elements
  <2> QED
    BY <2>3, <2>4, <2>5
<1>4. ASSUME NEW y \in Elements(Tail(writes))
      PROVE  y \in P /\ Rank(Head(writes)) < Rank(y) /\ y # Head(writes)
  <2>1. PICK i \in 1 .. Len(writes) - 1 : y = Tail(writes)[i]
    BY <1>1, <1>4 DEF Elements
  <2>2. i + 1 \in 1 .. Len(writes) /\ y = writes[i + 1] /\ 1 \in 1 .. Len(writes) /\ 1 < i + 1
    BY <1>1, <2>1, SMT, Z3T(40)
  <2>3. Rank(Head(writes)) < Rank(y)
    BY <1>1, <2>2 DEF InOrder
  <2>4. y \in P
    BY <1>1, <2>1, SMT, Z3T(40)
  <2>5. ~(Rank(y) < Rank(y))
    BY <2>4, SMT, Z3T(40)
  <2> QED
    BY <2>3, <2>4, <2>5
<1> QED
  BY <1>1, <1>2, <1>3, <1>4

-----------------------------------------------------------------------------
(* What a crash would leave. *)

LEMMA InvParts ==
  ASSUME Shape, CommitInv, Running
  PROVE  /\ DiskShape /\ MemShape /\ CommitShape /\ RestShape /\ mem.gen \in Nat
         /\ mem.active \in Slots /\ Shadow \in Slots /\ Shadow # mem.active /\ mem.tree \in Tree
         /\ commit.stage = "flush" => Flushing
<1>1. /\ DiskShape /\ MemShape /\ CommitShape /\ RestShape /\ mem.gen \in Nat
      /\ commit.stage = "flush" => Flushing
  BY DEF Shape, CommitInv
<1>2. mem.active \in Slots /\ mem.tree \in Tree
  BY <1>1 DEF MemShape
<1> QED
  BY <1>1, <1>2, SlotFacts DEF Shadow

(* Once the new superblock is being published the shadow slot is complete. *)
LEMMA ShadowComplete ==
  ASSUME MemShape, CommitShape, mem.gen \in Nat, Flushing, PublishWrite("secondary") \notin ToCome
  PROVE  Holds(Shadow, mem.tree) /\ Whole(mem.tree) /\ Coherent(Shadow)
<1>1. \A kind \in Tables : Rank(ShadowWrite(kind)) < 5
  <2>1. Rank(ShadowWrite("inode")) < 5 /\ Rank(ShadowWrite("dirent")) < 5
    BY Ranks, SMT, Z3T(40)
  <2> QED
    BY <2>1 DEF Tables
<1>2. \A kind \in Tables : disk[kind][Shadow] = Image(kind) /\ cache[kind][Shadow] \subseteq {Image(kind)}
  BY <1>1 DEF Flushing, Landed
<1>3. disk.inode[Shadow] = InodeImage(mem.tree) /\ disk.dirent[Shadow] = mem.tree.dirents
  BY <1>2 DEF Tables, Image
<1> QED
  BY <1>2, <1>3 DEF Holds, Whole, Flushing, MemShape, Coherent

LEMMA PublishedRecords ==
  ASSUME MemShape, CommitShape, mem.gen \in Nat, NEW m, disk.super[m] = Published
  PROVE  Records(m, mem.gen + 1, Shadow, mem.tree)
BY WriteFields DEF Records

LEMMA OldPrimary ==
  ASSUME DiskShape, mem.gen \in Nat, PrimaryOld
  PROVE  Before("primary", mem.gen + 1)
<1>1. CASE disk.super["primary"] = Torn
  BY <1>1 DEF Before
<1>2. CASE disk.super["primary"] # Torn
  <2>1. disk.super["primary"].gen \in Nat
    BY <1>2 DEF DiskShape, MirrorNames, Superblock
  <2>2. disk.super["primary"].gen < mem.gen \/ disk.super["primary"].gen = mem.gen
    BY <1>2 DEF PrimaryOld, Before, Current, Records
  <2> QED
    BY <2>1, <2>2, SMT, Z3T(40) DEF Before
<1> QED
  BY <1>1, <1>2

LEMMA MountedNamed ==
  ASSUME Shape, CommitInv, Running, Mounted
  PROVE  \E gen \in Nat, slot \in Slots, tree \in Trees :
            Whole(tree) /\ Holds(slot, tree) /\ Named(gen, slot, tree)
<1>1. /\ DiskShape /\ MemShape /\ CommitShape /\ mem.gen \in Nat /\ mem.active \in Slots /\ Shadow \in Slots
      /\ commit.stage = "flush" => Flushing
  BY InvParts
<1>2. /\ mem.gen + 1 \in Nat /\ acked.tree \in Trees /\ mem.tree \in Trees
      /\ Whole(acked.tree) /\ Holds(mem.active, acked.tree)
  <2>1. mem.gen + 1 \in Nat
    BY <1>1, SMT, Z3T(40)
  <2> QED
    BY <2>1 DEF Mounted, Trees
<1>3. CASE commit.stage = "flush" /\ PublishWrite("secondary") \notin ToCome
  <2>1. Publishing
    BY <1>3 DEF Mounted
  <2>2. Holds(Shadow, mem.tree) /\ Whole(mem.tree)
    BY <1>1, <1>3, ShadowComplete
  <2>3. Records("secondary", mem.gen + 1, Shadow, mem.tree)
    BY <1>1, <2>1, PublishedRecords DEF Publishing
  <2>4. Named(mem.gen + 1, Shadow, mem.tree)
    <3>1. CASE PrimaryOld
      BY <1>1, <2>3, <3>1, OldPrimary DEF Named
    <3>2. CASE disk.super["primary"] = Published
      BY <1>1, <2>3, <3>2, PublishedRecords DEF Named
    <3> QED
      BY <2>1, <3>1, <3>2 DEF Publishing
  <2> QED
    BY <1>1, <1>2, <2>2, <2>4
<1>4. CASE ~(commit.stage = "flush" /\ PublishWrite("secondary") \notin ToCome)
  <2>1. Unpublished
    BY <1>4 DEF Mounted
  <2>2. CASE Current("secondary") \/ (Current("primary") /\ disk.super["secondary"] = Torn)
    <3>1. Named(mem.gen, mem.active, acked.tree)
      BY <2>1, <2>2 DEF Unpublished, PrimaryOld, Current, Named
    <3> QED
      BY <1>1, <1>2, <3>1
  <2>3. CASE Ahead
    <3>1. PICK tree \in Trees : /\ Whole(tree) /\ Holds(Shadow, tree)
                                /\ Records("secondary", mem.gen + 1, Shadow, tree)
      BY <2>3 DEF Ahead
    <3>2. Named(mem.gen + 1, Shadow, tree)
      BY <1>1, <2>1, <3>1, OldPrimary DEF Unpublished, Named
    <3> QED
      BY <1>1, <1>2, <3>1, <3>2
  <2> QED
    BY <2>1, <2>2, <2>3 DEF Unpublished
<1> QED
  BY <1>3, <1>4

LEMMA StateNamed ==
  ASSUME FsInv, Guarded
  PROVE  \E gen \in Nat, slot \in Slots, tree \in Trees :
            Whole(tree) /\ Holds(slot, tree) /\ Named(gen, slot, tree)
<1>1. CASE Running
  BY <1>1, MountedNamed DEF FsInv, RecoveryInv
<1>2. CASE ~Running
  BY <1>2 DEF FsInv, RecoveryInv, Off
<1> QED
  BY <1>1, <1>2

LEMMA InvIsAtomic ==
  ASSUME FsInv
  PROVE  CrashAtomic
<1> SUFFICES ASSUME Guarded
             PROVE  Mountable /\ Recovered.tree \in Trees
  BY DEF CrashAtomic, Trees
<1> QED
  BY StateNamed, NamedMounts

-----------------------------------------------------------------------------
(* The state in memory, the commit and the check as records. *)

LEMMA MemChanged ==
  ASSUME MemShape, NEW t, NEW f, NEW s, NEW m, m = [mem EXCEPT !.tree = t, !.free = f, !.slots = s]
  PROVE  m = [tree |-> t, free |-> f, slots |-> s, active |-> mem.active, gen |-> mem.gen, sync |-> mem.sync]
<1>1. PICK m1 : m1 = [mem EXCEPT !.tree = t]
  OBVIOUS
<1>2. m1 = [tree |-> t, free |-> mem.free, slots |-> mem.slots,
            active |-> mem.active, gen |-> mem.gen, sync |-> mem.sync]
  BY <1>1 DEF MemShape
<1>3. PICK m2 : m2 = [m1 EXCEPT !.free = f]
  OBVIOUS
<1>4. m2 = [tree |-> t, free |-> f, slots |-> mem.slots,
            active |-> mem.active, gen |-> mem.gen, sync |-> mem.sync]
  BY <1>2, <1>3
<1>5. m = [m2 EXCEPT !.slots = s]
  BY <1>1, <1>3
<1> QED
  BY <1>4, <1>5

LEMMA MemSwapped ==
  ASSUME MemShape
  PROVE  Swapped = [tree |-> mem.tree, free |-> mem.free, slots |-> mem.slots,
                    active |-> Shadow, gen |-> mem.gen + 1, sync |-> FALSE]
<1>1. PICK m1 : m1 = [mem EXCEPT !.active = Other(@)]
  OBVIOUS
<1>2. m1 = [tree |-> mem.tree, free |-> mem.free, slots |-> mem.slots,
            active |-> Shadow, gen |-> mem.gen, sync |-> mem.sync]
  BY <1>1 DEF MemShape, Shadow
<1>3. PICK m2 : m2 = [m1 EXCEPT !.gen = @ + 1]
  OBVIOUS
<1>4. m2 = [tree |-> mem.tree, free |-> mem.free, slots |-> mem.slots,
            active |-> Shadow, gen |-> mem.gen + 1, sync |-> mem.sync]
  BY <1>2, <1>3
<1>5. Swapped = [m2 EXCEPT !.sync = FALSE]
  BY <1>1, <1>3 DEF Swapped
<1> QED
  BY <1>4, <1>5

LEMMA MemRebuilt ==
  ASSUME MemShape
  PROVE  Rebuilt = [tree |-> mem.tree, free |-> RebuiltExtents(mem.tree.inodes, machine.blocks),
                    slots |-> mem.slots, active |-> mem.active, gen |-> mem.gen, sync |-> mem.sync]
<1>1. PICK f : f = RebuiltExtents(mem.tree.inodes, machine.blocks)
  OBVIOUS
<1>2. PICK m : m = [mem EXCEPT !.free = f]
  OBVIOUS
<1>3. m = [tree |-> mem.tree, free |-> f, slots |-> mem.slots,
           active |-> mem.active, gen |-> mem.gen, sync |-> mem.sync]
  BY <1>2 DEF MemShape
<1>4. Rebuilt = m
  BY <1>1, <1>2 DEF Rebuilt
<1> QED
  BY <1>1, <1>3, <1>4

LEMMA MemRolledBack ==
  ASSUME MemShape
  PROVE  RolledBack = [tree |-> commit.undo.tree, free |-> commit.undo.free, slots |-> commit.undo.slots,
                       active |-> mem.active, gen |-> mem.gen, sync |-> mem.sync]
<1>1. PICK m : m = RolledBack
  OBVIOUS
<1>2. m = [tree |-> commit.undo.tree, free |-> commit.undo.free, slots |-> commit.undo.slots,
           active |-> mem.active, gen |-> mem.gen, sync |-> mem.sync]
  BY <1>1, MemChanged DEF RolledBack
<1> QED
  BY <1>1, <1>2

LEMMA MemAfterFailure ==
  ASSUME MemShape, NEW b, b = (mem.sync \/ commit.stage = "flush")
  PROVE  AfterFailure = [tree |-> commit.undo.tree, free |-> commit.undo.free, slots |-> commit.undo.slots,
                         active |-> mem.active, gen |-> mem.gen, sync |-> b]
<1>1. PICK m : m = RolledBack
  OBVIOUS
<1>2. m = [tree |-> commit.undo.tree, free |-> commit.undo.free, slots |-> commit.undo.slots,
           active |-> mem.active, gen |-> mem.gen, sync |-> mem.sync]
  BY <1>1, MemRolledBack
<1>3. AfterFailure = [m EXCEPT !.sync = m.sync \/ commit.stage = "flush"]
  BY <1>1 DEF AfterFailure
<1>4. m.sync = mem.sync
  BY <1>2
<1> QED
  BY <1>2, <1>3, <1>4

LEMMA CommitFlushed ==
  ASSUME CommitShape, NEW v, NEW c, c = [commit EXCEPT !.stage = "flush", !.writes = v]
  PROVE  c = [kind |-> commit.kind, stage |-> "flush", writes |-> v, undo |-> commit.undo, view |-> commit.view]
<1>1. PICK c1 : c1 = [commit EXCEPT !.stage = "flush"]
  OBVIOUS
<1>2. c1 = [kind |-> commit.kind, stage |-> "flush", writes |-> commit.writes,
            undo |-> commit.undo, view |-> commit.view]
  BY <1>1 DEF CommitShape
<1>3. c = [c1 EXCEPT !.writes = v]
  BY <1>1
<1> QED
  BY <1>2, <1>3

LEMMA CommitAdvanced ==
  ASSUME CommitShape, NEW c, c = [commit EXCEPT !.writes = Tail(@)]
  PROVE  c = [kind |-> commit.kind, stage |-> commit.stage, writes |-> Tail(commit.writes),
              undo |-> commit.undo, view |-> commit.view]
BY DEF CommitShape

LEMMA NoCommitShape ==
  /\ NoCommit.kind = "none" /\ NoCommit.stage = "none" /\ NoCommit.writes = <<>>
  /\ NoCommit = [kind |-> NoCommit.kind, stage |-> NoCommit.stage, writes |-> NoCommit.writes,
                 undo |-> NoCommit.undo, view |-> NoCommit.view]
  /\ NoCommit.undo = [tree |-> NoCommit.undo.tree, free |-> NoCommit.undo.free, slots |-> NoCommit.undo.slots]
  /\ NoCommit.undo.tree \in Tree /\ FreeShape(NoCommit.undo.free) /\ NoCommit.undo.slots \in Seq(Nat)
<1>1. \A S : <<>> \in Seq(S)
  BY SMT, Z3T(40)
<1>2. DOMAIN <<>> \subseteq Nat
  BY SMT, Z3T(40)
<1>3. EmptyTree \in Tree
  BY <1>1 DEF EmptyTree, Tree
<1>4. /\ NoCommit.undo = [tree |-> EmptyTree, free |-> <<>>, slots |-> <<>>]
      /\ NoCommit.kind = "none" /\ NoCommit.stage = "none" /\ NoCommit.writes = <<>>
  BY DEF NoCommit
<1>5. NoCommit.undo.tree = EmptyTree /\ NoCommit.undo.free = <<>> /\ NoCommit.undo.slots = <<>>
  <2>1. PICK u : u = [tree |-> EmptyTree, free |-> <<>>, slots |-> <<>>]
    OBVIOUS
  <2>2. u.tree = EmptyTree /\ u.free = <<>> /\ u.slots = <<>>
    BY <2>1
  <2> QED
    BY <1>4, <2>1, <2>2
<1>6. NoCommit = [kind |-> NoCommit.kind, stage |-> NoCommit.stage, writes |-> NoCommit.writes,
                  undo |-> NoCommit.undo, view |-> NoCommit.view]
  BY DEF NoCommit
<1> QED
  BY <1>1, <1>2, <1>3, <1>4, <1>5, <1>6 DEF FreeShape

LEMMA NoCheckFields ==
  /\ NoCheck = [stage |-> NoCheck.stage, orphans |-> NoCheck.orphans, clean |-> NoCheck.clean,
                round |-> NoCheck.round, failed |-> NoCheck.failed]
  /\ NoCheck.stage = "idle" /\ NoCheck.round = 0 /\ NoCheck.failed = FALSE
BY DEF NoCheck

-----------------------------------------------------------------------------
(* Steps that leave the tables and the mirrors alone. *)

LEMMA SameMirrors ==
  ASSUME disk'.super = disk.super, disk'.inode = disk.inode, disk'.dirent = disk.dirent,
         mem'.active = mem.active, mem'.gen = mem.gen, acked'.tree = acked.tree, Trees \subseteq Trees'
  PROVE  /\ \A m : Current(m)' <=> Current(m)
         /\ PrimaryOld' <=> PrimaryOld
         /\ Ahead => Ahead'
         /\ \A slot, tree : Holds(slot, tree)' <=> Holds(slot, tree)
         /\ Shadow' = Shadow
<1>1. \A m, gen, slot, tree : Records(m, gen, slot, tree)' <=> Records(m, gen, slot, tree)
  BY DEF Records
<1>2. \A slot, tree : Holds(slot, tree)' <=> Holds(slot, tree)
  BY DEF Holds
<1>3. \A m : Current(m)' <=> Current(m)
  BY DEF Current, Records
<1>4. PrimaryOld' <=> PrimaryOld
  BY <1>3 DEF PrimaryOld, Before
<1>5. Shadow' = Shadow
  BY DEF Shadow
<1>6. Ahead => Ahead'
  <2>1. SUFFICES ASSUME NEW tree \in Trees, Whole(tree), Holds(Shadow, tree),
                        Records("secondary", mem.gen + 1, Shadow, tree)
                 PROVE  Ahead'
    BY DEF Ahead
  <2>2. tree \in Trees' /\ Holds(Shadow, tree)' /\ Records("secondary", mem.gen + 1, Shadow, tree)'
    BY <1>1, <1>2, <1>5, <2>1 DEF Holds, Records
  <2>3. Whole(tree)'
    BY <2>1 DEF Whole
  <2> QED
    BY <1>5, <2>2, <2>3 DEF Ahead, Holds, Records
<1> QED
  BY <1>2, <1>3, <1>4, <1>5, <1>6

LEMMA SameCache ==
  ASSUME UNCHANGED cache, disk'.inode = disk.inode, disk'.dirent = disk.dirent
  PROVE  \A slot : Coherent(slot) => Coherent(slot)'
<1>1. SUFFICES ASSUME NEW slot, Coherent(slot), NEW kind \in Tables
               PROVE  cache'[kind][slot] \subseteq {disk'[kind][slot]}
  BY DEF Coherent
<1>2. CASE kind = "inode"
  BY <1>1, <1>2 DEF Coherent
<1>3. CASE kind = "dirent"
  BY <1>1, <1>3 DEF Coherent
<1> QED
  BY <1>1, <1>2, <1>3 DEF Tables

(* An operation begins. *)
LEMMA BeginKeeps ==
  ASSUME FsInv, Idle, NEW tree \in Tree, NEW free, FreeShape(free), NEW slots \in Seq(Nat),
         NEW writes, DataWrites(writes), NEW view,
         Begin(tree, free, slots, writes, view),
         snap' \in [Writers -> [inode : Nat, block : Nat, empty : BOOLEAN]]
  PROVE  FsInv'
<1>1. /\ Shape /\ CommitInv /\ RecoveryInv /\ RepairInv
      /\ DiskShape /\ MemShape /\ CommitShape /\ RestShape
  BY DEF FsInv, Shape
<1>2. phase = "ready" /\ Running /\ commit.kind = "none" /\ commit.stage = "none"
  BY <1>1 DEF Idle, CommitShape, Running
<1>3. /\ UNCHANGED <<machine, phase, disk, cache, check, acked, crashes, errors>>
      /\ mem' = [tree |-> tree, free |-> free, slots |-> slots,
                 active |-> mem.active, gen |-> mem.gen, sync |-> mem.sync]
      /\ commit' = [kind |-> "op", stage |-> "mutate", writes |-> writes, undo |-> Undo, view |-> view]
      /\ attempts' = attempts \cup {[tree |-> tree, view |-> view]}
  BY <1>1, MemChanged DEF Begin
<1>4. /\ mem'.tree = tree /\ mem'.free = free /\ mem'.slots = slots
      /\ mem'.active = mem.active /\ mem'.gen = mem.gen /\ mem'.sync = mem.sync
  BY <1>3
<1>5. /\ commit'.kind = "op" /\ commit'.stage = "mutate" /\ commit'.writes = writes
      /\ commit'.undo = Undo /\ Undo.tree = mem.tree /\ Undo.free = mem.free /\ Undo.slots = mem.slots
  BY <1>3 DEF Undo
<1>6. Shape'
  <2>1. DiskShape'
    BY <1>1, <1>3 DEF DiskShape
  <2>2. MemShape'
    BY <1>1, <1>3, <1>4 DEF MemShape, FreeShape
  <2>3. CommitShape'
    <3>1. commit' = [kind |-> commit'.kind, stage |-> commit'.stage, writes |-> commit'.writes,
                     undo |-> commit'.undo, view |-> commit'.view]
      BY <1>3
    <3>2. commit'.undo = [tree |-> commit'.undo.tree, free |-> commit'.undo.free, slots |-> commit'.undo.slots]
      BY <1>5 DEF Undo
    <3>3. commit'.undo.tree \in Tree /\ FreeShape(commit'.undo.free) /\ commit'.undo.slots \in Seq(Nat)
      BY <1>1, <1>5 DEF MemShape
    <3> QED
      BY <1>5, <3>1, <3>2, <3>3 DEF CommitShape, FreeShape
  <2>4. RestShape'
    <3>1. \A x \in attempts' : x.tree \in Tree
      <4>1. PICK a : a = [tree |-> tree, view |-> view]
        OBVIOUS
      <4>2. a.tree = tree /\ attempts' = attempts \cup {a}
        BY <1>3, <4>1
      <4> QED
        BY <1>1, <4>2 DEF RestShape
    <3> QED
      BY <1>1, <1>3, <3>1 DEF RestShape
  <2> QED
    BY <2>1, <2>2, <2>3, <2>4 DEF Shape
<1>7. CommitInv'
  <2>1. Running' /\ mem'.gen \in Nat
    BY <1>1, <1>2, <1>3, <1>4 DEF CommitInv, Running
  <2>2. check'.stage # "committing"
    BY <1>1, <1>2, <1>3 DEF CommitInv
  <2>3. Coherent(mem.active)' /\ (~mem.sync => Coherent(Shadow)')
    BY <1>1, <1>2, <1>3, <1>4, SameCache DEF CommitInv, Coherent, Shadow
  <2>4. Whole(BaseTree)'
    BY <1>1, <1>2, <1>5 DEF CommitInv, BaseTree, Whole
  <2> QED
    BY <1>4, <1>5, <2>1, <2>2, <2>3, <2>4 DEF CommitInv
<1>8. RecoveryInv'
  <2>1. SUFFICES ASSUME Guarded'
                 PROVE  Running' /\ phase' # "lost" /\ Mounted'
    BY DEF RecoveryInv
  <2>2. Guarded /\ Running' /\ phase' # "lost"
    BY <1>2, <1>3, <2>1 DEF Guarded, OneTear, Running
  <2>3. Mounted /\ Unpublished
    BY <1>1, <1>2, <2>2 DEF RecoveryInv, Mounted
  <2>4. Trees \subseteq Trees' /\ tree \in Trees' /\ acked'.tree = acked.tree
    <3>1. PICK a : a = [tree |-> tree, view |-> view]
      OBVIOUS
    <3>2. a.tree = tree /\ attempts' = attempts \cup {a} /\ acked' = acked
      BY <1>3, <3>1
    <3> QED
      BY <3>2 DEF Trees
  <2>5. /\ \A m : Current(m)' <=> Current(m)
        /\ PrimaryOld' <=> PrimaryOld
        /\ Ahead => Ahead'
        /\ Holds(mem.active, acked.tree) => Holds(mem.active, acked.tree)'
    BY <1>3, <1>4, <2>4, SameMirrors DEF Holds
  <2>6. Unpublished'
    BY <1>3, <1>5, <2>3, <2>5 DEF Unpublished, AheadAllowed, Unharmed
  <2>7. BaseTree' = acked.tree
    BY <1>2, <1>5, <2>3 DEF BaseTree, Mounted
  <2>8. Whole(acked.tree)' /\ Holds(mem.active, acked.tree)'
    BY <1>3, <2>3, <2>5 DEF Mounted, Whole
  <2> QED
    BY <1>4, <1>5, <2>2, <2>4, <2>6, <2>7, <2>8 DEF Mounted
<1>9. RepairInv'
  BY <1>1, <1>2, <1>3 DEF RepairInv, Calm
<1> QED
  BY <1>6, <1>7, <1>8, <1>9 DEF FsInv

-----------------------------------------------------------------------------
(* Trees and free maps. *)

LEMMA ExtentAdded ==
  ASSUME NEW a \in Nat, NEW v, NEW g, FreeShape(g)
  PROVE  FreeShape(With(g, a, v))
BY DEF FreeShape, With

LEMMA ExtentsRemoved ==
  ASSUME NEW g, FreeShape(g), NEW keys
  PROVE  FreeShape(Without(g, keys))
BY DEF FreeShape, Without, Restrict

LEMMA AllocatedShape ==
  ASSUME NEW free, FreeShape(free), NEW b \in Nat
  PROVE  FreeShape(MarkAllocated(free, b))
<1>1. b + 1 \in Nat /\ FreeShape(Without(free, {b}))
  <2>1. b + 1 \in Nat
    BY SMT, Z3T(40)
  <2> QED
    BY <2>1, ExtentsRemoved
<1> QED
  BY <1>1, ExtentAdded DEF MarkAllocated

LEMMA FreedShape ==
  ASSUME NEW free, FreeShape(free), NEW b \in Nat
  PROVE  FreeShape(MarkFree(free, b))
<1> DEFINE below == {k \in DOMAIN free : k < b}
           prev == {k \in below : k = Max(below) /\ k + free[k] = b}
           start == IF prev = {} THEN b ELSE Max(prev)
           rest == Without(free, prev)
           above == {k \in DOMAIN rest : k >= start}
           next == {k \in above : k = Min(above) /\ k = b + 1}
           end == IF next = {} THEN b + 1 ELSE b + 1 + rest[b + 1]
<1>1. prev \subseteq Nat /\ \A j, k \in prev : j = k
  BY DEF FreeShape
<1>2. start \in Nat
  <2>1. CASE prev # {}
    <3>1. PICK k \in prev : prev = {k}
      BY <1>1, <2>1
    <3> HIDE DEF prev
    <3>2. k \in Nat /\ k >= k
      BY <1>1, SMT, Z3T(40)
    <3>3. k \in prev /\ \A y \in prev : k >= y
      BY <3>1, <3>2
    <3>4. Max(prev) \in prev
      BY <3>3 DEF Max
    <3> QED
      BY <1>1, <2>1, <3>4
  <2> QED
    BY <2>1
<1>3. FreeShape(Without(rest, next))
  BY ExtentsRemoved
<1>4. MarkFree(free, b) = With(Without(rest, next), start, end - start)
  BY DEF MarkFree
<1> HIDE DEF start, rest, next, end
<1> QED
  BY <1>2, <1>3, <1>4, ExtentAdded

LEMMA BestFitShape ==
  ASSUME NEW free, FreeShape(free), NEW b \in BestFit(free)
  PROVE  b \in Nat
BY DEF BestFit, FreeShape

LEMMA RebuiltShape ==
  ASSUME NEW inodes, NEW n
  PROVE  FreeShape(RebuiltExtents(inodes, n))
<1>1. 1 .. n \subseteq Nat
  BY SMT, Z3T(40)
<1> QED
  BY <1>1 DEF FreeShape, RebuiltExtents

LEMMA ReplacedElement ==
  ASSUME NEW S, NEW s \in Seq(S), NEW k, NEW v, k \in DOMAIN s => v \in S
  PROVE  [s EXCEPT ![k] = v] \in Seq(S)
<1>1. CASE k \in DOMAIN s
  BY <1>1, SMT, Z3T(40)
<1>2. CASE k \notin DOMAIN s
  <2>1. [s EXCEPT ![k] = v] = s
    BY <1>2, SMT, Z3T(40)
  <2> QED
    BY <2>1
<1> QED
  BY <1>1, <1>2

LEMMA IdleTree ==
  ASSUME FsInv, Idle
  PROVE  /\ Whole(mem.tree) /\ FreeShape(mem.free) /\ mem.slots \in Seq(Nat)
         /\ snap \in [Writers -> [inode : Nat, block : Nat, empty : BOOLEAN]]
BY DEF FsInv, Idle, CommitInv, BaseTree, Running, Shape, MemShape, RestShape

(* An entry of the root names a live inode. *)
LEMMA EntryFacts ==
  ASSUME NEW tree, Whole(tree), NEW i \in DOMAIN tree.dirents
  PROVE  /\ tree.dirents[i].inode \in DOMAIN tree.inodes
         /\ tree.inodes[tree.dirents[i].inode] \in Inode
         /\ tree.dirents[i].inode \in Nat
<1>1. tree.dirents[i].inode \in DOMAIN tree.inodes
  BY DEF Whole, Valid, Live
<1>2. tree.inodes \in Seq(Inode) /\ tree.dirents \in Seq(Dirent)
  BY ImageFields DEF Whole
<1>3. tree.inodes[tree.dirents[i].inode] \in Inode
  BY <1>1, <1>2, SMT, Z3T(40)
<1>4. tree.dirents[i] \in Dirent
  BY <1>2, SMT, Z3T(40)
<1> QED
  BY <1>1, <1>3, <1>4 DEF Dirent

LEMMA CreateKeeps ==
  ASSUME FsInv, NEW w \in Writers, NEW n \in Names, Create(w, n)
  PROVE  FsInv'
<1> DEFINE inodes == mem.tree.inodes
           recycled == mem.slots # <<>>
           slot == IF recycled THEN mem.slots[Len(mem.slots)] ELSE Len(inodes) + 1
           inode(block) == [deleted |-> FALSE, block |-> block, empty |-> TRUE]
           tree(block) == [inodes  |-> IF recycled THEN [inodes EXCEPT ![slot] = inode(block)]
                                       ELSE Append(inodes, inode(block)),
                           dirents |-> Append(mem.tree.dirents, [name |-> n, inode |-> slot])]
           left == IF recycled THEN SubSeq(mem.slots, 1, Len(mem.slots) - 1) ELSE mem.slots
<1>1. Idle /\ UNCHANGED snap
  BY DEF Create, Namespace
<1>2. PICK block \in BestFit(mem.free) :
         Begin(tree(block), MarkAllocated(mem.free, block), left,
               <<At("data", block, Zeroed)>>, [acked.view EXCEPT ![n] = Zeroed])
  BY DEF Create
<1>3. /\ mem.tree \in Tree /\ FreeShape(mem.free) /\ mem.slots \in Seq(Nat)
      /\ snap \in [Writers -> [inode : Nat, block : Nat, empty : BOOLEAN]]
  BY <1>1, IdleTree DEF Whole
<1>4. block \in Nat
  BY <1>3, BestFitShape
<1>5. inode(block) \in Inode
  BY <1>4 DEF Inode
<1>6. slot \in Nat /\ left \in Seq(Nat)
  <2>1. CASE recycled
    BY <1>3, <2>1, SMT, Z3T(40)
  <2>2. CASE ~recycled
    <3>1. Len(inodes) + 1 \in Nat
      BY <1>3, ImageFields, SMT, Z3T(40)
    <3> QED
      BY <1>3, <2>2, <3>1
  <2> QED
    BY <2>1, <2>2
<1>7. tree(block) \in Tree
  <2>1. [name |-> n, inode |-> slot] \in Dirent
    BY <1>6 DEF Dirent
  <2>2. inodes \in Seq(Inode) /\ mem.tree.dirents \in Seq(Dirent)
    BY <1>3, ImageFields
  <2> HIDE DEF inodes, slot, inode, recycled
  <2>3. Append(mem.tree.dirents, [name |-> n, inode |-> slot]) \in Seq(Dirent)
    BY <2>1, <2>2, AppendFacts
  <2>4. Append(inodes, inode(block)) \in Seq(Inode)
    BY <1>5, <2>2, AppendFacts
  <2>5. [inodes EXCEPT ![slot] = inode(block)] \in Seq(Inode)
    BY <1>5, <2>2, ReplacedElement
  <2> QED
    BY <2>3, <2>4, <2>5 DEF Tree
<1>8. FreeShape(MarkAllocated(mem.free, block))
  BY <1>3, <1>4, AllocatedShape
<1>9. DataWrites(<<At("data", block, Zeroed)>>)
  BY DEF DataWrites, At
<1> HIDE DEF tree, left
<1> QED
  BY <1>1, <1>2, <1>3, <1>6, <1>7, <1>8, <1>9, BeginKeeps

LEMMA RemoveKeeps ==
  ASSUME FsInv, NEW w \in Writers, NEW n \in Names, Remove(w, n)
  PROVE  FsInv'
<1> DEFINE inodes == mem.tree.inodes
           dirents == mem.tree.dirents
           gone == [deleted |-> TRUE, block |-> 0, empty |-> TRUE]
           tree(i) == [inodes  |-> [inodes EXCEPT ![dirents[i].inode] = gone],
                       dirents |-> SubSeq(dirents, 1, i - 1) \o SubSeq(dirents, i + 1, Len(dirents))]
<1>1. Idle /\ UNCHANGED snap
  BY DEF Remove, Namespace
<1>2. PICK i \in Entry(n) :
         Begin(tree(i), MarkFree(mem.free, inodes[dirents[i].inode].block), Append(mem.slots, dirents[i].inode),
               <<>>, [acked.view EXCEPT ![n] = Absent])
  BY DEF Remove
<1>3. /\ Whole(mem.tree) /\ FreeShape(mem.free) /\ mem.slots \in Seq(Nat)
      /\ snap \in [Writers -> [inode : Nat, block : Nat, empty : BOOLEAN]]
  BY <1>1, IdleTree
<1>4. i \in DOMAIN mem.tree.dirents
  BY DEF Entry
<1>5. dirents[i].inode \in Nat /\ inodes[dirents[i].inode] \in Inode
  BY <1>3, <1>4, EntryFacts
<1>6. inodes[dirents[i].inode].block \in Nat
  BY <1>5 DEF Inode
<1>7. inodes \in Seq(Inode) /\ dirents \in Seq(Dirent)
  BY <1>3, ImageFields DEF Whole
<1>8. tree(i) \in Tree
  <2>1. 0 \in Nat
    BY SMT, Z3T(40)
  <2>2. gone \in Inode
    BY <2>1 DEF Inode
  <2> HIDE DEF inodes, dirents, gone
  <2>3. [inodes EXCEPT ![dirents[i].inode] = gone] \in Seq(Inode)
    BY <1>7, <2>2, ReplacedElement
  <2>4. SubSeq(dirents, 1, i - 1) \o SubSeq(dirents, i + 1, Len(dirents)) \in Seq(Dirent)
    <3>1. i \in 1 .. Len(dirents)
      BY <1>4, <1>7, SMT, Z3T(40) DEF dirents
    <3>2. SubSeq(dirents, 1, i - 1) \in Seq(Dirent)
      BY <1>7, <3>1, SMT, Z3T(40)
    <3>3. SubSeq(dirents, i + 1, Len(dirents)) \in Seq(Dirent)
      BY <1>7, <3>1, SMT, Z3T(40)
    <3> QED
      BY <3>2, <3>3, SMT, Z3T(40)
  <2> QED
    BY <2>3, <2>4 DEF Tree
<1>9. FreeShape(MarkFree(mem.free, inodes[dirents[i].inode].block))
  BY <1>3, <1>6, FreedShape
<1>10. Append(mem.slots, dirents[i].inode) \in Seq(Nat)
  BY <1>3, <1>5, AppendFacts
<1>11. DataWrites(<<>>)
  BY DEF DataWrites
<1> HIDE DEF tree, inodes, dirents
<1> QED
  BY <1>1, <1>2, <1>3, <1>8, <1>9, <1>10, <1>11, BeginKeeps

LEMMA SnapTaken ==
  ASSUME NEW S, NEW T, NEW f \in [S -> T], NEW w, NEW v \in T
  PROVE  [f EXCEPT ![w] = v] \in [S -> T]
OBVIOUS

LEMMA NoSnapShape ==
  NoSnap \in [inode : Nat, block : Nat, empty : BOOLEAN]
<1>1. 0 \in Nat
  BY SMT, Z3T(40)
<1> QED
  BY <1>1 DEF NoSnap

LEMMA TreeOf ==
  ASSUME NEW a \in Seq(Inode), NEW b \in Seq(Dirent)
  PROVE  [inodes |-> a, dirents |-> b] \in Tree
BY DEF Tree

LEMMA InodeResized ==
  ASSUME NEW t \in Tree, NEW k, NEW r, r = [t EXCEPT !.inodes[k].empty = FALSE]
  PROVE  r \in Tree
<1>1. PICK inodes, dirents : t = [inodes |-> inodes, dirents |-> dirents]
                             /\ inodes \in Seq(Inode) /\ dirents \in Seq(Dirent)
  BY ImageFields
<1>2. PICK changed : changed = [inodes[k] EXCEPT !.empty = FALSE]
  OBVIOUS
<1>3. r = [inodes |-> [inodes EXCEPT ![k] = changed], dirents |-> dirents]
  BY <1>1, <1>2
<1>4. k \in DOMAIN inodes => inodes[k] \in Inode
  BY <1>1, SMT, Z3T(40)
<1>5. k \in DOMAIN inodes => changed \in Inode
  BY <1>2, <1>4 DEF Inode
<1>6. PICK a : a = [inodes EXCEPT ![k] = changed]
  OBVIOUS
<1>7. a \in Seq(Inode)
  BY <1>1, <1>5, <1>6, ReplacedElement
<1>8. r = [inodes |-> a, dirents |-> dirents]
  BY <1>3, <1>6
<1>9. [inodes |-> a, dirents |-> dirents] \in Tree
  BY <1>1, <1>7, TreeOf
<1> QED
  BY <1>8, <1>9

LEMMA InodeMoved ==
  ASSUME NEW t \in Tree, NEW k, NEW b \in Nat, NEW r, r = [t EXCEPT !.inodes[k].block = b]
  PROVE  r \in Tree
<1>1. PICK inodes, dirents : t = [inodes |-> inodes, dirents |-> dirents]
                             /\ inodes \in Seq(Inode) /\ dirents \in Seq(Dirent)
  BY ImageFields
<1>2. PICK changed : changed = [inodes[k] EXCEPT !.block = b]
  OBVIOUS
<1>3. r = [inodes |-> [inodes EXCEPT ![k] = changed], dirents |-> dirents]
  BY <1>1, <1>2
<1>4. k \in DOMAIN inodes => inodes[k] \in Inode
  BY <1>1, SMT, Z3T(40)
<1>5. k \in DOMAIN inodes => changed \in Inode
  BY <1>2, <1>4 DEF Inode
<1>6. PICK a : a = [inodes EXCEPT ![k] = changed]
  OBVIOUS
<1>7. a \in Seq(Inode)
  BY <1>1, <1>5, <1>6, ReplacedElement
<1>8. r = [inodes |-> a, dirents |-> dirents]
  BY <1>3, <1>6
<1>9. [inodes |-> a, dirents |-> dirents] \in Tree
  BY <1>1, <1>7, TreeOf
<1> QED
  BY <1>8, <1>9

LEMMA AppendKeeps ==
  ASSUME FsInv, NEW w \in Writers, AppendData(w)
  PROVE  FsInv'
<1> DEFINE k == snap[w].inode
           tree == [mem.tree EXCEPT !.inodes[k].empty = FALSE]
           write == <<At("data", snap[w].block, txs + 1)>>
<1>1. Idle /\ snap' = [snap EXCEPT ![w] = NoSnap]
  BY DEF AppendData
<1>2. Begin(tree, mem.free, mem.slots, write, Written(k))
  BY DEF AppendData
<1>3. /\ mem.tree \in Tree /\ FreeShape(mem.free) /\ mem.slots \in Seq(Nat)
      /\ snap \in [Writers -> [inode : Nat, block : Nat, empty : BOOLEAN]]
  BY <1>1, IdleTree DEF Whole
<1>4. snap' \in [Writers -> [inode : Nat, block : Nat, empty : BOOLEAN]]
  BY <1>1, <1>3, SnapTaken, NoSnapShape
<1>5. tree \in Tree
  BY <1>3, InodeResized
<1>6. DataWrites(write)
  BY DEF DataWrites, At
<1> HIDE DEF tree, k, write
<1> QED
  BY <1>1, <1>2, <1>3, <1>4, <1>5, <1>6, BeginKeeps

LEMMA ReplaceKeeps ==
  ASSUME FsInv, NEW w \in Writers, Replace(w)
  PROVE  FsInv'
<1> DEFINE k == snap[w].inode
           freed(block) == IF snap[w].block = block THEN mem.free ELSE MarkFree(mem.free, snap[w].block)
           tree(block) == [mem.tree EXCEPT !.inodes[k].block = block]
           write(block) == <<At("data", block, txs + 1)>>
<1>1. Idle /\ snap' = [snap EXCEPT ![w] = NoSnap]
  BY DEF Replace
<1>2. PICK block \in BestFit(mem.free) :
         Begin(tree(block), MarkAllocated(freed(block), block), mem.slots, write(block), Written(k))
  BY DEF Replace
<1>3. /\ mem.tree \in Tree /\ FreeShape(mem.free) /\ mem.slots \in Seq(Nat)
      /\ snap \in [Writers -> [inode : Nat, block : Nat, empty : BOOLEAN]]
  BY <1>1, IdleTree DEF Whole
<1>4. snap' \in [Writers -> [inode : Nat, block : Nat, empty : BOOLEAN]]
  BY <1>1, <1>3, SnapTaken, NoSnapShape
<1>5. block \in Nat /\ snap[w].block \in Nat
  BY <1>3, BestFitShape
<1>6. tree(block) \in Tree
  BY <1>3, <1>5, InodeMoved
<1>7. FreeShape(MarkAllocated(freed(block), block))
  <2>1. FreeShape(freed(block))
    BY <1>3, <1>5, FreedShape
  <2> HIDE DEF freed
  <2> QED
    BY <1>5, <2>1, AllocatedShape
<1>8. DataWrites(write(block))
  BY DEF DataWrites, At
<1> HIDE DEF tree, k, write, freed
<1> QED
  BY <1>1, <1>2, <1>3, <1>4, <1>6, <1>7, <1>8, BeginKeeps

-----------------------------------------------------------------------------
(* Steps that change neither the tables nor the mirrors nor the commit. *)

LEMMA SameFlush ==
  ASSUME UNCHANGED <<machine, mem, commit, cache>>, Flushing,
         disk'.super = disk.super, disk'.inode = disk.inode, disk'.dirent = disk.dirent
  PROVE  Flushing'
<1>1. /\ UNCHANGED <<Pending, Published, Shadow, ToCome, PlannedWrites>>
      /\ \A m : PendingWrite(m)' = PendingWrite(m) /\ PublishWrite(m)' = PublishWrite(m)
      /\ \A kind : ShadowWrite(kind)' = ShadowWrite(kind) /\ Image(kind)' = Image(kind)
  BY DEF Pending, Published, Shadow, ToCome, PlannedWrites, PendingWrite, PublishWrite,
         ShadowWrite, Image, Super, Swapped
<1>2. Landed'
  <2>1. \A kind \in Tables : disk'[kind] = disk[kind]
    BY DEF Tables
  <2>2. machine'.format >= 3 =>
           \A m \in MirrorNames : PendingWrite(m)' \in ToCome' \/ disk'.super[m] \in {Pending', Published'}
    BY <1>1 DEF Flushing, Landed
  <2>3. \A kind \in Tables :
           \/ ShadowWrite(kind)' \in ToCome'
           \/ disk'[kind][Shadow'] = Image(kind)' /\ cache'[kind][Shadow'] \subseteq {Image(kind)'}
    BY <1>1, <2>1 DEF Flushing, Landed
  <2>4. \A m \in MirrorNames : PublishWrite(m)' \in ToCome' \/ disk'.super[m] = Published'
    BY <1>1 DEF Flushing, Landed
  <2> QED
    BY <2>2, <2>3, <2>4 DEF Landed
<1>3. /\ commit'.writes \in Seq(PlannedWrites') /\ InOrder(commit'.writes)
      /\ \A x \in ToCome' : /\ Rank(x) < 5 => PublishWrite("secondary")' \in ToCome'
                            /\ PublishWrite("primary")' \in ToCome'
      /\ Valid(Len(mem'.tree.dirents), mem'.tree.inodes, mem'.tree.dirents)
  BY <1>1 DEF Flushing
<1> QED
  BY <1>2, <1>3 DEF Flushing

LEMMA QuietStep ==
  ASSUME FsInv, Running, Running', RestShape', RepairInv', MemShape',
         UNCHANGED <<machine, cache, commit, acked, attempts>>,
         disk' = [super |-> disk.super, inode |-> disk.inode, dirent |-> disk.dirent, data |-> disk'.data],
         mem'.tree = mem.tree, mem'.active = mem.active, mem'.gen = mem.gen, mem'.sync = mem.sync,
         UNCHANGED mem \/ commit.kind = "none",
         Unharmed' => Unharmed,
         commit.kind = "repair" <=> check'.stage = "committing"
  PROVE  FsInv'
<1>1. /\ Shape /\ CommitInv /\ RecoveryInv
      /\ DiskShape /\ MemShape /\ CommitShape
  BY DEF FsInv, Shape
<1>2. disk'.super = disk.super /\ disk'.inode = disk.inode /\ disk'.dirent = disk.dirent
  <2>1. PICK x : x = disk'.data
    OBVIOUS
  <2>2. disk' = [super |-> disk.super, inode |-> disk.inode, dirent |-> disk.dirent, data |-> x]
    BY <2>1
  <2> QED
    BY <2>2
<1>3. Shape'
  <2>1. DiskShape'
    BY <1>1, <1>2 DEF DiskShape
  <2>2. CommitShape'
    BY <1>1 DEF CommitShape
  <2> QED
    BY <2>1, <2>2 DEF Shape
<1>4. commit.stage = "flush" => UNCHANGED mem
  BY <1>1 DEF CommitShape
<1>5. CommitInv'
  <2>1. commit'.stage = "flush" => Flushing'
    BY <1>1, <1>2, <1>4, SameFlush DEF CommitInv
  <2>2. Coherent(mem.active)' /\ (~mem.sync /\ commit.stage # "flush" => Coherent(Shadow)')
    BY <1>1, <1>2, SameCache DEF CommitInv, Coherent, Shadow
  <2>3. mem'.gen \in Nat /\ Whole(BaseTree)'
    BY <1>1 DEF CommitInv, BaseTree, Whole
  <2> QED
    BY <1>1, <2>1, <2>2, <2>3 DEF CommitInv
<1>6. RecoveryInv'
  <2>1. SUFFICES ASSUME Guarded'
                 PROVE  phase' # "lost" /\ Mounted'
    BY DEF RecoveryInv
  <2>2. Guarded /\ phase' # "lost"
    BY <2>1 DEF Guarded, OneTear, Running
  <2>3. Mounted
    BY <1>1, <2>2 DEF RecoveryInv
  <2>4. Trees' = Trees /\ acked'.tree = acked.tree
    BY DEF Trees
  <2>5. /\ \A m : Current(m)' <=> Current(m)
        /\ PrimaryOld' <=> PrimaryOld
        /\ Ahead => Ahead'
        /\ Holds(mem.active, acked.tree) => Holds(mem.active, acked.tree)'
    BY <1>2, <2>4, SameMirrors DEF Holds
  <2>6. BaseTree' = acked.tree /\ mem'.tree \in Trees' /\ Whole(acked.tree)' /\ Holds(mem.active, acked.tree)'
    BY <2>3, <2>4, <2>5 DEF BaseTree, Mounted, Whole
  <2>7. CASE commit.stage = "flush"
    <3>1. /\ UNCHANGED <<Pending, Published, ToCome>>
          /\ \A m : PendingWrite(m)' = PendingWrite(m) /\ PublishWrite(m)' = PublishWrite(m)
      BY <1>4, <2>7 DEF Pending, Published, ToCome, PendingWrite, PublishWrite, Super, Swapped
    <3>2. Publishing => Publishing'
      BY <1>2, <2>5, <3>1 DEF Publishing
    <3>3. Unpublished => Unpublished'
      BY <1>2, <2>5, <3>1 DEF Unpublished, AheadAllowed
    <3>4. commit'.stage = commit.stage /\ (PublishWrite("secondary") \in ToCome)' = (PublishWrite("secondary") \in ToCome)
      BY <3>1
    <3>5. (IF commit.stage = "flush" /\ PublishWrite("secondary") \notin ToCome THEN Publishing ELSE Unpublished)'
      BY <2>3, <3>2, <3>3, <3>4 DEF Mounted
    <3> QED
      BY <2>2, <2>6, <3>5 DEF Mounted
  <2>8. CASE commit.stage # "flush"
    <3>1. Unpublished
      BY <2>3, <2>8 DEF Mounted
    <3>2. Unpublished'
      BY <1>2, <2>5, <2>8, <3>1 DEF Unpublished, AheadAllowed
    <3>3. commit'.stage # "flush"
      BY <2>8
    <3> QED
      BY <2>2, <2>6, <3>2, <3>3 DEF Mounted
  <2> QED
    BY <2>2, <2>7, <2>8
<1> QED
  BY <1>3, <1>5, <1>6 DEF FsInv

LEMMA SameRepair ==
  ASSUME RepairInv, UNCHANGED <<machine, check, phase, commit, disk, mem>>
  PROVE  RepairInv'
<1>1. Calm' = Calm /\ BothMirrors' = BothMirrors /\ Shadow' = Shadow
  BY DEF Calm, BothMirrors, Super, Shadow
<1>2. \A slot, tree : Holds(slot, tree)' = Holds(slot, tree)
  BY DEF Holds
<1>3. Holds(mem.active, mem.tree)' = Holds(mem.active, mem.tree)
  BY DEF Holds
<1>4. Holds(Shadow, mem.tree)' = Holds(Shadow, mem.tree)
  BY <1>1 DEF Holds
<1> QED
  BY <1>1, <1>3, <1>4 DEF RepairInv

(* Only what a writer has read changes. *)
LEMMA SnapStep ==
  ASSUME FsInv, Idle, snap' \in [Writers -> [inode : Nat, block : Nat, empty : BOOLEAN]],
         UNCHANGED <<machine, phase, disk, mem, cache, commit, check, acked, attempts, crashes, errors>>
  PROVE  FsInv'
<1>1. /\ DiskShape /\ MemShape /\ CommitShape /\ RestShape /\ CommitInv /\ RepairInv
  BY DEF FsInv, Shape
<1>2. Running /\ Running'
  BY DEF Idle, Running
<1>3. RestShape'
  BY <1>1 DEF RestShape
<1>4. MemShape'
  BY <1>1 DEF MemShape, FreeShape
<1>5. RepairInv'
  BY <1>1, SameRepair
<1>6. disk' = [super |-> disk.super, inode |-> disk.inode, dirent |-> disk.dirent, data |-> disk'.data]
  BY <1>1 DEF DiskShape
<1>7. commit.kind = "repair" <=> check'.stage = "committing"
  BY <1>1 DEF CommitInv
<1>8. Unharmed' => Unharmed
  BY DEF Unharmed
<1> QED
  BY <1>2, <1>3, <1>4, <1>5, <1>6, <1>7, <1>8, QuietStep

LEMMA ReadInodeKeeps ==
  ASSUME FsInv, NEW w \in Writers, NEW n \in Names, ReadInode(w, n)
  PROVE  FsInv'
<1>1. /\ Idle
      /\ UNCHANGED <<machine, phase, disk, mem, cache, commit, check, acked, attempts, crashes, errors>>
  BY DEF ReadInode
<1>0. PICK i \in Entry(n) : \E k :
         /\ k = mem.tree.dirents[i].inode
         /\ snap' = [snap EXCEPT ![w] = [inode |-> k, block |-> mem.tree.inodes[k].block,
                                         empty |-> mem.tree.inodes[k].empty]]
  BY DEF ReadInode
<1>2. PICK k : /\ k = mem.tree.dirents[i].inode
               /\ snap' = [snap EXCEPT ![w] = [inode |-> k, block |-> mem.tree.inodes[k].block,
                                               empty |-> mem.tree.inodes[k].empty]]
  BY <1>0
<1>3. /\ Whole(mem.tree) /\ snap \in [Writers -> [inode : Nat, block : Nat, empty : BOOLEAN]]
  BY <1>1, IdleTree
<1>4. k \in Nat /\ mem.tree.inodes[k] \in Inode
  BY <1>2, <1>3, EntryFacts DEF Entry
<1>5. [inode |-> k, block |-> mem.tree.inodes[k].block, empty |-> mem.tree.inodes[k].empty]
        \in [inode : Nat, block : Nat, empty : BOOLEAN]
  BY <1>4 DEF Inode
<1>6. snap' \in [Writers -> [inode : Nat, block : Nat, empty : BOOLEAN]]
  BY <1>2, <1>3, <1>5, SnapTaken
<1> QED
  BY <1>1, <1>6, SnapStep

LEMMA NoSpaceKeeps ==
  ASSUME FsInv, NEW w \in Writers, NoSpace(w)
  PROVE  FsInv'
<1>1. /\ Idle /\ snap' = [snap EXCEPT ![w] = NoSnap]
      /\ UNCHANGED <<machine, phase, disk, mem, cache, commit, check, acked, attempts, crashes, errors>>
  BY DEF NoSpace
<1>2. snap \in [Writers -> [inode : Nat, block : Nat, empty : BOOLEAN]]
  BY <1>1, IdleTree
<1>3. snap' \in [Writers -> [inode : Nat, block : Nat, empty : BOOLEAN]]
  BY <1>1, <1>2, SnapTaken, NoSnapShape
<1> QED
  BY <1>1, <1>3, SnapStep

-----------------------------------------------------------------------------
(* Steps of check_and_repair. *)

(* A step of the check that leaves the commit and the tree alone. *)
LEMMA CheckStep ==
  ASSUME FsInv, Running, Running', RestShape', RepairInv',
         UNCHANGED <<machine, mem, cache, commit, acked, attempts>>,
         disk' = [super |-> disk.super, inode |-> disk.inode, dirent |-> disk.dirent, data |-> disk'.data],
         Unharmed' => Unharmed, check.stage # "committing", check'.stage # "committing"
  PROVE  FsInv'
<1>1. /\ MemShape /\ CommitInv
  BY DEF FsInv, Shape
<1>2. MemShape'
  BY <1>1 DEF MemShape, FreeShape
<1>3. commit.kind = "repair" <=> check'.stage = "committing"
  BY <1>1 DEF CommitInv
<1> QED
  BY <1>2, <1>3, QuietStep

LEMMA CheckStartKeeps ==
  ASSUME FsInv, CheckStart
  PROVE  FsInv'
<1>1. /\ UNCHANGED <<machine, phase, disk, mem, cache, commit, snap, acked, attempts, crashes, errors>>
      /\ commit.kind = "none" /\ check.stage = "idle" /\ phase \in {"mounted", "ready"}
      /\ phase = "ready" => machine.online
  BY DEF CheckStart
<1>2. PICK o, c : check' = [stage |-> "zero", orphans |-> o, clean |-> c, round |-> 0, failed |-> FALSE]
  BY DEF CheckStart
<1>3. /\ check' = [stage |-> check'.stage, orphans |-> check'.orphans, clean |-> check'.clean,
                   round |-> check'.round, failed |-> check'.failed]
      /\ check'.stage = "zero" /\ check'.round = 0 /\ check'.failed = FALSE
  BY <1>2
<1>4. DiskShape /\ RestShape /\ RepairInv
  BY DEF FsInv, Shape
<1>5. RestShape'
  <2>1. 0 \in 0 .. 2
    BY SMT, Z3T(40)
  <2> QED
    BY <1>1, <1>3, <1>4, <2>1 DEF RestShape, CheckStages
<1>6. RepairInv'
  BY <1>1, <1>3 DEF RepairInv, Calm
<1>7. disk' = [super |-> disk.super, inode |-> disk.inode, dirent |-> disk.dirent, data |-> disk'.data]
  BY <1>1, <1>4 DEF DiskShape
<1>8. Running /\ Running' /\ (Unharmed' => Unharmed)
  BY <1>1 DEF Running, Unharmed
<1> QED
  BY <1>1, <1>3, <1>5, <1>6, <1>7, <1>8, CheckStep

LEMMA CheckMoved ==
  ASSUME RestShape, NEW stage, NEW c, c = [check EXCEPT !.stage = stage]
  PROVE  c = [stage |-> stage, orphans |-> check.orphans, clean |-> check.clean,
              round |-> check.round, failed |-> check.failed]
BY DEF RestShape

LEMMA CheckFailed ==
  ASSUME NEW c, c = [NoCheck EXCEPT !.failed = TRUE]
  PROVE  /\ c = [stage |-> c.stage, orphans |-> c.orphans, clean |-> c.clean,
                 round |-> c.round, failed |-> c.failed]
         /\ c.stage = "idle" /\ c.round = 0 /\ c.failed = TRUE
BY DEF NoCheck

LEMMA ChecksAreRunning ==
  ASSUME FsInv, check.stage # "idle"
  PROVE  Running
BY NoCheckFields DEF FsInv, CommitInv

LEMMA CheckZeroKeeps ==
  ASSUME FsInv, CheckZero
  PROVE  FsInv'
<1>1. /\ DiskShape /\ RestShape /\ RepairInv /\ CommitInv
      /\ check.stage = "zero" /\ Running
  BY ChecksAreRunning DEF FsInv, Shape, CheckZero
<1>2. /\ UNCHANGED <<machine, mem, cache, commit, snap, acked, attempts, txs, crashes>>
      /\ \/ check' = [check EXCEPT !.stage = "commit"] /\ UNCHANGED phase
         \/ check' = [check EXCEPT !.stage = "rebuild"] /\ UNCHANGED phase
         \/ check' = NoCheck /\ phase' = "ready"
  BY DEF CheckZero
<1>3. disk' = [super |-> disk.super, inode |-> disk.inode, dirent |-> disk.dirent, data |-> disk'.data]
  <2>1. PICK x : disk' = [disk EXCEPT !.data = x]
    BY DEF CheckZero
  <2>2. disk' = [super |-> disk.super, inode |-> disk.inode, dirent |-> disk.dirent, data |-> x]
    BY <1>1, <2>1 DEF DiskShape
  <2> QED
    BY <2>2
<1>4. errors' \in 0 .. machine.errors /\ (errors' = 0 => errors = 0)
  <2>1. errors \in 0 .. machine.errors /\ (errors' = errors \/ (errors < machine.errors /\ errors' = errors + 1))
    BY <1>1 DEF CheckZero, RestShape
  <2>2. machine.errors \in Nat
    BY <1>1, MachineAssumption DEF RestShape, Machine
  <2> QED
    BY <2>1, <2>2, SMT, Z3T(40)
<1>5. /\ check' = [stage |-> check'.stage, orphans |-> check'.orphans, clean |-> check'.clean,
                   round |-> check'.round, failed |-> check'.failed]
      /\ \/ check'.stage \in {"commit", "rebuild"} /\ check'.round = check.round
            /\ check'.failed = check.failed /\ phase' = phase
         \/ check'.stage = "idle" /\ check'.round = 0 /\ check'.failed = FALSE /\ phase' = "ready"
  <2>1. CASE check' = [check EXCEPT !.stage = "commit"] /\ UNCHANGED phase
    <3>1. check' = [stage |-> "commit", orphans |-> check.orphans, clean |-> check.clean,
                    round |-> check.round, failed |-> check.failed]
      BY <1>1, <2>1, CheckMoved
    <3> QED
      BY <2>1, <3>1
  <2>2. CASE check' = [check EXCEPT !.stage = "rebuild"] /\ UNCHANGED phase
    <3>1. check' = [stage |-> "rebuild", orphans |-> check.orphans, clean |-> check.clean,
                    round |-> check.round, failed |-> check.failed]
      BY <1>1, <2>2, CheckMoved
    <3> QED
      BY <2>2, <3>1
  <2>3. CASE check' = NoCheck /\ phase' = "ready"
    BY <2>3, NoCheckFields
  <2> QED
    BY <1>2, <2>1, <2>2, <2>3
<1>6. Running' /\ phase' \in {"off", "mounted", "ready", "lost"}
  BY <1>1, <1>5 DEF Running
<1>7. RestShape'
  <2>1. 0 \in 0 .. 2
    BY SMT, Z3T(40)
  <2>2. check'.stage \in CheckStages /\ check'.round = 0 /\ check'.stage # "zero"
    BY <1>1, <1>5 DEF RestShape, CheckStages
  <2>3. 0 < 2
    BY SMT, Z3T(40)
  <2> QED
    BY <1>1, <1>2, <1>4, <1>5, <1>6, <2>1, <2>2, <2>3 DEF RestShape
<1>8. RepairInv'
  <2>1. SUFFICES ASSUME Calm' PROVE RepairInv'
    BY DEF RepairInv
  <2>2. Calm
    BY <1>2, <2>1 DEF Calm
  <2>3. check.round = 0 /\ ~check.failed /\ phase = "mounted" /\ commit.kind # "op" /\ 0 # 1
    <3>1. 0 # 1
      BY SMT, Z3T(40)
    <3> QED
      BY <1>1, <2>2, <3>1 DEF RepairInv, RestShape
  <2> QED
    BY <1>2, <1>5, <2>3 DEF RepairInv
<1>9. check'.stage # "committing" /\ (Unharmed' => Unharmed)
  BY <1>2, <1>4, <1>5 DEF Unharmed
<1> QED
  BY <1>1, <1>2, <1>3, <1>6, <1>7, <1>8, <1>9, CheckStep

LEMMA CheckRebuildKeeps ==
  ASSUME FsInv, CheckRebuild
  PROVE  FsInv'
<1>1. /\ DiskShape /\ MemShape /\ RestShape /\ RepairInv /\ CommitInv
      /\ check.stage = "rebuild" /\ commit.kind = "none" /\ Running
  BY ChecksAreRunning DEF FsInv, Shape, CheckRebuild
<1>2. /\ UNCHANGED <<machine, disk, cache, commit, snap, acked, attempts, txs, crashes, errors>>
      /\ mem' = Rebuilt /\ check' = NoCheck /\ phase' = "ready"
  BY DEF CheckRebuild
<1>3. PICK f : FreeShape(f) /\ mem' = [tree |-> mem.tree, free |-> f, slots |-> mem.slots,
                                       active |-> mem.active, gen |-> mem.gen, sync |-> mem.sync]
  BY <1>1, <1>2, MemRebuilt, RebuiltShape
<1>4. /\ mem'.tree = mem.tree /\ mem'.free = f /\ mem'.slots = mem.slots
      /\ mem'.active = mem.active /\ mem'.gen = mem.gen /\ mem'.sync = mem.sync
  BY <1>3
<1>5. MemShape'
  BY <1>1, <1>3, <1>4 DEF MemShape, FreeShape
<1>6. RestShape'
  <2>1. 0 \in 0 .. 2
    BY SMT, Z3T(40)
  <2> QED
    BY <1>1, <1>2, <2>1, NoCheckFields DEF RestShape, CheckStages
<1>7. RepairInv'
  BY <1>2, NoCheckFields DEF RepairInv
<1>8. disk' = [super |-> disk.super, inode |-> disk.inode, dirent |-> disk.dirent, data |-> disk'.data]
  BY <1>1, <1>2 DEF DiskShape
<1>9. Running' /\ (Unharmed' => Unharmed)
  BY <1>2 DEF Running, Unharmed
<1>10. commit.kind = "repair" <=> check'.stage = "committing"
  BY <1>1, <1>2, NoCheckFields
<1> QED
  BY <1>1, <1>2, <1>4, <1>5, <1>6, <1>7, <1>8, <1>9, <1>10, QuietStep

LEMMA CheckInspectKeeps ==
  ASSUME FsInv, CheckInspect
  PROVE  FsInv'
<1>1. /\ DiskShape /\ MemShape /\ RestShape /\ RepairInv /\ CommitInv
      /\ check.stage = "inspect" /\ commit.kind = "none" /\ Running
  BY ChecksAreRunning DEF FsInv, Shape, CheckInspect
<1>2. /\ UNCHANGED <<machine, disk, mem, cache, commit, snap, acked, attempts, txs, crashes, errors>>
      /\ \/ check' = NoCheck /\ phase' = "ready"
         \/ check.round < 2 /\ check' = [check EXCEPT !.stage = "commit"] /\ UNCHANGED phase
         \/ ~Clean(mem) /\ check.round = 2 /\ check' = [NoCheck EXCEPT !.failed = TRUE] /\ phase' = "ready"
  BY DEF CheckInspect
<1>3. /\ check' = [stage |-> check'.stage, orphans |-> check'.orphans, clean |-> check'.clean,
                   round |-> check'.round, failed |-> check'.failed]
      /\ \/ check'.stage = "commit" /\ check'.round = check.round /\ check.round < 2
            /\ check'.failed = check.failed /\ phase' = phase
         \/ check'.stage = "idle" /\ check'.round = 0 /\ phase' = "ready"
            /\ (check'.failed = FALSE \/ (check.round = 2 /\ ~Clean(mem)))
  <2>1. CASE check.round < 2 /\ check' = [check EXCEPT !.stage = "commit"] /\ UNCHANGED phase
    <3>1. check' = [stage |-> "commit", orphans |-> check.orphans, clean |-> check.clean,
                    round |-> check.round, failed |-> check.failed]
      BY <1>1, <2>1, CheckMoved
    <3> QED
      BY <2>1, <3>1
  <2>2. CASE ~Clean(mem) /\ check.round = 2 /\ check' = [NoCheck EXCEPT !.failed = TRUE] /\ phase' = "ready"
    BY <2>2, CheckFailed
  <2>3. CASE check' = NoCheck /\ phase' = "ready"
    BY <2>3, NoCheckFields
  <2> QED
    BY <1>2, <2>1, <2>2, <2>3
<1>4. Running' /\ phase' \in {"off", "mounted", "ready", "lost"}
  BY <1>1, <1>3 DEF Running
<1>5. RestShape'
  <2>1. 0 \in 0 .. 2
    BY SMT, Z3T(40)
  <2>2. /\ check'.stage \in {"commit", "idle"} /\ check'.round \in 0 .. 2
        /\ check'.stage = "commit" => check'.round < 2
    BY <1>1, <1>3, <2>1 DEF RestShape
  <2>3. /\ check'.stage \in CheckStages
        /\ (check'.stage = "zero" => check'.round = 0)
    BY <2>2 DEF CheckStages
  <2> QED
    BY <1>1, <1>2, <1>3, <1>4, <2>2, <2>3 DEF RestShape
<1>6. RepairInv'
  <2>1. SUFFICES ASSUME Calm' PROVE RepairInv'
    BY DEF RepairInv
  <2>2. Calm
    BY <1>2, <2>1 DEF Calm
  <2>3. /\ check.round \in {1, 2} /\ BothMirrors /\ Holds(mem.active, mem.tree)
        /\ check.round = 2 => Holds(Shadow, mem.tree)
        /\ ~check.failed /\ phase = "mounted" /\ commit.kind # "op"
    BY <1>1, <2>2 DEF RepairInv
  <2>4. check.round = 2 => Clean(mem)
    BY <1>1, <2>3, SlotFacts DEF Clean, BothMirrors, MirrorNames, Holds, Shadow, MemShape
  <2>5. check.round < 2 => check.round \in {0, 1}
    BY <2>3, SMT, Z3T(40)
  <2>6. Holds(mem.active, mem.tree)'
    BY <1>2, <2>3 DEF Holds
  <2> QED
    BY <1>2, <1>3, <2>3, <2>4, <2>5, <2>6 DEF RepairInv
<1>7. disk' = [super |-> disk.super, inode |-> disk.inode, dirent |-> disk.dirent, data |-> disk'.data]
  BY <1>1, <1>2 DEF DiskShape
<1>8. check'.stage # "committing" /\ (Unharmed' => Unharmed)
  BY <1>2, <1>3 DEF Unharmed
<1> QED
  BY <1>1, <1>2, <1>4, <1>5, <1>6, <1>7, <1>8, CheckStep

LEMMA CheckCommitted ==
  ASSUME RestShape, NEW c, c = [check EXCEPT !.stage = "committing", !.round = @ + 1]
  PROVE  c = [stage |-> "committing", orphans |-> check.orphans, clean |-> check.clean,
              round |-> check.round + 1, failed |-> check.failed]
<1>1. PICK d : d = [check EXCEPT !.stage = "committing"]
  OBVIOUS
<1>2. d = [stage |-> "committing", orphans |-> check.orphans, clean |-> check.clean,
           round |-> check.round, failed |-> check.failed]
  BY <1>1, CheckMoved
<1>3. c = [d EXCEPT !.round = @ + 1]
  BY <1>1
<1> QED
  BY <1>2, <1>3

LEMMA CheckCommitKeeps ==
  ASSUME FsInv, CheckCommit
  PROVE  FsInv'
<1>1. /\ Shape /\ CommitInv /\ RecoveryInv /\ RepairInv
      /\ DiskShape /\ MemShape /\ CommitShape /\ RestShape
      /\ check.stage = "commit" /\ commit.kind = "none" /\ Running
  BY ChecksAreRunning DEF FsInv, Shape, CheckCommit
<1>2. commit.stage = "none" /\ Running'
  BY <1>1 DEF CommitShape, CheckCommit, Running
<1>3. /\ UNCHANGED <<machine, phase, disk, cache, snap, acked, attempts, crashes, errors>>
      /\ mem' = Rebuilt
      /\ commit' = [kind |-> "repair", stage |-> "mutate", writes |-> <<>>, undo |-> Undo, view |-> acked.view]
      /\ check' = [check EXCEPT !.stage = "committing", !.round = @ + 1]
  BY DEF CheckCommit
<1>4. PICK f : FreeShape(f) /\ mem' = [tree |-> mem.tree, free |-> f, slots |-> mem.slots,
                                       active |-> mem.active, gen |-> mem.gen, sync |-> mem.sync]
  BY <1>1, <1>3, MemRebuilt, RebuiltShape
<1>5. /\ mem'.tree = mem.tree /\ mem'.free = f /\ mem'.slots = mem.slots
      /\ mem'.active = mem.active /\ mem'.gen = mem.gen /\ mem'.sync = mem.sync
  BY <1>4
<1>6. /\ commit'.kind = "repair" /\ commit'.stage = "mutate" /\ commit'.writes = <<>>
      /\ commit'.undo = Undo /\ Undo.tree = mem.tree /\ Undo.free = mem.free /\ Undo.slots = mem.slots
  BY <1>3 DEF Undo
<1>7. /\ check' = [stage |-> check'.stage, orphans |-> check'.orphans, clean |-> check'.clean,
                   round |-> check'.round, failed |-> check'.failed]
      /\ check'.stage = "committing" /\ check'.round = check.round + 1 /\ check'.failed = check.failed
  <2>1. check' = [stage |-> "committing", orphans |-> check.orphans, clean |-> check.clean,
                  round |-> check.round + 1, failed |-> check.failed]
    BY <1>1, <1>3, CheckCommitted
  <2> QED
    BY <2>1
<1>8. Shape'
  <2>1. DiskShape'
    BY <1>1, <1>3 DEF DiskShape
  <2>2. MemShape'
    BY <1>1, <1>4, <1>5 DEF MemShape, FreeShape
  <2>3. CommitShape'
    <3>1. commit' = [kind |-> commit'.kind, stage |-> commit'.stage, writes |-> commit'.writes,
                     undo |-> commit'.undo, view |-> commit'.view]
      BY <1>3
    <3>2. commit'.undo = [tree |-> commit'.undo.tree, free |-> commit'.undo.free, slots |-> commit'.undo.slots]
      BY <1>6 DEF Undo
    <3>3. commit'.undo.tree \in Tree /\ FreeShape(commit'.undo.free) /\ commit'.undo.slots \in Seq(Nat)
      BY <1>1, <1>6 DEF MemShape
    <3> QED
      BY <1>6, <3>1, <3>2, <3>3 DEF CommitShape, FreeShape
  <2>4. RestShape'
    <3>1. check'.round \in 0 .. 2
      <4>1. check.round \in 0 .. 2 /\ check.round < 2
        BY <1>1 DEF RestShape
      <4> QED
        BY <1>7, <4>1, SMT, Z3T(40)
    <3>2. /\ check'.stage \in CheckStages
          /\ (check'.stage = "zero" => check'.round = 0) /\ (check'.stage = "commit" => check'.round < 2)
      BY <1>7 DEF CheckStages
    <3>3. check' = [stage |-> check'.stage, orphans |-> check'.orphans, clean |-> check'.clean,
                    round |-> check'.round, failed |-> check'.failed]
      BY <1>7
    <3>4. /\ UNCHANGED <<machine, phase, snap, acked, attempts, crashes, errors, cache>> /\ RestShape
      BY <1>1, <1>3
    <3> QED
      BY <3>1, <3>2, <3>3, <3>4 DEF RestShape
  <2> QED
    BY <2>1, <2>2, <2>3, <2>4 DEF Shape
<1>9. CommitInv'
  <2>1. mem'.gen \in Nat
    BY <1>1, <1>5 DEF CommitInv
  <2>2. Coherent(mem.active)' /\ (~mem.sync => Coherent(Shadow)')
    BY <1>1, <1>2, <1>3, <1>5, SameCache DEF CommitInv, Coherent, Shadow
  <2>3. Whole(BaseTree)'
    BY <1>1, <1>6 DEF CommitInv, BaseTree, Whole
  <2>4. DataWrites(<<>>)
    BY DEF DataWrites
  <2> QED
    BY <1>2, <1>5, <1>6, <1>7, <2>1, <2>2, <2>3, <2>4 DEF CommitInv
<1>10. RecoveryInv'
  <2>1. SUFFICES ASSUME Guarded'
                 PROVE  phase' # "lost" /\ Mounted'
    BY <1>2 DEF RecoveryInv
  <2>2. Guarded /\ phase' # "lost"
    BY <1>2, <1>3, <2>1 DEF Guarded, OneTear, Running
  <2>3. Mounted /\ Unpublished
    BY <1>1, <1>2, <2>2 DEF RecoveryInv, Mounted
  <2>4. Trees' = Trees /\ acked'.tree = acked.tree
    BY <1>3 DEF Trees
  <2>5. /\ \A m : Current(m)' <=> Current(m)
        /\ PrimaryOld' <=> PrimaryOld
        /\ Ahead => Ahead'
        /\ Holds(mem.active, acked.tree) => Holds(mem.active, acked.tree)'
    BY <1>3, <1>5, <2>4, SameMirrors DEF Holds
  <2>6. Unpublished'
    BY <1>3, <1>6, <2>3, <2>5 DEF Unpublished, AheadAllowed, Unharmed
  <2>7. BaseTree' = acked.tree /\ mem'.tree \in Trees'
    BY <1>1, <1>5, <1>6, <2>3, <2>4 DEF BaseTree, Mounted
  <2>8. Whole(acked.tree)' /\ Holds(mem.active, acked.tree)'
    BY <1>3, <2>3, <2>5 DEF Mounted, Whole
  <2> QED
    BY <1>3, <1>6, <2>2, <2>4, <2>6, <2>7, <2>8 DEF Mounted
<1>11. RepairInv'
  <2>1. SUFFICES ASSUME Calm' PROVE RepairInv'
    BY DEF RepairInv
  <2>2. Calm
    BY <1>3, <2>1 DEF Calm
  <2>3. /\ check.round \in {0, 1} /\ (check.round = 1 => Holds(mem.active, mem.tree))
        /\ ~check.failed /\ phase = "mounted"
    BY <1>1, <2>2 DEF RepairInv
  <2>4. check'.round \in {1, 2} /\ (check'.round = 2 => check.round = 1)
    BY <1>7, <2>3, SMT, Z3T(40)
  <2>5. Holds(mem.active, mem.tree) => Holds(mem.active, mem.tree)'
    BY <1>3, <1>5 DEF Holds
  <2> QED
    BY <1>3, <1>6, <1>7, <2>3, <2>4, <2>5 DEF RepairInv
<1> QED
  BY <1>8, <1>9, <1>10, <1>11 DEF FsInv

-----------------------------------------------------------------------------
(* A flush is planned. *)

(* Writes in order, with ranks between two bounds. *)
Batch(a, low, high) ==
    a \in Seq(PlannedWrites) /\ InOrder(a) /\ \A x \in Elements(a) : low <= Rank(x) /\ Rank(x) <= high

LEMMA NoWrites ==
  ASSUME NEW low, NEW high
  PROVE  Batch(<<>>, low, high) /\ Elements(<<>>) = {}
<1>1. Elements(<<>>) = {}
  BY SMT, Z3T(40) DEF Elements
<1>2. <<>> \in Seq(PlannedWrites) /\ InOrder(<<>>)
  BY SMT, Z3T(40) DEF InOrder
<1> QED
  BY <1>1, <1>2 DEF Batch

LEMMA OneWrite ==
  ASSUME NEW x \in PlannedWrites, NEW r \in Nat, Rank(x) = r
  PROVE  Batch(<<x>>, r, r) /\ Elements(<<x>>) = {x}
<1>1. Elements(<<x>>) = {x}
  BY SMT, Z3T(40) DEF Elements
<1>2. <<x>> \in Seq(PlannedWrites) /\ InOrder(<<x>>)
  BY SMT, Z3T(40) DEF InOrder
<1>3. r <= r
  BY SMT, Z3T(40)
<1> QED
  BY <1>1, <1>2, <1>3 DEF Batch

LEMMA TwoWrites ==
  ASSUME NEW x \in PlannedWrites, NEW y \in PlannedWrites, NEW r \in Nat, NEW q \in Nat, q = r + 1,
         Rank(x) = r, Rank(y) = q
  PROVE  Batch(<<x, y>>, r, q) /\ Elements(<<x, y>>) = {x, y}
<1>1. Elements(<<x, y>>) = {x, y}
  BY SMT, Z3T(40) DEF Elements
<1>2. <<x, y>> \in Seq(PlannedWrites)
  BY SMT, Z3T(40)
<1>3. InOrder(<<x, y>>)
  BY SMT, Z3T(40) DEF InOrder
<1>4. r <= r /\ r <= q /\ q <= q
  BY SMT, Z3T(40)
<1> QED
  BY <1>1, <1>2, <1>3, <1>4 DEF Batch

LEMMA JoinedBatches ==
  ASSUME NEW a, NEW b, NEW low \in Nat, NEW middle \in Nat, NEW next \in Nat, NEW high \in Nat,
         low <= next, middle < next, middle <= high, Batch(a, low, middle), Batch(b, next, high),
         \A x \in PlannedWrites : Rank(x) \in Nat
  PROVE  Batch(a \o b, low, high) /\ Elements(a \o b) = Elements(a) \cup Elements(b)
<1>1. a \in Seq(PlannedWrites) /\ b \in Seq(PlannedWrites) /\ InOrder(a) /\ InOrder(b)
  BY DEF Batch
<1>2. a \o b \in Seq(PlannedWrites) /\ Elements(a \o b) = Elements(a) \cup Elements(b)
  BY <1>1, JoinFacts
<1>3. Elements(a) \subseteq PlannedWrites /\ Elements(b) \subseteq PlannedWrites
  BY <1>1, ElementsAreIn
<1>4. \A x \in Elements(a), y \in Elements(b) : Rank(x) < Rank(y)
  <2> SUFFICES ASSUME NEW x \in Elements(a), NEW y \in Elements(b)
               PROVE  Rank(x) < Rank(y)
    OBVIOUS
  <2>1. Rank(x) \in Nat /\ Rank(y) \in Nat /\ Rank(x) <= middle /\ next <= Rank(y)
    BY <1>3 DEF Batch
  <2> QED
    BY <2>1, SMT, Z3T(40)
<1>5. \A x \in Elements(a \o b) : low <= Rank(x) /\ Rank(x) <= high
  <2> SUFFICES ASSUME NEW x \in Elements(a \o b)
               PROVE  low <= Rank(x) /\ Rank(x) <= high
    OBVIOUS
  <2>1. /\ Rank(x) \in Nat
        /\ \/ low <= Rank(x) /\ Rank(x) <= middle
           \/ next <= Rank(x) /\ Rank(x) <= high
    BY <1>2, <1>3 DEF Batch
  <2> QED
    BY <2>1, SMT, Z3T(40)
<1>6. InOrder(a \o b)
  <2> DEFINE c == a \o b
  <2>1. /\ Len(a) \in Nat /\ Len(b) \in Nat /\ Len(c) = Len(a) + Len(b)
        /\ \A i \in 1 .. Len(a) : c[i] = a[i]
        /\ \A i \in 1 .. Len(b) : c[Len(a) + i] = b[i]
    BY <1>1, SMT, Z3T(40)
  <2> SUFFICES ASSUME NEW i \in 1 .. Len(c), NEW j \in 1 .. Len(c), i < j
               PROVE  Rank(c[i]) < Rank(c[j])
    BY DEF InOrder
  <2> HIDE DEF c
  <2>2. CASE i \in 1 .. Len(a) /\ j \in 1 .. Len(a)
    BY <1>1, <2>1, <2>2 DEF InOrder
  <2>3. CASE i \in 1 .. Len(a) /\ j - Len(a) \in 1 .. Len(b)
    <3>1. c[i] \in Elements(a)
      BY <2>1, <2>3 DEF Elements
    <3>2. c[j] = b[j - Len(a)]
      <4>1. j = Len(a) + (j - Len(a))
        BY <2>1, SMT, Z3T(40)
      <4> QED
        BY <2>1, <2>3, <4>1
    <3>3. c[j] \in Elements(b)
      BY <2>3, <3>2 DEF Elements
    <3> QED
      BY <1>4, <3>1, <3>3
  <2>4. CASE i - Len(a) \in 1 .. Len(b) /\ j - Len(a) \in 1 .. Len(b)
    <3>1. i = Len(a) + (i - Len(a)) /\ j = Len(a) + (j - Len(a)) /\ i - Len(a) < j - Len(a)
      BY <2>1, SMT, Z3T(40)
    <3>2. c[i] = b[i - Len(a)] /\ c[j] = b[j - Len(a)]
      BY <2>1, <2>4, <3>1
    <3> QED
      BY <1>1, <2>4, <3>1, <3>2 DEF InOrder
  <2> QED
    <3>1. \/ i \in 1 .. Len(a) /\ j \in 1 .. Len(a)
          \/ i \in 1 .. Len(a) /\ j - Len(a) \in 1 .. Len(b)
          \/ i - Len(a) \in 1 .. Len(b) /\ j - Len(a) \in 1 .. Len(b)
      BY <2>1, SMT, Z3T(40)
    <3> QED
      BY <2>2, <2>3, <2>4, <3>1
<1> QED
  BY <1>2, <1>5, <1>6 DEF Batch

LEMMA RanksAreNumbers ==
  ASSUME MemShape, CommitShape, mem.gen \in Nat
  PROVE  \A x \in PlannedWrites : Rank(x) \in Nat
<1>1. {1, 2, 3, 4, 5, 6} \subseteq Nat
  BY SMT, Z3T(40)
<1>2. \A x \in {PendingWrite("secondary"), PendingWrite("primary"), ShadowWrite("inode"),
                ShadowWrite("dirent"), PublishWrite("secondary"), PublishWrite("primary")} :
         Rank(x) \in {1, 2, 3, 4, 5, 6}
  BY Ranks
<1> QED
  BY <1>1, <1>2, Ranks

(* The writes of a flush, by what they are. *)
LEMMA PlannedFlush ==
  ASSUME MemShape, CommitShape, mem.gen \in Nat, NEW si, NEW sd
  PROVE  /\ FlushWrites(si, sd) \in Seq(PlannedWrites) /\ InOrder(FlushWrites(si, sd))
         /\ Elements(FlushWrites(si, sd)) =
               (IF machine.format >= 3 THEN {PendingWrite("secondary"), PendingWrite("primary")} ELSE {})
               \cup (IF ~mem.sync /\ si = Image("inode") THEN {} ELSE {ShadowWrite("inode")})
               \cup (IF ~mem.sync /\ sd = Image("dirent") THEN {} ELSE {ShadowWrite("dirent")})
               \cup {PublishWrite("secondary"), PublishWrite("primary")}
<1> DEFINE A == IF machine.format >= 3 THEN Mirrors(Pending) ELSE <<>>
           B == TableWrite("inode", InodeImage(mem.tree), si)
           C == TableWrite("dirent", mem.tree.dirents, sd)
           D == Mirrors(Super(Swapped))
<1>1. FlushWrites(si, sd) = A \o B \o C \o D
  BY DEF FlushWrites
<1>2. /\ PendingWrite("secondary") \in PlannedWrites /\ PendingWrite("primary") \in PlannedWrites
      /\ ShadowWrite("inode") \in PlannedWrites /\ ShadowWrite("dirent") \in PlannedWrites
      /\ PublishWrite("secondary") \in PlannedWrites /\ PublishWrite("primary") \in PlannedWrites
  BY DEF PlannedWrites, MirrorNames, Tables
<1>3. /\ 0 \in Nat /\ 1 \in Nat /\ 2 \in Nat /\ 3 \in Nat /\ 4 \in Nat /\ 5 \in Nat /\ 6 \in Nat
      /\ 2 = 1 + 1 /\ 6 = 5 + 1
  BY SMT, Z3T(40)
<1>4. /\ Batch(A, 1, 2)
      /\ Elements(A) = IF machine.format >= 3 THEN {PendingWrite("secondary"), PendingWrite("primary")} ELSE {}
  <2>1. Mirrors(Pending) = <<PendingWrite("secondary"), PendingWrite("primary")>>
    BY DEF Mirrors, PendingWrite
  <2>2. /\ Batch(Mirrors(Pending), 1, 2)
        /\ Elements(Mirrors(Pending)) = {PendingWrite("secondary"), PendingWrite("primary")}
    <3> DEFINE x == PendingWrite("secondary")
               y == PendingWrite("primary")
    <3>1. x \in PlannedWrites /\ y \in PlannedWrites /\ Rank(x) = 1 /\ Rank(y) = 2
      BY <1>2, Ranks
    <3> HIDE DEF x, y
    <3>2. Batch(<<x, y>>, 1, 2) /\ Elements(<<x, y>>) = {x, y}
      BY <1>3, <3>1, TwoWrites
    <3> QED
      BY <2>1, <3>2 DEF x, y
  <2>3. CASE machine.format >= 3
    BY <2>2, <2>3
  <2>4. CASE ~(machine.format >= 3)
    BY <2>4, NoWrites
  <2> QED
    BY <2>3, <2>4
<1>5. /\ Batch(B, 3, 3)
      /\ Elements(B) = IF ~mem.sync /\ si = Image("inode") THEN {} ELSE {ShadowWrite("inode")}
  <2>1. B = IF ~mem.sync /\ si = Image("inode") THEN <<>> ELSE <<ShadowWrite("inode")>>
    BY DEF TableWrite, ShadowWrite, Shadow, Image
  <2> HIDE DEF B
  <2>2. CASE ~mem.sync /\ si = Image("inode")
    BY <2>1, <2>2, NoWrites
  <2>3. CASE ~(~mem.sync /\ si = Image("inode"))
    BY <1>2, <1>3, <2>1, <2>3, OneWrite, Ranks
  <2> QED
    BY <2>2, <2>3
<1>6. /\ Batch(C, 4, 4)
      /\ Elements(C) = IF ~mem.sync /\ sd = Image("dirent") THEN {} ELSE {ShadowWrite("dirent")}
  <2>1. C = IF ~mem.sync /\ sd = Image("dirent") THEN <<>> ELSE <<ShadowWrite("dirent")>>
    BY DEF TableWrite, ShadowWrite, Shadow, Image
  <2> HIDE DEF C
  <2>2. CASE ~mem.sync /\ sd = Image("dirent")
    BY <2>1, <2>2, NoWrites
  <2>3. CASE ~(~mem.sync /\ sd = Image("dirent"))
    BY <1>2, <1>3, <2>1, <2>3, OneWrite, Ranks
  <2> QED
    BY <2>2, <2>3
<1>7. Batch(D, 5, 6) /\ Elements(D) = {PublishWrite("secondary"), PublishWrite("primary")}
  <2>1. D = <<PublishWrite("secondary"), PublishWrite("primary")>>
    BY DEF Mirrors, PublishWrite, Published
  <2> DEFINE x == PublishWrite("secondary")
             y == PublishWrite("primary")
  <2>2. x \in PlannedWrites /\ y \in PlannedWrites /\ Rank(x) = 5 /\ Rank(y) = 6
    BY <1>2, Ranks
  <2> HIDE DEF x, y
  <2>3. Batch(<<x, y>>, 5, 6) /\ Elements(<<x, y>>) = {x, y}
    BY <1>3, <2>2, TwoWrites
  <2> QED
    BY <2>1, <2>3 DEF x, y
<1> HIDE DEF A, B, C, D
<1>8. 1 <= 3 /\ 2 < 3 /\ 2 <= 3 /\ 1 <= 4 /\ 3 < 4 /\ 3 <= 4 /\ 1 <= 5 /\ 4 < 5 /\ 4 <= 6
  BY SMT, Z3T(40)
<1>9. Batch(A \o B, 1, 3) /\ Elements(A \o B) = Elements(A) \cup Elements(B)
  BY <1>3, <1>4, <1>5, <1>8, JoinedBatches, RanksAreNumbers
<1>10. Batch(A \o B \o C, 1, 4) /\ Elements(A \o B \o C) = Elements(A \o B) \cup Elements(C)
  BY <1>3, <1>6, <1>8, <1>9, JoinedBatches, RanksAreNumbers
<1>11. Batch(A \o B \o C \o D, 1, 6) /\ Elements(A \o B \o C \o D) = Elements(A \o B \o C) \cup Elements(D)
  <2>1. PICK E : E = A \o B \o C
    OBVIOUS
  <2>2. Batch(E, 1, 4) /\ Batch(D, 5, 6)
    BY <1>7, <1>10, <2>1
  <2>3. Batch(E \o D, 1, 6) /\ Elements(E \o D) = Elements(E) \cup Elements(D)
    BY <1>3, <1>8, <2>2, JoinedBatches, RanksAreNumbers
  <2> QED
    BY <2>1, <2>3
<1> QED
  BY <1>1, <1>4, <1>5, <1>6, <1>7, <1>9, <1>10, <1>11 DEF Batch

(* A shadow table that a flush does not write is on the device. *)
LEMMA UnwrittenTable ==
  ASSUME NEW kind \in Tables, NEW seen \in Seen(kind), seen = Image(kind), Coherent(Shadow)
  PROVE  disk[kind][Shadow] = Image(kind) /\ cache[kind][Shadow] \subseteq {Image(kind)}
<1>1. seen \in {disk[kind][Shadow]} \cup cache[kind][Shadow]
  BY DEF Seen, Shadow
<1>2. cache[kind][Shadow] \subseteq {disk[kind][Shadow]}
  BY DEF Coherent
<1> QED
  BY <1>1, <1>2

LEMMA FlushPlannedKeeps ==
  ASSUME FsInv, commit.stage = "mutate", NEW si \in Seen("inode"), NEW sd \in Seen("dirent"),
         Valid(Len(mem.tree.dirents), mem.tree.inodes, mem.tree.dirents),
         commit' = [commit EXCEPT !.stage = "flush", !.writes = FlushWrites(si, sd)],
         UNCHANGED <<machine, phase, mem, disk, cache, snap, check, acked, attempts, aliased,
                     txs, crashes, errors>>
  PROVE  FsInv'
<1>1. /\ Shape /\ CommitInv /\ RecoveryInv /\ RepairInv
      /\ DiskShape /\ MemShape /\ CommitShape /\ RestShape
  BY DEF FsInv, Shape
<1>2. commit.kind \in {"op", "repair"} /\ Running /\ Running' /\ mem.gen \in Nat
  BY <1>1 DEF CommitShape, CommitInv, Running
<1>3. commit' = [kind |-> commit.kind, stage |-> "flush", writes |-> FlushWrites(si, sd),
                 undo |-> commit.undo, view |-> commit.view]
  BY <1>1, CommitFlushed
<1>4. /\ commit'.kind = commit.kind /\ commit'.stage = "flush" /\ commit'.writes = FlushWrites(si, sd)
      /\ commit'.undo = commit.undo
  BY <1>3
<1>5. Shape'
  <2>1. DiskShape' /\ MemShape' /\ RestShape'
    BY <1>1 DEF DiskShape, MemShape, RestShape, FreeShape
  <2>2. CommitShape'
    <3>1. commit' = [kind |-> commit'.kind, stage |-> commit'.stage, writes |-> commit'.writes,
                     undo |-> commit'.undo, view |-> commit'.view]
      BY <1>3
    <3> QED
      BY <1>1, <1>2, <1>4, <3>1 DEF CommitShape, FreeShape
  <2> QED
    BY <2>1, <2>2 DEF Shape
<1>6. /\ UNCHANGED <<Pending, Published, Shadow, PlannedWrites>>
      /\ \A m : PendingWrite(m)' = PendingWrite(m) /\ PublishWrite(m)' = PublishWrite(m)
      /\ \A kind : ShadowWrite(kind)' = ShadowWrite(kind) /\ Image(kind)' = Image(kind)
  BY <1>4 DEF Pending, Published, Shadow, PlannedWrites, PendingWrite, PublishWrite,
         ShadowWrite, Image, Super, Swapped
<1>7. /\ commit'.writes \in Seq(PlannedWrites) /\ InOrder(commit'.writes)
      /\ ToCome' = (IF machine.format >= 3 THEN {PendingWrite("secondary"), PendingWrite("primary")} ELSE {})
                   \cup (IF ~mem.sync /\ si = Image("inode") THEN {} ELSE {ShadowWrite("inode")})
                   \cup (IF ~mem.sync /\ sd = Image("dirent") THEN {} ELSE {ShadowWrite("dirent")})
                   \cup {PublishWrite("secondary"), PublishWrite("primary")}
  <2>1. ToCome' = Elements(FlushWrites(si, sd))
    BY <1>4 DEF ToCome
  <2> QED
    BY <1>1, <1>2, <1>4, <2>1, PlannedFlush
<1>8. ~mem.sync => Coherent(Shadow)
  BY <1>1 DEF CommitInv
<1>9. Flushing'
  <2>1. machine.format >= 3 => \A m \in MirrorNames : PendingWrite(m) \in ToCome'
    BY <1>7 DEF MirrorNames
  <2>2. \A m \in MirrorNames : PublishWrite(m) \in ToCome'
    BY <1>7 DEF MirrorNames
  <2>3. ShadowWrite("inode") \in ToCome' \/ (~mem.sync /\ si = Image("inode"))
    BY <1>7
  <2>4. ShadowWrite("dirent") \in ToCome' \/ (~mem.sync /\ sd = Image("dirent"))
    BY <1>7
  <2>5. "inode" \in Tables /\ "dirent" \in Tables /\ \A kind \in Tables : kind = "inode" \/ kind = "dirent"
    BY DEF Tables
  <2>6. \A kind \in Tables :
           \/ ShadowWrite(kind) \in ToCome'
           \/ disk[kind][Shadow] = Image(kind) /\ cache[kind][Shadow] \subseteq {Image(kind)}
    BY <1>8, <2>3, <2>4, <2>5, UnwrittenTable
  <2>7. Landed'
    BY <1>6, <2>1, <2>2, <2>6 DEF Landed
  <2>8. PublishWrite("secondary")' \in ToCome' /\ PublishWrite("primary")' \in ToCome'
    BY <1>6, <1>7
  <2> QED
    BY <1>6, <1>7, <2>7, <2>8 DEF Flushing
<1>10. CommitInv'
  <2>1. Coherent(mem.active)'
    BY <1>1, SameCache DEF CommitInv, Coherent
  <2>2. Whole(BaseTree)' /\ mem'.gen \in Nat
    BY <1>1, <1>2, <1>4 DEF CommitInv, BaseTree, Whole
  <2> QED
    BY <1>1, <1>2, <1>4, <1>9, <2>1, <2>2 DEF CommitInv
<1>11. RecoveryInv'
  <2>1. SUFFICES ASSUME Guarded'
                 PROVE  phase' # "lost" /\ Mounted'
    BY <1>2 DEF RecoveryInv
  <2>2. Guarded /\ phase' # "lost"
    BY <1>2, <2>1 DEF Guarded, OneTear, Running
  <2>3. Mounted /\ Unpublished
    BY <1>1, <1>2, <2>2 DEF RecoveryInv, Mounted
  <2>4. Trees' = Trees /\ acked'.tree = acked.tree
    BY DEF Trees
  <2>5. /\ \A m : Current(m)' <=> Current(m)
        /\ PrimaryOld' <=> PrimaryOld
        /\ Ahead => Ahead'
        /\ Holds(mem.active, acked.tree) => Holds(mem.active, acked.tree)'
    BY <2>4, SameMirrors DEF Holds
  <2>6. AheadAllowed => AheadAllowed'
    <3>1. machine.format >= 3 => PendingWrite("secondary")' \in ToCome'
      BY <1>6, <1>7
    <3> QED
      BY <3>1 DEF AheadAllowed
  <2>7. Unpublished'
    BY <2>3, <2>5, <2>6 DEF Unpublished, Unharmed
  <2>8. BaseTree' = acked.tree /\ mem'.tree \in Trees'
    BY <1>2, <1>4, <2>3, <2>4 DEF BaseTree, Mounted
  <2>9. Whole(acked.tree)' /\ Holds(mem.active, acked.tree)'
    BY <2>3, <2>5 DEF Mounted, Whole
  <2>10. PublishWrite("secondary")' \in ToCome'
    BY <1>6, <1>7
  <2> QED
    BY <2>2, <2>4, <2>7, <2>8, <2>9, <2>10 DEF Mounted
<1>12. RepairInv'
  <2>1. Calm' = Calm /\ BothMirrors' = BothMirrors /\ Shadow' = Shadow
    BY DEF Calm, BothMirrors, Super, Shadow
  <2>2. Holds(mem.active, mem.tree)' = Holds(mem.active, mem.tree)
    BY DEF Holds
  <2>3. Holds(Shadow, mem.tree)' = Holds(Shadow, mem.tree)
    BY <2>1 DEF Holds
  <2> QED
    BY <1>1, <1>4, <2>1, <2>2, <2>3 DEF RepairInv
<1> QED
  BY <1>5, <1>10, <1>11, <1>12 DEF FsInv

(* A commit gives up before its first metadata write. *)
LEMMA RollbackKeeps ==
  ASSUME FsInv, commit.stage = "mutate", commit.kind = "op", mem' = RolledBack, commit' = NoCommit,
         UNCHANGED <<machine, phase, disk, cache, snap, check, acked, attempts, aliased,
                     txs, crashes, errors>>
  PROVE  FsInv'
<1>1. /\ Shape /\ CommitInv /\ RecoveryInv /\ RepairInv
      /\ DiskShape /\ MemShape /\ CommitShape /\ RestShape
  BY DEF FsInv, Shape
<1>2. Running /\ Running' /\ mem.gen \in Nat
  BY <1>1 DEF CommitInv, Running
<1>3. mem' = [tree |-> commit.undo.tree, free |-> commit.undo.free, slots |-> commit.undo.slots,
              active |-> mem.active, gen |-> mem.gen, sync |-> mem.sync]
  BY <1>1, MemRolledBack
<1>4. /\ mem'.tree = commit.undo.tree /\ mem'.free = commit.undo.free /\ mem'.slots = commit.undo.slots
      /\ mem'.active = mem.active /\ mem'.gen = mem.gen /\ mem'.sync = mem.sync
  <2>1. PICK m : m = mem'
    OBVIOUS
  <2>2. m = [tree |-> commit.undo.tree, free |-> commit.undo.free, slots |-> commit.undo.slots,
             active |-> mem.active, gen |-> mem.gen, sync |-> mem.sync]
    BY <1>3, <2>1
  <2>3. /\ m.tree = commit.undo.tree /\ m.free = commit.undo.free /\ m.slots = commit.undo.slots
        /\ m.active = mem.active /\ m.gen = mem.gen /\ m.sync = mem.sync
    BY <2>2
  <2> QED
    BY <2>1, <2>3
<1>5. commit'.kind = "none" /\ commit'.stage = "none" /\ commit'.writes = <<>>
  BY NoCommitShape
<1>6. Shape'
  <2>1. DiskShape' /\ RestShape'
    BY <1>1 DEF DiskShape, RestShape
  <2>2. MemShape'
    BY <1>1, <1>3, <1>4 DEF MemShape, CommitShape, FreeShape
  <2>3. CommitShape'
    BY NoCommitShape DEF CommitShape, FreeShape
  <2> QED
    BY <2>1, <2>2, <2>3 DEF Shape
<1>7. CommitInv'
  <2>1. Coherent(mem.active)' /\ (~mem.sync => Coherent(Shadow)')
    BY <1>1, <1>4, SameCache DEF CommitInv, Coherent, Shadow
  <2>2. Whole(BaseTree)' /\ mem'.gen \in Nat
    BY <1>1, <1>2, <1>4, <1>5 DEF CommitInv, BaseTree, Whole
  <2>3. check'.stage # "committing"
    BY <1>1 DEF CommitInv
  <2> QED
    BY <1>2, <1>4, <1>5, <2>1, <2>2, <2>3 DEF CommitInv
<1>8. RecoveryInv'
  <2>1. SUFFICES ASSUME Guarded'
                 PROVE  phase' # "lost" /\ Mounted'
    BY <1>2 DEF RecoveryInv
  <2>2. Guarded /\ phase' # "lost"
    BY <1>2, <2>1 DEF Guarded, OneTear, Running
  <2>3. Mounted /\ Unpublished
    BY <1>1, <1>2, <2>2 DEF RecoveryInv, Mounted
  <2>4. Trees' = Trees /\ acked'.tree = acked.tree /\ acked.tree \in Trees
    BY DEF Trees
  <2>5. /\ \A m : Current(m)' <=> Current(m)
        /\ PrimaryOld' <=> PrimaryOld
        /\ Ahead => Ahead'
        /\ Holds(mem.active, acked.tree) => Holds(mem.active, acked.tree)'
    BY <1>4, <2>4, SameMirrors DEF Holds
  <2>6. Unpublished'
    BY <1>5, <2>3, <2>5 DEF Unpublished, AheadAllowed, Unharmed
  <2>7. BaseTree' = acked.tree /\ mem'.tree \in Trees'
    BY <1>4, <1>5, <2>3, <2>4 DEF BaseTree, Mounted
  <2>8. Whole(acked.tree)' /\ Holds(mem.active, acked.tree)'
    BY <2>3, <2>5 DEF Mounted, Whole
  <2> QED
    BY <1>5, <2>2, <2>4, <2>6, <2>7, <2>8 DEF Mounted
<1>9. RepairInv'
  <2>1. SUFFICES ASSUME Calm' PROVE RepairInv'
    BY DEF RepairInv
  <2>2. Calm
    BY <2>1 DEF Calm
  <2>3. check.stage = "idle" /\ ~check.failed
    BY <1>1, <2>2 DEF RepairInv
  <2> QED
    BY <1>5, <2>3 DEF RepairInv
<1> QED
  BY <1>6, <1>7, <1>8, <1>9 DEF FsInv

LEMMA FlushKeeps ==
  ASSUME FsInv, Flush
  PROVE  FsInv'
<1> DEFINE valid == Valid(Len(mem.tree.dirents), mem.tree.inodes, mem.tree.dirents)
<1>1. /\ commit.stage = "mutate"
      /\ UNCHANGED <<machine, phase, disk, cache, snap, check, acked, attempts, aliased, txs, crashes, errors>>
  BY DEF Flush
<1>2. CASE valid
  <2>1. UNCHANGED mem /\ \E si \in Seen("inode"), sd \in Seen("dirent") :
           commit' = [commit EXCEPT !.stage = "flush", !.writes = FlushWrites(si, sd)]
    BY <1>2 DEF Flush
  <2> QED
    BY <1>1, <1>2, <2>1, FlushPlannedKeeps
<1>3. CASE ~valid
  <2>1. mem' = RolledBack /\ commit' = NoCommit
    BY <1>3 DEF Flush
  <2>2. commit.kind = "op"
    <3>1. CommitInv /\ CommitShape
      BY DEF FsInv, Shape
    <3>2. commit.kind = "repair" => valid
      BY <3>1 DEF CommitInv, Whole, BaseTree
    <3> QED
      BY <1>1, <1>3, <3>1, <3>2 DEF CommitShape
  <2> QED
    BY <1>1, <2>1, <2>2, RollbackKeeps
<1> QED
  BY <1>2, <1>3

-----------------------------------------------------------------------------
(* The next write of a flush. *)

LEMMA HeadFacts ==
  ASSUME MemShape, CommitShape, mem.gen \in Nat, Flushing, commit.writes # <<>>,
         NEW x, x = Head(commit.writes), NEW rest, rest = Elements(Tail(commit.writes))
  PROVE  /\ x \in {PendingWrite("secondary"), PendingWrite("primary"), ShadowWrite("inode"),
                   ShadowWrite("dirent"), PublishWrite("secondary"), PublishWrite("primary")}
         /\ ToCome = {x} \cup rest /\ x \notin rest
         /\ Tail(commit.writes) \in Seq(PlannedWrites) /\ InOrder(Tail(commit.writes))
         /\ x # PendingWrite("secondary") => PendingWrite("secondary") \notin ToCome
         /\ x = PublishWrite("primary") => PublishWrite("secondary") \notin ToCome
         /\ x \in {PendingWrite("secondary"), PendingWrite("primary"), ShadowWrite("inode"),
                   ShadowWrite("dirent")} => PublishWrite("secondary") \in rest
         /\ x # PublishWrite("primary") => PublishWrite("primary") \in rest
         /\ \A y \in rest : /\ Rank(y) < 5 => PublishWrite("secondary") \in rest
                            /\ PublishWrite("primary") \in rest
<1> DEFINE p1 == PendingWrite("secondary")
           p2 == PendingWrite("primary")
           p3 == ShadowWrite("inode")
           p4 == ShadowWrite("dirent")
           p5 == PublishWrite("secondary")
           p6 == PublishWrite("primary")
<1>1. /\ Rank(p1) = 1 /\ Rank(p2) = 2 /\ Rank(p3) = 3 /\ Rank(p4) = 4 /\ Rank(p5) = 5 /\ Rank(p6) = 6
      /\ \A y \in PlannedWrites : y \in {p1, p2, p3, p4, p5, p6}
  BY Ranks
<1>2. /\ x \in PlannedWrites /\ Tail(commit.writes) \in Seq(PlannedWrites) /\ InOrder(Tail(commit.writes))
      /\ ToCome = {x} \cup rest
      /\ \A y \in rest : y \in PlannedWrites /\ Rank(x) < Rank(y) /\ y # x
  BY RanksAreNumbers, NextWrite DEF Flushing, ToCome
<1>3. \A y \in ToCome : (Rank(y) < 5 => p5 \in ToCome) /\ p6 \in ToCome
  BY DEF Flushing
<1> HIDE DEF p1, p2, p3, p4, p5, p6
<1>4. /\ x \in {p1, p2, p3, p4, p5, p6}
      /\ \A y \in rest : y \in {p1, p2, p3, p4, p5, p6} /\ Rank(x) < Rank(y) /\ y # x
  BY <1>1, <1>2
<1>5. x # p1 => p1 \notin ToCome
  BY <1>1, <1>2, <1>4, SMT, Z3T(40)
<1>6. x = p6 => p5 \notin ToCome
  BY <1>1, <1>2, <1>4, SMT, Z3T(40)
<1>7. x \in {p1, p2, p3, p4} => p5 \in rest
  BY <1>1, <1>2, <1>3, <1>4, SMT, Z3T(40)
<1>8. x # p6 => p6 \in rest
  BY <1>2, <1>3
<1>9. \A y \in rest : (Rank(y) < 5 => p5 \in rest) /\ p6 \in rest
  <2> SUFFICES ASSUME NEW y \in rest
               PROVE  (Rank(y) < 5 => p5 \in rest) /\ p6 \in rest
    OBVIOUS
  <2>1. x # p6
    BY <1>1, <1>4, SMT, Z3T(40)
  <2>2. Rank(y) < 5 => x # p5
    BY <1>1, <1>4, SMT, Z3T(40)
  <2> QED
    BY <1>2, <1>3, <1>8, <2>1, <2>2
<1> QED
  BY <1>2, <1>4, <1>5, <1>6, <1>7, <1>8, <1>9 DEF p1, p2, p3, p4, p5, p6

-----------------------------------------------------------------------------
(* What a write, or the part of one, makes of the device and of the cache. *)

IsDisk(d) ==
    /\ d = [super |-> d.super, inode |-> d.inode, dirent |-> d.dirent, data |-> d.data]
    /\ d.super \in [MirrorNames -> Superblock \cup {Torn}]
    /\ d.inode \in [Slots -> InodeTable \cup {Torn}]
    /\ d.dirent \in [Slots -> Seq(Dirent) \cup {Torn}]

Put(d, kind, where, v) == [d EXCEPT ![kind][where] = v]

LEMMA MirrorPut ==
  ASSUME DiskShape, NEW m \in MirrorNames, NEW v \in Superblock \cup {Torn}, NEW k, k = "super",
         NEW d, d = Put(disk, k, m, v)
  PROVE  /\ IsDisk(d)
         /\ d.inode = disk.inode /\ d.dirent = disk.dirent
         /\ d.super[m] = v /\ \A n \in MirrorNames : n # m => d.super[n] = disk.super[n]
<1>1. PICK s : s = [disk.super EXCEPT ![m] = v]
  OBVIOUS
<1>2. d = [super |-> s, inode |-> disk.inode, dirent |-> disk.dirent, data |-> disk.data]
  BY <1>1, SuperWritten DEF Put
<1>3. PICK e : e = [super |-> s, inode |-> disk.inode, dirent |-> disk.dirent, data |-> disk.data]
  OBVIOUS
<1>4. /\ e.super = s /\ e.inode = disk.inode /\ e.dirent = disk.dirent
      /\ e = [super |-> e.super, inode |-> e.inode, dirent |-> e.dirent, data |-> e.data]
  BY <1>3
<1>5. /\ s \in [MirrorNames -> Superblock \cup {Torn}] /\ s[m] = v
      /\ \A n \in MirrorNames : n # m => s[n] = disk.super[n]
  BY <1>1 DEF DiskShape
<1>6. d = e
  BY <1>2, <1>3
<1>7. IsDisk(e)
  BY <1>4, <1>5 DEF IsDisk, DiskShape
<1> QED
  BY <1>4, <1>5, <1>6, <1>7

LEMMA InodePut ==
  ASSUME DiskShape, NEW slot \in Slots, NEW v \in InodeTable \cup {Torn}, NEW k, k = "inode",
         NEW d, d = Put(disk, k, slot, v)
  PROVE  /\ IsDisk(d)
         /\ d.super = disk.super /\ d.dirent = disk.dirent
         /\ d.inode[slot] = v /\ \A n \in Slots : n # slot => d.inode[n] = disk.inode[n]
<1>1. PICK s : s = [disk.inode EXCEPT ![slot] = v]
  OBVIOUS
<1>2. d = [super |-> disk.super, inode |-> s, dirent |-> disk.dirent, data |-> disk.data]
  BY <1>1, InodeWritten DEF Put
<1>3. PICK e : e = [super |-> disk.super, inode |-> s, dirent |-> disk.dirent, data |-> disk.data]
  OBVIOUS
<1>4. /\ e.super = disk.super /\ e.inode = s /\ e.dirent = disk.dirent
      /\ e = [super |-> e.super, inode |-> e.inode, dirent |-> e.dirent, data |-> e.data]
  BY <1>3
<1>5. /\ s \in [Slots -> InodeTable \cup {Torn}] /\ s[slot] = v
      /\ \A n \in Slots : n # slot => s[n] = disk.inode[n]
  BY <1>1 DEF DiskShape
<1>6. d = e
  BY <1>2, <1>3
<1>7. IsDisk(e)
  BY <1>4, <1>5 DEF IsDisk, DiskShape
<1> QED
  BY <1>4, <1>5, <1>6, <1>7

LEMMA DirentPut ==
  ASSUME DiskShape, NEW slot \in Slots, NEW v \in Seq(Dirent) \cup {Torn}, NEW k, k = "dirent",
         NEW d, d = Put(disk, k, slot, v)
  PROVE  /\ IsDisk(d)
         /\ d.super = disk.super /\ d.inode = disk.inode
         /\ d.dirent[slot] = v /\ \A n \in Slots : n # slot => d.dirent[n] = disk.dirent[n]
<1>1. PICK s : s = [disk.dirent EXCEPT ![slot] = v]
  OBVIOUS
<1>2. d = [super |-> disk.super, inode |-> disk.inode, dirent |-> s, data |-> disk.data]
  BY <1>1, DirentWritten DEF Put
<1>3. PICK e : e = [super |-> disk.super, inode |-> disk.inode, dirent |-> s, data |-> disk.data]
  OBVIOUS
<1>4. /\ e.super = disk.super /\ e.inode = disk.inode /\ e.dirent = s
      /\ e = [super |-> e.super, inode |-> e.inode, dirent |-> e.dirent, data |-> e.data]
  BY <1>3
<1>5. /\ s \in [Slots -> Seq(Dirent) \cup {Torn}] /\ s[slot] = v
      /\ \A n \in Slots : n # slot => s[n] = disk.dirent[n]
  BY <1>1 DEF DiskShape
<1>6. d = e
  BY <1>2, <1>3
<1>7. IsDisk(e)
  BY <1>4, <1>5 DEF IsDisk, DiskShape
<1> QED
  BY <1>4, <1>5, <1>6, <1>7

LEMMA TablePut ==
  ASSUME DiskShape, NEW slot \in Slots, NEW kind \in Tables, NEW v,
         v = Torn \/ (kind = "inode" /\ v \in InodeTable) \/ (kind = "dirent" /\ v \in Seq(Dirent)),
         NEW d, d = Put(disk, kind, slot, v)
  PROVE  /\ IsDisk(d)
         /\ d.super = disk.super
         /\ d[kind][slot] = v
         /\ \A k \in Tables, n \in Slots : k # kind \/ n # slot => d[k][n] = disk[k][n]
<1>1. /\ disk.inode \in [Slots -> InodeTable \cup {Torn}] /\ disk.dirent \in [Slots -> Seq(Dirent) \cup {Torn}]
      /\ "inode" # "dirent"
  BY DEF DiskShape
<1>2. CASE kind = "inode"
  <2>1. v \in InodeTable \cup {Torn}
    BY <1>1, <1>2
  <2>2. /\ IsDisk(d)
        /\ d.super = disk.super /\ d.dirent = disk.dirent
        /\ d.inode[slot] = v /\ \A n \in Slots : n # slot => d.inode[n] = disk.inode[n]
    BY <1>2, <2>1, InodePut, SMTT(30), Z3T(40)
  <2>3. \A k \in Tables : k = kind \/ k = "dirent"
    BY <1>2 DEF Tables
  <2> QED
    BY <1>1, <1>2, <2>2, <2>3
<1>3. CASE kind = "dirent"
  <2>1. v \in Seq(Dirent) \cup {Torn}
    BY <1>1, <1>3
  <2>2. /\ IsDisk(d)
        /\ d.super = disk.super /\ d.inode = disk.inode
        /\ d.dirent[slot] = v /\ \A n \in Slots : n # slot => d.dirent[n] = disk.dirent[n]
    BY <1>3, <2>1, DirentPut, SMTT(30), Z3T(40)
  <2>3. \A k \in Tables : k = kind \/ k = "inode"
    BY <1>3 DEF Tables
  <2> QED
    BY <1>1, <1>3, <2>2, <2>3
<1> QED
  BY <1>2, <1>3 DEF Tables

IsCache(c) == c = [k \in Tables |-> [n \in Slots |-> c[k][n]]]

LEMMA CachePut ==
  ASSUME NEW a, IsCache(a),
         NEW kind \in Tables, NEW slot \in Slots, NEW v, NEW c, c = Put(a, kind, slot, v)
  PROVE  /\ IsCache(c) /\ c[kind][slot] = v
         /\ \A k \in Tables, n \in Slots : k # kind \/ n # slot => c[k][n] = a[k][n]
<1>1. DOMAIN a = Tables /\ \A k \in Tables : a[k] = [n \in Slots |-> a[k][n]]
  BY SMT, Z3T(40) DEF IsCache
<1>2. PICK r : r = [a[kind] EXCEPT ![slot] = v]
  OBVIOUS
<1>3. r = [n \in Slots |-> r[n]] /\ r[slot] = v /\ \A n \in Slots : n # slot => r[n] = a[kind][n]
  BY <1>1, <1>2
<1>4. c = [a EXCEPT ![kind] = r]
  BY <1>2 DEF Put
<1>5. c = [k \in Tables |-> c[k]] /\ c[kind] = r /\ \A k \in Tables : k # kind => c[k] = a[k]
  BY <1>1, <1>4
<1>6. ASSUME NEW k \in Tables PROVE c[k] = [n \in Slots |-> c[k][n]]
  <2>1. CASE k = kind
    BY <1>3, <1>5, <2>1
  <2>2. CASE k # kind
    <3>1. c[k] = a[k] /\ a[k] = [n \in Slots |-> a[k][n]]
      BY <1>1, <1>5, <2>2
    <3> QED
      BY <3>1
  <2> QED
    BY <2>1, <2>2
<1>7. /\ c[kind][slot] = v
      /\ \A k \in Tables, n \in Slots : k # kind \/ n # slot => c[k][n] = a[k][n]
  <2>1. c[kind][slot] = v
    BY <1>3, <1>5
  <2>2. ASSUME NEW k \in Tables, NEW n \in Slots, k # kind \/ n # slot
        PROVE  c[k][n] = a[k][n]
    <3>1. CASE k = kind
      BY <1>3, <1>5, <2>2, <3>1
    <3>2. CASE k # kind
      BY <1>5, <3>2
    <3> QED
      BY <3>1, <3>2
  <2> QED
    BY <2>1, <2>2
<1>8. IsCache(c)
  BY <1>5, <1>6 DEF IsCache
<1> QED
  BY <1>7, <1>8

(* The writes a commit goes by while it goes on. *)
LEMMA SamePlan ==
  ASSUME UNCHANGED mem, commit'.undo = commit.undo
  PROVE  /\ UNCHANGED <<Pending, Published, Shadow, PlannedWrites>>
         /\ \A m : PendingWrite(m)' = PendingWrite(m) /\ PublishWrite(m)' = PublishWrite(m)
         /\ \A kind : ShadowWrite(kind)' = ShadowWrite(kind) /\ Image(kind)' = Image(kind)
BY DEF Pending, Published, Shadow, PlannedWrites, PendingWrite, PublishWrite, ShadowWrite, Image, Super, Swapped

(* A write to a mirror lands. *)
LEMMA MirrorLands ==
  ASSUME DiskShape, MemShape, CommitShape, mem.gen \in Nat, Flushing,
         NEW rest, NEW x, ToCome = {x} \cup rest, ToCome' = rest,
         NEW m \in MirrorNames, x = PendingWrite(m) \/ x = PublishWrite(m),
         x = PendingWrite(m) => PublishWrite(m) \in rest,
         disk'.super[m] = x.value, \A n \in MirrorNames : n # m => disk'.super[n] = disk.super[n],
         disk'.inode = disk.inode, disk'.dirent = disk.dirent,
         UNCHANGED <<machine, mem, cache>>, commit'.undo = commit.undo
  PROVE  Landed'
<1>1. /\ x.kind = "super" /\ x.where = m /\ x.value \in {Pending, Published}
      /\ x = PublishWrite(m) => x.value = Published
  <2>1. CASE x = PendingWrite(m)
    <3>1. PendingWrite(m).kind = "super" /\ PendingWrite(m).where = m /\ PendingWrite(m).value = Pending
      BY WriteFields
    <3>2. PublishWrite(m).value = Published
      BY WriteFields
    <3> QED
      BY <2>1, <3>1, <3>2
  <2>2. CASE x = PublishWrite(m)
    BY <2>2, WriteFields
  <2> QED
    BY <2>1, <2>2
<1>6. Landed'
  <2>1. /\ UNCHANGED <<Pending, Published, Shadow, PlannedWrites>>
        /\ \A n : PendingWrite(n)' = PendingWrite(n) /\ PublishWrite(n)' = PublishWrite(n)
        /\ \A kind : ShadowWrite(kind)' = ShadowWrite(kind) /\ Image(kind)' = Image(kind)
    BY SamePlan
  <2>2. \A n \in MirrorNames : n # m => PendingWrite(n) # x /\ PublishWrite(n) # x
    BY <1>1, WriteFields
  <2>3. \A kind \in Tables : ShadowWrite(kind) # x
    BY <1>1, WriteFields, Roles
  <2>4. machine.format >= 3 => \A n \in MirrorNames : PendingWrite(n) \in rest \/ disk'.super[n] \in {Pending, Published}
    BY <1>1, <2>2 DEF Flushing, Landed
  <2>5. \A kind \in Tables : disk'[kind] = disk[kind]
    BY DEF Tables
  <2>6. \A kind \in Tables :
           \/ ShadowWrite(kind) \in rest
           \/ disk'[kind][Shadow] = Image(kind) /\ cache'[kind][Shadow] \subseteq {Image(kind)}
    BY <2>3, <2>5 DEF Flushing, Landed
  <2>7. \A n \in MirrorNames : PublishWrite(n) \in rest \/ disk'.super[n] = Published
    <3> SUFFICES ASSUME NEW n \in MirrorNames PROVE PublishWrite(n) \in rest \/ disk'.super[n] = Published
      OBVIOUS
    <3>1. CASE n = m
      BY <1>1, <3>1
    <3>2. CASE n # m
      BY <2>2, <3>2 DEF Flushing, Landed
    <3> QED
      BY <3>1, <3>2
  <2> QED
    BY <2>1, <2>4, <2>6, <2>7 DEF Landed
<1> QED
  BY <1>6

(* A write to a table of the shadow slot lands. *)
LEMMA TableLands ==
  ASSUME DiskShape, MemShape, CommitShape, RestShape, mem.gen \in Nat, Flushing,
         NEW rest, NEW x, ToCome = {x} \cup rest, ToCome' = rest,
         NEW kind \in Tables, x = ShadowWrite(kind),
         disk'.super = disk.super, disk'[kind][Shadow] = Image(kind), cache'[kind][Shadow] = {Image(kind)},
         \A k \in Tables : k # kind => disk'[k][Shadow] = disk[k][Shadow] /\ cache'[k][Shadow] = cache[k][Shadow],
         UNCHANGED <<machine, mem>>, commit'.undo = commit.undo
  PROVE  Landed'
<1>1. x.kind = kind
  BY WriteFields
<1>6. Landed'
  <2>1. /\ UNCHANGED <<Pending, Published, Shadow, PlannedWrites>>
        /\ \A n : PendingWrite(n)' = PendingWrite(n) /\ PublishWrite(n)' = PublishWrite(n)
        /\ \A k : ShadowWrite(k)' = ShadowWrite(k) /\ Image(k)' = Image(k)
    BY SamePlan
  <2>2. \A n \in MirrorNames : PendingWrite(n) # x /\ PublishWrite(n) # x
    BY <1>1, WriteFields, Roles
  <2>3. \A k \in Tables : k # kind => ShadowWrite(k) # x
    BY <1>1, WriteFields
  <2>4. machine.format >= 3 => \A n \in MirrorNames : PendingWrite(n) \in rest \/ disk'.super[n] \in {Pending, Published}
    BY <2>2 DEF Flushing, Landed
  <2>5. \A k \in Tables :
           \/ ShadowWrite(k) \in rest
           \/ disk'[k][Shadow] = Image(k) /\ cache'[k][Shadow] \subseteq {Image(k)}
    BY <2>3 DEF Flushing, Landed
  <2>6. \A n \in MirrorNames : PublishWrite(n) \in rest \/ disk'.super[n] = Published
    BY <2>2 DEF Flushing, Landed
  <2> QED
    BY <2>1, <2>4, <2>5, <2>6 DEF Landed
<1> QED
  BY <1>6

(* One of the writes is done. *)
GoesOn ==
    /\ commit' = [commit EXCEPT !.writes = Tail(@)]
    /\ UNCHANGED <<machine, phase, mem, snap, check, acked, attempts, crashes, errors>>

(* A flush goes on when one of its writes has landed. *)
LEMMA FlushGoesOn ==
  ASSUME FsInv, commit.stage = "flush", commit.writes # <<>>,
         NEW rest, rest = Elements(Tail(commit.writes)),
         GoesOn,
         IsDisk(disk'), IsCache(cache'),
         \A k \in Tables : disk'[k][mem.active] = disk[k][mem.active] /\ cache'[k][mem.active] = cache[k][mem.active],
         Landed',
         Guarded /\ Mounted => IF PublishWrite("secondary") \notin rest THEN Publishing' ELSE Unpublished'
  PROVE  FsInv'
<1>0. /\ commit' = [commit EXCEPT !.writes = Tail(@)]
      /\ UNCHANGED <<machine, phase, mem, snap, check, acked, attempts, crashes, errors>>
  BY DEF GoesOn
<1>1. /\ Shape /\ CommitInv /\ RecoveryInv /\ RepairInv
      /\ DiskShape /\ MemShape /\ CommitShape /\ RestShape
  BY <1>0 DEF FsInv, Shape
<1>2. commit.kind \in {"op", "repair"} /\ Running /\ Running' /\ mem.gen \in Nat /\ Flushing
  BY <1>0, <1>1 DEF CommitShape, CommitInv, Running
<1>3. commit' = [kind |-> commit.kind, stage |-> commit.stage, writes |-> Tail(commit.writes),
                 undo |-> commit.undo, view |-> commit.view]
  BY <1>0, <1>1, CommitAdvanced
<1>4. /\ commit'.kind = commit.kind /\ commit'.stage = "flush" /\ commit'.writes = Tail(commit.writes)
      /\ commit'.undo = commit.undo
  BY <1>0, <1>3
<1>5. Shape'
  <2>1. MemShape' /\ DiskShape'
    BY <1>0, <1>1 DEF DiskShape, IsDisk, MemShape, FreeShape
  <2>2. RestShape'
    BY <1>0, <1>1 DEF RestShape, IsCache
  <2>3. CommitShape'
    <3>1. commit' = [kind |-> commit'.kind, stage |-> commit'.stage, writes |-> commit'.writes,
                     undo |-> commit'.undo, view |-> commit'.view]
      BY <1>0, <1>3
    <3> QED
      BY <1>0, <1>1, <1>2, <1>4, <3>1 DEF CommitShape, FreeShape
  <2> QED
    BY <1>0, <2>1, <2>2, <2>3 DEF Shape
<1>6. /\ UNCHANGED <<Pending, Published, Shadow, PlannedWrites>>
      /\ \A m : PendingWrite(m)' = PendingWrite(m) /\ PublishWrite(m)' = PublishWrite(m)
      /\ \A kind : ShadowWrite(kind)' = ShadowWrite(kind) /\ Image(kind)' = Image(kind)
  BY <1>0, <1>4, SamePlan
<1>7. /\ Tail(commit.writes) \in Seq(PlannedWrites) /\ InOrder(Tail(commit.writes))
      /\ \A y \in rest : /\ Rank(y) < 5 => PublishWrite("secondary") \in rest
                         /\ PublishWrite("primary") \in rest
  BY <1>0, <1>1, <1>2, HeadFacts
<1>8. ToCome' = rest
  BY <1>0, <1>4 DEF ToCome
<1>9. Flushing'
  <2>1. /\ commit'.writes \in Seq(PlannedWrites') /\ InOrder(commit'.writes)
        /\ \A y \in ToCome' : /\ Rank(y) < 5 => PublishWrite("secondary")' \in ToCome'
                              /\ PublishWrite("primary")' \in ToCome'
    BY <1>0, <1>4, <1>6, <1>7, <1>8
  <2>2. Valid(Len(mem'.tree.dirents), mem'.tree.inodes, mem'.tree.dirents)
    BY <1>0, <1>2 DEF Flushing
  <2> QED
    BY <1>0, <2>1, <2>2 DEF Flushing
<1>10. CommitInv'
  <2>1. Coherent(mem.active)'
    BY <1>0, <1>1 DEF CommitInv, Coherent
  <2>2. Whole(BaseTree)' /\ mem'.gen \in Nat
    BY <1>0, <1>1, <1>2, <1>4 DEF CommitInv, BaseTree, Whole
  <2> QED
    BY <1>0, <1>1, <1>2, <1>4, <1>9, <2>1, <2>2 DEF CommitInv
<1>11. \A tree : Holds(mem.active, tree)' <=> Holds(mem.active, tree)
  <2>1. disk'.inode[mem.active] = disk.inode[mem.active] /\ disk'.dirent[mem.active] = disk.dirent[mem.active]
    BY <1>0 DEF Tables
  <2> QED
    BY <1>0, <2>1 DEF Holds
<1>12. RecoveryInv'
  <2>1. SUFFICES ASSUME Guarded'
                 PROVE  phase' # "lost" /\ Mounted'
    BY <1>0, <1>2 DEF RecoveryInv
  <2>2. Guarded /\ phase' # "lost"
    BY <1>0, <1>2, <2>1 DEF Guarded, OneTear, Running
  <2>3. Mounted
    BY <1>0, <1>1, <1>2, <2>2 DEF RecoveryInv
  <2>4. Trees' = Trees /\ acked'.tree = acked.tree
    BY <1>0 DEF Trees
  <2>5. BaseTree' = acked'.tree /\ mem'.tree \in Trees'
    BY <1>0, <1>2, <1>4, <2>3, <2>4 DEF BaseTree, Mounted
  <2>6. Whole(acked.tree)' /\ Holds(mem.active, acked.tree)'
    BY <1>0, <1>11, <2>3 DEF Mounted, Whole, Holds
  <2>7. (IF commit.stage = "flush" /\ PublishWrite("secondary") \notin ToCome THEN Publishing ELSE Unpublished)'
    BY <1>0, <1>4, <1>6, <1>8, <2>2, <2>3
  <2> QED
    BY <1>0, <2>2, <2>5, <2>6, <2>7 DEF Mounted
<1>13. RepairInv'
  <2>1. SUFFICES ASSUME Calm' PROVE RepairInv'
    BY <1>0 DEF RepairInv
  <2>2. Calm
    BY <1>0, <2>1 DEF Calm
  <2>3. check.stage = "committing" \/ check.stage = "idle"
    BY <1>0, <1>1, <1>2, <2>2 DEF RepairInv, CommitInv
  <2>4. check.stage = "committing" /\ check.round = 2 => Holds(mem.active, mem.tree)'
    BY <1>0, <1>1, <1>11, <2>2 DEF RepairInv, Holds
  <2>5. check.stage = "committing" => check.round \in {1, 2}
    BY <1>0, <1>1, <2>2 DEF RepairInv
  <2>6. /\ ~check.failed /\ (check.stage # "idle" => phase = "mounted")
        /\ (phase = "mounted" => commit.kind # "op")
    BY <1>0, <1>1, <2>2 DEF RepairInv
  <2> QED
    BY <1>0, <1>4, <2>3, <2>4, <2>5, <2>6 DEF RepairInv
<1> QED
  BY <1>0, <1>5, <1>10, <1>12, <1>13 DEF FsInv

LEMMA SameMirror ==
  ASSUME NEW n, disk'.super[n] = disk.super[n],
         mem'.active = mem.active, mem'.gen = mem.gen, acked'.tree = acked.tree
  PROVE  (Current(n)' <=> Current(n)) /\ (Before(n, mem.gen)' <=> Before(n, mem.gen))
BY DEF Current, Records, Before

LEMMA PendingIsCurrent ==
  ASSUME MemShape, CommitShape, mem.gen \in Nat, NEW n, disk'.super[n] = Pending,
         UNCHANGED <<mem, acked>>, commit.undo.tree = acked.tree
  PROVE  Current(n)'
<1>1. /\ disk'.super[n] # Torn /\ disk'.super[n].gen = mem.gen /\ disk'.super[n].active = mem.active
      /\ disk'.super[n].inodes = Len(acked.tree.inodes) /\ disk'.super[n].dirents = Len(acked.tree.dirents)
  BY WriteFields
<1> QED
  BY <1>1 DEF Current, Records

LEMMA MirrorWriteKeeps ==
  ASSUME FsInv, commit.stage = "flush", commit.writes # <<>>,
         NEW x, x = Head(commit.writes), NEW m \in MirrorNames, x = PendingWrite(m) \/ x = PublishWrite(m),
         disk' = Put(disk, x.kind, x.where, x.value), UNCHANGED cache,
         GoesOn
  PROVE  FsInv'
<1>0. /\ commit' = [commit EXCEPT !.writes = Tail(@)]
      /\ UNCHANGED <<machine, mem, acked>> /\ UNCHANGED <<crashes, errors>>
  BY DEF GoesOn
<1>1. /\ DiskShape /\ MemShape /\ CommitShape /\ RestShape /\ CommitInv
  BY DEF FsInv, Shape
<1>2. commit.kind \in {"op", "repair"} /\ mem.gen \in Nat /\ Flushing
  BY <1>1 DEF CommitShape, CommitInv
<1>3. PICK rest : rest = Elements(Tail(commit.writes))
  OBVIOUS
<1>4. /\ ToCome = {x} \cup rest /\ x \notin rest
      /\ x # PendingWrite("secondary") => PendingWrite("secondary") \notin ToCome
      /\ x = PublishWrite("primary") => PublishWrite("secondary") \notin ToCome
      /\ x \in {PendingWrite("secondary"), PendingWrite("primary")} => PublishWrite("secondary") \in rest
      /\ x # PublishWrite("primary") => PublishWrite("primary") \in rest
  BY <1>1, <1>2, <1>3, HeadFacts
<1>5. /\ commit'.undo = commit.undo /\ commit'.writes = Tail(commit.writes) /\ commit'.stage = commit.stage
  <2>1. commit' = [kind |-> commit.kind, stage |-> commit.stage, writes |-> Tail(commit.writes),
                   undo |-> commit.undo, view |-> commit.view]
    BY <1>0, <1>1, CommitAdvanced
  <2> QED
    BY <2>1
<1>6. ToCome' = rest
  BY <1>3, <1>5 DEF ToCome
<1>7. PICK v : v = x.value
  OBVIOUS
<1>8. /\ x.kind = "super" /\ x.where = m /\ v \in Superblock \cup {Torn}
      /\ x = PendingWrite(m) => v = Pending
      /\ x = PublishWrite(m) => v = Published
  <2>1. /\ PendingWrite(m).kind = "super" /\ PendingWrite(m).where = m /\ PendingWrite(m).value = Pending
        /\ PublishWrite(m).kind = "super" /\ PublishWrite(m).where = m /\ PublishWrite(m).value = Published
        /\ Pending \in Superblock /\ Published \in Superblock
    BY <1>1, <1>2, WriteFields
  <2>2. CASE x = PendingWrite(m)
    BY <1>7, <2>1, <2>2
  <2>3. CASE x = PublishWrite(m)
    BY <1>7, <2>1, <2>3
  <2> QED
    BY <2>2, <2>3
<1>9. /\ IsDisk(disk') /\ disk'.inode = disk.inode /\ disk'.dirent = disk.dirent
      /\ disk'.super[m] = v /\ \A n \in MirrorNames : n # m => disk'.super[n] = disk.super[n]
  <2>1. PICK d : d = disk'
    OBVIOUS
  <2>2. d = Put(disk, "super", m, v)
    BY <1>7, <1>8, <2>1
  <2>3. /\ IsDisk(d) /\ d.inode = disk.inode /\ d.dirent = disk.dirent
        /\ d.super[m] = v /\ \A n \in MirrorNames : n # m => d.super[n] = disk.super[n]
    <3>1. DiskShape /\ v \in Superblock \cup {Torn}
      BY <1>1, <1>8
    <3> QED
      BY <2>2, <3>1, MirrorPut, SMTT(30), Z3T(40)
  <2> QED
    BY <2>1, <2>3
<1>10. "primary" \in MirrorNames /\ "secondary" \in MirrorNames /\ "primary" # "secondary"
       /\ (m = "primary" \/ m = "secondary")
  BY DEF MirrorNames
<1>11. x = PendingWrite(m) => PublishWrite(m) \in rest
  <2>1. x = PendingWrite(m) => x # PublishWrite("primary")
    <3>1. Pending # Published /\ PublishWrite("primary").value = Published
      BY <1>1, <1>2, WriteFields, SMT, Z3T(40)
    <3> QED
      BY <1>7, <1>8, <3>1
  <2> QED
    BY <1>4, <1>10, <2>1
<1>12. Landed'
  <2>1. disk'.super[m] = x.value /\ commit'.undo = commit.undo /\ UNCHANGED <<machine, mem, cache>>
    BY <1>0, <1>5, <1>7, <1>9
  <2>2. DiskShape /\ MemShape /\ CommitShape /\ mem.gen \in Nat /\ Flushing
    BY <1>1, <1>2
  <2>3. ToCome = {x} \cup rest /\ ToCome' = rest
    BY <1>4, <1>6
  <2>4. \A n \in MirrorNames : n # m => disk'.super[n] = disk.super[n]
    BY <1>9
  <2>5. disk'.inode = disk.inode /\ disk'.dirent = disk.dirent
    BY <1>9
  <2> QED
    BY <1>11, <2>1, <2>2, <2>3, <2>4, <2>5, MirrorLands
<1>13. /\ UNCHANGED <<Pending, Published, Shadow>>
       /\ \A n : PendingWrite(n)' = PendingWrite(n) /\ PublishWrite(n)' = PublishWrite(n)
  BY <1>0, <1>5, SamePlan
<1>14. ASSUME Guarded, Mounted
       PROVE  IF PublishWrite("secondary") \notin rest THEN Publishing' ELSE Unpublished'
  <2>1. commit.undo.tree = acked.tree
    BY <1>2, <1>14 DEF Mounted, BaseTree
  <2>2. \A n \in MirrorNames : n # m => (Current(n)' <=> Current(n)) /\ (Before(n, mem.gen)' <=> Before(n, mem.gen))
    BY <1>0, <1>9, SameMirror
  <2>3. v = Pending => Current(m)'
    BY <1>1, <1>2, <1>9, <1>0, <2>1, PendingIsCurrent
  <2>4. CASE x = PendingWrite("secondary") /\ m = "secondary"
    <3>1. PublishWrite("secondary") \in rest /\ PublishWrite("secondary") \in ToCome
      BY <1>4, <2>4
    <3>2. Unpublished
      BY <1>14, <3>1 DEF Mounted
    <3>3. Current("secondary")'
      BY <1>8, <2>3, <2>4
    <3>4. (Current("primary")' <=> Current("primary")) /\ (Before("primary", mem.gen)' <=> Before("primary", mem.gen))
      BY <1>10, <2>2, <2>4
    <3>5. Unpublished'
      BY <1>0, <3>2, <3>3, <3>4 DEF Unpublished, PrimaryOld, Unharmed
    <3> QED
      BY <3>1, <3>5
  <2>5. CASE x = PendingWrite("primary") /\ m = "primary"
    <3>1. PublishWrite("secondary") \in rest /\ PublishWrite("secondary") \in ToCome
      BY <1>4, <2>5
    <3>2. Unpublished
      BY <1>14, <3>1 DEF Mounted
    <3>3. Current("primary")'
      BY <1>8, <2>3, <2>5
    <3>4. (Current("secondary")' <=> Current("secondary")) /\ disk'.super["secondary"] = disk.super["secondary"]
      BY <1>9, <1>10, <2>2, <2>5
    <3>5. ~AheadAllowed
      <4>1. x # PendingWrite("secondary")
        <5>1. PendingWrite("secondary").where = "secondary"
          BY <1>1, <1>2, WriteFields
        <5> QED
          BY <1>8, <1>10, <2>5, <5>1
      <4> QED
        BY <1>4, <4>1 DEF AheadAllowed
    <3>6. Unpublished'
      BY <1>0, <3>2, <3>3, <3>4, <3>5 DEF Unpublished, PrimaryOld, Unharmed
    <3> QED
      BY <3>1, <3>6
  <2>6. CASE x = PublishWrite("secondary") /\ m = "secondary"
    <3>1. PublishWrite("secondary") \notin rest /\ PublishWrite("secondary") \in ToCome
      BY <1>4, <2>6
    <3>2. Unpublished
      BY <1>14, <3>1 DEF Mounted
    <3>3. disk'.super["secondary"] = Published'
      BY <1>8, <1>9, <1>13, <2>6
    <3>4. (Current("primary")' <=> Current("primary")) /\ (Before("primary", mem.gen)' <=> Before("primary", mem.gen))
      BY <1>10, <2>2, <2>6
    <3>5. Publishing'
      BY <1>0, <3>2, <3>3, <3>4 DEF Unpublished, Publishing, PrimaryOld, Unharmed
    <3> QED
      BY <3>1, <3>5
  <2>7. CASE x = PublishWrite("primary") /\ m = "primary"
    <3>1. PublishWrite("secondary") \notin rest /\ PublishWrite("secondary") \notin ToCome
      BY <1>4, <2>7
    <3>2. Publishing
      BY <1>14, <3>1 DEF Mounted
    <3>3. disk'.super["primary"] = Published' /\ disk'.super["secondary"] = Published'
      BY <1>8, <1>9, <1>10, <1>13, <2>7, <3>2 DEF Publishing
    <3>4. PublishWrite("primary")' \notin ToCome'
      BY <1>4, <1>6, <1>13, <2>7
    <3>5. Publishing'
      BY <1>0, <3>3, <3>4 DEF Publishing
    <3> QED
      BY <3>1, <3>5
  <2> QED
    BY <1>10, <2>4, <2>5, <2>6, <2>7
<1>15. \A k \in Tables : disk'[k][mem.active] = disk[k][mem.active] /\ cache'[k][mem.active] = cache[k][mem.active]
  BY <1>9 DEF Tables
<1>16. IsCache(cache')
  BY <1>1 DEF RestShape, IsCache
<1> QED
  BY <1>3, <1>9, <1>12, <1>14, <1>15, <1>16, FlushGoesOn

LEMMA TableWriteKeeps ==
  ASSUME FsInv, commit.stage = "flush", commit.writes # <<>>,
         NEW x, x = Head(commit.writes), NEW kind \in Tables, x = ShadowWrite(kind),
         disk' = Put(disk, x.kind, x.where, x.value), cache' = Put(cache, x.kind, x.where, {x.value}),
         GoesOn
  PROVE  FsInv'
<1>0. /\ commit' = [commit EXCEPT !.writes = Tail(@)]
      /\ UNCHANGED <<machine, mem, acked>> /\ UNCHANGED <<crashes, errors>>
  BY DEF GoesOn
<1>1. /\ DiskShape /\ MemShape /\ CommitShape /\ RestShape /\ CommitInv
  BY DEF FsInv, Shape
<1>2. commit.kind \in {"op", "repair"} /\ mem.gen \in Nat /\ Flushing
  BY <1>1 DEF CommitShape, CommitInv
<1>3. PICK rest : rest = Elements(Tail(commit.writes))
  OBVIOUS
<1>4. /\ ToCome = {x} \cup rest
      /\ x # PendingWrite("secondary") => PendingWrite("secondary") \notin ToCome
      /\ x \in {ShadowWrite("inode"), ShadowWrite("dirent")} => PublishWrite("secondary") \in rest
  BY <1>1, <1>2, <1>3, HeadFacts
<1>5. commit'.undo = commit.undo /\ commit'.writes = Tail(commit.writes) /\ commit'.stage = commit.stage
  <2>1. commit' = [kind |-> commit.kind, stage |-> commit.stage, writes |-> Tail(commit.writes),
                   undo |-> commit.undo, view |-> commit.view]
    BY <1>0, <1>1, CommitAdvanced
  <2> QED
    BY <2>1
<1>6. ToCome' = rest
  BY <1>3, <1>5 DEF ToCome
<1>7. PICK v : v = Image(kind)
  OBVIOUS
<1>8. x.kind = kind /\ x.where = Shadow /\ x.value = v
  <2>1. /\ ShadowWrite(kind).kind = kind /\ ShadowWrite(kind).where = Shadow
        /\ ShadowWrite(kind).value = Image(kind)
    BY <1>1, <1>2, WriteFields
  <2> QED
    BY <1>7, <2>1
<1>9. mem.active \in Slots /\ Shadow \in Slots /\ Shadow # mem.active
  BY <1>1, SlotFacts DEF MemShape, Shadow
<1>10. v = Torn \/ (kind = "inode" /\ v \in InodeTable) \/ (kind = "dirent" /\ v \in Seq(Dirent))
  <2>1. InodeImage(mem.tree) \in InodeTable /\ mem.tree.dirents \in Seq(Dirent)
    BY <1>1, ImageFields DEF MemShape
  <2>2. kind = "inode" \/ (kind = "dirent" /\ kind # "inode")
    BY DEF Tables
  <2> QED
    BY <1>7, <2>1, <2>2 DEF Image
<1>11. /\ IsDisk(disk') /\ disk'.super = disk.super /\ disk'[kind][Shadow] = v
       /\ \A k \in Tables, n \in Slots : k # kind \/ n # Shadow => disk'[k][n] = disk[k][n]
  <2>1. PICK d : d = disk'
    OBVIOUS
  <2>2. d = Put(disk, kind, Shadow, v) /\ DiskShape
    BY <1>1, <1>8, <2>1
  <2>3. /\ IsDisk(d) /\ d.super = disk.super /\ d[kind][Shadow] = v
        /\ \A k \in Tables, n \in Slots : k # kind \/ n # Shadow => d[k][n] = disk[k][n]
    BY <1>9, <1>10, <2>2, TablePut, SMTT(30), Z3T(40)
  <2> QED
    BY <2>1, <2>3
<1>12. /\ IsCache(cache') /\ cache'[kind][Shadow] = {v}
       /\ \A k \in Tables, n \in Slots : k # kind \/ n # Shadow => cache'[k][n] = cache[k][n]
  <2>1. PICK c : c = cache'
    OBVIOUS
  <2>2. c = Put(cache, kind, Shadow, {v})
    BY <1>8, <2>1
  <2>3. IsCache(cache)
    BY <1>1 DEF RestShape, IsCache
  <2>4. /\ IsCache(c) /\ c[kind][Shadow] = {v}
        /\ \A k \in Tables, n \in Slots : k # kind \/ n # Shadow => c[k][n] = cache[k][n]
    BY <1>9, <2>2, <2>3, CachePut, SMTT(30), Z3T(40)
  <2> QED
    BY <2>1, <2>4
<1>13. Landed'
  <2>1. DiskShape /\ MemShape /\ CommitShape /\ RestShape /\ mem.gen \in Nat /\ Flushing
    BY <1>1, <1>2
  <2>2. ToCome = {x} \cup rest /\ ToCome' = rest
    BY <1>4, <1>6
  <2>3. disk'.super = disk.super /\ disk'[kind][Shadow] = Image(kind) /\ cache'[kind][Shadow] = {Image(kind)}
    BY <1>7, <1>11, <1>12
  <2>4. \A k \in Tables : k # kind => disk'[k][Shadow] = disk[k][Shadow] /\ cache'[k][Shadow] = cache[k][Shadow]
    BY <1>9, <1>11, <1>12
  <2>5. commit'.undo = commit.undo /\ UNCHANGED <<machine, mem>>
    BY <1>0, <1>5
  <2> QED
    BY <2>1, <2>2, <2>3, <2>4, <2>5, TableLands
<1>14. PublishWrite("secondary") \in rest
  <2>1. x = ShadowWrite("inode") \/ x = ShadowWrite("dirent")
    BY DEF Tables
  <2> QED
    BY <1>4, <2>1
<1>15. ASSUME Guarded, Mounted
       PROVE  Unpublished'
  <2>1. Unpublished
    BY <1>4, <1>14, <1>15 DEF Mounted
  <2>2. ~AheadAllowed
    <3>1. x # PendingWrite("secondary")
      <4>1. PendingWrite("secondary").kind = "super"
        BY <1>1, <1>2, WriteFields
      <4> QED
        BY <1>8, <4>1, Roles
    <3> QED
      BY <1>4, <3>1 DEF AheadAllowed
  <2>3. \A n : (Current(n)' <=> Current(n)) /\ (Before(n, mem.gen)' <=> Before(n, mem.gen))
    BY <1>0, <1>11, SameMirror
  <2> QED
    BY <1>0, <1>11, <2>1, <2>2, <2>3 DEF Unpublished, PrimaryOld, Unharmed
<1>16. \A k \in Tables : disk'[k][mem.active] = disk[k][mem.active] /\ cache'[k][mem.active] = cache[k][mem.active]
  BY <1>9, <1>11, <1>12
<1> QED
  BY <1>3, <1>11, <1>12, <1>13, <1>14, <1>15, <1>16, FlushGoesOn

LEMMA DataPut ==
  ASSUME DiskShape, NEW where, NEW v, NEW k, k = "data", NEW d, d = Put(disk, k, where, v)
  PROVE  IsDisk(d) /\ d.super = disk.super /\ d.inode = disk.inode /\ d.dirent = disk.dirent
<1>1. PICK s : s = [disk.data EXCEPT ![where] = v]
  OBVIOUS
<1>2. d = [super |-> disk.super, inode |-> disk.inode, dirent |-> disk.dirent, data |-> s]
  BY <1>1, DataWritten DEF Put
<1>3. PICK e : e = [super |-> disk.super, inode |-> disk.inode, dirent |-> disk.dirent, data |-> s]
  OBVIOUS
<1>4. /\ e.super = disk.super /\ e.inode = disk.inode /\ e.dirent = disk.dirent
      /\ e = [super |-> e.super, inode |-> e.inode, dirent |-> e.dirent, data |-> e.data]
  BY <1>3
<1>5. d = e
  BY <1>2, <1>3
<1>6. IsDisk(e)
  BY <1>4 DEF IsDisk, DiskShape
<1> QED
  BY <1>4, <1>5, <1>6

(* The data of an operation is written before its metadata. *)
LEMMA DataWriteKeeps ==
  ASSUME FsInv, commit.stage = "mutate", commit.writes # <<>>, NEW x, x = Head(commit.writes),
         disk' = Put(disk, x.kind, x.where, x.value), x.kind = "data" => UNCHANGED cache, GoesOn
  PROVE  FsInv'
<1>0. /\ commit' = [commit EXCEPT !.writes = Tail(@)]
      /\ UNCHANGED <<machine, phase, mem, snap, check, acked, attempts, crashes, errors>>
  BY DEF GoesOn
<1>1. /\ Shape /\ CommitInv /\ RecoveryInv /\ RepairInv
      /\ DiskShape /\ MemShape /\ CommitShape /\ RestShape
  BY DEF FsInv, Shape
<1>2. commit.kind \in {"op", "repair"} /\ Running /\ Running' /\ mem.gen \in Nat
  BY <1>0, <1>1 DEF CommitShape, CommitInv, Running
<1>3. x.kind = "data" /\ Tail(commit.writes) = <<>>
  <2>1. PICK y : y.kind = "data" /\ commit.writes = <<y>>
    BY <1>1 DEF CommitInv, DataWrites
  <2>2. Head(commit.writes) = y /\ Tail(commit.writes) = <<>>
    BY <2>1, SMT, Z3T(40)
  <2> QED
    BY <2>1, <2>2
<1>4. /\ IsDisk(disk') /\ disk'.super = disk.super /\ disk'.inode = disk.inode /\ disk'.dirent = disk.dirent
  <2>1. PICK d : d = disk'
    OBVIOUS
  <2>2. DiskShape /\ d = Put(disk, x.kind, x.where, x.value) /\ x.kind = "data"
    BY <1>1, <1>3, <2>1
  <2>3. IsDisk(d) /\ d.super = disk.super /\ d.inode = disk.inode /\ d.dirent = disk.dirent
    BY <2>2, DataPut, SMTT(30), Z3T(40)
  <2> QED
    BY <2>1, <2>3
<1>5. /\ commit' = [kind |-> commit.kind, stage |-> commit.stage, writes |-> <<>>,
                    undo |-> commit.undo, view |-> commit.view]
      /\ UNCHANGED cache
  BY <1>0, <1>1, <1>3, CommitAdvanced
<1>6. /\ commit'.kind = commit.kind /\ commit'.stage = "mutate" /\ commit'.writes = <<>>
      /\ commit'.undo = commit.undo
  BY <1>5
<1>7. Shape'
  <2>1. MemShape' /\ DiskShape'
    BY <1>0, <1>1, <1>4 DEF DiskShape, IsDisk, MemShape, FreeShape
  <2>2. RestShape'
    BY <1>0, <1>1, <1>5 DEF RestShape
  <2>3. CommitShape'
    <3>1. commit' = [kind |-> commit'.kind, stage |-> commit'.stage, writes |-> commit'.writes,
                     undo |-> commit'.undo, view |-> commit'.view]
      BY <1>5
    <3> QED
      BY <1>1, <1>2, <1>6, <3>1 DEF CommitShape, FreeShape
  <2> QED
    BY <2>1, <2>2, <2>3 DEF Shape
<1>8. CommitInv'
  <2>1. Coherent(mem.active)' /\ (~mem.sync => Coherent(Shadow)')
    BY <1>0, <1>1, <1>4, <1>5, SameCache DEF CommitInv, Coherent, Shadow
  <2>2. Whole(BaseTree)' /\ mem'.gen \in Nat
    BY <1>0, <1>1, <1>2, <1>6 DEF CommitInv, BaseTree, Whole
  <2>3. DataWrites(commit'.writes)
    BY <1>6 DEF DataWrites
  <2> QED
    BY <1>0, <1>1, <1>2, <1>6, <2>1, <2>2, <2>3 DEF CommitInv
<1>9. RecoveryInv'
  <2>1. SUFFICES ASSUME Guarded'
                 PROVE  phase' # "lost" /\ Mounted'
    BY <1>2 DEF RecoveryInv
  <2>2. Guarded /\ phase' # "lost"
    BY <1>0, <1>2, <2>1 DEF Guarded, OneTear, Running
  <2>3. Mounted /\ Unpublished
    BY <1>1, <1>2, <2>2 DEF RecoveryInv, Mounted
  <2>4. Trees' = Trees /\ acked'.tree = acked.tree
    BY <1>0 DEF Trees
  <2>5. /\ \A m : Current(m)' <=> Current(m)
        /\ PrimaryOld' <=> PrimaryOld
        /\ Ahead => Ahead'
        /\ Holds(mem.active, acked.tree) => Holds(mem.active, acked.tree)'
    BY <1>0, <1>4, <2>4, SameMirrors DEF Holds
  <2>6. Unpublished'
    BY <1>0, <1>4, <1>6, <2>3, <2>5 DEF Unpublished, AheadAllowed, Unharmed
  <2>7. BaseTree' = acked'.tree /\ mem'.tree \in Trees'
    BY <1>0, <1>2, <1>6, <2>3, <2>4 DEF BaseTree, Mounted
  <2>8. Whole(acked.tree)' /\ Holds(mem.active, acked.tree)'
    BY <1>0, <2>3, <2>5 DEF Mounted, Whole
  <2> QED
    BY <1>6, <2>2, <2>6, <2>7, <2>8 DEF Mounted
<1>10. RepairInv'
  <2>1. Calm' = Calm
    BY <1>0 DEF Calm
  <2>2. BothMirrors' = BothMirrors /\ Shadow' = Shadow
    BY <1>0, <1>4 DEF BothMirrors, Super, Shadow
  <2>3. Holds(mem.active, mem.tree)' = Holds(mem.active, mem.tree)
    BY <1>0, <1>4 DEF Holds
  <2>4. Holds(Shadow, mem.tree)' = Holds(Shadow, mem.tree)
    BY <1>0, <1>4, <2>2 DEF Holds
  <2> QED
    BY <1>0, <1>1, <1>6, <2>1, <2>2, <2>3, <2>4 DEF RepairInv
<1> QED
  BY <1>7, <1>8, <1>9, <1>10 DEF FsInv

LEMMA WriteNextKeeps ==
  ASSUME FsInv, WriteNext
  PROVE  FsInv'
<1>1. PICK x : x = Head(commit.writes)
  OBVIOUS
<1>2. /\ commit.writes # <<>>
      /\ disk' = Put(disk, x.kind, x.where, x.value)
      /\ x.kind \in Tables => cache' = Put(cache, x.kind, x.where, {x.value})
      /\ x.kind \notin Tables => UNCHANGED cache
      /\ GoesOn
  BY <1>1 DEF WriteNext, GoesOn, Put
<1>3. MemShape /\ CommitShape /\ CommitInv
  BY DEF FsInv, Shape
<1>4. commit.stage = "mutate" \/ commit.stage = "flush"
  BY <1>2, <1>3 DEF CommitShape, CommitInv
<1>5. CASE commit.stage = "mutate"
  BY <1>1, <1>2, <1>5, Roles, DataWriteKeeps
<1>6. CASE commit.stage = "flush"
  <2>1. mem.gen \in Nat /\ Flushing
    BY <1>3, <1>6 DEF CommitShape, CommitInv
  <2>2. x \in {PendingWrite("secondary"), PendingWrite("primary"), ShadowWrite("inode"),
               ShadowWrite("dirent"), PublishWrite("secondary"), PublishWrite("primary")}
    BY <1>1, <1>2, <1>3, <2>1, HeadFacts
  <2>3. ASSUME NEW m \in MirrorNames, x = PendingWrite(m) \/ x = PublishWrite(m)
        PROVE  FsInv'
    <3>1. PendingWrite(m).kind = "super" /\ PublishWrite(m).kind = "super"
      BY <1>3, <2>1, WriteFields
    <3>2. x.kind = "super"
      BY <2>3, <3>1
    <3> QED
      BY <1>1, <1>2, <1>6, <2>3, <3>2, Roles, MirrorWriteKeeps
  <2>4. ASSUME NEW kind \in Tables, x = ShadowWrite(kind)
        PROVE  FsInv'
    <3>1. ShadowWrite(kind).kind = kind
      BY <1>3, <2>1, WriteFields
    <3> QED
      BY <1>1, <1>2, <1>6, <2>4, <3>1, TableWriteKeeps
  <2> QED
    BY <2>2, <2>3, <2>4, Roles
<1> QED
  BY <1>4, <1>5, <1>6
=============================================================================
