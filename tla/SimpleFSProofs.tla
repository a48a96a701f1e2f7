--------------------------- MODULE SimpleFSProofs ---------------------------
(***************************************************************************)
(* Proofs about SimpleFS commits, for every volume: what the device holds   *)
(* can be mounted at every step and shows the tree before or after the      *)
(* operation under way; no step writes the tables a mount would read; a     *)
(* check at boot leaves the volume in order.                                *)
(***************************************************************************)
EXTENDS SimpleFSCommitProofs

USE ZenonT(60)

-----------------------------------------------------------------------------
(* A write under way fails, or is cut short by a crash. *)

(* What a mount goes by: the active slot a, or the tree that was about to be  *)
(* published in the shadow slot s.                                            *)
Surviving(g, a, s, t) ==
    /\ Holds(a, t)
    /\ Before("primary", g) \/ Records("primary", g, a, t)
    /\ \/ Records("secondary", g, a, t)
       \/ Records("primary", g, a, t) /\ disk.super["secondary"] = Torn
       \/ \E tree \in Trees : Whole(tree) /\ Holds(s, tree) /\ Records("secondary", g + 1, s, tree)

(* The shadow slot is being written. *)
Filling ==
    /\ commit.stage = "flush" /\ PendingWrite("secondary") \notin ToCome
    /\ PublishWrite("secondary") \in ToCome

LEMMA SurvivingNow ==
  ASSUME Shape, CommitInv, Running, Mounted, commit.writes # <<>>,
         NEW g, g = mem.gen, NEW a, a = mem.active, NEW s, s = Shadow, NEW t, t = acked.tree
  PROVE  /\ Surviving(g, a, s, t)
         /\ Filling => \/ Records("secondary", g, a, t)
                       \/ Records("primary", g, a, t) /\ disk.super["secondary"] = Torn
<1>1. /\ DiskShape /\ MemShape /\ CommitShape /\ mem.gen \in Nat
      /\ commit.stage = "flush" => Flushing
  BY InvParts
<1>2. Holds(a, t) /\ mem.tree \in Trees
  BY DEF Mounted
<1>3. CASE commit.stage = "flush" /\ PublishWrite("secondary") \notin ToCome
  <2>1. Publishing /\ Flushing
    BY <1>1, <1>3 DEF Mounted
  <2>2. Holds(s, mem.tree) /\ Whole(mem.tree)
    BY <1>1, <1>3, <2>1, ShadowComplete
  <2>3. Records("secondary", g + 1, s, mem.tree)
    BY <1>1, <2>1, PublishedRecords DEF Publishing
  <2>4. PublishWrite("primary") \in ToCome
    <3>1. PICK x : x = Head(commit.writes)
      OBVIOUS
    <3>2. PICK rest : rest = Elements(Tail(commit.writes))
      OBVIOUS
    <3>3. ToCome = {x} \cup rest /\ (x # PublishWrite("primary") => PublishWrite("primary") \in rest)
      BY <1>1, <2>1, <3>1, <3>2, HeadFacts
    <3> QED
      BY <3>3
  <2>5. Before("primary", g) \/ Records("primary", g, a, t)
    BY <2>1, <2>4 DEF Publishing, PrimaryOld, Current
  <2> QED
    BY <1>2, <1>3, <2>2, <2>3, <2>5 DEF Surviving, Filling
<1>4. CASE ~(commit.stage = "flush" /\ PublishWrite("secondary") \notin ToCome)
  <2>1. Unpublished
    BY <1>4 DEF Mounted
  <2>2. Before("primary", g) \/ Records("primary", g, a, t)
    BY <2>1 DEF Unpublished, PrimaryOld, Current
  <2>3. Filling => ~AheadAllowed
    BY DEF Filling, AheadAllowed
  <2>4. \/ Records("secondary", g, a, t)
        \/ Records("primary", g, a, t) /\ disk.super["secondary"] = Torn
        \/ ~Filling /\ Ahead
    BY <2>1, <2>3 DEF Unpublished, Current
  <2>5. Ahead => \E tree \in Trees : Whole(tree) /\ Holds(s, tree) /\ Records("secondary", g + 1, s, tree)
    BY DEF Ahead
  <2> QED
    BY <1>2, <2>2, <2>4, <2>5 DEF Surviving
<1> QED
  BY <1>3, <1>4

(* The mirrors are as before, and so are the tables, but for the shadow slot  *)
(* while it is being written.                                                 *)
LEMMA KeptSurvives ==
  ASSUME NEW g, NEW a, NEW s, NEW t, Surviving(g, a, s, t),
         Filling => \/ Records("secondary", g, a, t)
                    \/ Records("primary", g, a, t) /\ disk.super["secondary"] = Torn,
         disk'.super = disk.super, Trees' = Trees,
         disk'.inode[a] = disk.inode[a], disk'.dirent[a] = disk.dirent[a],
         Filling \/ (disk'.inode[s] = disk.inode[s] /\ disk'.dirent[s] = disk.dirent[s])
  PROVE  Surviving(g, a, s, t)'
<1>1. \A m, gen, slot, tree : Records(m, gen, slot, tree)' <=> Records(m, gen, slot, tree)
  BY DEF Records
<1>2. Before("primary", g)' <=> Before("primary", g)
  BY DEF Before
<1>3. Holds(a, t)'
  BY DEF Surviving, Holds
<1>4. CASE \/ Records("secondary", g, a, t)
           \/ Records("primary", g, a, t) /\ disk.super["secondary"] = Torn
  BY <1>1, <1>2, <1>3, <1>4 DEF Surviving
<1>5. CASE ~Filling /\ \E tree \in Trees : Whole(tree) /\ Holds(s, tree) /\ Records("secondary", g + 1, s, tree)
  <2>1. PICK tree \in Trees : Whole(tree) /\ Holds(s, tree) /\ Records("secondary", g + 1, s, tree)
    BY <1>5
  <2>2. Holds(s, tree)'
    BY <1>5, <2>1 DEF Holds
  <2>3. Whole(tree)'
    BY <2>1 DEF Whole
  <2>4. Records("secondary", g + 1, s, tree)'
    BY <1>1, <2>1
  <2> QED
    BY <1>1, <1>2, <1>3, <2>1, <2>2, <2>3, <2>4 DEF Surviving
<1> QED
  BY <1>4, <1>5 DEF Surviving

(* A mirror is cut short for the first time: the other one is as it was. *)
LEMMA TornMirrorSurvives ==
  ASSUME Shape, CommitInv, Running, Mounted, commit.writes # <<>>, commit.stage = "flush",
         machine.tears, Unharmed,
         NEW g, g = mem.gen, NEW a, a = mem.active, NEW s, s = Shadow, NEW t, t = acked.tree,
         NEW m \in MirrorNames, NEW x, x = Head(commit.writes), x = PendingWrite(m) \/ x = PublishWrite(m),
         Trees' = Trees, disk'.super[m] = Torn,
         \A n \in MirrorNames : n # m => disk'.super[n] = disk.super[n],
         disk'.inode = disk.inode, disk'.dirent = disk.dirent
  PROVE  Surviving(g, a, s, t)'
<1>1. /\ MemShape /\ CommitShape /\ mem.gen \in Nat /\ Flushing
  BY InvParts
<1>2. Surviving(g, a, s, t)
  BY SurvivingNow
<1>3. /\ \A slot, tree : Holds(slot, tree) => Holds(slot, tree)'
      /\ \A tree : Whole(tree) => Whole(tree)'
  BY DEF Holds, Whole
<1>4. Holds(a, t)'
  BY <1>2, <1>3 DEF Surviving
<1>5. CASE m = "secondary"
  <2>1. PublishWrite("secondary") \in ToCome
    <3>1. PICK rest : rest = Elements(Tail(commit.writes))
      OBVIOUS
    <3>2. /\ ToCome = {x} \cup rest
          /\ x \in {PendingWrite("secondary"), PendingWrite("primary"), ShadowWrite("inode"),
                    ShadowWrite("dirent")} => PublishWrite("secondary") \in rest
      BY <1>1, <3>1, HeadFacts
    <3> QED
      BY <1>5, <3>2
  <2>2. Records("primary", g, a, t)
    BY <2>1 DEF Mounted, Unpublished, Current
  <2>3. disk'.super["primary"] = disk.super["primary"]
    BY <1>5, Roles
  <2>4. Records("primary", g, a, t)'
    BY <2>2, <2>3 DEF Records
  <2> QED
    BY <1>4, <1>5, <2>4 DEF Surviving
<1>6. CASE m = "primary"
  <2>1. disk'.super["secondary"] = disk.super["secondary"]
    BY <1>6, Roles
  <2>2. \A gen, slot, tree : Records("secondary", gen, slot, tree) => Records("secondary", gen, slot, tree)'
    BY <2>1 DEF Records
  <2>3. disk.super["secondary"] # Torn
    <3>1. Published # Torn
      BY <1>1, WriteFields
    <3> QED
      BY <3>1 DEF Mounted, Publishing, Unpublished, Current, Records
  <2>4. Before("primary", g)'
    BY <1>6 DEF Before
  <2>5. CASE Records("secondary", g, a, t)
    BY <1>4, <2>2, <2>4, <2>5 DEF Surviving
  <2>6. CASE \E tree \in Trees : Whole(tree) /\ Holds(s, tree) /\ Records("secondary", g + 1, s, tree)
    <3>1. PICK tree \in Trees : Whole(tree) /\ Holds(s, tree) /\ Records("secondary", g + 1, s, tree)
      BY <2>6
    <3>2. Whole(tree)' /\ Holds(s, tree)' /\ Records("secondary", g + 1, s, tree)'
      BY <1>3, <2>2, <3>1
    <3> QED
      BY <1>4, <2>4, <3>1, <3>2 DEF Surviving
  <2> QED
    BY <1>2, <2>3, <2>5, <2>6 DEF Surviving
<1> QED
  BY <1>5, <1>6 DEF MirrorNames

(* What the device is left with: the active tables whatever happens, and at   *)
(* most one region not written whole.                                         *)
MirrorTorn(m) ==
    /\ machine.tears /\ commit.stage = "flush"
    /\ Head(commit.writes) = PendingWrite(m) \/ Head(commit.writes) = PublishWrite(m)
    /\ disk'.super[m] = Torn /\ \A n \in MirrorNames : n # m => disk'.super[n] = disk.super[n]
    /\ disk'.inode = disk.inode /\ disk'.dirent = disk.dirent

CutShort(a, s) ==
    /\ IsDisk(disk')
    /\ disk'.inode[a] = disk.inode[a] /\ disk'.dirent[a] = disk.dirent[a]
    /\ commit.stage = "mutate" => disk'.inode = disk.inode /\ disk'.dirent = disk.dirent
    /\ \/ /\ disk'.super = disk.super
          /\ Filling \/ (disk'.inode[s] = disk.inode[s] /\ disk'.dirent[s] = disk.dirent[s])
       \/ \E m \in MirrorNames : MirrorTorn(m)

LEMMA Interruption ==
  ASSUME Shape, CommitInv, Running, commit.writes # <<>>, Interrupted(commit.writes),
         NEW a, a = mem.active, NEW s, s = Shadow
  PROVE  CutShort(a, s)
<1>1. DiskShape /\ MemShape /\ CommitShape /\ mem.gen \in Nat /\ a \in Slots /\ s \in Slots /\ s # a
      /\ (commit.stage = "flush" => Flushing)
  BY InvParts
<1>2. PICK x : x = Head(commit.writes)
  OBVIOUS
<1>3. PICK d : d = disk'
  OBVIOUS
<1>4. CASE d = disk
  <2>1. IsDisk(disk)
    BY <1>1 DEF DiskShape, IsDisk
  <2> QED
    BY <1>3, <1>4, <2>1 DEF CutShort
<1>5. CASE d = Put(disk, x.kind, x.where, Torn) /\ (x.kind = "super" => machine.tears)
  <2>1. commit.stage = "mutate" \/ (commit.stage = "flush" /\ commit.stage # "mutate")
    BY <1>1 DEF CommitShape, CommitInv
  <2>2. CASE commit.stage = "mutate"
    <3>1. PICK y : y.kind = "data" /\ commit.writes = <<y>>
      BY <2>2 DEF CommitInv, DataWrites
    <3>2. Head(commit.writes) = y
      BY <3>1, SMT, Z3T(40)
    <3>3. x.kind = "data"
      BY <1>2, <3>1, <3>2
    <3>4. IsDisk(d) /\ d.super = disk.super /\ d.inode = disk.inode /\ d.dirent = disk.dirent
      BY <1>1, <1>5, <3>3, DataPut, SMTT(30), Z3T(40)
    <3> QED
      BY <1>3, <3>4 DEF CutShort
  <2>3. CASE commit.stage = "flush" /\ commit.stage # "mutate"
    <3>1. PICK rest : rest = Elements(Tail(commit.writes))
      OBVIOUS
    <3>2. /\ x \in {PendingWrite("secondary"), PendingWrite("primary"), ShadowWrite("inode"),
                    ShadowWrite("dirent"), PublishWrite("secondary"), PublishWrite("primary")}
          /\ ToCome = {x} \cup rest
          /\ x # PendingWrite("secondary") => PendingWrite("secondary") \notin ToCome
          /\ x \in {PendingWrite("secondary"), PendingWrite("primary"), ShadowWrite("inode"),
                    ShadowWrite("dirent")} => PublishWrite("secondary") \in rest
      BY <1>1, <1>2, <2>3, <3>1, HeadFacts
    <3>3. ASSUME NEW m \in MirrorNames, x = PendingWrite(m) \/ x = PublishWrite(m)
          PROVE  CutShort(a, s)
      <4>1. x.kind = "super" /\ x.where = m
        <5>1. /\ PendingWrite(m).kind = "super" /\ PendingWrite(m).where = m
              /\ PublishWrite(m).kind = "super" /\ PublishWrite(m).where = m
          BY <1>1, WriteFields
        <5> QED
          BY <3>3, <5>1
      <4>2. Torn \in Superblock \cup {Torn}
        OBVIOUS
      <4>3. d = Put(disk, x.kind, m, Torn)
        BY <1>5, <4>1
      <4>4. /\ IsDisk(d) /\ d.inode = disk.inode /\ d.dirent = disk.dirent
            /\ d.super[m] = Torn /\ \A n \in MirrorNames : n # m => d.super[n] = disk.super[n]
        BY <1>1, <4>1, <4>2, <4>3, MirrorPut, SMTT(30), Z3T(40)
      <4>5. MirrorTorn(m)
        BY <1>2, <1>3, <1>5, <2>3, <3>3, <4>1, <4>4 DEF MirrorTorn
      <4> QED
        BY <1>3, <4>4, <4>5 DEF CutShort
    <3>4. ASSUME NEW kind \in Tables, x = ShadowWrite(kind)
          PROVE  CutShort(a, s)
      <4>1. x.kind = kind /\ x.where = s
        BY <1>1, <3>4, WriteFields
      <4>2. d = Put(disk, kind, s, Torn)
        BY <1>5, <4>1
      <4>3. /\ IsDisk(d) /\ d.super = disk.super
            /\ \A k \in Tables, n \in Slots : k # kind \/ n # s => d[k][n] = disk[k][n]
        BY <1>1, <4>2, TablePut, SMTT(30), Z3T(40)
      <4>4. d.inode[a] = disk.inode[a] /\ d.dirent[a] = disk.dirent[a]
        BY <1>1, <4>3 DEF Tables
      <4>5. Filling
        <5>1. x \in {ShadowWrite("inode"), ShadowWrite("dirent")}
          BY <3>4 DEF Tables
        <5>2. PendingWrite("secondary").kind = "super"
          BY <1>1, WriteFields
        <5>3. x # PendingWrite("secondary")
          BY <4>1, <5>2, Roles
        <5> QED
          BY <2>3, <3>2, <5>1, <5>3 DEF Filling
      <4> QED
        BY <1>3, <2>3, <4>3, <4>4, <4>5 DEF CutShort
    <3> QED
      BY <3>2, <3>3, <3>4, Roles
  <2> QED
    BY <2>1, <2>2, <2>3
<1> QED
  BY <1>2, <1>3, <1>4, <1>5 DEF Interrupted, Put

LEMMA InterruptionSurvives ==
  ASSUME Shape, CommitInv, Running, Mounted, commit.writes # <<>>,
         machine.tears => Unharmed, Trees' = Trees,
         NEW g, g = mem.gen, NEW a, a = mem.active, NEW s, s = Shadow, NEW t, t = acked.tree,
         CutShort(a, s)
  PROVE  Surviving(g, a, s, t)'
<1>1. /\ Surviving(g, a, s, t)
      /\ Filling => \/ Records("secondary", g, a, t)
                    \/ Records("primary", g, a, t) /\ disk.super["secondary"] = Torn
  BY SurvivingNow
<1>2. CASE /\ disk'.super = disk.super
           /\ Filling \/ (disk'.inode[s] = disk.inode[s] /\ disk'.dirent[s] = disk.dirent[s])
  <2>1. disk'.inode[a] = disk.inode[a] /\ disk'.dirent[a] = disk.dirent[a]
    BY DEF CutShort
  <2> QED
    BY <1>1, <1>2, <2>1, KeptSurvives
<1>3. ASSUME NEW m \in MirrorNames, MirrorTorn(m)
      PROVE  Surviving(g, a, s, t)'
  <2>1. PICK x : x = Head(commit.writes)
    OBVIOUS
  <2>2. /\ commit.stage = "flush" /\ machine.tears /\ Unharmed
        /\ x = PendingWrite(m) \/ x = PublishWrite(m)
        /\ disk'.super[m] = Torn /\ \A n \in MirrorNames : n # m => disk'.super[n] = disk.super[n]
        /\ disk'.inode = disk.inode /\ disk'.dirent = disk.dirent
    BY <1>3, <2>1 DEF MirrorTorn
  <2> QED
    BY <2>1, <2>2, TornMirrorSurvives
<1> QED
  BY <1>2, <1>3 DEF CutShort

(* At most one event may cut a mirror short, so it is the first one. *)
LEMMA FirstEvent ==
  ASSUME RestShape, OneTear, machine.tears, MachineAssumption,
         crashes < machine.crashes \/ errors < machine.errors
  PROVE  Unharmed
<1>1. machine.crashes \in Nat /\ machine.errors \in Nat /\ machine.crashes + machine.errors <= 1
  BY DEF RestShape, Machine, OneTear
<1>2. crashes \in 0 .. machine.crashes /\ errors \in 0 .. machine.errors
  BY DEF RestShape
<1> QED
  BY <1>1, <1>2, SMT, Z3T(40) DEF Unharmed

LEMMA FailKeeps ==
  ASSUME FsInv, Fail
  PROVE  FsInv'
<1>0. /\ commit.writes # <<>> /\ errors < machine.errors /\ errors' = errors + 1
      /\ Interrupted(commit.writes) /\ mem' = AfterFailure /\ commit' = NoCommit
      /\ check' = IF commit.kind = "repair" THEN [NoCheck EXCEPT !.failed = TRUE] ELSE check
      /\ phase' = "ready"
      /\ UNCHANGED <<machine, cache, snap, acked, attempts, crashes>>
  BY DEF Fail
<1>1. /\ Shape /\ CommitInv /\ RecoveryInv
      /\ DiskShape /\ MemShape /\ CommitShape /\ RestShape
  BY DEF FsInv, Shape
<1>2. commit.kind \in {"op", "repair"} /\ Running /\ Running' /\ mem.gen \in Nat
  BY <1>0, <1>1 DEF CommitShape, CommitInv, Running
<1>3. PICK b : b = (mem.sync \/ commit.stage = "flush")
  OBVIOUS
<1>4. mem' = [tree |-> commit.undo.tree, free |-> commit.undo.free, slots |-> commit.undo.slots,
              active |-> mem.active, gen |-> mem.gen, sync |-> b]
  BY <1>0, <1>1, <1>3, MemAfterFailure
<1>5. /\ mem'.tree = commit.undo.tree /\ mem'.free = commit.undo.free /\ mem'.slots = commit.undo.slots
      /\ mem'.active = mem.active /\ mem'.gen = mem.gen /\ mem'.sync = b
  <2>1. PICK m : m = mem'
    OBVIOUS
  <2>2. m = [tree |-> commit.undo.tree, free |-> commit.undo.free, slots |-> commit.undo.slots,
             active |-> mem.active, gen |-> mem.gen, sync |-> b]
    BY <1>4, <2>1
  <2>3. /\ m.tree = commit.undo.tree /\ m.free = commit.undo.free /\ m.slots = commit.undo.slots
        /\ m.active = mem.active /\ m.gen = mem.gen /\ m.sync = b
    BY <2>2
  <2> QED
    BY <2>1, <2>3
<1>6. commit'.kind = "none" /\ commit'.stage = "none" /\ commit'.writes = <<>>
  BY <1>0, NoCommitShape
<1>7. PICK a : a = mem.active
  OBVIOUS
<1>8. PICK s : s = Shadow
  OBVIOUS
<1>9. CutShort(a, s)
  BY <1>0, <1>1, <1>2, <1>7, <1>8, Interruption
<1>10. /\ check' = [stage |-> check'.stage, orphans |-> check'.orphans, clean |-> check'.clean,
                    round |-> check'.round, failed |-> check'.failed]
       /\ check'.stage \in CheckStages /\ check'.stage # "committing" /\ check'.round \in 0 .. 2
       /\ (check'.stage = "zero" => check'.round = 0) /\ (check'.stage = "commit" => check'.round < 2)
  <2>1. CASE commit.kind = "repair"
    <3>1. PICK c : c = check'
      OBVIOUS
    <3>2. c = [NoCheck EXCEPT !.failed = TRUE]
      BY <1>0, <2>1, <3>1
    <3>3. /\ c = [stage |-> c.stage, orphans |-> c.orphans, clean |-> c.clean,
                  round |-> c.round, failed |-> c.failed]
          /\ c.stage = "idle" /\ c.round = 0
      BY <3>2, CheckFailed
    <3>4. c.round \in 0 .. 2
      BY <3>3, SMT, Z3T(40)
    <3>5. c.stage \in CheckStages /\ c.stage \notin {"committing", "zero", "commit"}
      BY <3>3 DEF CheckStages
    <3> QED
      BY <3>1, <3>3, <3>4, <3>5
  <2>2. CASE commit.kind # "repair"
    <3>1. check' = check /\ check.stage # "committing"
      BY <1>0, <1>1, <2>2 DEF CommitInv
    <3> QED
      BY <1>1, <3>1 DEF RestShape
  <2> QED
    BY <2>1, <2>2
<1>11. Shape'
  <2>1. DiskShape'
    BY <1>9 DEF CutShort, IsDisk, DiskShape
  <2>2. MemShape'
    <3>1. b \in BOOLEAN
      BY <1>3
    <3> QED
      BY <1>1, <1>4, <1>5, <3>1 DEF MemShape, CommitShape, FreeShape
  <2>3. CommitShape'
    BY <1>0, NoCommitShape DEF CommitShape, FreeShape
  <2>4. errors' \in 0 .. machine.errors
    <3>1. errors \in 0 .. machine.errors
      BY <1>1 DEF RestShape
    <3>2. machine.errors \in Nat
      BY <1>1, MachineAssumption DEF RestShape, Machine
    <3> QED
      BY <1>0, <3>1, <3>2, SMT, Z3T(40)
  <2>5. RestShape'
    BY <1>0, <1>1, <1>10, <2>4 DEF RestShape
  <2> QED
    BY <2>1, <2>2, <2>3, <2>5 DEF Shape
<1>12. Shadow' = s
  BY <1>5, <1>8 DEF Shadow
<1>13. CommitInv'
  <2>1. Coherent(a)'
    <3>1. Coherent(a)
      BY <1>1, <1>7 DEF CommitInv
    <3>2. disk'.inode[a] = disk.inode[a] /\ disk'.dirent[a] = disk.dirent[a]
      BY <1>9 DEF CutShort
    <3> QED
      BY <1>0, <3>1, <3>2 DEF Coherent, Tables
  <2>2. ASSUME ~mem'.sync
        PROVE  Coherent(s)'
    <3>1. ~mem.sync /\ commit.stage # "flush" /\ commit.stage = "mutate"
      BY <1>1, <1>2, <1>3, <1>5, <2>2 DEF CommitShape
    <3>2. Coherent(s)
      BY <1>1, <1>8, <3>1 DEF CommitInv
    <3>3. disk'.inode = disk.inode /\ disk'.dirent = disk.dirent
      BY <1>9, <3>1 DEF CutShort
    <3> QED
      BY <1>0, <3>2, <3>3 DEF Coherent, Tables
  <2>3. Coherent(mem.active)' /\ (~mem'.sync => Coherent(Shadow)')
    BY <1>5, <1>7, <1>12, <2>1, <2>2 DEF Coherent
  <2>4. Whole(BaseTree)' /\ mem'.gen \in Nat
    BY <1>1, <1>2, <1>5, <1>6 DEF CommitInv, BaseTree, Whole
  <2> QED
    BY <1>2, <1>6, <1>10, <2>3, <2>4 DEF CommitInv
<1>14. ~Unharmed'
  <2>1. errors \in 0 .. machine.errors
    BY <1>1 DEF RestShape
  <2>2. errors' # 0
    BY <1>0, <2>1, SMT, Z3T(40)
  <2> QED
    BY <2>2 DEF Unharmed
<1>15. RecoveryInv'
  <2>1. SUFFICES ASSUME Guarded'
                 PROVE  phase' # "lost" /\ Mounted'
    BY <1>2 DEF RecoveryInv
  <2>2. Guarded /\ phase' # "lost"
    BY <1>0, <2>1 DEF Guarded, OneTear
  <2>3. Mounted
    BY <1>1, <1>2, <2>2 DEF RecoveryInv
  <2>4. machine.format >= 3
    <3>1. machine.errors # 0
      <4>1. errors \in 0 .. machine.errors
        BY <1>1 DEF RestShape
      <4> QED
        BY <1>0, <4>1, SMT, Z3T(40)
    <3> QED
      BY <2>2, <3>1 DEF Guarded
  <2>5. machine.tears => Unharmed
    BY <1>0, <1>1, <2>2, MachineAssumption, FirstEvent DEF Guarded
  <2>6. PICK g : g = mem.gen
    OBVIOUS
  <2>7. PICK t : t = acked.tree
    OBVIOUS
  <2>8. Trees' = Trees /\ acked.tree \in Trees
    BY <1>0 DEF Trees
  <2>9. Surviving(g, a, s, t)'
    BY <1>0, <1>1, <1>2, <1>7, <1>8, <1>9, <2>3, <2>5, <2>6, <2>7, <2>8, InterruptionSurvives
  <2>10. mem'.gen = g /\ mem'.active = a /\ acked'.tree = t
    BY <1>0, <1>5, <1>7, <2>6, <2>7
  <2>11. /\ Records("primary", g, a, t)' => Current("primary")'
         /\ Records("secondary", g, a, t)' => Current("secondary")'
         /\ Before("primary", g)' => Before("primary", mem.gen)'
    BY <2>10 DEF Records, Before, Current
  <2>12. PrimaryOld'
    BY <2>9, <2>11 DEF Surviving, PrimaryOld
  <2>13. AheadAllowed'
    BY <1>0, <1>6, <2>4 DEF AheadAllowed
  <2>14. ASSUME \E tree \in Trees' : Whole(tree)' /\ Holds(s, tree)' /\ Records("secondary", g + 1, s, tree)'
         PROVE  Ahead'
    <3>1. PICK tree \in Trees' : Whole(tree)' /\ Holds(s, tree)' /\ Records("secondary", g + 1, s, tree)'
      BY <2>14
    <3>2. Holds(Shadow, tree)' /\ Records("secondary", mem.gen + 1, Shadow, tree)'
      BY <1>12, <2>10, <3>1 DEF Holds, Records
    <3> QED
      BY <3>1, <3>2 DEF Ahead
  <2>15. Unpublished'
    BY <1>14, <2>9, <2>11, <2>12, <2>13, <2>14 DEF Surviving, Unpublished
  <2>16. BaseTree' = acked'.tree /\ mem'.tree \in Trees'
    BY <1>0, <1>2, <1>5, <1>6, <2>3, <2>8 DEF BaseTree, Mounted
  <2>17. Whole(acked.tree)' /\ Holds(mem.active, acked.tree)'
    <3>1. Whole(acked.tree)'
      BY <1>0, <2>3 DEF Mounted, Whole
    <3>2. Holds(a, t)'
      BY <2>9 DEF Surviving
    <3> QED
      BY <2>10, <3>1, <3>2 DEF Holds
  <2> QED
    BY <1>6, <2>2, <2>15, <2>16, <2>17 DEF Mounted
<1>16. RepairInv'
  <2>1. errors \in 0 .. machine.errors
    BY <1>1 DEF RestShape
  <2>2. machine.errors # 0
    BY <1>0, <2>1, SMT, Z3T(40)
  <2> QED
    BY <1>0, <2>2 DEF RepairInv, Calm
<1> QED
  BY <1>11, <1>13, <1>15, <1>16 DEF FsInv

-----------------------------------------------------------------------------
(* The state of a volume that is opened. *)

LEMMA OpenedShape ==
  ASSUME NEW sb, NEW d, NEW tree \in Tree, tree = LoadedTree(sb, d), NEW o, o = Opened(sb, d)
  PROVE  /\ o = [tree |-> o.tree, free |-> o.free, slots |-> o.slots,
                 active |-> o.active, gen |-> o.gen, sync |-> o.sync]
         /\ o.tree = tree /\ FreeShape(o.free) /\ o.slots \in Seq(Nat)
         /\ o.active = sb.active /\ o.gen = sb.gen /\ o.sync \in BOOLEAN
<1>1. PICK f : f = RebuiltExtents(tree.inodes, machine.blocks)
  OBVIOUS
<1>2. PICK s : s = Keep([i \in DOMAIN tree.inodes |-> i], DOMAIN tree.inodes \ Live(tree.inodes))
  OBVIOUS
<1>0. PICK b : b = TRUE
  OBVIOUS
<1>3. o = [tree |-> tree, free |-> f, slots |-> s, active |-> sb.active, gen |-> sb.gen, sync |-> b]
  BY <1>0, <1>1, <1>2 DEF Opened
<1>4. FreeShape(f)
  BY <1>1, RebuiltShape
<1>5. s \in Seq(Nat)
  <2>1. tree.inodes \in Seq(Inode)
    BY ImageFields
  <2>2. [i \in DOMAIN tree.inodes |-> i] \in Seq(Nat)
    BY <2>1, SMT, Z3T(40)
  <2> QED
    BY <1>2, <2>2, KeepFacts
<1>6. /\ o.tree = tree /\ o.free = f /\ o.slots = s
      /\ o.active = sb.active /\ o.gen = sb.gen /\ o.sync = b
  <2>1. PICK r : r = [tree |-> tree, free |-> f, slots |-> s, active |-> sb.active, gen |-> sb.gen, sync |-> b]
    OBVIOUS
  <2>2. /\ r.tree = tree /\ r.free = f /\ r.slots = s
        /\ r.active = sb.active /\ r.gen = sb.gen /\ r.sync = b
    BY <2>1
  <2>3. o = r
    BY <1>3, <2>1
  <2> QED
    BY <2>2, <2>3
<1>7. o = [tree |-> o.tree, free |-> o.free, slots |-> o.slots,
           active |-> o.active, gen |-> o.gen, sync |-> o.sync]
  BY <1>3
<1> QED
  BY <1>0, <1>4, <1>5, <1>6, <1>7

LEMMA UnmountedShape ==
  ASSUME NEW m, m = Unmounted
  PROVE  /\ m = [tree |-> m.tree, free |-> m.free, slots |-> m.slots,
                 active |-> m.active, gen |-> m.gen, sync |-> m.sync]
         /\ m.tree = EmptyTree /\ m.tree \in Tree /\ FreeShape(m.free) /\ m.slots \in Seq(Nat)
         /\ m.active = 0 /\ m.active \in Slots /\ m.gen \in Int /\ m.sync \in BOOLEAN
<1>1. PICK sb : sb = FreshDisk.super["primary"]
  OBVIOUS
<1>2. sb.active = 0 /\ sb.inodes = 0 /\ sb.dirents = 0
  BY <1>1 DEF FreshDisk
<1>3. \A S : <<>> \in Seq(S)
  BY SMT, Z3T(40)
<1>4. EmptyTree \in Tree /\ EmptyTree.inodes = <<>> /\ EmptyTree.dirents = <<>>
  BY <1>3 DEF EmptyTree, Tree
<1>5. FreshDisk.inode[0].files = <<>> /\ FreshDisk.dirent[0] = <<>>
  BY <1>4 DEF FreshDisk, InodeImage, Slots
<1>6. SubSeq(<<>>, 1, 0) = <<>>
  BY SMT, Z3T(40)
<1>7. LoadedTree(sb, FreshDisk) = EmptyTree
  BY <1>2, <1>5, <1>6 DEF LoadedTree, EmptyTree
<1>8. PICK o : o = Opened(sb, FreshDisk)
  OBVIOUS
<1>9. /\ o = [tree |-> o.tree, free |-> o.free, slots |-> o.slots,
              active |-> o.active, gen |-> o.gen, sync |-> o.sync]
      /\ o.tree = EmptyTree /\ FreeShape(o.free) /\ o.slots \in Seq(Nat)
      /\ o.active = sb.active /\ o.sync \in BOOLEAN
  <2>1. PICK tree : tree = EmptyTree
    OBVIOUS
  <2>2. tree \in Tree /\ tree = LoadedTree(sb, FreshDisk)
    BY <1>4, <1>7, <2>1
  <2>3. /\ o = [tree |-> o.tree, free |-> o.free, slots |-> o.slots,
                active |-> o.active, gen |-> o.gen, sync |-> o.sync]
        /\ o.tree = tree /\ FreeShape(o.free) /\ o.slots \in Seq(Nat)
        /\ o.active = sb.active /\ o.gen = sb.gen /\ o.sync \in BOOLEAN
    BY <1>8, <2>2, OpenedShape, SMTT(30), Z3T(40)
  <2> QED
    BY <2>1, <2>3
<1>0. PICK none : none = -1
  OBVIOUS
<1>10. m = [o EXCEPT !.gen = none]
  BY <1>0, <1>1, <1>8 DEF Unmounted
<1>11. m = [tree |-> o.tree, free |-> o.free, slots |-> o.slots,
            active |-> o.active, gen |-> none, sync |-> o.sync]
  BY <1>9, <1>10
<1>12. none \in Int
  BY <1>0, SMT, Z3T(40)
<1>13. 0 \in Slots
  BY DEF Slots
<1>14. /\ m.tree = o.tree /\ m.free = o.free /\ m.slots = o.slots
       /\ m.active = o.active /\ m.gen = none /\ m.sync = o.sync
  <2>1. PICK r : r = [tree |-> o.tree, free |-> o.free, slots |-> o.slots,
                      active |-> o.active, gen |-> none, sync |-> o.sync]
    OBVIOUS
  <2>2. /\ r.tree = o.tree /\ r.free = o.free /\ r.slots = o.slots
        /\ r.active = o.active /\ r.gen = none /\ r.sync = o.sync
    BY <2>1
  <2>3. m = r
    BY <1>11, <2>1
  <2> QED
    BY <2>2, <2>3
<1>15. m = [tree |-> m.tree, free |-> m.free, slots |-> m.slots,
            active |-> m.active, gen |-> m.gen, sync |-> m.sync]
  BY <1>11
<1>16. m.tree = EmptyTree /\ m.tree \in Tree /\ FreeShape(m.free) /\ m.slots \in Seq(Nat)
  BY <1>4, <1>9, <1>14
<1>17. m.active = 0 /\ m.active \in Slots /\ m.gen \in Int /\ m.sync \in BOOLEAN
  BY <1>2, <1>9, <1>12, <1>13, <1>14
<1> QED
  BY <1>15, <1>16, <1>17

LEMMA NothingMounted ==
  ASSUME UNCHANGED machine, mem' = Unmounted, cache' = ColdCache, check' = NoCheck, commit' = NoCommit,
         phase' \notin {"mounted", "ready"}
  PROVE  /\ MemShape' /\ CommitShape' /\ CommitInv'
         /\ cache' = [kind \in Tables |-> [slot \in Slots |-> cache'[kind][slot]]]
<1>1. /\ mem' = [tree |-> mem'.tree, free |-> mem'.free, slots |-> mem'.slots,
                 active |-> mem'.active, gen |-> mem'.gen, sync |-> mem'.sync]
      /\ mem'.tree \in Tree /\ FreeShape(mem'.free) /\ mem'.slots \in Seq(Nat)
      /\ mem'.active \in Slots /\ mem'.gen \in Int /\ mem'.sync \in BOOLEAN
  <2>1. PICK m : m = mem'
    OBVIOUS
  <2>2. m = Unmounted
    BY <2>1
  <2>3. /\ m = [tree |-> m.tree, free |-> m.free, slots |-> m.slots,
                active |-> m.active, gen |-> m.gen, sync |-> m.sync]
        /\ m.tree \in Tree /\ FreeShape(m.free) /\ m.slots \in Seq(Nat)
        /\ m.active \in Slots /\ m.gen \in Int /\ m.sync \in BOOLEAN
    BY <2>2, UnmountedShape
  <2> QED
    BY <2>1, <2>3
<1>2. MemShape'
  BY <1>1 DEF MemShape, FreeShape
<1>3. CommitShape'
  BY NoCommitShape DEF CommitShape, FreeShape
<1>4. \A kind \in Tables, slot \in Slots : cache'[kind][slot] = {}
  BY DEF ColdCache
<1>5. \A slot \in Slots : Coherent(slot)'
  BY <1>4 DEF Coherent
<1>6. mem'.active \in Slots /\ Shadow' \in Slots
  BY <1>1, SlotFacts DEF Shadow
<1>7. Coherent(mem.active)' /\ Coherent(Shadow)'
  BY <1>5, <1>6 DEF Coherent
<1>8. CommitInv'
  <2>1. Unmounted' = Unmounted
    BY DEF Unmounted, Opened, FreshDisk, Blocks
  <2> QED
    BY <1>7, <2>1, NoCommitShape, NoCheckFields DEF CommitInv, Running
<1>9. cache' = [kind \in Tables |-> [slot \in Slots |-> cache'[kind][slot]]]
  BY DEF ColdCache
<1> QED
  BY <1>2, <1>3, <1>8, <1>9

LEMMA SurvivingNamed ==
  ASSUME NEW g \in Nat, NEW a \in Slots, NEW s \in Slots, NEW t, t \in Trees', Whole(t)',
         IsDisk(disk'), Surviving(g, a, s, t)'
  PROVE  \E gen \in Nat, slot \in Slots, tree \in Trees' :
            Whole(tree)' /\ Holds(slot, tree)' /\ Named(gen, slot, tree)'
<1>1. Holds(a, t)'
  BY DEF Surviving
<1>2. g + 1 \in Nat
  BY SMT, Z3T(40)
<1>3. CASE \/ Records("secondary", g, a, t)'
           \/ Records("primary", g, a, t)' /\ disk'.super["secondary"] = Torn
  <2>1. Named(g, a, t)'
    BY <1>3 DEF Surviving, Named
  <2> QED
    BY <1>1, <2>1
<1>4. CASE \E tree \in Trees' : Whole(tree)' /\ Holds(s, tree)' /\ Records("secondary", g + 1, s, tree)'
  <2>1. PICK tree \in Trees' : Whole(tree)' /\ Holds(s, tree)' /\ Records("secondary", g + 1, s, tree)'
    BY <1>4
  <2>2. Before("primary", g + 1)'
    <3>1. CASE disk'.super["primary"] = Torn
      BY <3>1 DEF Before
    <3>2. CASE disk'.super["primary"] # Torn
      <4>1. disk'.super["primary"].gen \in Nat
        BY <3>2 DEF IsDisk, MirrorNames, Superblock
      <4>2. disk'.super["primary"].gen < g \/ disk'.super["primary"].gen = g
        BY <3>2 DEF Surviving, Before, Records
      <4>3. disk'.super["primary"].gen < g + 1
        BY <4>1, <4>2, SMT, Z3T(40)
      <4> QED
        BY <4>3 DEF Before
    <3> QED
      BY <3>1, <3>2
  <2>3. Named(g + 1, s, tree)'
    BY <2>1, <2>2 DEF Named
  <2> QED
    BY <1>2, <2>1, <2>3
<1> QED
  BY <1>3, <1>4 DEF Surviving

LEMMA CrashKeeps ==
  ASSUME FsInv, Crash
  PROVE  FsInv'
<1>0. /\ Running /\ crashes < machine.crashes /\ crashes' = crashes + 1
      /\ Interrupted(commit.writes) /\ phase' = "off" /\ mem' = Unmounted
      /\ commit' = NoCommit /\ cache' = ColdCache /\ check' = NoCheck
      /\ snap' = [w \in Writers |-> NoSnap]
      /\ UNCHANGED <<machine, acked, attempts, errors>>
  BY DEF Crash, Running
<1>1. /\ Shape /\ CommitInv /\ RecoveryInv
      /\ DiskShape /\ MemShape /\ CommitShape /\ RestShape
  BY DEF FsInv, Shape
<1>2. /\ MemShape' /\ CommitShape' /\ CommitInv'
      /\ cache' = [kind \in Tables |-> [slot \in Slots |-> cache'[kind][slot]]]
  <2>1. phase' \notin {"mounted", "ready"} /\ UNCHANGED machine
    BY <1>0
  <2> QED
    BY <1>0, <2>1, NothingMounted
<1>3. mem.gen \in Nat /\ mem.active \in Slots /\ Shadow \in Slots
  BY <1>0, <1>1, InvParts
<1>4. PICK a : a = mem.active
  OBVIOUS
<1>5. PICK s : s = Shadow
  OBVIOUS
<1>6. commit.writes # <<>> => CutShort(a, s)
  BY <1>0, <1>1, <1>4, <1>5, Interruption
<1>7. commit.writes = <<>> => disk' = disk
  BY <1>0 DEF Interrupted
<1>8. IsDisk(disk')
  <2>1. IsDisk(disk)
    BY <1>1 DEF DiskShape, IsDisk
  <2> QED
    BY <1>6, <1>7, <2>1 DEF CutShort
<1>9. crashes' \in 0 .. machine.crashes /\ crashes' # 0
  <2>1. crashes \in 0 .. machine.crashes
    BY <1>1 DEF RestShape
  <2>2. machine.crashes \in Nat
    BY <1>1, MachineAssumption DEF RestShape, Machine
  <2> QED
    BY <1>0, <2>1, <2>2, SMT, Z3T(40)
<1>10. Shape'
  <2>1. DiskShape'
    BY <1>8 DEF IsDisk, DiskShape
  <2>2. snap' \in [Writers -> [inode : Nat, block : Nat, empty : BOOLEAN]]
    BY <1>0, NoSnapShape
  <2>3. /\ check' = [stage |-> check'.stage, orphans |-> check'.orphans, clean |-> check'.clean,
                     round |-> check'.round, failed |-> check'.failed]
        /\ check'.stage \in CheckStages /\ check'.round \in 0 .. 2
        /\ (check'.stage = "zero" => check'.round = 0) /\ (check'.stage = "commit" => check'.round < 2)
    <3>1. 0 \in 0 .. 2
      BY SMT, Z3T(40)
    <3>2. "idle" \in CheckStages /\ "idle" # "zero" /\ "idle" # "commit"
      BY DEF CheckStages
    <3> QED
      BY <1>0, <3>1, <3>2, NoCheckFields
  <2>4. RestShape'
    BY <1>0, <1>1, <1>2, <1>9, <2>2, <2>3 DEF RestShape
  <2> QED
    BY <1>2, <2>1, <2>4 DEF Shape
<1>11. RecoveryInv'
  <2>1. ~Running'
    BY <1>0 DEF Running
  <2>2. SUFFICES ASSUME Guarded'
                 PROVE  \E gen \in Nat, slot \in Slots, tree \in Trees' :
                           Whole(tree)' /\ Holds(slot, tree)' /\ Named(gen, slot, tree)'
    BY <1>0, <1>9, <2>1 DEF RecoveryInv, Off, Unharmed
  <2>3. Guarded
    BY <1>0, <2>2 DEF Guarded, OneTear
  <2>4. Mounted
    BY <1>0, <1>1, <2>3 DEF RecoveryInv
  <2>5. machine.tears => Unharmed
    BY <1>0, <1>1, <2>3, MachineAssumption, FirstEvent DEF Guarded
  <2>6. Trees' = Trees /\ acked.tree \in Trees
    BY <1>0 DEF Trees
  <2>7. CASE commit.writes # <<>>
    <3>1. PICK g : g = mem.gen
      OBVIOUS
    <3>2. PICK t : t = acked.tree
      OBVIOUS
    <3>3. Surviving(g, a, s, t)'
      BY <1>0, <1>1, <1>4, <1>5, <1>6, <2>4, <2>5, <2>6, <2>7, <3>1, <3>2, InterruptionSurvives
    <3>4. g \in Nat /\ a \in Slots /\ s \in Slots /\ t \in Trees' /\ Whole(t)'
      BY <1>3, <1>4, <1>5, <2>4, <2>6, <3>1, <3>2 DEF Mounted, Whole
    <3> QED
      BY <1>8, <3>3, <3>4, SurvivingNamed
  <2>8. CASE commit.writes = <<>>
    <3>1. PICK gen \in Nat, slot \in Slots, tree \in Trees :
             Whole(tree) /\ Holds(slot, tree) /\ Named(gen, slot, tree)
      BY <1>0, <1>1, <2>4, MountedNamed
    <3>2. disk' = disk
      BY <1>7, <2>8
    <3>3. Whole(tree)' /\ Holds(slot, tree)' /\ Named(gen, slot, tree)'
      BY <3>1, <3>2 DEF Whole, Holds, Named, Records, Before
    <3> QED
      BY <2>6, <3>1, <3>3
  <2> QED
    BY <2>7, <2>8
<1>12. RepairInv'
  <2>1. check'.stage = "idle" /\ ~check'.failed /\ phase' # "mounted"
    BY <1>0, NoCheckFields
  <2> QED
    BY <2>1 DEF RepairInv
<1> QED
  BY <1>2, <1>10, <1>11, <1>12 DEF FsInv

-----------------------------------------------------------------------------
(* Every write of a commit has succeeded. *)

LEMMA FinishKeeps ==
  ASSUME FsInv, Finish
  PROVE  FsInv'
<1>0. /\ commit.stage = "flush" /\ commit.writes = <<>> /\ mem' = Swapped /\ commit' = NoCommit
      /\ commit.kind = "op" => acked'.tree = mem.tree /\ UNCHANGED check
      /\ commit.kind = "repair" => /\ check' = [check EXCEPT !.stage = "inspect"]
                                   /\ UNCHANGED <<acked, attempts>>
      /\ UNCHANGED <<machine, phase, disk, cache, snap, crashes, errors>>
  <2>1. PICK r : r = [tree |-> mem.tree, view |-> commit.view]
    OBVIOUS
  <2>2. r.tree = mem.tree
    BY <2>1
  <2>3. commit.kind = "op" => acked' = r /\ UNCHANGED check
    BY <2>1 DEF Finish
  <2>4. commit.kind = "repair" => /\ check' = [check EXCEPT !.stage = "inspect"]
                                  /\ UNCHANGED <<acked, attempts>>
    BY DEF Finish
  <2>5. /\ commit.stage = "flush" /\ commit.writes = <<>> /\ mem' = Swapped /\ commit' = NoCommit
        /\ UNCHANGED <<machine, phase, disk, cache, snap, crashes, errors>>
    BY DEF Finish
  <2> QED
    BY <2>2, <2>3, <2>4, <2>5
<1>1. /\ Shape /\ CommitInv /\ RecoveryInv /\ RepairInv
      /\ DiskShape /\ MemShape /\ CommitShape /\ RestShape
  BY DEF FsInv, Shape
<1>2. commit.kind \in {"op", "repair"} /\ Running /\ Running' /\ mem.gen \in Nat /\ Flushing
  BY <1>0, <1>1 DEF CommitShape, CommitInv, Running
<1>3. mem' = [tree |-> mem.tree, free |-> mem.free, slots |-> mem.slots,
              active |-> Shadow, gen |-> mem.gen + 1, sync |-> FALSE]
  BY <1>0, <1>1, MemSwapped
<1>4. /\ mem'.tree = mem.tree /\ mem'.free = mem.free /\ mem'.slots = mem.slots
      /\ mem'.active = Shadow /\ mem'.gen = mem.gen + 1 /\ mem'.sync \in BOOLEAN
  <2>1. PICK b : b = FALSE
    OBVIOUS
  <2>2. PICK m : m = [tree |-> mem.tree, free |-> mem.free, slots |-> mem.slots,
                      active |-> Shadow, gen |-> mem.gen + 1, sync |-> b]
    OBVIOUS
  <2>3. /\ m.tree = mem.tree /\ m.free = mem.free /\ m.slots = mem.slots
        /\ m.active = Shadow /\ m.gen = mem.gen + 1 /\ m.sync = b
    BY <2>2
  <2>4. mem' = m
    BY <1>3, <2>1, <2>2
  <2> QED
    BY <2>1, <2>3, <2>4
<1>5. commit'.kind = "none" /\ commit'.stage = "none" /\ commit'.writes = <<>>
  BY <1>0, NoCommitShape
<1>6. mem.active \in Slots /\ Shadow \in Slots /\ Shadow' = mem.active
  <2>1. mem.active \in Slots
    BY <1>1 DEF MemShape
  <2> QED
    BY <1>4, <2>1, SlotFacts DEF Shadow
<1>7. ToCome = {}
  BY <1>0, NoWrites DEF ToCome
<1>8. \A m \in MirrorNames : disk.super[m] = Published
  BY <1>2, <1>7 DEF Flushing, Landed
<1>9. Holds(Shadow, mem.tree) /\ Whole(mem.tree) /\ Coherent(Shadow)
  BY <1>1, <1>2, <1>7, ShadowComplete
<1>10. /\ check' = [stage |-> check'.stage, orphans |-> check'.orphans, clean |-> check'.clean,
                    round |-> check'.round, failed |-> check'.failed]
       /\ check'.round = check.round /\ check'.failed = check.failed
       /\ commit.kind = "op" => check' = check /\ check'.stage # "committing"
       /\ commit.kind = "repair" => check.stage = "committing" /\ check'.stage = "inspect"
  <2>1. CASE commit.kind = "op"
    BY <1>0, <1>1, <2>1 DEF CommitInv, RestShape
  <2>2. CASE commit.kind = "repair"
    <3>1. PICK c : c = check'
      OBVIOUS
    <3>2. c = [stage |-> "inspect", orphans |-> check.orphans, clean |-> check.clean,
               round |-> check.round, failed |-> check.failed]
      BY <1>0, <1>1, <2>2, <3>1, CheckMoved
    <3>3. /\ c.stage = "inspect" /\ c.round = check.round /\ c.failed = check.failed
          /\ c = [stage |-> c.stage, orphans |-> c.orphans, clean |-> c.clean,
                  round |-> c.round, failed |-> c.failed]
      BY <3>2
    <3> QED
      BY <1>1, <2>2, <3>1, <3>3 DEF CommitInv
  <2> QED
    BY <1>2, <2>1, <2>2
<1>11. acked'.tree \in Tree /\ \A x \in attempts' : x.tree \in Tree
  <2>1. mem.tree \in Tree
    BY <1>1 DEF MemShape
  <2>2. commit.kind = "op" => attempts' = {}
    BY DEF Finish
  <2> QED
    BY <1>0, <1>1, <1>2, <2>1, <2>2 DEF RestShape
<1>12. Shape'
  <2>1. DiskShape'
    BY <1>0, <1>1 DEF DiskShape
  <2>2. MemShape'
    <3>1. mem.gen + 1 \in Int
      BY <1>2, SMT, Z3T(40)
    <3>2. mem' = [tree |-> mem'.tree, free |-> mem'.free, slots |-> mem'.slots,
                  active |-> mem'.active, gen |-> mem'.gen, sync |-> mem'.sync]
      BY <1>3
    <3> QED
      BY <1>1, <1>4, <1>6, <3>1, <3>2 DEF MemShape, FreeShape
  <2>3. CommitShape'
    BY <1>0, NoCommitShape DEF CommitShape, FreeShape
  <2>4. /\ check'.stage \in CheckStages
        /\ (check'.stage = "zero" => check'.round = 0) /\ (check'.stage = "commit" => check'.round < 2)
    BY <1>1, <1>2, <1>10 DEF RestShape, CheckStages
  <2>5. RestShape'
    BY <1>0, <1>1, <1>10, <1>11, <2>4 DEF RestShape
  <2> QED
    BY <2>1, <2>2, <2>3, <2>5 DEF Shape
<1>13. CommitInv'
  <2>1. Coherent(mem.active)' /\ Coherent(Shadow)'
    BY <1>0, <1>1, <1>4, <1>6, <1>9 DEF CommitInv, Coherent
  <2>2. Whole(BaseTree)' /\ mem'.gen \in Nat
    <3>1. mem.gen + 1 \in Nat
      BY <1>2, SMT, Z3T(40)
    <3> QED
      BY <1>4, <1>5, <1>9, <3>1 DEF BaseTree, Whole
  <2>3. check'.stage # "committing"
    BY <1>2, <1>10
  <2> QED
    BY <1>2, <1>5, <2>1, <2>2, <2>3 DEF CommitInv
<1>14. RecoveryInv'
  <2>1. SUFFICES ASSUME Guarded'
                 PROVE  phase' # "lost" /\ Mounted'
    BY <1>2 DEF RecoveryInv
  <2>2. Guarded /\ phase' # "lost"
    BY <1>0, <1>2, <2>1 DEF Guarded, OneTear, Running
  <2>3. Mounted
    BY <1>1, <1>2, <2>2 DEF RecoveryInv
  <2>4. acked'.tree = mem.tree
    BY <1>0, <1>1, <1>2, <2>3 DEF Mounted, BaseTree, CommitInv
  <2>5. acked'.tree \in Trees'
    BY DEF Trees
  <2>6. \A m \in MirrorNames : Records(m, mem.gen + 1, Shadow, mem.tree)
    BY <1>1, <1>2, <1>8, PublishedRecords
  <2>7. Current("primary")' /\ Current("secondary")'
    <3>1. Records("primary", mem.gen + 1, Shadow, mem.tree) /\ Records("secondary", mem.gen + 1, Shadow, mem.tree)
      BY <2>6, Roles
    <3> QED
      BY <1>0, <1>4, <2>4, <3>1 DEF Current, Records
  <2>8. Unpublished'
    BY <2>7 DEF Unpublished, PrimaryOld
  <2>9. BaseTree' = acked'.tree /\ mem'.tree \in Trees'
    BY <1>4, <1>5, <2>4, <2>5 DEF BaseTree
  <2>10. Whole(acked.tree)' /\ Holds(mem.active, acked.tree)'
    BY <1>0, <1>4, <1>9, <2>4 DEF Whole, Holds
  <2> QED
    BY <1>5, <2>2, <2>8, <2>9, <2>10 DEF Mounted
<1>15. RepairInv'
  <2>1. SUFFICES ASSUME Calm' PROVE RepairInv'
    BY DEF RepairInv
  <2>2. Calm
    BY <1>0, <2>1 DEF Calm
  <2>3. CASE commit.kind = "op"
    <3>1. check.stage = "idle" /\ ~check.failed /\ check' = check
      BY <1>1, <1>10, <2>2, <2>3 DEF RepairInv
    <3> QED
      BY <1>5, <3>1 DEF RepairInv
  <2>4. CASE commit.kind = "repair"
    <3>1. /\ ~check'.failed /\ phase' = "mounted" /\ check'.stage = "inspect"
          /\ check'.round \in {1, 2} /\ (check'.round = 2 => Holds(mem.active, mem.tree))
      BY <1>0, <1>1, <1>10, <2>2, <2>4 DEF RepairInv
    <3>2. BothMirrors'
      BY <1>0, <1>8 DEF BothMirrors, Published, Super
    <3>3. Holds(mem.active, mem.tree)' /\ (check'.round = 2 => Holds(Shadow, mem.tree)')
      BY <1>0, <1>4, <1>6, <1>9, <3>1 DEF Holds
    <3> QED
      BY <1>5, <3>1, <3>2, <3>3 DEF RepairInv
  <2> QED
    BY <1>2, <2>3, <2>4
<1> QED
  BY <1>12, <1>13, <1>14, <1>15 DEF FsInv

-----------------------------------------------------------------------------
(* A boot. *)

LEMMA SmallestIn ==
  ASSUME NEW S, S \subseteq {1, 2}, S # {}
  PROVE  Min(S) \in S
<1>1. \E x \in S : \A y \in S : x =< y
  <2>1. 1 \in S \/ S = {2}
    OBVIOUS
  <2>2. 1 \in S => \A y \in S : 1 =< y
    BY SMT, Z3T(40)
  <2>3. S = {2} => \A y \in S : 2 =< y
    BY SMT, Z3T(40)
  <2> QED
    BY <2>1, <2>2, <2>3
<1> QED
  BY <1>1 DEF Min

(* A mount goes by a superblock that loads. *)
LEMMA MountedTree ==
  ASSUME DiskShape, Loadable(disk) # {}, NEW sb, sb = FirstLoadable(disk),
         NEW tree, tree = LoadedTree(sb, disk)
  PROVE  sb \in Superblock /\ Whole(tree)
<1>1. PICK p : p = disk.super["primary"]
  OBVIOUS
<1>2. PICK s : s = disk.super["secondary"]
  OBVIOUS
<1>3. p \in Superblock \cup {Torn} /\ s \in Superblock \cup {Torn}
  BY <1>1, <1>2 DEF DiskShape, MirrorNames
<1>4. \/ Candidates(disk) = <<>>
      \/ \E x \in Superblock : Candidates(disk) = <<x>>
      \/ \E x, y \in Superblock : Candidates(disk) = <<x, y>>
  <2>1. CASE p = Torn
    BY <1>1, <1>2, <1>3, <2>1 DEF Candidates
  <2>2. CASE p # Torn /\ s = Torn
    BY <1>1, <1>2, <1>3, <2>2 DEF Candidates
  <2>3. CASE p # Torn /\ s # Torn
    <3>1. p \in Superblock /\ s \in Superblock
      BY <1>3, <2>3
    <3>2. Candidates(disk) = <<s, p>> \/ Candidates(disk) = <<p, s>>
      BY <1>1, <1>2, <2>3 DEF Candidates
    <3> QED
      BY <3>1, <3>2
  <2> QED
    BY <2>1, <2>2, <2>3
<1>5. /\ DOMAIN Candidates(disk) \subseteq {1, 2}
      /\ \A i \in DOMAIN Candidates(disk) : Candidates(disk)[i] \in Superblock
  BY <1>4, SMT, Z3T(40)
<1>6. Min(Loadable(disk)) \in Loadable(disk)
  BY <1>5, SmallestIn DEF Loadable
<1>7. sb \in Superblock /\ Loads(sb, disk)
  BY <1>5, <1>6 DEF Loadable, FirstLoadable
<1>8. sb.active \in Slots /\ sb.inodes \in Nat /\ sb.dirents \in Nat
  BY <1>7 DEF Superblock
<1>9. PICK files : files = disk.inode[sb.active].files
  OBVIOUS
<1>10. PICK dirents : dirents = disk.dirent[sb.active]
  OBVIOUS
<1>11. /\ files \in Seq(Inode) /\ dirents \in Seq(Dirent)
       /\ sb.inodes <= Len(files) /\ sb.dirents <= Len(dirents)
  <2>1. disk.inode[sb.active] # Torn /\ disk.dirent[sb.active] # Torn
    BY <1>7 DEF Loads
  <2>2. disk.inode[sb.active] \in InodeTable /\ disk.dirent[sb.active] \in Seq(Dirent)
    BY <1>8, <2>1 DEF DiskShape
  <2>3. disk.inode[sb.active].files \in Seq(Inode)
    BY <2>2 DEF InodeTable
  <2>4. sb.inodes <= Len(disk.inode[sb.active].files) /\ sb.dirents <= Len(disk.dirent[sb.active])
    BY <1>7 DEF Loads
  <2> QED
    BY <1>9, <1>10, <2>2, <2>3, <2>4
<1>12. SubSeq(files, 1, sb.inodes) \in Seq(Inode) /\ SubSeq(dirents, 1, sb.dirents) \in Seq(Dirent)
  BY <1>8, <1>11, SMT, Z3T(40)
<1>13. PICK t : t = [inodes |-> SubSeq(files, 1, sb.inodes), dirents |-> SubSeq(dirents, 1, sb.dirents)]
  OBVIOUS
<1>14. tree = t
  BY <1>9, <1>10, <1>13 DEF LoadedTree
<1>15. t \in Tree
  BY <1>12, <1>13, TreeOf
<1>16. Valid(disk.inode[sb.active].entries, tree.inodes, tree.dirents)
  BY <1>7 DEF Loads
<1>17. Valid(Len(tree.dirents), tree.inodes, tree.dirents)
  BY <1>16 DEF Valid
<1> QED
  BY <1>7, <1>14, <1>15, <1>17 DEF Whole

LEMMA MountKeeps ==
  ASSUME FsInv, Mount
  PROVE  FsInv'
<1>0. phase = "off" /\ UNCHANGED <<machine, disk, cache, commit, snap, check, crashes, errors>>
  BY DEF Mount
<1>1. /\ Shape /\ CommitInv /\ RecoveryInv /\ RepairInv
      /\ DiskShape /\ MemShape /\ CommitShape /\ RestShape
  BY DEF FsInv, Shape
<1>2. /\ ~Running /\ cache = ColdCache /\ mem = Unmounted /\ check = NoCheck
      /\ commit.kind = "none" /\ commit.stage = "none" /\ commit.writes = <<>>
  <2>1. ~Running
    BY <1>0 DEF Running
  <2> QED
    BY <1>1, <2>1 DEF CommitInv, CommitShape
<1>3. check.stage = "idle" /\ ~check.failed
  BY <1>2, NoCheckFields
<1>4. DiskShape' /\ CommitShape'
  BY <1>0, <1>1 DEF DiskShape, CommitShape, FreeShape
<1>5. Guarded => \E gen \in Nat, slot \in Slots, tree \in Trees :
                    /\ Whole(tree) /\ Holds(slot, tree) /\ Named(gen, slot, tree)
                    /\ Unharmed => \A m \in MirrorNames : Records(m, gen, slot, tree)
  BY <1>1, <1>2 DEF RecoveryInv, Off
<1>6. CASE Loadable(disk) = {}
  <2>1. phase' = "lost" /\ UNCHANGED <<mem, acked, attempts>>
    BY <1>6 DEF Mount
  <2>2. Shape'
    <3>1. MemShape' /\ RestShape'
      BY <1>0, <1>1, <2>1 DEF MemShape, RestShape, FreeShape
    <3> QED
      BY <1>4, <3>1 DEF Shape
  <2>3. CommitInv'
    <3>1. Unmounted' = Unmounted
      BY <1>0 DEF Unmounted, Opened, FreshDisk, Blocks
    <3>2. ~Running'
      BY <2>1 DEF Running
    <3>3. Coherent(mem.active)' /\ (~mem.sync => Coherent(Shadow)')
      BY <1>0, <1>1, <1>2, <2>1 DEF CommitInv, Coherent, Shadow
    <3> QED
      BY <1>0, <1>2, <1>3, <2>1, <3>1, <3>2, <3>3 DEF CommitInv
  <2>4. RecoveryInv'
    <3>1. ~Guarded
      BY <1>5, <1>6, NamedMounts
    <3>2. Guarded' => Guarded
      BY <1>0 DEF Guarded, OneTear
    <3> QED
      BY <3>1, <3>2 DEF RecoveryInv
  <2>5. RepairInv'
    BY <1>0, <1>3, <2>1 DEF RepairInv
  <2> QED
    BY <2>2, <2>3, <2>4, <2>5 DEF FsInv
<1>7. CASE Loadable(disk) # {}
  <2>1. PICK sb : sb = FirstLoadable(disk)
    OBVIOUS
  <2>2. PICK tree : tree = LoadedTree(sb, disk)
    OBVIOUS
  <2>3. mem' = Opened(sb, disk) /\ phase' = "mounted" /\ attempts' = {}
    BY <1>7, <2>1 DEF Mount
  <2>4. sb \in Superblock /\ Whole(tree)
    BY <1>1, <1>7, <2>1, <2>2, MountedTree
  <2>5. sb.active \in Slots /\ sb.gen \in Nat /\ tree \in Tree
    BY <2>4 DEF Superblock, Whole
  <2>6. /\ mem' = [tree |-> mem'.tree, free |-> mem'.free, slots |-> mem'.slots,
                   active |-> mem'.active, gen |-> mem'.gen, sync |-> mem'.sync]
        /\ mem'.tree = tree /\ FreeShape(mem'.free) /\ mem'.slots \in Seq(Nat)
        /\ mem'.active = sb.active /\ mem'.gen = sb.gen /\ mem'.sync \in BOOLEAN
    <3>1. PICK o : o = mem'
      OBVIOUS
    <3>2. o = Opened(sb, disk)
      BY <2>3, <3>1
    <3>3. /\ o = [tree |-> o.tree, free |-> o.free, slots |-> o.slots,
                  active |-> o.active, gen |-> o.gen, sync |-> o.sync]
          /\ o.tree = tree /\ FreeShape(o.free) /\ o.slots \in Seq(Nat)
          /\ o.active = sb.active /\ o.gen = sb.gen /\ o.sync \in BOOLEAN
      BY <2>2, <2>5, <3>2, OpenedShape, SMTT(30), Z3T(40)
    <3> QED
      BY <3>1, <3>3
  <2>7. acked'.tree = tree
    <3>1. PICK r : r = [tree |-> tree, view |-> View(tree, disk.data)]
      OBVIOUS
    <3>2. r.tree = tree
      BY <3>1
    <3>3. acked' = [tree |-> mem'.tree, view |-> View(mem'.tree, disk.data)]
      BY <1>7 DEF Mount
    <3> QED
      BY <2>6, <3>1, <3>2, <3>3
  <2>8. Running' /\ Trees' = {tree}
    BY <2>3, <2>7 DEF Running, Trees
  <2>9. Shape'
    <3>1. mem'.gen \in Int
      BY <2>5, <2>6, SMT, Z3T(40)
    <3>2. MemShape'
      BY <2>5, <2>6, <3>1 DEF MemShape, FreeShape
    <3>3. RestShape'
      BY <1>0, <1>1, <2>3, <2>5, <2>7 DEF RestShape
    <3> QED
      BY <1>4, <3>2, <3>3 DEF Shape
  <2>10. CommitInv'
    <3>1. \A slot \in Slots : Coherent(slot)'
      BY <1>0, <1>2 DEF Coherent, ColdCache
    <3>2. mem'.active \in Slots /\ Shadow' \in Slots
      BY <2>5, <2>6, SlotFacts DEF Shadow
    <3>3. Coherent(mem.active)' /\ Coherent(Shadow)'
      BY <3>1, <3>2 DEF Coherent
    <3>4. Whole(BaseTree)' /\ mem'.gen \in Nat
      BY <1>0, <1>2, <2>4, <2>5, <2>6 DEF BaseTree, Whole
    <3> QED
      BY <1>0, <1>2, <1>3, <2>8, <3>3, <3>4 DEF CommitInv
  <2>11. RecoveryInv'
    <3>1. SUFFICES ASSUME Guarded'
                   PROVE  phase' # "lost" /\ Mounted'
      BY <2>8 DEF RecoveryInv
    <3>2. Guarded
      BY <1>0, <3>1 DEF Guarded, OneTear
    <3>3. PICK gen \in Nat, slot \in Slots, t \in Trees :
             /\ Whole(t) /\ Holds(slot, t) /\ Named(gen, slot, t)
             /\ Unharmed => \A m \in MirrorNames : Records(m, gen, slot, t)
      BY <1>5, <3>2
    <3>4. tree = t /\ sb.active = slot /\ sb.gen = gen
      BY <2>1, <2>2, <3>3, NamedMounts
    <3>5. mem'.gen = gen /\ mem'.active = slot /\ acked'.tree = t
      BY <2>6, <2>7, <3>4
    <3>6. \A m : /\ Records(m, gen, slot, t) => Current(m)'
                 /\ Before(m, gen) => Before(m, mem.gen)'
      BY <1>0, <3>5 DEF Records, Before, Current
    <3>7. Unharmed' => Unharmed
      BY <1>0 DEF Unharmed
    <3>8. machine'.tears /\ Unharmed' => Current("primary")' /\ Current("secondary")'
      BY <3>3, <3>6, <3>7, Roles
    <3>9. PrimaryOld'
      BY <3>3, <3>6 DEF Named, PrimaryOld
    <3>10. \/ Current("secondary")'
           \/ Current("primary")' /\ disk'.super["secondary"] = Torn
      BY <1>0, <3>3, <3>6 DEF Named
    <3>11. Unpublished'
      BY <3>8, <3>9, <3>10 DEF Unpublished
    <3>12. BaseTree' = acked'.tree /\ mem'.tree \in Trees'
      BY <1>0, <1>2, <2>6, <2>7, <2>8 DEF BaseTree
    <3>13. Whole(acked.tree)' /\ Holds(mem.active, acked.tree)'
      BY <1>0, <3>3, <3>5 DEF Whole, Holds
    <3> QED
      BY <1>0, <1>2, <2>3, <3>11, <3>12, <3>13 DEF Mounted
  <2>12. RepairInv'
    BY <1>0, <1>2, <1>3 DEF RepairInv
  <2> QED
    BY <2>9, <2>10, <2>11, <2>12 DEF FsInv
<1> QED
  BY <1>6, <1>7

-----------------------------------------------------------------------------
(* The first state, and every step. *)

LEMMA FreshVolume ==
  ASSUME machine \in Machines, disk = FreshDisk, NEW t, t = EmptyTree
  PROVE  /\ DiskShape /\ Whole(t) /\ Holds(0, t)
         /\ \A m \in MirrorNames : Records(m, 0, 0, t)
<1>1. PICK sb : sb = [gen |-> 0, active |-> 0, pending |-> 0, inodes |-> 0, dirents |-> 0]
  OBVIOUS
<1>2. sb \in Superblock /\ sb # Torn /\ sb.gen = 0 /\ sb.active = 0 /\ sb.inodes = 0 /\ sb.dirents = 0
  <2>1. 0 \in Nat /\ 0 \in Slots
    BY SMT, Z3T(40) DEF Slots
  <2>2. sb \in Superblock /\ sb.gen = 0 /\ sb.active = 0 /\ sb.inodes = 0 /\ sb.dirents = 0
    BY <1>1, <2>1 DEF Superblock
  <2> QED
    BY <2>2, TornAssumption
<1>3. t \in Tree /\ t.inodes = <<>> /\ t.dirents = <<>>
  <2>1. \A S : <<>> \in Seq(S)
    BY SMT, Z3T(40)
  <2> QED
    BY <2>1 DEF EmptyTree, Tree
<1>4. Len(<<>>) = 0 /\ DOMAIN <<>> = {}
  BY SMT, Z3T(40)
<1>5. Valid(Len(t.dirents), t.inodes, t.dirents)
  BY <1>3, <1>4 DEF Valid, Live
<1>6. PICK image : image = InodeImage(t)
  OBVIOUS
<1>7. image \in InodeTable
  BY <1>3, <1>6, ImageFields
<1>8. PICK supers : supers = [m \in MirrorNames |-> sb]
  OBVIOUS
<1>9. PICK inodes : inodes = [s \in Slots |-> image]
  OBVIOUS
<1>10. PICK dirents : dirents = [s \in Slots |-> <<>>]
  OBVIOUS
<1>11. PICK data : data = [b \in Blocks |-> Zeroed]
  OBVIOUS
<1>12. disk = [super |-> supers, inode |-> inodes, dirent |-> dirents, data |-> data]
  BY <1>1, <1>6, <1>8, <1>9, <1>10, <1>11 DEF FreshDisk, MirrorNames
<1>13. PICK d : d = [super |-> supers, inode |-> inodes, dirent |-> dirents, data |-> data]
  OBVIOUS
<1>14. /\ d.super = supers /\ d.inode = inodes /\ d.dirent = dirents
       /\ d = [super |-> d.super, inode |-> d.inode, dirent |-> d.dirent, data |-> d.data]
  BY <1>13
<1>15. /\ supers \in [MirrorNames -> Superblock \cup {Torn}]
       /\ inodes \in [Slots -> InodeTable \cup {Torn}]
       /\ dirents \in [Slots -> Seq(Dirent) \cup {Torn}]
  BY <1>2, <1>3, <1>7, <1>8, <1>9, <1>10, ImageFields
<1>16. disk = d
  BY <1>12, <1>13
<1>17. DiskShape
  BY <1>14, <1>15, <1>16 DEF DiskShape
<1>18. Holds(0, t)
  <2>1. inodes[0] = image /\ dirents[0] = <<>>
    BY <1>9, <1>10 DEF Slots
  <2> QED
    BY <1>3, <1>6, <1>14, <1>16, <2>1 DEF Holds
<1>19. ASSUME NEW m \in MirrorNames
       PROVE  Records(m, 0, 0, t)
  <2>1. disk.super[m] = sb
    BY <1>8, <1>14, <1>16
  <2> QED
    BY <1>2, <1>3, <1>4, <2>1 DEF Records
<1> QED
  BY <1>3, <1>5, <1>17, <1>18, <1>19 DEF Whole

LEMMA InitHolds ==
  ASSUME Init
  PROVE  FsInv
<1>0. /\ machine \in Machines /\ disk = FreshDisk /\ mem = Unmounted /\ phase = "off"
      /\ cache = ColdCache /\ commit = NoCommit /\ check = NoCheck
      /\ snap = [w \in Writers |-> NoSnap] /\ attempts = {} /\ crashes = 0 /\ errors = 0
  BY DEF Init
<1>1. acked.tree = EmptyTree
  <2>1. PICK r : r = [tree |-> EmptyTree, view |-> Nothing]
    OBVIOUS
  <2>2. r.tree = EmptyTree
    BY <2>1
  <2> QED
    BY <2>1, <2>2 DEF Init
<1>2. PICK t : t = EmptyTree
  OBVIOUS
<1>3. /\ DiskShape /\ Whole(t) /\ Holds(0, t)
      /\ \A m \in MirrorNames : Records(m, 0, 0, t)
  BY <1>0, <1>2, FreshVolume
<1>4. MemShape
  BY <1>0, UnmountedShape DEF MemShape
<1>5. CommitShape
  BY <1>0, NoCommitShape DEF CommitShape
<1>6. RestShape
  <2>1. 0 \in 0 .. 2 /\ 0 \in Nat
    BY SMT, Z3T(40)
  <2>2. machine.crashes \in Nat /\ machine.errors \in Nat
    BY <1>0, MachineAssumption DEF Machine
  <2>3. crashes \in 0 .. machine.crashes /\ errors \in 0 .. machine.errors
    BY <1>0, <2>2, SMT, Z3T(40)
  <2>4. snap \in [Writers -> [inode : Nat, block : Nat, empty : BOOLEAN]]
    BY <1>0, NoSnapShape
  <2>5. "idle" \in CheckStages /\ "idle" # "zero" /\ "idle" # "commit"
    BY DEF CheckStages
  <2>6. cache = [kind \in Tables |-> [slot \in Slots |-> cache[kind][slot]]]
    BY <1>0 DEF ColdCache
  <2>7. acked.tree \in Tree
    BY <1>1, <1>2, <1>3 DEF Whole
  <2> QED
    BY <1>0, <2>1, <2>3, <2>4, <2>5, <2>6, <2>7, NoCheckFields DEF RestShape
<1>7. CommitInv
  <2>1. mem.active \in Slots /\ Shadow \in Slots
    BY <1>4, SlotFacts DEF MemShape, Shadow
  <2>2. Coherent(mem.active) /\ Coherent(Shadow)
    BY <1>0, <2>1 DEF Coherent, ColdCache
  <2> QED
    BY <1>0, <2>2, NoCommitShape, NoCheckFields DEF CommitInv, Running
<1>8. RecoveryInv
  <2>1. t \in Trees
    BY <1>1, <1>2 DEF Trees
  <2>2. 0 \in Nat /\ 0 \in Slots
    BY SMT, Z3T(40) DEF Slots
  <2>3. Named(0, 0, t)
    BY <1>3, Roles DEF Named
  <2>4. Off
    BY <1>3, <2>1, <2>2, <2>3 DEF Off
  <2> QED
    BY <1>0, <2>4 DEF RecoveryInv, Running
<1>9. RepairInv
  BY <1>0, NoCheckFields DEF RepairInv
<1> QED
  BY <1>3, <1>4, <1>5, <1>6, <1>7, <1>8, <1>9 DEF FsInv, Shape

LEMMA StutterKeeps ==
  ASSUME FsInv, UNCHANGED vars
  PROVE  FsInv'
<1>0. UNCHANGED <<machine, phase, disk, mem, cache, commit, snap, check, acked, attempts, crashes, errors>>
  BY DEF vars
<1>1. /\ Shape /\ CommitInv /\ RecoveryInv /\ RepairInv
      /\ DiskShape /\ MemShape /\ CommitShape /\ RestShape
  BY DEF FsInv, Shape
<1>2. MemShape' /\ RestShape'
  BY <1>0, <1>1 DEF MemShape, RestShape, FreeShape
<1>3. RepairInv'
  BY <1>0, <1>1, SameRepair
<1>4. CASE Running
  <2>1. disk' = [super |-> disk.super, inode |-> disk.inode, dirent |-> disk.dirent, data |-> disk'.data]
    BY <1>0, <1>1 DEF DiskShape
  <2>2. Running' /\ (Unharmed' => Unharmed) /\ (commit.kind = "repair" <=> check'.stage = "committing")
    BY <1>0, <1>1, <1>4 DEF Running, Unharmed, CommitInv
  <2> QED
    BY <1>0, <1>2, <1>3, <1>4, <2>1, <2>2, QuietStep
<1>5. CASE ~Running
  <2>1. ~Running' /\ (Guarded' => Guarded) /\ Trees' = Trees /\ (Unharmed' => Unharmed)
    BY <1>0, <1>5 DEF Running, Guarded, OneTear, Trees, Unharmed
  <2>2. DiskShape' /\ CommitShape'
    BY <1>0, <1>1 DEF DiskShape, CommitShape, FreeShape
  <2>3. CommitInv'
    <3>1. Unmounted' = Unmounted
      BY <1>0 DEF Unmounted, Opened, FreshDisk, Blocks
    <3>2. Coherent(mem.active)' /\ (~mem.sync /\ commit.stage # "flush" => Coherent(Shadow)')
      BY <1>0, <1>1 DEF CommitInv, Coherent, Shadow
    <3>3. commit.kind = "none" /\ commit.stage = "none"
      BY <1>1, <1>5 DEF CommitInv, CommitShape
    <3> QED
      BY <1>0, <1>1, <1>5, <2>1, <3>1, <3>2, <3>3 DEF CommitInv
  <2>4. RecoveryInv'
    <3>1. \A m, gen, slot, tree : Records(m, gen, slot, tree) <=> Records(m, gen, slot, tree)'
      BY <1>0 DEF Records
    <3>2. \A m, gen : Before(m, gen) => Before(m, gen)'
      BY <1>0 DEF Before
    <3>3. \A gen, slot, tree : Named(gen, slot, tree) => Named(gen, slot, tree)'
      BY <1>0, <3>1, <3>2 DEF Named
    <3>4. \A slot, tree : (Whole(tree) => Whole(tree)') /\ (Holds(slot, tree) => Holds(slot, tree)')
      BY <1>0 DEF Whole, Holds
    <3>5. Off => Off'
      BY <2>1, <3>1, <3>3, <3>4 DEF Off
    <3> QED
      BY <1>0, <1>1, <1>5, <2>1, <3>5 DEF RecoveryInv
  <2> QED
    BY <1>2, <1>3, <2>2, <2>3, <2>4 DEF FsInv, Shape
<1> QED
  BY <1>4, <1>5

LEMMA StepKeeps ==
  ASSUME FsInv, [Next]_vars
  PROVE  FsInv'
<1>1. CASE Next
  <2>1. ASSUME NEW w \in Writers, NEW n \in Names, Create(w, n) \/ Remove(w, n) \/ ReadInode(w, n)
        PROVE  FsInv'
    BY <2>1, CreateKeeps, RemoveKeeps, ReadInodeKeeps
  <2>2. ASSUME NEW w \in Writers, AppendData(w) \/ Replace(w) \/ NoSpace(w)
        PROVE  FsInv'
    BY <2>2, AppendKeeps, ReplaceKeeps, NoSpaceKeeps
  <2>3. CASE Flush \/ WriteNext \/ Fail \/ Finish
    BY <2>3, FlushKeeps, WriteNextKeeps, FailKeeps, FinishKeeps
  <2>4. CASE CheckStart \/ CheckZero \/ CheckRebuild \/ CheckCommit \/ CheckInspect
    BY <2>4, CheckStartKeeps, CheckZeroKeeps, CheckRebuildKeeps, CheckCommitKeeps, CheckInspectKeeps
  <2>5. CASE Crash \/ Mount
    BY <2>5, CrashKeeps, MountKeeps
  <2> QED
    BY <1>1, <2>1, <2>2, <2>3, <2>4, <2>5 DEF Next
<1>2. CASE UNCHANGED vars
  BY <1>2, StutterKeeps
<1> QED
  BY <1>1, <1>2

-----------------------------------------------------------------------------
(* The tables a mount would read. *)

LEMMA SameTables ==
  ASSUME disk'.inode = disk.inode, disk'.dirent = disk.dirent
  PROVE  SparesActive
BY DEF SparesActive, Tables

(* The active slot is kept, and the shadow slot where a mount could read it. *)
LEMMA KeptTables ==
  ASSUME FsInv, Guarded, Running, commit.writes # <<>>,
         NEW a, a = mem.active, NEW s, s = Shadow,
         disk'.inode[a] = disk.inode[a], disk'.dirent[a] = disk.dirent[a],
         Filling \/ (disk'.inode[s] = disk.inode[s] /\ disk'.dirent[s] = disk.dirent[s])
  PROVE  SparesActive
<1>1. Shape /\ CommitInv /\ Mounted
  BY DEF FsInv, RecoveryInv
<1>2. mem.gen \in Nat /\ a \in Slots /\ s \in Slots /\ s = Other(a)
  BY <1>1, InvParts DEF Shadow
<1>3. CASE ~Filling
  <2>1. PICK gen \in Nat, slot \in Slots, tree \in Trees :
           Whole(tree) /\ Holds(slot, tree) /\ Named(gen, slot, tree)
    BY StateNamed
  <2>2. Newest.active = a \/ Newest.active = s
    <3>1. Newest.active = slot
      BY <2>1, NamedMounts
    <3>2. slot = a \/ slot = s
      BY <1>2, SlotFacts
    <3> QED
      BY <3>1, <3>2
  <2> QED
    BY <1>3, <2>2 DEF SparesActive, Tables
<1>4. CASE Filling
  <2>1. PICK g : g = mem.gen
    OBVIOUS
  <2>2. PICK t : t = acked.tree
    OBVIOUS
  <2>3. /\ Surviving(g, a, s, t)
        /\ \/ Records("secondary", g, a, t)
           \/ Records("primary", g, a, t) /\ disk.super["secondary"] = Torn
    BY <1>1, <1>4, <2>1, <2>2, SurvivingNow
  <2>4. Named(g, a, t) /\ Holds(a, t)
    BY <2>3 DEF Surviving, Named
  <2>5. g \in Nat /\ Whole(t)
    BY <1>1, <1>2, <2>1, <2>2 DEF Mounted
  <2>6. Newest.active = a
    BY <2>4, <2>5, NamedMounts
  <2> QED
    BY <2>6 DEF SparesActive, Tables
<1> QED
  BY <1>3, <1>4

LEMMA InterruptionSpares ==
  ASSUME FsInv, Guarded, Running, Interrupted(commit.writes)
  PROVE  SparesActive
<1>1. CASE commit.writes = <<>>
  BY <1>1, SameTables DEF Interrupted
<1>2. CASE commit.writes # <<>>
  <2>1. PICK a : a = mem.active
    OBVIOUS
  <2>2. PICK s : s = Shadow
    OBVIOUS
  <2>3. Shape /\ CommitInv
    BY DEF FsInv
  <2>4. CutShort(a, s)
    BY <1>2, <2>1, <2>2, <2>3, Interruption
  <2>5. disk'.inode[a] = disk.inode[a] /\ disk'.dirent[a] = disk.dirent[a]
    BY <2>4 DEF CutShort
  <2>6. Filling \/ (disk'.inode[s] = disk.inode[s] /\ disk'.dirent[s] = disk.dirent[s])
    BY <2>4 DEF CutShort, MirrorTorn
  <2> QED
    BY <1>2, <2>1, <2>2, <2>5, <2>6, KeptTables
<1> QED
  BY <1>1, <1>2

LEMMA WriteSpares ==
  ASSUME FsInv, Guarded, WriteNext
  PROVE  SparesActive
<1>1. PICK x : x = Head(commit.writes)
  OBVIOUS
<1>2. PICK d : d = disk'
  OBVIOUS
<1>3. commit.writes # <<>> /\ d = Put(disk, x.kind, x.where, x.value)
  BY <1>1, <1>2 DEF WriteNext, Put
<1>4. Shape /\ CommitInv /\ CommitShape
  BY DEF FsInv, Shape
<1>5. Running /\ (commit.stage = "mutate" \/ commit.stage = "flush")
  BY <1>3, <1>4 DEF CommitShape, CommitInv
<1>6. PICK a : a = mem.active
  OBVIOUS
<1>7. PICK s : s = Shadow
  OBVIOUS
<1>8. DiskShape /\ MemShape /\ mem.gen \in Nat /\ a \in Slots /\ s \in Slots /\ s # a
      /\ mem.tree \in Tree /\ (commit.stage = "flush" => Flushing)
  BY <1>4, <1>5, <1>6, <1>7, InvParts
<1>9. CASE commit.stage = "mutate"
  <2>1. PICK y : y.kind = "data" /\ commit.writes = <<y>>
    BY <1>3, <1>4, <1>9 DEF CommitInv, DataWrites
  <2>2. Head(commit.writes) = y
    BY <2>1, SMT, Z3T(40)
  <2>3. x.kind = "data"
    BY <1>1, <2>1, <2>2
  <2>4. d.inode = disk.inode /\ d.dirent = disk.dirent
    BY <1>3, <1>8, <2>3, DataPut, SMTT(30), Z3T(40)
  <2> QED
    BY <1>2, <2>4, SameTables
<1>10. CASE commit.stage = "flush"
  <2>1. PICK rest : rest = Elements(Tail(commit.writes))
    OBVIOUS
  <2>2. /\ x \in {PendingWrite("secondary"), PendingWrite("primary"), ShadowWrite("inode"),
                  ShadowWrite("dirent"), PublishWrite("secondary"), PublishWrite("primary")}
        /\ ToCome = {x} \cup rest
        /\ x # PendingWrite("secondary") => PendingWrite("secondary") \notin ToCome
        /\ x \in {PendingWrite("secondary"), PendingWrite("primary"), ShadowWrite("inode"),
                  ShadowWrite("dirent")} => PublishWrite("secondary") \in rest
    BY <1>1, <1>3, <1>4, <1>8, <1>10, <2>1, HeadFacts
  <2>3. ASSUME NEW m \in MirrorNames, x = PendingWrite(m) \/ x = PublishWrite(m)
        PROVE  SparesActive
    <3>1. /\ PendingWrite(m).kind = "super" /\ PendingWrite(m).where = m /\ PendingWrite(m).value = Pending
          /\ PublishWrite(m).kind = "super" /\ PublishWrite(m).where = m /\ PublishWrite(m).value = Published
          /\ Pending \in Superblock /\ Published \in Superblock
      BY <1>4, <1>8, WriteFields
    <3>2. PICK v : v = x.value
      OBVIOUS
    <3>3. x.kind = "super" /\ x.where = m /\ v \in Superblock \cup {Torn}
      BY <2>3, <3>1, <3>2
    <3>4. d = Put(disk, x.kind, m, v)
      BY <1>3, <3>2, <3>3
    <3>5. d.inode = disk.inode /\ d.dirent = disk.dirent
      BY <1>8, <3>3, <3>4, MirrorPut, SMTT(30), Z3T(40)
    <3> QED
      BY <1>2, <3>5, SameTables
  <2>4. ASSUME NEW kind \in Tables, x = ShadowWrite(kind)
        PROVE  SparesActive
    <3>1. /\ ShadowWrite(kind).kind = kind /\ ShadowWrite(kind).where = Shadow
          /\ ShadowWrite(kind).value = Image(kind) /\ PendingWrite("secondary").kind = "super"
      BY <1>4, <1>8, WriteFields
    <3>2. PICK v : v = Image(kind)
      OBVIOUS
    <3>3. v = Torn \/ (kind = "inode" /\ v \in InodeTable) \/ (kind = "dirent" /\ v \in Seq(Dirent))
      <4>1. InodeImage(mem.tree) \in InodeTable /\ mem.tree.dirents \in Seq(Dirent)
        BY <1>8, ImageFields
      <4>2. kind = "inode" \/ (kind = "dirent" /\ kind # "inode")
        BY DEF Tables
      <4> QED
        BY <3>2, <4>1, <4>2 DEF Image
    <3>4. d = Put(disk, kind, s, v)
      BY <1>3, <1>7, <2>4, <3>1, <3>2
    <3>5. \A k \in Tables, n \in Slots : k # kind \/ n # s => d[k][n] = disk[k][n]
      BY <1>8, <3>3, <3>4, TablePut, SMTT(30), Z3T(40)
    <3>6. d.inode[a] = disk.inode[a] /\ d.dirent[a] = disk.dirent[a]
      BY <1>8, <3>5 DEF Tables
    <3>7. Filling
      <4>1. x \in {ShadowWrite("inode"), ShadowWrite("dirent")}
        BY <2>4 DEF Tables
      <4>2. x # PendingWrite("secondary")
        BY <2>4, <3>1, Roles
      <4> QED
        BY <1>10, <2>2, <4>1, <4>2 DEF Filling
    <3> QED
      BY <1>2, <1>3, <1>5, <1>6, <1>7, <3>6, <3>7, KeptTables
  <2> QED
    BY <2>2, <2>3, <2>4, Roles
<1> QED
  BY <1>5, <1>9, <1>10

LEMMA StepSpares ==
  ASSUME FsInv, Guarded, Next
  PROVE  SparesActive
<1>1. CASE UNCHANGED disk
  BY <1>1, SameTables
<1>2. CASE WriteNext
  BY <1>2, WriteSpares
<1>3. CASE Fail
  <2>1. Interrupted(commit.writes) /\ commit.writes # <<>>
    BY <1>3 DEF Fail
  <2>2. Running
    BY <2>1 DEF FsInv, CommitInv
  <2> QED
    BY <2>1, <2>2, InterruptionSpares
<1>4. CASE Crash
  BY <1>4, InterruptionSpares DEF Crash, Running
<1>5. CASE CheckZero
  <2>1. DiskShape
    BY DEF FsInv, Shape
  <2>2. PICK x : disk' = [disk EXCEPT !.data = x]
    BY <1>5 DEF CheckZero
  <2>3. disk' = [super |-> disk.super, inode |-> disk.inode, dirent |-> disk.dirent, data |-> x]
    BY <2>1, <2>2 DEF DiskShape
  <2>4. disk'.inode = disk.inode /\ disk'.dirent = disk.dirent
    BY <2>3
  <2> QED
    BY <2>4, SameTables
<1>6. ASSUME NEW w \in Writers, NEW n \in Names, Create(w, n) \/ Remove(w, n) \/ ReadInode(w, n)
      PROVE  UNCHANGED disk
  BY <1>6 DEF Create, Remove, ReadInode, Begin
<1>7. ASSUME NEW w \in Writers, AppendData(w) \/ Replace(w) \/ NoSpace(w)
      PROVE  UNCHANGED disk
  BY <1>7 DEF AppendData, Replace, NoSpace, Begin
<1>8. CASE \/ Flush \/ Finish \/ CheckStart \/ CheckRebuild \/ CheckCommit \/ CheckInspect \/ Mount
  <2>1. UNCHANGED disk
    BY <1>8 DEF Flush, Finish, CheckStart, CheckRebuild, CheckCommit, CheckInspect, Mount
  <2> QED
    BY <2>1, SameTables
<1> QED
  BY <1>1, <1>2, <1>3, <1>4, <1>5, <1>6, <1>7, <1>8 DEF Next

-----------------------------------------------------------------------------
(* The inductive invariant: the writes still to come of a commit, what the    *)
(* mirrors and slots hold meanwhile, and what the block cache knows of them.  *)
THEOREM CommitsAreOrderly ==
  Spec => []FsInv
<1>1. Init => FsInv
  BY InitHolds
<1>2. FsInv /\ [Next]_vars => FsInv'
  BY StepKeeps
<1> QED
  BY <1>1, <1>2, PTL DEF Spec

(* Whatever crash, failed or torn write comes, and however often: the volume  *)
(* mounts and shows the tree of the last success or of an operation begun     *)
(* since (flush_metadata_inner), for any number of files, slots in use and    *)
(* operations.                                                                *)
THEOREM CrashesAreAtomic ==
  Spec => []CrashAtomic
<1>1. FsInv => CrashAtomic
  BY InvIsAtomic
<1> QED
  BY <1>1, CommitsAreOrderly, PTL

(* check_and_repair at boot ends with the volume in order, unless the device  *)
(* fails it.                                                                  *)
THEOREM ChecksConverge ==
  Spec => []RepairConverges
<1>1. FsInv => RepairConverges
  BY DEF FsInv, RepairInv, Calm, RepairConverges
<1> QED
  BY <1>1, CommitsAreOrderly, PTL

(* No step, whether it succeeds, fails or is cut short, writes a table that a *)
(* mount would read at that moment (flush_metadata_inner).                    *)
THEOREM TheActiveTablesAreKept ==
  Spec => ActiveTablesKept
<1>1. FsInv /\ [Next]_vars => [Guarded => SparesActive]_vars
  BY StepSpares
<1> QED
  BY <1>1, CommitsAreOrderly, PTL DEF Spec, ActiveTablesKept

(* Between operations the memory holds the tree last acknowledged: a failed   *)
(* operation is rolled back whole (rollback_undo).                            *)
THEOREM TreeIsAcknowledged ==
  Spec => [](Guarded /\ Settled => mem.tree = acked.tree)
<1>1. FsInv => (Guarded /\ Settled => mem.tree = acked.tree)
  BY DEF FsInv, RecoveryInv, Settled, Running, Mounted, BaseTree
<1> QED
  BY <1>1, CommitsAreOrderly, PTL

(* The block cache never shows of the active tables, by which mounted files   *)
(* are found, anything but what the device holds (write_blocks_cached).       *)
THEOREM CacheShowsTheActiveTables ==
  Spec => [](\A kind \in Tables : cache[kind][mem.active] \subseteq {disk[kind][mem.active]})
<1>1. FsInv => \A kind \in Tables : cache[kind][mem.active] \subseteq {disk[kind][mem.active]}
  BY DEF FsInv, CommitInv, Coherent
<1> QED
  BY <1>1, CommitsAreOrderly, PTL
=============================================================================
