--------------------------- MODULE ShootdownProofs ---------------------------
(***************************************************************************)
(* Proofs about the posted log and the stack window on it, once every CPU   *)
(* is registered (Early = CPUs): for any number of CPUs, pages, slots,      *)
(* edits and stack operations, a mark that all_cpus_flushed answers TRUE    *)
(* for leaves no stale translation on any CPU, and no stack is ever seen    *)
(* through the mapping of an earlier one.                                  *)
(*                                                                         *)
(* First the log: its inductive invariant and the steps of a request, then  *)
(* the steps of catch_up, then what follows.  Then the same for the window. *)
(***************************************************************************)
EXTENDS StackWindow, SublistLemmas, FiniteSetTheorems, TLAPS

\* A leaf that names no prover is for Zenon.
USE ZenonT(60)

(* Every CPU is running and registered. *)
AllOnline == started = CPUs /\ online = CPUs

(* Records never pass what was handed out, and no CPU is more than a ring    *)
(* behind: the entries it has still to walk are all in the ring.            *)
InBounds ==
    \A c \in CPUs : cursors[c] <= head /\ head - cursors[c] <= Slots /\ flushed[c] <= generation

(* A walk in progress: what it read is not ahead of the log, nor behind the  *)
(* record it will replace; in mid entry it holds that entry's start.        *)
WalkOK(c) ==
    /\ walk[c].pc # "idle" => cursors[c] <= walk[c].head /\ walk[c].head <= head
    /\ walk[c].pc \in {"flush", "flushed"} =>
          flushed[c] <= walk[c].generation /\ walk[c].generation <= generation
    /\ walk[c].pc \in {"walk", "half"} =>
          cursors[c] <= walk[c].cursor /\ walk[c].cursor <= walk[c].head
    /\ walk[c].pc = "half" =>
          walk[c].cursor < walk[c].head /\ walk[c].start = slots[walk[c].cursor % Slots].start

(* A request in progress: it counted every CPU, asks for what it edited, and  *)
(* holds the lock of a slot every CPU has walked past while it fills it.     *)
PostOK(c) ==
    /\ post[c].pc = "counted" => post[c].count = LogCpus
    /\ \A p \in Pages : /\ post[c].seen[p] <= version[p]
                        /\ post[c].seen[p] # 0 => post[c].start <= p /\ p < post[c].end
    /\ post[c].pc = "append" =>
          /\ appending
          /\ \A d \in CPUs : head - cursors[d] < Slots /\ (d # c => post[d].pc # "append")
          /\ slots[head % Slots].start = post[c].start

(* A mark names a position or generation that was handed out. *)
RequestOK(r) ==
    /\ r.mark.kind = "Posted" => r.mark.at < head
    /\ r.mark.kind = "Flushed" => r.mark.at <= generation
    /\ \A p \in Pages : r.seen[p] <= version[p]

(* An entry that some CPU has not walked past is still in its slot. *)
Kept(r) ==
    (r.mark.kind = "Posted" /\ \E c \in CPUs : cursors[c] <= r.mark.at) =>
        \A p \in Pages : r.seen[p] # 0 =>
            slots[r.mark.at % Slots].start <= p /\ p < slots[r.mark.at % Slots].end

(* CPU c has done what the request asked, published or not. *)
Served(c, r) ==
    \/ /\ r.mark.kind = "Posted"
       /\ \/ r.mark.at < cursors[c]
          \/ walk[c].pc \in {"walk", "half"} /\ r.mark.at < walk[c].cursor
          \/ walk[c].pc = "flushed" /\ r.mark.at < walk[c].head
    \/ /\ r.mark.kind = "Flushed"
       /\ \/ r.mark.at <= flushed[c]
          \/ walk[c].pc = "flushed" /\ r.mark.at <= walk[c].generation

ServedIsGone == \A c \in CPUs, r \in requests : Served(c, r) => Gone(c, r.seen)

IInv ==
    /\ TypeOK /\ AllOnline /\ InBounds /\ ServedIsGone
    /\ \A c \in CPUs : WalkOK(c) /\ PostOK(c)
    /\ \A r \in requests : RequestOK(r) /\ Kept(r)

-----------------------------------------------------------------------------
(* Two positions less than a ring apart are in different slots. *)
LEMMA DistinctSlots ==
    ASSUME NEW a \in Nat, NEW b \in Nat, a < b, b - a < Slots
    PROVE  a % Slots # b % Slots
<1>1. Slots \in Nat \ {0}
  BY PostedLogAssumption
<1> DEFINE qa == a \div Slots
           qb == b \div Slots
           k == qb - qa
<1>2. qa \in Int /\ qb \in Int
  BY SMT, Z3T(40), <1>1
<1>3. (a % Slots) \in Int /\ (b % Slots) \in Int
  BY SMT, Z3T(40), <1>1
<1>4. a = (Slots * qa) + (a % Slots)
  BY SMT, Z3T(40), <1>1
<1>5. b = (Slots * qb) + (b % Slots)
  BY SMT, Z3T(40), <1>1
<1> HIDE DEF qa, qb
<1>6. k \in Int
  BY SMT, Z3T(40), <1>2
<1>7. Slots * k = (Slots * qb) - (Slots * qa)
  BY SMT, Z3T(40), <1>1, <1>2
<1> HIDE DEF k
<1>8. Slots * k \in Int /\ Slots * qa \in Int /\ Slots * qb \in Int
  BY SMT, Z3T(40), <1>1, <1>2, <1>6
<1>9. k <= 0 => Slots * k <= 0
  BY SMT, Z3T(40), <1>1, <1>6
<1>10. k >= 1 => Slots * k >= Slots
  BY SMT, Z3T(40), <1>1, <1>6
<1> QED
  BY SMT, Z3T(40), <1>1, <1>3, <1>4, <1>5, <1>6, <1>7, <1>8, <1>9, <1>10

(* A position is in the ring. *)
LEMMA InRing ==
    ASSUME NEW a \in Nat
    PROVE  a % Slots \in 0 .. Slots - 1
BY PostedLogAssumption, SMT, Z3T(40)

(* With every CPU registered, the count covers every CPU. *)
LEMMA CountCoversAll ==
    ASSUME AllOnline
    PROVE  OnlineCount = LogCpus /\ Counted(LogCpus) = CPUs
<1>1. LogCpus \in Nat \ {0}
  BY PostedLogAssumption
<1>2. Cardinality(0 .. LogCpus - 1) = LogCpus
  BY SMT, Z3T(40), <1>1, FS_Interval
<1> QED
  BY SMT, Z3T(40), <1>1, <1>2 DEF AllOnline, OnlineCount, Counted, CPUs

(* The types of the parts of a well-typed state. *)
LEMMA Parts ==
    ASSUME TypeOK, NEW c \in CPUs
    PROVE  /\ head \in Nat /\ generation \in Nat
           /\ cursors[c] \in Nat /\ flushed[c] \in Nat
           /\ walk[c].head \in Nat /\ walk[c].generation \in Nat
           /\ walk[c].cursor \in Nat /\ walk[c].start \in Nat
           /\ post[c].start \in Nat /\ post[c].end \in Nat /\ post[c].count \in Nat
           /\ post[c].seen \in [Pages -> Nat] /\ post[c].mark \in Mark
           /\ \A p \in Pages : version[p] \in Nat /\ cached[c][p] \in Nat \cup {Absent}
BY SMT, Z3T(40) DEF TypeOK, PostRecord, WalkRecord

(* PostedLog::new with every CPU registered. *)
LEMMA InitInv ==
    ASSUME Early = CPUs, Init
    PROVE  IInv
<1>1. TypeOK
  BY PostedLogAssumption DEF Init, TypeOK, IdlePost, IdleWalk, NothingSeen, NoMark, Mark, Absent, PostRecord, WalkRecord
<1>2. AllOnline
  BY DEF Init, AllOnline
<1>3. InBounds
  BY SMT, Z3T(40), PostedLogAssumption DEF Init, InBounds
<1>4. \A c \in CPUs : WalkOK(c) /\ PostOK(c)
  BY SMT, Z3T(40) DEF Init, WalkOK, PostOK, IdleWalk, IdlePost, NothingSeen
<1>5. requests = {}
  BY DEF Init
<1> QED
  BY <1>1, <1>2, <1>3, <1>4, <1>5 DEF IInv, ServedIsGone

(* A memory access caches the current version, which no request is about. *)
LEMMA TouchInv ==
    ASSUME IInv, NEW c \in CPUs, NEW q \in Pages, Touch(c, q)
    PROVE  IInv'
<1>1. TypeOK'
  BY DEF IInv, TypeOK, Touch, logVars, bootVars
<1>2. ServedIsGone'
  <2> SUFFICES ASSUME NEW d \in CPUs, NEW r \in requests, Served(d, r)', NEW p \in Pages
               PROVE  (cached[d][p] = Absent \/ cached[d][p] >= r.seen[p])'
    BY DEF ServedIsGone, Gone, Touch
  <2>1. Gone(d, r.seen)
    BY DEF IInv, ServedIsGone, Served, Touch, logVars
  <2>2. r.seen[p] <= version[p]
    BY DEF IInv, RequestOK
  <2>3. cached'[d][p] = IF d = c /\ p = q THEN version[p] ELSE cached[d][p]
    BY DEF IInv, TypeOK, Touch
  <2> QED
    BY <2>1, <2>2, <2>3, Parts DEF IInv, TypeOK, Gone
<1>3. AllOnline' /\ InBounds'
  BY DEF IInv, AllOnline, InBounds, Touch, logVars, bootVars
<1>4. \A d \in CPUs : WalkOK(d)' /\ PostOK(d)'
  BY ZenonT(40) DEF IInv, WalkOK, PostOK, Touch, logVars
<1>5. \A r \in requests' : RequestOK(r)' /\ Kept(r)'
  BY DEF IInv, RequestOK, Kept, Touch, logVars
<1> QED
  BY <1>1, <1>2, <1>3, <1>4, <1>5 DEF IInv

(* What is cached after a drop. *)
LEMMA AfterDrop ==
    ASSUME TypeOK, NEW c \in CPUs, NEW pages, cached' = Dropping(c, pages)
    PROVE  /\ cached' \in [CPUs -> [Pages -> Nat \cup {Absent}]]
           /\ \A d \in CPUs, p \in Pages :
                 cached'[d][p] = IF d = c /\ p \in pages THEN Absent ELSE cached[d][p]
BY DEF TypeOK, Dropping

(* Pages are edited, translations dropped, and a CPU's request, which does not *)
(* hold the lock, replaced by one for pages edited so far.                   *)
LEMMA EditedInv ==
    ASSUME IInv, NEW c \in CPUs, NEW new \in PostRecord, new.pc \in {"idle", "edited"},
           post[c].pc # "append", post' = [post EXCEPT ![c] = new],
           version' \in [Pages -> Nat], \A p \in Pages : version[p] <= version'[p],
           \A p \in Pages : /\ new.seen[p] <= version'[p]
                            /\ new.seen[p] # 0 => new.start <= p /\ p < new.end,
           cached' \in [CPUs -> [Pages -> Nat \cup {Absent}]],
           \A d \in CPUs, p \in Pages : cached'[d][p] = Absent \/ cached'[d][p] = cached[d][p],
           edits' \in Nat,
           UNCHANGED <<slots, head, cursors, flushed, generation, appending>>,
           UNCHANGED <<started, online, walk, requests>>
    PROVE  IInv'
<1>1. /\ post' \in [CPUs -> PostRecord] /\ post'[c] = new
      /\ \A d \in CPUs : d # c => post'[d] = post[d]
  BY DEF IInv, TypeOK
<1>2. TypeOK'
  BY <1>1 DEF IInv, TypeOK
<1>3. ServedIsGone'
  <2> SUFFICES ASSUME NEW d \in CPUs, NEW r \in requests, Served(d, r)', NEW p \in Pages
               PROVE  (cached[d][p] = Absent \/ cached[d][p] >= r.seen[p])'
    BY DEF ServedIsGone, Gone
  <2>1. Gone(d, r.seen)
    BY DEF IInv, ServedIsGone, Served
  <2> QED
    BY <2>1 DEF Gone
<1>4. AllOnline' /\ InBounds'
  BY DEF IInv, AllOnline, InBounds
<1>5. \A d \in CPUs : WalkOK(d)'
  BY DEF IInv, WalkOK
<1>6. ASSUME NEW d \in CPUs PROVE PostOK(d)'
  <2>1. CASE d = c
    BY <2>1, <1>1 DEF PostOK
  <2>2. CASE d # c
    <3>1. \A p \in Pages : post[d].seen[p] <= version'[p]
      <4> SUFFICES ASSUME NEW p \in Pages PROVE post[d].seen[p] <= version'[p]
        OBVIOUS
      <4>1. post[d].seen[p] <= version[p] /\ post[d].seen[p] \in Nat /\ version[p] \in Nat
        BY Parts DEF IInv, PostOK
      <4>2. version[p] <= version'[p] /\ version'[p] \in Nat
        OBVIOUS
      <4> QED
        BY SMT, Z3T(40), <4>1, <4>2
    <3>2. \A x \in CPUs : post'[x].pc = "append" => post[x].pc = "append"
      BY <1>1
    <3> QED
      BY <2>2, <3>1, <3>2, <1>1 DEF IInv, PostOK
  <2> QED
    BY <2>1, <2>2
<1>7. \A r \in requests' : RequestOK(r)' /\ Kept(r)'
  <2> SUFFICES ASSUME NEW r \in requests PROVE RequestOK(r)' /\ Kept(r)'
    OBVIOUS
  <2>1. \A p \in Pages : r.seen[p] <= version'[p]
    <3> SUFFICES ASSUME NEW p \in Pages PROVE r.seen[p] <= version'[p]
      OBVIOUS
    <3>1. r.seen[p] <= version[p] /\ r.seen[p] \in Nat /\ version[p] \in Nat
      BY DEF IInv, RequestOK, TypeOK
    <3>2. version[p] <= version'[p] /\ version'[p] \in Nat
      OBVIOUS
    <3> QED
      BY SMT, Z3T(40), <3>1, <3>2
  <2> QED
    BY <2>1 DEF IInv, RequestOK, Kept
<1> QED
  BY <1>2, <1>3, <1>4, <1>5, <1>6, <1>7 DEF IInv

(* A page-table edit with its local drop only removes translations. *)
LEMMA EditInv ==
    ASSUME IInv, NEW c \in CPUs, NEW s \in Pages, NEW q \in Pages, Edit(c, s, q + 1)
    PROVE  IInv'
<1> DEFINE e == q + 1
           seen == [p \in Pages |-> IF p \in PagesIn(s, e) THEN version[p] + 1 ELSE 0]
           new == [pc |-> "edited", start |-> s, end |-> e, count |-> 0,
                   seen |-> seen, mark |-> NoMark]
<1>1. s \in Nat /\ e \in Nat
  BY SMT, Z3T(40), PostedLogAssumption DEF Pages
<1>2. /\ version' \in [Pages -> Nat]
      /\ \A p \in Pages : /\ version[p] <= version'[p]
                          /\ p \in PagesIn(s, e) => version'[p] = version[p] + 1
  <2>1. version' = [p \in Pages |-> IF p \in PagesIn(s, e) THEN version[p] + 1 ELSE version[p]]
    BY DEF Edit, EditPages
  <2>2. version \in [Pages -> Nat]
    BY DEF IInv, TypeOK
  <2> QED
    BY SMT, Z3T(40), <2>1, <2>2
<1>3. post' = [post EXCEPT ![c] = new] /\ post[c].pc # "append"
  BY DEF Edit, EditPages
<1>4. /\ UNCHANGED <<slots, head, cursors, flushed, generation, appending>>
      /\ UNCHANGED <<started, online, walk, requests>>
  BY DEF Edit, EditPages, logVars, bootVars
<1>5. edits' \in Nat
  BY SMT, Z3T(40) DEF IInv, TypeOK, Edit, EditPages
<1>6. /\ cached' \in [CPUs -> [Pages -> Nat \cup {Absent}]]
      /\ \A d \in CPUs, p \in Pages : cached'[d][p] = Absent \/ cached'[d][p] = cached[d][p]
  <2>1. \E pages : cached' = Dropping(c, pages)
    BY DEF Edit, EditPages
  <2> QED
    BY <2>1, AfterDrop DEF IInv
<1>7. \A p \in Pages : seen[p] <= version'[p] /\ (seen[p] # 0 => s <= p /\ p < e)
  BY SMT, Z3T(40), <1>2, Parts DEF IInv, PagesIn
<1>8. seen \in [Pages -> Nat]
  BY SMT, Z3T(40) DEF IInv, TypeOK
<1>9. /\ new \in PostRecord /\ new.pc = "edited" /\ new.seen = seen
      /\ new.start = s /\ new.end = e
  BY <1>1, <1>8 DEF NoMark, Mark, PostRecord
<1> HIDE DEF new, seen, e
<1> QED
  BY <1>2, <1>3, <1>4, <1>5, <1>6, <1>7, <1>9, EditedInv

(* A request moves on and keeps what it asks for. *)
LEMMA AfterPostGoes ==
    ASSUME TypeOK, NEW c \in CPUs, NEW n \in Nat,
           NEW pc \in {"counted", "append", "promote"}, PostGoes(c, pc, n)
    PROVE  /\ post' \in [CPUs -> PostRecord]
           /\ post'[c].pc = pc /\ post'[c].count = n
           /\ post'[c].start = post[c].start /\ post'[c].end = post[c].end
           /\ post'[c].seen = post[c].seen
           /\ \A d \in CPUs : d # c => post'[d] = post[d]
<1> DEFINE new == [pc |-> pc, start |-> post[c].start, end |-> post[c].end, count |-> n,
                   seen |-> post[c].seen, mark |-> NoMark]
<1>1. new \in PostRecord
  BY Parts DEF PostRecord, NoMark, Mark
<1>2. post' = [post EXCEPT ![c] = new] /\ post \in [CPUs -> PostRecord]
  BY DEF PostGoes, TypeOK
<1>3. /\ new.pc = pc /\ new.count = n /\ new.start = post[c].start /\ new.end = post[c].end
      /\ new.seen = post[c].seen
  OBVIOUS
<1> HIDE DEF new
<1> QED
  BY <1>1, <1>2, <1>3

(* A request is answered: it is recorded with what it asked for. *)
LEMMA AfterAnswer ==
    ASSUME TypeOK, NEW c \in CPUs, NEW mark \in Mark, Answer(c, mark)
    PROVE  /\ post' \in [CPUs -> PostRecord]
           /\ post'[c].pc = "answered" /\ post'[c].seen = post[c].seen
           /\ post'[c].start = post[c].start /\ post'[c].end = post[c].end
           /\ \A d \in CPUs : d # c => post'[d] = post[d]
           /\ requests' \subseteq [mark : Mark, seen : [Pages -> Nat]]
           /\ \A r \in requests' :
                 r \in requests \/ (r.mark = mark /\ r.seen = post[c].seen)
<1> DEFINE new == [pc |-> "answered", start |-> post[c].start, end |-> post[c].end,
                   count |-> post[c].count, seen |-> post[c].seen, mark |-> mark]
<1>1. new \in PostRecord
  BY Parts DEF PostRecord
<1>2. /\ post' = [post EXCEPT ![c] = new] /\ post \in [CPUs -> PostRecord]
      /\ requests' = requests \cup {[mark |-> mark, seen |-> post[c].seen]}
      /\ requests \subseteq [mark : Mark, seen : [Pages -> Nat]]
  BY DEF Answer, TypeOK
<1>3. /\ new.pc = "answered" /\ new.start = post[c].start /\ new.end = post[c].end
      /\ new.seen = post[c].seen
  OBVIOUS
<1>4. post[c].seen \in [Pages -> Nat]
  BY Parts
<1>5. /\ requests' \subseteq [mark : Mark, seen : [Pages -> Nat]]
      /\ \A r \in requests' :
            r \in requests \/ (r.mark = mark /\ r.seen = post[c].seen)
  BY SMT, Z3T(40), <1>2, <1>4
<1> HIDE DEF new
<1> QED
  BY <1>1, <1>2, <1>3, <1>5

(* The caller of post counts the online CPUs: all of them. *)
LEMMA CountOnlineInv ==
    ASSUME IInv, NEW c \in CPUs, CountOnline(c)
    PROVE  IInv'
<1>1. /\ UNCHANGED <<slots, head, cursors, flushed, generation, appending, version, cached>>
      /\ UNCHANGED <<started, online, walk, edits, requests>>
  BY DEF CountOnline, logVars, tlbVars, bootVars
<1>2. OnlineCount = LogCpus /\ LogCpus \in Nat
  BY CountCoversAll, PostedLogAssumption DEF IInv
<1>3. \E pc \in {"counted", "promote"} : PostGoes(c, pc, LogCpus)
  BY <1>2 DEF CountOnline
<1>4. /\ post' \in [CPUs -> PostRecord]
      /\ post'[c].pc # "append" /\ post'[c].count = LogCpus
      /\ post'[c].start = post[c].start /\ post'[c].end = post[c].end
      /\ post'[c].seen = post[c].seen
      /\ \A d \in CPUs : d # c => post'[d] = post[d]
  BY ZenonT(40), <1>2, <1>3, AfterPostGoes DEF IInv
<1>5. TypeOK'
  BY <1>1, <1>4 DEF IInv, TypeOK
<1>6. \A d \in CPUs : PostOK(d)'
  BY SMT, Z3T(40), <1>1, <1>4 DEF IInv, PostOK
<1>7. \A d \in CPUs : WalkOK(d)'
  BY <1>1 DEF IInv, WalkOK
<1>8. AllOnline' /\ InBounds'
  BY <1>1 DEF IInv, AllOnline, InBounds
<1>9. ServedIsGone'
  BY ZenonT(40), <1>1 DEF IInv, ServedIsGone, Served, Gone
<1>10. \A r \in requests' : RequestOK(r)' /\ Kept(r)'
  BY <1>1 DEF IInv, RequestOK, Kept
<1> QED
  BY <1>5, <1>6, <1>7, <1>8, <1>9, <1>10 DEF IInv

(* The caller that keeps no mark goes on. *)
LEMMA ReturnInv ==
    ASSUME IInv, NEW c \in CPUs, Return(c)
    PROVE  IInv'
<1>1. /\ UNCHANGED <<slots, head, cursors, flushed, generation, appending, version, cached>>
      /\ UNCHANGED <<started, online, walk, edits, requests>>
  BY DEF Return, logVars, tlbVars, bootVars
<1>2. IdlePost \in PostRecord
  BY DEF IdlePost, NothingSeen, NoMark, Mark, PostRecord
<1>3. post' = [post EXCEPT ![c] = IdlePost] /\ post \in [CPUs -> PostRecord]
  BY DEF Return, IInv, TypeOK
<1>4. /\ post' \in [CPUs -> PostRecord] /\ post'[c] = IdlePost
      /\ \A d \in CPUs : d # c => post'[d] = post[d]
  BY <1>2, <1>3
<1>5. TypeOK'
  BY <1>1, <1>4 DEF IInv, TypeOK
<1>6. ASSUME NEW d \in CPUs PROVE PostOK(d)'
  <2>1. CASE d = c
    <3>1. IdlePost.pc = "idle" /\ \A p \in Pages : IdlePost.seen[p] = 0
      BY DEF IdlePost, NothingSeen
    <3>2. \A p \in Pages : version[p] \in Nat
      BY DEF IInv, TypeOK
    <3> QED
      BY SMT, Z3T(40), <2>1, <3>1, <3>2, <1>1, <1>4 DEF PostOK
  <2>2. CASE d # c
    <3>1. \A x \in CPUs : post'[x].pc = "append" => post[x].pc = "append"
      BY SMT, Z3T(40), <1>4 DEF IdlePost
    <3> QED
      BY <2>2, <3>1, <1>1, <1>4 DEF IInv, PostOK
  <2> QED
    BY <2>1, <2>2
<1>7. \A d \in CPUs : WalkOK(d)'
  BY <1>1 DEF IInv, WalkOK
<1>8. AllOnline' /\ InBounds'
  BY <1>1 DEF IInv, AllOnline, InBounds
<1>9. ServedIsGone'
  BY <1>1 DEF IInv, ServedIsGone, Served, Gone
<1>10. \A r \in requests' : RequestOK(r)' /\ Kept(r)'
  BY <1>1 DEF IInv, RequestOK, Kept
<1> QED
  BY <1>5, <1>6, <1>7, <1>8, <1>9, <1>10 DEF IInv

(* A fresh generation: no CPU has published it, or read it. *)
LEMMA PostFullFlushInv ==
    ASSUME IInv, NEW c \in CPUs, PostFullFlush(c)
    PROVE  IInv'
<1> DEFINE mark == [kind |-> "Flushed", at |-> generation + 1]
<1>1. /\ UNCHANGED <<slots, head, cursors, flushed, appending, version, cached>>
      /\ UNCHANGED <<started, online, walk, edits>>
      /\ generation' = generation + 1 /\ generation \in Nat
  BY DEF PostFullFlush, tlbVars, bootVars, IInv, TypeOK
<1>2. mark \in Mark /\ mark.kind = "Flushed" /\ mark.at = generation + 1
  BY SMT, Z3T(40), <1>1 DEF Mark
<1>3. Answer(c, mark)
  BY DEF PostFullFlush
<1> HIDE DEF mark
<1>4. /\ post' \in [CPUs -> PostRecord]
      /\ post'[c].pc = "answered" /\ post'[c].seen = post[c].seen
      /\ post'[c].start = post[c].start /\ post'[c].end = post[c].end
      /\ \A d \in CPUs : d # c => post'[d] = post[d]
      /\ requests' \subseteq [mark : Mark, seen : [Pages -> Nat]]
      /\ \A r \in requests' :
            r \in requests \/ (r.mark = mark /\ r.seen = post[c].seen)
  BY <1>2, <1>3, AfterAnswer DEF IInv
<1>5. TypeOK'
  BY SMTT(40), Z3T(40), <1>1, <1>4 DEF IInv, TypeOK
<1>6. \A d \in CPUs : PostOK(d)'
  <2>1. \A d \in CPUs : PostOK(d)
    BY DEF IInv
  <2> QED
    BY SMTT(40), Z3T(40), <1>1, <1>4, <2>1 DEF PostOK
<1>7. ASSUME NEW d \in CPUs PROVE WalkOK(d)'
  BY SMTT(40), Z3T(40), <1>1, Parts DEF IInv, WalkOK
<1>8. AllOnline' /\ InBounds'
  BY SMTT(40), Z3T(40), <1>1, Parts DEF IInv, AllOnline, InBounds
<1>9. ASSUME NEW d \in CPUs, NEW r \in requests', Served(d, r)' PROVE Gone(d, r.seen)'
  <2>1. CASE r \in requests
    BY <2>1, <1>1, <1>9 DEF IInv, ServedIsGone, Served, Gone
  <2>2. CASE r.mark = mark
    <3>1. flushed[d] <= generation /\ flushed[d] \in Nat
      BY Parts DEF IInv, InBounds
    <3>2. walk[d].pc = "flushed" => walk[d].generation <= generation
      BY DEF IInv, WalkOK
    <3>3. walk[d].generation \in Nat
      BY Parts DEF IInv
    <3> QED
      BY SMTT(40), Z3T(40), <2>2, <3>1, <3>2, <3>3, <1>1, <1>2, <1>9 DEF Served
  <2> QED
    BY <2>1, <2>2, <1>4
<1>10. ASSUME NEW r \in requests' PROVE RequestOK(r)' /\ Kept(r)'
  <2>1. CASE r \in requests
    <3>1. r.mark.at \in Nat
      BY <2>1 DEF IInv, TypeOK, Mark
    <3> QED
      BY SMTT(40), Z3T(40), <2>1, <3>1, <1>1 DEF IInv, RequestOK, Kept
  <2>2. CASE r.mark = mark /\ r.seen = post[c].seen
    BY SMTT(40), Z3T(40), <2>2, <1>1, <1>2 DEF IInv, RequestOK, Kept, PostOK
  <2> QED
    BY <2>1, <2>2, <1>4
<1> QED
  BY <1>5, <1>6, <1>7, <1>8, <1>9, <1>10 DEF IInv, ServedIsGone

-----------------------------------------------------------------------------
(* Appending a range to the log. *)

(* An entry a CPU has not walked past is not in the slot at the head, when    *)
(* that CPU is less than a ring behind.                                     *)
LEMMA HeadSlotIsFree ==
    ASSUME TypeOK, NEW d \in CPUs, head - cursors[d] < Slots,
           NEW at \in Nat, cursors[d] <= at, at < head
    PROVE  at % Slots # head % Slots
<1>1. head \in Nat /\ cursors[d] \in Nat /\ Slots \in Nat
  BY Parts, PostedLogAssumption
<1>2. head - at < Slots
  BY SMT, Z3T(40), <1>1
<1> QED
  BY <1>1, <1>2, DistinctSlots

(* Under the append lock: promote, or start to fill a slot all have passed. *)
LEMMA AppendRangeInv ==
    ASSUME IInv, NEW c \in CPUs, AppendRange(c)
    PROVE  IInv'
<1>1. /\ UNCHANGED <<head, cursors, flushed, generation, version, cached>>
      /\ UNCHANGED <<started, online, walk, edits, requests>>
  BY DEF AppendRange, tlbVars, bootVars
<1>2. post[c].count = LogCpus /\ Counted(LogCpus) = CPUs /\ LogCpus \in Nat
  BY CountCoversAll, PostedLogAssumption DEF IInv, PostOK, AppendRange
<1>3. AllOnline' /\ InBounds'
  BY <1>1 DEF IInv, AllOnline, InBounds
<1>4. ServedIsGone'
  BY <1>1 DEF IInv, ServedIsGone, Served, Gone
<1>5. CASE Promote(c)
  <2>1. UNCHANGED <<slots, appending>>
    BY <1>5 DEF Promote
  <2>2. /\ post' \in [CPUs -> PostRecord]
        /\ post'[c].pc = "promote" /\ post'[c].seen = post[c].seen
        /\ post'[c].start = post[c].start /\ post'[c].end = post[c].end
        /\ \A d \in CPUs : d # c => post'[d] = post[d]
    BY ZenonT(40), <1>2, <1>5, AfterPostGoes DEF IInv, Promote
  <2>3. TypeOK'
    BY <1>1, <2>1, <2>2 DEF IInv, TypeOK
  <2>4. \A d \in CPUs : PostOK(d)'
    BY SMTT(40), Z3T(40), <1>1, <2>1, <2>2 DEF IInv, PostOK
  <2>5. \A d \in CPUs : WalkOK(d)'
    BY <1>1, <2>1 DEF IInv, WalkOK
  <2>6. \A r \in requests' : RequestOK(r)' /\ Kept(r)'
    BY <1>1, <2>1 DEF IInv, RequestOK, Kept
  <2> QED
    BY <1>3, <1>4, <2>3, <2>4, <2>5, <2>6 DEF IInv
<1>6. CASE ~Full(post[c].count) /\ TakeSlot(c)
  <2> DEFINE at == head % Slots
  <2>1. \A d \in CPUs : head - cursors[d] < Slots
    <3>1. \A d \in CPUs : ~(head - cursors[d] >= Slots)
      BY <1>2, <1>6 DEF Full
    <3> QED
      BY SMT, Z3T(40), <3>1, Parts, PostedLogAssumption DEF IInv
  <2>2. ~appending /\ appending'
    BY <1>6 DEF TakeSlot
  <2>3. at \in 0 .. Slots - 1
    BY InRing DEF IInv, TypeOK
  <2>4. /\ slots' \in [0 .. Slots - 1 -> [start : Nat, end : Nat]]
        /\ slots'[at].start = post[c].start
        /\ \A i \in 0 .. Slots - 1 : i # at => slots'[i] = slots[i]
    <3>1. slots' = [slots EXCEPT ![at] = [start |-> post[c].start, end |-> slots[at].end]]
      BY <1>6 DEF TakeSlot
    <3>2. slots \in [0 .. Slots - 1 -> [start : Nat, end : Nat]] /\ post[c].start \in Nat
      BY Parts DEF IInv, TypeOK
    <3> QED
      BY <2>3, <3>1, <3>2
  <2> HIDE DEF at
  <2>5. \A d \in CPUs, n \in Nat :
            cursors[d] <= n /\ n < head => slots'[n % Slots] = slots[n % Slots]
    <3> SUFFICES ASSUME NEW d \in CPUs, NEW n \in Nat, cursors[d] <= n, n < head
                 PROVE  slots'[n % Slots] = slots[n % Slots]
      OBVIOUS
    <3>1. n % Slots # at /\ n % Slots \in 0 .. Slots - 1
      BY <2>1, HeadSlotIsFree, InRing DEF IInv, at
    <3> QED
      BY <2>4, <3>1
  <2>6. /\ post' \in [CPUs -> PostRecord]
        /\ post'[c].pc = "append" /\ post'[c].seen = post[c].seen
        /\ post'[c].start = post[c].start /\ post'[c].end = post[c].end
        /\ \A d \in CPUs : d # c => post'[d] = post[d]
    BY ZenonT(40), <1>2, <1>6, AfterPostGoes DEF IInv, TakeSlot
  <2>7. TypeOK'
    BY <1>1, <2>2, <2>4, <2>6 DEF IInv, TypeOK
  <2>8. ASSUME NEW d \in CPUs PROVE PostOK(d)'
    <3>1. \A x \in CPUs : post[x].pc # "append"
      BY <2>2 DEF IInv, PostOK
    <3>2. CASE d = c
      BY <3>1, <3>2, <1>1, <2>1, <2>2, <2>4, <2>6 DEF IInv, PostOK, at
    <3>3. CASE d # c
      BY <3>1, <3>3, <1>1, <2>6 DEF IInv, PostOK
    <3> QED
      BY <3>2, <3>3
  <2>9. ASSUME NEW d \in CPUs PROVE WalkOK(d)'
    <3>1. walk[d].pc = "half" => slots'[walk[d].cursor % Slots] = slots[walk[d].cursor % Slots]
      <4>1. walk[d].pc = "half" => cursors[d] <= walk[d].cursor /\ walk[d].cursor < head
        BY SMT, Z3T(40), Parts DEF IInv, WalkOK
      <4>2. walk[d].cursor \in Nat
        BY Parts DEF IInv
      <4> QED
        BY <2>5, <4>1, <4>2
    <3> QED
      BY <3>1, <1>1 DEF IInv, WalkOK
  <2>10. ASSUME NEW r \in requests' PROVE RequestOK(r)' /\ Kept(r)'
    <3>1. r \in requests /\ r.mark.at \in Nat
      BY <1>1 DEF IInv, TypeOK, Mark
    <3>2. (r.mark.kind = "Posted" /\ \E d \in CPUs : cursors[d] <= r.mark.at) =>
              slots'[r.mark.at % Slots] = slots[r.mark.at % Slots]
      BY <2>5, <3>1 DEF IInv, RequestOK
    <3>3. RequestOK(r)'
      BY <3>1, <1>1 DEF IInv, RequestOK
    <3> QED
      BY <3>1, <3>2, <3>3, <1>1 DEF IInv, Kept
  <2> QED
    BY <1>3, <1>4, <2>7, <2>8, <2>9, <2>10 DEF IInv
<1> QED
  BY <1>5, <1>6 DEF AppendRange

(* The entry is complete and the head covers it: every CPU has it to walk. *)
LEMMA PublishInv ==
    ASSUME IInv, NEW c \in CPUs, Publish(c)
    PROVE  IInv'
<1> DEFINE at == head % Slots
           mark == [kind |-> "Posted", at |-> head]
<1>1. /\ UNCHANGED <<cursors, flushed, generation, version, cached>>
      /\ UNCHANGED <<started, online, walk, edits>>
      /\ head' = head + 1 /\ head \in Nat /\ appending' = FALSE
  BY DEF Publish, tlbVars, bootVars, IInv, TypeOK
<1>2. /\ \A d \in CPUs : head - cursors[d] < Slots /\ (d # c => post[d].pc # "append")
      /\ slots[at].start = post[c].start
  BY DEF IInv, PostOK, Publish
<1>3. mark \in Mark /\ mark.kind = "Posted" /\ mark.at = head
  BY <1>1 DEF Mark
<1>4. /\ post' \in [CPUs -> PostRecord]
      /\ post'[c].pc = "answered" /\ post'[c].seen = post[c].seen
      /\ post'[c].start = post[c].start /\ post'[c].end = post[c].end
      /\ \A d \in CPUs : d # c => post'[d] = post[d]
      /\ requests' \subseteq [mark : Mark, seen : [Pages -> Nat]]
      /\ \A r \in requests' :
            r \in requests \/ (r.mark = mark /\ r.seen = post[c].seen)
  BY <1>3, AfterAnswer DEF IInv, Publish
<1>5. at \in 0 .. Slots - 1
  BY <1>1, InRing
<1>6. /\ slots' \in [0 .. Slots - 1 -> [start : Nat, end : Nat]]
      /\ slots'[at].start = post[c].start /\ slots'[at].end = post[c].end
      /\ \A i \in 0 .. Slots - 1 : i # at => slots'[i] = slots[i]
  <2>1. slots' = [slots EXCEPT ![at] = [start |-> slots[at].start, end |-> post[c].end]]
    BY DEF Publish
  <2>2. slots \in [0 .. Slots - 1 -> [start : Nat, end : Nat]] /\ post[c].end \in Nat
    BY Parts DEF IInv, TypeOK
  <2> QED
    BY <1>2, <1>5, <2>1, <2>2
<1> HIDE DEF at, mark
<1>7. \A d \in CPUs, n \in Nat :
          cursors[d] <= n /\ n < head => slots'[n % Slots] = slots[n % Slots]
  <2> SUFFICES ASSUME NEW d \in CPUs, NEW n \in Nat, cursors[d] <= n, n < head
               PROVE  slots'[n % Slots] = slots[n % Slots]
    OBVIOUS
  <2>1. n % Slots # at /\ n % Slots \in 0 .. Slots - 1
    BY <1>2, HeadSlotIsFree, InRing DEF IInv, at
  <2> QED
    BY <1>6, <2>1
<1>8. TypeOK'
  <2>1. head' \in Nat
    BY SMT, Z3T(40), <1>1
  <2>2. appending' \in BOOLEAN
    BY <1>1, Zenon
  <2> QED
    BY <2>1, <2>2, <1>1, <1>4, <1>6 DEF IInv, TypeOK
<1>9. AllOnline' /\ InBounds'
  BY SMT, Z3T(40), <1>1, <1>2, Parts, PostedLogAssumption DEF IInv, AllOnline, InBounds
<1>10. ASSUME NEW d \in CPUs PROVE PostOK(d)'
  BY ZenonT(40), <1>1, <1>2, <1>4 DEF IInv, PostOK
<1>11. ASSUME NEW d \in CPUs PROVE WalkOK(d)'
  <2>1. walk[d].pc = "half" => slots'[walk[d].cursor % Slots] = slots[walk[d].cursor % Slots]
    <3>1. walk[d].pc = "half" => cursors[d] <= walk[d].cursor /\ walk[d].cursor < head
      BY SMT, Z3T(40), Parts DEF IInv, WalkOK
    <3>2. walk[d].cursor \in Nat
      BY Parts DEF IInv
    <3> QED
      BY <1>7, <3>1, <3>2
  <2> QED
    BY SMTT(40), Z3T(40), <2>1, <1>1, Parts DEF IInv, WalkOK
<1>12. ASSUME NEW d \in CPUs, NEW r \in requests', Served(d, r)' PROVE Gone(d, r.seen)'
  <2>1. CASE r \in requests
    BY <2>1, <1>1, <1>12 DEF IInv, ServedIsGone, Served, Gone
  <2>2. CASE r.mark = mark
    <3>1. /\ cursors[d] <= head
          /\ walk[d].pc = "flushed" => walk[d].head <= head
          /\ walk[d].pc \in {"walk", "half"} => walk[d].cursor <= head
      BY SMTT(40), Z3T(40), Parts DEF IInv, InBounds, WalkOK
    <3>2. walk[d].head \in Nat /\ walk[d].cursor \in Nat /\ cursors[d] \in Nat
      BY Parts DEF IInv
    <3> QED
      BY SMTT(40), Z3T(40), <2>2, <3>1, <3>2, <1>1, <1>3, <1>12 DEF Served
  <2> QED
    BY <2>1, <2>2, <1>4
<1>13. ASSUME NEW r \in requests' PROVE RequestOK(r)' /\ Kept(r)'
  <2>1. CASE r \in requests
    <3>1. r.mark.at \in Nat
      BY <2>1 DEF IInv, TypeOK, Mark
    <3>2. (r.mark.kind = "Posted" /\ \E d \in CPUs : cursors[d] <= r.mark.at) =>
              slots'[r.mark.at % Slots] = slots[r.mark.at % Slots]
      BY <2>1, <1>7, <3>1 DEF IInv, RequestOK
    <3>3. RequestOK(r)'
      BY SMTT(40), Z3T(40), <2>1, <3>1, <1>1 DEF IInv, RequestOK
    <3> QED
      BY <2>1, <3>1, <3>2, <3>3, <1>1 DEF IInv, Kept
  <2>2. CASE r.mark = mark /\ r.seen = post[c].seen
    <3>1. RequestOK(r)'
      BY SMT, Z3T(40), <2>2, <1>1, <1>3 DEF IInv, RequestOK, PostOK
    <3>2. r.mark.at % Slots = at
      BY <2>2, <1>3 DEF at
    <3>3. \A p \in Pages : r.seen[p] # 0 => post[c].start <= p /\ p < post[c].end
      BY <2>2 DEF IInv, PostOK
    <3> QED
      BY <3>1, <3>2, <3>3, <1>6 DEF Kept
  <2> QED
    BY <2>1, <2>2, <1>4
<1> QED
  BY <1>8, <1>9, <1>10, <1>11, <1>12, <1>13 DEF IInv, ServedIsGone

-----------------------------------------------------------------------------
(* The steps of catch_up. *)

(* A walk moves on and keeps the head it read. *)
LEMMA AfterWalkGoes ==
    ASSUME TypeOK, NEW c \in CPUs, NEW g \in Nat, NEW n \in Nat, NEW s \in Nat,
           NEW pc \in {"flush", "flushed", "walk", "half"}, WalkGoes(c, pc, g, n, s)
    PROVE  /\ walk' \in [CPUs -> WalkRecord]
           /\ walk'[c].pc = pc /\ walk'[c].head = walk[c].head /\ walk'[c].generation = g
           /\ walk'[c].cursor = n /\ walk'[c].start = s
           /\ \A d \in CPUs : d # c => walk'[d] = walk[d]
<1> DEFINE new == [pc |-> pc, head |-> walk[c].head, generation |-> g, cursor |-> n, start |-> s]
<1>1. new \in WalkRecord
  BY Parts DEF WalkRecord
<1>2. walk' = [walk EXCEPT ![c] = new] /\ walk \in [CPUs -> WalkRecord]
  BY DEF WalkGoes, TypeOK
<1>3. /\ new.pc = pc /\ new.head = walk[c].head /\ new.generation = g
      /\ new.cursor = n /\ new.start = s
  OBVIOUS
<1> HIDE DEF new
<1> QED
  BY <1>1, <1>2, <1>3

(* The walk is over. *)
LEMMA AfterWalk ==
    ASSUME TypeOK, NEW c \in CPUs, walk' = [walk EXCEPT ![c] = IdleWalk]
    PROVE  /\ walk' \in [CPUs -> WalkRecord] /\ walk'[c].pc = "idle"
           /\ \A d \in CPUs : d # c => walk'[d] = walk[d]
<1>1. IdleWalk \in WalkRecord /\ IdleWalk.pc = "idle"
  BY DEF IdleWalk, WalkRecord
<1> QED
  BY <1>1 DEF TypeOK

(* A step of a walk that changes the walk alone keeps the rest. *)
LEMMA WalkAloneInv ==
    ASSUME IInv, NEW c \in CPUs,
           UNCHANGED <<slots, head, cursors, flushed, generation, appending>>,
           UNCHANGED <<version, cached, started, online, post, edits, requests>>,
           walk' \in [CPUs -> WalkRecord],
           \A d \in CPUs : d # c => walk'[d] = walk[d],
           WalkOK(c)',
           \A r \in requests : Served(c, r)' => Served(c, r)
    PROVE  IInv'
<1>1. TypeOK'
  BY DEF IInv, TypeOK
<1>2. AllOnline' /\ InBounds'
  BY DEF IInv, AllOnline, InBounds
<1>3. \A d \in CPUs : WalkOK(d)'
  BY DEF IInv, WalkOK
<1>4. \A d \in CPUs : PostOK(d)'
  BY DEF IInv, PostOK
<1>5. ASSUME NEW d \in CPUs, NEW r \in requests', Served(d, r)' PROVE Gone(d, r.seen)'
  <2>1. Served(d, r)
    BY <1>5 DEF Served
  <2> QED
    BY <2>1 DEF IInv, ServedIsGone, Gone
<1>6. \A r \in requests' : RequestOK(r)' /\ Kept(r)'
  BY DEF IInv, RequestOK, Kept
<1> QED
  BY <1>1, <1>2, <1>3, <1>4, <1>5, <1>6 DEF IInv, ServedIsGone

(* catch_up reads the head. *)
LEMMA CatchUpInv ==
    ASSUME IInv, NEW c \in CPUs, CatchUp(c)
    PROVE  IInv'
<1> DEFINE new == [pc |-> "entered", head |-> head, generation |-> 0, cursor |-> 0, start |-> 0]
<1>1. /\ UNCHANGED <<slots, head, cursors, flushed, generation, appending>>
      /\ UNCHANGED <<version, cached, started, online, post, edits, requests>>
  BY DEF CatchUp, logVars, tlbVars, bootVars
<1>2. new \in WalkRecord /\ new.pc = "entered" /\ new.head = head
  BY DEF IInv, TypeOK, WalkRecord
<1>3. walk' = [walk EXCEPT ![c] = new] /\ walk \in [CPUs -> WalkRecord]
  BY DEF CatchUp, IInv, TypeOK
<1> HIDE DEF new
<1>4. /\ walk' \in [CPUs -> WalkRecord] /\ walk'[c].pc = "entered" /\ walk'[c].head = head
      /\ \A d \in CPUs : d # c => walk'[d] = walk[d]
  BY <1>2, <1>3
<1>5. WalkOK(c)'
  BY SMTT(40), Z3T(40), <1>1, <1>4, Parts DEF IInv, InBounds, WalkOK
<1>6. \A r \in requests : Served(c, r)' => Served(c, r)
  BY <1>1, <1>4 DEF Served
<1> QED
  BY <1>1, <1>4, <1>5, <1>6, WalkAloneInv

(* It reads the generation, and flushes when one is owed. *)
LEMMA ReadGenerationInv ==
    ASSUME IInv, NEW c \in CPUs, ReadGeneration(c)
    PROVE  IInv'
<1>1. /\ UNCHANGED <<slots, head, cursors, flushed, generation, appending>>
      /\ UNCHANGED <<version, cached, started, online, post, edits, requests>>
  BY DEF ReadGeneration, logVars, tlbVars, bootVars
<1>2. /\ generation \in Nat /\ cursors[c] \in Nat /\ flushed[c] \in Nat /\ 0 \in Nat
      /\ walk[c].pc = "entered"
  BY Parts DEF IInv, ReadGeneration
<1>3. PICK pc \in {"flush", "walk"} :
          /\ WalkGoes(c, pc, generation, cursors[c], 0)
          /\ pc = "flush" => flushed[c] <= generation
  BY SMT, Z3T(40), <1>2 DEF ReadGeneration
<1>4. /\ walk' \in [CPUs -> WalkRecord]
      /\ walk'[c].pc = pc /\ walk'[c].head = walk[c].head
      /\ walk'[c].generation = generation /\ walk'[c].cursor = cursors[c]
      /\ \A d \in CPUs : d # c => walk'[d] = walk[d]
  <2>1. TypeOK
    BY DEF IInv
  <2> QED
    BY SMTT(40), Z3T(40), <1>2, <1>3, <2>1, AfterWalkGoes
<1>5. WalkOK(c)'
  BY SMTT(40), Z3T(40), <1>1, <1>2, <1>3, <1>4, Parts DEF IInv, WalkOK
<1>6. \A r \in requests : Served(c, r)' => Served(c, r)
  BY <1>1, <1>2, <1>3, <1>4 DEF Served
<1> QED
  BY <1>1, <1>4, <1>5, <1>6, WalkAloneInv

(* It reads the start of the next entry. *)
LEMMA WalkStartInv ==
    ASSUME IInv, NEW c \in CPUs, WalkStart(c)
    PROVE  IInv'
<1> DEFINE s == slots[walk[c].cursor % Slots].start
<1>1. /\ UNCHANGED <<slots, head, cursors, flushed, generation, appending>>
      /\ UNCHANGED <<version, cached, started, online, post, edits, requests>>
  BY DEF WalkStart, logVars, tlbVars, bootVars
<1>2. walk[c].generation \in Nat /\ walk[c].cursor \in Nat
  BY Parts DEF IInv
<1>3. s \in Nat
  BY <1>2, InRing DEF IInv, TypeOK
<1>4. WalkGoes(c, "half", walk[c].generation, walk[c].cursor, s)
  BY DEF WalkStart
<1>5. walk[c].pc = "walk" /\ walk[c].cursor < walk[c].head
  BY DEF WalkStart
<1>6. /\ walk' \in [CPUs -> WalkRecord]
      /\ walk'[c].pc = "half" /\ walk'[c].head = walk[c].head
      /\ walk'[c].cursor = walk[c].cursor /\ walk'[c].start = s
      /\ \A d \in CPUs : d # c => walk'[d] = walk[d]
  <2> HIDE DEF s
  <2> QED
    BY SMT, Z3T(40), <1>2, <1>3, <1>4, AfterWalkGoes DEF IInv
<1>7. WalkOK(c)'
  BY <1>1, <1>5, <1>6 DEF IInv, WalkOK
<1>8. \A r \in requests : Served(c, r)' => Served(c, r)
  BY <1>1, <1>5, <1>6 DEF Served
<1> QED
  BY <1>1, <1>6, <1>7, <1>8, WalkAloneInv

(* A step of a walk that changes the walk and drops translations keeps the   *)
(* rest, if what it newly counts as served is gone.                         *)
LEMMA WalkDropsInv ==
    ASSUME IInv, NEW c \in CPUs, NEW pages, cached' = Dropping(c, pages),
           UNCHANGED <<slots, head, cursors, flushed, generation, appending>>,
           UNCHANGED <<version, started, online, post, edits, requests>>,
           walk' \in [CPUs -> WalkRecord],
           \A d \in CPUs : d # c => walk'[d] = walk[d],
           WalkOK(c)',
           \A r \in requests : Served(c, r)' =>
               Served(c, r) \/ \A p \in Pages : p \in pages \/ r.seen[p] = 0
    PROVE  IInv'
<1>1. /\ cached' \in [CPUs -> [Pages -> Nat \cup {Absent}]]
      /\ \A d \in CPUs, p \in Pages :
            cached'[d][p] = IF d = c /\ p \in pages THEN Absent ELSE cached[d][p]
  BY SMTT(40), Z3T(40), AfterDrop DEF IInv
<1>2. TypeOK'
  BY <1>1 DEF IInv, TypeOK
<1>3. AllOnline' /\ InBounds'
  BY DEF IInv, AllOnline, InBounds
<1>4. \A d \in CPUs : WalkOK(d)'
  BY DEF IInv, WalkOK
<1>5. \A d \in CPUs : PostOK(d)'
  BY DEF IInv, PostOK
<1>6. ASSUME NEW d \in CPUs, NEW r \in requests', Served(d, r)' PROVE Gone(d, r.seen)'
  <2>1. CASE Served(d, r)
    <3>1. Gone(d, r.seen)
      BY <2>1 DEF IInv, ServedIsGone
    <3> QED
      BY <3>1, <1>1 DEF Gone
  <2>2. CASE d = c /\ \A p \in Pages : p \in pages \/ r.seen[p] = 0
    <3>1. \A p \in Pages : cached'[c][p] = Absent \/ (cached'[c][p] \in Nat /\ r.seen[p] = 0)
      BY SMT, Z3T(40), <1>1, <2>2
    <3> QED
      BY SMTT(40), Z3T(40), <2>2, <3>1 DEF Gone
  <2>3. d # c => Served(d, r)
    BY <1>6 DEF Served
  <2> QED
    BY <1>6, <2>1, <2>2, <2>3
<1>7. \A r \in requests' : RequestOK(r)' /\ Kept(r)'
  BY DEF IInv, RequestOK, Kept
<1> QED
  BY <1>2, <1>3, <1>4, <1>5, <1>6, <1>7 DEF IInv, ServedIsGone

(* A full flush leaves nothing for any request to remove. *)
LEMMA FlushAllInv ==
    ASSUME IInv, NEW c \in CPUs, FlushAll(c)
    PROVE  IInv'
<1>1. /\ UNCHANGED <<slots, head, cursors, flushed, generation, appending>>
      /\ UNCHANGED <<version, started, online, post, edits, requests>>
      /\ cached' = Dropping(c, Pages)
  BY DEF FlushAll, logVars, bootVars
<1>2. walk[c].pc = "flush" /\ walk[c].generation \in Nat /\ walk[c].cursor \in Nat /\ 0 \in Nat
  BY Parts DEF IInv, FlushAll
<1>3. /\ walk' \in [CPUs -> WalkRecord]
      /\ walk'[c].pc = "flushed" /\ walk'[c].head = walk[c].head
      /\ walk'[c].generation = walk[c].generation
      /\ \A d \in CPUs : d # c => walk'[d] = walk[d]
  BY SMTT(40), Z3T(40), <1>2, AfterWalkGoes DEF IInv, FlushAll
<1>4. WalkOK(c)'
  BY <1>1, <1>2, <1>3 DEF IInv, WalkOK
<1>5. \A r \in requests : Served(c, r)' =>
          Served(c, r) \/ \A p \in Pages : p \in Pages \/ r.seen[p] = 0
  OBVIOUS
<1> QED
  BY <1>1, <1>3, <1>4, <1>5, WalkDropsInv

(* An entry that was still in its slot is dropped as it was posted. *)
LEMMA InvalidateInv ==
    ASSUME IInv, NEW c \in CPUs, Invalidate(c)
    PROVE  IInv'
<1> DEFINE slot == slots[walk[c].cursor % Slots]
           pages == PagesIn(walk[c].start, slot.end)
<1>1. /\ UNCHANGED <<slots, head, cursors, flushed, generation, appending>>
      /\ UNCHANGED <<version, started, online, post, edits, requests>>
      /\ cached' = Dropping(c, pages)
  BY DEF Invalidate, logVars, bootVars
<1>2. /\ walk[c].pc = "half" /\ walk[c].generation \in Nat /\ walk[c].cursor \in Nat
      /\ walk[c].cursor + 1 \in Nat /\ 0 \in Nat /\ walk[c].head \in Nat
      /\ cursors[c] \in Nat
  BY SMTT(40), Z3T(40), Parts DEF IInv, Invalidate
<1>3. /\ walk' \in [CPUs -> WalkRecord]
      /\ walk'[c].pc = "walk" /\ walk'[c].head = walk[c].head
      /\ walk'[c].cursor = walk[c].cursor + 1
      /\ \A d \in CPUs : d # c => walk'[d] = walk[d]
  BY SMTT(40), Z3T(40), <1>2, AfterWalkGoes DEF IInv, Invalidate
<1>4. /\ cursors[c] <= walk[c].cursor /\ walk[c].cursor < walk[c].head
      /\ cursors[c] <= walk[c].head /\ walk[c].head <= head /\ walk[c].start = slot.start
  BY <1>2 DEF IInv, WalkOK
<1>5. WalkOK(c)'
  <2>1. cursors[c] <= walk[c].cursor + 1 /\ walk[c].cursor + 1 <= walk[c].head
    BY SMT, Z3T(40), <1>2, <1>4
  <2> QED
    BY <1>1, <1>3, <1>4, <2>1 DEF WalkOK
<1>6. ASSUME NEW r \in requests, Served(c, r)', ~Served(c, r)
      PROVE  \A p \in Pages : p \in pages \/ r.seen[p] = 0
  <2>1. r.mark.kind = "Posted" /\ r.mark.at < walk[c].cursor + 1 /\ ~(r.mark.at < walk[c].cursor)
    BY <1>1, <1>2, <1>3, <1>6 DEF Served
  <2>2. r.mark.at \in Nat
    BY DEF IInv, TypeOK, Mark
  <2>3. r.mark.at = walk[c].cursor
    BY SMT, Z3T(40), <1>2, <2>1, <2>2
  <2>4. \A p \in Pages : r.seen[p] # 0 => slot.start <= p /\ p < slot.end
    BY <2>1, <2>3, <1>4 DEF IInv, Kept
  <2> QED
    BY <2>4, <1>4 DEF PagesIn
<1> HIDE DEF pages
<1> QED
  BY SMTT(40), Z3T(40), <1>1, <1>3, <1>5, <1>6, WalkDropsInv

(* A step that ends a walk and publishes what it has served. *)
LEMMA WalkEndsInv ==
    ASSUME IInv, NEW c \in CPUs, NEW n \in Nat, NEW g \in Nat,
           cursors[c] <= n, n <= head, flushed[c] <= g, g <= generation,
           cursors' = [cursors EXCEPT ![c] = n], flushed' = [flushed EXCEPT ![c] = g],
           walk' = [walk EXCEPT ![c] = IdleWalk],
           UNCHANGED <<slots, head, generation, appending, version, cached>>,
           UNCHANGED <<started, online, post, edits, requests>>,
           \A r \in requests : (\/ r.mark.kind = "Posted" /\ r.mark.at < n
                                \/ r.mark.kind = "Flushed" /\ r.mark.at <= g) => Served(c, r)
    PROVE  IInv'
<1>1. /\ walk' \in [CPUs -> WalkRecord] /\ walk'[c].pc = "idle"
      /\ \A d \in CPUs : d # c => walk'[d] = walk[d]
  BY AfterWalk DEF IInv
<1>2. /\ cursors' \in [CPUs -> Nat] /\ flushed' \in [CPUs -> Nat]
      /\ cursors'[c] = n /\ flushed'[c] = g
      /\ \A d \in CPUs : d # c => cursors'[d] = cursors[d] /\ flushed'[d] = flushed[d]
  BY DEF IInv, TypeOK
<1>3. TypeOK'
  BY <1>1, <1>2 DEF IInv, TypeOK
<1>4. \A d \in CPUs : cursors[d] <= cursors'[d] /\ cursors[d] \in Nat /\ cursors'[d] \in Nat
  BY SMTT(40), Z3T(40), <1>2, Parts DEF IInv
<1>5. head \in Nat /\ Slots \in Nat
  BY PostedLogAssumption DEF IInv, TypeOK
<1>6. AllOnline' /\ InBounds'
  <2>1. AllOnline /\ InBounds
    BY DEF IInv
  <2> QED
    BY SMTT(40), Z3T(40), <1>2, <1>4, <1>5, <2>1 DEF AllOnline, InBounds
<1>7. ASSUME NEW d \in CPUs PROVE WalkOK(d)'
  <2>1. CASE d = c
    BY <1>1, <2>1 DEF WalkOK
  <2>2. CASE d # c
    BY <1>1, <1>2, <2>2 DEF IInv, WalkOK
  <2> QED
    BY <2>1, <2>2
<1>8. ASSUME NEW d \in CPUs PROVE PostOK(d)'
  <2>1. (\A x \in CPUs : head - cursors[x] < Slots) => \A x \in CPUs : head - cursors'[x] < Slots
    BY SMTT(40), Z3T(40), <1>4, <1>5
  <2> QED
    BY <2>1 DEF IInv, PostOK
<1>9. ASSUME NEW d \in CPUs, NEW r \in requests', Served(d, r)' PROVE Gone(d, r.seen)'
  <2>1. Served(d, r)
    <3>1. CASE d = c
      BY <3>1, <1>1, <1>2, <1>9 DEF Served
    <3>2. CASE d # c
      BY <3>2, <1>1, <1>2, <1>9 DEF Served
    <3> QED
      BY <3>1, <3>2
  <2> QED
    BY <2>1 DEF IInv, ServedIsGone, Gone
<1>10. ASSUME NEW r \in requests' PROVE RequestOK(r)' /\ Kept(r)'
  <2>1. r.mark.at \in Nat /\ r \in requests
    BY DEF IInv, TypeOK, Mark
  <2>2. (\E d \in CPUs : cursors'[d] <= r.mark.at) => \E d \in CPUs : cursors[d] <= r.mark.at
    BY SMT, Z3T(40), <1>4, <2>1
  <2>3. RequestOK(r)'
    BY <2>1 DEF IInv, RequestOK
  <2> QED
    BY <2>1, <2>2, <2>3 DEF IInv, Kept
<1> QED
  BY <1>3, <1>6, <1>7, <1>8, <1>9, <1>10 DEF IInv, ServedIsGone

(* After a flush, both records say what was read before it. *)
LEMMA PublishFlushInv ==
    ASSUME IInv, NEW c \in CPUs, PublishFlush(c)
    PROVE  IInv'
<1>1. walk[c].pc = "flushed" /\ walk[c].head \in Nat /\ walk[c].generation \in Nat
  BY Parts DEF IInv, PublishFlush
<1>2. /\ cursors[c] <= walk[c].head /\ walk[c].head <= head
      /\ flushed[c] <= walk[c].generation /\ walk[c].generation <= generation
  BY <1>1 DEF IInv, WalkOK
<1>3. /\ cursors' = [cursors EXCEPT ![c] = walk[c].head]
      /\ flushed' = [flushed EXCEPT ![c] = walk[c].generation]
      /\ walk' = [walk EXCEPT ![c] = IdleWalk]
      /\ UNCHANGED <<slots, head, generation, appending, version, cached>>
      /\ UNCHANGED <<started, online, post, edits, requests>>
  BY DEF PublishFlush, tlbVars, bootVars
<1>4. \A r \in requests :
          (\/ r.mark.kind = "Posted" /\ r.mark.at < walk[c].head
           \/ r.mark.kind = "Flushed" /\ r.mark.at <= walk[c].generation) => Served(c, r)
  BY <1>1 DEF Served
<1> QED
  BY <1>1, <1>2, <1>3, <1>4, WalkEndsInv

(* After a walk, the cursor says how far it got. *)
LEMMA PublishCursorInv ==
    ASSUME IInv, NEW c \in CPUs, PublishCursor(c)
    PROVE  IInv'
<1>1. /\ walk[c].pc = "walk" /\ walk[c].head \in Nat /\ walk[c].cursor \in Nat
      /\ flushed[c] \in Nat /\ cursors[c] \in Nat /\ head \in Nat /\ generation \in Nat
  BY Parts DEF IInv, PublishCursor
<1>2. /\ cursors[c] <= walk[c].cursor /\ walk[c].cursor <= head
      /\ flushed[c] <= flushed[c] /\ flushed[c] <= generation
  BY SMT, Z3T(40), <1>1 DEF IInv, WalkOK, InBounds
<1>3. /\ cursors' = [cursors EXCEPT ![c] = walk[c].cursor]
      /\ flushed' = [flushed EXCEPT ![c] = flushed[c]]
      /\ walk' = [walk EXCEPT ![c] = IdleWalk]
      /\ UNCHANGED <<slots, head, generation, appending, version, cached>>
      /\ UNCHANGED <<started, online, post, edits, requests>>
  BY DEF PublishCursor, tlbVars, bootVars, IInv, TypeOK
<1>4. \A r \in requests :
          (\/ r.mark.kind = "Posted" /\ r.mark.at < walk[c].cursor
           \/ r.mark.kind = "Flushed" /\ r.mark.at <= flushed[c]) => Served(c, r)
  BY <1>1 DEF Served
<1> QED
  BY <1>1, <1>2, <1>3, <1>4, WalkEndsInv

-----------------------------------------------------------------------------
(* The whole specification. *)

(* Every step preserves the inductive invariant. *)
LEMMA NextInv ==
    ASSUME IInv, [Next]_vars
    PROVE  IInv'
<1>1. CASE UNCHANGED vars
  <2>1. /\ UNCHANGED <<slots, head, cursors, flushed, generation, appending>>
        /\ UNCHANGED <<version, cached, started, online, post, walk, edits, requests>>
    BY <1>1 DEF vars, logVars, tlbVars, bootVars
  <2>2. TypeOK' /\ AllOnline' /\ InBounds'
    BY <2>1 DEF IInv, TypeOK, AllOnline, InBounds
  <2>3. ServedIsGone'
    BY <2>1 DEF IInv, ServedIsGone, Served, Gone
  <2>4. \A c \in CPUs : WalkOK(c)' /\ PostOK(c)'
    BY ZenonT(40), <2>1 DEF IInv, WalkOK, PostOK
  <2>5. \A r \in requests' : RequestOK(r)' /\ Kept(r)'
    BY <2>1 DEF IInv, RequestOK, Kept
  <2> QED
    BY <2>2, <2>3, <2>4, <2>5 DEF IInv
<1>2. CASE Next
  <2>1. PICK c \in CPUs :
            \/ Start(c) \/ Register(c)
            \/ \E p \in Pages : Touch(c, p)
            \/ \E p, q \in Pages : p <= q /\ Edit(c, p, q + 1)
            \/ Posting(c) \/ Return(c)
            \/ CatchUp(c) \/ Walking(c)
    BY <1>2 DEF Next
  <2>2. ~Start(c) /\ ~Register(c)
    BY PostedLogAssumption DEF IInv, AllOnline, Start, Register
  <2>3. CASE \E p \in Pages : Touch(c, p)
    BY <2>3, TouchInv
  <2>4. CASE \E p, q \in Pages : p <= q /\ Edit(c, p, q + 1)
    BY <2>4, EditInv
  <2>5. CASE Posting(c)
    BY <2>5, CountOnlineInv, AppendRangeInv, PublishInv, PostFullFlushInv DEF Posting
  <2>6. CASE Return(c)
    BY <2>6, ReturnInv
  <2>7. CASE CatchUp(c)
    BY <2>7, CatchUpInv
  <2>8. CASE Walking(c)
    BY <2>8, ReadGenerationInv, FlushAllInv, PublishFlushInv, WalkStartInv, InvalidateInv,
       PublishCursorInv DEF Walking
  <2> QED
    BY <2>1, <2>2, <2>3, <2>4, <2>5, <2>6, <2>7, <2>8
<1> QED
  BY <1>1, <1>2

-----------------------------------------------------------------------------
(* Every reachable state of the log is well typed. *)
THEOREM LogTypeCorrect ==
    ASSUME Early = CPUs
    PROVE  Spec => []TypeOK
<1>1. Init => IInv
  BY InitInv
<1>2. IInv /\ [Next]_vars => IInv'
  BY NextInv
<1>3. IInv => TypeOK
  BY DEF IInv
<1> QED
  BY <1>1, <1>2, <1>3, PTL DEF Spec

(* The invariant makes all_cpus_flushed truthful. *)
LEMMA InvHonoured ==
    ASSUME IInv
    PROVE  HonouredIsDropped
<1> SUFFICES ASSUME NEW r \in requests, AllFlushed(r.mark, OnlineCount), NEW c \in online
             PROVE  Gone(c, r.seen)
  BY DEF HonouredIsDropped
<1>1. c \in CPUs /\ c \in Counted(OnlineCount)
  BY CountCoversAll DEF IInv, AllOnline
<1>2. IF r.mark.kind = "Posted" THEN cursors[c] > r.mark.at ELSE flushed[c] >= r.mark.at
  BY <1>1 DEF AllFlushed
<1>3. r.mark.kind \in {"Posted", "Flushed"} /\ r.mark.at \in Nat
  BY DEF IInv, TypeOK, Mark
<1>4. cursors[c] \in Nat /\ flushed[c] \in Nat
  BY <1>1, Parts DEF IInv
<1>5. Served(c, r)
  BY <1>2, <1>3, <1>4 DEF Served
<1> QED
  BY <1>1, <1>5 DEF IInv, ServedIsGone

(* all_cpus_flushed keeps its promise: once it answers TRUE for a mark, no    *)
(* CPU holds a translation from before the edit the mark was made for,       *)
(* whatever the number of CPUs, pages, slots and edits.                      *)
THEOREM HonouredMeansDropped ==
    ASSUME Early = CPUs
    PROVE  Spec => []HonouredIsDropped
<1>1. Init => IInv
  BY InitInv
<1>2. IInv /\ [Next]_vars => IInv'
  BY NextInv
<1>3. IInv => HonouredIsDropped
  BY InvHonoured
<1> QED
  BY <1>1, <1>2, <1>3, PTL DEF Spec

(* Only AppendRange and Publish write a slot, the one at the head, and then   *)
(* every CPU is less than a ring behind.                                    *)
LEMMA SlotWrites ==
    ASSUME IInv, Next, NEW n \in Nat, NEW d \in CPUs, cursors[d] <= n, n < head
    PROVE  slots'[n % Slots] = slots[n % Slots]
<1>1. PICK c \in CPUs :
          \/ Start(c) \/ Register(c)
          \/ \E p \in Pages : Touch(c, p)
          \/ \E p, q \in Pages : p <= q /\ Edit(c, p, q + 1)
          \/ Posting(c) \/ Return(c)
          \/ CatchUp(c) \/ Walking(c)
  BY DEF Next
<1>2. slots \in [0 .. Slots - 1 -> [start : Nat, end : Nat]] /\ n % Slots \in 0 .. Slots - 1
  BY InRing DEF IInv, TypeOK
<1>3. CASE AppendRange(c)
  <2>1. CASE Promote(c)
    BY <2>1 DEF Promote
  <2>2. CASE ~Full(post[c].count) /\ TakeSlot(c)
    <3>1. post[c].count = LogCpus /\ Counted(LogCpus) = CPUs
      BY <1>3, CountCoversAll DEF IInv, PostOK, AppendRange
    <3>2. ~(head - cursors[d] >= Slots)
      BY <2>2, <3>1 DEF Full
    <3>3. head - cursors[d] < Slots
      BY SMT, Z3T(40), <3>2, Parts, PostedLogAssumption DEF IInv
    <3>4. n % Slots # head % Slots
      BY <3>3, HeadSlotIsFree DEF IInv
    <3> QED
      BY <2>2, <3>4, <1>2 DEF TakeSlot
  <2> QED
    BY <1>3, <2>1, <2>2 DEF AppendRange
<1>4. CASE Publish(c)
  <2>1. head - cursors[d] < Slots
    BY <1>4 DEF IInv, PostOK, Publish
  <2>2. n % Slots # head % Slots
    BY <2>1, HeadSlotIsFree DEF IInv
  <2> QED
    BY <1>4, <2>2, <1>2 DEF Publish
<1>5. CASE CountOnline(c) \/ PostFullFlush(c) \/ Return(c)
  BY <1>5 DEF CountOnline, PostFullFlush, Return, logVars
<1>6. CASE CatchUp(c) \/ Walking(c)
  BY <1>6 DEF CatchUp, Walking, ReadGeneration, FlushAll, PublishFlush, WalkStart, Invalidate,
              PublishCursor, logVars
<1>7. CASE \E p \in Pages : Touch(c, p)
  BY <1>7 DEF Touch, logVars
<1>8. CASE \E p, q \in Pages : p <= q /\ Edit(c, p, q + 1)
  BY <1>8 DEF Edit, logVars
<1>9. CASE Start(c) \/ Register(c)
  BY <1>9 DEF Start, Register, logVars
<1> QED
  BY <1>1, <1>3, <1>4, <1>5, <1>6, <1>7, <1>8, <1>9 DEF Posting

(* No entry is overwritten between the moment a CPU sets out to walk it and   *)
(* the moment it has: catch_up never drops a torn range.                     *)
THEOREM EntriesAreKept ==
    ASSUME Early = CPUs
    PROVE  Spec => WalkedEntryIsKept
<1> DEFINE Keeps == \A c \in CPUs : walk[c].pc \in {"walk", "half"} =>
                        \A at \in walk[c].cursor .. walk[c].head - 1 :
                            slots'[at % Slots] = slots[at % Slots]
<1>1. Init => IInv
  BY InitInv
<1>2. IInv /\ [Next]_vars => IInv'
  BY NextInv
<1>3. IInv /\ [Next]_vars => [Keeps]_vars
  <2> SUFFICES ASSUME IInv, Next, NEW c \in CPUs, walk[c].pc \in {"walk", "half"},
                      NEW at \in walk[c].cursor .. walk[c].head - 1
               PROVE  slots'[at % Slots] = slots[at % Slots]
    OBVIOUS
  <2>1. /\ cursors[c] \in Nat /\ walk[c].cursor \in Nat /\ walk[c].head \in Nat /\ head \in Nat
        /\ cursors[c] <= walk[c].cursor /\ walk[c].head <= head
    BY Parts DEF IInv, WalkOK
  <2>2. at \in Nat /\ cursors[c] <= at /\ at < head
    BY SMT, Z3T(40), <2>1
  <2> QED
    BY <2>2, SlotWrites
<1> QED
  BY <1>1, <1>2, <1>3, PTL DEF Spec, WalkedEntryIsKept

(* What a CPU has published never goes back and never passes what was handed *)
(* out, so a mark once honoured stays so.                                    *)
THEOREM ProgressNeverRetreats ==
    ASSUME Early = CPUs
    PROVE  Spec => ProgressIsMonotone
<1> DEFINE Advances == \A c \in CPUs : /\ cursors[c] <= cursors'[c] /\ cursors'[c] <= head'
                                       /\ flushed[c] <= flushed'[c] /\ flushed'[c] <= generation'
<1>1. Init => IInv
  BY InitInv
<1>2. IInv /\ [Next]_vars => IInv'
  BY NextInv
<1>3. IInv /\ [Next]_vars => [Advances]_vars
  <2> SUFFICES ASSUME IInv, Next, NEW d \in CPUs
               PROVE  cursors[d] <= cursors'[d] /\ flushed[d] <= flushed'[d]
    BY NextInv DEF IInv, InBounds
  <2>1. PICK c \in CPUs :
            \/ Start(c) \/ Register(c)
            \/ \E p \in Pages : Touch(c, p)
            \/ \E p, q \in Pages : p <= q /\ Edit(c, p, q + 1)
            \/ Posting(c) \/ Return(c)
            \/ CatchUp(c) \/ Walking(c)
    BY DEF Next
  <2>2. /\ cursors \in [CPUs -> Nat] /\ flushed \in [CPUs -> Nat]
        /\ cursors[d] \in Nat /\ flushed[d] \in Nat
    BY DEF IInv, TypeOK
  <2>3. CASE PublishFlush(c)
    <3>1. cursors[c] <= walk[c].head /\ flushed[c] <= walk[c].generation
      BY <2>3 DEF IInv, WalkOK, PublishFlush
    <3> QED
      BY SMT, Z3T(40), <2>3, <3>1, <2>2 DEF PublishFlush
  <2>4. CASE PublishCursor(c)
    <3>1. cursors[c] <= walk[c].cursor
      BY <2>4 DEF IInv, WalkOK, PublishCursor
    <3> QED
      BY SMT, Z3T(40), <2>4, <3>1, <2>2 DEF PublishCursor
  <2>5. CASE UNCHANGED <<cursors, flushed>>
    BY SMT, Z3T(40), <2>5, <2>2
  <2>6. PublishFlush(c) \/ PublishCursor(c) \/ UNCHANGED <<cursors, flushed>>
    BY <2>1 DEF Start, Register, Touch, Edit, Posting, CountOnline, AppendRange, Publish,
                PostFullFlush, Return, CatchUp, Walking, ReadGeneration, FlushAll, WalkStart,
                Invalidate, logVars
  <2> QED
    BY <2>3, <2>4, <2>5, <2>6
<1> QED
  BY <1>1, <1>2, <1>3, PTL DEF Spec, ProgressIsMonotone

-----------------------------------------------------------------------------
(* The stack window. *)

RetiredSlices == {r.slice : r \in Elements(retired)}

(* CPU c's operation has slice s. *)
Has(c, s) == task[c].pc # "none" /\ task[c].slice = s

(* A slice is in one place: beyond the frontier, free (recycled or retired), *)
(* or out, and then mapped or in the hands of one CPU.                       *)
Placed ==
    /\ Distinct(recycled) /\ Distinct(SliceOf(retired))
    /\ Elements(recycled) \cap RetiredSlices = {}
    /\ live \cap (Elements(recycled) \cup RetiredSlices) = {}
    /\ mapped \subseteq live
    /\ \A s \in live \cup Elements(recycled) \cup RetiredSlices : s < frontier
    /\ \A c \in CPUs : task[c].pc # "none" => task[c].slice \in live \ mapped
    /\ \A c, d \in CPUs : \A s \in Slices : Has(c, s) /\ Has(d, s) => c = d

(* Slices nobody can have a translation of: never used, cleared, or cleared  *)
(* and reserved.                                                           *)
Unseen(s) ==
    \/ s >= frontier \/ s \in Elements(recycled)
    \/ \E c \in CPUs : task[c].pc = "reserved" /\ task[c].slice = s

(* The current translation of a mapped slice, an older one of another. *)
Seen ==
    \A c \in CPUs, s \in Slices :
        \/ cached[c][s] = Absent
        \/ s \in mapped /\ cached[c][s] = version[s]
        \/ s \notin mapped /\ ~Unseen(s) /\ cached[c][s] < version[s]

(* A CPU that retires a slice asks for the slice's last mapping to be dropped. *)
Retiring(c) ==
    /\ task[c].pc # "retiring" => post[c].pc = "idle"
    /\ task[c].pc = "retiring" =>
          /\ post[c].pc # "idle" /\ post[c].seen[task[c].slice] = version[task[c].slice]
          /\ post[c].pc = "answered" =>
                [mark |-> post[c].mark, seen |-> post[c].seen] \in requests

(* A retired slice's mark is that of such a request. *)
RetiredAsked ==
    \A r \in Elements(retired) :
        \E q \in requests : q.mark = r.mark /\ q.seen[r.slice] = version[r.slice]

WindowInv ==
    /\ IInv /\ WindowTypeOK /\ Placed /\ Seen /\ RetiredAsked
    /\ \A c \in CPUs : Retiring(c)

-----------------------------------------------------------------------------
(* The log. *)

(* KernelStack::new maps a slice: a new version, and one CPU's drop. *)
LEMMA MapStackLog ==
    ASSUME IInv, NEW c \in CPUs, task[c].slice \in Slices, post[c].pc = "idle", MapStack(c)
    PROVE  IInv'
<1> DEFINE slice == task[c].slice
<1>1. /\ version' = [version EXCEPT ![slice] = version[slice] + 1]
      /\ cached' = Dropping(c, {slice})
      /\ UNCHANGED <<slots, head, cursors, flushed, generation, appending>>
      /\ UNCHANGED <<started, online, walk, requests, post, edits>>
  BY DEF MapStack, logVars, bootVars
<1>2. version \in [Pages -> Nat] /\ slice \in Pages
  BY DEF IInv, TypeOK, Slices
<1>3. /\ version' \in [Pages -> Nat]
      /\ \A p \in Pages : version[p] <= version'[p]
  BY SMT, Z3T(40), <1>1, <1>2
<1>4. /\ cached' \in [CPUs -> [Pages -> Nat \cup {Absent}]]
      /\ \A d \in CPUs, p \in Pages : cached'[d][p] = Absent \/ cached'[d][p] = cached[d][p]
  <2>1. \E pages : cached' = Dropping(c, pages)
    BY <1>1
  <2> QED
    BY <2>1, AfterDrop DEF IInv
<1>5. /\ post[c] \in PostRecord /\ post' = [post EXCEPT ![c] = post[c]]
      /\ edits' \in Nat
  BY <1>1 DEF IInv, TypeOK
<1>6. \A p \in Pages : /\ post[c].seen[p] <= version'[p]
                       /\ post[c].seen[p] # 0 => post[c].start <= p /\ p < post[c].end
  <2> SUFFICES ASSUME NEW p \in Pages
               PROVE  /\ post[c].seen[p] <= version'[p]
                      /\ post[c].seen[p] # 0 => post[c].start <= p /\ p < post[c].end
    OBVIOUS
  <2>1. /\ post[c].seen[p] <= version[p] /\ post[c].seen[p] \in Nat /\ version[p] \in Nat
        /\ post[c].seen[p] # 0 => post[c].start <= p /\ p < post[c].end
    BY Parts DEF IInv, PostOK
  <2>2. version[p] <= version'[p] /\ version'[p] \in Nat
    BY <1>3
  <2> QED
    BY SMT, Z3T(40), <2>1, <2>2
<1> QED
  BY <1>1, <1>3, <1>4, <1>5, <1>6, EditedInv

(* KernelStack::new gives up: a request for the slice as it is. *)
LEMMA FailToBackLog ==
    ASSUME IInv, NEW c \in CPUs, task[c].slice \in Slices, post[c].pc = "idle", FailToBack(c)
    PROVE  IInv'
<1> DEFINE slice == task[c].slice
           seen == [p \in Pages |-> IF p = slice THEN version[p] ELSE 0]
           new == [pc |-> "edited", start |-> slice, end |-> slice + 1, count |-> 0,
                   seen |-> seen, mark |-> NoMark]
<1>1. /\ post' = [post EXCEPT ![c] = new]
      /\ UNCHANGED <<slots, head, cursors, flushed, generation, appending>>
      /\ UNCHANGED <<started, online, walk, requests, version, cached>>
      /\ edits' = edits + 1
  BY DEF FailToBack, logVars, bootVars, tlbVars
<1>2. /\ version \in [Pages -> Nat] /\ slice \in Pages /\ slice \in Nat /\ slice + 1 \in Nat
      /\ edits \in Nat
      /\ cached \in [CPUs -> [Pages -> Nat \cup {Absent}]]
  <2>1. version \in [Pages -> Nat] /\ edits \in Nat /\ cached \in [CPUs -> [Pages -> Nat \cup {Absent}]]
    BY DEF IInv, TypeOK
  <2>2. slice \in Pages /\ slice \in Nat /\ slice + 1 \in Nat
    BY SMTT(40), Z3T(40), PostedLogAssumption DEF Slices, Pages
  <2> QED
    BY <2>1, <2>2
<1>3. edits' \in Nat /\ (\A p \in Pages : version[p] <= version'[p])
  BY SMTT(40), Z3T(40), <1>1, <1>2
<1>4. seen \in [Pages -> Nat]
  BY <1>2
<1>5. \A p \in Pages : seen[p] <= version'[p] /\ (seen[p] # 0 => slice <= p /\ p < slice + 1)
  BY SMTT(40), Z3T(40), <1>1, <1>2
<1>6. /\ new \in PostRecord /\ new.pc = "edited" /\ new.seen = seen
      /\ new.start = slice /\ new.end = slice + 1
  BY <1>2, <1>4 DEF NoMark, Mark, PostRecord
<1> HIDE DEF new, seen, slice
<1> QED
  BY <1>1, <1>2, <1>3, <1>5, <1>6, EditedInv

(* Every step of the window preserves the log's invariant. *)
LEMMA WindowLog ==
    ASSUME WindowInv, NEW c \in CPUs,
           \/ Allocate(c) \/ FailToBack(c) \/ StackStep(c)
           \/ \E slice \in Slices : DropStack(c, slice) \/ UseStack(c, slice)
           \/ LogStep(c)
    PROVE  IInv'
<1>0. IInv /\ Slices = Pages /\ (task[c].pc # "none" => task[c].slice \in Slices)
  BY DEF WindowInv, Placed, WindowTypeOK, Slices
<1>1. CASE Allocate(c)
  BY <1>0, <1>1, NextInv DEF Allocate
<1>2. CASE FailToBack(c)
  <2>1. task[c].slice \in Slices /\ post[c].pc = "idle"
    BY <1>0, <1>2 DEF FailToBack, WindowInv, Retiring
  <2> QED
    BY <1>0, <1>2, <2>1, FailToBackLog
<1>3. CASE MapStack(c)
  <2>1. task[c].slice \in Slices /\ post[c].pc = "idle"
    BY <1>0, <1>3 DEF MapStack, WindowInv, Retiring
  <2> QED
    BY <1>0, <1>3, <2>1, MapStackLog
<1>4. CASE Retire(c)
  BY <1>0, <1>4, ReturnInv DEF Retire, Return
<1>5. ASSUME NEW slice \in Slices, DropStack(c, slice) PROVE IInv'
  BY <1>0, <1>5, EditInv DEF DropStack, Edit
<1>6. ASSUME NEW slice \in Slices, UseStack(c, slice) PROVE IInv'
  BY <1>0, <1>6, TouchInv DEF UseStack
<1>7. CASE LogStep(c)
  BY <1>0, <1>7, NextInv DEF LogStep, Next
<1> QED
  BY <1>1, <1>2, <1>3, <1>4, <1>5, <1>6, <1>7 DEF StackStep

-----------------------------------------------------------------------------
(* The window. *)

(* What the parts of a well-formed state are. *)
LEMMA WindowParts ==
    ASSUME WindowInv, NEW c \in CPUs, NEW s \in Slices
    PROVE  /\ s \in Pages /\ s \in Nat /\ s < PageCount /\ frontier \in Nat
           /\ version[s] \in Nat /\ (cached[c][s] = Absent \/ cached[c][s] \in Nat)
           /\ task[c].pc \in {"none", "reserved", "retiring"}
           /\ task[c].pc # "none" => task[c].slice \in Slices
           /\ recycled \in Seq(Slices) /\ retired \in Seq([slice : Slices, mark : Mark])
<1>1. /\ s \in Pages /\ s \in Nat /\ s < PageCount /\ frontier \in Nat
  BY SMT, Z3T(40), PostedLogAssumption DEF WindowInv, WindowTypeOK, Slices, Pages
<1>2. /\ version \in [Pages -> Nat] /\ cached \in [CPUs -> [Pages -> Nat \cup {Absent}]]
  BY DEF WindowInv, IInv, TypeOK
<1>3. /\ task \in [CPUs -> [pc : {"none", "reserved", "retiring"}, slice : Nat]]
      /\ live \subseteq Slices /\ recycled \in Seq(Slices)
      /\ retired \in Seq([slice : Slices, mark : Mark])
  BY DEF WindowInv, WindowTypeOK
<1>4. task[c].pc # "none" => task[c].slice \in Slices
  BY <1>3 DEF WindowInv, Placed
<1> QED
  BY <1>1, <1>2, <1>3, <1>4

(* What the log's own steps do to translations and requests. *)
LEMMA LogEffects ==
    ASSUME WindowInv, NEW c \in CPUs, LogStep(c)
    PROVE  /\ version' = version /\ requests \subseteq requests'
           /\ \A d \in CPUs, p \in Pages : cached'[d][p] = Absent \/ cached'[d][p] = cached[d][p]
           /\ \A d \in CPUs :
                 /\ post'[d].seen = post[d].seen
                 /\ post'[d].pc = "idle" <=> post[d].pc = "idle"
                 /\ post'[d].pc = "answered" =>
                       \/ post[d].pc = "answered" /\ post'[d].mark = post[d].mark
                       \/ [mark |-> post'[d].mark, seen |-> post'[d].seen] \in requests'
<1>0. TypeOK /\ post \in [CPUs -> PostRecord]
  BY DEF WindowInv, IInv, TypeOK
<1>1. ASSUME NEW mark, Answer(c, mark), post[c].pc # "idle"
      PROVE  /\ requests \subseteq requests'
             /\ \A d \in CPUs :
                   /\ post'[d].seen = post[d].seen
                   /\ post'[d].pc = "idle" <=> post[d].pc = "idle"
                   /\ post'[d].pc = "answered" =>
                         \/ post[d].pc = "answered" /\ post'[d].mark = post[d].mark
                         \/ [mark |-> post'[d].mark, seen |-> post'[d].seen] \in requests'
  BY <1>0, <1>1 DEF Answer
<1>2. ASSUME NEW pc, NEW n, PostGoes(c, pc, n), pc \notin {"idle", "answered"},
             post[c].pc # "idle", requests' = requests
      PROVE  /\ requests \subseteq requests'
             /\ \A d \in CPUs :
                   /\ post'[d].seen = post[d].seen
                   /\ post'[d].pc = "idle" <=> post[d].pc = "idle"
                   /\ post'[d].pc = "answered" =>
                         \/ post[d].pc = "answered" /\ post'[d].mark = post[d].mark
                         \/ [mark |-> post'[d].mark, seen |-> post'[d].seen] \in requests'
  BY <1>0, <1>2 DEF PostGoes
<1>3. CASE CountOnline(c)
  <2>1. /\ \E pc \in {"promote", "counted"} : \E n : PostGoes(c, pc, n)
        /\ post[c].pc # "idle" /\ requests' = requests /\ version' = version /\ cached' = cached
    BY <1>3 DEF CountOnline, tlbVars
  <2> QED
    BY <2>1, <1>2
<1>4. CASE AppendRange(c)
  <2>1. /\ \E pc \in {"promote", "append"} : \E n : PostGoes(c, pc, n)
        /\ post[c].pc # "idle" /\ requests' = requests /\ version' = version /\ cached' = cached
    BY <1>4 DEF AppendRange, Promote, TakeSlot, tlbVars
  <2> QED
    BY <2>1, <1>2
<1>5. CASE Publish(c) \/ PostFullFlush(c)
  <2>1. /\ \E mark : Answer(c, mark)
        /\ post[c].pc # "idle" /\ version' = version /\ cached' = cached
    BY <1>5 DEF Publish, PostFullFlush, tlbVars
  <2> QED
    BY <2>1, <1>1
<1>6. CASE CatchUp(c) \/ Walking(c)
  <2>1. version' = version /\ requests' = requests /\ post' = post
    BY <1>6 DEF CatchUp, Walking, ReadGeneration, FlushAll, PublishFlush, WalkStart, Invalidate,
                PublishCursor, tlbVars
  <2>2. cached' = cached \/ \E pages : cached' = Dropping(c, pages)
    BY <1>6 DEF CatchUp, Walking, ReadGeneration, FlushAll, PublishFlush, WalkStart, Invalidate,
                PublishCursor, tlbVars
  <2>3. \A d \in CPUs, p \in Pages : cached'[d][p] = Absent \/ cached'[d][p] = cached[d][p]
    BY <1>0, <2>2, AfterDrop
  <2> QED
    BY <2>1, <2>3
<1> QED
  BY <1>3, <1>4, <1>5, <1>6 DEF LogStep, Posting

(* What the retired entries are. *)
LEMMA RetiredTypes ==
    ASSUME WindowTypeOK, NEW r \in Elements(retired)
    PROVE  r.slice \in Slices /\ r.mark \in Mark /\ r \in [slice : Slices, mark : Mark]
<1>1. retired \in Seq([slice : Slices, mark : Mark])
  BY DEF WindowTypeOK
<1>2. r \in [slice : Slices, mark : Mark]
  BY <1>1, ElementsAreIn
<1> QED
  BY <1>2

(* A CPU that a step leaves alone goes on retiring. *)
LEMMA SameRetiring ==
    ASSUME NEW c \in CPUs, Retiring(c), task'[c] = task[c], post'[c] = post[c],
           requests' = requests,
           task[c].pc # "none" => version'[task[c].slice] = version[task[c].slice]
    PROVE  Retiring(c)'
BY DEF Retiring

(* The log's steps preserve the window's invariant. *)
LEMMA LogStepKeeps ==
    ASSUME WindowInv, NEW c \in CPUs, LogStep(c)
    PROVE  WindowInv'
<1>1. /\ version' = version /\ requests \subseteq requests'
      /\ \A d \in CPUs, p \in Pages : cached'[d][p] = Absent \/ cached'[d][p] = cached[d][p]
      /\ \A d \in CPUs :
            /\ post'[d].seen = post[d].seen
            /\ post'[d].pc = "idle" <=> post[d].pc = "idle"
            /\ post'[d].pc = "answered" =>
                  \/ post[d].pc = "answered" /\ post'[d].mark = post[d].mark
                  \/ [mark |-> post'[d].mark, seen |-> post'[d].seen] \in requests'
  BY LogEffects
<1>2. UNCHANGED <<frontier, live, recycled, retired, mapped, task>>
  BY DEF LogStep, windowVars
<1>3. IInv'
  BY WindowLog
<1>4. WindowTypeOK'
  BY <1>2 DEF WindowInv, WindowTypeOK
<1>5. Placed'
  BY <1>2 DEF WindowInv, Placed, RetiredSlices, Has
<1>6. Seen'
  <2> SUFFICES ASSUME NEW d \in CPUs, NEW s \in Slices
               PROVE  \/ cached'[d][s] = Absent
                      \/ s \in mapped /\ cached'[d][s] = version[s]
                      \/ s \notin mapped /\ ~Unseen(s) /\ cached'[d][s] < version[s]
    BY <1>1, <1>2 DEF Seen, Unseen
  <2> QED
    BY <1>1, WindowParts DEF WindowInv, Seen
<1>7. RetiredAsked'
  BY <1>1, <1>2 DEF WindowInv, RetiredAsked
<1>8. \A d \in CPUs : Retiring(d)'
  <2> SUFFICES ASSUME NEW d \in CPUs PROVE Retiring(d)'
    OBVIOUS
  <2>1. Retiring(d)
    BY DEF WindowInv
  <2>2. /\ post'[d].seen = post[d].seen
        /\ post'[d].pc = "idle" <=> post[d].pc = "idle"
        /\ post'[d].pc = "answered" =>
              \/ post[d].pc = "answered" /\ post'[d].mark = post[d].mark
              \/ [mark |-> post'[d].mark, seen |-> post'[d].seen] \in requests'
    BY <1>1
  <2> QED
    BY <1>1, <1>2, <2>1, <2>2 DEF Retiring
<1> QED
  BY <1>3, <1>4, <1>5, <1>6, <1>7, <1>8 DEF WindowInv

(* A stack's pages are used through its mapping. *)
LEMMA UseStackKeeps ==
    ASSUME WindowInv, NEW c \in CPUs, NEW slice \in Slices, UseStack(c, slice)
    PROVE  WindowInv'
<1>1. /\ slice \in mapped
      /\ cached' = [cached EXCEPT ![c] = [cached[c] EXCEPT ![slice] = version[slice]]]
      /\ version' = version /\ requests' = requests /\ post' = post
      /\ UNCHANGED <<frontier, live, recycled, retired, mapped, task>>
  BY DEF UseStack, Touch, windowVars
<1>2. \A d \in CPUs, p \in Pages :
          cached'[d][p] = cached[d][p] \/ (p = slice /\ cached'[d][p] = version[p])
  BY <1>1 DEF WindowInv, IInv, TypeOK
<1>3. IInv'
  BY WindowLog
<1>4. WindowTypeOK' /\ RetiredAsked'
  BY <1>1 DEF WindowInv, WindowTypeOK, RetiredAsked
<1>5. Placed'
  BY <1>1 DEF WindowInv, Placed, RetiredSlices, Has
<1>6. Seen'
  <2> SUFFICES ASSUME NEW d \in CPUs, NEW s \in Slices
               PROVE  \/ cached'[d][s] = Absent
                      \/ s \in mapped /\ cached'[d][s] = version[s]
                      \/ s \notin mapped /\ ~Unseen(s) /\ cached'[d][s] < version[s]
    BY <1>1 DEF Seen, Unseen
  <2> QED
    BY <1>1, <1>2, WindowParts DEF WindowInv, Seen
<1>7. \A d \in CPUs : Retiring(d)'
  BY <1>1 DEF WindowInv, Retiring
<1> QED
  BY <1>3, <1>4, <1>5, <1>6, <1>7 DEF WindowInv

(* A new stack's pages are mapped: nobody has a translation of them. *)
LEMMA MapStackKeeps ==
    ASSUME WindowInv, NEW c \in CPUs, MapStack(c)
    PROVE  WindowInv'
<1> DEFINE slice == task[c].slice
<1>1. /\ task[c].pc = "reserved"
      /\ version' = [version EXCEPT ![slice] = version[slice] + 1]
      /\ cached' = Dropping(c, {slice})
      /\ mapped' = mapped \cup {slice} /\ task' = [task EXCEPT ![c] = NoTask]
      /\ requests' = requests /\ post' = post
      /\ UNCHANGED <<frontier, live, recycled, retired>>
  BY DEF MapStack
<1>2. slice \in live \ mapped /\ slice \in Slices /\ slice \in Pages
  BY <1>1 DEF WindowInv, WindowTypeOK, Placed, Slices
<1>3. /\ task \in [CPUs -> [pc : {"none", "reserved", "retiring"}, slice : Nat]]
      /\ version \in [Pages -> Nat]
  BY DEF WindowInv, WindowTypeOK, IInv, TypeOK
<1>4. /\ task'[c].pc = "none" /\ \A d \in CPUs : d # c => task'[d] = task[d]
      /\ task' \in [CPUs -> [pc : {"none", "reserved", "retiring"}, slice : Nat]]
  BY <1>1, <1>3 DEF NoTask
<1>5. \A p \in Pages : version'[p] = IF p = slice THEN version[p] + 1 ELSE version[p]
  BY <1>1, <1>3
<1>6. \A d \in CPUs, p \in Pages :
          cached'[d][p] = IF d = c /\ p \in {slice} THEN Absent ELSE cached[d][p]
  <2>1. TypeOK /\ cached' = Dropping(c, {slice})
    BY <1>1 DEF WindowInv, IInv
  <2> HIDE DEF slice
  <2> QED
    BY <2>1, AfterDrop
<1>7. IInv'
  BY WindowLog DEF StackStep
<1>8. WindowTypeOK'
  BY <1>1, <1>2, <1>4 DEF WindowInv, WindowTypeOK
<1>9. Placed'
  <2>1. \A d \in CPUs : task'[d].pc # "none" => task'[d] = task[d] /\ task[d].slice # slice
    BY <1>1, <1>2, <1>4 DEF WindowInv, Placed, Has
  <2>2. \A d \in CPUs : task'[d].pc # "none" => task'[d].slice \in live' \ mapped'
    <3>1. \A d \in CPUs : task[d].pc # "none" => task[d].slice \in live \ mapped
      BY DEF WindowInv, Placed
    <3> QED
      BY SMT, Z3T(40), <1>1, <2>1, <3>1
  <2>3. \A d, e \in CPUs : \A s \in Slices : Has(d, s)' /\ Has(e, s)' => d = e
    BY <2>1 DEF WindowInv, Placed, Has
  <2> QED
    BY <1>1, <1>2, <2>2, <2>3 DEF WindowInv, Placed, RetiredSlices
<1>10. Seen'
  <2> SUFFICES ASSUME NEW d \in CPUs, NEW s \in Slices
               PROVE  \/ cached'[d][s] = Absent
                      \/ s \in mapped' /\ cached'[d][s] = version'[s]
                      \/ s \notin mapped' /\ ~Unseen(s)' /\ cached'[d][s] < version'[s]
    BY DEF Seen
  <2>0. s \in Pages
    BY WindowParts
  <2>1. CASE s = slice
    <3>1. cached[d][s] = Absent
      BY <1>1, <1>2, <2>1 DEF WindowInv, Seen, Unseen
    <3> QED
      BY <1>6, <2>0, <3>1
  <2>2. CASE s # slice
    <3>1. version'[s] = version[s] /\ cached'[d][s] = cached[d][s]
      BY <1>5, <1>6, <2>0, <2>2
    <3>2. Unseen(s)' => Unseen(s)
      BY <1>1, <1>4 DEF Unseen
    <3>3. s \in mapped' <=> s \in mapped
      BY <1>1, <2>2
    <3> QED
      BY <3>1, <3>2, <3>3 DEF WindowInv, Seen
  <2> QED
    BY <2>1, <2>2
<1>11. RetiredAsked'
  <2> SUFFICES ASSUME NEW r \in Elements(retired)
               PROVE  \E q \in requests : q.mark = r.mark /\ q.seen[r.slice] = version'[r.slice]
    BY <1>1 DEF RetiredAsked
  <2>1. r.slice \in Slices /\ r.slice # slice
    <3>1. r.slice \in Slices
      BY RetiredTypes DEF WindowInv
    <3>2. r.slice \in RetiredSlices
      BY DEF RetiredSlices
    <3> QED
      BY <1>2, <3>1, <3>2 DEF WindowInv, Placed
  <2>2. version'[r.slice] = version[r.slice]
    BY <1>5, <2>1 DEF Slices
  <2> QED
    BY <2>2 DEF WindowInv, RetiredAsked
<1>12. ASSUME NEW d \in CPUs PROVE Retiring(d)'
  <2>0. Retiring(d)
    BY DEF WindowInv
  <2>1. CASE d = c
    BY <1>1, <1>4, <2>0, <2>1 DEF Retiring
  <2>2. CASE d # c
    <3>1. task'[d] = task[d] /\ post'[d] = post[d]
      BY <1>1, <1>4, <2>2
    <3>2. task[d].pc # "none" => task[d].slice \in Slices /\ task[d].slice # slice
      BY <1>1, <1>2, <2>2, WindowParts DEF WindowInv, Placed, Has
    <3>3. task[d].pc # "none" => version'[task[d].slice] = version[task[d].slice]
      BY <1>5, <3>2 DEF Slices
    <3> QED
      BY <1>1, <2>0, <3>1, <3>3 DEF Retiring
  <2> QED
    BY <2>1, <2>2
<1> QED
  BY <1>7, <1>8, <1>9, <1>10, <1>11, <1>12 DEF WindowInv

(* A reservation without frames is retired. *)
LEMMA FailToBackKeeps ==
    ASSUME WindowInv, NEW c \in CPUs, FailToBack(c)
    PROVE  WindowInv'
<1> DEFINE slice == task[c].slice
           new == [pc |-> "edited", start |-> slice, end |-> slice + 1, count |-> 0,
                   seen |-> [p \in Pages |-> IF p = slice THEN version[p] ELSE 0],
                   mark |-> NoMark]
<1>1. /\ task[c].pc = "reserved"
      /\ task' = [task EXCEPT ![c] = [pc |-> "retiring", slice |-> slice]]
      /\ post' = [post EXCEPT ![c] = new]
      /\ version' = version /\ cached' = cached /\ requests' = requests
      /\ UNCHANGED <<frontier, live, recycled, retired, mapped>>
  BY DEF FailToBack, tlbVars
<1>2. slice \in live \ mapped /\ slice \in Slices /\ slice \in Pages /\ slice \in Nat
  BY <1>1, WindowParts DEF WindowInv, WindowTypeOK, Placed, Slices
<1>3. /\ task \in [CPUs -> [pc : {"none", "reserved", "retiring"}, slice : Nat]]
      /\ post \in [CPUs -> PostRecord]
  BY DEF WindowInv, WindowTypeOK, IInv, TypeOK
<1>4. /\ task'[c].pc = "retiring" /\ task'[c].slice = slice
      /\ \A d \in CPUs : d # c => task'[d] = task[d] /\ post'[d] = post[d]
      /\ task' \in [CPUs -> [pc : {"none", "reserved", "retiring"}, slice : Nat]]
  BY <1>1, <1>2, <1>3
<1>5. post'[c].pc = "edited" /\ post'[c].seen[slice] = version[slice]
  BY SMTT(40), Z3T(40), <1>1, <1>2, <1>3
<1>6. IInv'
  BY WindowLog
<1>7. WindowTypeOK' /\ RetiredAsked'
  BY <1>1, <1>4 DEF WindowInv, WindowTypeOK, RetiredAsked
<1>8. Placed'
  <2>1. \A d \in CPUs : task'[d].pc # "none" => task[d].pc # "none" /\ task'[d].slice = task[d].slice
    BY <1>1, <1>4
  <2> QED
    BY <1>1, <2>1 DEF WindowInv, Placed, RetiredSlices, Has
<1>9. Seen'
  <2>1. \A s \in Slices : Unseen(s)' => Unseen(s)
    BY <1>1, <1>4 DEF Unseen
  <2> QED
    BY <1>1, <2>1 DEF WindowInv, Seen
<1>10. ASSUME NEW d \in CPUs PROVE Retiring(d)'
  <2>1. CASE d = c
    <3>1. /\ task'[d].pc = "retiring" /\ task'[d].slice = slice
          /\ post'[d].pc = "edited" /\ post'[d].seen[slice] = version'[slice]
      BY <1>1, <1>4, <1>5, <2>1
    <3> QED
      BY <3>1 DEF Retiring
  <2>2. CASE d # c
    <3>1. task'[d] = task[d] /\ post'[d] = post[d]
      BY <1>4, <2>2
    <3>2. Retiring(d)
      BY DEF WindowInv
    <3> QED
      BY <1>1, <3>1, <3>2, SameRetiring
  <2> QED
    BY <2>1, <2>2
<1> QED
  BY <1>6, <1>7, <1>8, <1>9, <1>10 DEF WindowInv

(* A stack is dropped: its mapping is a version older than the slice's. *)
LEMMA DropStackKeeps ==
    ASSUME WindowInv, NEW c \in CPUs, NEW slice \in Slices, DropStack(c, slice)
    PROVE  WindowInv'
<1> DEFINE range == PagesIn(slice, slice + 1)
           pages == IF (slice + 1) - slice > FullFlushPages THEN Pages ELSE range
           seen == [p \in Pages |-> IF p \in range THEN version[p] + 1 ELSE 0]
           new == [pc |-> "edited", start |-> slice, end |-> slice + 1, count |-> 0,
                   seen |-> seen, mark |-> NoMark]
<1>1. /\ task[c].pc = "none" /\ slice \in mapped
      /\ version' = [p \in Pages |-> IF p \in range THEN version[p] + 1 ELSE version[p]]
      /\ cached' = Dropping(c, pages)
      /\ post' = [post EXCEPT ![c] = new]
      /\ mapped' = mapped \ {slice}
      /\ task' = [task EXCEPT ![c] = [pc |-> "retiring", slice |-> slice]]
      /\ requests' = requests
      /\ UNCHANGED <<frontier, live, recycled, retired>>
  BY DEF DropStack, EditPages
<1>2. slice \in live /\ slice \in Nat /\ slice \in Pages /\ range = {slice}
  <2>1. slice \in Nat /\ slice \in Pages
    BY WindowParts
  <2>2. range = {slice}
    BY SMT, Z3T(40), <2>1, PostedLogAssumption DEF PagesIn, Pages
  <2> QED
    BY <1>1, <2>1, <2>2 DEF WindowInv, Placed
<1>3. /\ task \in [CPUs -> [pc : {"none", "reserved", "retiring"}, slice : Nat]]
      /\ post \in [CPUs -> PostRecord] /\ version \in [Pages -> Nat]
  BY DEF WindowInv, WindowTypeOK, IInv, TypeOK
<1>4. /\ task'[c].pc = "retiring" /\ task'[c].slice = slice
      /\ \A d \in CPUs : d # c => task'[d] = task[d]
      /\ task' \in [CPUs -> [pc : {"none", "reserved", "retiring"}, slice : Nat]]
  BY SMTT(40), Z3T(40), <1>1, <1>2, <1>3
<1>5. \A p \in Pages : version'[p] = IF p = slice THEN version[p] + 1 ELSE version[p]
  BY <1>1, <1>2
<1>6. /\ post'[c].pc = "edited" /\ post'[c].seen[slice] = version'[slice]
      /\ \A d \in CPUs : d # c => post'[d] = post[d]
  <2>1. post'[c] = new /\ \A d \in CPUs : d # c => post'[d] = post[d]
    BY <1>1, <1>3
  <2>2. new.pc = "edited" /\ new.seen = seen
    OBVIOUS
  <2>3. seen[slice] = version'[slice]
    BY <1>1, <1>2
  <2> QED
    BY <2>1, <2>2, <2>3
<1> HIDE DEF new, seen, range
<1>7. \A d \in CPUs, p \in Pages : cached'[d][p] = Absent \/ cached'[d][p] = cached[d][p]
  <2>1. \E set : cached' = Dropping(c, set)
    BY <1>1
  <2> QED
    BY <2>1, AfterDrop DEF WindowInv, IInv
<1>8. IInv'
  BY WindowLog
<1>9. WindowTypeOK'
  BY <1>1, <1>4 DEF WindowInv, WindowTypeOK
<1>10. Placed'
  <2>0. \A d \in CPUs : task[d].pc # "none" => task[d].slice \in live \ mapped
    BY DEF WindowInv, Placed
  <2>1. \A d \in CPUs : task'[d].pc # "none" =>
            IF d = c THEN task'[d].slice = slice
            ELSE task'[d] = task[d] /\ task[d].pc # "none" /\ task'[d].slice # slice
    BY <1>1, <1>4, <2>0
  <2>2. \A d \in CPUs : task'[d].pc # "none" => task'[d].slice \in live' \ mapped'
    BY SMTT(40), Z3T(40), <1>1, <1>2, <2>0, <2>1
  <2>3. \A d, e \in CPUs : \A s \in Slices : Has(d, s)' /\ Has(e, s)' => d = e
    <3>1. \A d, e \in CPUs : \A s \in Slices : Has(d, s) /\ Has(e, s) => d = e
      BY DEF WindowInv, Placed
    <3> QED
      BY <2>1, <3>1 DEF Has
  <2>4. mapped' \subseteq live'
    BY <1>1 DEF WindowInv, Placed
  <2> QED
    BY <1>1, <2>2, <2>3, <2>4 DEF WindowInv, Placed, RetiredSlices
<1>11. Seen'
  <2> SUFFICES ASSUME NEW d \in CPUs, NEW s \in Slices
               PROVE  \/ cached'[d][s] = Absent
                      \/ s \in mapped' /\ cached'[d][s] = version'[s]
                      \/ s \notin mapped' /\ ~Unseen(s)' /\ cached'[d][s] < version'[s]
    BY DEF Seen
  <2>0. s \in Pages /\ version[s] \in Nat
    BY WindowParts
  <2>1. Unseen(s)' => Unseen(s)
    BY <1>1, <1>4 DEF Unseen
  <2>2. CASE s = slice
    <3>1. ~Unseen(s)
      <4>1. s < frontier /\ s \notin Elements(recycled) /\ s \in Nat /\ frontier \in Nat
        BY <1>2, <2>2, WindowParts DEF WindowInv, Placed
      <4>2. ~(s >= frontier)
        BY SMT, Z3T(40), <4>1
      <4>3. \A e \in CPUs : ~(task[e].pc = "reserved" /\ task[e].slice = s)
        BY <1>1, <2>2 DEF WindowInv, Placed
      <4> QED
        BY <4>1, <4>2, <4>3 DEF Unseen
    <3>2. cached[d][s] = Absent \/ cached[d][s] = version[s]
      BY <1>1, <2>2 DEF WindowInv, Seen
    <3>3. version[s] < version'[s]
      BY SMT, Z3T(40), <1>5, <2>0, <2>2
    <3> QED
      BY <1>1, <1>7, <2>0, <2>1, <2>2, <3>1, <3>2, <3>3
  <2>3. CASE s # slice
    <3>1. version'[s] = version[s] /\ (s \in mapped' <=> s \in mapped)
      BY <1>1, <1>5, <2>0, <2>3
    <3> QED
      BY <1>7, <2>0, <2>1, <3>1 DEF WindowInv, Seen
  <2> QED
    BY <2>2, <2>3
<1>12. RetiredAsked'
  <2> SUFFICES ASSUME NEW r \in Elements(retired)
               PROVE  \E q \in requests : q.mark = r.mark /\ q.seen[r.slice] = version'[r.slice]
    BY <1>1 DEF RetiredAsked
  <2>1. r.slice \in Slices /\ r.slice \in RetiredSlices
    BY RetiredTypes DEF WindowInv, RetiredSlices
  <2>2. r.slice # slice
    BY <1>2, <2>1 DEF WindowInv, Placed
  <2>3. version'[r.slice] = version[r.slice]
    BY <1>5, <2>1, <2>2 DEF Slices
  <2> QED
    BY <2>3 DEF WindowInv, RetiredAsked
<1>13. ASSUME NEW d \in CPUs PROVE Retiring(d)'
  <2>1. CASE d = c
    <3>1. /\ task'[d].pc = "retiring" /\ task'[d].slice = slice
          /\ post'[d].pc = "edited" /\ post'[d].seen[slice] = version'[slice]
      BY <1>4, <1>6, <2>1
    <3> QED
      BY <3>1 DEF Retiring
  <2>2. CASE d # c
    <3>1. task'[d] = task[d] /\ post'[d] = post[d]
      BY <1>4, <1>6, <2>2
    <3>2. task[d].pc # "none" => task[d].slice \in Slices /\ task[d].slice # slice
      BY <1>1, WindowParts DEF WindowInv, Placed
    <3>3. task[d].pc # "none" => version'[task[d].slice] = version[task[d].slice]
      BY <1>5, <3>2 DEF Slices
    <3>4. Retiring(d)
      BY DEF WindowInv
    <3> QED
      BY <1>1, <3>1, <3>3, <3>4, SameRetiring
  <2> QED
    BY <2>1, <2>2
<1> QED
  BY <1>8, <1>9, <1>10, <1>11, <1>12, <1>13 DEF WindowInv

-----------------------------------------------------------------------------
(* The lists of slices. *)

LEMMA SliceFacts ==
    ASSUME NEW e \in Seq([slice : Slices, mark : Mark])
    PROVE  /\ SliceOf(e) \in Seq(Slices)
           /\ Elements(SliceOf(e)) = {r.slice : r \in Elements(e)}
           /\ Distinct(SliceOf(e)) <=>
                 Distinct(e) /\ \A r, q \in Elements(e) : r.slice = q.slice => r = q
<1>1. Len(e) \in Nat /\ DOMAIN e = 1 .. Len(e) /\ \A i \in 1 .. Len(e) : e[i].slice \in Slices
  <2> DEFINE Entry == [slice : Slices, mark : Mark]
  <2>1. \A r \in Entry : r.slice \in Slices
    OBVIOUS
  <2> HIDE DEF Entry
  <2>2. e \in Seq(Entry)
    BY DEF Entry
  <2> QED
    BY SMT, Z3T(40), <2>1, <2>2
<1>2. SliceOf(e) \in Seq(Slices) /\ Len(SliceOf(e)) = Len(e)
  BY SMT, Z3T(40), <1>1 DEF SliceOf
<1>3. \A i \in 1 .. Len(e) : SliceOf(e)[i] = e[i].slice
  BY <1>1 DEF SliceOf
<1>4. Elements(SliceOf(e)) = {r.slice : r \in Elements(e)}
  BY <1>2, <1>3 DEF Elements
<1>5. ASSUME Distinct(SliceOf(e)) PROVE Distinct(e)
  BY <1>2, <1>3, <1>5 DEF Distinct
<1>6. ASSUME Distinct(SliceOf(e)), NEW r \in Elements(e), NEW q \in Elements(e), r.slice = q.slice
      PROVE  r = q
  <2>1. PICK i \in 1 .. Len(e) : r = e[i]
    BY DEF Elements
  <2>2. PICK j \in 1 .. Len(e) : q = e[j]
    BY DEF Elements
  <2> QED
    BY <1>2, <1>3, <1>6, <2>1, <2>2 DEF Distinct
<1>7. ASSUME Distinct(e), \A r, q \in Elements(e) : r.slice = q.slice => r = q
      PROVE  Distinct(SliceOf(e))
  <2> SUFFICES ASSUME NEW i \in 1 .. Len(e), NEW j \in 1 .. Len(e), e[i].slice = e[j].slice
               PROVE  i = j
    BY <1>2, <1>3 DEF Distinct
  <2>1. e[i] \in Elements(e) /\ e[j] \in Elements(e)
    BY DEF Elements
  <2> QED
    BY <1>7, <2>1 DEF Distinct
<1> QED
  BY <1>2, <1>4, <1>5, <1>6, <1>7

LEMMA SwapRemoveFacts ==
    ASSUME NEW S, NEW s \in Seq(S), s # <<>>, Distinct(s)
    PROVE  /\ SwapRemoveFirst(s) \in Seq(S)
           /\ Distinct(SwapRemoveFirst(s))
           /\ Elements(SwapRemoveFirst(s)) = Elements(s) \ {s[1]}
           /\ s[1] \in Elements(s)
<1> DEFINE n == Len(s)
           t == SwapRemoveFirst(s)
<1>1. n \in Nat /\ n > 0
  BY SMT, Z3T(40)
<1>2. /\ t \in Seq(S) /\ Len(t) = n - 1
      /\ \A i \in 1 .. n - 1 : t[i] = IF i = 1 THEN s[n] ELSE s[i]
  <2>1. CASE n = 1
    BY SMT, Z3T(40), <2>1 DEF SwapRemoveFirst
  <2>2. CASE n > 1
    <3>1. t = <<s[n]>> \o SubSeq(s, 2, n - 1) /\ s[n] \in S
      BY SMT, Z3T(40), <1>1, <2>2 DEF SwapRemoveFirst
    <3>2. /\ SubSeq(s, 2, n - 1) \in Seq(S) /\ Len(SubSeq(s, 2, n - 1)) = n - 2
          /\ \A i \in 1 .. n - 2 : SubSeq(s, 2, n - 1)[i] = s[i + 1]
      <4>1. n - 1 \in Int /\ 2 \in Int /\ \A i \in 2 .. n - 1 : s[i] \in S
        BY SMT, Z3T(40), <1>1
      <4> HIDE DEF n
      <4>2. /\ SubSeq(s, 2, n - 1) \in Seq(S)
            /\ Len(SubSeq(s, 2, n - 1)) = IF 2 <= n - 1 THEN (n - 1) - 2 + 1 ELSE 0
            /\ \A i \in 1 .. (n - 1) - 2 + 1 : SubSeq(s, 2, n - 1)[i] = s[2 + i - 1]
        <5> DEFINE k == n - 1
        <5> HIDE DEF k
        <5>1. k \in Int /\ 2 \in Int /\ \A i \in 2 .. k : s[i] \in S
          BY <4>1 DEF k
        <5>2. /\ SubSeq(s, 2, k) \in Seq(S)
              /\ Len(SubSeq(s, 2, k)) = IF 2 <= k THEN k - 2 + 1 ELSE 0
              /\ \A i \in 1 .. k - 2 + 1 : SubSeq(s, 2, k)[i] = s[2 + i - 1]
          BY SMT, Z3T(40), <5>1, SubSeqFacts
        <5> QED
          BY <5>2 DEF k
      <4>3. \A i \in 1 .. n - 2 : i \in 1 .. (n - 1) - 2 + 1 /\ 2 + i - 1 = i + 1
        BY SMT, Z3T(40), <1>1
      <4>4. (IF 2 <= n - 1 THEN (n - 1) - 2 + 1 ELSE 0) = n - 2
        BY SMT, Z3T(40), <1>1, <2>2
      <4> QED
        BY <4>2, <4>3, <4>4
    <3> HIDE DEF t
    <3> QED
      BY SMT, Z3T(40), <1>1, <2>2, <3>1, <3>2
  <2> HIDE DEF t
  <2> HIDE DEF n
  <2>3. n = 1 \/ n > 1
    BY SMT, Z3T(40), <1>1
  <2> QED
    BY <2>1, <2>2, <2>3
<1> HIDE DEF t
<1>3. Distinct(t)
  BY SMT, Z3T(40), <1>1, <1>2 DEF Distinct
<1>4. \A i \in 1 .. n - 1 : t[i] \in Elements(s) \ {s[1]}
  BY SMT, Z3T(40), <1>1, <1>2 DEF Distinct, Elements
<1>5. \A i \in 1 .. n : s[i] = s[1] \/ \E j \in 1 .. n - 1 : t[j] = s[i]
  <2> SUFFICES ASSUME NEW i \in 1 .. n, i # 1 PROVE \E j \in 1 .. n - 1 : t[j] = s[i]
    OBVIOUS
  <2>1. CASE i = n
    <3>1. 1 \in 1 .. n - 1
      BY SMT, Z3T(40), <1>1, <2>1
    <3> QED
      BY <1>2, <2>1, <3>1
  <2>2. CASE i # n
    <3>1. i \in 1 .. n - 1
      BY SMT, Z3T(40), <1>1, <2>2
    <3> QED
      BY <1>2, <3>1
  <2> QED
    BY <2>1, <2>2
<1>6. s[1] \in Elements(s)
  <2>1. 1 \in 1 .. n
    BY SMT, Z3T(40), <1>1
  <2> QED
    BY <2>1 DEF Elements
<1>7. Elements(t) = Elements(s) \ {s[1]}
  <2>1. Elements(t) = {t[i] : i \in 1 .. n - 1}
    BY <1>2 DEF Elements
  <2>2. \A x \in Elements(s) : \E i \in 1 .. n : x = s[i]
    BY DEF Elements
  <2>3. \A x \in Elements(s) \ {s[1]} : x \in Elements(t)
    <3> SUFFICES ASSUME NEW x \in Elements(s), x # s[1] PROVE x \in Elements(t)
      OBVIOUS
    <3>1. PICK i \in 1 .. n : x = s[i]
      BY <2>2
    <3>2. PICK j \in 1 .. n - 1 : t[j] = s[i]
      BY <1>5, <3>1
    <3> QED
      BY <2>1, <3>1, <3>2
  <2> QED
    BY <1>4, <2>1, <2>3
<1> QED
  BY <1>2, <1>3, <1>6, <1>7 DEF t

(* A slice is retired under the mark of its request. *)
LEMMA RetireKeeps ==
    ASSUME WindowInv, NEW c \in CPUs, Retire(c)
    PROVE  WindowInv'
<1> DEFINE slice == task[c].slice
           entry == [slice |-> slice, mark |-> post[c].mark]
<1>1. /\ task[c].pc = "retiring" /\ post[c].pc = "answered" /\ slice \in live
      /\ live' = live \ {slice}
      /\ retired' = Append(retired, entry)
      /\ post' = [post EXCEPT ![c] = IdlePost]
      /\ task' = [task EXCEPT ![c] = NoTask]
      /\ version' = version /\ cached' = cached /\ requests' = requests
      /\ UNCHANGED <<frontier, recycled, mapped>>
  BY DEF Retire, tlbVars
<1>2. slice \in Slices /\ slice \notin mapped
  BY <1>1, WindowParts DEF WindowInv, WindowTypeOK, Placed, Slices
<1>3. /\ task \in [CPUs -> [pc : {"none", "reserved", "retiring"}, slice : Nat]]
      /\ post \in [CPUs -> PostRecord]
      /\ retired \in Seq([slice : Slices, mark : Mark])
  BY DEF WindowInv, WindowTypeOK, IInv, TypeOK
<1>4. /\ task'[c].pc = "none" /\ post'[c].pc = "idle"
      /\ \A d \in CPUs : d # c => task'[d] = task[d] /\ post'[d] = post[d]
      /\ task' \in [CPUs -> [pc : {"none", "reserved", "retiring"}, slice : Nat]]
  BY SMTT(40), Z3T(40), <1>1, <1>3 DEF NoTask, IdlePost
<1>5. entry \in [slice : Slices, mark : Mark] /\ entry.slice = slice
  BY <1>2, <1>3 DEF PostRecord
<1>6. /\ retired' \in Seq([slice : Slices, mark : Mark])
      /\ Elements(retired') = Elements(retired) \cup {entry}
      /\ Distinct(retired) /\ entry \notin Elements(retired) => Distinct(retired')
  <2> DEFINE Entry == [slice : Slices, mark : Mark]
  <2> HIDE DEF Entry, entry
  <2>1. retired \in Seq(Entry) /\ entry \in Entry
    BY <1>3, <1>5 DEF Entry
  <2>2. /\ Append(retired, entry) \in Seq(Entry)
        /\ Elements(Append(retired, entry)) = Elements(retired) \cup {entry}
        /\ Distinct(retired) /\ entry \notin Elements(retired) => Distinct(Append(retired, entry))
    BY <2>1, AppendFacts
  <2> QED
    BY <1>1, <2>2 DEF Entry
<1>7. /\ slice \notin RetiredSlices
      /\ RetiredSlices' = RetiredSlices \cup {slice}
  BY <1>1, <1>5, <1>6 DEF WindowInv, Placed, RetiredSlices
<1>8. IInv'
  BY WindowLog DEF StackStep
<1>9. WindowTypeOK'
  BY <1>1, <1>4, <1>6 DEF WindowInv, WindowTypeOK
<1>10. Placed'
  <2>1. Distinct(SliceOf(retired'))
    <3>1. Distinct(retired) /\ \A r, q \in Elements(retired) : r.slice = q.slice => r = q
      BY <1>3, SliceFacts DEF WindowInv, Placed
    <3>2. \A r \in Elements(retired) : r.slice # entry.slice
      BY <1>5, <1>7 DEF RetiredSlices
    <3> HIDE DEF entry
    <3>3. Distinct(retired') /\ \A r, q \in Elements(retired') : r.slice = q.slice => r = q
      BY <1>6, <3>1, <3>2
    <3> QED
      BY <1>6, <3>3, SliceFacts
  <2>2. \A d \in CPUs : task'[d].pc # "none" => task'[d] = task[d] /\ task[d].slice # slice
    BY <1>1, <1>2, <1>4 DEF WindowInv, Placed, Has
  <2>3. \A d \in CPUs : task'[d].pc # "none" => task'[d].slice \in live' \ mapped'
    <3>1. \A d \in CPUs : task[d].pc # "none" => task[d].slice \in live \ mapped
      BY DEF WindowInv, Placed
    <3> QED
      BY SMTT(40), Z3T(40), <1>1, <2>2, <3>1
  <2>4. \A d, e \in CPUs : \A s \in Slices : Has(d, s)' /\ Has(e, s)' => d = e
    BY <2>2 DEF WindowInv, Placed, Has
  <2>5. /\ Elements(recycled') \cap RetiredSlices' = {}
        /\ live' \cap (Elements(recycled') \cup RetiredSlices') = {}
        /\ mapped' \subseteq live'
    BY <1>1, <1>2, <1>7 DEF WindowInv, Placed
  <2>6. \A s \in live' \cup Elements(recycled') \cup RetiredSlices' : s < frontier'
    BY <1>1, <1>7 DEF WindowInv, Placed
  <2>7. Distinct(recycled')
    BY <1>1 DEF WindowInv, Placed
  <2> QED
    BY <2>1, <2>3, <2>4, <2>5, <2>6, <2>7 DEF Placed
<1>11. Seen'
  <2>1. \A s \in Slices : Unseen(s)' => Unseen(s)
    BY <1>1, <1>4 DEF Unseen
  <2> QED
    BY <1>1, <2>1 DEF WindowInv, Seen
<1>12. RetiredAsked'
  <2>1. \E q \in requests : q.mark = entry.mark /\ q.seen[slice] = version[slice]
    <3>1. /\ post[c].seen[slice] = version[slice]
          /\ [mark |-> post[c].mark, seen |-> post[c].seen] \in requests
      BY <1>1 DEF WindowInv, Retiring
    <3> QED
      BY <3>1
  <2>2. \A r \in Elements(retired) :
            \E q \in requests : q.mark = r.mark /\ q.seen[r.slice] = version[r.slice]
    BY DEF WindowInv, RetiredAsked
  <2> HIDE DEF entry
  <2> QED
    BY <1>1, <1>5, <1>6, <2>1, <2>2 DEF RetiredAsked
<1>13. ASSUME NEW d \in CPUs PROVE Retiring(d)'
  <2>1. CASE d = c
    BY <1>4, <2>1 DEF Retiring
  <2>2. CASE d # c
    <3>1. task'[d] = task[d] /\ post'[d] = post[d]
      BY <1>4, <2>2
    <3>2. Retiring(d)
      BY DEF WindowInv
    <3> QED
      BY <1>1, <3>1, <3>2, SameRetiring
  <2> QED
    BY <2>1, <2>2
<1> QED
  BY <1>8, <1>9, <1>10, <1>11, <1>12, <1>13 DEF WindowInv

(* A retired slice that allocate finds ready is in nobody's TLB. *)
LEMMA ReadyAbsent ==
    ASSUME WindowInv, NEW r \in Ready, NEW d \in CPUs
    PROVE  cached[d][r.slice] = Absent
<1> DEFINE s == r.slice
<1>1. r \in Elements(retired) /\ AllFlushed(r.mark, OnlineCount)
  BY DEF Ready
<1>2. s \in Slices /\ s \notin mapped
  <2>1. s \in RetiredSlices /\ s \in Slices
    BY <1>1, RetiredTypes DEF WindowInv, RetiredSlices
  <2> QED
    BY <2>1 DEF WindowInv, Placed
<1>3. PICK q \in requests : q.mark = r.mark /\ q.seen[s] = version[s]
  BY <1>1 DEF WindowInv, RetiredAsked
<1>4. Gone(d, q.seen)
  BY <1>1, <1>3, InvHonoured DEF HonouredIsDropped, WindowInv, IInv, AllOnline
<1>5. cached[d][s] = Absent \/ cached[d][s] >= version[s]
  BY <1>2, <1>3, <1>4 DEF Gone, Slices
<1>6. cached[d][s] = Absent \/ cached[d][s] < version[s]
  BY <1>2 DEF WindowInv, Seen
<1>7. version[s] \in Nat /\ (cached[d][s] = Absent \/ cached[d][s] \in Nat)
  BY <1>2, WindowParts
<1> HIDE DEF s
<1>8. cached[d][s] = Absent
  BY SMT, Z3T(40), <1>5, <1>6, <1>7
<1> QED
  BY <1>8 DEF s

(* What allocate makes of the retired list. *)
LEMMA Drained ==
    ASSUME WindowInv
    PROVE  LET ready == recycled \o SliceOf(Keep(retired, Ready))
               waiting == Keep(retired, Waiting)
           IN  /\ ready \in Seq(Slices) /\ Distinct(ready)
               /\ Elements(ready) = Elements(recycled) \cup {r.slice : r \in Ready}
               /\ waiting \in Seq([slice : Slices, mark : Mark])
               /\ Elements(waiting) = Waiting /\ Distinct(SliceOf(waiting))
               /\ {r.slice : r \in Ready} \subseteq RetiredSlices
               /\ {r.slice : r \in Ready} \cap {r.slice : r \in Waiting} = {}
<1> DEFINE Entry == [slice : Slices, mark : Mark]
           kept == Keep(retired, Ready)
           waiting == Keep(retired, Waiting)
           cleared == {r.slice : r \in Ready}
<1> HIDE DEF kept, waiting
<1>1. recycled \in Seq(Slices) /\ retired \in Seq(Entry)
  BY DEF WindowInv, WindowTypeOK
<1>2. Distinct(retired) /\ \A r, q \in Elements(retired) : r.slice = q.slice => r = q
  BY <1>1, SliceFacts DEF WindowInv, Placed
<1> HIDE DEF Entry
<1>3. /\ Ready \subseteq Elements(retired) /\ Waiting \subseteq Elements(retired)
      /\ Ready \cap Waiting = {}
  BY DEF Ready, Waiting
<1>4. /\ kept \in Seq(Entry) /\ Elements(kept) = Elements(retired) \cap Ready
      /\ Distinct(retired) => Distinct(kept)
  BY <1>1, KeepFacts DEF kept
<1>5. /\ waiting \in Seq(Entry) /\ Elements(waiting) = Elements(retired) \cap Waiting
      /\ Distinct(retired) => Distinct(waiting)
  BY <1>1, KeepFacts DEF waiting
<1>6. Elements(kept) = Ready /\ Elements(waiting) = Waiting
  BY <1>3, <1>4, <1>5
<1>7. /\ SliceOf(kept) \in Seq(Slices) /\ Elements(SliceOf(kept)) = cleared
      /\ Distinct(SliceOf(kept))
  BY <1>2, <1>3, <1>4, <1>6, SliceFacts DEF Entry
<1>8. Distinct(SliceOf(waiting))
  BY <1>2, <1>3, <1>5, <1>6, SliceFacts DEF Entry
<1>9. cleared \subseteq RetiredSlices
  BY <1>3 DEF RetiredSlices
<1>10. cleared \cap {r.slice : r \in Waiting} = {}
  BY <1>2, <1>3
<1>11. Distinct(recycled) /\ Elements(recycled) \cap cleared = {}
  BY <1>9 DEF WindowInv, Placed
<1> HIDE DEF cleared
<1>12. /\ recycled \o SliceOf(kept) \in Seq(Slices)
       /\ Distinct(recycled \o SliceOf(kept))
       /\ Elements(recycled \o SliceOf(kept)) = Elements(recycled) \cup cleared
  <2> DEFINE more == SliceOf(kept)
  <2> HIDE DEF more
  <2>1. more \in Seq(Slices) /\ Elements(more) = cleared /\ Distinct(more)
    BY <1>7 DEF more
  <2>2. /\ recycled \o more \in Seq(Slices)
        /\ Elements(recycled \o more) = Elements(recycled) \cup Elements(more)
        /\ Distinct(recycled) /\ Distinct(more) /\ Elements(recycled) \cap Elements(more) = {}
              => Distinct(recycled \o more)
    BY <1>1, <2>1, JoinFacts
  <2> QED
    BY <1>11, <2>1, <2>2 DEF more
<1> QED
  BY <1>5, <1>6, <1>8, <1>9, <1>10, <1>12 DEF kept, waiting, cleared, Entry

(* The slice that allocate reserves was free, and nobody has a translation of *)
(* it; the others that became free are in nobody's TLB either.               *)
LEMMA Allocated ==
    ASSUME WindowInv, NEW c \in CPUs, Allocate(c)
    PROVE  \E x \in Slices :
              /\ Reserve(c, x)
              /\ x \notin live /\ \A d \in CPUs : cached[d][x] = Absent
              /\ x < frontier' /\ frontier <= frontier' /\ frontier' \in 0 .. PageCount
              /\ recycled' \in Seq(Slices) /\ Distinct(recycled')
              /\ Elements(recycled') \subseteq
                    (Elements(recycled) \cup {r.slice : r \in Ready}) \ {x}
              /\ x \notin {r.slice : r \in Waiting}
<1> DEFINE ready == recycled \o SliceOf(Keep(retired, Ready))
           cleared == {r.slice : r \in Ready}
           waiting == {r.slice : r \in Waiting}
<1>1. \/ /\ ready # <<>>
         /\ Reserve(c, ready[1])
         /\ recycled' = SwapRemoveFirst(ready)
         /\ frontier' = frontier
      \/ /\ ready = <<>> /\ frontier < PageCount
         /\ Reserve(c, frontier)
         /\ frontier' = frontier + 1
         /\ recycled' = ready
  BY DEF Allocate
<1>2. /\ ready \in Seq(Slices) /\ Distinct(ready)
      /\ Elements(ready) = Elements(recycled) \cup cleared
      /\ cleared \subseteq RetiredSlices /\ cleared \cap waiting = {}
      /\ waiting \subseteq RetiredSlices
  <2>1. waiting \subseteq RetiredSlices
    BY DEF RetiredSlices, Waiting
  <2> QED
    BY <2>1, Drained
<1>3. frontier \in 0 .. PageCount /\ PageCount \in Nat
  BY PostedLogAssumption DEF WindowInv, WindowTypeOK
<1>4. \A s \in cleared : \A d \in CPUs : cached[d][s] = Absent
  BY ReadyAbsent
<1> HIDE DEF ready, cleared, waiting
<1>5. \A s \in live \cup Elements(recycled) \cup RetiredSlices : s < frontier
  BY DEF WindowInv, Placed
<1>6. \A s \in Slices, d \in CPUs : Unseen(s) /\ s \notin mapped => cached[d][s] = Absent
  BY DEF WindowInv, Seen
<1>7. mapped \subseteq live
  BY DEF WindowInv, Placed
<1>8. CASE /\ ready # <<>> /\ Reserve(c, ready[1])
           /\ recycled' = SwapRemoveFirst(ready) /\ frontier' = frontier
  <2> DEFINE x == ready[1]
  <2>1. /\ recycled' \in Seq(Slices) /\ Distinct(recycled')
        /\ Elements(recycled') = Elements(ready) \ {x} /\ x \in Elements(ready)
    BY <1>2, <1>8, SwapRemoveFacts
  <2>2. x \in Slices
    BY <1>2, <2>1, ElementsAreIn
  <2> HIDE DEF x
  <2>3. x \notin live /\ x < frontier /\ x \notin waiting
    <3>1. live \cap (Elements(recycled) \cup RetiredSlices) = {}
      BY DEF WindowInv, Placed
    <3>2. Elements(recycled) \cap RetiredSlices = {}
      BY DEF WindowInv, Placed
    <3> QED
      BY <1>2, <1>5, <2>1, <3>1, <3>2
  <2>4. \A d \in CPUs : cached[d][x] = Absent
    <3>1. CASE x \in cleared
      BY <1>4, <3>1
    <3>2. CASE x \in Elements(recycled)
      BY <1>6, <1>7, <2>2, <2>3, <3>2 DEF Unseen
    <3> QED
      BY <1>2, <2>1, <3>1, <3>2
  <2>5. frontier <= frontier' /\ frontier' \in 0 .. PageCount
    BY SMT, Z3T(40), <1>3, <1>8
  <2>6. Reserve(c, x) /\ x < frontier'
    BY <1>8, <2>3 DEF x
  <2> QED
    BY <1>2, <2>1, <2>2, <2>3, <2>4, <2>5, <2>6 DEF cleared, waiting
<1>9. CASE /\ ready = <<>> /\ frontier < PageCount /\ Reserve(c, frontier)
           /\ frontier' = frontier + 1 /\ recycled' = ready
  <2>1. frontier \in Slices
    BY SMT, Z3T(40), <1>3, <1>9 DEF Slices, Pages
  <2>2. frontier >= frontier /\ ~(frontier < frontier)
    BY SMT, Z3T(40), <1>3
  <2>3. frontier \notin live /\ frontier \notin waiting
    BY <1>2, <1>5, <2>2
  <2>4. \A d \in CPUs : cached[d][frontier] = Absent
    BY <1>6, <1>7, <2>1, <2>2, <2>3 DEF Unseen
  <2>5. frontier < frontier' /\ frontier <= frontier' /\ frontier' \in 0 .. PageCount
    BY SMT, Z3T(40), <1>3, <1>9
  <2>6. Elements(ready) = {}
    BY SMT, Z3T(40), <1>9 DEF Elements
  <2> QED
    BY <1>2, <1>9, <2>1, <2>3, <2>4, <2>5, <2>6 DEF cleared, waiting
<1> QED
  BY <1>1, <1>8, <1>9

LEMMA AllocateKeeps ==
    ASSUME WindowInv, NEW c \in CPUs, Allocate(c)
    PROVE  WindowInv'
<1> DEFINE cleared == {r.slice : r \in Ready}
           waiting == {r.slice : r \in Waiting}
<1>1. PICK x \in Slices :
              /\ Reserve(c, x)
              /\ x \notin live /\ \A d \in CPUs : cached[d][x] = Absent
              /\ x < frontier' /\ frontier <= frontier' /\ frontier' \in 0 .. PageCount
              /\ recycled' \in Seq(Slices) /\ Distinct(recycled')
              /\ Elements(recycled') \subseteq (Elements(recycled) \cup cleared) \ {x}
              /\ x \notin waiting
  BY Allocated
<1>2. /\ task[c].pc = "none" /\ post[c].pc = "idle"
      /\ retired' = Keep(retired, Waiting)
      /\ version' = version /\ cached' = cached /\ requests' = requests /\ post' = post
      /\ mapped' = mapped
      /\ live' = live \cup {x}
      /\ task' = [task EXCEPT ![c] = [pc |-> "reserved", slice |-> x]]
  BY <1>1 DEF Allocate, Reserve, vars, tlbVars
<1>3. /\ retired' \in Seq([slice : Slices, mark : Mark])
      /\ Elements(retired') = Waiting /\ Distinct(SliceOf(retired'))
      /\ RetiredSlices' = waiting
      /\ cleared \subseteq RetiredSlices /\ cleared \cap waiting = {}
      /\ waiting \subseteq RetiredSlices
  <2>1. waiting \subseteq RetiredSlices
    BY DEF RetiredSlices, Waiting
  <2>2. /\ retired' \in Seq([slice : Slices, mark : Mark])
        /\ Elements(retired') = Waiting /\ Distinct(SliceOf(retired'))
        /\ cleared \subseteq RetiredSlices /\ cleared \cap waiting = {}
    BY <1>2, Drained
  <2> QED
    BY <2>1, <2>2 DEF RetiredSlices
<1>4. \A s \in cleared : \A d \in CPUs : cached[d][s] = Absent
  BY ReadyAbsent
<1>5. task \in [CPUs -> [pc : {"none", "reserved", "retiring"}, slice : Nat]] /\ x \in Nat
  BY <1>1, WindowParts DEF WindowInv, WindowTypeOK
<1>6. /\ task'[c].pc = "reserved" /\ task'[c].slice = x
      /\ \A d \in CPUs : d # c => task'[d] = task[d]
      /\ task' \in [CPUs -> [pc : {"none", "reserved", "retiring"}, slice : Nat]]
  BY <1>2, <1>5
<1> HIDE DEF cleared, waiting
<1>7. IInv'
  BY WindowLog
<1>8. WindowTypeOK'
  BY <1>1, <1>2, <1>3, <1>6 DEF WindowInv, WindowTypeOK
<1>9. Placed'
  <2>1. /\ Elements(recycled) \cap RetiredSlices = {}
        /\ live \cap (Elements(recycled) \cup RetiredSlices) = {}
        /\ mapped \subseteq live
    BY DEF WindowInv, Placed
  <2>2. /\ Elements(recycled') \cap RetiredSlices' = {}
        /\ live' \cap (Elements(recycled') \cup RetiredSlices') = {}
        /\ mapped' \subseteq live'
    BY <1>1, <1>2, <1>3, <2>1
  <2>3. \A s \in live' \cup Elements(recycled') \cup RetiredSlices' : s < frontier'
    <3>1. \A s \in live \cup Elements(recycled) \cup RetiredSlices : s < frontier
      BY DEF WindowInv, Placed
    <3>2. \A s \in live \cup Elements(recycled) \cup RetiredSlices : s \in Slices
      BY RetiredTypes, ElementsAreIn DEF WindowInv, WindowTypeOK, RetiredSlices
    <3>3. \A s \in Slices : s < frontier => s < frontier'
      BY SMTT(40), Z3T(40), <1>1, WindowParts DEF WindowInv, WindowTypeOK, Slices, Pages
    <3> QED
      BY <1>1, <1>2, <1>3, <3>1, <3>2, <3>3
  <2>4. \A d \in CPUs : task[d].pc # "none" => task[d].slice \in live \ mapped
    BY DEF WindowInv, Placed
  <2>5. \A d \in CPUs : task'[d].pc # "none" =>
            IF d = c THEN task'[d].slice = x
            ELSE task'[d] = task[d] /\ task[d].pc # "none" /\ task'[d].slice # x
    BY <1>1, <1>6, <2>4
  <2>6. \A d \in CPUs : task'[d].pc # "none" => task'[d].slice \in live' \ mapped'
    BY SMTT(40), Z3T(40), <1>1, <1>2, <2>1, <2>4, <2>5
  <2>7. \A d, e \in CPUs : \A s \in Slices : Has(d, s)' /\ Has(e, s)' => d = e
    <3>1. \A d, e \in CPUs : \A s \in Slices : Has(d, s) /\ Has(e, s) => d = e
      BY DEF WindowInv, Placed
    <3> QED
      BY <2>5, <3>1 DEF Has
  <2> QED
    BY <1>1, <1>3, <2>2, <2>3, <2>6, <2>7 DEF Placed
<1>10. Seen'
  <2> SUFFICES ASSUME NEW d \in CPUs, NEW s \in Slices, cached[d][s] # Absent
               PROVE  \/ s \in mapped /\ cached[d][s] = version[s]
                      \/ s \notin mapped /\ ~Unseen(s)' /\ cached[d][s] < version[s]
    BY <1>2 DEF Seen
  <2>1. s # x /\ s \notin cleared
    BY <1>1, <1>4
  <2>2. Unseen(s)' => Unseen(s)
    <3>1. s >= frontier' => s >= frontier
      BY SMTT(40), Z3T(40), <1>1, WindowParts
    <3>2. s \in Elements(recycled') => s \in Elements(recycled)
      BY <1>1, <2>1
    <3>3. \A e \in CPUs : task'[e].pc = "reserved" /\ task'[e].slice = s =>
                             task[e].pc = "reserved" /\ task[e].slice = s
      BY <1>6, <2>1
    <3> QED
      BY <3>1, <3>2, <3>3 DEF Unseen
  <2> QED
    BY <2>2 DEF WindowInv, Seen
<1>11. RetiredAsked'
  BY <1>2, <1>3 DEF WindowInv, RetiredAsked, Waiting
<1>12. ASSUME NEW d \in CPUs PROVE Retiring(d)'
  <2>1. CASE d = c
    BY <1>2, <1>6, <2>1 DEF Retiring
  <2>2. CASE d # c
    <3>1. task'[d] = task[d] /\ post'[d] = post[d]
      BY <1>2, <1>6, <2>2
    <3>2. Retiring(d)
      BY DEF WindowInv
    <3> QED
      BY <1>2, <3>1, <3>2, SameRetiring
  <2> QED
    BY <2>1, <2>2
<1> QED
  BY <1>7, <1>8, <1>9, <1>10, <1>11, <1>12 DEF WindowInv

-----------------------------------------------------------------------------
LEMMA WindowInitInv ==
    ASSUME Early = CPUs, WindowInit
    PROVE  WindowInv
<1>1. IInv
  BY InitInv DEF WindowInit
<1>2. /\ frontier = 0 /\ live = {} /\ recycled = <<>> /\ retired = <<>> /\ mapped = {}
      /\ task = [c \in CPUs |-> NoTask]
  BY DEF WindowInit
<1>3. /\ \A c \in CPUs : post[c].pc = "idle" /\ \A p \in Pages : cached[c][p] = Absent
  BY DEF WindowInit, Init, IdlePost
<1>4. Elements(recycled) = {} /\ Elements(retired) = {} /\ RetiredSlices = {}
  BY SMT, Z3T(40), <1>2 DEF Elements, RetiredSlices
<1>5. Distinct(recycled) /\ Distinct(SliceOf(retired))
  BY SMT, Z3T(40), <1>2 DEF Distinct, SliceOf
<1>6. /\ \A c \in CPUs : task[c].pc = "none" /\ task[c].slice \in Nat
      /\ task \in [CPUs -> [pc : {"none", "reserved", "retiring"}, slice : Nat]]
  BY <1>2 DEF NoTask
<1>7. WindowTypeOK
  <2>1. recycled \in Seq(Slices) /\ retired \in Seq([slice : Slices, mark : Mark])
    BY SMT, Z3T(40), <1>2
  <2>2. frontier \in 0 .. PageCount
    BY SMT, Z3T(40), <1>2, PostedLogAssumption
  <2> QED
    BY <1>2, <1>6, <2>1, <2>2 DEF WindowTypeOK
<1>8. Placed
  BY <1>2, <1>4, <1>5, <1>6 DEF Placed, Has
<1>9. Seen /\ RetiredAsked
  BY <1>3, <1>4 DEF Seen, RetiredAsked, Slices
<1>10. \A c \in CPUs : Retiring(c)
  BY <1>3, <1>6 DEF Retiring
<1> QED
  BY <1>1, <1>7, <1>8, <1>9, <1>10 DEF WindowInv

LEMMA WindowNextInv ==
    ASSUME WindowInv, [WindowNext]_allVars
    PROVE  WindowInv'
<1>1. CASE WindowNext
  <2>1. PICK c \in CPUs :
            \/ Allocate(c) \/ FailToBack(c) \/ MapStack(c) \/ Retire(c)
            \/ \E slice \in Slices : DropStack(c, slice) \/ UseStack(c, slice)
            \/ LogStep(c)
    BY <1>1 DEF WindowNext, StackStep
  <2> QED
    BY <2>1, AllocateKeeps, FailToBackKeeps, MapStackKeeps, RetireKeeps, DropStackKeeps,
       UseStackKeeps, LogStepKeeps
<1>2. CASE UNCHANGED allVars
  <2>1. /\ UNCHANGED vars
        /\ UNCHANGED <<frontier, live, recycled, retired, mapped, task>>
    BY <1>2 DEF allVars, windowVars
  <2>2. IInv'
    BY <2>1, NextInv DEF WindowInv
  <2>3. UNCHANGED <<version, cached, requests, post>>
    BY <2>1 DEF vars, tlbVars
  <2>4. WindowTypeOK' /\ RetiredAsked'
    BY <2>1, <2>3 DEF WindowInv, WindowTypeOK, RetiredAsked
  <2>5. Placed'
    BY <2>1 DEF WindowInv, Placed, RetiredSlices, Has
  <2>6. Seen'
    BY <2>1, <2>3 DEF WindowInv, Seen, Unseen
  <2>7. \A c \in CPUs : Retiring(c)'
    BY <2>1, <2>3 DEF WindowInv, Retiring
  <2> QED
    BY <2>2, <2>4, <2>5, <2>6, <2>7 DEF WindowInv
<1> QED
  BY <1>1, <1>2

(* The lists stay well formed: whatever the order of allocations, drops and   *)
(* retirements, a slice is in one of the window's places at a time.           *)
THEOREM SlicesArePlaced ==
    ASSUME Early = CPUs
    PROVE  WindowSpec => [](WindowTypeOK /\ Placed)
<1>1. WindowInit => WindowInv
  BY WindowInitInv
<1>2. WindowInv /\ [WindowNext]_allVars => WindowInv'
  BY WindowNextInv
<1>3. WindowInv => WindowTypeOK /\ Placed
  BY DEF WindowInv
<1> QED
  BY <1>1, <1>2, <1>3, PTL DEF WindowSpec

(* No CPU sees a stack through the mapping of an earlier one at its address,  *)
(* for any number of CPUs, slices, log slots and stacks made and dropped.      *)
THEOREM StacksAreFresh ==
    ASSUME Early = CPUs
    PROVE  WindowSpec => []FreshStacks
<1>1. WindowInit => WindowInv
  BY WindowInitInv
<1>2. WindowInv /\ [WindowNext]_allVars => WindowInv'
  BY WindowNextInv
<1>3. WindowInv => FreshStacks
  <2> SUFFICES ASSUME WindowInv, NEW s \in mapped, NEW c \in online PROVE ~Stale(c, s)
    BY DEF FreshStacks
  <2>1. c \in CPUs /\ s \in Slices
    BY DEF WindowInv, WindowTypeOK, IInv, AllOnline
  <2> QED
    BY <2>1 DEF WindowInv, Seen, Stale
<1> QED
  BY <1>1, <1>2, <1>3, PTL DEF WindowSpec
=============================================================================
