----------------------------- MODULE StackWindow -----------------------------
(***************************************************************************)
(* The kernel's stack window (src/kernel/process/thread/stack_window.rs and *)
(* kernel_stack.rs) over the posted log: addresses come from a frontier,    *)
(* go through a retirement queue when a stack is dropped, and are handed    *)
(* out again when all_cpus_flushed says no CPU can hold a translation.      *)
(* A slice is one page of the log's model; all stacks have one shape.       *)
(* Frames are not followed: a fresh version stands for a fresh mapping.     *)
(***************************************************************************)
EXTENDS PostedLog, Sublists

VARIABLES frontier,     \* next: slices below it have been handed out once
          live,         \* slices that are out
          recycled,     \* retired slices that were cleared
          retired,      \* retired slices still waiting, with their marks
          mapped,       \* slices whose pages are mapped
          task          \* per CPU: the stack operation in progress

windowVars == <<frontier, live, recycled, retired, mapped, task>>
allVars == <<vars, windowVars>>

Slices == Pages
NoTask == [pc |-> "none", slice |-> 0]

WindowInit ==
    /\ Init
    /\ frontier = 0 /\ live = {} /\ recycled = <<>> /\ retired = <<>>
    /\ mapped = {} /\ task = [c \in CPUs |-> NoTask]

(* The retired slices that all_cpus_flushed clears, and the others. *)
Ready == {r \in Elements(retired) : AllFlushed(r.mark, OnlineCount)}
Waiting == Elements(retired) \ Ready

SliceOf(entries) == [i \in DOMAIN entries |-> entries[i].slice]

(* Vec::swap_remove(0): the last one takes the place of the first. *)
SwapRemoveFirst(s) ==
    IF Len(s) = 1 THEN <<>> ELSE <<s[Len(s)]>> \o SubSeq(s, 2, Len(s) - 1)

Reserve(c, slice) ==
    /\ live' = live \cup {slice}
    /\ task' = [task EXCEPT ![c] = [pc |-> "reserved", slice |-> slice]]

(* Variant: a retired slice is recycled without asking about its mark. *)
AllocateAtOnce(c) ==
    LET ready == recycled \o SliceOf(retired)
    IN  /\ Thread(c) /\ c \in Editors /\ task[c].pc = "none" /\ post[c].pc = "idle"
        /\ retired' = <<>>
        /\ \/ /\ ready # <<>>
              /\ Reserve(c, ready[1])
              /\ recycled' = SwapRemoveFirst(ready)
              /\ UNCHANGED frontier
           \/ /\ ready = <<>> /\ frontier < PageCount
              /\ Reserve(c, frontier)
              /\ frontier' = frontier + 1
              /\ UNCHANGED recycled
        /\ UNCHANGED <<vars, mapped>>

(* StackWindow::allocate: drain what is ready, then take the first recycled *)
(* slice or one from the frontier.  With neither, nothing changes and the   *)
(* stack comes from elsewhere.                                             *)
Allocate(c) ==
    LET ready == recycled \o SliceOf(Keep(retired, Ready))
    IN  /\ Thread(c) /\ c \in Editors /\ task[c].pc = "none" /\ post[c].pc = "idle"
        /\ retired' = Keep(retired, Waiting)
        /\ \/ /\ ready # <<>>
              /\ Reserve(c, ready[1])
              /\ recycled' = SwapRemoveFirst(ready)
              /\ UNCHANGED frontier
           \/ /\ ready = <<>> /\ frontier < PageCount
              /\ Reserve(c, frontier)
              /\ frontier' = frontier + 1
              /\ recycled' = ready
        /\ UNCHANGED <<vars, mapped>>

(* KernelStack::new: map the pages, dropping only this CPU's translations. *)
MapStack(c) ==
    LET slice == task[c].slice
    IN  /\ Thread(c) /\ task[c].pc = "reserved"
        /\ version' = [version EXCEPT ![slice] = @ + 1]
        /\ cached' = Dropping(c, {slice})
        /\ mapped' = mapped \cup {slice}
        /\ task' = [task EXCEPT ![c] = NoTask]
        /\ UNCHANGED <<logVars, bootVars, post, walk, edits, requests>>
        /\ UNCHANGED <<frontier, live, recycled, retired>>

(* KernelStack::new without frames: the reservation is retired unbacked.    *)
FailToBack(c) ==
    LET slice == task[c].slice
    IN  /\ Thread(c) /\ task[c].pc = "reserved" /\ edits < MaxEdits
        /\ edits' = edits + 1
        /\ task' = [task EXCEPT ![c] = [pc |-> "retiring", slice |-> slice]]
        /\ post' = [post EXCEPT ![c] =
              [pc |-> "edited", start |-> slice, end |-> slice + 1, count |-> 0,
               seen |-> [p \in Pages |-> IF p = slice THEN version[p] ELSE 0],
               mark |-> NoMark]]
        /\ UNCHANGED <<logVars, tlbVars, bootVars, walk, requests>>
        /\ UNCHANGED <<frontier, live, recycled, retired, mapped>>

(* Drop of a KernelStack: unmap its pages, dropping this CPU's translations, *)
(* and go on to post_range_invalidation.                                    *)
DropStack(c, slice) ==
    /\ task[c].pc = "none"
    /\ slice \in mapped /\ \A d \in CPUs : task[d].pc = "none" \/ task[d].slice # slice
    /\ EditPages(c, slice, slice + 1)
    /\ mapped' = mapped \ {slice}
    /\ task' = [task EXCEPT ![c] = [pc |-> "retiring", slice |-> slice]]
    /\ UNCHANGED <<logVars, bootVars, walk, requests>>
    /\ UNCHANGED <<frontier, live, recycled, retired>>

(* retire, with the mark post answered.  Only a slice that is out is taken. *)
Retire(c) ==
    LET slice == task[c].slice
    IN  /\ Thread(c) /\ task[c].pc = "retiring" /\ post[c].pc = "answered"
        /\ slice \in live
        /\ live' = live \ {slice}
        /\ retired' = Append(retired, [slice |-> slice, mark |-> post[c].mark])
        /\ post' = [post EXCEPT ![c] = IdlePost]
        /\ task' = [task EXCEPT ![c] = NoTask]
        /\ UNCHANGED <<logVars, tlbVars, bootVars, walk, edits, requests>>
        /\ UNCHANGED <<frontier, recycled, mapped>>

-----------------------------------------------------------------------------
(* The log's own steps leave the window alone. *)
LogStep(c) ==
    /\ Posting(c) \/ CatchUp(c) \/ Walking(c)
    /\ UNCHANGED windowVars

UseStack(c, slice) == slice \in mapped /\ Touch(c, slice) /\ UNCHANGED windowVars

StackStep(c) == MapStack(c) \/ Retire(c)

WindowNext ==
    \E c \in CPUs :
        \/ Allocate(c) \/ FailToBack(c) \/ StackStep(c)
        \/ \E slice \in Slices : DropStack(c, slice) \/ UseStack(c, slice)
        \/ LogStep(c)

WindowSpec == WindowInit /\ [][WindowNext]_allVars

FairWindowSpec ==
    WindowSpec /\ \A c \in CPUs :
        /\ SF_allVars((Posting(c) /\ UNCHANGED windowVars) \/ StackStep(c))
        /\ WF_allVars(Walking(c) /\ UNCHANGED windowVars)
        /\ SF_allVars(CatchUp(c) /\ UNCHANGED windowVars)

-----------------------------------------------------------------------------
(* Type correctness of the window's lists and of the operations in progress. *)
WindowTypeOK ==
    /\ frontier \in 0 .. PageCount
    /\ live \subseteq Slices /\ mapped \subseteq Slices
    /\ recycled \in Seq(Slices)
    /\ retired \in Seq([slice : Slices, mark : Mark])
    /\ task \in [CPUs -> [pc : {"none", "reserved", "retiring"}, slice : Nat]]

(* A stack is never seen through an old mapping: "a stale TLB entry would    *)
(* shadow the new mapping with the old frame" is what the retirement is for. *)
FreshStacks ==
    \A slice \in mapped, c \in online : ~Stale(c, slice)

(* A dropped stack's address can be handed out again some time: the grace     *)
(* predicate does become true.                                              *)
Waits(slice) == \E r \in Waiting : r.slice = slice
SlicesComeBack ==
    \A slice \in Slices : Waits(slice) ~> ~Waits(slice)
=============================================================================
