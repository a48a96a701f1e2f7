----------------------------- MODULE MCSimpleFS -----------------------------
(* Small volumes for TLC: two threads, one file each, three data blocks or two. *)
EXTENDS SimpleFS

Own == [w1 |-> {"a"}, w2 |-> {"b"}]

Plain == [blocks |-> 3, format |-> 2, ops |-> 4, crashes |-> 0, errors |-> 0, tears |-> FALSE, online |-> FALSE]
Formats(m) == {[m EXCEPT !.format = f] : f \in {2, 3}}

(* Two crashes; one crash that may tear a superblock, and two of them; a      *)
(* write error and a crash; a volume check beside writers; a full volume; a   *)
(* longer life without faults.                                                *)
Volumes ==
    Formats([Plain EXCEPT !.crashes = 2])
    \cup Formats([Plain EXCEPT !.crashes = 1, !.tears = TRUE])
    \cup Formats([Plain EXCEPT !.crashes = 1, !.errors = 1])
    \cup {[Plain EXCEPT !.format = 3, !.ops = 5, !.online = TRUE],
          [Plain EXCEPT !.ops = 2, !.crashes = 2, !.tears = TRUE],
          [Plain EXCEPT !.blocks = 2, !.crashes = 1],
          [Plain EXCEPT !.ops = 6]}

Quiet == {Plain}
Long == {[Plain EXCEPT !.ops = 6]}
Checked == {[Plain EXCEPT !.ops = 6, !.online = TRUE]}
FailingV2 == {[Plain EXCEPT !.errors = 1]}
=============================================================================
