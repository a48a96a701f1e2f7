---------------------------- MODULE MCBlockCache ----------------------------
(* Uses of the block cache for TLC.                                        *)
EXTENDS BlockCache, TLC

CONSTANTS t1, t2

Use(one, two, blocks) ==
  [does |-> (t1 :> one @@ t2 :> two), blocks |-> blocks, together |-> {},
   writes |-> [b \in Blocks |-> IF b = 0 THEN 2 ELSE 1],
   readAhead |-> 0, failures |-> 0, timeouts |-> 0]

\* FAT32 and exFAT: every call under the volume's lock, with more blocks than
\* slots, on a device that may fail any request.
Locked == [Use({"back", "flush"}, {"read"}, Blocks) EXCEPT !.failures = 1]

\* Deferred and immediate writes of one cache, as ext4 mixes them, while one
\* thread at a time uses the volume.
Mixed == [Use({"back", "through", "flush"}, {"read", "cached"}, Blocks) EXCEPT !.failures = 1]

\* Reads and flushes of two callers overlap while nobody writes, and the blocks
\* fit into the pool.
Alongside == [Use({"back", "flush"}, {"read", "flush"}, {0, 1}) EXCEPT !.together = {"read", "flush"},
                                                                     !.writes = [b \in Blocks |-> 1]]

\* A device that outlasts the flush's patience, and no block written twice.
Slow == [Locked EXCEPT !.blocks = {0, 1}, !.writes = [b \in Blocks |-> 1], !.failures = 0, !.timeouts = 1]

\* SimpleFs alone on its volume: read-ahead and write_blocks_cached.
Ahead == [Use({"read", "cached"}, {}, Blocks) EXCEPT !.readAhead = 1]

Orderly == {Locked, Mixed, Alongside, Slow, Ahead}

VolumeEnd == {Ahead}

\* SimpleFs's readers hold no lock that its writer takes.
Readers == {[Use({"cached"}, {"read"}, {0, 1}) EXCEPT !.together = Ops]}

\* An ext4 volume written and synchronised by two callers.
Rewriting == {[Use({"flush"}, {"back"}, {0}) EXCEPT !.together = Ops]}

LosingEvictions == {Locked}

LateWrites == {[Locked EXCEPT !.timeouts = 1]}

\* Two callers that miss while every slot is dirty.
TwoEvictions == {[Use({"back"}, {"back"}, Blocks) EXCEPT !.together = Ops]}
=============================================================================
