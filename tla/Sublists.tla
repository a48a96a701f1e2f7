------------------------------- MODULE Sublists -------------------------------
(***************************************************************************)
(* Filtering a list by a set.  Keep is SelectSeq with a set in place of a   *)
(* test, written out so that its properties can be proved (SublistLemmas).  *)
(***************************************************************************)
EXTENDS Integers, Sequences

(* The elements of s that are in T, in their order. *)
Keep(s, T) ==
    LET kept[i \in 0 .. Len(s)] ==
            IF i = 0 THEN <<>>
            ELSE IF s[i] \in T THEN Append(kept[i - 1], s[i]) ELSE kept[i - 1]
    IN  kept[Len(s)]

Elements(s) == {s[i] : i \in 1 .. Len(s)}

Distinct(s) == \A i, j \in 1 .. Len(s) : s[i] = s[j] => i = j
=============================================================================
