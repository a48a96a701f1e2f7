---------------------------- MODULE MCPostedLog ----------------------------
(***************************************************************************)
(* Instances of PostedLog for TLC: rings of one or two slots, so that they *)
(* wrap and fill, and two or three CPUs.  Bring-up runs begin with one or   *)
(* two CPUs registered and the boot CPU's thread starting the next.        *)
(***************************************************************************)
EXTENDS PostedLog

Boot == {0}
Pair == {0, 1}
Trio == {0, 1, 2}
Gap == {0, 2}
SecondOnly == {1}
ThirdOnly == {2}
Nobody == {}
=============================================================================
