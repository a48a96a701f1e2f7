----------------------------- MODULE ByteStream -----------------------------
(***************************************************************************)
(* What a pipe promises: a stream of bytes that come out in the order they *)
(* went in, each exactly once, however the buffer behind it is laid out,   *)
(* resized, or shared between readers and writers.  This is the abstract   *)
(* specification Pipe is shown to implement.                               *)
(***************************************************************************)
EXTENDS Integers, Sequences

CONSTANT Modulus    \* bytes are numbered 0, 1, .. modulo this as they are written

VARIABLES stream,   \* bytes written and not yet read, oldest first
          sent,     \* number of the next byte to be written
          taken     \* the bytes the latest read returned

streamVars == <<stream, sent, taken>>

StreamInit == stream = <<>> /\ sent = 0 /\ taken = <<>>

(* A write appends the next bytes of the numbering. *)
Put ==
    \E n \in 1 .. Len(stream') :
        /\ stream' = stream \o [i \in 1 .. n |-> (sent + i - 1) % Modulus]
        /\ sent' = (sent + n) % Modulus
        /\ UNCHANGED taken

(* A read takes a non-empty prefix. *)
Take ==
    \E n \in 1 .. Len(stream) :
        /\ taken' = SubSeq(stream, 1, n)
        /\ stream' = SubSeq(stream, n + 1, Len(stream))
        /\ UNCHANGED sent

StreamNext == Put \/ Take

StreamSpec == StreamInit /\ [][StreamNext]_streamVars
=============================================================================
