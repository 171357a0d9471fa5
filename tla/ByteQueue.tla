----------------------------- MODULE ByteQueue ------------------------------
(***************************************************************************)
(* What a pipe promises: bytes come out once, in the order they went in,   *)
(* and at most Limit of them are on the way.  Byte number k is the k-th    *)
(* byte the pipe accepted.                                                 *)
(***************************************************************************)
EXTENDS Naturals, Sequences

CONSTANT Limit

VARIABLES
    sent,      \* number of bytes accepted
    queue,     \* the bytes on the way, oldest first
    received   \* the bytes handed to the reader

vars == <<sent, queue, received>>

Init == sent = 0 /\ queue = <<>> /\ received = <<>>

Put ==
    \E n \in 1 .. Limit - Len(queue) :
      /\ sent' = sent + n
      /\ queue' = queue \o [i \in 1 .. n |-> sent + i]
      /\ UNCHANGED received

Take ==
    \E n \in 1 .. Len(queue) :
      /\ received' = received \o SubSeq(queue, 1, n)
      /\ queue' = SubSeq(queue, n + 1, Len(queue))
      /\ UNCHANGED sent

Next == Put \/ Take

Spec == Init /\ [][Next]_vars

=============================================================================
