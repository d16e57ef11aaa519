----------------------------- MODULE ByteQueue -----------------------------
(***************************************************************************)
(* What the rest of the library expects of a buffer: a queue of bytes.     *)
(* Bytes are put at its end, now and then inside it, and taken from its    *)
(* front in order, as many as the caller asked.  An operation that cannot  *)
(* be done changes nothing.                                                *)
(***************************************************************************)
EXTENDS Integers, Sequences

CONSTANTS
    Texts,  \* the pieces of data that are put, sequences of bytes
    Lossy   \* whether a take of at least half the queue discards the rest

VARIABLES
    queue,  \* the bytes held
    op      \* history: the last operation and what its caller asked for

vars == <<queue, op>>

(* An operation with the data handed over and the offset named.            *)
Asked(name, piece, at) == [name |-> name, piece |-> piece, at |-> at]

Init == queue = <<>> /\ op = Asked("clear", <<>>, 0)

Clear == queue' = <<>> /\ op' = Asked("clear", <<>>, 0)

Put == \E d \in Texts : queue' = queue \o d /\ op' = Asked("put", d, 0)

Insert ==
    \E d \in Texts, at \in 0 .. Len(queue) :
        /\ queue' = SubSeq(queue, 1, at) \o d \o SubSeq(queue, at + 1, Len(queue))
        /\ op' = Asked("insert", d, at)

Take ==
    \E k \in 0 .. Len(queue) :
        /\ queue' = SubSeq(queue, k + 1, Len(queue))
        /\ op' = Asked("take", <<>>, k)

(* A take of some of the bytes, but not fewer than remain, loses the rest. *)
Discard ==
    /\ Lossy
    /\ \E k \in 1 .. Len(queue) - 1 :
          /\ k >= Len(queue) - k
          /\ queue' = <<>>
          /\ op' = Asked("take", <<>>, k)

Refuse == queue' = queue /\ op' = Asked("refuse", <<>>, 0)

Next == Clear \/ Put \/ Insert \/ Take \/ Discard \/ Refuse

Spec == Init /\ [][Next]_vars
=============================================================================
