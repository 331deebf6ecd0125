--------------------------- MODULE DropOldestFifo ---------------------------
(* What a ring buffer promises its users (sockets, terminal, input devices): *)
(* a queue of bytes whose calls are atomic, and which makes room for new     *)
(* bytes by dropping its oldest.                                             *)
EXTENDS Integers, Sequences

CONSTANTS Byte, Capacity, MaxLen

VARIABLES
    q,     \* the bytes in the queue, oldest first
    in,    \* what the last write was called with
    out    \* what the last read returned

vars == <<q, in, out>>

Least(a, b) == IF a <= b THEN a ELSE b
Newest(s, n) == SubSeq(s, Len(s) - Least(n, Len(s)) + 1, Len(s))
Lists == UNION {[1 .. n -> Byte] : n \in 1 .. MaxLen}

Init == q = <<>> /\ in = <<>> /\ out = <<>>

Write(data) ==
    /\ q' = Newest(q \o data, Capacity)
    /\ in' = data
    /\ UNCHANGED out

Read(len) ==
    /\ out' = SubSeq(q, 1, Least(len, Len(q)))
    /\ q' = SubSeq(q, Least(len, Len(q)) + 1, Len(q))
    /\ UNCHANGED in

Clear == q' = <<>> /\ UNCHANGED <<in, out>>

Next ==
    \/ \E data \in Lists : Write(data)
    \/ \E len \in 1 .. MaxLen : Read(len)
    \/ Clear

Spec == Init /\ [][Next]_vars
=============================================================================
