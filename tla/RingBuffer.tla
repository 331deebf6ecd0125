----------------------------- MODULE RingBuffer -----------------------------
(***************************************************************************)
(* krnl/util/ring_buffer.c.  A call copies byte by byte; one iteration of  *)
(* its loop is one step.  Calls on one buffer do not overlap here: system  *)
(* calls and interrupt handlers run with interrupts disabled, and a        *)
(* kernel thread is taken not to be interrupted inside a call.             *)
(***************************************************************************)
EXTENDS Integers, Sequences

CONSTANTS
    Byte,
    Capacity,    \* the size asked for, rounded up to whole pages
    MaxLen       \* bound: bytes in one call

ASSUME RingConstants == Capacity \in Nat \ {0} /\ MaxLen \in Nat

VARIABLES
    buffer, head, tail, count,     \* ring_buffer_t
    op,                            \* the call in progress, if any
    given,                         \* the bytes the last write was called with
    rest,                          \* the bytes a write has still to copy
    left,                          \* how many bytes a read still wants
    data                           \* what the last read has copied out

vars == <<buffer, head, tail, count, op, given, rest, left, data>>

Index == 0 .. Capacity - 1
Lists == UNION {[1 .. n -> Byte] : n \in 1 .. MaxLen}
Least(a, b) == IF a <= b THEN a ELSE b

(* ring_buffer_init: a fresh page holds anything *)
Init ==
    /\ buffer \in [Index -> Byte]
    /\ head = 0 /\ tail = 0 /\ count = 0
    /\ op = "idle" /\ given = <<>> /\ rest = <<>> /\ left = 0 /\ data = <<>>

(* mutant: the index runs past the end of the buffer *)
Advance_NoWrap(i) == i + 1

Advance(i) == (i + 1) % Capacity

(* mutant: a write that is too long keeps its first bytes *)
Trimmed_First(d) == SubSeq(d, 1, Least(Len(d), Capacity))

(* of more bytes than fit the last ones are kept *)
Trimmed(d) == SubSeq(d, Len(d) - Least(Len(d), Capacity) + 1, Len(d))

ring_buffer_write(d) ==
    /\ op = "idle" /\ d # <<>>
    /\ op' = "write" /\ given' = d /\ rest' = Trimmed(d)
    /\ UNCHANGED <<buffer, head, tail, count, left, data>>

(* mutant: a full buffer does not give up its oldest byte *)
TailAfterWrite_Stays == tail

TailAfterWrite == IF count < Capacity THEN tail ELSE Advance(tail)

WriteByte ==
    /\ op = "write"
    /\ buffer' = [buffer EXCEPT ![head] = Head(rest)]
    /\ head' = Advance(head)
    /\ count' = IF count < Capacity THEN count + 1 ELSE count
    /\ tail' = TailAfterWrite
    /\ rest' = Tail(rest)
    /\ op' = IF Len(rest) = 1 THEN "idle" ELSE "write"
    /\ UNCHANGED <<given, left, data>>

ring_buffer_read(len) ==
    /\ op = "idle" /\ len > 0
    /\ data' = <<>>
    /\ IF count = 0 THEN UNCHANGED <<op, left>>
       ELSE op' = "read" /\ left' = len
    /\ UNCHANGED <<buffer, head, tail, count, given, rest>>

ReadByte ==
    /\ op = "read"
    /\ data' = Append(data, buffer[tail])
    /\ tail' = Advance(tail)
    /\ count' = count - 1
    /\ left' = left - 1
    /\ op' = IF left = 1 \/ count = 1 THEN "idle" ELSE "read"
    /\ UNCHANGED <<buffer, head, given, rest>>

ring_buffer_clear ==
    /\ op = "idle"
    /\ head' = 0 /\ tail' = 0 /\ count' = 0
    /\ UNCHANGED <<buffer, op, given, rest, left, data>>

Next ==
    \/ \E d \in Lists : ring_buffer_write(d)
    \/ WriteByte
    \/ \E len \in 1 .. MaxLen : ring_buffer_read(len)
    \/ ReadByte
    \/ ring_buffer_clear

Spec == Init /\ [][Next]_vars

-----------------------------------------------------------------------------
(* Types of ring_buffer_t and of the locals of its calls: the indices stay   *)
(* inside the buffer and count within its capacity.                          *)
TypeOK ==
    /\ buffer \in [Index -> Byte]
    /\ head \in Index /\ tail \in Index /\ count \in 0 .. Capacity
    /\ op \in {"idle", "write", "read"}
    /\ given \in Seq(Byte) /\ rest \in Seq(Byte) /\ left \in 0 .. MaxLen /\ data \in Seq(Byte)

(* head, tail and count are redundant and never disagree, over any sequence  *)
(* of wraps, overwrites and partial reads; a call in progress has work left. *)
IndicesAgree ==
    /\ head = (tail + count) % Capacity
    /\ op = "write" => rest # <<>>
    /\ op = "read" => left > 0 /\ count > 0

-----------------------------------------------------------------------------
contents == [i \in 1 .. count |-> buffer[(tail + i - 1) % Capacity]]
wanted == Least(left, count)
Newest(s) == SubSeq(s, Len(s) - Least(Capacity, Len(s)) + 1, Len(s))

(* the queue as the users of a finished call see it *)
queue ==
    CASE op = "write" -> Newest(contents \o rest)
      [] op = "read" -> SubSeq(contents, wanted + 1, count)
      [] OTHER -> contents

result == IF op = "read" THEN data \o SubSeq(contents, 1, wanted) ELSE data

Fifo == INSTANCE DropOldestFifo WITH q <- queue, in <- given, out <- result

(* The byte loops over a circular array implement the queue with atomic      *)
(* calls: a write appends and drops the oldest bytes of all, a read takes    *)
(* the oldest in order, also when a call is longer than the buffer.          *)
ImplementsFifo == Fifo!Spec
=============================================================================
