-------------------------- MODULE RingBufferProofs --------------------------
(***************************************************************************)
(* Proofs about RingBuffer, for any capacity, any alphabet and calls of    *)
(* any length: the indices of the circular array never disagree, and the   *)
(* byte loops implement the queue of DropOldestFifo.                       *)
(***************************************************************************)
EXTENDS RingBuffer, TLAPS, SequenceTheorems

-----------------------------------------------------------------------------
(* Indices modulo the capacity. *)

Wrap(a) == IF a < Capacity THEN a ELSE a - Capacity

(* the remainder of a number less than two capacities *)
LEMMA Remainder ==
    ASSUME NEW n \in Nat \ {0}, NEW a \in 0 .. n + n - 1
    PROVE  a % n = IF a < n THEN a ELSE a - n
  OBVIOUS

(* the same for the capacity of the buffer *)
LEMMA WrapIsMod ==
    ASSUME NEW a \in Nat, a < Capacity + Capacity
    PROVE  a % Capacity = Wrap(a)
  <1>1. Capacity \in Nat \ {0} /\ a \in 0 .. Capacity + Capacity - 1
    BY RingConstants
  <1>2. QED
    BY <1>1, Remainder DEF Wrap

(* the step of an index *)
LEMMA AdvanceWraps ==
    ASSUME NEW i \in Index
    PROVE  Advance(i) = Wrap(i + 1)
  <1> DEFINE a == i + 1
  <1>1. a \in Nat /\ a < Capacity + Capacity
    BY RingConstants DEF Index
  <1> HIDE DEF a
  <1>2. a % Capacity = Wrap(a)
    BY <1>1, WrapIsMod
  <1>3. QED
    BY <1>2 DEF Advance, a

(* head lies count places after tail *)
LEMMA HeadWraps ==
    ASSUME NEW t \in Index, NEW c \in 0 .. Capacity
    PROVE  (t + c) % Capacity = Wrap(t + c)
  <1> DEFINE a == t + c
  <1>1. a \in Nat /\ a < Capacity + Capacity
    BY RingConstants DEF Index
  <1> HIDE DEF a
  <1>2. a % Capacity = Wrap(a)
    BY <1>1, WrapIsMod
  <1>3. QED
    BY <1>2 DEF a

-----------------------------------------------------------------------------
(* The bytes in the buffer, and the bytes a call carries, as sequences. *)

ContentsOf(b, t, c) == [i \in 1 .. c |-> b[(t + i - 1) % Capacity]]

(* the count bytes from tail on *)
LEMMA ContentsBytes ==
    ASSUME NEW b \in [Index -> Byte], NEW t \in Index, NEW c \in 0 .. Capacity
    PROVE  /\ ContentsOf(b, t, c) \in Seq(Byte)
           /\ Len(ContentsOf(b, t, c)) = c
           /\ \A i \in 1 .. c : ContentsOf(b, t, c)[i] = b[Wrap(t + i - 1)]
  <1>1. ASSUME NEW i \in 1 .. c
        PROVE  (t + i - 1) % Capacity = Wrap(t + i - 1) /\ Wrap(t + i - 1) \in Index
    <2> DEFINE a == t + i - 1
    <2>1. a \in Nat /\ a < Capacity + Capacity
      BY RingConstants DEF Index
    <2> HIDE DEF a
    <2>2. a % Capacity = Wrap(a)
      BY <2>1, WrapIsMod
    <2>3. Wrap(a) \in Index
      BY <2>1, RingConstants DEF Wrap, Index
    <2>4. QED
      BY <2>2, <2>3, Zenon DEF a
  <1>2. \A i \in 1 .. c : /\ ContentsOf(b, t, c)[i] = b[Wrap(t + i - 1)]
                          /\ ContentsOf(b, t, c)[i] \in Byte
    BY <1>1 DEF ContentsOf
  <1>3. ContentsOf(b, t, c) \in [1 .. c -> Byte]
    BY <1>2 DEF ContentsOf
  <1>4. c \in Nat
    BY RingConstants
  <1>5. QED
    BY <1>2, <1>3, <1>4

(* a write is called with a sequence of bytes *)
LEMMA ListsAreSequences == Lists \subseteq Seq(Byte)
  BY RingConstants DEF Lists

-----------------------------------------------------------------------------
(* The last Capacity bytes of a sequence. *)

(* a short sequence is all kept *)
LEMMA NewestShort ==
    ASSUME NEW s \in Seq(Byte), Len(s) <= Capacity
    PROVE  Newest(s) = s
  <1>1. Least(Capacity, Len(s)) = Len(s)
    BY RingConstants DEF Least
  <1>2. Newest(s) = SubSeq(s, 1, Len(s))
    BY <1>1 DEF Newest
  <1>3. QED
    BY <1>2, SubSeqFull

(* of a long one the end *)
LEMMA NewestLong ==
    ASSUME NEW s \in Seq(Byte), Len(s) >= Capacity
    PROVE  /\ Newest(s) \in Seq(Byte) /\ Len(Newest(s)) = Capacity
           /\ \A i \in 1 .. Capacity : Newest(s)[i] = s[Len(s) - Capacity + i]
  <1>1. Least(Capacity, Len(s)) = Capacity
    BY RingConstants DEF Least
  <1>2. Newest(s) = SubSeq(s, Len(s) - Capacity + 1, Len(s))
    BY <1>1 DEF Newest
  <1>3. QED
    BY <1>2, RingConstants

(* of which the first byte does not matter *)
LEMMA NewestTail ==
    ASSUME NEW s \in Seq(Byte), Len(s) > Capacity
    PROVE  Newest(Tail(s)) = Newest(s)
  <1> DEFINE u == Tail(s)
  <1>1. /\ u \in Seq(Byte) /\ Len(u) = Len(s) - 1
        /\ \A i \in 1 .. Len(s) - 1 : u[i] = s[i + 1]
    BY RingConstants, HeadTailProperties
  <1> HIDE DEF u
  <1>2. Len(u) >= Capacity
    BY <1>1, RingConstants
  <1>3. /\ Newest(u) \in Seq(Byte) /\ Len(Newest(u)) = Capacity
        /\ \A i \in 1 .. Capacity : Newest(u)[i] = u[Len(u) - Capacity + i]
    BY <1>1, <1>2, NewestLong
  <1>4. /\ Newest(s) \in Seq(Byte) /\ Len(Newest(s)) = Capacity
        /\ \A i \in 1 .. Capacity : Newest(s)[i] = s[Len(s) - Capacity + i]
    BY NewestLong, RingConstants
  <1>5. ASSUME NEW i \in 1 .. Capacity
        PROVE  Newest(u)[i] = Newest(s)[i]
    <2> DEFINE k == Len(u) - Capacity + i
    <2>1. k \in 1 .. Len(s) - 1 /\ k + 1 = Len(s) - Capacity + i
      BY <1>1, <1>2, RingConstants
    <2>2. Newest(u)[i] = u[k]
      BY <1>3
    <2> HIDE DEF k
    <2>3. u[k] = s[k + 1]
      BY <1>1, <2>1
    <2>4. QED
      BY <1>4, <2>1, <2>2, <2>3
  <1>6. QED
    BY <1>3, <1>4, <1>5, SeqEqual DEF u

(* the bytes a write keeps are the last ones that fit *)
LEMMA TrimmedIsNewest ==
    ASSUME NEW d \in Seq(Byte)
    PROVE  Trimmed(d) = Newest(d)
  <1>1. Least(Len(d), Capacity) = Least(Capacity, Len(d))
    BY RingConstants DEF Least
  <1>2. QED
    BY <1>1 DEF Trimmed, Newest

(* of some bytes some are kept *)
LEMMA TrimmedBytes ==
    ASSUME NEW d \in Seq(Byte), d # <<>>
    PROVE  Trimmed(d) \in Seq(Byte) /\ Trimmed(d) # <<>>
  <1>1. CASE Len(d) <= Capacity
    BY <1>1, TrimmedIsNewest, NewestShort
  <1>2. CASE Len(d) >= Capacity
    <2>1. Trimmed(d) \in Seq(Byte) /\ Len(Trimmed(d)) = Capacity
      BY <1>2, TrimmedIsNewest, NewestLong
    <2>2. QED
      BY <2>1, RingConstants
  <1>3. QED
    BY <1>1, <1>2, RingConstants

-----------------------------------------------------------------------------
(* The invariant: TypeOK and IndicesAgree together are inductive. *)

IInv == TypeOK /\ IndicesAgree

(* a fresh buffer *)
LEMMA InitIInv == Init => IInv
  <1> SUFFICES ASSUME Init PROVE IInv
    OBVIOUS
  <1>1. TypeOK
    BY RingConstants DEF Init, TypeOK, Index
  <1>2. head = (tail + count) % Capacity
    BY <1>1, HeadWraps, RingConstants DEF Init, TypeOK, Wrap
  <1>3. QED
    BY <1>1, <1>2 DEF Init, IInv, IndicesAgree

(* one iteration of the loop of ring_buffer_write *)
LEMMA WriteByteKeeps == IInv /\ WriteByte => IInv'
  <1> SUFFICES ASSUME IInv, WriteByte PROVE IInv'
    OBVIOUS
  <1>1. /\ head \in Index /\ tail \in Index /\ count \in 0 .. Capacity
        /\ rest \in Seq(Byte) /\ rest # <<>>
        /\ head = Wrap(tail + count)
    BY HeadWraps DEF IInv, TypeOK, IndicesAgree, WriteByte
  <1>2. /\ head' = Wrap(head + 1)
        /\ count' = IF count < Capacity THEN count + 1 ELSE count
        /\ tail' = IF count < Capacity THEN tail ELSE Wrap(tail + 1)
    BY <1>1, AdvanceWraps DEF WriteByte, TailAfterWrite
  <1>3. /\ head' \in Index /\ tail' \in Index /\ count' \in 0 .. Capacity
        /\ head' = Wrap(tail' + count')
    BY <1>1, <1>2, RingConstants DEF Wrap, Index
  <1>4. head' = (tail' + count') % Capacity
    BY <1>3, HeadWraps
  <1>5. /\ rest' \in Seq(Byte) /\ op' \in {"idle", "write"}
        /\ op' = "write" => rest' # <<>>
    <2>1. Tail(rest) \in Seq(Byte) /\ Len(Tail(rest)) = Len(rest) - 1 /\ Len(rest) \in Nat
      BY <1>1
    <2>2. Len(rest) # 1 => Tail(rest) # <<>>
      BY <1>1, <2>1
    <2>3. QED
      BY <2>1, <2>2 DEF WriteByte
  <1>6. buffer' \in [Index -> Byte]
    BY <1>1 DEF WriteByte, IInv, TypeOK
  <1>7. TypeOK'
    BY <1>3, <1>5, <1>6 DEF WriteByte, IInv, TypeOK
  <1>8. QED
    BY <1>4, <1>5, <1>7 DEF IInv, IndicesAgree

(* one iteration of the loop of ring_buffer_read *)
LEMMA ReadByteKeeps == IInv /\ ReadByte => IInv'
  <1> SUFFICES ASSUME IInv, ReadByte PROVE IInv'
    OBVIOUS
  <1>1. /\ head \in Index /\ tail \in Index /\ count \in 0 .. Capacity
        /\ count > 0 /\ left > 0 /\ left \in 0 .. MaxLen
        /\ head = Wrap(tail + count)
    BY HeadWraps DEF IInv, TypeOK, IndicesAgree, ReadByte
  <1>2. head' = head /\ count' = count - 1 /\ tail' = Wrap(tail + 1) /\ left' = left - 1
    BY <1>1, AdvanceWraps DEF ReadByte
  <1>3. /\ head' \in Index /\ tail' \in Index /\ count' \in 0 .. Capacity
        /\ head' = Wrap(tail' + count')
    BY <1>1, <1>2, RingConstants DEF Wrap, Index
  <1>4. head' = (tail' + count') % Capacity
    BY <1>3, HeadWraps
  <1>5. /\ left' \in 0 .. MaxLen /\ op' \in {"idle", "read"}
        /\ op' = "read" => left' > 0 /\ count' > 0
    BY <1>1, <1>2, RingConstants DEF ReadByte
  <1>6. data' \in Seq(Byte)
    BY <1>1 DEF ReadByte, IInv, TypeOK
  <1>7. TypeOK'
    BY <1>3, <1>5, <1>6 DEF ReadByte, IInv, TypeOK
  <1>8. QED
    BY <1>4, <1>5, <1>7 DEF IInv, IndicesAgree

(* every step *)
LEMMA NextIInv == IInv /\ [Next]_vars => IInv'
  <1> SUFFICES ASSUME IInv, [Next]_vars PROVE IInv'
    OBVIOUS
  <1>1. ASSUME NEW d \in Lists, ring_buffer_write(d) PROVE IInv'
    <2>1. d \in Seq(Byte) /\ d # <<>>
      BY <1>1, ListsAreSequences DEF ring_buffer_write
    <2>2. Trimmed(d) \in Seq(Byte) /\ Trimmed(d) # <<>>
      BY <2>1, TrimmedBytes
    <2>3. QED
      BY <1>1, <2>1, <2>2 DEF ring_buffer_write, IInv, TypeOK, IndicesAgree
  <1>2. ASSUME NEW len \in 1 .. MaxLen, ring_buffer_read(len) PROVE IInv'
    <2>1. left' \in 0 .. MaxLen /\ op' \in {"idle", "read"} /\ data' = <<>>
      BY <1>2, RingConstants DEF ring_buffer_read, IInv, TypeOK
    <2>2. op' = "read" => left' > 0 /\ count' > 0
      BY <1>2, RingConstants DEF ring_buffer_read, IInv, TypeOK
    <2>3. UNCHANGED <<buffer, head, tail, count, given, rest>> /\ op' # "write"
      BY <1>2 DEF ring_buffer_read
    <2>4. QED
      BY <2>1, <2>2, <2>3 DEF IInv, TypeOK, IndicesAgree
  <1>3. CASE ring_buffer_clear
    <2>1. head' = 0 /\ tail' = 0 /\ count' = 0 /\ 0 \in Index /\ 0 \in 0 .. Capacity
      BY <1>3, RingConstants DEF ring_buffer_clear, Index
    <2>2. head' = (tail' + count') % Capacity
      BY <2>1, HeadWraps, RingConstants DEF Wrap
    <2>3. UNCHANGED <<buffer, op, given, rest, left, data>> /\ op = "idle"
      BY <1>3 DEF ring_buffer_clear
    <2>4. QED
      BY <2>1, <2>2, <2>3 DEF IInv, TypeOK, IndicesAgree
  <1>4. CASE UNCHANGED vars
    BY <1>4 DEF vars, IInv, TypeOK, IndicesAgree
  <1>5. QED
    BY <1>1, <1>2, <1>3, <1>4, WriteByteKeeps, ReadByteKeeps DEF Next

(* so the invariant always holds *)
LEMMA Invariant == Spec => []IInv
  BY InitIInv, NextIInv, PTL DEF Spec

(* The fields of ring_buffer_t keep their types: no index leaves the buffer   *)
(* and count never exceeds its capacity, over any sequence of calls.          *)
THEOREM RingTyped == Spec => []TypeOK
  <1>1. IInv => TypeOK
    BY DEF IInv
  <1>2. QED
    BY <1>1, Invariant, PTL

(* head, tail and count never disagree, between any two iterations of the     *)
(* loops of ring_buffer_write and ring_buffer_read.                           *)
THEOREM IndicesAlwaysAgree == Spec => []IndicesAgree
  <1>1. IInv => IndicesAgree
    BY DEF IInv
  <1>2. QED
    BY <1>1, Invariant, PTL

-----------------------------------------------------------------------------
(* What the loops do to the sequence of bytes in the buffer. *)

(* an iteration of the write loop appends a byte, and a full buffer gives up *)
(* its oldest one for it                                                     *)
LEMMA WriteContents ==
    ASSUME IInv, WriteByte
    PROVE  contents' = Append(IF count < Capacity THEN contents ELSE Tail(contents), Head(rest))
  <1>1. /\ buffer \in [Index -> Byte] /\ tail \in Index /\ count \in 0 .. Capacity
        /\ head \in Index /\ rest \in Seq(Byte) /\ rest # <<>> /\ Head(rest) \in Byte
        /\ head = Wrap(tail + count)
    BY HeadWraps DEF IInv, TypeOK, IndicesAgree, WriteByte
  <1>2. /\ buffer' = [buffer EXCEPT ![head] = Head(rest)]
        /\ count' = IF count < Capacity THEN count + 1 ELSE count
        /\ tail' = IF count < Capacity THEN tail ELSE Wrap(tail + 1)
    BY <1>1, AdvanceWraps DEF WriteByte, TailAfterWrite
  <1>3. buffer' \in [Index -> Byte] /\ tail' \in Index /\ count' \in 0 .. Capacity
    BY WriteByteKeeps DEF IInv, TypeOK
  <1>4. /\ contents = ContentsOf(buffer, tail, count)
        /\ contents' = ContentsOf(buffer', tail', count')
    BY DEF contents, ContentsOf
  <1>5. /\ contents \in Seq(Byte) /\ Len(contents) = count
        /\ \A i \in 1 .. count : contents[i] = buffer[Wrap(tail + i - 1)]
    BY <1>1, <1>4, ContentsBytes
  <1>6. /\ contents' \in Seq(Byte) /\ Len(contents') = count'
        /\ \A i \in 1 .. count' : contents'[i] = buffer'[Wrap(tail' + i - 1)]
    BY <1>3, <1>4, ContentsBytes
  <1> DEFINE old == IF count < Capacity THEN contents ELSE Tail(contents)
             new == Append(old, Head(rest))
  <1>7. /\ old \in Seq(Byte) /\ Len(old) = count' - 1
        /\ \A i \in 1 .. count' - 1 :
              old[i] = IF count < Capacity THEN contents[i] ELSE contents[i + 1]
    BY <1>1, <1>2, <1>5, RingConstants
  <1>8. ASSUME NEW i \in 1 .. count' - 1
        PROVE  contents'[i] = old[i]
    <2>1. Wrap(tail' + i - 1) =
              IF count < Capacity THEN Wrap(tail + i - 1) ELSE Wrap(tail + (i + 1) - 1)
      BY <1>1, <1>2, RingConstants DEF Wrap, Index
    <2>2. Wrap(tail' + i - 1) \in Index /\ Wrap(tail' + i - 1) # head
      BY <1>1, <1>2, RingConstants DEF Wrap, Index
    <2>3. buffer'[Wrap(tail' + i - 1)] = buffer[Wrap(tail' + i - 1)]
      BY <1>1, <1>2, <2>2
    <2>4. i \in 1 .. count' /\ (count < Capacity => i \in 1 .. count)
          /\ (count >= Capacity => i + 1 \in 1 .. count)
      BY <1>1, <1>2, RingConstants
    <2>5. QED
      BY <1>1, <1>5, <1>6, <1>7, <1>8, <2>1, <2>3, <2>4
  <1>9. contents'[count'] = Head(rest)
    <2>1. Wrap(tail' + count' - 1) = head /\ count' \in 1 .. count'
      BY <1>1, <1>2, RingConstants DEF Wrap, Index
    <2>2. buffer'[head] = Head(rest)
      BY <1>1, <1>2
    <2>3. QED
      BY <1>6, <2>1, <2>2
  <1> HIDE DEF old
  <1> DEFINE n == count'
  <1>10. n \in Nat \ {0}
    BY <1>1, <1>2, RingConstants
  <1> HIDE DEF n
  <1>11. old \in Seq(Byte) /\ Len(old) = n - 1
    BY <1>7 DEF n
  <1>12. /\ new \in Seq(Byte) /\ Len(new) = n
         /\ \A i \in 1 .. n - 1 : new[i] = old[i]
         /\ new[n] = Head(rest)
    BY <1>1, <1>10, <1>11, AppendProperties
  <1> HIDE DEF new
  <1>13. \A i \in 1 .. n : contents'[i] = new[i]
    <2>1. contents'[n] = new[n]
      BY <1>9, <1>12 DEF n
    <2>2. \A i \in 1 .. n - 1 : contents'[i] = new[i]
      BY <1>8, <1>12 DEF n
    <2>3. \A i \in 1 .. n : i = n \/ i \in 1 .. n - 1
      BY <1>10
    <2>4. QED
      BY <2>1, <2>2, <2>3
  <1>14. contents' = new
    <2>1. contents' \in Seq(Byte) /\ Len(contents') = n
      BY <1>6 DEF n
    <2>2. QED
      BY <2>1, <1>12, <1>13, SeqEqual
  <1>15. QED
    BY <1>14 DEF new, old

(* an iteration of the read loop takes the oldest byte *)
LEMMA ReadContents ==
    ASSUME IInv, ReadByte
    PROVE  /\ contents \in Seq(Byte) /\ contents # <<>> /\ Len(contents) = count
           /\ Head(contents) = buffer[tail]
           /\ contents' = Tail(contents)
  <1>1. /\ buffer \in [Index -> Byte] /\ tail \in Index /\ count \in 0 .. Capacity
        /\ count > 0
    BY DEF IInv, TypeOK, IndicesAgree, ReadByte
  <1>2. buffer' = buffer /\ count' = count - 1 /\ tail' = Wrap(tail + 1)
    BY <1>1, AdvanceWraps DEF ReadByte
  <1>3. tail' \in Index /\ count' \in 0 .. Capacity
    BY ReadByteKeeps DEF IInv, TypeOK
  <1>4. /\ contents = ContentsOf(buffer, tail, count)
        /\ contents' = ContentsOf(buffer, tail', count')
    BY <1>2 DEF contents, ContentsOf
  <1>5. /\ contents \in Seq(Byte) /\ Len(contents) = count
        /\ \A i \in 1 .. count : contents[i] = buffer[Wrap(tail + i - 1)]
    BY <1>1, <1>4, ContentsBytes
  <1>6. /\ contents' \in Seq(Byte) /\ Len(contents') = count'
        /\ \A i \in 1 .. count' : contents'[i] = buffer[Wrap(tail' + i - 1)]
    BY <1>1, <1>3, <1>4, ContentsBytes
  <1>7. contents # <<>>
    BY <1>1, <1>5
  <1>8. /\ Tail(contents) \in Seq(Byte) /\ Len(Tail(contents)) = count'
        /\ \A i \in 1 .. count' : Tail(contents)[i] = contents[i + 1]
    BY <1>1, <1>2, <1>5, <1>7, HeadTailProperties
  <1>9. ASSUME NEW i \in 1 .. count'
        PROVE  contents'[i] = Tail(contents)[i]
    <2>1. Wrap(tail' + i - 1) = Wrap(tail + (i + 1) - 1) /\ i + 1 \in 1 .. count
      BY <1>1, <1>2, RingConstants DEF Wrap, Index
    <2>2. QED
      BY <1>5, <1>6, <1>8, <2>1
  <1>10. contents' = Tail(contents)
    BY <1>6, <1>8, <1>9, SeqEqual
  <1>11. Head(contents) = buffer[tail]
    <2>1. Wrap(tail + 1 - 1) = tail /\ 1 \in 1 .. count
      BY <1>1, RingConstants DEF Wrap, Index
    <2>2. contents[1] = buffer[tail]
      BY <1>5, <2>1
    <2>3. QED
      BY <1>5, <1>7, <2>2
  <1>12. QED
    BY <1>5, <1>7, <1>10, <1>11

(* skipping the bytes of a long write that would not survive changes nothing *)
LEMMA NewestTrimmed ==
    ASSUME NEW s \in Seq(Byte), NEW d \in Seq(Byte)
    PROVE  Newest(s \o Trimmed(d)) = Newest(s \o d)
  <1>1. CASE Len(d) <= Capacity
    BY <1>1, TrimmedIsNewest, NewestShort
  <1>2. CASE Len(d) > Capacity
    <2> DEFINE T == Trimmed(d)
    <2>1. Len(d) >= Capacity
      BY <1>2, RingConstants
    <2>2. /\ T \in Seq(Byte) /\ Len(T) = Capacity
          /\ \A i \in 1 .. Capacity : T[i] = d[Len(d) - Capacity + i]
      BY <2>1, TrimmedIsNewest, NewestLong
    <2> HIDE DEF T
    <2> DEFINE u == s \o T
               v == s \o d
    <2>3. /\ u \in Seq(Byte) /\ Len(u) = Len(s) + Capacity
          /\ v \in Seq(Byte) /\ Len(v) = Len(s) + Len(d)
          /\ \A i \in 1 .. Capacity : u[Len(s) + i] = T[i]
          /\ \A i \in 1 .. Len(d) : v[Len(s) + i] = d[i]
      BY <2>2, RingConstants
    <2> HIDE DEF u, v
    <2>4. Len(u) >= Capacity /\ Len(v) >= Capacity
      BY <1>2, <2>3, RingConstants
    <2>5. /\ Newest(u) \in Seq(Byte) /\ Len(Newest(u)) = Capacity
          /\ \A i \in 1 .. Capacity : Newest(u)[i] = u[Len(u) - Capacity + i]
          /\ Newest(v) \in Seq(Byte) /\ Len(Newest(v)) = Capacity
          /\ \A i \in 1 .. Capacity : Newest(v)[i] = v[Len(v) - Capacity + i]
      BY <2>3, <2>4, NewestLong
    <2>6. ASSUME NEW i \in 1 .. Capacity
          PROVE  Newest(u)[i] = Newest(v)[i]
      <3> DEFINE k == Len(d) - Capacity + i
      <3>1. /\ Len(u) - Capacity + i = Len(s) + i
            /\ Len(v) - Capacity + i = Len(s) + k
            /\ k \in 1 .. Len(d)
        BY <1>2, <2>3, RingConstants
      <3>2. T[i] = d[k]
        BY <2>2
      <3> HIDE DEF k
      <3>3. Newest(u)[i] = T[i]
        BY <2>3, <2>5, <3>1
      <3>4. Newest(v)[i] = d[k]
        BY <2>3, <2>5, <3>1
      <3>5. QED
        BY <3>2, <3>3, <3>4
    <2>7. Newest(u) = Newest(v)
      BY <2>5, <2>6, SeqEqual
    <2>8. QED
      BY <2>7 DEF T, u, v
  <1>3. QED
    BY <1>1, <1>2, RingConstants

-----------------------------------------------------------------------------
(* The refinement: every step of the loops is a step of the queue or none. *)

(* an empty sequence *)
LEMMA NoBytes ==
    ASSUME NEW s \in Seq(Byte), Len(s) = 0
    PROVE  s = <<>>
  OBVIOUS

(* the bytes in the buffer are as many as count says *)
LEMMA ContentsTyped ==
    ASSUME IInv
    PROVE  contents \in Seq(Byte) /\ Len(contents) = count /\ count \in 0 .. Capacity
  <1>1. contents = ContentsOf(buffer, tail, count)
    BY DEF contents, ContentsOf
  <1>2. QED
    BY <1>1, ContentsBytes DEF IInv, TypeOK

(* a call of ring_buffer_write is the abstract write *)
LEMMA WriteCallRefines ==
    ASSUME IInv, NEW d \in Lists, ring_buffer_write(d)
    PROVE  Fifo!Write(d)
  <1>1. /\ op = "idle" /\ op' = "write" /\ given' = d /\ rest' = Trimmed(d)
        /\ contents' = contents /\ data' = data
    BY DEF ring_buffer_write, contents
  <1>2. contents \in Seq(Byte) /\ d \in Seq(Byte)
    BY ContentsTyped, ListsAreSequences
  <1>3. queue = contents /\ queue' = Newest(contents \o Trimmed(d))
    BY <1>1 DEF queue
  <1>4. queue' = Newest(queue \o d)
    BY <1>2, <1>3, NewestTrimmed
  <1>5. result = data /\ result' = data
    BY <1>1 DEF result
  <1>6. QED
    BY <1>1, <1>4, <1>5 DEF Fifo!Write, Fifo!Newest, Fifo!Least, Newest, Least

(* its iterations change nothing that a user sees *)
LEMMA WriteByteRefines ==
    ASSUME IInv, WriteByte
    PROVE  UNCHANGED <<queue, given, result>>
  <1>1. /\ op = "write" /\ rest \in Seq(Byte) /\ rest # <<>> /\ rest' = Tail(rest)
        /\ op' = IF Len(rest) = 1 THEN "idle" ELSE "write"
        /\ given' = given /\ data' = data
    BY DEF WriteByte, IInv, TypeOK, IndicesAgree
  <1>2. contents \in Seq(Byte) /\ Len(contents) = count /\ count \in 0 .. Capacity
    BY ContentsTyped
  <1>3. contents' = Append(IF count < Capacity THEN contents ELSE Tail(contents), Head(rest))
    BY WriteContents
  <1> DEFINE s == contents \o rest
             c == contents'
             r == Tail(rest)
  <1>4. s \in Seq(Byte) /\ Len(s) = count + Len(rest) /\ Len(rest) \in Nat \ {0}
    BY <1>1, <1>2
  <1>5. r \in Seq(Byte) /\ Len(r) = Len(rest) - 1 /\ Head(rest) \in Byte
    BY <1>1
  <1>6. c \in Seq(Byte) /\ Len(c) <= Capacity
    <2>1. CASE count < Capacity
      BY <1>2, <1>3, <1>5, <2>1, AppendProperties, RingConstants
    <2>2. CASE count >= Capacity
      <3>1. contents # <<>> /\ count = Capacity
        BY <1>2, <2>2, RingConstants
      <3>2. Tail(contents) \in Seq(Byte) /\ Len(Tail(contents)) = Capacity - 1
        BY <1>2, <3>1
      <3>3. c = Append(Tail(contents), Head(rest))
        BY <1>3, <3>1, RingConstants
      <3>4. QED
        BY <1>5, <3>2, <3>3, AppendProperties, RingConstants
    <2>3. QED
      BY <1>2, <2>1, <2>2, RingConstants
  <1>7. Newest(c \o r) = Newest(s)
    <2>1. CASE count < Capacity
      <3>1. c = Append(contents, Head(rest))
        BY <1>3, <2>1
      <3>2. c \o r = s
        BY <1>1, <1>2, <3>1
      <3>3. QED
        BY <3>2
    <2>2. CASE count >= Capacity
      <3>1. contents # <<>> /\ count = Capacity
        BY <1>2, <2>2, RingConstants
      <3>2. c = Append(Tail(contents), Head(rest))
        BY <1>3, <3>1, RingConstants
      <3>3. c \o r = Tail(s)
        BY <1>1, <1>2, <3>1, <3>2
      <3>4. Len(s) > Capacity
        BY <1>4, <3>1, RingConstants
      <3>5. QED
        BY <1>4, <3>3, <3>4, NewestTail
    <2>3. QED
      BY <1>2, <2>1, <2>2, RingConstants
  <1>8. queue = Newest(s)
    BY <1>1 DEF queue
  <1>9. queue' = Newest(c \o r)
    <2>1. CASE Len(rest) = 1
      <3>1. r = <<>>
        <4> HIDE DEF r
        <4>1. QED
          BY <1>5, <2>1, NoBytes
      <3>2. c \o r = c
        BY <1>6, <3>1, ConcatEmptySeq
      <3>3. queue' = c
        BY <1>1, <2>1 DEF queue
      <3>4. QED
        BY <1>6, <3>2, <3>3, NewestShort
    <2>2. CASE Len(rest) # 1
      BY <1>1, <2>2 DEF queue
    <2>3. QED
      BY <2>1, <2>2
  <1>10. result' = result
    BY <1>1 DEF result
  <1>11. QED
    BY <1>1, <1>7, <1>8, <1>9, <1>10

(* a call of ring_buffer_read is the abstract read, also on an empty buffer *)
LEMMA ReadCallRefines ==
    ASSUME IInv, NEW len \in 1 .. MaxLen, ring_buffer_read(len)
    PROVE  Fifo!Read(len)
  <1>1. /\ op = "idle" /\ data' = <<>> /\ given' = given /\ contents' = contents
        /\ count' = count
        /\ IF count = 0 THEN op' = op ELSE op' = "read" /\ left' = len
    BY DEF ring_buffer_read, contents
  <1>2. contents \in Seq(Byte) /\ Len(contents) = count /\ count \in 0 .. Capacity
    BY ContentsTyped
  <1>3. queue = contents
    BY <1>1 DEF queue
  <1> DEFINE w == Least(len, count)
  <1>4. result' = SubSeq(contents, 1, w) /\ queue' = SubSeq(contents, w + 1, count)
    <2>1. CASE count = 0
      <3>1. contents = <<>> /\ w = 0
        BY <1>2, <2>1, NoBytes, RingConstants DEF Least
      <3>2. result' = <<>> /\ queue' = <<>>
        BY <1>1, <2>1, <3>1 DEF result, queue
      <3> HIDE DEF w
      <3>3. SubSeq(contents, 1, w) = <<>> /\ SubSeq(contents, w + 1, count) = <<>>
        BY <2>1, <3>1, SubSeqEmpty
      <3>4. QED
        BY <3>2, <3>3
    <2>2. CASE count # 0
      <3>1. wanted' = w /\ op' = "read"
        BY <1>1, <2>2 DEF wanted
      <3>2. queue' = SubSeq(contents, w + 1, count)
        BY <1>1, <3>1 DEF queue
      <3>3. result' = <<>> \o SubSeq(contents, 1, w)
        BY <1>1, <3>1 DEF result
      <3>4. w \in 0 .. count
        BY <1>2, RingConstants DEF Least
      <3> HIDE DEF w
      <3>5. SubSeq(contents, 1, w) \in Seq(Byte)
        BY <1>2, <3>4, RingConstants
      <3>6. QED
        BY <3>2, <3>3, <3>5, ConcatEmptySeq
    <2>3. QED
      BY <2>1, <2>2
  <1>5. QED
    BY <1>1, <1>2, <1>3, <1>4 DEF Fifo!Read, Fifo!Least, Least

(* its iterations change nothing that a user sees *)
LEMMA ReadByteRefines ==
    ASSUME IInv, ReadByte
    PROVE  UNCHANGED <<queue, given, result>>
  <1>1. /\ op = "read" /\ data' = Append(data, buffer[tail]) /\ given' = given
        /\ op' = IF left = 1 \/ count = 1 THEN "idle" ELSE "read"
        /\ left' = left - 1 /\ count' = count - 1
        /\ data \in Seq(Byte) /\ left \in Nat \ {0}
    BY RingConstants DEF ReadByte, IInv, TypeOK, IndicesAgree
  <1>2. /\ contents \in Seq(Byte) /\ contents # <<>> /\ Len(contents) = count
        /\ Head(contents) = buffer[tail] /\ contents' = Tail(contents)
    BY ReadContents
  <1>3. count \in Nat \ {0} /\ wanted \in 1 .. count
    BY <1>1, <1>2 DEF wanted, Least
  <1>4. wanted = 1 <=> (left = 1 \/ count = 1)
    BY <1>1, <1>3 DEF wanted, Least
  <1>5. wanted' = wanted - 1
    BY <1>1, <1>3 DEF wanted, Least
  <1> DEFINE w == wanted
             s == contents
  <1>6. queue = SubSeq(s, w + 1, count) /\ result = data \o SubSeq(s, 1, w)
    BY <1>1 DEF queue, result
  <1> HIDE DEF w, s
  <1>7. s \in Seq(Byte) /\ s # <<>> /\ Len(s) = count /\ w \in 1 .. count /\ count \in Nat \ {0}
    BY <1>2, <1>3 DEF w, s
  <1>8. CASE w = 1
    <2>1. op' = "idle"
      BY <1>1, <1>4, <1>8 DEF w
    <2>2. queue' = Tail(s) /\ result' = Append(data, Head(s))
      BY <1>1, <1>2, <2>1 DEF queue, result, s
    <2>3. Tail(s) = SubSeq(s, 2, count)
      BY <1>7, TailIsSubSeq
    <2>4. SubSeq(s, 1, 1) = <<Head(s)>>
      <3> DEFINE a == SubSeq(s, 1, 1)
                 b == <<Head(s)>>
      <3>1. Head(s) = s[1] /\ s[1] \in Byte
        BY <1>7
      <3>2. a \in Seq(Byte) /\ Len(a) = 1 /\ a[1] = s[1]
        BY <1>7
      <3>3. b \in Seq(Byte) /\ Len(b) = 1 /\ b[1] = s[1]
        BY <3>1
      <3> HIDE DEF a, b
      <3>4. a = b
        BY <3>2, <3>3, SeqEqual
      <3>5. QED
        BY <3>4 DEF a, b
    <2>5. data \o <<Head(s)>> = Append(data, Head(s))
      BY <1>1, <1>7, AppendIsConcat
    <2>6. queue = SubSeq(s, 2, count) /\ result = data \o SubSeq(s, 1, 1)
      BY <1>6, <1>8
    <2>7. QED
      BY <1>1, <2>2, <2>3, <2>4, <2>5, <2>6
  <1>9. CASE w # 1
    <2>1. op' = "read" /\ wanted' = w - 1
      BY <1>1, <1>4, <1>5, <1>9 DEF w
    <2>2. queue' = SubSeq(Tail(s), (w - 1) + 1, count - 1)
      BY <1>1, <1>2, <2>1 DEF queue, s
    <2>3. result' = Append(data, Head(s)) \o SubSeq(Tail(s), 1, w - 1)
      BY <1>1, <1>2, <2>1 DEF result, s
    <2>4. SubSeq(Tail(s), (w - 1) + 1, count - 1) = SubSeq(s, w + 1, count)
      BY <1>7
    <2>5. Append(data, Head(s)) \o SubSeq(Tail(s), 1, w - 1) = data \o SubSeq(s, 1, w)
      <3> DEFINE x == SubSeq(s, 2, w)
                 h == <<Head(s)>>
      <3>1. Head(s) = s[1] /\ Head(s) \in Byte /\ x \in Seq(Byte)
        BY <1>7
      <3>2. SubSeq(Tail(s), 1, w - 1) = x
        BY <1>7
      <3>3. SubSeq(s, 1, w) = <<s[1]>> \o SubSeq(s, 2, w)
        BY <1>7, SubSeqRecursiveFirst
      <3>4. SubSeq(s, 1, w) = h \o x
        BY <3>1, <3>3
      <3>5. Append(data, Head(s)) = data \o h /\ h \in Seq(Byte)
        BY <1>1, <3>1, AppendIsConcat
      <3> HIDE DEF h, x
      <3>6. (data \o h) \o x = data \o (h \o x)
        <4>1. data \in Seq(Byte) /\ h \in Seq(Byte) /\ x \in Seq(Byte)
          BY <1>1, <3>1, <3>5
        <4>2. QED
          BY <4>1, ConcatAssociative
      <3>7. QED
        BY <3>2, <3>4, <3>5, <3>6
    <2>6. QED
      BY <1>1, <1>6, <2>2, <2>3, <2>4, <2>5
  <1>10. QED
    BY <1>8, <1>9

(* the fresh buffer is the empty queue *)
LEMMA InitRefines == Init => Fifo!Init
  <1> SUFFICES ASSUME Init PROVE Fifo!Init
    OBVIOUS
  <1>1. contents = <<>>
    <2>1. IInv
      BY InitIInv
    <2>2. QED
      BY <2>1, ContentsTyped, NoBytes DEF Init
  <1>2. QED
    BY <1>1 DEF Init, Fifo!Init, queue, result

(* every step is an abstract step, or invisible *)
LEMMA NextRefines == IInv /\ [Next]_vars => [Fifo!Next]_<<queue, given, result>>
  <1> SUFFICES ASSUME IInv, [Next]_vars PROVE [Fifo!Next]_<<queue, given, result>>
    OBVIOUS
  <1>1. ASSUME NEW d \in Lists, ring_buffer_write(d)
        PROVE  Fifo!Next
    BY <1>1, WriteCallRefines DEF Fifo!Next, Fifo!Lists, Lists
  <1>2. ASSUME NEW len \in 1 .. MaxLen, ring_buffer_read(len)
        PROVE  Fifo!Next
    BY <1>2, ReadCallRefines DEF Fifo!Next
  <1>3. CASE ring_buffer_clear
    <2>1. op = "idle" /\ op' = "idle" /\ count' = 0 /\ given' = given /\ data' = data
      BY <1>3 DEF ring_buffer_clear
    <2>2. contents' = <<>>
      BY <2>1 DEF contents
    <2>3. queue' = <<>> /\ result' = result
      BY <2>1, <2>2 DEF queue, result
    <2>4. QED
      BY <2>1, <2>3 DEF Fifo!Next, Fifo!Clear
  <1>4. CASE UNCHANGED vars
    BY <1>4 DEF vars, queue, result, contents, wanted
  <1>5. QED
    BY <1>1, <1>2, <1>3, <1>4, WriteByteRefines, ReadByteRefines DEF Next

(* The byte loops over a circular array implement the queue of bytes with     *)
(* atomic calls that DropOldestFifo specifies, whatever the capacity and      *)
(* however long the calls.                                                    *)
THEOREM RingImplementsFifo == Spec => ImplementsFifo
  <1>1. Spec => Fifo!Init
    BY InitRefines DEF Spec
  <1>2. QED
    BY <1>1, NextRefines, Invariant, PTL DEF Spec, ImplementsFifo, Fifo!Spec, Fifo!vars
=============================================================================
