---------------------------- MODULE KHeapProofs -----------------------------
(***************************************************************************)
(* The block list of KHeap, for heaps, requests and alignments of any      *)
(* size.  What split_block, khmalloc and khfree do to the list is stated   *)
(* of the list as a value H, then of the steps of HeapNext.  What a search *)
(* of the list finds, and what the statistics add up to, is in             *)
(* KHeapCountProofs.                                                       *)
(***************************************************************************)
EXTENDS KHeap, TLAPS

Header == [is_free : BOOLEAN, size : Nat, next : Int, prev : Int]

EndIn(H, b) == b + HDR + H[b].size

Headers(H) ==
    /\ H \in [DOMAIN H -> Header]
    /\ DOMAIN H \subseteq 0 .. HeapWords
    /\ 0 \in DOMAIN H /\ H[0].prev = NULL

(* each block ends where its successor begins, and the successor points back *)
Forward(H) ==
    \A b \in DOMAIN H :
        \/ H[b].next = NULL /\ EndIn(H, b) = HeapWords
        \/ /\ H[b].next = EndIn(H, b) /\ EndIn(H, b) \in DOMAIN H
           /\ H[EndIn(H, b)].prev = b

(* every block but the first has a predecessor on the list *)
Backward(H) ==
    \A b \in DOMAIN H \ {0} : H[b].prev \in DOMAIN H /\ H[H[b].prev].next = b

(* no block reaches into a later one *)
Apart(H) == \A a, b \in DOMAIN H : a < b => EndIn(H, a) <= b

Chain(H) == Headers(H) /\ Forward(H) /\ Backward(H) /\ Apart(H)

(* free neighbours are merged, except where the second of them is b *)
MergedBut(H, b) ==
    \A a \in DOMAIN H : H[a].next # NULL /\ H[a].next # b => ~(H[a].is_free /\ H[H[a].next].is_free)

Merged(H) == MergedBut(H, NULL)

(* H and G hold the same allocated blocks *)
SameHeld(H, G) ==
    /\ \A a \in DOMAIN H : ~H[a].is_free => a \in DOMAIN G /\ ~G[a].is_free /\ G[a].size = H[a].size
    /\ \A a \in DOMAIN G : ~G[a].is_free => a \in DOMAIN H /\ ~H[a].is_free

(* G is H with block b newly allocated, for at least need words *)
TakenFrom(H, G, b, need) ==
    /\ b \in DOMAIN H /\ H[b].is_free
    /\ b \in DOMAIN G /\ ~G[b].is_free /\ G[b].size >= need
    /\ \A a \in DOMAIN H : ~H[a].is_free => a \in DOMAIN G /\ ~G[a].is_free /\ G[a].size = H[a].size
    /\ \A a \in DOMAIN G : ~G[a].is_free /\ a # b => a \in DOMAIN H /\ ~H[a].is_free

(* G is H with block b no longer allocated *)
GivenBack(H, G, b) ==
    /\ \A a \in DOMAIN H : ~H[a].is_free /\ a # b => a \in DOMAIN G /\ ~G[a].is_free /\ G[a].size = H[a].size
    /\ \A a \in DOMAIN G : ~G[a].is_free => a \in DOMAIN H /\ ~H[a].is_free /\ a # b

(* what khmalloc's walk along the list has to deliver *)
Finds(h, need) ==
    LET b == FirstFit(h, need)
    IN b = NULL \/ (b \in DOMAIN h.hdr /\ h.hdr[b].is_free /\ h.hdr[b].size >= need)

(* the pointer and the size a caller holds lie inside an allocated block of H *)
Fits(H, p) ==
    /\ p \in [ptr : Nat, bytes : Nat, block : Nat]
    /\ p.block \in DOMAIN H /\ ~H[p.block].is_free
    /\ p.ptr >= Payload(p.block)
    /\ 8 * p.ptr + p.bytes <= 8 * EndIn(H, p.block)

(* L holds exactly one pointer for each allocated block of H *)
Owners(H, L) ==
    /\ \A p \in L : Fits(H, p)
    /\ \A p, q \in L : p.block = q.block => p = q
    /\ \A b \in DOMAIN H : ~H[b].is_free => \E p \in L : p.block = b

(* the block list and what the callers hold of it *)
ListInv == Chain(hdr) /\ Merged(hdr) /\ Owners(hdr, live)

(* G is H with is_free of b set to v *)
Marked(H, G, b, v) ==
    /\ DOMAIN G = DOMAIN H /\ G[b].is_free = v
    /\ \A a \in DOMAIN H : /\ G[a].size = H[a].size /\ G[a].next = H[a].next /\ G[a].prev = H[a].prev
                           /\ a # b => G[a].is_free = H[a].is_free

(* b of H is cut after need words, the rest becomes a free block of G *)
Split(H, G, b, need) ==
    LET n == b + HDR + need
    IN /\ n \notin DOMAIN H /\ DOMAIN G = DOMAIN H \cup {n}
       /\ G \in [DOMAIN G -> Header]
       /\ /\ G[n].is_free = TRUE /\ G[n].size = H[b].size - need - HDR
          /\ G[n].next = H[b].next /\ G[n].prev = b
       /\ \A a \in DOMAIN H :
             /\ G[a].is_free = H[a].is_free
             /\ G[a].size = IF a = b THEN need ELSE H[a].size
             /\ G[a].next = IF a = b THEN n ELSE H[a].next
             /\ G[a].prev = IF a = H[b].next THEN n ELSE H[a].prev

(* G is H after b took in its successor *)
Absorbed(H, G, b) ==
    LET n == H[b].next
    IN /\ DOMAIN G = DOMAIN H \ {n}
       /\ G \in [DOMAIN G -> Header]
       /\ \A a \in DOMAIN G :
             /\ G[a].is_free = H[a].is_free
             /\ G[a].size = IF a = b THEN H[b].size + HDR + H[n].size ELSE H[a].size
             /\ G[a].next = IF a = b THEN H[n].next ELSE H[a].next
             /\ G[a].prev = IF a = H[n].next THEN b ELSE H[a].prev

-----------------------------------------------------------------------------
(* What is next on the list is the nearest block above. *)
LEMMA NextIsAbove ==
    ASSUME NEW H, Chain(H), NEW b \in DOMAIN H
    PROVE  /\ H[b].size \in Nat /\ H[b].is_free \in BOOLEAN
           /\ b \in Nat /\ EndIn(H, b) \in Nat /\ EndIn(H, b) <= HeapWords
           /\ H[b].next \in DOMAIN H \cup {NULL}
           /\ H[b].next # NULL => H[b].next = EndIn(H, b) /\ H[b].next > b
           /\ \A a \in DOMAIN H : a > b => H[b].next # NULL /\ a >= H[b].next
  <1>1. H[b] \in Header /\ b \in 0 .. HeapWords
    BY DEF Chain, Headers
  <1>2. \A a \in DOMAIN H : a \in 0 .. HeapWords /\ H[a].size \in Nat
    BY DEF Chain, Headers, Header
  <1>3. H[b].size \in Nat /\ H[b].is_free \in BOOLEAN /\ b \in Nat /\ EndIn(H, b) \in Nat /\ EndIn(H, b) > b
    BY <1>1, HeapAssumption DEF Header, EndIn, HDR
  <1>4. EndIn(H, b) <= HeapWords
    BY <1>2, <1>3, HeapAssumption DEF Chain, Forward
  <1>5. H[b].next \in DOMAIN H \cup {NULL} /\ (H[b].next # NULL => H[b].next = EndIn(H, b))
    BY DEF Chain, Forward
  <1>6. ASSUME NEW a \in DOMAIN H, a > b
        PROVE  H[b].next # NULL /\ a >= H[b].next
    <2>1. EndIn(H, b) <= a /\ a \in Nat /\ EndIn(H, a) > a /\ EndIn(H, a) \in Nat
      BY <1>6, <1>2, HeapAssumption DEF Chain, Apart, EndIn, HDR
    <2>2. EndIn(H, a) <= HeapWords
      BY <1>2, <2>1, HeapAssumption DEF Chain, Forward
    <2>3. EndIn(H, b) # HeapWords
      BY <2>1, <2>2, <1>3, HeapAssumption
    <2> QED
      BY <2>1, <2>3, <1>3, <1>5 DEF Chain, Forward, NULL
  <1> QED
    BY <1>3, <1>4, <1>5, <1>6

(* Marking a block free, or allocated, leaves the list as it is. *)
LEMMA MarkKeepsChain ==
    ASSUME NEW H, Chain(H), NEW b \in DOMAIN H, NEW v \in BOOLEAN
    PROVE  /\ Chain([H EXCEPT ![b].is_free = v])
           /\ Marked(H, [H EXCEPT ![b].is_free = v], b, v)
  <1> DEFINE G == [H EXCEPT ![b].is_free = v]
  <1>1. H \in [DOMAIN H -> Header]
    BY DEF Chain, Headers
  <1>2. /\ G \in [DOMAIN H -> Header] /\ DOMAIN G = DOMAIN H
        /\ \A a \in DOMAIN H : /\ G[a].size = H[a].size /\ G[a].next = H[a].next
                               /\ G[a].prev = H[a].prev
                               /\ G[a].is_free = IF a = b THEN v ELSE H[a].is_free
    BY <1>1 DEF Header
  <1> HIDE DEF G
  <1>3. \A a \in DOMAIN H : EndIn(G, a) = EndIn(H, a)
    BY <1>2 DEF EndIn
  <1>4. Headers(G)
    BY <1>2 DEF Chain, Headers
  <1>5. Forward(G)
    BY <1>2, <1>3 DEF Chain, Forward
  <1>6. Backward(G)
    BY <1>2 DEF Chain, Backward
  <1>7. Apart(G)
    BY <1>2, <1>3 DEF Chain, Apart
  <1> QED
    BY <1>2, <1>4, <1>5, <1>6, <1>7 DEF Chain, G, Marked

(* What split_block writes when the rest of the block is worth a header. *)
LEMMA SplitFields ==
    ASSUME NEW h, Chain(h.hdr), NEW b \in DOMAIN h.hdr, NEW need \in Nat,
           h.hdr[b].size > need + HDR + MIN_BLOCK
    PROVE  Split(h.hdr, split_block(h, b, need).hdr, b, need)
  <1> DEFINE H == h.hdr
             n == b + HDR + need
             after == H[b].next
             new == [is_free |-> TRUE, size |-> H[b].size - need - HDR, next |-> after, prev |-> b]
             cut == [H EXCEPT ![b].next = n, ![b].size = need]
             F == IF after = NULL THEN cut ELSE [cut EXCEPT ![after].prev = n]
             G == split_block(h, b, need).hdr
  <1>1. /\ H[b].size \in Nat /\ b \in Nat /\ b \in DOMAIN H /\ after \in DOMAIN H \cup {NULL}
        /\ after # NULL => after > b /\ NULL \notin DOMAIN H
    BY NextIsAbove DEF Chain, Headers, NULL
  <1>2. ~(H[b].size <= need + HDR + MIN_BLOCK) /\ n \in Nat /\ need \in Nat /\ n > b /\ n < EndIn(H, b)
    BY <1>1 DEF HDR, MIN_BLOCK, EndIn
  <1>3. n \notin DOMAIN H
    BY <1>1, <1>2 DEF Chain, Apart, EndIn, HDR
  <1>4. G = [a \in DOMAIN H \cup {n} |-> IF a = n THEN new ELSE F[a]]
    BY <1>2 DEF split_block
  <1>5. H \in [DOMAIN H -> Header] /\ NULL \notin DOMAIN H
    BY DEF Chain, Headers, NULL
  <1>6. new \in Header
    BY <1>1, <1>2 DEF Header, HDR, MIN_BLOCK, NULL, Chain, Headers
  <1>7. cut \in [DOMAIN H -> Header] /\
        \A a \in DOMAIN H : /\ cut[a].is_free = H[a].is_free /\ cut[a].prev = H[a].prev
                            /\ cut[a].size = IF a = b THEN need ELSE H[a].size
                            /\ cut[a].next = IF a = b THEN n ELSE H[a].next
    <2> DEFINE c1 == [H EXCEPT ![b].next = n]
    <2> HIDE DEF n, H
    <2>1. c1 \in [DOMAIN H -> Header] /\
          \A a \in DOMAIN H : /\ c1[a].is_free = H[a].is_free /\ c1[a].prev = H[a].prev
                              /\ c1[a].size = H[a].size
                              /\ c1[a].next = IF a = b THEN n ELSE H[a].next
      BY <1>1, <1>5, <1>2 DEF Header
    <2>2. cut = [c1 EXCEPT ![b].size = need]
      BY <1>1, <1>5
    <2> HIDE DEF c1, cut
    <2> QED
      BY <1>1, <1>2, <2>1, <2>2 DEF Header
  <1>8. F \in [DOMAIN H -> Header] /\
        \A a \in DOMAIN H : /\ F[a].is_free = cut[a].is_free /\ F[a].size = cut[a].size
                            /\ F[a].next = cut[a].next
                            /\ F[a].prev = IF a = after THEN n ELSE cut[a].prev
    <2> HIDE DEF n, H, cut, after
    <2> QED
      BY <1>5, <1>7, <1>1, <1>2 DEF Header
  <1>9. /\ DOMAIN G = DOMAIN H \cup {n} /\ G[n] = new
        /\ \A a \in DOMAIN H : G[a] = F[a]
    <2> HIDE DEF n, H, F, G, new
    <2> QED
      BY <1>3, <1>4
  <1>10. G \in [DOMAIN G -> Header]
    <2> HIDE DEF n, H, F, new, G
    <2> QED
      BY <1>4, <1>6, <1>8, <1>9
  <1> QED
    <2> HIDE DEF F, G, cut
    <2> QED
      BY <1>3, <1>7, <1>8, <1>9, <1>10 DEF G, Split

(* split_block keeps the list a chain: the new block fills what it cut off. *)
LEMMA SplitKeepsChain ==
    ASSUME NEW h, Chain(h.hdr), NEW b \in DOMAIN h.hdr, NEW need \in Nat,
           h.hdr[b].size > need + HDR + MIN_BLOCK
    PROVE  Chain(split_block(h, b, need).hdr)
  <1> DEFINE H == h.hdr
             G == split_block(h, b, need).hdr
             n == b + HDR + need
             after == H[b].next
  <1>0. Split(H, G, b, need)
    BY SplitFields
  <1>1. /\ n \notin DOMAIN H /\ DOMAIN G = DOMAIN H \cup {n}
        /\ G \in [DOMAIN G -> Header]
    BY <1>0 DEF Split
  <1>2. /\ G[n].is_free = TRUE /\ G[n].size = H[b].size - need - HDR
        /\ G[n].next = after /\ G[n].prev = b
    BY <1>0 DEF Split
  <1>3. \A a \in DOMAIN H :
           /\ G[a].is_free = H[a].is_free
           /\ G[a].size = IF a = b THEN need ELSE H[a].size
           /\ G[a].next = IF a = b THEN n ELSE H[a].next
           /\ G[a].prev = IF a = after THEN n ELSE H[a].prev
    BY <1>0 DEF Split
  <1>4. /\ Headers(H) /\ Forward(H) /\ Backward(H) /\ Apart(H)
        /\ b \in DOMAIN H /\ b \in Nat /\ H[b].size \in Nat /\ n \in Nat /\ n > b /\ n < EndIn(H, b)
        /\ EndIn(H, b) <= HeapWords /\ EndIn(H, b) \in Nat
    BY NextIsAbove DEF Chain, EndIn, HDR, MIN_BLOCK
  <1>5. /\ after \in DOMAIN H \cup {NULL} /\ NULL \notin DOMAIN H
        /\ after # NULL => after = EndIn(H, b) /\ after > n
        /\ after = NULL => EndIn(H, b) = HeapWords
    BY <1>4, NextIsAbove DEF Forward, Headers, NULL
  <1>6. EndIn(G, b) = n /\ EndIn(G, n) = EndIn(H, b)
    BY <1>2, <1>3, <1>4 DEF EndIn, HDR
  <1>7. \A a \in DOMAIN H : a # b => EndIn(G, a) = EndIn(H, a)
    BY <1>3 DEF EndIn
  <1>8. \A a \in DOMAIN H : a \in 0 .. HeapWords /\ EndIn(H, a) \in Nat
    BY <1>4, NextIsAbove DEF Headers
  <1> HIDE DEF H, G, n, after
  <1>9. Headers(G)
    <2>1. DOMAIN G \subseteq 0 .. HeapWords
      BY <1>1, <1>4, HeapAssumption DEF Headers
    <2>2. G[0].prev = NULL
      BY <1>3, <1>4, <1>5 DEF Headers
    <2> QED
      BY <1>1, <1>4, <2>1, <2>2 DEF Headers
  <1>10. Forward(G)
    <2> SUFFICES ASSUME NEW a \in DOMAIN G
                 PROVE  \/ G[a].next = NULL /\ EndIn(G, a) = HeapWords
                        \/ /\ G[a].next = EndIn(G, a) /\ EndIn(G, a) \in DOMAIN G
                           /\ G[EndIn(G, a)].prev = a
      BY DEF Forward
    <2>1. CASE a = b
      BY <2>1, <1>1, <1>2, <1>3, <1>4, <1>6
    <2>2. CASE a = n
      BY <2>2, <1>1, <1>2, <1>3, <1>5, <1>6
    <2>3. CASE a # b /\ a # n
      <3>1. a \in DOMAIN H /\ G[a].next = H[a].next /\ EndIn(G, a) = EndIn(H, a)
        BY <2>3, <1>1, <1>3, <1>7
      <3>2. EndIn(H, a) \in DOMAIN H /\ H[EndIn(H, a)].prev = a => EndIn(H, a) # after
        BY <2>3, <1>4, <1>5, <3>1 DEF Forward, after
      <3> QED
        BY <3>1, <3>2, <1>1, <1>3, <1>4 DEF Forward
    <2> QED
      BY <2>1, <2>2, <2>3
  <1>11. Backward(G)
    <2> SUFFICES ASSUME NEW a \in DOMAIN G \ {0}
                 PROVE  G[a].prev \in DOMAIN G /\ G[G[a].prev].next = a
      BY DEF Backward
    <2>1. CASE a = n
      BY <2>1, <1>1, <1>2, <1>3, <1>4
    <2>2. CASE a # n /\ a = after
      BY <2>2, <1>1, <1>2, <1>3
    <2>3. CASE a # n /\ a # after
      <3>1. /\ a \in DOMAIN H /\ G[a].prev = H[a].prev
            /\ H[a].prev \in DOMAIN H /\ H[H[a].prev].next = a
        BY <2>3, <1>1, <1>3, <1>4 DEF Backward
      <3> QED
        BY <2>3, <3>1, <1>1, <1>3 DEF after
    <2> QED
      BY <2>1, <2>2, <2>3
  <1>12. Apart(G)
    <2> SUFFICES ASSUME NEW a \in DOMAIN G, NEW c \in DOMAIN G, a < c
                 PROVE  EndIn(G, a) <= c
      BY DEF Apart
    <2>1. \A x \in DOMAIN H : x > n => x >= EndIn(H, b)
      BY <1>4, <1>8 DEF Apart
    <2>2. \A x \in DOMAIN H : x < n => x <= b
      BY <1>4, <1>8 DEF Apart
    <2>3. CASE a = n
      BY <2>3, <2>1, <1>1, <1>4, <1>6, <1>8
    <2>4. CASE a = b
      BY <2>4, <2>2, <1>1, <1>4, <1>6, <1>8
    <2>5. CASE a # n /\ a # b /\ c = n
      BY <2>2, <2>5, <1>1, <1>4, <1>7, <1>8 DEF Apart
    <2>6. CASE a # n /\ a # b /\ c # n
      BY <2>6, <1>1, <1>4, <1>7 DEF Apart
    <2> QED
      BY <2>3, <2>4, <2>5, <2>6
  <1> QED
    BY <1>9, <1>10, <1>11, <1>12 DEF Chain, G

(* What khfree writes when a block takes in its successor. *)
LEMMA AbsorbFields ==
    ASSUME NEW h, Chain(h.hdr), NEW b \in DOMAIN h.hdr, h.hdr[b].next # NULL
    PROVE  Absorbed(h.hdr, Absorb(h, b).hdr, b)
  <1> DEFINE H == h.hdr
             n == H[b].next
             after == H[n].next
             size == H[b].size + HDR + H[n].size
             g1 == [H EXCEPT ![b].size = size]
             grown == [H EXCEPT ![b].size = @ + HDR + H[n].size, ![b].next = after]
             linked == IF after = NULL THEN grown ELSE [grown EXCEPT ![after].prev = b]
             G == Absorb(h, b).hdr
  <1>1. /\ b \in DOMAIN H /\ b \in Nat /\ n \in DOMAIN H /\ n > b /\ H[b].size \in Nat /\ H[n].size \in Nat
        /\ after \in DOMAIN H \cup {NULL} /\ NULL \notin DOMAIN H
    BY NextIsAbove DEF Chain, Headers, NULL
  <1>2. H \in [DOMAIN H -> Header] /\ after \in Int /\ size \in Nat
    BY <1>1 DEF Chain, Headers, Header, HDR
  <1>3. G = [a \in DOMAIN linked \ {n} |-> linked[a]]
    BY DEF Absorb
  <1>4. g1 \in [DOMAIN H -> Header] /\
        \A a \in DOMAIN H : /\ g1[a].is_free = H[a].is_free /\ g1[a].prev = H[a].prev
                            /\ g1[a].size = IF a = b THEN size ELSE H[a].size
                            /\ g1[a].next = H[a].next
    <2> HIDE DEF H, n, after, size
    <2> QED
      BY <1>1, <1>2 DEF Header
  <1>5. grown = [g1 EXCEPT ![b].next = after]
    <2> HIDE DEF H, n, after
    <2> QED
      BY <1>1, <1>2
  <1>6. grown \in [DOMAIN H -> Header] /\
        \A a \in DOMAIN H : /\ grown[a].is_free = H[a].is_free /\ grown[a].prev = H[a].prev
                            /\ grown[a].size = IF a = b THEN size ELSE H[a].size
                            /\ grown[a].next = IF a = b THEN after ELSE H[a].next
    <2> HIDE DEF H, n, after, size, g1, grown
    <2> QED
      BY <1>1, <1>2, <1>4, <1>5 DEF Header
  <1>7. linked \in [DOMAIN H -> Header] /\
        \A a \in DOMAIN H : /\ linked[a].is_free = grown[a].is_free /\ linked[a].size = grown[a].size
                            /\ linked[a].next = grown[a].next
                            /\ linked[a].prev = IF a = after THEN b ELSE grown[a].prev
    <2> HIDE DEF H, n, after, grown
    <2> QED
      BY <1>1, <1>6 DEF Header
  <1>8. /\ DOMAIN G = DOMAIN H \ {n} /\ G \in [DOMAIN G -> Header]
        /\ \A a \in DOMAIN G : G[a] = linked[a]
    <2> HIDE DEF H, n, linked, G
    <2> QED
      BY <1>3, <1>7
  <1> HIDE DEF linked, grown, G
  <1> QED
    BY <1>6, <1>7, <1>8 DEF Absorbed, G

(* Merging a block with its successor keeps the list a chain. *)
LEMMA AbsorbKeepsChain ==
    ASSUME NEW H, NEW G, NEW b \in DOMAIN H, Chain(H), H[b].next # NULL, Absorbed(H, G, b)
    PROVE  Chain(G) /\ b \in DOMAIN G
  <1> DEFINE n == H[b].next
             after == H[n].next
  <1>1. /\ DOMAIN G = DOMAIN H \ {n} /\ G \in [DOMAIN G -> Header]
        /\ \A a \in DOMAIN G :
             /\ G[a].size = IF a = b THEN H[b].size + HDR + H[n].size ELSE H[a].size
             /\ G[a].next = IF a = b THEN after ELSE H[a].next
             /\ G[a].prev = IF a = after THEN b ELSE H[a].prev
    BY DEF Absorbed
  <1>2. /\ Headers(H) /\ Forward(H) /\ Backward(H) /\ Apart(H)
    BY DEF Chain
  <1>3. /\ n = EndIn(H, b) /\ n \in DOMAIN H /\ n > b /\ H[n].prev = b
        /\ b \in Nat /\ n \in Nat /\ H[b].size \in Nat /\ H[n].size \in Nat
    BY <1>2, NextIsAbove DEF Forward
  <1>4. /\ NULL \notin DOMAIN H
        /\ \/ after = NULL /\ EndIn(H, n) = HeapWords
           \/ after = EndIn(H, n) /\ after \in DOMAIN H /\ H[after].prev = n /\ after > n
    BY <1>2, <1>3, NextIsAbove DEF Forward, Headers, NULL
  <1>5. \A a \in DOMAIN H : a \in 0 .. HeapWords /\ EndIn(H, a) \in Nat
    BY <1>2, NextIsAbove DEF Headers
  <1>6. b \in DOMAIN G /\ EndIn(G, b) = EndIn(H, n) /\ \A a \in DOMAIN G : a # b => EndIn(G, a) = EndIn(H, a)
    BY <1>1, <1>3 DEF EndIn, HDR
  <1> HIDE DEF n, after
  <1>7. Headers(G)
    BY <1>1, <1>2, <1>3, <1>4, <1>5 DEF Headers
  <1>8. Forward(G)
    <2> SUFFICES ASSUME NEW a \in DOMAIN G
                 PROVE  \/ G[a].next = NULL /\ EndIn(G, a) = HeapWords
                        \/ /\ G[a].next = EndIn(G, a) /\ EndIn(G, a) \in DOMAIN G
                           /\ G[EndIn(G, a)].prev = a
      BY DEF Forward
    <2>1. CASE a = b
      BY <2>1, <1>1, <1>3, <1>4, <1>6
    <2>2. CASE a # b
      <3>1. a \in DOMAIN H /\ G[a].next = H[a].next /\ EndIn(G, a) = EndIn(H, a) /\ a # n
        BY <2>2, <1>1, <1>6
      <3>2. EndIn(H, a) \in DOMAIN H /\ H[EndIn(H, a)].prev = a => EndIn(H, a) # after /\ EndIn(H, a) # n
        BY <2>2, <1>3, <1>4, <3>1
      <3> QED
        BY <3>1, <3>2, <1>1, <1>2 DEF Forward
    <2> QED
      BY <2>1, <2>2
  <1>9. Backward(G)
    <2> SUFFICES ASSUME NEW a \in DOMAIN G \ {0}
                 PROVE  G[a].prev \in DOMAIN G /\ G[G[a].prev].next = a
      BY DEF Backward
    <2>1. CASE a = after
      BY <2>1, <1>1, <1>6
    <2>2. CASE a # after
      <3>1. /\ a \in DOMAIN H /\ G[a].prev = H[a].prev
            /\ H[a].prev \in DOMAIN H /\ H[H[a].prev].next = a
        BY <2>2, <1>1, <1>2 DEF Backward
      <3>2. a # n
        BY <1>1
      <3> QED
        BY <2>2, <3>1, <3>2, <1>1 DEF after, n
    <2> QED
      BY <2>1, <2>2
  <1>10. Apart(G)
    <2> SUFFICES ASSUME NEW a \in DOMAIN G, NEW c \in DOMAIN G, a < c
                 PROVE  EndIn(G, a) <= c
      BY DEF Apart
    <2>1. a \in DOMAIN H /\ c \in DOMAIN H /\ c # n
      BY <1>1
    <2>2. CASE a = b
      <3>1. n <= c
        BY <2>1, <2>2, <1>2, <1>3 DEF Apart
      <3> QED
        BY <2>1, <2>2, <3>1, <1>2, <1>3, <1>5, <1>6 DEF Apart
    <2>3. CASE a # b
      BY <2>1, <2>3, <1>2, <1>6 DEF Apart
    <2> QED
      BY <2>2, <2>3
  <1> QED
    BY <1>6, <1>7, <1>8, <1>9, <1>10 DEF Chain

(* khmalloc takes a free block that is large enough, cuts off what it does *)
(* not need, and leaves every other allocated block alone.                 *)
LEMMA TakenKeeps ==
    ASSUME NEW h, Chain(h.hdr), Merged(h.hdr), NEW bytes \in Nat, Finds(h, Words(bytes) + PTR)
    PROVE  LET t == Taken(h, bytes)
           IN /\ t.block = NULL => t.heap = h
              /\ t.block # NULL => /\ Chain(t.heap.hdr) /\ Merged(t.heap.hdr)
                                  /\ TakenFrom(h.hdr, t.heap.hdr, t.block, Words(bytes) + PTR)
  <1> DEFINE need == Words(bytes) + PTR
             b == FirstFit(h, need)
             s == split_block(h, b, need)
             H == h.hdr
             G == [s.hdr EXCEPT ![b].is_free = FALSE]
  <1>1. CASE bytes = 0 \/ b = NULL
    BY <1>1 DEF Taken
  <1>2. CASE ~(bytes = 0 \/ b = NULL)
    <2>1. Taken(h, bytes).block = b /\ Taken(h, bytes).heap.hdr = G
      BY <1>2 DEF Taken
    <2>2. b \in DOMAIN H /\ H[b].is_free /\ H[b].size >= need
      BY <1>2 DEF Finds
    <2>3. need \in Nat /\ H[b].size \in Nat /\ b # NULL
      BY <1>2, <2>2, NextIsAbove DEF Words, PTR
    <2> HIDE DEF need, b
    <2>4. Chain(G) /\ TakenFrom(H, G, b, need) /\ Merged(G)
      <3>1. CASE H[b].size <= need + HDR + MIN_BLOCK
        <4>1. s = h
          BY <3>1 DEF split_block
        <4>2. Chain(G) /\ Marked(H, G, b, FALSE)
          BY <2>2, <4>1, MarkKeepsChain
        <4> HIDE DEF G, H
        <4>3. TakenFrom(H, G, b, need)
          BY <2>2, <2>3, <4>2 DEF TakenFrom, Marked
        <4>4. \A a \in DOMAIN H : H[a].next \in DOMAIN H \cup {NULL}
          BY NextIsAbove DEF H
        <4>5. Merged(H)
          BY DEF H
        <4>6. Merged(G)
          BY <2>2, <4>2, <4>4, <4>5 DEF Merged, MergedBut, Marked
        <4> QED
          BY <4>2, <4>3, <4>6
      <3>2. CASE ~(H[b].size <= need + HDR + MIN_BLOCK)
        <4> DEFINE S == s.hdr
                   n == b + HDR + need
        <4>1. H[b].size > need + HDR + MIN_BLOCK
          BY <3>2, <2>3 DEF HDR, MIN_BLOCK
        <4>2. Split(H, S, b, need) /\ Chain(S)
          BY <2>2, <2>3, <4>1, SplitFields, SplitKeepsChain
        <4> HIDE DEF s, S, H, n
        <4>3. b \in DOMAIN S
          BY <2>2, <4>2 DEF Split
        <4>4. Chain(G) /\ Marked(S, G, b, FALSE)
          BY <4>2, <4>3, MarkKeepsChain DEF S
        <4> HIDE DEF G
        <4>5. /\ n \notin DOMAIN H /\ DOMAIN S = DOMAIN H \cup {n}
              /\ S[n].is_free = TRUE /\ S[n].next = H[b].next
              /\ \A a \in DOMAIN H :
                    /\ S[a].is_free = H[a].is_free
                    /\ S[a].size = IF a = b THEN need ELSE H[a].size
                    /\ S[a].next = IF a = b THEN n ELSE H[a].next
          BY <4>2 DEF Split, n
        <4>6. TakenFrom(H, G, b, need)
          BY <2>2, <2>3, <4>4, <4>5 DEF TakenFrom, Marked
        <4>7. \A a \in DOMAIN H : H[a].next \in DOMAIN H \cup {NULL}
          BY NextIsAbove DEF H
        <4>8. Merged(H)
          BY DEF H
        <4>9. Merged(G)
          <5> SUFFICES ASSUME NEW a \in DOMAIN G, G[a].next # NULL, G[a].is_free, G[G[a].next].is_free
                       PROVE  FALSE
            BY DEF Merged, MergedBut
          <5>1. a # b
            BY <4>3, <4>4 DEF Marked
          <5>2. CASE a = n
            BY <2>2, <4>4, <4>5, <4>7, <4>8, <5>1, <5>2 DEF Merged, MergedBut, Marked
          <5>3. CASE a # n
            BY <4>4, <4>5, <4>7, <4>8, <5>1, <5>3 DEF Merged, MergedBut, Marked
          <5> QED
            BY <5>2, <5>3
        <4> QED
          BY <4>4, <4>6, <4>9
      <3> QED
        BY <3>1, <3>2
    <2> HIDE DEF G, H
    <2> QED
      BY <2>1, <2>3, <2>4 DEF need, H
  <1> QED
    BY <1>1, <1>2

(* Merging two free blocks leaves the allocated ones alone. *)
LEMMA AbsorbKeepsHeld ==
    ASSUME NEW H, NEW G, NEW b \in DOMAIN H, Absorbed(H, G, b),
           H[b].is_free, H[H[b].next].is_free
    PROVE  SameHeld(H, G)
  BY DEF SameHeld, Absorbed

(* khfree takes its block off the allocated ones, leaves the others alone, *)
(* and leaves no free neighbours behind: it merges on both sides.          *)
LEMMA FreedKeeps ==
    ASSUME NEW h, Chain(h.hdr), Merged(h.hdr), NEW b \in DOMAIN h.hdr
    PROVE  /\ Chain(Freed(h, b).hdr) /\ Merged(Freed(h, b).hdr)
           /\ GivenBack(h.hdr, Freed(h, b).hdr, b)
  <1> DEFINE H == h.hdr
             h1 == [hdr |-> [H EXCEPT ![b].is_free = TRUE], stats |-> Counted(h.stats, 0, H[b].size)]
             h2 == IF IsFree(h1, h1.hdr[b].next) THEN Absorb(h1, b) ELSE h1
             h3 == IF IsFree(h2, h2.hdr[b].prev) THEN Absorb(h2, h2.hdr[b].prev) ELSE h2
             H1 == h1.hdr
             H2 == h2.hdr
             H3 == h3.hdr
             n == H1[b].next
             p == H2[b].prev
  <1>1. Freed(h, b) = h3
    BY DEF Freed
  <1>2. Chain(H1) /\ Marked(H, H1, b, TRUE)
    BY MarkKeepsChain
  <1>3. b \in DOMAIN H1 /\ H1[b].is_free /\ b # NULL
    BY <1>2 DEF Marked, Chain, Headers, NULL
  <1>4. GivenBack(H, H1, b)
    BY <1>2 DEF GivenBack, Marked
  <1>5. \A a \in DOMAIN H1 : H1[a].next # NULL /\ a # b /\ H1[a].next # b
                              => ~(H1[a].is_free /\ H1[H1[a].next].is_free)
    <2>1. \A a \in DOMAIN H : H[a].next \in DOMAIN H \cup {NULL}
      BY NextIsAbove
    <2> QED
      BY <1>2, <2>1 DEF Merged, MergedBut, Marked
  <1> HIDE DEF H, h1
  <1>6. \A a \in DOMAIN H1 : H1[a].next \in DOMAIN H1 \cup {NULL} /\ (H1[a].next # NULL => H1[a].next > a /\ a \in Nat)
    BY <1>2, NextIsAbove
  <1>7. Chain(H2) /\ SameHeld(H1, H2) /\ b \in DOMAIN H2 /\ H2[b].is_free /\ MergedBut(H2, b)
    <2>1. CASE IsFree(h1, n)
      <3>1. n # NULL /\ H1[n].is_free /\ H2 = Absorb(h1, b).hdr
        BY <2>1 DEF IsFree
      <3>2. Absorbed(H1, H2, b)
        BY <1>2, <1>3, <3>1, AbsorbFields
      <3> HIDE DEF h2
      <3>3. Chain(H2) /\ SameHeld(H1, H2) /\ b \in DOMAIN H2 /\ H2[b].is_free
        <4>1. Chain(H2) /\ b \in DOMAIN H2
          BY <1>2, <1>3, <3>1, <3>2, AbsorbKeepsChain
        <4>2. SameHeld(H1, H2)
          BY <1>3, <3>1, <3>2, AbsorbKeepsHeld
        <4> QED
          BY <1>3, <3>2, <4>1, <4>2 DEF Absorbed
      <3>4. MergedBut(H2, b)
        <4> SUFFICES ASSUME NEW a \in DOMAIN H2, H2[a].next # NULL, H2[a].next # b,
                            H2[a].is_free, H2[H2[a].next].is_free
                     PROVE  FALSE
          BY DEF MergedBut
        <4>1. H2[a].next \in DOMAIN H2
          BY <3>3, NextIsAbove
        <4>2. CASE a = b
          <5>1. n \in DOMAIN H1 /\ n > b /\ b \in Nat /\ H1[n].next = H2[a].next
            BY <1>3, <1>6, <3>1, <3>2, <4>2 DEF Absorbed
          <5>2. H1[H1[n].next].is_free
            BY <3>2, <4>1, <5>1 DEF Absorbed
          <5> QED
            BY <1>5, <3>1, <5>1, <5>2
        <4>3. CASE a # b
          <5>1. a \in DOMAIN H1 /\ H1[a].next = H2[a].next /\ H1[a].is_free /\ H1[H1[a].next].is_free
            BY <3>2, <4>1, <4>3 DEF Absorbed
          <5> QED
            BY <1>5, <4>3, <5>1
        <4> QED
          BY <4>2, <4>3
      <3> QED
        BY <3>3, <3>4
    <2>2. CASE ~IsFree(h1, n)
      <3>1. H2 = H1
        BY <2>2
      <3>2. n = NULL \/ ~H1[n].is_free
        BY <2>2 DEF IsFree
      <3> HIDE DEF h2
      <3>3. MergedBut(H1, b)
        BY <1>5, <3>2 DEF MergedBut
      <3> QED
        BY <1>2, <1>3, <3>1, <3>3 DEF SameHeld
    <2> QED
      BY <2>1, <2>2
  <1> HIDE DEF h2
  <1>8. \A a \in DOMAIN H2 : H2[a].next = b => a = p
    BY <1>3, <1>7, <1>2 DEF Chain, Forward
  <1>9. p = NULL \/ (p \in DOMAIN H2 /\ H2[p].next = b)
    BY <1>7 DEF Chain, Backward, Headers
  <1>10. Chain(H3) /\ SameHeld(H2, H3) /\ Merged(H3)
    <2>1. CASE IsFree(h2, p)
      <3>1. p # NULL /\ H2[p].is_free /\ H3 = Absorb(h2, p).hdr /\ p \in DOMAIN H2 /\ H2[p].next = b
        BY <1>9, <2>1 DEF IsFree
      <3>2. Absorbed(H2, H3, p)
        BY <1>3, <1>7, <3>1, AbsorbFields
      <3> HIDE DEF h3, p
      <3>3. Chain(H3)
        BY <1>3, <1>7, <3>1, <3>2, AbsorbKeepsChain
      <3>4. SameHeld(H2, H3)
        BY <1>7, <3>1, <3>2, AbsorbKeepsHeld
      <3>5. Merged(H3)
        <4> SUFFICES ASSUME NEW a \in DOMAIN H3, H3[a].next # NULL, H3[a].is_free, H3[H3[a].next].is_free
                     PROVE  FALSE
          BY DEF Merged, MergedBut
        <4>1. H3[a].next \in DOMAIN H3 /\ a \in DOMAIN H2 /\ H2[a].is_free
          BY <3>2, <3>3, NextIsAbove DEF Absorbed
        <4>2. H2[H3[a].next].is_free /\ H3[a].next # b
          BY <3>1, <3>2, <4>1 DEF Absorbed
        <4>3. CASE a = p
          <5>1. H2[b].next = H3[a].next
            BY <3>1, <3>2, <4>3 DEF Absorbed
          <5> QED
            BY <1>7, <4>2, <5>1 DEF MergedBut
        <4>4. CASE a # p
          <5>1. H2[a].next = H3[a].next
            BY <3>2, <4>4 DEF Absorbed
          <5> QED
            BY <1>7, <4>1, <4>2, <5>1 DEF MergedBut
        <4> QED
          BY <4>3, <4>4
      <3> QED
        BY <3>3, <3>4, <3>5
    <2>2. CASE ~IsFree(h2, p)
      <3>1. H3 = H2
        BY <2>2
      <3>2. p = NULL \/ ~H2[p].is_free
        BY <2>2 DEF IsFree
      <3> HIDE DEF h3, p
      <3>3. Merged(H2)
        BY <1>7, <1>8, <3>2, <1>9 DEF Merged, MergedBut, Chain, Headers, NULL
      <3> QED
        BY <1>7, <3>1, <3>3 DEF SameHeld
    <2> QED
      BY <2>1, <2>2
  <1>11. GivenBack(H, H3, b)
    <2> HIDE DEF H1, H2, H3
    <2> QED
      BY <1>4, <1>7, <1>10 DEF GivenBack, SameHeld
  <1> QED
    <2> HIDE DEF h3
    <2> QED
      BY <1>1, <1>10, <1>11 DEF H

-----------------------------------------------------------------------------
(* Rounding up to a multiple stays below the next one. *)
LEMMA RoundUp ==
    ASSUME NEW x \in Nat, NEW w \in Nat \ {0}
    PROVE  LET r == ((x + w - 1) \div w) * w IN r \in Nat /\ r >= x /\ r <= x + w - 1
  <1> DEFINE y == x + w - 1
             q == y \div w
  <1>1. y \in Nat /\ q \in Nat
    OBVIOUS
  <1>2. q * w <= y /\ y < q * w + w
    BY <1>1
  <1> HIDE DEF q
  <1>3. q * w \in Nat
    BY <1>1
  <1> QED
    BY <1>2, <1>3 DEF q

(* A whole number of words is at least the bytes it was rounded up from. *)
LEMMA WordsHold ==
    ASSUME NEW bytes \in Nat
    PROVE  Words(bytes) \in Nat /\ 8 * Words(bytes) >= bytes /\ 8 * Words(bytes) <= bytes + 7
  BY DEF Words

(* A pointer into a newly allocated block joins those the callers hold. *)
LEMMA AddOwner ==
    ASSUME NEW H, NEW G, NEW L, NEW p, NEW need, Owners(H, L), TakenFrom(H, G, p.block, need), Fits(G, p)
    PROVE  Owners(G, L \cup {p}) /\ p \notin L /\ \A q \in L : q.block # p.block
  <1>1. \A q \in L : q.block \in DOMAIN H /\ ~H[q.block].is_free
    BY DEF Owners, Fits
  <1>2. \A q \in L : q.block # p.block /\ q # p
    BY <1>1 DEF TakenFrom
  <1>3. \A q \in L : Fits(G, q)
    <2> SUFFICES ASSUME NEW q \in L
                 PROVE  Fits(G, q)
      OBVIOUS
    <2>1. q.block \in DOMAIN G /\ ~G[q.block].is_free /\ EndIn(G, q.block) = EndIn(H, q.block)
      BY <1>1 DEF TakenFrom, EndIn
    <2> QED
      BY <2>1 DEF Owners, Fits
  <1>4. \A b \in DOMAIN G : ~G[b].is_free => \E q \in L \cup {p} : q.block = b
    BY DEF TakenFrom, Owners
  <1>5. \A q, r \in L \cup {p} : q.block = r.block => q = r
    BY <1>2 DEF Owners
  <1> QED
    BY <1>2, <1>3, <1>4, <1>5 DEF Owners

(* When a block is given back, the pointer to it is the only one that goes. *)
LEMMA DropOwner ==
    ASSUME NEW H, NEW G, NEW L, NEW p \in L, Owners(H, L), GivenBack(H, G, p.block)
    PROVE  Owners(G, L \ {p})
  <1>1. \A q \in L \ {p} : q.block \in DOMAIN H /\ ~H[q.block].is_free /\ q.block # p.block
    BY DEF Owners, Fits
  <1>2. \A q \in L \ {p} : Fits(G, q)
    <2> SUFFICES ASSUME NEW q \in L \ {p}
                 PROVE  Fits(G, q)
      OBVIOUS
    <2>1. q.block \in DOMAIN G /\ ~G[q.block].is_free /\ EndIn(G, q.block) = EndIn(H, q.block)
      BY <1>1 DEF GivenBack, EndIn
    <2> QED
      BY <2>1 DEF Owners, Fits
  <1>3. \A b \in DOMAIN G : ~G[b].is_free => \E q \in L \ {p} : q.block = b
    BY DEF GivenBack, Owners
  <1>4. \A q, r \in L \ {p} : q.block = r.block => q = r
    BY DEF Owners
  <1> QED
    BY <1>2, <1>3, <1>4 DEF Owners

(* What khmalloc returns lies inside the block it took. *)
LEMMA MallocFits ==
    ASSUME NEW H, NEW G, NEW b, NEW bytes \in Nat, Chain(G), TakenFrom(H, G, b, Words(bytes) + PTR)
    PROVE  Fits(G, [ptr |-> Payload(b), bytes |-> bytes, block |-> b])
  <1>1. b \in DOMAIN G /\ ~G[b].is_free /\ b \in Nat /\ G[b].size \in Nat /\ G[b].size >= Words(bytes) + PTR
    BY NextIsAbove DEF TakenFrom
  <1>2. /\ Payload(b) \in Nat
        /\ 8 * Payload(b) + bytes <= 8 * EndIn(G, b)
    <2>1. Words(bytes) \in Nat /\ 8 * Words(bytes) >= bytes
      BY WordsHold
    <2> QED
      BY <1>1, <2>1 DEF Payload, EndIn, HDR, PTR
  <1> QED
    BY <1>1, <1>2 DEF Fits

(* What khaligned_alloc returns lies inside the block it took: the extra *)
(* bytes it asks for cover the rounding up.                              *)
LEMMA AlignedFits ==
    ASSUME NEW H, NEW G, NEW b, NEW bytes \in Nat, NEW al \in Nat \ {0}, Chain(G),
           TakenFrom(H, G, b, Words(AlignedRequest(al, bytes)) + PTR)
    PROVE  Fits(G, [ptr |-> ((Payload(b) + Words(al) - 1) \div Words(al)) * Words(al),
                    bytes |-> bytes, block |-> b])
  <1> DEFINE ask == AlignedRequest(al, bytes)
             r == ((Payload(b) + Words(al) - 1) \div Words(al)) * Words(al)
  <1>1. b \in DOMAIN G /\ ~G[b].is_free /\ b \in Nat /\ G[b].size \in Nat /\ G[b].size >= Words(ask) + PTR
    BY NextIsAbove DEF TakenFrom
  <1>2. ask \in Nat /\ ask = bytes + al + 8 /\ Payload(b) \in Nat /\ Payload(b) = b + 5
    BY <1>1 DEF AlignedRequest, Payload, HDR, PTR
  <1>3. Words(al) \in Nat \ {0} /\ 8 * Words(al) <= al + 7
    BY WordsHold
  <1>4. r \in Nat /\ r >= Payload(b) /\ r <= Payload(b) + Words(al) - 1
    BY <1>2, <1>3, RoundUp
  <1>5. Words(ask) \in Nat /\ 8 * Words(ask) >= ask
    BY <1>2, WordsHold
  <1> HIDE DEF r, ask
  <1>6. 8 * r + bytes <= 8 * EndIn(G, b)
    BY <1>1, <1>2, <1>3, <1>4, <1>5 DEF EndIn, HDR, PTR
  <1> QED
    BY <1>1, <1>4, <1>6 DEF Fits, r

-----------------------------------------------------------------------------
(* The single free block of kheap_init is a merged chain that nobody holds. *)
LEMMA InitList ==
    ASSUME HeapInit
    PROVE  ListInv
  <1> DEFINE first == [is_free |-> TRUE, size |-> HeapWords - HDR, next |-> NULL, prev |-> NULL]
  <1>1. hdr = [b \in {0} |-> first] /\ live = {} /\ first \in Header
    BY HeapAssumption DEF HeapInit, Header, HDR, NULL
  <1>2. /\ hdr \in [DOMAIN hdr -> Header] /\ DOMAIN hdr = {0}
        /\ hdr[0].is_free /\ hdr[0].next = NULL /\ hdr[0].prev = NULL /\ hdr[0].size = HeapWords - HDR
    BY <1>1
  <1>3. EndIn(hdr, 0) = HeapWords
    BY <1>2, HeapAssumption DEF EndIn, HDR
  <1>4. Chain(hdr)
    BY <1>2, <1>3, HeapAssumption DEF Chain, Headers, Forward, Backward, Apart
  <1> QED
    BY <1>1, <1>2, <1>4 DEF ListInv, Merged, MergedBut, Owners

(* khmalloc keeps the list, and who holds what of it. *)
LEMMA MallocStep ==
    ASSUME ListInv, \A need \in Nat : Finds(heap, need), NEW bytes \in Requests, khmalloc(bytes)
    PROVE  ListInv'
  <1> DEFINE t == Taken(heap, bytes)
             p == [ptr |-> Payload(t.block), bytes |-> bytes, block |-> t.block]
  <1>1. bytes \in Nat /\ Words(bytes) + PTR \in Nat /\ heap.hdr = hdr
    BY HeapAssumption, WordsHold DEF PTR, heap
  <1>2. hdr' = t.heap.hdr /\ live' = IF t.block = NULL THEN live ELSE live \cup {p}
    BY DEF khmalloc, Becomes
  <1>3. /\ t.block = NULL => t.heap = heap
        /\ t.block # NULL => /\ Chain(t.heap.hdr) /\ Merged(t.heap.hdr)
                            /\ TakenFrom(hdr, t.heap.hdr, t.block, Words(bytes) + PTR)
    BY <1>1, TakenKeeps DEF ListInv
  <1> HIDE DEF t
  <1>4. CASE t.block = NULL
    BY <1>1, <1>2, <1>3, <1>4 DEF ListInv
  <1>5. CASE t.block # NULL
    <2>1. Fits(hdr', p)
      BY <1>1, <1>2, <1>3, <1>5, MallocFits
    <2>2. TakenFrom(hdr, hdr', p.block, Words(bytes) + PTR) /\ Owners(hdr, live)
      BY <1>2, <1>3, <1>5 DEF ListInv
    <2> HIDE DEF p
    <2>3. Owners(hdr', live \cup {p})
      BY <2>1, <2>2, AddOwner
    <2> QED
      BY <1>2, <1>3, <1>5, <2>3 DEF ListInv
  <1> QED
    BY <1>4, <1>5

(* khaligned_alloc keeps the list, and who holds what of it. *)
LEMMA AlignedStep ==
    ASSUME ListInv, \A need \in Nat : Finds(heap, need),
           NEW al \in Alignments, NEW bytes \in Requests, khaligned_alloc(al, bytes)
    PROVE  ListInv'
  <1> DEFINE ask == AlignedRequest(al, bytes)
             t == Taken(heap, ask)
             p == [ptr |-> ((Payload(t.block) + Words(al) - 1) \div Words(al)) * Words(al),
                   bytes |-> bytes, block |-> t.block]
  <1>1. bytes \in Nat /\ al \in Nat \ {0} /\ ask \in Nat
    BY HeapAssumption DEF AlignedRequest, PTR
  <1>2. hdr' = t.heap.hdr /\ live' = IF t.block = NULL THEN live ELSE live \cup {p}
    BY DEF khaligned_alloc, Becomes
  <1>3. Words(ask) + PTR \in Nat /\ heap.hdr = hdr
    BY <1>1, WordsHold DEF PTR, heap
  <1>4. /\ t.block = NULL => t.heap = heap
        /\ t.block # NULL => /\ Chain(t.heap.hdr) /\ Merged(t.heap.hdr)
                            /\ TakenFrom(hdr, t.heap.hdr, t.block, Words(ask) + PTR)
    BY <1>1, <1>3, TakenKeeps DEF ListInv
  <1> HIDE DEF t
  <1>5. CASE t.block = NULL
    BY <1>2, <1>3, <1>4, <1>5 DEF ListInv
  <1>6. CASE t.block # NULL
    <2>1. Fits(hdr', p)
      BY <1>1, <1>2, <1>4, <1>6, AlignedFits
    <2>2. TakenFrom(hdr, hdr', p.block, Words(ask) + PTR) /\ Owners(hdr, live)
      BY <1>2, <1>4, <1>6 DEF ListInv
    <2> HIDE DEF p
    <2>3. Owners(hdr', live \cup {p})
      BY <2>1, <2>2, AddOwner
    <2> QED
      BY <1>2, <1>4, <1>6, <2>3 DEF ListInv
  <1> QED
    BY <1>5, <1>6

(* khfree keeps the list, and who holds what of it. *)
LEMMA FreeStep ==
    ASSUME ListInv, NEW p \in live, khfree(p)
    PROVE  ListInv'
  <1>1. p.block \in DOMAIN hdr /\ heap.hdr = hdr
    BY DEF ListInv, Owners, Fits, heap
  <1>2. hdr' = Freed(heap, p.block).hdr /\ live' = live \ {p}
    BY DEF khfree, Becomes
  <1>3. Chain(hdr') /\ Merged(hdr') /\ GivenBack(hdr, hdr', p.block)
    BY <1>1, <1>2, FreedKeeps DEF ListInv
  <1>4. Owners(hdr', live \ {p})
    BY <1>3, DropOwner DEF ListInv
  <1> QED
    BY <1>2, <1>3, <1>4 DEF ListInv

(* khrealloc keeps the list, and who holds what of it: a resize in place, *)
(* a request that is refused, and a move to a new block.                  *)
LEMMA ReallocStep ==
    ASSUME ListInv, \A need \in Nat : Finds(heap, need),
           NEW p \in live, NEW bytes \in Requests, khrealloc(p, bytes)
    PROVE  ListInv'
  <1> DEFINE t == Taken(heap, bytes)
             q == [ptr |-> Payload(t.block), bytes |-> bytes, block |-> t.block]
             r == [p EXCEPT !.bytes = bytes]
  <1>1. bytes \in Nat /\ Words(bytes) + PTR \in Nat /\ heap.hdr = hdr
    BY HeapAssumption, WordsHold DEF PTR, heap
  <1>2. Fits(hdr, p) /\ p.ptr = Payload(p.block)
    BY DEF ListInv, Owners, khrealloc
  <1>3. CASE 8 * hdr[p.block].size >= bytes + 8 * PTR
    <2>1. live' = (live \ {p}) \cup {r} /\ hdr' = hdr
      BY <1>3 DEF khrealloc
    <2>2. /\ r \in [ptr : Nat, bytes : Nat, block : Nat]
          /\ r.ptr = p.ptr /\ r.block = p.block /\ r.bytes = bytes
      BY <1>1, <1>2 DEF Fits
    <2>3. p.block \in Nat /\ hdr[p.block].size \in Nat
      BY <1>2, NextIsAbove DEF ListInv, Fits
    <2>4. 8 * r.ptr + r.bytes <= 8 * EndIn(hdr, r.block)
      BY <1>1, <1>2, <1>3, <2>2, <2>3 DEF Payload, EndIn, HDR, PTR
    <2> HIDE DEF r
    <2>5. Fits(hdr, r)
      BY <1>2, <2>2, <2>4 DEF Fits
    <2>6. Owners(hdr, (live \ {p}) \cup {r})
      BY <2>2, <2>5 DEF ListInv, Owners
    <2> QED
      BY <2>1, <2>6 DEF ListInv
  <1>4. CASE ~(8 * hdr[p.block].size >= bytes + 8 * PTR) /\ t.block = NULL
    <2>1. UNCHANGED heapVars
      BY <1>4 DEF khrealloc
    <2> QED
      BY <2>1 DEF heapVars, ListInv
  <1>5. CASE ~(8 * hdr[p.block].size >= bytes + 8 * PTR) /\ t.block # NULL
    <2> DEFINE G == t.heap.hdr
    <2>1. hdr' = Freed(t.heap, p.block).hdr /\ live' = (live \ {p}) \cup {q}
      BY <1>5 DEF khrealloc, Becomes
    <2>2. Chain(G) /\ Merged(G) /\ TakenFrom(hdr, G, t.block, Words(bytes) + PTR)
      BY <1>1, <1>5, TakenKeeps DEF ListInv
    <2> HIDE DEF t
    <2>3. Fits(G, q) /\ q.block = t.block
      BY <1>1, <2>2, MallocFits
    <2> HIDE DEF q
    <2>4. Owners(G, live \cup {q}) /\ q \notin live
      BY <2>2, <2>3, AddOwner DEF ListInv
    <2>5. p.block \in DOMAIN G /\ p \in live \cup {q}
      BY <2>4 DEF Owners, Fits
    <2>6. Chain(hdr') /\ Merged(hdr') /\ GivenBack(G, hdr', p.block)
      BY <2>1, <2>2, <2>5, FreedKeeps
    <2>7. Owners(hdr', (live \cup {q}) \ {p})
      BY <2>4, <2>5, <2>6, DropOwner
    <2>8. (live \cup {q}) \ {p} = live'
      BY <2>1, <2>4
    <2> QED
      BY <2>6, <2>7, <2>8 DEF ListInv
  <1> QED
    BY <1>3, <1>4, <1>5

(* No step of HeapNext breaks the list or what the callers hold of it. *)
LEMMA NextList ==
    ASSUME ListInv, \A need \in Nat : Finds(heap, need), [HeapNext]_heapVars
    PROVE  ListInv'
  <1>1. CASE HeapNext
    BY <1>1, MallocStep, AlignedStep, FreeStep, ReallocStep DEF HeapNext
  <1>2. CASE UNCHANGED heapVars
    BY <1>2 DEF heapVars, ListInv
  <1> QED
    BY <1>1, <1>2
=============================================================================
