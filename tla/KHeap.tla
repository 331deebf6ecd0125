------------------------------- MODULE KHeap --------------------------------
(***************************************************************************)
(* krnl/mem/kheap.c, the first-fit heap behind khmalloc.  Addresses and    *)
(* sizes are in 8-byte words, the unit every request is rounded up to; a   *)
(* block header takes four words.  hdr holds the headers on the block      *)
(* list.  A call is one step: callers do not overlap (README, Runs).       *)
(***************************************************************************)
EXTENDS Integers, FiniteSets, FiniteSetsExt

CONSTANTS
    HeapWords,     \* stats.total_size
    Requests,      \* bound: the request sizes, in bytes
    Alignments     \* bound: the alignments asked for, in bytes

HDR == 4           \* sizeof(kheap_block_t)
PTR == 1           \* sizeof(kheap_block_t*)
MIN_BLOCK == 4     \* MIN_BLOCK_SIZE
NULL == -1

(* kheap_init is given whole pages: there is room for the first header.  An *)
(* alignment is a power of two.                                             *)
ASSUME HeapAssumption ==
    /\ HeapWords \in Nat /\ HeapWords >= HDR
    /\ Requests \subseteq Nat
    /\ Alignments \subseteq Nat \ {0}

VARIABLES
    hdr,           \* block address -> [is_free, size, next, prev]
    stats,         \* kheap_stat_t
    live           \* what callers hold: [ptr, bytes, block (the word below ptr)]

heapVars == <<hdr, stats, live>>

(* kheap_init: one free block *)
HeapInit ==
    /\ hdr = [b \in {0} |-> [is_free |-> TRUE, size |-> HeapWords - HDR, next |-> NULL, prev |-> NULL]]
    /\ stats = [free_size |-> HeapWords - HDR, used_size |-> HDR, block_count |-> 1]
    /\ live = {}

Words(bytes) == (bytes + 7) \div 8

(* the heap as a value: what split_block, khmalloc and khfree work on *)
heap == [hdr |-> hdr, stats |-> stats]

Counted(st, n, words) ==
    [free_size |-> st.free_size + words, used_size |-> st.used_size - words,
     block_count |-> st.block_count + n]

split_block(h, b, need) ==
    IF h.hdr[b].size <= need + HDR + MIN_BLOCK THEN h
    ELSE LET n == b + HDR + need
             after == h.hdr[b].next
             new == [is_free |-> TRUE, size |-> h.hdr[b].size - need - HDR, next |-> after, prev |-> b]
             cut == [h.hdr EXCEPT ![b].next = n, ![b].size = need]
             linked == IF after = NULL THEN cut ELSE [cut EXCEPT ![after].prev = n]
         IN [hdr |-> [a \in DOMAIN h.hdr \cup {n} |-> IF a = n THEN new ELSE linked[a]],
             stats |-> Counted(h.stats, 1, -HDR)]

(* the first block on the list that is free and large enough *)
FirstFit(h, need) ==
    LET from[b \in DOMAIN h.hdr \cup {NULL}] ==
            IF b = NULL THEN NULL
            ELSE IF h.hdr[b].is_free /\ h.hdr[b].size >= need THEN b
            ELSE from[h.hdr[b].next]
    IN from[0]

(* the block a request gets, NULL for none, and the heap afterwards *)
Taken(h, bytes) ==
    LET need == Words(bytes) + PTR
        b == FirstFit(h, need)
        s == split_block(h, b, need)
    IN IF bytes = 0 \/ b = NULL THEN [heap |-> h, block |-> NULL]
       ELSE [heap |-> [hdr |-> [s.hdr EXCEPT ![b].is_free = FALSE],
                       stats |-> Counted(s.stats, 0, -s.hdr[b].size)],
             block |-> b]

Payload(b) == b + HDR + PTR

(* mutant: two blocks are merged, the block behind them still points back to the second *)
Absorb_NoBackLink(h, b) ==
    LET n == h.hdr[b].next
        after == h.hdr[n].next
        grown == [h.hdr EXCEPT ![b].size = @ + HDR + h.hdr[n].size, ![b].next = after]
    IN [hdr |-> [a \in DOMAIN grown \ {n} |-> grown[a]], stats |-> Counted(h.stats, -1, HDR)]

(* block b takes in its successor; the absorbed header is off the list and never read again *)
Absorb(h, b) ==
    LET n == h.hdr[b].next
        after == h.hdr[n].next
        grown == [h.hdr EXCEPT ![b].size = @ + HDR + h.hdr[n].size, ![b].next = after]
        linked == IF after = NULL THEN grown ELSE [grown EXCEPT ![after].prev = b]
    IN [hdr |-> [a \in DOMAIN linked \ {n} |-> linked[a]], stats |-> Counted(h.stats, -1, HDR)]

IsFree(h, b) == b # NULL /\ h.hdr[b].is_free

Freed(h, b) ==
    LET h1 == [hdr |-> [h.hdr EXCEPT ![b].is_free = TRUE], stats |-> Counted(h.stats, 0, h.hdr[b].size)]
        h2 == IF IsFree(h1, h1.hdr[b].next) THEN Absorb(h1, b) ELSE h1
    IN IF IsFree(h2, h2.hdr[b].prev) THEN Absorb(h2, h2.hdr[b].prev) ELSE h2

Becomes(h) == hdr' = h.hdr /\ stats' = h.stats

-----------------------------------------------------------------------------
(* khcalloc is this on a product *)
khmalloc(bytes) ==
    LET t == Taken(heap, bytes)
    IN /\ Becomes(t.heap)
       /\ live' = IF t.block = NULL THEN live
                  ELSE live \cup {[ptr |-> Payload(t.block), bytes |-> bytes, block |-> t.block]}

(* mutant: nothing is asked for beyond the aligned object itself *)
AlignedRequest_NoSlack(al, bytes) == bytes

AlignedRequest(al, bytes) == bytes + al + 8 * PTR

khaligned_alloc(al, bytes) ==
    LET t == Taken(heap, AlignedRequest(al, bytes))
        words == Words(al)
        aligned == ((Payload(t.block) + words - 1) \div words) * words
    IN /\ bytes > 0
       /\ Becomes(t.heap)
       /\ live' = IF t.block = NULL THEN live
                  ELSE live \cup {[ptr |-> aligned, bytes |-> bytes, block |-> t.block]}

khfree(p) ==
    /\ ~hdr[p.block].is_free
    /\ Becomes(Freed(heap, p.block))
    /\ live' = live \ {p}

(* only for what khmalloc returned: nothing in the kernel resizes an aligned *)
(* block.  A new size of 0 is khfree.                                        *)
khrealloc(p, bytes) ==
    /\ p.ptr = Payload(p.block)
    /\ bytes > 0
    /\ IF 8 * hdr[p.block].size >= bytes + 8 * PTR
       THEN live' = (live \ {p}) \cup {[p EXCEPT !.bytes = bytes]} /\ UNCHANGED <<hdr, stats>>
       ELSE LET t == Taken(heap, bytes)
            IN IF t.block = NULL THEN UNCHANGED heapVars
               ELSE /\ Becomes(Freed(t.heap, p.block))
                    /\ live' = (live \ {p}) \cup
                          {[ptr |-> Payload(t.block), bytes |-> bytes, block |-> t.block]}

HeapNext ==
    \/ \E bytes \in Requests : khmalloc(bytes)
    \/ \E bytes \in Requests, al \in Alignments : khaligned_alloc(al, bytes)
    \/ \E p \in live : khfree(p)
    \/ \E p \in live, bytes \in Requests : khrealloc(p, bytes)

HeapSpec == HeapInit /\ [][HeapNext]_heapVars

-----------------------------------------------------------------------------
End(b) == b + HDR + hdr[b].size

(* However requests, resizes and frees are mixed, the blocks tile the heap:  *)
(* each ends where its successor begins, both links agree, no two free       *)
(* blocks stay unmerged, and the statistics are those of the list.           *)
HeapTiled ==
    /\ 0 \in DOMAIN hdr /\ hdr[0].prev = NULL
    /\ \A b \in DOMAIN hdr :
          IF hdr[b].next = NULL THEN End(b) = HeapWords
          ELSE /\ hdr[b].next = End(b) /\ End(b) \in DOMAIN hdr
               /\ hdr[End(b)].prev = b
               /\ ~(hdr[b].is_free /\ hdr[End(b)].is_free)
    /\ stats.block_count = Cardinality(DOMAIN hdr)
    /\ stats.free_size = SumFunction([b \in DOMAIN hdr |-> IF hdr[b].is_free THEN hdr[b].size ELSE 0])
    /\ stats.used_size + stats.free_size = HeapWords

(* What khmalloc, khaligned_alloc and khrealloc hand out lies inside its own *)
(* allocated block, behind the header and the back pointer that khfree reads;*)
(* every allocated block has exactly one owner.                              *)
PayloadsSeparate ==
    /\ \A p \in live :
          /\ p.block \in DOMAIN hdr /\ ~hdr[p.block].is_free
          /\ p.ptr >= Payload(p.block)
          /\ 8 * p.ptr + p.bytes <= 8 * End(p.block)
    /\ Cardinality({p.block : p \in live}) = Cardinality(live)
    /\ \A b \in DOMAIN hdr : ~hdr[b].is_free => \E p \in live : p.block = b
=============================================================================
