------------------------------ MODULE KMalloc -------------------------------
(***************************************************************************)
(* kmalloc and kfree (krnl/mm.c) with the two allocators they choose from: *)
(* the slab caches of krnl/mem/kslab.c and the buddy pool of               *)
(* krnl/mem/kbuddy.c.  Pool addresses are in units of the smallest block   *)
(* (64 bytes); the doubly linked lists are sequences, first entry first.   *)
(* The contents of objects are left out, except that whoever holds a       *)
(* buddy block may overwrite old headers inside it.                        *)
(***************************************************************************)
EXTENDS Integers, Sequences, SequencesExt, FiniteSets, FiniteSetsExt

CONSTANTS
    PoolStarts,    \* the addresses pmm_alloc may give the pool, in units
    PoolUnits,     \* pool_size
    MaxOrder,      \* BUDDY_MAX_ORDER
    ObjectSizes,   \* the sizes of the kmalloc caches, in bytes
    SlabPages,     \* the pages pmm_alloc can still give to slabs
    PageSize,      \* the bytes of a page
    Sizes          \* bound: the sizes kmalloc is asked for, in bytes

UNIT == 64         \* 1 << BUDDY_MIN_SHIFT
BUDDY_HDR == 24    \* sizeof(kmem_buddy_block_t)
SLAB_HDR == 48     \* sizeof(slab_t)
None == [kind |-> "null"]

VARIABLES
    pool,          \* [start, hdr, lists]: hdr[a] = [order, is_free] wherever the magic is found
    slab,          \* page -> [cache, free_list, free_count]
    cache,         \* object size -> [partial, full, free], lists of slabs
    held           \* what callers hold: [kind, at, obj, bytes]

kmallocVars == <<pool, slab, cache, held>>

Orders == 0 .. MaxOrder
PerSlab(c) == (PageSize - SLAB_HDR) \div c
Without(s, x) == SelectSeq(s, LAMBDA y : y # x)

-----------------------------------------------------------------------------
(* the largest block that fits and is aligned by its absolute address *)
OrderAt(a, remaining) ==
    Max({0} \cup {o \in Orders : remaining >= 2^o /\ a % 2^o = 0})

kmem_buddy_init(start) ==
    LET carve[n \in 0 .. PoolUnits] ==
            IF n = 0 THEN [start |-> start, hdr |-> [a \in {} |-> 0], lists |-> [o \in Orders |-> <<>>], top |-> start]
            ELSE LET p == carve[n - 1]
                     rest == start + PoolUnits - p.top
                     o == OrderAt(p.top, rest)
                 IN IF rest = 0 THEN p
                    ELSE [p EXCEPT !.hdr = [a \in DOMAIN @ \cup {p.top} |->
                                               IF a = p.top THEN [order |-> o, is_free |-> TRUE] ELSE @[a]],
                                   !.lists[o] = <<p.top>> \o @,
                                   !.top = @ + 2^o]
        done == carve[PoolUnits]
    IN [start |-> done.start, hdr |-> done.hdr, lists |-> done.lists]

TargetOrder(bytes) == Min({o \in 0 .. MaxOrder + 1 : UNIT * 2^o >= bytes + BUDDY_HDR} \cup {MaxOrder + 1})

(* kmem_buddy_alloc: the first block of the lowest order that has one, split down *)
BuddyOrders(bytes) == {o \in Orders : o >= TargetOrder(bytes) /\ pool.lists[o] # <<>>}

SplitLists(b, from, to) ==
    [o \in Orders |-> IF o = from THEN Tail(pool.lists[o])
                      ELSE IF o \in to .. from - 1 THEN <<b + 2^o>> \o pool.lists[o]
                      ELSE pool.lists[o]]

BuddyTaken(bytes) ==
    LET to == TargetOrder(bytes)
        from == Min(BuddyOrders(bytes))
        b == Head(pool.lists[from])
        halves == {b + 2^o : o \in to .. from - 1}
    IN [at |-> b,
        pool |-> [pool EXCEPT
            !.lists = SplitLists(b, from, to),
            !.hdr = [a \in DOMAIN @ \cup halves |->
                        IF a = b THEN [order |-> to, is_free |-> FALSE]
                        ELSE IF a \in halves
                        THEN [order |-> CHOOSE o \in to .. from - 1 : a = b + 2^o, is_free |-> TRUE]
                        ELSE @[a]]]]

(* the address whose bit of weight 2^order, relative to the pool, is flipped *)
BuddyOf(a, o) ==
    LET rel == a - pool.start
    IN pool.start + IF (rel \div 2^o) % 2 = 0 THEN rel + 2^o ELSE rel - 2^o

(* mutant: whatever is free next to the block is merged, of any order *)
Mergeable_AnyOrder(p, a, o) == a < p.start + PoolUnits /\ a \in DOMAIN p.hdr /\ p.hdr[a].is_free

Mergeable(p, a, o) ==
    a < p.start + PoolUnits /\ a \in DOMAIN p.hdr /\ p.hdr[a].is_free /\ p.hdr[a].order = o

(* kmem_buddy_free: the loop over the orders; headers that are merged away stay in memory *)
BuddyFreed(b) ==
    LET first == pool.hdr[b].order
        merge[o \in first .. MaxOrder] ==
            IF o = first THEN [pool |-> pool, at |-> b, order |-> first]
            ELSE LET m == merge[o - 1]
                     buddy == BuddyOf(m.at, o - 1)
                     low == Min({m.at, buddy})
                 IN IF m.order # o - 1 \/ ~Mergeable(m.pool, buddy, o - 1) THEN m
                    ELSE [pool |-> [m.pool EXCEPT !.lists[o - 1] = Without(@, buddy), !.hdr[low].order = o],
                          at |-> low, order |-> o]
        end == merge[MaxOrder]
    IN [end.pool EXCEPT !.hdr[end.at].is_free = TRUE, !.lists[end.order] = <<end.at>> \o @]

-----------------------------------------------------------------------------
(* kmem_cache_alloc: a partial slab, else a free one, else a new page if there is one *)
SlabOf(c) ==
    IF cache[c].partial # <<>> THEN {Head(cache[c].partial)}
    ELSE IF cache[c].free # <<>> THEN {Head(cache[c].free)}
    ELSE SlabPages \ DOMAIN slab

SlabIn(c, s) ==
    IF s \in DOMAIN slab THEN slab
    ELSE [t \in DOMAIN slab \cup {s} |->
             IF t # s THEN slab[t]
             ELSE [cache |-> c, free_list |-> [i \in 1 .. PerSlab(c) |-> i], free_count |-> PerSlab(c)]]

SlabTaken(c, s) ==
    LET sl == SlabIn(c, s)
        partial == IF cache[c].partial # <<>> THEN cache[c].partial ELSE <<s>>
        usedUp == sl[s].free_count = 1
    IN /\ slab' = [sl EXCEPT ![s].free_list = Tail(@), ![s].free_count = @ - 1]
       /\ cache' = [cache EXCEPT ![c] =
             [partial |-> IF usedUp THEN Without(partial, s) ELSE partial,
              full |-> IF usedUp THEN <<s>> \o @.full ELSE @.full,
              free |-> Without(@.free, s)]]

(* mutant: the tests are made in the other order *)
FreedLists_Swapped(ls, s, n, per) ==
    IF n = per THEN [ls EXCEPT !.partial = Without(@, s), !.free = <<s>> \o @]
    ELSE IF n = 1 THEN [ls EXCEPT !.full = Without(@, s), !.partial = <<s>> \o @]
    ELSE ls

(* kmem_cache_free: the lists after the count of free objects has become n *)
FreedLists(ls, s, n, per) ==
    IF n = 1 THEN [ls EXCEPT !.full = Without(@, s), !.partial = <<s>> \o @]
    ELSE IF n = per THEN [ls EXCEPT !.partial = Without(@, s), !.free = <<s>> \o @]
    ELSE ls

kmem_cache_free(p) ==
    LET c == slab[p.at].cache
        n == slab[p.at].free_count + 1
    IN /\ slab' = [slab EXCEPT ![p.at].free_list = <<p.obj>> \o @, ![p.at].free_count = n]
       /\ cache' = [cache EXCEPT ![c] = FreedLists(@, p.at, n, PerSlab(c))]

-----------------------------------------------------------------------------
KmallocInit ==
    /\ \E start \in PoolStarts : pool = kmem_buddy_init(start)
    /\ slab = [s \in {} |-> 0]
    /\ cache = [c \in ObjectSizes |-> [partial |-> <<>>, full |-> <<>>, free |-> <<>>]]
    /\ held = {}

(* mutant: a class also serves requests one byte too long for it *)
FittingSizes_OneOff(bytes) == {c \in ObjectSizes : c + 1 >= bytes}

FittingSizes(bytes) == {c \in ObjectSizes : c >= bytes}

(* a request no allocator can serve returns NULL and changes nothing *)
kmalloc(bytes) ==
    IF FittingSizes(bytes) # {}
    THEN LET c == Min(FittingSizes(bytes))
         IN /\ SlabOf(c) # {}
            /\ \E s \in {CHOOSE t \in SlabOf(c) : TRUE} :
                  /\ SlabTaken(c, s)
                  /\ held' = held \cup {[kind |-> "slab", at |-> s, bytes |-> bytes,
                                         obj |-> Head(SlabIn(c, s)[s].free_list)]}
            /\ UNCHANGED pool
    ELSE /\ BuddyOrders(bytes) # {}
         /\ pool' = BuddyTaken(bytes).pool
         /\ held' = held \cup {[kind |-> "buddy", at |-> BuddyTaken(bytes).at, obj |-> 0, bytes |-> bytes]}
         /\ UNCHANGED <<slab, cache>>

(* the magic below the pointer decides first, then the one at the start of its page *)
kfree(p) ==
    /\ held' = held \ {p}
    /\ IF p.kind = "buddy" /\ p.at \in DOMAIN pool.hdr
       THEN ~pool.hdr[p.at].is_free /\ pool' = BuddyFreed(p.at) /\ UNCHANGED <<slab, cache>>
       ELSE kmem_cache_free(p) /\ UNCHANGED pool

(* the holder of a block overwrites a unit of it and with it an old header *)
Overwrite(p, a) ==
    /\ p.kind = "buddy"
    /\ a \in DOMAIN pool.hdr
    /\ a \in p.at + 1 .. p.at + 2^pool.hdr[p.at].order - 1
    /\ pool' = [pool EXCEPT !.hdr = [x \in DOMAIN @ \ {a} |-> @[x]]]
    /\ UNCHANGED <<slab, cache, held>>

KmallocNext ==
    \/ \E bytes \in Sizes : kmalloc(bytes)
    \/ \E p \in held : kfree(p)
    \/ \E p \in held : \E a \in DOMAIN pool.hdr : Overwrite(p, a)

-----------------------------------------------------------------------------
Units(a, o) == a .. a + 2^o - 1
BuddyHeld == {p \in held : p.kind = "buddy"}
FreeBlocks == UNION {{<<a, o>> : a \in ToSet(pool.lists[o])} : o \in Orders}
Blocks == FreeBlocks \cup {<<p.at, pool.hdr[p.at].order>> : p \in BuddyHeld}

(* Although kmem_buddy_init aligns blocks by absolute address, kmem_buddy_   *)
(* free pairs them relative to the pool and merged-away headers stay behind, *)
(* listed and held blocks always tile the pool: none overlaps, none is lost, *)
(* and each listed block says in its header that it is free with its order.  *)
BuddyTiled ==
    /\ \A o \in Orders : IsInjective(pool.lists[o])
    /\ \A b \in FreeBlocks : b[1] \in DOMAIN pool.hdr /\ pool.hdr[b[1]] = [order |-> b[2], is_free |-> TRUE]
    /\ \A p \in BuddyHeld : p.at \in DOMAIN pool.hdr /\ ~pool.hdr[p.at].is_free
    /\ \A b, c \in Blocks : b # c => Units(b[1], b[2]) \cap Units(c[1], c[2]) = {}
    /\ UNION {Units(b[1], b[2]) : b \in Blocks} = pool.start .. pool.start + PoolUnits - 1

(* Every slab is on exactly one list of its cache, the one its free count    *)
(* calls for (a slab of one object never reaches the free list), and its     *)
(* free list and the objects callers hold make up the slab exactly once.     *)
SlabListsAgree ==
    \A s \in DOMAIN slab :
        LET c == slab[s].cache
            n == slab[s].free_count
            out == {p.obj : p \in {q \in held : q.kind = "slab" /\ q.at = s}}
            on(l) == Cardinality({i \in DOMAIN l : l[i] = s})
        IN /\ n = Len(slab[s].free_list) /\ IsInjective(slab[s].free_list)
           /\ out \cap ToSet(slab[s].free_list) = {}
           /\ out \cup ToSet(slab[s].free_list) = 1 .. PerSlab(c)
           /\ on(cache[c].full) = IF n = 0 THEN 1 ELSE 0
           /\ on(cache[c].free) = IF n = PerSlab(c) /\ n > 1 THEN 1 ELSE 0
           /\ on(cache[c].partial) = 1 - on(cache[c].full) - on(cache[c].free)

(* Whatever path a request took, its holder has at least the bytes it asked  *)
(* for, and no two holders have the same object.                             *)
HeldFits ==
    /\ \A p \in held :
          p.bytes <= IF p.kind = "slab" THEN slab[p.at].cache
                     ELSE UNIT * 2^pool.hdr[p.at].order - BUDDY_HDR
    /\ \A p, q \in held : p # q => <<p.kind, p.at, p.obj>> # <<q.kind, q.at, q.obj>>
=============================================================================
