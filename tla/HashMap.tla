------------------------------ MODULE HashMap -------------------------------
(***************************************************************************)
(* krnl/util/hashmap.c, a chained hash table, checked against the plain    *)
(* function it stands for.  A chain is a sequence of [key, value] records, *)
(* newest first; hash_str is a constant function with collisions.          *)
(***************************************************************************)
EXTENDS Integers, Sequences, SequencesExt, FiniteSets, FiniteSetsExt

CONSTANTS
    Key, Value,
    Hash,           \* hash_str
    Capacities,     \* the capacities hashmap_create is called with
    MaxCapacity     \* bound: khmalloc has no room for more buckets

Absent == "NULL"

VARIABLES
    buckets, capacity, size,   \* hashmap_t
    ref                        \* what the callers have put in: Key -> value or Absent

mapVars == <<buckets, capacity, size, ref>>

Empty(cap) == [i \in 0 .. cap - 1 |-> <<>>]

hashmap_create(cap) == buckets = Empty(cap) /\ capacity = cap /\ size = 0

MapInit ==
    /\ \E cap \in Capacities : hashmap_create(cap)
    /\ ref = [k \in Key |-> Absent]

(* mutant: entries keep the bucket number they had *)
Rehashed_SameBucket(cap) == [i \in 0 .. cap - 1 |-> IF i < capacity THEN Reverse(buckets[i]) ELSE <<>>]

(* rehash walks the old buckets in order and pushes each entry on its new chain *)
Rehashed(cap) ==
    LET upTo[i \in 0 .. capacity] == IF i = 0 THEN <<>> ELSE upTo[i - 1] \o buckets[i - 1]
    IN [i \in 0 .. cap - 1 |-> Reverse(SelectSeq(upTo[capacity], LAMBDA e : Hash[e.key] % cap = i))]

Loaded == size >= (capacity * 3) \div 4

(* the bucket arrays a set may work on: a loaded table doubles, unless khmalloc fails *)
Tables ==
    (IF Loaded /\ 2 * capacity <= MaxCapacity THEN {Rehashed(2 * capacity)} ELSE {})
        \cup {buckets}

Cap(b) == Cardinality(DOMAIN b)
Chain(b, k) == b[Hash[k] % Cap(b)]
Positions(b, k) == {i \in DOMAIN Chain(b, k) : Chain(b, k)[i].key = k}

hashmap_get(k) ==
    IF Positions(buckets, k) = {} THEN Absent ELSE Chain(buckets, k)[Min(Positions(buckets, k))].value

(* entry_alloc may find no memory: the set then fails, the growth stays *)
hashmap_set(k, v) ==
    \E b \in Tables : \E room \in BOOLEAN :
        LET bucket == Hash[k] % Cap(b)
        IN /\ capacity' = Cap(b)
           /\ IF Positions(b, k) # {}
              THEN /\ buckets' = [b EXCEPT ![bucket][Min(Positions(b, k))].value = v]
                   /\ ref' = [ref EXCEPT ![k] = v]
                   /\ UNCHANGED size
              ELSE IF room
              THEN /\ buckets' = [b EXCEPT ![bucket] = <<[key |-> k, value |-> v]>> \o @]
                   /\ ref' = [ref EXCEPT ![k] = v]
                   /\ size' = size + 1
              ELSE buckets' = b /\ UNCHANGED <<size, ref>>

hashmap_remove(k) ==
    /\ Positions(buckets, k) # {}
    /\ buckets' = [buckets EXCEPT ![Hash[k] % capacity] = RemoveAt(@, Min(Positions(buckets, k)))]
    /\ size' = size - 1
    /\ ref' = [ref EXCEPT ![k] = Absent]
    /\ UNCHANGED capacity

hashmap_clear ==
    /\ buckets' = Empty(capacity) /\ size' = 0
    /\ ref' = [k \in Key |-> Absent]
    /\ UNCHANGED capacity

MapNext ==
    \/ \E k \in Key, v \in Value : hashmap_set(k, v)
    \/ \E k \in Key : hashmap_remove(k)
    \/ hashmap_clear

-----------------------------------------------------------------------------
(* The table is the function its callers built, through growth, failed       *)
(* growth, failed inserts and removals: hashmap_get finds for every key the  *)
(* last value set, and size counts the keys present.                         *)
MapAgrees ==
    /\ \A k \in Key : hashmap_get(k) = ref[k]
    /\ size = Cardinality({k \in Key : ref[k] # Absent})
=============================================================================
