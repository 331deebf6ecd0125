-------------------------- MODULE KHeapCountProofs --------------------------
(***************************************************************************)
(* What khmalloc's walk along the block list finds, and what the heap's    *)
(* statistics add up to: the part of the argument about KHeap that needs   *)
(* least elements and finite sets.  With KHeapProofs it gives the          *)
(* theorems about HeapSpec at the end.                                     *)
(***************************************************************************)
EXTENDS KHeapProofs, FiniteSetTheorems, WellFoundedInduction

(* the blocks of H from b on that a search for need words can stop at *)
Fitting(H, need, b) == {a \in DOMAIN H : a >= b /\ H[a].is_free /\ H[a].size >= need}

LeastOf(S) == CHOOSE a \in S : \A c \in S : a <= c

(* where the search stops when it starts at b *)
Stop(H, need) ==
    [b \in DOMAIN H \cup {NULL} |->
        IF b = NULL \/ Fitting(H, need, b) = {} THEN NULL ELSE LeastOf(Fitting(H, need, b))]

-----------------------------------------------------------------------------
(* A set of naturals that is not empty has a least element. *)
LEMMA LeastNat ==
    ASSUME NEW T, T \subseteq Nat, T # {}
    PROVE  \E x \in T : \A y \in T : x <= y
  <1>1. \E x \in T : \A y \in T : ~(<<y, x>> \in OpToRel(<, Nat))
    BY NatLessThanWellFounded, WFMin
  <1>2. PICK x \in T : \A y \in T : ~(y < x)
    BY <1>1 DEF OpToRel
  <1>3. x \in Nat /\ \A y \in T : y \in Nat
    OBVIOUS
  <1> QED
    BY <1>2, <1>3

(* Stop solves the equation by which FirstFit's walk is defined. *)
LEMMA StopWalks ==
    ASSUME NEW H, Chain(H), NEW need \in Nat
    PROVE  Stop(H, need) = [b \in DOMAIN H \cup {NULL} |->
               IF b = NULL THEN NULL
               ELSE IF H[b].is_free /\ H[b].size >= need THEN b
               ELSE Stop(H, need)[H[b].next]]
  <1> SUFFICES ASSUME NEW b \in DOMAIN H \cup {NULL}
               PROVE  Stop(H, need)[b] = IF b = NULL THEN NULL
                                         ELSE IF H[b].is_free /\ H[b].size >= need THEN b
                                         ELSE Stop(H, need)[H[b].next]
    BY DEF Stop
  <1>1. \A a \in DOMAIN H : a \in Nat /\ NULL \notin DOMAIN H
    BY DEF Chain, Headers, NULL
  <1>2. CASE b = NULL
    BY <1>2 DEF Stop
  <1>3. CASE b # NULL /\ H[b].is_free /\ H[b].size >= need
    <2>1. b \in Fitting(H, need, b) /\ \A c \in Fitting(H, need, b) : b <= c /\ c \in Nat
      BY <1>1, <1>3 DEF Fitting
    <2>2. LeastOf(Fitting(H, need, b)) = b
      BY <2>1, <1>1, <1>3 DEF LeastOf
    <2> QED
      BY <1>3, <2>1, <2>2 DEF Stop
  <1>4. CASE b # NULL /\ ~(H[b].is_free /\ H[b].size >= need)
    <2>1. /\ H[b].next \in DOMAIN H \cup {NULL} /\ b \in DOMAIN H
          /\ H[b].next # NULL => H[b].next > b
          /\ \A a \in DOMAIN H : a > b => H[b].next # NULL /\ a >= H[b].next
      BY <1>4, NextIsAbove
    <2>2. CASE H[b].next = NULL
      <3>1. Fitting(H, need, b) = {}
        BY <1>1, <1>4, <2>1, <2>2 DEF Fitting
      <3> QED
        BY <1>4, <2>1, <2>2, <3>1 DEF Stop
    <2>3. CASE H[b].next # NULL
      <3>1. Fitting(H, need, b) = Fitting(H, need, H[b].next)
        BY <1>1, <1>4, <2>1, <2>3 DEF Fitting
      <3> QED
        BY <1>4, <2>1, <2>3, <3>1 DEF Stop
    <2> QED
      BY <2>2, <2>3
  <1> QED
    BY <1>2, <1>3, <1>4

(* FirstFit stops at the first block that is free and large enough, and    *)
(* returns NULL only when there is none.                                   *)
LEMMA FirstFitIsFirst ==
    ASSUME NEW h, Chain(h.hdr), NEW need \in Nat
    PROVE  FirstFit(h, need) = Stop(h.hdr, need)[0]
  <1> DEFINE H == h.hdr
             D == DOMAIN h.hdr \cup {NULL}
             Eq(f) == f = [b \in DOMAIN h.hdr \cup {NULL} |->
                              IF b = NULL THEN NULL
                              ELSE IF h.hdr[b].is_free /\ h.hdr[b].size >= need THEN b
                              ELSE f[h.hdr[b].next]]
             from == CHOOSE f : Eq(f)
  <1>1. FirstFit(h, need) = from[0]
    BY DEF FirstFit
  <1>2. Eq(from)
    <2>1. Eq(Stop(H, need))
      BY StopWalks
    <2> HIDE DEF Eq
    <2> QED
      BY <2>1
  <1>3. Eq(Stop(H, need))
    BY StopWalks
  <1> HIDE DEF from
  <1>4. ASSUME NEW b \in DOMAIN H, from[b] # Stop(H, need)[b]
        PROVE  FALSE
    <2> DEFINE Bad == {a \in DOMAIN H : from[a] # Stop(H, need)[a]}
               Left == {HeapWords - a : a \in Bad}
    <2>1. Left \subseteq Nat /\ Left # {}
      BY <1>4, HeapAssumption DEF Chain, Headers
    <2>2. PICK x \in Left : \A y \in Left : x <= y
      BY <2>1, LeastNat
    <2>3. PICK a \in Bad : x = HeapWords - a
      BY <2>2
    <2>4. \A c \in Bad : c <= a
      BY <2>1, <2>2, <2>3, HeapAssumption DEF Chain, Headers
    <2>5. /\ a \in DOMAIN H /\ H[a].next \in DOMAIN H \cup {NULL} /\ a # NULL /\ a \in Nat
          /\ H[a].next # NULL => H[a].next > a /\ H[a].next \in Nat
      BY <2>3, NextIsAbove DEF Chain, Headers, NULL
    <2>6. from[H[a].next] = Stop(H, need)[H[a].next]
      <3>1. CASE H[a].next = NULL
        BY <1>2, <1>3, <3>1
      <3>2. CASE H[a].next # NULL
        BY <2>4, <2>5, <3>2
      <3> QED
        BY <3>1, <3>2
    <2>7. from[a] = Stop(H, need)[a]
      BY <1>2, <1>3, <2>5, <2>6
    <2> QED
      BY <2>3, <2>7
  <1> QED
    BY <1>1, <1>4 DEF Chain, Headers

(* The walk delivers what khmalloc relies on. *)
LEMMA WalkFinds ==
    ASSUME NEW h, Chain(h.hdr), NEW need \in Nat
    PROVE  Finds(h, need)
  <1> DEFINE F == Fitting(h.hdr, need, 0)
  <1>1. 0 \in DOMAIN h.hdr /\ 0 # NULL
    BY DEF Chain, Headers, NULL
  <1>2. FirstFit(h, need) = IF F = {} THEN NULL ELSE LeastOf(F)
    BY <1>1, FirstFitIsFirst DEF Stop
  <1>3. F # {} => LeastOf(F) \in F
    <2>1. F \subseteq Nat
      BY DEF Fitting, Chain, Headers
    <2> HIDE DEF F
    <2> QED
      BY <2>1, LeastNat DEF LeastOf
  <1> QED
    BY <1>2, <1>3 DEF Finds, Fitting

-----------------------------------------------------------------------------
Pick(s) == CHOOSE x \in s : TRUE

(* g is the function by which the sum of f over S is defined *)
Sums(g, f, S) ==
    g = [s \in SUBSET S |-> IF s = {} THEN 0 ELSE f[Pick(s)] + g[s \ {Pick(s)}]]

(* The sum of f over a finite set is well defined. *)
LEMMA SumExists ==
    ASSUME NEW S, IsFiniteSet(S), NEW f \in [S -> Int]
    PROVE  \E g : Sums(g, f, S)
  <1> DEFINE Rhs(g, s) == IF s = {} THEN 0 ELSE f[Pick(s)] + g[s \ {Pick(s)}]
             UpTo(g, n) == \A s \in SUBSET S : Cardinality(s) <= n => g[s] = Rhs(g, s)
             Has(n) == \E g \in [SUBSET S -> Int] : UpTo(g, n)
             Bad == {n \in Nat : ~Has(n)}
  <1>1. \A s \in SUBSET S : IsFiniteSet(s) /\ Cardinality(s) \in Nat /\ Cardinality(s) <= Cardinality(S)
    BY FS_Subset, FS_CardinalityType
  <1>2. \A s \in SUBSET S : s # {} => /\ Pick(s) \in s /\ Pick(s) \in S
                                      /\ s \ {Pick(s)} \in SUBSET S
                                      /\ Cardinality(s \ {Pick(s)}) = Cardinality(s) - 1
    <2> SUFFICES ASSUME NEW s \in SUBSET S, s # {}
                 PROVE  /\ Pick(s) \in s /\ Pick(s) \in S
                        /\ s \ {Pick(s)} \in SUBSET S
                        /\ Cardinality(s \ {Pick(s)}) = Cardinality(s) - 1
      OBVIOUS
    <2>1. Pick(s) \in s
      BY DEF Pick
    <2> QED
      BY <2>1, <1>1, FS_RemoveElement
  <1>3. Has(0)
    <2> DEFINE z == [s \in SUBSET S |-> 0]
    <2>1. \A s \in SUBSET S : Cardinality(s) <= 0 => s = {}
      BY <1>1, FS_EmptySet
    <2>2. UpTo(z, 0) /\ z \in [SUBSET S -> Int]
      BY <2>1
    <2> QED
      BY <2>2
  <1>4. ASSUME NEW n \in Nat, Has(n)
        PROVE  Has(n + 1)
    <2>1. PICK g \in [SUBSET S -> Int] : UpTo(g, n)
      BY <1>4
    <2> DEFINE k == [s \in SUBSET S |-> Rhs(g, s)]
    <2>2. k \in [SUBSET S -> Int]
      <3> SUFFICES ASSUME NEW s \in SUBSET S
                   PROVE  Rhs(g, s) \in Int
        OBVIOUS
      <3>1. s # {} => f[Pick(s)] \in Int /\ g[s \ {Pick(s)}] \in Int
        BY <1>2
      <3> QED
        BY <3>1
    <2>3. ASSUME NEW s \in SUBSET S, Cardinality(s) <= n + 1
          PROVE  k[s] = Rhs(k, s)
      <3>1. CASE s = {}
        BY <3>1
      <3>2. CASE s # {}
        <4> DEFINE r == s \ {Pick(s)}
        <4>1. r \in SUBSET S /\ Cardinality(r) <= n
          BY <1>1, <1>2, <2>3, <3>2
        <4> HIDE DEF r
        <4>2. k[r] = g[r]
          BY <2>1, <4>1
        <4> QED
          BY <3>2, <4>2 DEF r
      <3> QED
        BY <3>1, <3>2
    <2> QED
      BY <2>2, <2>3
  <1>5. Bad = {}
    <2> SUFFICES ASSUME Bad # {}
                 PROVE  FALSE
      OBVIOUS
    <2> HIDE DEF Has
    <2>1. PICK m \in Bad : \A y \in Bad : m <= y
      BY LeastNat
    <2>2. m \in Nat /\ m # 0 /\ m - 1 \in Nat /\ m - 1 \notin Bad
      BY <2>1, <1>3
    <2>3. Has(m - 1)
      BY <2>2
    <2>4. Has((m - 1) + 1)
      BY <2>2, <2>3, <1>4
    <2> QED
      BY <2>1, <2>2, <2>4
  <1>6. PICK g \in [SUBSET S -> Int] : UpTo(g, Cardinality(S))
    <2>1. Cardinality(S) \in Nat
      BY FS_CardinalityType
    <2>2. Has(Cardinality(S))
      <3> HIDE DEF Has
      <3> QED
        BY <1>5, <2>1
    <2> QED
      BY <2>2
  <1>7. Sums(g, f, S)
    BY <1>1, <1>6 DEF Sums
  <1> QED
    BY <1>7

(* A property of finite sets that fails somewhere fails at a smallest set. *)
LEMMA LeastSubset ==
    ASSUME NEW S, IsFiniteSet(S), NEW B, B \subseteq SUBSET S, B # {}
    PROVE  \E s \in B : \A r \in B : r \subseteq s => r = s
  <1>1. IsWellFoundedOn(StrictSubsetOrdering(S), SUBSET S)
    BY FS_StrictSubsetOrderingWellFounded, FS_FiniteSubsetsOfFinite
  <1>2. PICK s \in B : \A r \in B : ~(<<r, s>> \in StrictSubsetOrdering(S))
    BY <1>1, WFMin
  <1>3. \A r \in B : r \subseteq s => r = s
    BY <1>2 DEF StrictSubsetOrdering
  <1> QED
    BY <1>3

(* The sum does not depend on the order in which the members are picked. *)
LEMMA SumTakesOut ==
    ASSUME NEW S, IsFiniteSet(S), NEW f \in [S -> Int], NEW g, Sums(g, f, S)
    PROVE  \A s \in SUBSET S : g[s] \in Int /\ \A x \in s : g[s] = f[x] + g[s \ {x}]
  <1> DEFINE P(s) == g[s] \in Int /\ \A x \in s : g[s] = f[x] + g[s \ {x}]
             Bad == {s \in SUBSET S : ~P(s)}
  <1>1. \A s \in SUBSET S : g[s] = IF s = {} THEN 0 ELSE f[Pick(s)] + g[s \ {Pick(s)}]
    BY DEF Sums
  <1>2. ASSUME NEW s \in SUBSET S, \A r \in SUBSET S : r \subseteq s /\ r # s => P(r)
        PROVE  P(s)
    <2>1. CASE s = {}
      <3>1. g[s] = 0
        BY <1>1, <2>1
      <3>2. \A x \in s : FALSE
        BY <2>1
      <3> QED
        BY <3>1, <3>2
    <2>2. CASE s # {}
      <3> DEFINE y == Pick(s)
      <3>1. y \in s /\ f[y] \in Int
        BY <2>2 DEF Pick
      <3>2. g[s] = f[y] + g[s \ {y}]
        BY <1>1, <2>2
      <3> HIDE DEF y
      <3>3. \A z \in s : s \ {z} \in SUBSET S /\ s \ {z} \subseteq s /\ s \ {z} # s
        OBVIOUS
      <3>4. \A z \in s : P(s \ {z})
        BY <1>2, <3>3
      <3>5. g[s] \in Int
        <4>1. g[s \ {y}] \in Int
          BY <3>1, <3>4
        <4> QED
          BY <3>1, <3>2, <4>1
      <3>6. ASSUME NEW x \in s
            PROVE  g[s] = f[x] + g[s \ {x}]
        <4>1. CASE x = y
          BY <3>2, <4>1
        <4>2. CASE x # y
          <5> DEFINE sx == s \ {x}
                     sy == s \ {y}
                     r == sx \ {y}
          <5>1. x \in sy /\ y \in sx /\ sy \ {x} = r
            BY <3>1, <4>2
          <5>2. P(sx) /\ P(sy)
            BY <3>1, <3>4
          <5>3. P(r)
            <6>1. r \in SUBSET S /\ r \subseteq s /\ r # s
              BY <3>1
            <6> QED
              BY <1>2, <6>1
          <5>4. f[x] \in Int
            OBVIOUS
          <5>5. g[s] = f[y] + g[sy]
            BY <3>2
          <5> HIDE DEF sx, sy, r
          <5>6. g[sy] = f[x] + g[r] /\ g[sx] = f[y] + g[r] /\ g[r] \in Int
            BY <5>1, <5>2, <5>3 DEF r
          <5>7. g[s] = f[x] + g[sx]
            BY <3>1, <5>4, <5>5, <5>6
          <5> QED
            BY <5>7 DEF sx
        <4> QED
          BY <4>1, <4>2
      <3> QED
        BY <3>5, <3>6
    <2> QED
      BY <2>1, <2>2
  <1> HIDE DEF P
  <1>3. Bad = {}
    <2> SUFFICES ASSUME Bad # {}
                 PROVE  FALSE
      OBVIOUS
    <2>1. PICK s \in Bad : \A r \in Bad : r \subseteq s => r = s
      <3>1. Bad \subseteq SUBSET S
        OBVIOUS
      <3> HIDE DEF Bad
      <3> QED
        BY <3>1, LeastSubset
    <2> QED
      BY <1>2, <2>1
  <1> QED
    BY <1>3 DEF P

(* Sums of two functions agree on the sets on which the functions do. *)
LEMMA SumsAgree ==
    ASSUME NEW S, IsFiniteSet(S), NEW f, NEW g, Sums(g, f, S),
           NEW T \in SUBSET S, NEW e, NEW k, Sums(k, e, T), \A x \in T : e[x] = f[x]
    PROVE  \A s \in SUBSET T : k[s] = g[s]
  <1> DEFINE Bad == {s \in SUBSET T : k[s] # g[s]}
  <1>1. IsFiniteSet(T)
    BY FS_Subset
  <1>2. \A s \in SUBSET T : s # {} => Pick(s) \in s
    BY DEF Pick
  <1>3. /\ \A s \in SUBSET T : k[s] = IF s = {} THEN 0 ELSE e[Pick(s)] + k[s \ {Pick(s)}]
        /\ \A s \in SUBSET T : g[s] = IF s = {} THEN 0 ELSE f[Pick(s)] + g[s \ {Pick(s)}]
    BY DEF Sums
  <1>4. Bad = {}
    <2> SUFFICES ASSUME Bad # {}
                 PROVE  FALSE
      OBVIOUS
    <2>1. PICK s \in Bad : \A r \in Bad : r \subseteq s => r = s
      <3>1. Bad \subseteq SUBSET T
        OBVIOUS
      <3> HIDE DEF Bad
      <3> QED
        BY <1>1, <3>1, LeastSubset
    <2>2. s # {} /\ s \in SUBSET T
      BY <1>3
    <2> DEFINE r == s \ {Pick(s)}
    <2>3. Pick(s) \in s /\ r \in SUBSET T /\ r \subseteq s /\ r # s
      BY <1>2, <2>2
    <2>4. k[r] = g[r]
      BY <2>1, <2>3
    <2> HIDE DEF r
    <2>5. k[s] = e[Pick(s)] + k[r] /\ g[s] = f[Pick(s)] + g[r]
      BY <1>3, <2>2 DEF r
    <2>6. e[Pick(s)] = f[Pick(s)]
      BY <2>2, <2>3
    <2> QED
      BY <2>4, <2>5, <2>6
  <1> QED
    BY <1>4

(* SumFunction is such a sum. *)
LEMMA SumFunctionSums ==
    ASSUME NEW S, IsFiniteSet(S), NEW f \in [S -> Int]
    PROVE  \E g : Sums(g, f, S) /\ SumFunction(f) = g[S]
  <1> DEFINE g == CHOOSE k : k = [s \in SUBSET S |-> IF s = {} THEN 0
                                 ELSE f[CHOOSE x \in s : TRUE] + k[s \ {CHOOSE x \in s : TRUE}]]
  <1>1. SumFunction(f) = g[S]
    BY DEF SumFunction, SumFunctionOnSet, FoldFunctionOnSet, MapThenFoldSet
  <1>2. g = CHOOSE k : Sums(k, f, S)
    BY DEF Sums, Pick
  <1> HIDE DEF g
  <1>3. Sums(g, f, S)
    BY <1>2, SumExists
  <1> QED
    BY <1>1, <1>3

(* f on S but for x *)
Without(f, S, x) == [y \in S \ {x} |-> f[y]]

(* Taking one member out of a sum. *)
LEMMA SumRemove ==
    ASSUME NEW S, IsFiniteSet(S), NEW f \in [S -> Int], NEW x \in S
    PROVE  /\ SumFunction(f) = f[x] + SumFunction(Without(f, S, x))
           /\ SumFunction(f) \in Int /\ SumFunction(Without(f, S, x)) \in Int
  <1> DEFINE T == S \ {x}
             e == Without(f, S, x)
  <1>1. PICK g : Sums(g, f, S) /\ SumFunction(f) = g[S]
    BY SumFunctionSums
  <1>2. IsFiniteSet(T) /\ T \in SUBSET S /\ e \in [T -> Int] /\ \A y \in T : e[y] = f[y]
    BY FS_Subset DEF Without
  <1> HIDE DEF e
  <1>3. PICK k : Sums(k, e, T) /\ SumFunction(e) = k[T]
    BY <1>2, SumFunctionSums
  <1>4. k[T] = g[T]
    BY <1>1, <1>2, <1>3, SumsAgree
  <1>5. g[S] = f[x] + g[T] /\ g[S] \in Int /\ g[T] \in Int
    BY <1>1, <1>2, SumTakesOut
  <1> QED
    BY <1>1, <1>3, <1>4, <1>5 DEF e

(* Changing a function at one place changes its sum by as much. *)
LEMMA SumChange ==
    ASSUME NEW S, IsFiniteSet(S), NEW f \in [S -> Int], NEW e \in [S -> Int], NEW x \in S,
           \A y \in S \ {x} : e[y] = f[y]
    PROVE  /\ SumFunction(f) \in Int /\ SumFunction(e) \in Int
           /\ SumFunction(e) = SumFunction(f) - f[x] + e[x]
  <1> DEFINE r == Without(f, S, x)
  <1>1. r = Without(e, S, x)
    BY DEF Without
  <1>2. SumFunction(f) = f[x] + SumFunction(r) /\ SumFunction(f) \in Int /\ SumFunction(r) \in Int
    BY SumRemove
  <1>3. SumFunction(e) = e[x] + SumFunction(r) /\ SumFunction(e) \in Int
    BY <1>1, SumRemove
  <1>4. f[x] \in Int /\ e[x] \in Int
    OBVIOUS
  <1> QED
    BY <1>2, <1>3, <1>4

-----------------------------------------------------------------------------
FreeWords(H) == [b \in DOMAIN H |-> IF H[b].is_free THEN H[b].size ELSE 0]

(* the statistics are those of the list *)
Counts(h) ==
    /\ h.stats \in [free_size : Int, used_size : Int, block_count : Int]
    /\ h.stats.block_count = Cardinality(DOMAIN h.hdr)
    /\ h.stats.free_size = SumFunction(FreeWords(h.hdr))
    /\ h.stats.used_size + h.stats.free_size = HeapWords

(* The list is finite, so what it counts and adds up to are integers. *)
LEMMA ListFinite ==
    ASSUME NEW H, Chain(H)
    PROVE  /\ IsFiniteSet(DOMAIN H) /\ Cardinality(DOMAIN H) \in Nat
           /\ FreeWords(H) \in [DOMAIN H -> Int]
  <1>1. IsFiniteSet(0 .. HeapWords) /\ DOMAIN H \in SUBSET (0 .. HeapWords)
    BY HeapAssumption, FS_Interval DEF Chain, Headers
  <1>2. IsFiniteSet(DOMAIN H)
    BY <1>1, FS_Subset
  <1>3. \A b \in DOMAIN H : H[b].size \in Nat
    BY NextIsAbove
  <1> QED
    BY <1>2, <1>3, FS_CardinalityType DEF FreeWords

(* khfree and khmalloc count the words of the block they mark. *)
LEMMA MarkFreeWords ==
    ASSUME NEW H, NEW G, Chain(H), Chain(G), NEW b \in DOMAIN H, NEW v \in BOOLEAN, Marked(H, G, b, v)
    PROVE  /\ SumFunction(FreeWords(H)) \in Int /\ SumFunction(FreeWords(G)) \in Int
           /\ SumFunction(FreeWords(G)) =
                 SumFunction(FreeWords(H)) - (IF H[b].is_free THEN H[b].size ELSE 0)
                                           + (IF v THEN H[b].size ELSE 0)
  <1> DEFINE f == FreeWords(H)
             e == FreeWords(G)
  <1>1. /\ IsFiniteSet(DOMAIN H) /\ f \in [DOMAIN H -> Int] /\ e \in [DOMAIN H -> Int]
        /\ \A y \in DOMAIN H \ {b} : e[y] = f[y]
    <2>1. DOMAIN G = DOMAIN H
      BY DEF Marked
    <2>2. \A y \in DOMAIN H \ {b} : e[y] = f[y]
      BY DEF Marked, FreeWords
    <2> QED
      BY <2>1, <2>2, ListFinite
  <1>2. /\ f[b] = (IF H[b].is_free THEN H[b].size ELSE 0)
        /\ e[b] = (IF v THEN H[b].size ELSE 0)
    BY DEF Marked, FreeWords
  <1> HIDE DEF f, e
  <1>3. /\ SumFunction(f) \in Int /\ SumFunction(e) \in Int
        /\ SumFunction(e) = SumFunction(f) - f[b] + e[b]
    BY <1>1, SumChange
  <1> QED
    BY <1>2, <1>3 DEF f, e

(* A split turns the words of one header from free to used. *)
LEMMA SplitFreeWords ==
    ASSUME NEW H, NEW G, Chain(H), Chain(G), NEW b \in DOMAIN H, NEW need \in Nat,
           Split(H, G, b, need), H[b].is_free
    PROVE  /\ SumFunction(FreeWords(H)) \in Int /\ SumFunction(FreeWords(G)) \in Int
           /\ SumFunction(FreeWords(G)) = SumFunction(FreeWords(H)) - HDR
           /\ Cardinality(DOMAIN G) = Cardinality(DOMAIN H) + 1
  <1> DEFINE n == b + HDR + need
             f == FreeWords(H)
             e == FreeWords(G)
             m == Without(e, DOMAIN G, n)
  <1>1. n \notin DOMAIN H /\ DOMAIN G = DOMAIN H \cup {n}
    BY DEF Split
  <1>2. /\ IsFiniteSet(DOMAIN H) /\ f \in [DOMAIN H -> Int] /\ IsFiniteSet(DOMAIN G) /\ e \in [DOMAIN G -> Int]
        /\ Cardinality(DOMAIN H) \in Nat
    BY ListFinite
  <1>3. Cardinality(DOMAIN G) = Cardinality(DOMAIN H) + 1
    BY <1>1, <1>2, FS_AddElement
  <1>4. /\ f[b] = H[b].size /\ e[b] = need /\ e[n] = H[b].size - need - HDR
        /\ \A y \in DOMAIN H \ {b} : e[y] = f[y]
    BY <1>1 DEF Split, FreeWords
  <1>5. H[b].size \in Nat
    BY NextIsAbove
  <1> HIDE DEF n, f, e
  <1>6. DOMAIN G \ {n} = DOMAIN H /\ m \in [DOMAIN H -> Int] /\ \A y \in DOMAIN H : m[y] = e[y]
    BY <1>1, <1>2 DEF Without
  <1>7. SumFunction(e) = e[n] + SumFunction(m) /\ SumFunction(e) \in Int /\ SumFunction(m) \in Int
    <2>1. n \in DOMAIN G
      BY <1>1
    <2> QED
      BY <1>2, <2>1, SumRemove
  <1> HIDE DEF m
  <1>8. SumFunction(m) = SumFunction(f) - f[b] + m[b] /\ SumFunction(f) \in Int
    BY <1>2, <1>4, <1>6, SumChange
  <1> QED
    BY <1>3, <1>4, <1>5, <1>6, <1>7, <1>8 DEF f, e, HDR

(* Merging two free blocks turns the words of one header from used to free. *)
LEMMA AbsorbFreeWords ==
    ASSUME NEW H, NEW G, Chain(H), Chain(G), NEW b \in DOMAIN H, H[b].next # NULL, Absorbed(H, G, b),
           H[b].is_free, H[H[b].next].is_free
    PROVE  /\ SumFunction(FreeWords(H)) \in Int /\ SumFunction(FreeWords(G)) \in Int
           /\ SumFunction(FreeWords(G)) = SumFunction(FreeWords(H)) + HDR
           /\ Cardinality(DOMAIN G) = Cardinality(DOMAIN H) - 1
  <1> DEFINE n == H[b].next
             f == FreeWords(H)
             e == FreeWords(G)
             m == Without(f, DOMAIN H, n)
  <1>1. n \in DOMAIN H /\ n # b /\ H[b].size \in Nat /\ H[n].size \in Nat
    BY NextIsAbove
  <1>2. DOMAIN G = DOMAIN H \ {n} /\ b \in DOMAIN G
    BY <1>1 DEF Absorbed
  <1>3. /\ IsFiniteSet(DOMAIN H) /\ f \in [DOMAIN H -> Int] /\ IsFiniteSet(DOMAIN G) /\ e \in [DOMAIN G -> Int]
        /\ Cardinality(DOMAIN H) \in Nat
    BY ListFinite
  <1>4. Cardinality(DOMAIN G) = Cardinality(DOMAIN H) - 1
    BY <1>1, <1>2, <1>3, FS_RemoveElement
  <1>5. /\ f[b] = H[b].size /\ f[n] = H[n].size /\ e[b] = H[b].size + HDR + H[n].size
        /\ \A y \in DOMAIN G \ {b} : e[y] = f[y]
    BY <1>1, <1>2 DEF Absorbed, FreeWords
  <1> HIDE DEF n, f, e
  <1>6. m \in [DOMAIN G -> Int] /\ \A y \in DOMAIN G : m[y] = f[y]
    BY <1>2, <1>3 DEF Without
  <1>7. SumFunction(f) = f[n] + SumFunction(m) /\ SumFunction(f) \in Int /\ SumFunction(m) \in Int
    BY <1>1, <1>3, SumRemove
  <1> HIDE DEF m
  <1>8. SumFunction(e) = SumFunction(m) - m[b] + e[b] /\ SumFunction(e) \in Int
    BY <1>2, <1>3, <1>5, <1>6, SumChange
  <1> QED
    BY <1>1, <1>2, <1>4, <1>5, <1>6, <1>7, <1>8 DEF f, e, HDR

(* Counted keeps the statistics true when the list changed by as much. *)
LEMMA CountedKeeps ==
    ASSUME NEW h, Counts(h), NEW G, NEW k \in Int, NEW w \in Int,
           SumFunction(FreeWords(G)) = SumFunction(FreeWords(h.hdr)) + w,
           Cardinality(DOMAIN G) = Cardinality(DOMAIN h.hdr) + k
    PROVE  Counts([hdr |-> G, stats |-> Counted(h.stats, k, w)])
  <1>1. /\ h.stats.free_size \in Int /\ h.stats.used_size \in Int /\ h.stats.block_count \in Int
        /\ h.stats.block_count = Cardinality(DOMAIN h.hdr)
        /\ h.stats.free_size = SumFunction(FreeWords(h.hdr))
        /\ h.stats.used_size + h.stats.free_size = HeapWords
    BY DEF Counts
  <1> DEFINE st == Counted(h.stats, k, w)
  <1>2. /\ st \in [free_size : Int, used_size : Int, block_count : Int]
        /\ st.free_size = h.stats.free_size + w /\ st.used_size = h.stats.used_size - w
        /\ st.block_count = h.stats.block_count + k
    BY <1>1 DEF Counted
  <1> HIDE DEF st
  <1>3. st.used_size + st.free_size = HeapWords
    BY <1>1, <1>2, HeapAssumption
  <1> QED
    BY <1>1, <1>2, <1>3 DEF Counts, st

(* khmalloc keeps the statistics true. *)
LEMMA TakenCounts ==
    ASSUME NEW h, Chain(h.hdr), Counts(h), NEW bytes \in Nat
    PROVE  Counts(Taken(h, bytes).heap)
  <1> DEFINE need == Words(bytes) + PTR
             b == FirstFit(h, need)
             s == split_block(h, b, need)
             H == h.hdr
             S == s.hdr
             G == [S EXCEPT ![b].is_free = FALSE]
  <1>1. CASE bytes = 0 \/ b = NULL
    BY <1>1 DEF Taken
  <1>2. CASE ~(bytes = 0 \/ b = NULL)
    <2>1. Taken(h, bytes).heap = [hdr |-> G, stats |-> Counted(s.stats, 0, -S[b].size)]
      BY <1>2 DEF Taken
    <2>2. need \in Nat
      BY WordsHold DEF PTR
    <2>3. b \in DOMAIN H /\ H[b].is_free /\ H[b].size \in Nat
      <3>1. Finds(h, need)
        BY <2>2, WalkFinds
      <3>2. b \in DOMAIN H /\ H[b].is_free
        BY <1>2, <3>1 DEF Finds
      <3> QED
        BY <3>2, NextIsAbove
    <2> HIDE DEF need, b
    <2>4. Chain(S) /\ Counts(s) /\ b \in DOMAIN S /\ S[b].is_free
      <3>1. CASE H[b].size <= need + HDR + MIN_BLOCK
        <4>1. s = h
          BY <3>1 DEF split_block
        <4> QED
          BY <2>3, <4>1
      <3>2. CASE ~(H[b].size <= need + HDR + MIN_BLOCK)
        <4>1. H[b].size > need + HDR + MIN_BLOCK
          BY <3>2, <2>2, <2>3 DEF HDR, MIN_BLOCK
        <4>2. Split(H, S, b, need) /\ Chain(S)
          BY <2>2, <2>3, <4>1, SplitFields, SplitKeepsChain
        <4>3. s = [hdr |-> S, stats |-> Counted(h.stats, 1, -HDR)]
          BY <3>2 DEF split_block
        <4> HIDE DEF s, S
        <4>4. b \in DOMAIN S /\ S[b].is_free
          BY <2>3, <4>2 DEF Split
        <4>5. /\ SumFunction(FreeWords(S)) = SumFunction(FreeWords(H)) - HDR /\ SumFunction(FreeWords(H)) \in Int
              /\ Cardinality(DOMAIN S) = Cardinality(DOMAIN H) + 1
          BY <2>2, <2>3, <4>2, SplitFreeWords
        <4>6. SumFunction(FreeWords(S)) = SumFunction(FreeWords(H)) + (-HDR) /\ -HDR \in Int
          BY <4>5 DEF HDR
        <4>7. Counts(s)
          BY <4>3, <4>5, <4>6, CountedKeeps
        <4> QED
          BY <4>2, <4>4, <4>7
      <3> QED
        BY <3>1, <3>2
    <2>5. Chain(G) /\ Marked(S, G, b, FALSE) /\ S[b].size \in Nat
      BY <2>4, MarkKeepsChain, NextIsAbove
    <2> HIDE DEF s, S, G
    <2>6. SumFunction(FreeWords(G)) = SumFunction(FreeWords(S)) - S[b].size + 0 /\ SumFunction(FreeWords(S)) \in Int
      BY <2>4, <2>5, MarkFreeWords
    <2>7. SumFunction(FreeWords(G)) = SumFunction(FreeWords(S)) + (-S[b].size) /\ -S[b].size \in Int
      BY <2>5, <2>6
    <2>8. Cardinality(DOMAIN G) = Cardinality(DOMAIN S) + 0
      BY <2>4, <2>5, ListFinite DEF Marked
    <2> QED
      BY <2>1, <2>4, <2>7, <2>8, CountedKeeps DEF S
  <1> QED
    BY <1>1, <1>2

(* A merge of two free blocks keeps the statistics true. *)
LEMMA AbsorbCounts ==
    ASSUME NEW h, Chain(h.hdr), Counts(h), NEW b \in DOMAIN h.hdr, h.hdr[b].next # NULL,
           h.hdr[b].is_free, h.hdr[h.hdr[b].next].is_free
    PROVE  Counts(Absorb(h, b)) /\ Chain(Absorb(h, b).hdr) /\ b \in DOMAIN Absorb(h, b).hdr
           /\ Absorb(h, b).hdr[b].is_free
  <1> DEFINE H == h.hdr
             G == Absorb(h, b).hdr
  <1>1. Absorbed(H, G, b)
    BY AbsorbFields
  <1>2. Absorb(h, b) = [hdr |-> G, stats |-> Counted(h.stats, -1, HDR)]
    BY DEF Absorb
  <1> HIDE DEF G
  <1>3. Chain(G) /\ b \in DOMAIN G
    BY <1>1, AbsorbKeepsChain
  <1>4. /\ SumFunction(FreeWords(G)) = SumFunction(FreeWords(H)) + HDR
        /\ Cardinality(DOMAIN G) = Cardinality(DOMAIN H) - 1
    BY <1>1, <1>3, AbsorbFreeWords
  <1>5. Cardinality(DOMAIN G) = Cardinality(DOMAIN H) + (-1) /\ -1 \in Int /\ HDR \in Int
    BY <1>4, ListFinite DEF HDR
  <1>6. Counts(Absorb(h, b))
    BY <1>2, <1>4, <1>5, CountedKeeps
  <1>7. G[b].is_free
    BY <1>1, <1>3 DEF Absorbed
  <1> QED
    BY <1>3, <1>6, <1>7 DEF G

(* khfree keeps the statistics true. *)
LEMMA FreedCounts ==
    ASSUME NEW h, Chain(h.hdr), Counts(h), NEW b \in DOMAIN h.hdr, ~h.hdr[b].is_free
    PROVE  Counts(Freed(h, b))
  <1> DEFINE H == h.hdr
             H1 == [H EXCEPT ![b].is_free = TRUE]
             h1 == [hdr |-> H1, stats |-> Counted(h.stats, 0, H[b].size)]
             h2 == IF IsFree(h1, h1.hdr[b].next) THEN Absorb(h1, b) ELSE h1
             h3 == IF IsFree(h2, h2.hdr[b].prev) THEN Absorb(h2, h2.hdr[b].prev) ELSE h2
             p == h2.hdr[b].prev
  <1>1. Freed(h, b) = h3
    BY DEF Freed
  <1>2. Chain(H1) /\ Marked(H, H1, b, TRUE) /\ H[b].size \in Nat
    BY MarkKeepsChain, NextIsAbove
  <1>3. b \in DOMAIN H1 /\ H1[b].is_free /\ b # NULL
    BY <1>2 DEF Marked, Chain, Headers, NULL
  <1>4. Counts(h1)
    <2> HIDE DEF H1
    <2>1. SumFunction(FreeWords(H1)) = SumFunction(FreeWords(H)) - 0 + H[b].size /\ SumFunction(FreeWords(H)) \in Int
      BY <1>2, MarkFreeWords
    <2>2. SumFunction(FreeWords(H1)) = SumFunction(FreeWords(H)) + H[b].size
      BY <1>2, <2>1
    <2>3. Cardinality(DOMAIN H1) = Cardinality(DOMAIN H) + 0
      BY <1>2, ListFinite DEF Marked
    <2> QED
      BY <1>2, <2>2, <2>3, CountedKeeps
  <1>5. Chain(h1.hdr) /\ b \in DOMAIN h1.hdr /\ h1.hdr[b].is_free
    BY <1>2, <1>3
  <1> HIDE DEF h1
  <1>6. Chain(h2.hdr) /\ Counts(h2) /\ b \in DOMAIN h2.hdr /\ h2.hdr[b].is_free
    <2>1. CASE IsFree(h1, h1.hdr[b].next)
      BY <1>4, <1>5, <2>1, AbsorbCounts DEF IsFree
    <2>2. CASE ~IsFree(h1, h1.hdr[b].next)
      BY <1>4, <1>5, <2>2
    <2> QED
      BY <2>1, <2>2
  <1> HIDE DEF h2
  <1>7. CASE IsFree(h2, p)
    <2>1. p # NULL /\ h2.hdr[p].is_free /\ h3 = Absorb(h2, p)
      BY <1>7 DEF IsFree
    <2>2. p \in DOMAIN h2.hdr /\ h2.hdr[p].next = b
      BY <1>6, <2>1 DEF Chain, Backward, Headers
    <2> HIDE DEF h3, p
    <2>3. Counts(Absorb(h2, p))
      BY <1>3, <1>6, <2>1, <2>2, AbsorbCounts
    <2> QED
      BY <1>1, <2>1, <2>3
  <1>8. CASE ~IsFree(h2, p)
    BY <1>1, <1>6, <1>8
  <1> QED
    BY <1>7, <1>8

-----------------------------------------------------------------------------
(* the inductive invariant of HeapSpec *)
IInv == ListInv /\ Counts(heap) /\ IsFiniteSet(live)

(* kheap_init establishes the invariant. *)
LEMMA InitIInv ==
    ASSUME HeapInit
    PROVE  IInv
  <1> DEFINE first == [is_free |-> TRUE, size |-> HeapWords - HDR, next |-> NULL, prev |-> NULL]
             f == FreeWords(hdr)
             e == Without(f, {0}, 0)
  <1>1. ListInv /\ Chain(hdr)
    BY InitList DEF ListInv
  <1>2. hdr = [b \in {0} |-> first]
    BY DEF HeapInit
  <1>3. DOMAIN hdr = {0} /\ hdr[0].is_free /\ hdr[0].size = HeapWords - HDR
    BY <1>2
  <1>4. /\ IsFiniteSet({0}) /\ Cardinality({0}) = 1 /\ IsFiniteSet({})
        /\ f \in [{0} -> Int] /\ f[0] = HeapWords - HDR
    BY <1>1, <1>3, ListFinite, FS_Singleton, FS_EmptySet DEF FreeWords
  <1> HIDE DEF f
  <1>5. SumFunction(f) = f[0] + SumFunction(e) /\ SumFunction(f) \in Int /\ SumFunction(e) \in Int
    BY <1>4, SumRemove
  <1>6. SumFunction(e) = 0
    <2>1. e \in [{} -> Int]
      BY DEF Without
    <2> HIDE DEF e
    <2>2. PICK g : Sums(g, e, {}) /\ SumFunction(e) = g[{}]
      BY <1>4, <2>1, SumFunctionSums
    <2> QED
      BY <2>2 DEF Sums
  <1>7. SumFunction(FreeWords(hdr)) = HeapWords - HDR
    BY <1>4, <1>5, <1>6, HeapAssumption DEF f, HDR
  <1>8. stats = [free_size |-> HeapWords - HDR, used_size |-> HDR, block_count |-> 1] /\ live = {}
    BY DEF HeapInit
  <1>9. heap.hdr = hdr /\ heap.stats = stats
    BY DEF heap
  <1>10. Counts(heap)
    BY <1>3, <1>4, <1>7, <1>8, <1>9, HeapAssumption DEF Counts, HDR
  <1> QED
    BY <1>1, <1>4, <1>8, <1>10 DEF IInv

(* Every step of HeapNext preserves the invariant. *)
LEMMA NextIInv ==
    ASSUME IInv, [HeapNext]_heapVars
    PROVE  IInv'
  <1>1. /\ ListInv /\ Chain(hdr) /\ Counts(heap) /\ IsFiniteSet(live)
        /\ heap.hdr = hdr /\ heap.stats = stats
    BY DEF IInv, ListInv, heap
  <1>2. \A need \in Nat : Finds(heap, need)
    BY <1>1, WalkFinds
  <1>3. ListInv'
    BY <1>1, <1>2, NextList
  <1>4. \A h : Counts(h) /\ hdr' = h.hdr /\ stats' = h.stats => Counts(heap)'
    BY DEF Counts, heap
  <1>5. \A p \in live : p.block \in DOMAIN hdr /\ ~hdr[p.block].is_free
    BY <1>1 DEF ListInv, Owners, Fits
  <1>6. \A x, L : IsFiniteSet(L) => IsFiniteSet(L \cup {x}) /\ IsFiniteSet(L \ {x})
    BY FS_AddElement, FS_RemoveElement
  <1>7. Counts(heap)' /\ IsFiniteSet(live')
    <2>1. ASSUME NEW bytes \in Requests, khmalloc(bytes)
          PROVE  Counts(heap)' /\ IsFiniteSet(live')
      <3> DEFINE t == Taken(heap, bytes)
      <3>1. Counts(t.heap)
        BY <1>1, TakenCounts, HeapAssumption
      <3>2. hdr' = t.heap.hdr /\ stats' = t.heap.stats
        BY <2>1 DEF khmalloc, Becomes
      <3>3. live' = live \/ \E x : live' = live \cup {x}
        BY <2>1 DEF khmalloc
      <3> HIDE DEF t
      <3> QED
        BY <1>1, <1>4, <1>6, <3>1, <3>2, <3>3
    <2>2. ASSUME NEW bytes \in Requests, NEW al \in Alignments, khaligned_alloc(al, bytes)
          PROVE  Counts(heap)' /\ IsFiniteSet(live')
      <3> DEFINE ask == AlignedRequest(al, bytes)
                 t == Taken(heap, ask)
      <3>1. ask \in Nat
        BY HeapAssumption DEF AlignedRequest, PTR
      <3>2. hdr' = t.heap.hdr /\ stats' = t.heap.stats
        BY <2>2 DEF khaligned_alloc, Becomes
      <3>3. live' = live \/ \E x : live' = live \cup {x}
        BY <2>2 DEF khaligned_alloc
      <3> HIDE DEF ask
      <3>4. Counts(t.heap)
        BY <1>1, <3>1, TakenCounts
      <3> HIDE DEF t
      <3> QED
        BY <1>1, <1>4, <1>6, <3>2, <3>3, <3>4
    <2>3. ASSUME NEW p \in live, khfree(p)
          PROVE  Counts(heap)' /\ IsFiniteSet(live')
      <3>1. Counts(Freed(heap, p.block))
        BY <1>1, <1>5, FreedCounts
      <3>2. hdr' = Freed(heap, p.block).hdr /\ stats' = Freed(heap, p.block).stats /\ live' = live \ {p}
        BY <2>3 DEF khfree, Becomes
      <3> QED
        BY <1>1, <1>4, <1>6, <3>1, <3>2
    <2>4. ASSUME NEW p \in live, NEW bytes \in Requests, khrealloc(p, bytes)
          PROVE  Counts(heap)' /\ IsFiniteSet(live')
      <3> DEFINE t == Taken(heap, bytes)
      <3>1. live' = live \/ \E x : live' = (live \ {p}) \cup {x}
        BY <2>4 DEF khrealloc, heapVars
      <3>2. IsFiniteSet(live')
        BY <1>1, <1>6, <3>1
      <3>3. CASE hdr' = hdr /\ stats' = stats
        BY <1>1, <1>4, <3>2, <3>3
      <3>4. CASE ~(hdr' = hdr /\ stats' = stats)
        <4>1. /\ t.block # NULL /\ hdr' = Freed(t.heap, p.block).hdr
              /\ stats' = Freed(t.heap, p.block).stats
          BY <2>4, <3>4 DEF khrealloc, heapVars, Becomes
        <4>2. bytes \in Nat /\ Words(bytes) + PTR \in Nat
          BY HeapAssumption, WordsHold DEF PTR
        <4>3. Counts(t.heap)
          BY <1>1, <4>2, TakenCounts
        <4>4. Chain(t.heap.hdr) /\ TakenFrom(hdr, t.heap.hdr, t.block, Words(bytes) + PTR)
          BY <1>1, <1>2, <4>1, <4>2, TakenKeeps DEF ListInv
        <4> HIDE DEF t
        <4>5. p.block \in DOMAIN t.heap.hdr /\ ~t.heap.hdr[p.block].is_free
          BY <1>5, <4>4 DEF TakenFrom
        <4>6. Counts(Freed(t.heap, p.block))
          BY <4>3, <4>4, <4>5, FreedCounts
        <4> QED
          BY <1>4, <3>2, <4>1, <4>6
      <3> QED
        BY <3>3, <3>4
    <2>5. CASE UNCHANGED heapVars
      <3>1. hdr' = hdr /\ stats' = stats /\ live' = live
        BY <2>5 DEF heapVars
      <3> QED
        BY <1>1, <1>4, <3>1
    <2> QED
      BY <2>1, <2>2, <2>3, <2>4, <2>5 DEF HeapNext
  <1> QED
    BY <1>3, <1>7 DEF IInv

(* The invariant is strong enough for both properties. *)
LEMMA IInvGives ==
    ASSUME IInv
    PROVE  HeapTiled /\ PayloadsSeparate
  <1>1. /\ Chain(hdr) /\ Merged(hdr) /\ Owners(hdr, live) /\ Counts(heap) /\ IsFiniteSet(live)
        /\ heap.hdr = hdr /\ heap.stats = stats
    BY DEF IInv, ListInv, heap
  <1>2. \A b \in DOMAIN hdr : End(b) = EndIn(hdr, b)
    BY DEF End, EndIn
  <1>3. HeapTiled
    <2>1. 0 \in DOMAIN hdr /\ hdr[0].prev = NULL
      BY <1>1 DEF Chain, Headers
    <2>2. ASSUME NEW b \in DOMAIN hdr
          PROVE  IF hdr[b].next = NULL THEN End(b) = HeapWords
                 ELSE /\ hdr[b].next = End(b) /\ End(b) \in DOMAIN hdr
                      /\ hdr[End(b)].prev = b
                      /\ ~(hdr[b].is_free /\ hdr[End(b)].is_free)
      <3>1. hdr[b].next # NULL => ~(hdr[b].is_free /\ hdr[hdr[b].next].is_free)
        BY <1>1 DEF Merged, MergedBut
      <3>2. \/ hdr[b].next = NULL /\ EndIn(hdr, b) = HeapWords
            \/ /\ hdr[b].next = EndIn(hdr, b) /\ EndIn(hdr, b) \in DOMAIN hdr
               /\ hdr[EndIn(hdr, b)].prev = b
        BY <1>1 DEF Chain, Forward
      <3>3. EndIn(hdr, b) \in Nat
        BY <1>1, NextIsAbove
      <3> QED
        BY <1>2, <3>1, <3>2, <3>3 DEF NULL
    <2>3. /\ stats.block_count = Cardinality(DOMAIN hdr)
          /\ stats.free_size = SumFunction(FreeWords(hdr))
          /\ stats.used_size + stats.free_size = HeapWords
      BY <1>1 DEF Counts
    <2> QED
      BY <2>1, <2>2, <2>3 DEF HeapTiled, FreeWords
  <1>4. PayloadsSeparate
    <2> DEFINE B == {p.block : p \in live}
               f == [p \in live |-> p.block]
    <2>1. f \in Bijection(live, B)
      BY <1>1 DEF Owners, Bijection, Injection, Surjection, IsInjective
    <2>2. Cardinality(B) = Cardinality(live)
      <3> HIDE DEF B, f
      <3> QED
        BY <1>1, <2>1, FS_Bijection DEF ExistsBijection
    <2> QED
      BY <1>1, <1>2, <2>2 DEF PayloadsSeparate, Owners, Fits
  <1> QED
    BY <1>3, <1>4

(* For heaps of any size and requests of any size, however khmalloc,       *)
(* khaligned_alloc, khrealloc and khfree are mixed: the blocks tile the    *)
(* heap, the links agree, free neighbours are merged, and block_count,     *)
(* free_size and used_size are those of the list.                          *)
THEOREM HeapStaysTiled == HeapSpec => []HeapTiled
  <1>1. HeapInit => IInv
    BY InitIInv
  <1>2. IInv /\ [HeapNext]_heapVars => IInv'
    BY NextIInv
  <1>3. IInv => HeapTiled
    BY IInvGives
  <1> QED
    BY <1>1, <1>2, <1>3, PTL DEF HeapSpec

(* For heaps, requests and alignments of any size: what the allocator hands *)
(* out lies inside its own allocated block, behind header and back pointer, *)
(* and every allocated block has exactly one owner.                         *)
THEOREM PayloadsStaySeparate == HeapSpec => []PayloadsSeparate
  <1>1. HeapInit => IInv
    BY InitIInv
  <1>2. IInv /\ [HeapNext]_heapVars => IInv'
    BY NextIInv
  <1>3. IInv => PayloadsSeparate
    BY IInvGives
  <1> QED
    BY <1>1, <1>2, <1>3, PTL DEF HeapSpec
=============================================================================
