----------------------------- MODULE PmmProofs -----------------------------
(***************************************************************************)
(* Proofs about Pmm for every memory map, page size, number of callers and *)
(* request size, as long as calls do not interleave (Preemption = FALSE).  *)
(***************************************************************************)
EXTENDS Pmm, TLAPS, FiniteSetTheorems, WellFoundedInduction

(* One past the page the scan looked at last, and the first page of the    *)
(* stretch it is in: it starts at l.start and starts again at page 0.      *)
Cur(l) == IF l.start + l.i <= total_pages THEN l.start + l.i ELSE l.start + l.i - total_pages
Lo(l)  == IF l.start + l.i <= total_pages THEN l.start ELSE 0

(* no free run of count pages ends in the stretches [start, hi) and [0, lo) *)
NoRunIn(l, hi, lo) ==
    \A w \in Pages : FreeRun(w, l.count) =>
        /\ w >= l.start => w + l.count > hi
        /\ w + l.count <= l.start => w + l.count > lo

Hi(l)  == IF l.start + l.i <= total_pages THEN l.start + l.i ELSE total_pages
Wrapped(l) == IF l.start + l.i <= total_pages THEN 0 ELSE l.start + l.i - total_pages

InCall(l) ==
    /\ initialized
    /\ l.count >= 1 /\ l.start < total_pages /\ l.i <= total_pages

(* The scan after l.i iterations: the streak is the longest run of free     *)
(* pages that ends at the page looked at last, and it is still too short.   *)
ScanInv(l) ==
    LET a == Cur(l) - l.free_streak
    IN  /\ InCall(l)
        /\ l.free_streak < l.count
        /\ a >= Lo(l)
        /\ a .. Cur(l) - 1 \subseteq FreePages
        /\ a = Lo(l) \/ a - 1 \in bitmap
        /\ l.free_streak > 0 => l.streak_start = a
        /\ NoRunIn(l, Hi(l), Wrapped(l))

CommitInv(l) ==
    /\ InCall(l)
    /\ l.streak_start + l.count = Cur(l) /\ l.streak_start >= Lo(l)
    /\ FreeRun(l.streak_start, l.count)
    /\ IF l.start + l.i <= total_pages
       THEN NoRunIn(l, Hi(l) - 1, 0)
       ELSE NoRunIn(l, total_pages, Wrapped(l) - 1)

FailInv(l) == InCall(l) /\ NoRunIn(l, total_pages, l.start)

CallInv ==
    \A c \in Callers :
        /\ call[c].pc = "scan" => ScanInv(call[c])
        /\ call[c].pc = "commit" => CommitInv(call[c])
        /\ call[c].pc = "fail" => FailInv(call[c])

BootInv ==
    /\ pool \subseteq Pages /\ bitmap \subseteq Pages
    /\ initialized => last_scanned_bit < total_pages
    /\ ~initialized => /\ \A c \in Callers : call[c].pc = "idle" /\ held[c] = {}
                       /\ bitmap = {} /\ pool = {} /\ last_scanned_bit = 0
    /\ initialized => booted

Serial == \A c, d \in Callers : c # d => call[c].pc = "idle" \/ call[d].pc = "idle"

IInv == TypeOK /\ Serial /\ BootInv /\ PagePartition /\ Accounting /\ CallInv
-----------------------------------------------------------------------------
(* Arithmetic of the circular scan and of the bitmap's size. *)
LEMMA ModOnce ==
    ASSUME NEW a \in Int, NEW n \in Nat \ {0}, -n < a, a < 2 * n
    PROVE  a % n = IF a < 0 THEN a + n ELSE IF a < n THEN a ELSE a - n
  OBVIOUS

(* Rounding a quotient up stays within a bound that holds exactly. *)
LEMMA CeilDivBound ==
    ASSUME NEW a \in Nat, NEW b \in Nat \ {0}, NEW n \in Nat, a <= n * b
    PROVE  CeilDiv(a, b) \in Nat /\ CeilDiv(a, b) <= n
  BY DEF CeilDiv

(* A run of n pages has n pages. *)
LEMMA RangeFinite ==
    ASSUME NEW s \in Nat, NEW n \in Nat
    PROVE  IsFiniteSet(PageRange(s, n)) /\ Cardinality(PageRange(s, n)) = n
  BY FS_Interval DEF PageRange

(* Taking a subset out of a finite set takes out its size. *)
LEMMA CardRemove ==
    ASSUME NEW A, NEW S, IsFiniteSet(A), S \subseteq A
    PROVE  /\ Cardinality(A \ S) = Cardinality(A) - Cardinality(S)
           /\ Cardinality(S) \in Nat /\ Cardinality(A) \in Nat
  <1>1. IsFiniteSet(S) /\ A \cap S = S
    BY FS_Subset
  <1>2. Cardinality(A \ S) = Cardinality(A) - Cardinality(S)
    BY <1>1, FS_Difference
  <1> QED
    BY <1>1, <1>2, FS_CardinalityType

(* Adding a disjoint set adds its size. *)
LEMMA CardAdd ==
    ASSUME NEW B, NEW S, IsFiniteSet(B), IsFiniteSet(S), S \cap B = {}
    PROVE  Cardinality(B \cup S) = Cardinality(B) + Cardinality(S)
  <1>1. B \cap S = {}
    OBVIOUS
  <1>2. Cardinality(B \cup S) = Cardinality(B) + Cardinality(S) - Cardinality({})
    BY <1>1, FS_Union
  <1>3. Cardinality(S) \in Nat /\ Cardinality(B) \in Nat
    BY FS_CardinalityType
  <1> QED
    BY <1>2, <1>3, FS_EmptySet

(* A set of naturals that is not empty has a least element. *)
LEMMA LeastNat ==
    ASSUME NEW T, T \subseteq Nat, T # {}
    PROVE  \E x \in T : \A y \in T : ~(y < x)
  <1>1. \E x \in T : \A y \in T : ~(<<y, x>> \in OpToRel(<, Nat))
    BY NatLessThanWellFounded, WFMin
  <1> QED
    BY <1>1 DEF OpToRel

-----------------------------------------------------------------------------
(* What pmm_init computes from a memory map that has room for the bitmap. *)
LEMMA MemmapType ==
    ASSUME NEW m \in Memmaps
    PROVE  /\ DOMAIN m = 1 .. Len(m) /\ Len(m) \in Nat
           /\ \A i \in DOMAIN m : m[i].base \in Nat /\ m[i].length \in Nat \ {0}
  <1> DEFINE Entry == [base : Nat, length : Nat \ {0}, usable : BOOLEAN]
  <1>1. m \in Seq(Entry)
    BY MemmapAssumption
  <1>2. DOMAIN m = 1 .. Len(m) /\ Len(m) \in Nat /\ \A i \in DOMAIN m : m[i] \in Entry
    <2> HIDE DEF Entry
    <2> QED
      BY <1>1
  <1> QED
    BY <1>2

(* Every page of the memory map lies below total_pages. *)
LEMMA HighestPageIsTop ==
    ASSUME NEW m \in Memmaps
    PROVE  /\ HighestPage(m) \in Nat \ {0}
           /\ \A i \in DOMAIN m : m[i].base + m[i].length <= HighestPage(m)
  <1> DEFINE Tops == {m[i].base + m[i].length : i \in DOMAIN m}
  <1>1. \A i \in DOMAIN m : m[i].base \in Nat /\ m[i].length \in Nat \ {0}
    BY MemmapType
  <1>2. \E top \in Tops : \A i \in DOMAIN m : m[i].base + m[i].length <= top
    BY MemmapAssumption
  <1>3. /\ HighestPage(m) \in Tops
        /\ \A i \in DOMAIN m : m[i].base + m[i].length <= HighestPage(m)
    BY <1>2 DEF HighestPage
  <1> QED
    BY <1>1, <1>3

(* The bitmap is placed inside a usable entry of the memory map. *)
LEMMA BitmapIsUsable ==
    ASSUME NEW m \in Memmaps, \E i \in DOMAIN m : HasBitmapRoom(m, i)
    PROVE  /\ BitmapPages(m) \subseteq UsablePages(m)
           /\ UsablePages(m) \subseteq 0 .. HighestPage(m) - 1
  <1> DEFINE Room == {i \in DOMAIN m : HasBitmapRoom(m, i)}
             e == BitmapEntry(m)
  <1>0. /\ DOMAIN m \subseteq Nat
        /\ \A i \in DOMAIN m : i >= 1 /\ m[i].base \in Nat /\ m[i].length \in Nat \ {0}
        /\ \A i \in DOMAIN m, j \in Nat : 1 <= j /\ j < i => j \in DOMAIN m
    BY MemmapType
  <1>1. PICK f \in Room : \A j \in Room : ~(j < f)
    BY <1>0, LeastNat
  <1>2. HasBitmapRoom(m, f) /\ \A j \in 1 .. f - 1 : ~HasBitmapRoom(m, j)
    BY <1>0, <1>1
  <1>3. e \in DOMAIN m /\ HasBitmapRoom(m, e)
    BY <1>1, <1>2 DEF BitmapEntry
  <1>4. BitmapSizeBytes(m) \in Nat
    BY HighestPageIsTop DEF BitmapSizeBytes, CeilDiv
  <1>5. BitmapSizeBytes(m) <= m[e].length * PAGE_SIZE
    BY <1>0, <1>3, <1>4, PmmConstants DEF HasBitmapRoom
  <1>6. CeilDiv(BitmapSizeBytes(m), PAGE_SIZE) \in Nat
        /\ CeilDiv(BitmapSizeBytes(m), PAGE_SIZE) <= m[e].length
    <2> HIDE DEF e
    <2> QED
      BY <1>0, <1>3, <1>4, <1>5, PmmConstants, CeilDivBound
  <1>7. BitmapPages(m) \subseteq EntryPages(m[e])
    BY <1>0, <1>3, <1>6 DEF BitmapPages, EntryPages, PageRange
  <1>8. EntryPages(m[e]) \subseteq UsablePages(m)
    BY <1>3 DEF UsablePages, HasBitmapRoom
  <1>9. \A i \in DOMAIN m : EntryPages(m[i]) \subseteq 0 .. HighestPage(m) - 1
    BY <1>0, HighestPageIsTop DEF EntryPages, PageRange
  <1> QED
    BY <1>7, <1>8, <1>9 DEF UsablePages

-----------------------------------------------------------------------------
(* One iteration of the scan. *)
LEMMA NextBit ==
    ASSUME NEW l \in CallRec, total_pages \in Nat, InCall(l), l.i < total_pages
    PROVE  BitIdx(l) = IF l.start + l.i < total_pages THEN l.start + l.i
                                                      ELSE l.start + l.i - total_pages
  <1>1. l.start + l.i \in Int /\ -total_pages < l.start + l.i /\ l.start + l.i < 2 * total_pages
    BY DEF CallRec, InCall
  <1>2. total_pages \in Nat \ {0}
    BY DEF CallRec
  <1> QED
    BY <1>1, <1>2, ModOnce DEF BitIdx, CallRec

(* The page looked at is in use: no run ends there, the next streak starts behind it. *)
LEMMA ScanUsed ==
    ASSUME NEW l \in CallRec, total_pages \in Nat, bitmap \subseteq Pages,
           ScanInv(l), l.pc = "scan", l.i < total_pages, BitIdx(l) \in bitmap
    PROVE  ScanNext(l).pc = "scan" /\ ScanInv(ScanNext(l))
  <1> DEFINE n == Looked(l, l.streak_start, 0)
             b == BitIdx(l)
  <1>1. ScanNext(l) = n
    BY DEF ScanNext
  <1>2. /\ n \in CallRec /\ n.pc = "scan" /\ n.free_streak = 0 /\ n.i = l.i + 1
        /\ n.start = l.start /\ n.count = l.count /\ n.streak_start = l.streak_start
    BY DEF CallRec, Looked, ScanInv, InCall
  <1>3. b = IF l.start + l.i < total_pages THEN l.start + l.i ELSE l.start + l.i - total_pages
    BY NextBit DEF ScanInv
  <1>4. Cur(n) = b + 1 /\ Lo(n) <= b /\ b \in Nat
    BY <1>2, <1>3 DEF Cur, Lo, ScanInv, InCall, CallRec
  <1>5. NoRunIn(n, Hi(n), Wrapped(n))
    <2> SUFFICES ASSUME NEW w \in Pages, FreeRun(w, n.count)
                 PROVE  /\ w >= n.start => w + n.count > Hi(n)
                        /\ w + n.count <= n.start => w + n.count > Wrapped(n)
      BY DEF NoRunIn
    <2>1. /\ w >= l.start => w + l.count > Hi(l)
          /\ w + l.count <= l.start => w + l.count > Wrapped(l)
      BY <1>2 DEF ScanInv, NoRunIn
    <2>2. b \notin PageRange(w, l.count)
      BY <1>2 DEF FreeRun, FreePages
    <2>3. ~(w <= b /\ b < w + l.count)
      BY <1>4, <2>2 DEF PageRange, CallRec, Pages
    <2>4. w + l.count <= total_pages
      BY <1>2 DEF FreeRun, FreePages, PageRange, Pages, ScanInv, InCall, CallRec
    <2> QED
      BY <1>2, <1>3, <2>1, <2>3, <2>4 DEF Hi, Wrapped, Pages, CallRec, ScanInv, InCall
  <1>6. InCall(n)
    BY <1>2 DEF ScanInv, InCall, CallRec
  <1> QED
    <2> HIDE DEF n
    <2> QED
      BY <1>1, <1>2, <1>4, <1>5, <1>6 DEF ScanInv, CallRec, InCall, FreePages, Lo

(* The page looked at is free: the streak grows, or starts again at page 0. *)
LEMMA ScanFree ==
    ASSUME NEW l \in CallRec, total_pages \in Nat, bitmap \subseteq Pages,
           ScanInv(l), l.pc = "scan", l.i < total_pages, BitIdx(l) \notin bitmap
    PROVE  \/ ScanNext(l).pc = "scan" /\ ScanInv(ScanNext(l))
           \/ ScanNext(l).pc = "commit" /\ CommitInv(ScanNext(l))
  <1> DEFINE n == ScanNext(l)
             b == BitIdx(l)
             streak == StreakAt(l)
             a == b - streak
  <1>1. b = IF l.start + l.i < total_pages THEN l.start + l.i ELSE l.start + l.i - total_pages
    BY NextBit DEF ScanInv
  <1>2. streak \in Nat /\ streak <= l.free_streak
    BY DEF StreakAt, CallRec
  <1>3. /\ n \in CallRec /\ n.i = l.i + 1 /\ n.free_streak = streak + 1
        /\ n.start = l.start /\ n.count = l.count
        /\ n.streak_start = IF streak = 0 THEN b ELSE l.streak_start
        /\ n.pc = IF streak + 1 = l.count THEN "commit" ELSE "scan"
    <2>1. b \in Nat
      BY <1>1 DEF CallRec, ScanInv, InCall
    <2> QED
      BY <1>2, <2>1 DEF ScanNext, Looked, CallRec
  <1>4. Cur(n) = b + 1 /\ b \in Nat /\ b < total_pages
    BY <1>1, <1>3 DEF Cur, ScanInv, InCall, CallRec
  <1>5. /\ a \in Nat /\ a >= Lo(n)
        /\ a .. b \subseteq FreePages
        /\ a = Lo(n) \/ a - 1 \in bitmap
        /\ n.streak_start = a
    <2>1. CASE b = 0
      BY <1>1, <1>3, <1>4, <2>1 DEF StreakAt, Lo, ScanInv, InCall, CallRec, FreePages, Pages
    <2>2. CASE b # 0
      <3>1. streak = l.free_streak /\ Cur(l) = b /\ Lo(n) = Lo(l)
        BY <1>1, <1>3, <2>2 DEF StreakAt, Cur, Lo, ScanInv, InCall, CallRec
      <3>2. /\ a >= Lo(l) /\ a .. b - 1 \subseteq FreePages
            /\ a = Lo(l) \/ a - 1 \in bitmap
            /\ streak > 0 => l.streak_start = a
        BY <3>1 DEF ScanInv
      <3>3. Lo(l) \in Nat
        BY DEF Lo, CallRec
      <3>4. a .. b \subseteq FreePages
        BY <1>2, <1>4, <3>2, <3>3 DEF FreePages, Pages
      <3> QED
        BY <1>2, <1>3, <1>4, <3>1, <3>2, <3>3, <3>4
    <2> QED
      BY <2>1, <2>2
  <1>6. InCall(n)
    BY <1>3 DEF ScanInv, InCall, CallRec
  <1>7. streak + 1 <= l.count
    BY <1>2 DEF ScanInv, CallRec, InCall
  <1>8. \A w \in Pages : FreeRun(w, l.count) =>
            /\ w >= l.start => w + l.count > Hi(l)
            /\ w + l.count <= l.start => w + l.count > Wrapped(l)
            /\ w + l.count <= total_pages
    BY DEF ScanInv, NoRunIn, FreeRun, FreePages, PageRange, Pages, InCall, CallRec
  <1>9. CASE streak + 1 = l.count
    <2>1. FreeRun(n.streak_start, n.count) /\ n.streak_start + n.count = Cur(n)
          /\ n.streak_start >= Lo(n)
      <3> HIDE DEF n
      <3> QED
        BY <1>2, <1>3, <1>4, <1>5, <1>9 DEF FreeRun, PageRange, CallRec
    <2>2. IF n.start + n.i <= total_pages
          THEN NoRunIn(n, Hi(n) - 1, 0)
          ELSE NoRunIn(n, total_pages, Wrapped(n) - 1)
      <3> HIDE DEF n
      <3> QED
        BY <1>3, <1>8 DEF NoRunIn, Hi, Wrapped, Pages, CallRec, ScanInv, InCall
    <2> QED
      BY <1>3, <1>6, <1>9, <2>1, <2>2 DEF CommitInv
  <1>10. CASE streak + 1 < l.count
    <2>1. ASSUME NEW w \in Pages, FreeRun(w, l.count)
          PROVE  /\ w >= n.start => w + n.count > Hi(n)
                 /\ w + n.count <= n.start => w + n.count > Wrapped(n)
      <3>1. a - 1 \in bitmap => ~(w <= a - 1 /\ a - 1 < w + l.count)
        BY <1>5, <2>1 DEF FreeRun, FreePages, PageRange, CallRec, Pages
      <3>2. /\ w >= l.start => w + l.count > Hi(l)
            /\ w + l.count <= l.start => w + l.count > Wrapped(l)
        BY <1>8, <2>1
      <3>3. w + l.count = b + 1 /\ w >= Lo(n) => FALSE
        BY <1>2, <1>4, <1>5, <1>10, <3>1 DEF Pages, CallRec
      <3> HIDE DEF n, a, b, streak
      <3> QED
        BY <1>1, <1>3, <1>8, <2>1, <3>2, <3>3 DEF Hi, Wrapped, Lo, Pages, CallRec, ScanInv, InCall
    <2>2. NoRunIn(n, Hi(n), Wrapped(n))
      BY <1>3, <2>1 DEF NoRunIn
    <2>3. Cur(n) - n.free_streak = a /\ Cur(n) - 1 = b
      BY <1>2, <1>3, <1>4
    <2>4. n.pc = "scan" /\ ScanInv(n)
      <3> HIDE DEF n, a, b, streak
      <3> QED
        BY <1>2, <1>3, <1>5, <1>6, <1>10, <2>2, <2>3 DEF ScanInv
    <2> QED
      BY <2>4
  <1> QED
    BY <1>2, <1>7, <1>9, <1>10 DEF CallRec

-----------------------------------------------------------------------------
(* The invariant holds initially and is preserved by every action. *)
LEMMA InitIInv == Init => IInv
  <1> SUFFICES ASSUME Init PROVE IInv
    OBVIOUS
  <1>1. IdleCall \in CallRec /\ IdleCall.pc = "idle"
    BY DEF IdleCall, CallRec
  <1>2. \A c \in Callers : call[c] = IdleCall /\ held[c] = {}
    BY DEF Init
  <1>3. TypeOK
    <2>1. call \in [Callers -> CallRec] /\ held \in [Callers -> SUBSET Nat]
      BY <1>1 DEF Init
    <2>2. booted \in BOOLEAN /\ initialized \in BOOLEAN
      BY Zenon DEF Init
    <2> QED
      BY <2>1, <2>2 DEF Init, TypeOK
  <1>4. Serial /\ CallInv
    BY <1>1, <1>2 DEF Serial, CallInv
  <1>5. BootInv
    BY <1>1, <1>2 DEF Init, BootInv, Pages
  <1> QED
    BY <1>3, <1>4, <1>5 DEF Init, IInv, PagePartition, Accounting

(* A step of pmm_alloc before its commit only changes its own locals. *)
LEMMA LocalStep ==
    ASSUME IInv, NEW c \in Callers, ~Preemption, MayRun(c), UNCHANGED_STATS,
           NEW l \in CallRec, call' = [call EXCEPT ![c] = l],
           l.pc = "idle" \/ initialized,
           l.pc = "scan" => ScanInv(l), l.pc = "commit" => CommitInv(l), l.pc = "fail" => FailInv(l)
    PROVE  IInv'
  <1>0. /\ booted' = booted /\ initialized' = initialized /\ total_pages' = total_pages
        /\ free_pages' = free_pages /\ used_pages' = used_pages /\ usable_pages' = usable_pages
        /\ bitmap' = bitmap /\ last_scanned_bit' = last_scanned_bit /\ pool' = pool /\ held' = held
    BY DEF UNCHANGED_STATS, stats
  <1>1. TypeOK'
    BY <1>0 DEF IInv, TypeOK
  <1>2. \A d \in Callers : call'[d] = IF d = c THEN l ELSE call[d]
    BY DEF IInv, TypeOK
  <1>3. \A d \in Callers : d # c => call'[d].pc = "idle"
    BY <1>2 DEF MayRun
  <1>4. Serial'
    BY <1>3 DEF Serial
  <1>5. BootInv'
    BY <1>0, <1>2 DEF IInv, BootInv, Pages
  <1>6. PagePartition' /\ Accounting'
    BY <1>0 DEF IInv, PagePartition, Accounting, Held, FreePages, Pages
  <1>7. ASSUME NEW d \in Callers
        PROVE  /\ call'[d].pc = "scan" => ScanInv(call[d])'
               /\ call'[d].pc = "commit" => CommitInv(call[d])'
               /\ call'[d].pc = "fail" => FailInv(call[d])'
    <2>1. CASE d # c
      BY <1>3, <2>1
    <2>2. CASE d = c
      <3>1. call'[d] = l
        BY <1>2, <2>2
      <3>2. ScanInv(call[d])' = ScanInv(l)
        BY <1>0, <3>1 DEF ScanInv, InCall, Cur, Lo, Hi, Wrapped, NoRunIn, FreeRun, FreePages, Pages
      <3>3. CommitInv(call[d])' = CommitInv(l)
        BY <1>0, <3>1 DEF CommitInv, InCall, Cur, Lo, Hi, Wrapped, NoRunIn, FreeRun, FreePages, Pages
      <3>4. FailInv(call[d])' = FailInv(l)
        BY <1>0, <3>1 DEF FailInv, InCall, NoRunIn, FreeRun, FreePages, Pages
      <3> QED
        BY <3>1, <3>2, <3>3, <3>4
    <2> QED
      BY <2>1, <2>2
  <1> QED
    BY <1>1, <1>4, <1>5, <1>6, <1>7 DEF IInv, CallInv

(* pmm_init establishes the invariant from the memory map. *)
LEMMA InitStep ==
    ASSUME IInv, NEW m \in Memmaps \cup {NoResponse}, pmm_init(m)
    PROVE  IInv'
  <1>0. /\ ~initialized /\ call' = call /\ held' = held /\ last_scanned_bit' = last_scanned_bit
        /\ \A c \in Callers : call[c].pc = "idle" /\ held[c] = {}
        /\ booted' = TRUE
    BY DEF IInv, BootInv, pmm_init
  <1>1. CASE m # NoResponse /\ \E i \in DOMAIN m : HasBitmapRoom(m, i)
    <2> DEFINE H == HighestPage(m)
               U == UsablePages(m)
               B == BitmapPages(m)
    <2>1. m \in Memmaps
      BY <1>1
    <2>2. H \in Nat \ {0} /\ B \subseteq U /\ U \subseteq 0 .. H - 1
      BY <1>1, <2>1, HighestPageIsTop, BitmapIsUsable
    <2>3. /\ total_pages' = H /\ bitmap' = (0 .. H - 1) \ (U \ B)
          /\ free_pages' = Cardinality(U) - Cardinality(B)
          /\ used_pages' = 0 /\ usable_pages' = free_pages' /\ initialized' = TRUE
          /\ pool' = (0 .. H - 1) \ bitmap'
      BY <1>1 DEF pmm_init
    <2> HIDE DEF H, U, B
    <2>4. pool' = U \ B /\ FreePages' = U \ B /\ Pages' = 0 .. H - 1
      BY <2>2, <2>3 DEF FreePages, Pages
    <2>5. IsFiniteSet(U)
      <3>1. IsFiniteSet(0 .. H - 1)
        BY <2>2, FS_Interval
      <3> QED
        BY <2>2, <3>1, FS_Subset
    <2>6. /\ Cardinality(U \ B) = Cardinality(U) - Cardinality(B)
          /\ Cardinality(U \ B) \in Nat
      BY <2>2, <2>5, CardRemove, FS_Difference, FS_CardinalityType
    <2>7. Held' = {}
      BY <1>0 DEF Held
    <2>8. TypeOK'
      BY <1>0, <2>2, <2>3, <2>4, <2>6 DEF IInv, TypeOK
    <2>9. Serial' /\ CallInv' /\ BootInv'
      BY <1>0, <2>2, <2>3, <2>4 DEF IInv, Serial, CallInv, BootInv
    <2>10. PagePartition'
      BY <1>0, <2>2, <2>3, <2>4, <2>7 DEF PagePartition
    <2>11. Accounting'
      BY <2>3, <2>4, <2>6, <2>7, FS_EmptySet DEF Accounting
    <2> QED
      BY <2>8, <2>9, <2>10, <2>11 DEF IInv
  <1>2. CASE ~(m # NoResponse /\ \E i \in DOMAIN m : HasBitmapRoom(m, i))
    <2>1. /\ total_pages' \in Nat
          /\ bitmap' = {} /\ pool' = {} /\ initialized' = FALSE /\ last_scanned_bit' = 0
          /\ UNCHANGED <<free_pages, used_pages, usable_pages>>
      BY <1>0, <1>2, HighestPageIsTop DEF pmm_init, IInv, BootInv, TypeOK
    <2>2. TypeOK'
      BY <1>0, <2>1 DEF IInv, TypeOK
    <2> QED
      BY <1>0, <2>1, <2>2 DEF IInv, Serial, CallInv, BootInv, PagePartition, Accounting
  <1> QED
    BY <1>1, <1>2

(* Marking the pages of a run that was found keeps the invariant. *)
LEMMA CommitStep ==
    ASSUME IInv, NEW c \in Callers, ~Preemption, Commit(c)
    PROVE  IInv'
  <1> DEFINE l == call[c]
             S == Streak(l)
  <1>0. l \in CallRec /\ CommitInv(l) /\ initialized /\ l.pc = "commit"
    BY DEF IInv, TypeOK, CallInv, CommitInv, InCall, Commit
  <1>1. /\ bitmap' = bitmap \cup S /\ total_pages' = total_pages /\ pool' = pool
        /\ free_pages' = free_pages - l.count /\ used_pages' = used_pages + l.count
        /\ usable_pages' = usable_pages /\ initialized' = initialized /\ booted' = booted
        /\ last_scanned_bit' = (l.streak_start + l.count) % total_pages
    BY DEF Commit
  <1>2. /\ \A d \in Callers : held'[d] = IF d = c THEN held[c] \cup S ELSE held[d]
        /\ held' \in [Callers -> SUBSET Nat]
    BY <1>0 DEF Commit, IInv, TypeOK, Streak, PageRange, CallRec
  <1>3. \A d \in Callers : call'[d].pc = "idle" /\ call'[d] \in CallRec
    BY DEF Commit, MayRun, IInv, TypeOK, IdleCall, CallRec
  <1>4. S \subseteq FreePages /\ S \subseteq Pages /\ S \cap Held = {} /\ S \subseteq pool
    BY <1>0 DEF CommitInv, FreeRun, Streak, FreePages, IInv, PagePartition
  <1>5. IsFiniteSet(S) /\ Cardinality(S) = l.count
    BY <1>0, RangeFinite DEF Streak, CallRec
  <1>6. IsFiniteSet(FreePages) /\ IsFiniteSet(Held)
    <2>1. IsFiniteSet(Pages)
      BY FS_Interval DEF Pages, IInv, TypeOK
    <2>2. FreePages \subseteq Pages /\ Held \subseteq Pages
      BY <1>0 DEF FreePages, IInv, PagePartition, BootInv
    <2> QED
      BY <2>1, <2>2, FS_Subset
  <1>7. Pages' = Pages /\ FreePages' = FreePages \ S /\ Held' = Held \cup S
    BY <1>1, <1>2 DEF Pages, FreePages, Held
  <1>8. last_scanned_bit' \in Nat /\ last_scanned_bit' < total_pages
    <2>1. total_pages \in Nat \ {0} /\ l.streak_start + l.count \in Nat
      BY <1>0 DEF CommitInv, InCall, CallRec, IInv, TypeOK
    <2> QED
      BY <1>1, <2>1
  <1>13. Accounting'
    <2>1. /\ Cardinality(FreePages \ S) = Cardinality(FreePages) - l.count
          /\ Cardinality(Held \cup S) = Cardinality(Held) + l.count
      <3> HIDE DEF S
      <3>1. /\ Cardinality(FreePages \ S) = Cardinality(FreePages) - Cardinality(S)
            /\ Cardinality(Held \cup S) = Cardinality(Held) + Cardinality(S)
        BY <1>4, <1>5, <1>6, CardRemove, CardAdd
      <3> QED
        BY <1>5, <3>1
    <2> QED
      BY <1>0, <1>1, <1>7, <2>1 DEF IInv, Accounting, TypeOK, CallRec
  <1>9. TypeOK'
    <2>1. call' \in [Callers -> CallRec]
      BY DEF Commit, IInv, TypeOK, IdleCall, CallRec
    <2>2. bitmap' \in SUBSET Nat
      BY <1>1, <1>4 DEF IInv, TypeOK, Pages
    <2>3. free_pages' \in Nat /\ used_pages' \in Nat
      <3>1. IsFiniteSet(FreePages') /\ IsFiniteSet(Held')
        BY <1>5, <1>6, <1>7, FS_Difference, FS_Union
      <3>2. free_pages' = Cardinality(FreePages') /\ used_pages' = Cardinality(Held')
        BY <1>0, <1>1, <1>13 DEF Accounting
      <3> QED
        BY <3>1, <3>2, FS_CardinalityType
    <2> QED
      BY <1>1, <1>2, <1>8, <2>1, <2>2, <2>3 DEF IInv, TypeOK
  <1>10. Serial' /\ CallInv'
    BY <1>3 DEF Serial, CallInv
  <1>11. BootInv'
    BY <1>0, <1>1, <1>4, <1>7, <1>8 DEF BootInv, IInv
  <1>12. PagePartition'
    <2>1. \A d, e \in Callers : d # e => held'[d] \cap held'[e] = {}
      BY <1>0, <1>2, <1>4 DEF IInv, PagePartition, Held
    <2> HIDE DEF S
    <2>2. Held' \subseteq pool' /\ bitmap' = Pages' \ (pool' \ Held')
      BY <1>0, <1>1, <1>4, <1>7 DEF IInv, PagePartition
    <2> QED
      BY <2>1, <2>2 DEF PagePartition
  <1> QED
    BY <1>9, <1>10, <1>11, <1>12, <1>13 DEF IInv

(* pmm_free keeps the invariant. *)
LEMMA FreeStep ==
    ASSUME IInv, NEW c \in Callers, ~Preemption, NEW start \in pool \cup {0}, NEW count \in Counts,
           MayFree(c, start, count), pmm_free(c, start, count)
    PROVE  IInv'
  <1> DEFINE R == PageRange(start, count)
             F == Freed(start, count)
  <1>0. /\ \A d \in Callers : call[d].pc = "idle"
        /\ call' = call /\ total_pages' = total_pages /\ pool' = pool
        /\ usable_pages' = usable_pages /\ initialized' = initialized /\ booted' = booted
        /\ last_scanned_bit' = last_scanned_bit
    BY DEF pmm_free, MayRun
  <1>1. CASE ~initialized \/ start = 0 \/ count = 0
    <2>1. UNCHANGED <<bitmap, free_pages, used_pages, held>>
      BY <1>1 DEF pmm_free
    <2> QED
      BY <1>0, <2>1 DEF IInv, TypeOK, Serial, BootInv, PagePartition, Accounting, CallInv,
                        Held, FreePages, Pages
  <1>2. CASE initialized /\ start # 0 /\ count # 0
    <2>1. /\ bitmap' = bitmap \ F
          /\ free_pages' = free_pages + Cardinality(F)
          /\ used_pages' = used_pages - Cardinality(F)
      BY <1>2 DEF pmm_free
    <2>2. /\ \A d \in Callers : held'[d] = IF d = c THEN held[c] \ R ELSE held[d]
          /\ held' \in [Callers -> SUBSET Nat]
      BY <1>2 DEF pmm_free, IInv, TypeOK
    <2>3. R \subseteq pool /\ F = R \cap bitmap /\ F \subseteq held[c] /\ held[c] \subseteq bitmap
      <3>1. held[c] \subseteq Held /\ Held \subseteq pool /\ pool \subseteq Pages
            /\ bitmap = Pages \ (pool \ Held)
        BY <1>2 DEF IInv, PagePartition, BootInv, Held
      <3> QED
        BY <1>2, <3>1 DEF MayFree, Freed
    <2>4. \A d \in Callers : d # c => held[d] \cap F = {}
      BY <1>2, <2>3 DEF IInv, PagePartition
    <2>5. held[c] \ R = held[c] \ F
      BY <2>3
    <2> HIDE DEF R, F
    <2>6. Pages' = Pages /\ FreePages' = FreePages \cup F /\ Held' = Held \ F /\ F \subseteq Held
      <3>1. F \subseteq Pages
        BY <1>2, <2>3 DEF IInv, BootInv
      <3>2. Pages' = Pages /\ FreePages' = FreePages \cup F
        BY <1>0, <2>1, <3>1 DEF Pages, FreePages
      <3>3. Held' = Held \ F
        BY <2>2, <2>4, <2>5 DEF Held
      <3>4. F \subseteq Held
        BY <2>3 DEF Held
      <3> QED
        BY <3>2, <3>3, <3>4
    <2>7. IsFiniteSet(FreePages) /\ IsFiniteSet(Held) /\ IsFiniteSet(F)
      <3>1. IsFiniteSet(Pages)
        BY FS_Interval DEF Pages, IInv, TypeOK
      <3>2. FreePages \subseteq Pages /\ Held \subseteq Pages /\ F \subseteq Pages
        BY <1>2, <2>6 DEF FreePages, IInv, PagePartition, BootInv
      <3> QED
        BY <3>1, <3>2, FS_Subset
    <2>8. F \cap FreePages = {}
      BY <2>3 DEF FreePages
    <2>9. /\ Cardinality(Held \ F) = Cardinality(Held) - Cardinality(F)
          /\ Cardinality(FreePages \cup F) = Cardinality(FreePages) + Cardinality(F)
          /\ Cardinality(F) \in Nat
      BY <2>6, <2>7, <2>8, CardRemove, CardAdd
    <2>10. Accounting'
      BY <1>0, <1>2, <2>1, <2>6, <2>9 DEF IInv, Accounting, TypeOK
    <2>11. PagePartition'
      <3>1. \A d, e \in Callers : d # e => held'[d] \cap held'[e] = {}
        BY <1>2, <2>2 DEF IInv, PagePartition
      <3>2. Held' \subseteq pool' /\ bitmap' = Pages' \ (pool' \ Held')
        BY <1>0, <1>2, <2>1, <2>6 DEF IInv, PagePartition
      <3> QED
        BY <3>1, <3>2 DEF PagePartition
    <2>12. TypeOK'
      <3>1. bitmap' \in SUBSET Nat
        BY <2>1 DEF IInv, TypeOK
      <3>2. free_pages' \in Nat /\ used_pages' \in Nat
        <4>1. IsFiniteSet(FreePages') /\ IsFiniteSet(Held')
          BY <2>6, <2>7, FS_Difference, FS_Union
        <4>2. free_pages' = Cardinality(FreePages') /\ used_pages' = Cardinality(Held')
          BY <1>0, <1>2, <2>10 DEF Accounting
        <4> QED
          BY <4>1, <4>2, FS_CardinalityType
      <3> QED
        BY <1>0, <2>2, <3>1, <3>2 DEF IInv, TypeOK
    <2>13. Serial' /\ CallInv'
      BY <1>0 DEF Serial, CallInv
    <2>14. BootInv'
      BY <1>0, <1>2, <2>1, <2>6 DEF IInv, BootInv
    <2> QED
      BY <2>10, <2>11, <2>12, <2>13, <2>14 DEF IInv
  <1> QED
    BY <1>1, <1>2

(* Entering pmm_alloc keeps the invariant. *)
LEMMA AllocStep ==
    ASSUME IInv, NEW c \in Callers, ~Preemption, NEW count \in Counts, pmm_alloc(c, count)
    PROVE  IInv'
  <1> DEFINE l == [pc |-> "scan", count |-> count, start |-> last_scanned_bit, i |-> 0,
                   free_streak |-> 0, streak_start |-> 0]
  <1>1. CASE ~initialized \/ count = 0
    <2>1. call' = [call EXCEPT ![c] = call[c]] /\ call[c] \in CallRec /\ call[c].pc = "idle"
      BY <1>1 DEF pmm_alloc, IInv, TypeOK
    <2> QED
      BY <2>1, LocalStep DEF pmm_alloc
  <1>2. CASE initialized /\ count # 0
    <2>1. count \in Nat \ {0} /\ last_scanned_bit \in Nat
      BY <1>2, PmmConstants DEF Counts, IInv, TypeOK
    <2>2. l \in CallRec /\ l.pc = "scan" /\ l.count = count /\ l.start = last_scanned_bit
          /\ l.i = 0 /\ l.free_streak = 0
      BY <2>1 DEF CallRec
    <2>3. call' = [call EXCEPT ![c] = l]
      BY <1>2 DEF pmm_alloc
    <2> HIDE DEF l
    <2>4. /\ InCall(l) /\ total_pages \in Nat
          /\ Cur(l) = l.start /\ Lo(l) = l.start /\ Hi(l) = l.start /\ Wrapped(l) = 0
      BY <1>2, <2>1, <2>2 DEF InCall, IInv, BootInv, TypeOK, Cur, Lo, Hi, Wrapped
    <2>5. NoRunIn(l, Hi(l), Wrapped(l))
      BY <2>1, <2>2, <2>4 DEF NoRunIn, Pages
    <2>6. ScanInv(l)
      BY <2>1, <2>2, <2>4, <2>5 DEF ScanInv, FreePages
    <2> QED
      BY <1>2, <2>2, <2>3, <2>6, LocalStep DEF pmm_alloc
  <1> QED
    BY <1>1, <1>2

(* One page of the scan keeps the invariant: the streak is still free. *)
LEMMA ScanStep ==
    ASSUME IInv, NEW c \in Callers, ~Preemption, Scan(c)
    PROVE  IInv'
  <1> DEFINE l == call[c]
             n == ScanNext(l)
  <1>1. /\ l \in CallRec /\ ScanInv(l) /\ l.pc = "scan" /\ l.i < total_pages
        /\ total_pages \in Nat /\ bitmap \subseteq Pages /\ initialized
    BY DEF IInv, TypeOK, CallInv, BootInv, Scan, ScanInv, InCall
  <1>2. n \in CallRec
    <2>1. BitIdx(l) \in Nat
      BY <1>1, NextBit DEF ScanInv, InCall, CallRec
    <2>2. StreakAt(l) \in Nat
      BY <1>1 DEF StreakAt, CallRec
    <2> QED
      BY <1>1, <2>1, <2>2 DEF ScanNext, Looked, CallRec
  <1>3. \/ n.pc = "scan" /\ ScanInv(n)
        \/ n.pc = "commit" /\ CommitInv(n)
    BY <1>1, ScanUsed, ScanFree
  <1>4. call' = [call EXCEPT ![c] = n] /\ MayRun(c) /\ UNCHANGED_STATS
    BY DEF Scan
  <1> HIDE DEF n
  <1> QED
    BY <1>1, <1>2, <1>3, <1>4, LocalStep

(* Giving up after a full turn keeps the invariant. *)
LEMMA FailStep ==
    ASSUME IInv, NEW c \in Callers, ~Preemption, ScanFail(c)
    PROVE  IInv'
  <1> DEFINE l == call[c]
             n == [l EXCEPT !.pc = "fail"]
  <1>1. l \in CallRec /\ ScanInv(l) /\ l.i = total_pages /\ total_pages \in Nat /\ initialized
    BY DEF IInv, TypeOK, CallInv, ScanFail, ScanInv, InCall
  <1>2. /\ n \in CallRec /\ n.pc = "fail" /\ n.count = l.count /\ n.start = l.start /\ n.i = l.i
    BY <1>1 DEF CallRec
  <1>3. FailInv(n)
    <2>1. Hi(l) = total_pages /\ Wrapped(l) = l.start
      BY <1>1 DEF Hi, Wrapped, CallRec, ScanInv, InCall
    <2> HIDE DEF n
    <2> QED
      BY <1>1, <1>2, <2>1 DEF FailInv, ScanInv, InCall, NoRunIn
  <1>4. call' = [call EXCEPT ![c] = n] /\ MayRun(c) /\ UNCHANGED_STATS
    BY DEF ScanFail
  <1> HIDE DEF n
  <1> QED
    BY <1>1, <1>2, <1>3, <1>4, LocalStep

(* Returning NULL keeps the invariant. *)
LEMMA NullStep ==
    ASSUME IInv, NEW c \in Callers, ~Preemption, ReturnNull(c)
    PROVE  IInv'
  <1>1. IdleCall \in CallRec /\ IdleCall.pc = "idle"
    BY DEF IdleCall, CallRec
  <1> QED
    BY <1>1, LocalStep DEF ReturnNull

(* Every step preserves the invariant when the allocator is not preempted. *)
LEMMA NextIInv ==
    ASSUME IInv, ~Preemption, [Next]_vars
    PROVE  IInv'
  <1>1. ASSUME NEW m \in Memmaps \cup {NoResponse}, pmm_init(m) PROVE IInv'
    BY <1>1, InitStep
  <1>2. ASSUME NEW c \in Callers, NEW count \in Counts, pmm_alloc(c, count) PROVE IInv'
    BY <1>2, AllocStep
  <1>3. ASSUME NEW c \in Callers, Scan(c) PROVE IInv'
    BY <1>3, ScanStep
  <1>4. ASSUME NEW c \in Callers, ScanFail(c) PROVE IInv'
    BY <1>4, FailStep
  <1>5. ASSUME NEW c \in Callers, ReturnNull(c) PROVE IInv'
    BY <1>5, NullStep
  <1>6. ASSUME NEW c \in Callers, Commit(c) PROVE IInv'
    BY <1>6, CommitStep
  <1>7. ASSUME NEW c \in Callers, NEW start \in pool \cup {0}, NEW count \in Counts,
               MayFree(c, start, count), pmm_free(c, start, count)
        PROVE  IInv'
    BY <1>7, FreeStep
  <1>8. CASE UNCHANGED vars
    <2>1. /\ booted' = booted /\ initialized' = initialized /\ total_pages' = total_pages
          /\ free_pages' = free_pages /\ used_pages' = used_pages /\ usable_pages' = usable_pages
          /\ bitmap' = bitmap /\ last_scanned_bit' = last_scanned_bit /\ pool' = pool
          /\ call' = call /\ held' = held
      BY <1>8 DEF vars, stats
    <2>2. TypeOK'
      BY <2>1 DEF IInv, TypeOK
    <2>3. Serial' /\ BootInv'
      BY <2>1 DEF IInv, Serial, BootInv, Pages
    <2>4. PagePartition' /\ Accounting'
      BY <2>1 DEF IInv, PagePartition, Accounting, Held, FreePages, Pages
    <2>5. ASSUME NEW c \in Callers
          PROVE  /\ ScanInv(call[c])' = ScanInv(call[c])
                 /\ CommitInv(call[c])' = CommitInv(call[c])
                 /\ FailInv(call[c])' = FailInv(call[c])
      BY <2>1 DEF ScanInv, CommitInv, FailInv, InCall, NoRunIn, Cur, Lo, Hi, Wrapped, FreeRun,
                  FreePages, Pages
    <2> QED
      BY <2>1, <2>2, <2>3, <2>4, <2>5 DEF IInv, CallInv
  <1> QED
    BY <1>1, <1>2, <1>3, <1>4, <1>5, <1>6, <1>7, <1>8 DEF Next

(* The state of the allocator stays inside its inductive invariant as long  *)
(* as no caller is preempted inside pmm_alloc or pmm_free.                  *)
THEOREM Invariance == ASSUME ~Preemption PROVE Spec => []IInv
  <1>1. Init => IInv
    BY InitIInv
  <1>2. IInv /\ [Next]_vars => IInv'
    BY NextIInv
  <1> QED
    BY <1>1, <1>2, PTL DEF Spec

(* Type correctness of pmm.c's state, for every memory map and request. *)
THEOREM TypeCorrect == ASSUME ~Preemption PROVE Spec => []TypeOK
  <1>1. IInv => TypeOK
    BY DEF IInv
  <1> QED
    BY <1>1, Invariance, PTL

(* Every page is reserved, free or held by exactly one caller of pmm_alloc, *)
(* and the bitmap says which, for every memory map and request.             *)
THEOREM PagesArePartitioned == ASSUME ~Preemption PROVE Spec => []PagePartition
  <1>1. IInv => PagePartition
    BY DEF IInv
  <1> QED
    BY <1>1, Invariance, PTL

(* The counters of pmm_stat agree with the bitmap, for every memory map and *)
(* every sequence of allocations, frees and double frees.                   *)
THEOREM CountersAreExact == ASSUME ~Preemption PROVE Spec => []Accounting
  <1>1. IInv => Accounting
    BY DEF IInv
  <1> QED
    BY <1>1, Invariance, PTL

(* A free run ends inside the memory. *)
LEMMA FreeRunFits ==
    ASSUME NEW l \in CallRec, InCall(l), total_pages \in Nat, NEW w \in Pages, FreeRun(w, l.count)
    PROVE  w + l.count <= total_pages
  BY DEF FreeRun, FreePages, PageRange, Pages, InCall, CallRec

(* A scan that gives up has seen every place where a run could start. *)
LEMMA FailIsExact ==
    ASSUME NEW l \in CallRec, FailInv(l), total_pages \in Nat,
           NEW w \in Pages, FreeRun(w, l.count)
    PROVE  ~OneSide(l.start, w, l.count)
  <1>1. w + l.count <= total_pages
    BY FreeRunFits DEF FailInv
  <1> QED
    BY <1>1 DEF FailInv, NoRunIn, OneSide, Pages, CallRec

(* A scan that succeeds has found the run it was asked for. *)
LEMMA CommitIsNext ==
    ASSUME NEW l \in CallRec, CommitInv(l), total_pages \in Nat
    PROVE  /\ FreeRun(l.streak_start, l.count) /\ OneSide(l.start, l.streak_start, l.count)
           /\ \A w \in Pages : FreeRun(w, l.count) /\ OneSide(l.start, w, l.count) =>
                 (l.streak_start - l.start) % total_pages <= (w - l.start) % total_pages
  <1> DEFINE T == total_pages
             Off(w) == IF w >= l.start THEN w - l.start ELSE w - l.start + T
  <1>1. T \in Nat \ {0}
    BY DEF CommitInv, InCall, CallRec
  <1>2. \A w \in Pages : (w - l.start) % T = Off(w)
    <2> SUFFICES ASSUME NEW w \in Pages PROVE (w - l.start) % T = Off(w)
      OBVIOUS
    <2>1. w - l.start \in Int /\ -T < w - l.start /\ w - l.start < T
      BY <1>1 DEF Pages, CommitInv, InCall, CallRec
    <2> QED
      BY <1>1, <2>1, ModOnce DEF Pages, CallRec
  <1>3. l.streak_start \in Pages /\ FreeRun(l.streak_start, l.count)
    BY <1>1 DEF CommitInv, InCall, FreeRun, FreePages, PageRange, Pages, CallRec
  <1>4. OneSide(l.start, l.streak_start, l.count)
    BY <1>1 DEF CommitInv, InCall, OneSide, Cur, Lo, CallRec
  <1>5. ASSUME NEW w \in Pages, FreeRun(w, l.count), OneSide(l.start, w, l.count)
        PROVE  Off(l.streak_start) <= Off(w)
    <2>1. w + l.count <= T
      BY <1>5, FreeRunFits DEF CommitInv
    <2>2. /\ l.start \in Nat /\ l.i \in Nat /\ l.count \in Nat /\ l.streak_start \in Nat
          /\ l.start < T /\ l.i <= T /\ l.count >= 1 /\ w \in Nat
      BY DEF CommitInv, InCall, CallRec, Pages
    <2>3. CASE l.start + l.i <= T
      <3>1. NoRunIn(l, l.start + l.i - 1, 0)
        BY <1>1, <2>2, <2>3 DEF CommitInv, Hi
      <3>2. w >= l.start => w + l.count > l.start + l.i - 1
        BY <1>5, <3>1 DEF NoRunIn
      <3>3. l.streak_start + l.count = l.start + l.i /\ l.streak_start >= l.start
        BY <2>3 DEF CommitInv, Cur, Lo
      <3>4. w >= l.start \/ w < l.start
        BY <2>2
      <3> QED
        BY <1>1, <1>5, <2>1, <2>2, <2>3, <3>2, <3>3, <3>4
    <2>4. CASE l.start + l.i > T
      <3>1. NoRunIn(l, T, l.start + l.i - T - 1)
        BY <1>1, <2>2, <2>4 DEF CommitInv, Wrapped
      <3>2. /\ w >= l.start => w + l.count > T
            /\ w + l.count <= l.start => w + l.count > l.start + l.i - T - 1
        BY <1>5, <3>1 DEF NoRunIn
      <3>3. l.streak_start + l.count = l.start + l.i - T
        BY <1>1, <2>2, <2>4 DEF CommitInv, Cur
      <3>4. w + l.count <= l.start
        BY <1>1, <1>5, <2>1, <2>2, <3>2 DEF OneSide
      <3> QED
        BY <1>1, <2>2, <2>4, <3>2, <3>3, <3>4
    <2> QED
      BY <1>1, <2>2, <2>3, <2>4
  <1> QED
    BY <1>2, <1>3, <1>4, <1>5

(* The streak-counting scan of pmm_alloc finds the next free run of count   *)
(* pages, and fails only if there is none apart from runs across the page   *)
(* where it started, for every bitmap and every request.                    *)
THEOREM ScanIsExact == ASSUME ~Preemption PROVE Spec => []ScanExact
  <1>1. ASSUME IInv PROVE ScanExact
    <2> SUFFICES ASSUME NEW c \in Callers
                 PROVE  LET l == call[c]
                            Found(w) == FreeRun(w, l.count) /\ OneSide(l.start, w, l.count)
                        IN  /\ l.pc = "fail" => \A w \in Pages : ~Found(w)
                            /\ l.pc = "commit" =>
                                  /\ Found(l.streak_start)
                                  /\ \A w \in Pages : Found(w) =>
                                        (l.streak_start - l.start) % total_pages
                                            <= (w - l.start) % total_pages
      BY DEF ScanExact
    <2>1. call[c] \in CallRec /\ total_pages \in Nat
      BY <1>1 DEF IInv, TypeOK
    <2>2. call[c].pc = "fail" => FailInv(call[c])
      BY <1>1 DEF IInv, CallInv
    <2>3. call[c].pc = "commit" => CommitInv(call[c])
      BY <1>1 DEF IInv, CallInv
    <2> QED
      BY <2>1, <2>2, <2>3, FailIsExact, CommitIsNext
  <1> QED
    BY <1>1, Invariance, PTL
=============================================================================
