-------------------------------- MODULE Pmm --------------------------------
(***************************************************************************)
(* The physical page allocator, krnl/mem/pmm.c: one bit per page, a        *)
(* circular first-fit scan that resumes behind the last allocation.        *)
(*                                                                         *)
(* Memory is counted in pages.  The scan of pmm_alloc is one step per loop *)
(* iteration, so a caller that runs with interrupts enabled (the cmdline   *)
(* thread and what it forks) can be preempted inside it, while a caller in *)
(* a system call (interrupt gate 0x80, IF = 0) cannot: Preemption selects  *)
(* whether calls of different callers interleave.                          *)
(***************************************************************************)
EXTENDS Integers, FiniteSets, Sequences

CONSTANTS
    Callers,      \* kernel paths that allocate and free pages
    Memmaps,      \* the memory maps the boot loader may report
    PAGE_SIZE,    \* bytes in a page (of the bitmap)
    MaxCount,     \* bound: largest count a caller asks for
    Preemption    \* TRUE: a caller may be preempted inside pmm_alloc

VARIABLES
    booted,           \* pmm_init has been called (kmain calls it once)
    initialized,      \* stats.initialized
    total_pages, free_pages, used_pages, usable_pages,   \* struct pmm_stat
    bitmap,           \* the set of pages whose bit is 1
    last_scanned_bit,
    pool,             \* history: the pages pmm_init left free
    call,             \* the locals of each caller's pmm_alloc
    held              \* history: the pages each caller was given and not freed

stats == <<initialized, total_pages, free_pages, used_pages, usable_pages>>
vars  == <<booted, stats, bitmap, last_scanned_bit, pool, call, held>>

NoResponse == <<>>    \* no memory map or no HHDM response

PageRange(start, count) == start .. start + count - 1
Pages == 0 .. total_pages - 1
EntryPages(e) == PageRange(e.base, e.length)
UsablePages(m) == UNION {EntryPages(m[i]) : i \in {j \in DOMAIN m : m[j].usable}}

CeilDiv(a, b) == (a + b - 1) \div b

(* Guaranteed by the Limine protocol: a map is not empty, its usable       *)
(* entries are page aligned, do not overlap and do not hold page 0.        *)
ASSUME MemmapAssumption ==
    \A m \in Memmaps :
        /\ m \in Seq([base : Nat, length : Nat \ {0}, usable : BOOLEAN])
        /\ \E i \in DOMAIN m : \A j \in DOMAIN m :
              m[j].base + m[j].length <= m[i].base + m[i].length
        /\ \A i \in DOMAIN m : m[i].usable =>
              /\ m[i].base # 0
              /\ \A j \in DOMAIN m \ {i} : EntryPages(m[i]) \cap EntryPages(m[j]) = {}

ASSUME PmmConstants == /\ PAGE_SIZE \in Nat \ {0}
                       /\ MaxCount \in Nat
                       /\ Preemption \in BOOLEAN

-----------------------------------------------------------------------------
CallRec == [pc : {"idle", "scan", "commit", "fail"}, count : Nat, start : Nat,
            i : Nat, free_streak : Nat, streak_start : Nat]

IdleCall == [pc |-> "idle", count |-> 0, start |-> 0, i |-> 0,
             free_streak |-> 0, streak_start |-> 0]

Init ==
    /\ booted = FALSE /\ initialized = FALSE
    /\ total_pages = 0 /\ free_pages = 0 /\ used_pages = 0 /\ usable_pages = 0
    /\ bitmap = {} /\ last_scanned_bit = 0 /\ pool = {}
    /\ call = [c \in Callers |-> IdleCall]
    /\ held = [c \in Callers |-> {}]

(* pmm_init *)
HighestPage(m) ==
    CHOOSE top \in {m[i].base + m[i].length : i \in DOMAIN m} :
        \A i \in DOMAIN m : m[i].base + m[i].length <= top

BitmapSizeBytes(m) == CeilDiv(HighestPage(m), 8)

HasBitmapRoom(m, i) == m[i].usable /\ m[i].length * PAGE_SIZE >= BitmapSizeBytes(m)

BitmapEntry(m) == CHOOSE i \in DOMAIN m :
    HasBitmapRoom(m, i) /\ \A j \in 1 .. i - 1 : ~HasBitmapRoom(m, j)

(* mutant: the loop of line 93 runs to i <= bitmap_size_bytes *)
BitmapPages_OneMore(m) ==
    PageRange(m[BitmapEntry(m)].base, BitmapSizeBytes(m) \div PAGE_SIZE + 1)

BitmapPages(m) == PageRange(m[BitmapEntry(m)].base, CeilDiv(BitmapSizeBytes(m), PAGE_SIZE))

pmm_init(m) ==
    /\ ~booted
    /\ booted' = TRUE
    /\ IF m # NoResponse /\ \E i \in DOMAIN m : HasBitmapRoom(m, i)
       THEN /\ total_pages' = HighestPage(m)
            /\ bitmap' = (0 .. HighestPage(m) - 1) \ (UsablePages(m) \ BitmapPages(m))
            /\ free_pages' = Cardinality(UsablePages(m)) - Cardinality(BitmapPages(m))
            /\ used_pages' = 0
            /\ usable_pages' = free_pages'
            /\ initialized' = TRUE
            /\ pool' = (0 .. HighestPage(m) - 1) \ bitmap'
       ELSE /\ total_pages' = IF m = NoResponse THEN 0 ELSE HighestPage(m)
            /\ UNCHANGED <<bitmap, free_pages, used_pages, usable_pages, initialized, pool>>
    /\ UNCHANGED <<last_scanned_bit, call, held>>

-----------------------------------------------------------------------------
(* A caller steps when nobody else is inside a call, or preemption lets it. *)
MayRun(c) == Preemption \/ \A d \in Callers \ {c} : call[d].pc = "idle"

UNCHANGED_STATS == UNCHANGED <<booted, stats, bitmap, last_scanned_bit, pool, held>>

(* pmm_alloc, entry: NULL at once, or the scan starts *)
pmm_alloc(c, count) ==
    /\ MayRun(c) /\ call[c].pc = "idle"
    /\ IF ~initialized \/ count = 0
       THEN UNCHANGED call
       ELSE call' = [call EXCEPT ![c] =
              [pc |-> "scan", count |-> count, start |-> last_scanned_bit, i |-> 0,
               free_streak |-> 0, streak_start |-> 0]]
    /\ UNCHANGED_STATS

BitIdx(l) == (l.start + l.i) % total_pages

(* the streak is forgotten at bit 0: memory does not wrap around *)
StreakAt(l) == IF BitIdx(l) = 0 THEN 0 ELSE l.free_streak

(* one iteration of the scan, with free_streak as the test of the page leaves it *)
Looked(l, streak_start, free_streak) ==
    [pc |-> IF free_streak = l.count THEN "commit" ELSE "scan",
     count |-> l.count, start |-> l.start, i |-> l.i + 1,
     free_streak |-> free_streak, streak_start |-> streak_start]

(* mutant: a page in use does not end the streak *)
ScanNext_KeepStreak(l) ==
    IF BitIdx(l) \in bitmap THEN Looked(l, l.streak_start, StreakAt(l))
    ELSE IF StreakAt(l) = 0 THEN Looked(l, BitIdx(l), 1)
    ELSE Looked(l, l.streak_start, StreakAt(l) + 1)

ScanNext(l) ==
    IF BitIdx(l) \in bitmap THEN Looked(l, l.streak_start, 0)
    ELSE IF StreakAt(l) = 0 THEN Looked(l, BitIdx(l), 1)
    ELSE Looked(l, l.streak_start, StreakAt(l) + 1)

Scan(c) ==
    /\ MayRun(c) /\ call[c].pc = "scan" /\ call[c].i < total_pages
    /\ call' = [call EXCEPT ![c] = ScanNext(@)]
    /\ UNCHANGED_STATS

(* the loop is over without a streak of count pages: the warning of line 156 *)
ScanFail(c) ==
    /\ MayRun(c) /\ call[c].pc = "scan" /\ call[c].i = total_pages
    /\ call' = [call EXCEPT ![c].pc = "fail"]
    /\ UNCHANGED_STATS

ReturnNull(c) ==
    /\ MayRun(c) /\ call[c].pc = "fail"
    /\ call' = [call EXCEPT ![c] = IdleCall]
    /\ UNCHANGED_STATS

(* mutant: the pages after the first are not marked *)
Streak_FirstOnly(l) == {l.streak_start}

Streak(l) == PageRange(l.streak_start, l.count)

(* the streak has count pages: mark them, count them, return them *)
Commit(c) ==
    LET l == call[c]
    IN  /\ MayRun(c) /\ l.pc = "commit"
        /\ bitmap' = bitmap \cup Streak(l)
        /\ last_scanned_bit' = (l.streak_start + l.count) % total_pages
        /\ free_pages' = free_pages - l.count
        /\ used_pages' = used_pages + l.count
        /\ held' = [held EXCEPT ![c] = @ \cup PageRange(l.streak_start, l.count)]
        /\ call' = [call EXCEPT ![c] = IdleCall]
        /\ UNCHANGED <<booted, initialized, total_pages, usable_pages, pool>>

-----------------------------------------------------------------------------
(* mutant: a page that is already free is counted again *)
Freed_Unchecked(start, count) == PageRange(start, count)

(* pages of the range that are marked: the others are logged as double frees *)
Freed(start, count) == PageRange(start, count) \cap bitmap

pmm_free(c, start, count) ==
    LET freed == Freed(start, count)
    IN  /\ MayRun(c) /\ call[c].pc = "idle"
        /\ IF ~initialized \/ start = 0 \/ count = 0
           THEN UNCHANGED <<bitmap, free_pages, used_pages, held>>
           ELSE /\ bitmap' = bitmap \ freed
                /\ free_pages' = free_pages + Cardinality(freed)
                /\ used_pages' = used_pages - Cardinality(freed)
                /\ held' = [held EXCEPT ![c] = @ \ PageRange(start, count)]
        /\ UNCHANGED <<booted, initialized, total_pages, usable_pages,
                       last_scanned_bit, pool, call>>

(* What the allocator's callers free: NULL, pages they hold and, by         *)
(* mistake, pages that are free already; never what somebody else was given. *)
MayFree(c, start, count) ==
    start = 0 \/ /\ PageRange(start, count) \subseteq pool
                 /\ PageRange(start, count) \cap bitmap \subseteq held[c]

Counts == 0 .. MaxCount

Next ==
    \/ \E m \in Memmaps \cup {NoResponse} : pmm_init(m)
    \/ \E c \in Callers :
          \/ \E count \in Counts : pmm_alloc(c, count)
          \/ Scan(c) \/ ScanFail(c) \/ ReturnNull(c) \/ Commit(c)
          \/ \E start \in pool \cup {0}, count \in Counts :
                MayFree(c, start, count) /\ pmm_free(c, start, count)

Spec == Init /\ [][Next]_vars
-----------------------------------------------------------------------------
Held == UNION {held[c] : c \in Callers}
FreePages == Pages \ bitmap

(* Type correctness of the allocator's state and of the locals of pmm_alloc; *)
(* the counters are unsigned and do not wrap below zero.                     *)
TypeOK ==
    /\ booted \in BOOLEAN /\ initialized \in BOOLEAN
    /\ total_pages \in Nat /\ last_scanned_bit \in Nat
    /\ free_pages \in Nat /\ used_pages \in Nat /\ usable_pages \in Nat
    /\ bitmap \in SUBSET Nat /\ pool \in SUBSET Nat
    /\ held \in [Callers -> SUBSET Nat]
    /\ call \in [Callers -> CallRec]

(* A page is marked in the bitmap exactly when it was reserved at boot (no   *)
(* usable memory, or the bitmap itself) or is held by one caller of          *)
(* pmm_alloc: nothing is given out twice, lost, or given out although it     *)
(* was never free; a holder's pmm_free never reports a double free.          *)
PagePartition ==
    initialized =>
        /\ \A c, d \in Callers : c # d => held[c] \cap held[d] = {}
        /\ Held \subseteq pool
        /\ bitmap = Pages \ (pool \ Held)

(* The counters pmm_stat reports are the bitmap's: free_pages counts the     *)
(* clear bits and used_pages the pages held, through double frees too.       *)
Accounting ==
    initialized =>
        /\ free_pages = Cardinality(FreePages)
        /\ used_pages = Cardinality(Held)
        /\ free_pages + used_pages = usable_pages

FreeRun(w, n) == PageRange(w, n) \subseteq FreePages

(* The scan cannot see a run that lies across the page where it started. *)
OneSide(start, w, n) == w >= start \/ w + n <= start

(* The circular scan of pmm_alloc, which only counts a streak, is exact up   *)
(* to its starting page: what it commits is a free run of count pages that   *)
(* does not wrap around the end of memory and is the next such run, and it   *)
(* fails only if there is none, apart from runs across the starting page.    *)
ScanExact ==
    \A c \in Callers :
        LET l == call[c]
            Found(w) == FreeRun(w, l.count) /\ OneSide(l.start, w, l.count)
        IN  /\ l.pc = "fail" => \A w \in Pages : ~Found(w)
            /\ l.pc = "commit" =>
                  /\ Found(l.streak_start)
                  /\ \A w \in Pages : Found(w) =>
                        (l.streak_start - l.start) % total_pages <= (w - l.start) % total_pages

(* What the warning of pmm_alloc says: "Allocation failed: %llu contiguous   *)
(* free pages not available", that is, it fails only without such a run.     *)
AllocationFailedIsTrue ==
    \A c \in Callers : call[c].pc = "fail" => \A w \in Pages : ~FreeRun(w, call[c].count)

(* What the warning of pmm_free says: "Double free detected".  A caller that *)
(* frees pages it was given and has not freed never provokes it, because     *)
(* pages in somebody's hands are marked.                                     *)
DoubleFreeWarningIsTrue == initialized => \A c \in Callers : held[c] \subseteq bitmap
=============================================================================
