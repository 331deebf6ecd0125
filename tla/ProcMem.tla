------------------------------ MODULE ProcMem -------------------------------
(***************************************************************************)
(* The frames behind the processes: page tables (krnl/mem/vmm.c), program  *)
(* loading (krnl/task/elf.c, exec.c), brk, mmap and munmap                 *)
(* (krnl/api/syscall.c), and what fork, exit and waitpid do to an address  *)
(* space.  Addresses are in half pages, so that rounding up is visible;    *)
(* virtual pages are numbers.  pmm_alloc is any allocation of a free frame *)
(* (module Pmm); 0 is the NULL it returns when there is none.  System      *)
(* calls are atomic; the children of the shell load a program page by page *)
(* with interrupts enabled, so their steps interleave.                     *)
(***************************************************************************)
EXTENDS Integers, Sequences, FiniteSets, FiniteSetsExt, TLC

CONSTANTS
    Proc,
    Frame,          \* the frames of pmm, positive numbers
    Fb,             \* the frame of the framebuffer
    KernelFrames,   \* the sets of frames the kernel itself may hold, with Fb
    Path,           \* virtual page -> the page tables below the root that lead to it
    CodePages, StackPages,   \* what elf_load and sys_execve map, in order
    HeapStart, MmapStart, FbPage,
    HeapPages, MmapPages     \* bounds: pages of heap, pages ever mapped by mmap

VARIABLES
    used,           \* the frames marked in the bitmap
    space,          \* process -> the address space in its cr3
    ctx,            \* process -> the address space execve is building
    todo,           \* process -> the pages execve has still to map
    heap_end, mmap_next,
    phase,          \* process -> "none", "forked", "loading", "program" or "zombie"
    kernel,         \* the frames in use outside the address spaces
    cause,          \* history: what has made the system lose frames
    panic           \* a fork or an execve has faulted

procVars == <<used, space, ctx, todo, heap_end, mmap_next, phase, kernel, cause, panic>>

NoSpace == [root |-> 0, tables |-> <<>>, map |-> <<>>, no_free |-> {}]

ProcInit ==
    /\ kernel \in KernelFrames /\ used = kernel
    /\ space = [p \in Proc |-> NoSpace] /\ ctx = space /\ todo = [p \in Proc |-> <<>>]
    /\ heap_end = [p \in Proc |-> 0] /\ mmap_next = heap_end
    /\ phase = [p \in Proc |-> "none"] /\ cause = {} /\ panic = FALSE

Values(f) == {f[x] : x \in DOMAIN f}
PagesUpTo(half) == (half + 1) \div 2

-----------------------------------------------------------------------------
pmm_alloc(u) == IF Frame \subseteq u THEN 0 ELSE Min(Frame \ u)
pmm_free(u, frames) == u \ frames

(* The work of one call: the bitmap, the address space it changes and        *)
(* whether everything has succeeded so far.                                  *)
Work(u, s) == [used |-> u, space |-> s, ok |-> TRUE, cause |-> {}]
Out(w) == [w EXCEPT !.ok = FALSE, !.cause = @ \cup {"exhausted"}]

(* vmm_create_context *)
vmm_create_context(u) ==
    LET f == pmm_alloc(u)
    IN IF f = 0 THEN Out(Work(u, NoSpace)) ELSE Work(u \cup {f}, [NoSpace EXCEPT !.root = f])

(* get_next_level, allocating, down to the table of page v *)
Walk(w, v) ==
    LET down[i \in 0 .. Len(Path[v])] ==
            IF i = 0 THEN w
            ELSE LET x == down[i - 1]
                     f == pmm_alloc(x.used)
                 IN IF ~x.ok \/ Path[v][i] \in DOMAIN x.space.tables THEN x
                    ELSE IF f = 0 THEN Out(x)
                    ELSE [x EXCEPT !.used = @ \cup {f}, !.space.tables = (Path[v][i] :> f) @@ @]
    IN down[Len(Path[v])]

Mapped(s, v) == v \in DOMAIN s.map /\ s.map[v] # 0

(* vmm_map overwrites whatever entry there is *)
vmm_map(w, v, f, noFree) ==
    LET x == Walk(w, v)
    IN IF ~x.ok THEN x
       ELSE [x EXCEPT
               !.space.map = (v :> f) @@ @,
               !.space.no_free = IF noFree THEN @ \cup {v} ELSE @ \ {v},
               !.cause = @ \cup IF Mapped(w.space, v) /\ v \notin w.space.no_free
                                THEN {"remapped"} ELSE {}]

(* a fresh frame for page v; brk and mmap ignore that vmm_map has failed *)
MapFresh(w, v) ==
    LET f == pmm_alloc(w.used)
    IN IF f = 0 THEN Out(w)
       ELSE [vmm_map([w EXCEPT !.used = @ \cup {f}], v, f, FALSE) EXCEPT !.ok = TRUE]

(* free_pagetable_hierarchy and the root: every frame of the space but those kept *)
Owned(s) ==
    ({s.root} \cup Values(s.tables) \cup {s.map[v] : v \in DOMAIN s.map \ s.no_free}) \ {0}

(* mutant: the tables between the root and the pages are forgotten *)
vmm_free_cr3_NoTables(u, s) == pmm_free(u, Owned(s) \ Values(s.tables))

vmm_free_cr3(u, s) == pmm_free(u, Owned(s))

(* n frames for a clone; which ones does not matter *)
Frames(n) == {f \in Frame \ used : Cardinality({g \in Frame \ used : g < f}) < n}

-----------------------------------------------------------------------------
Does(w) == used' = w.used /\ cause' = cause \cup w.cause
Running(p) == phase[p] = "program" /\ ~panic

(* downwards only heap_end moves; a failing pmm_alloc leaves heap_end and what is mapped *)
sys_brk(p, addr) ==
    LET from == PagesUpTo(heap_end[p])
        grow[n \in from .. Max({from, PagesUpTo(addr)})] ==
            IF n = from THEN Work(used, space[p])
            ELSE IF ~grow[n - 1].ok THEN grow[n - 1]
            ELSE MapFresh(grow[n - 1], HeapStart + n - 1)
        w == grow[Max({from, PagesUpTo(addr)})]
    IN /\ Running(p)
       /\ Does(w)
       /\ space' = [space EXCEPT ![p] = w.space]
       /\ heap_end' = IF w.ok THEN [heap_end EXCEPT ![p] = addr] ELSE heap_end
       /\ UNCHANGED <<ctx, todo, mmap_next, phase, panic>>

MmapPage(w, v) == IF Mapped(w.space, v) THEN w ELSE MapFresh(w, v)

sys_mmap(p, v, n) ==
    LET pages[i \in 0 .. n] ==
            IF i = 0 THEN Work(used, space[p])
            ELSE IF ~pages[i - 1].ok THEN pages[i - 1]
            ELSE MmapPage(pages[i - 1], v + i - 1)
    IN /\ Running(p)
       /\ Does(pages[n])
       /\ space' = [space EXCEPT ![p] = pages[n].space]
       /\ UNCHANGED <<ctx, todo, heap_end, phase, panic>>

(* without an address: behind everything mapped so before, also when it fails *)
MmapAnywhere(p, n) ==
    /\ mmap_next[p] + n <= MmapPages
    /\ sys_mmap(p, MmapStart + mmap_next[p], n)
    /\ mmap_next' = [mmap_next EXCEPT ![p] = @ + n]

MmapAt(p, v, n) == sys_mmap(p, v, n) /\ UNCHANGED mmap_next

(* mutant: the frame is given back and the entry stays *)
Unmapped_Kept(s, pages) == s

Unmapped(s, pages) == [s EXCEPT !.map = [v \in DOMAIN @ \ pages |-> @[v]], !.no_free = @ \ pages]

(* addr need not be aligned: the page it lies in is the first *)
sys_munmap(p, addr, n) ==
    LET hit(v) == v \in DOMAIN space[p].map /\ (space[p].map[v] # 0 \/ addr % 2 = 1)
        pages == {v \in addr \div 2 .. addr \div 2 + n - 1 : hit(v)}
    IN /\ Running(p)
       /\ used' = pmm_free(used, {space[p].map[v] : v \in pages})
       /\ space' = [space EXCEPT ![p] = Unmapped(@, pages)]
       /\ UNCHANGED <<ctx, todo, heap_end, mmap_next, phase, cause, panic>>

(* TTY_IOCTL_MAP_FRAMEBUFFER *)
dev_tty_ioctl(p) ==
    LET w == vmm_map(Work(used, space[p]), FbPage, Fb, TRUE)
    IN /\ Running(p)
       /\ Does(w)
       /\ space' = [space EXCEPT ![p] = w.space]
       /\ UNCHANGED <<ctx, todo, heap_end, mmap_next, phase, panic>>

-----------------------------------------------------------------------------
(* vmm_clone_context fails: what it built is freed, but a copied framebuffer page *)
(* carries NO_FREE and, if memory ran out behind it, stays                        *)
CloneFails(s) ==
    \E n \in 0 .. Cardinality(s.no_free) :
        used' = used \cup Frames(n) /\ cause' = cause \cup {"exhausted"}

CloneFrames(s) == 1 + Cardinality(DOMAIN s.tables) + Cardinality(DOMAIN s.map)

(* the shell forks; the kernel's own lower half is empty.  Without a stack for *)
(* the child the clone is lost.                                                *)
sched_fork(p) ==
    /\ phase[p] = "none" /\ ~panic
    /\ LET w == vmm_create_context(used)
       IN \/ ~w.ok /\ Does(w) /\ UNCHANGED <<space, phase>>
          \/ w.ok /\ used' = w.used /\ cause' = cause \cup {"fork"} /\ UNCHANGED <<space, phase>>
          \/ /\ w.ok /\ Does(w)
             /\ space' = [space EXCEPT ![p] = w.space]
             /\ phase' = [phase EXCEPT ![p] = "forked"]
    /\ UNCHANGED <<ctx, todo, heap_end, mmap_next, panic>>

(* a program forks: when the clone and the stack are there, the child faults *)
ProgramFork(p) ==
    /\ Running(p)
    /\ IF Cardinality(Frame \ used) < CloneFrames(space[p])
       THEN CloneFails(space[p]) /\ UNCHANGED panic
       ELSE /\ used' = used \cup Frames(CloneFrames(space[p]))
            /\ cause' = cause \cup {"fork"}
            /\ panic' \in BOOLEAN
    /\ UNCHANGED <<space, ctx, todo, heap_end, mmap_next, phase>>

Exits(p) == phase' = [phase EXCEPT ![p] = "zombie"]

(* sys_execve: no such file, no memory for the tables, or on with elf_load *)
sys_execve(p) ==
    /\ phase[p] = "forked" /\ ~panic
    /\ LET w == vmm_create_context(used)
       IN \/ Exits(p) /\ UNCHANGED <<used, ctx, todo, cause>>
          \/ ~w.ok /\ Does(w) /\ Exits(p) /\ UNCHANGED <<ctx, todo>>
          \/ /\ w.ok /\ Does(w)
             /\ ctx' = [ctx EXCEPT ![p] = w.space]
             /\ todo' = [todo EXCEPT ![p] = CodePages \o StackPages]
             /\ phase' = [phase EXCEPT ![p] = "loading"]
    /\ UNCHANGED <<space, heap_end, mmap_next, panic>>

(* the file is no executable: execve returns without destroying the context *)
ElfRefused(p) ==
    /\ phase[p] = "loading" /\ todo[p] = CodePages \o StackPages /\ ~panic
    /\ Exits(p) /\ cause' = cause \cup {"exec"}
    /\ ctx' = [ctx EXCEPT ![p] = NoSpace] /\ todo' = [todo EXCEPT ![p] = <<>>]
    /\ UNCHANGED <<used, space, heap_end, mmap_next, panic>>

(* one page of a segment or of the stack; NULL from pmm_alloc is mapped as *)
(* frame 0, and a page that could not be mapped faults when it is written  *)
LoadPage(p) ==
    LET v == Head(todo[p])
        f == pmm_alloc(used)
        w == vmm_map(Work(used \cup ({f} \ {0}), ctx[p]), v, f, FALSE)
    IN /\ phase[p] = "loading" /\ todo[p] # <<>> /\ ~panic
       /\ Does([w EXCEPT !.cause = @ \cup IF f = 0 THEN {"exhausted"} ELSE {}])
       /\ ctx' = [ctx EXCEPT ![p] = w.space]
       /\ todo' = [todo EXCEPT ![p] = Tail(@)]
       /\ panic' = ~w.ok
       /\ UNCHANGED <<space, heap_end, mmap_next, phase>>

(* a tick while a segment is copied into the new space resumes the child with *)
(* the tables of its old one (sched.c:146), where the segment is not mapped   *)
CopyPreempted(p) ==
    /\ phase[p] = "loading" /\ Len(todo[p]) = Len(StackPages) /\ ~panic
    /\ panic' = TRUE
    /\ UNCHANGED <<used, space, ctx, todo, heap_end, mmap_next, phase, cause>>

ExecSwitch(p) ==
    /\ phase[p] = "loading" /\ todo[p] = <<>> /\ ~panic
    /\ used' = vmm_free_cr3(used, space[p])
    /\ space' = [space EXCEPT ![p] = ctx[p]] /\ ctx' = [ctx EXCEPT ![p] = NoSpace]
    /\ heap_end' = [heap_end EXCEPT ![p] = 0] /\ mmap_next' = [mmap_next EXCEPT ![p] = 0]
    /\ phase' = [phase EXCEPT ![p] = "program"]
    /\ UNCHANGED <<todo, cause, panic>>

sched_exit(p) ==
    /\ Running(p) /\ Exits(p)
    /\ UNCHANGED <<used, space, ctx, todo, heap_end, mmap_next, cause, panic>>

(* a child killed inside execve never gets to its new space *)
sched_kill(p) ==
    /\ phase[p] \in {"forked", "loading"} /\ ~panic
    /\ Exits(p)
    /\ cause' = cause \cup IF phase[p] = "loading" THEN {"killed"} ELSE {}
    /\ ctx' = [ctx EXCEPT ![p] = NoSpace] /\ todo' = [todo EXCEPT ![p] = <<>>]
    /\ UNCHANGED <<used, space, heap_end, mmap_next, panic>>

sched_waitpid(p) ==
    /\ phase[p] = "zombie" /\ ~panic
    /\ used' = vmm_free_cr3(used, space[p])
    /\ space' = [space EXCEPT ![p] = NoSpace]
    /\ heap_end' = [heap_end EXCEPT ![p] = 0] /\ mmap_next' = [mmap_next EXCEPT ![p] = 0]
    /\ phase' = [phase EXCEPT ![p] = "none"]
    /\ UNCHANGED <<ctx, todo, cause, panic>>

(* programs unmap only what brk and mmap gave them *)
UserPages == HeapStart .. HeapStart + HeapPages - 1 \cup MmapStart .. MmapStart + MmapPages - 1

ProcStep(p) ==
    /\ UNCHANGED kernel
    /\ \/ \E addr \in 0 .. 2 * HeapPages : sys_brk(p, addr)
       \/ \E n \in 1 .. 2 : MmapAnywhere(p, n)
       \/ \E v \in UserPages : MmapAt(p, v, 1)
       \/ \E v \in UserPages, h \in 0 .. 1 : sys_munmap(p, 2 * v + h, 1)
       \/ dev_tty_ioctl(p)
       \/ sched_fork(p) \/ ProgramFork(p)
       \/ sys_execve(p) \/ ElfRefused(p) \/ LoadPage(p) \/ CopyPreempted(p) \/ ExecSwitch(p)
       \/ sched_exit(p) \/ sched_kill(p) \/ sched_waitpid(p)

ProcNext == \E p \in Proc : ProcStep(p)

-----------------------------------------------------------------------------
Spaces == {<<p, "cr3">> : p \in Proc} \cup {<<p, "new">> : p \in Proc}
At(x) == IF x[2] = "cr3" THEN space[x[1]] ELSE ctx[x[1]]
Refs(s) == Cardinality(Owned(s))
AllOwned == UNION {Owned(At(x)) : x \in Spaces}

(* Whatever fails half-way in fork, execve, brk or mmap, a frame is a root,  *)
(* a table or a page of at most one address space, in one place, and is      *)
(* marked in the bitmap as long as it is; the kernel's frames, among them    *)
(* the framebuffer, are never taken.                                         *)
FramesOwnedOnce ==
    /\ kernel \cap AllOwned = {}
    /\ kernel \cup AllOwned \subseteq used
    /\ \A x, y \in Spaces : x # y => Owned(At(x)) \cap Owned(At(y)) = {}
    /\ \A x \in Spaces :
          LET s == At(x)
              pages == {v \in DOMAIN s.map \ s.no_free : s.map[v] # 0}
          IN Refs(s) = (IF s.root = 0 THEN 0 ELSE 1) + Cardinality(DOMAIN s.tables) + Cardinality(pages)

(* Frames are lost only by the calls that are known to lose some: an         *)
(* allocation that failed, a page mapped over a mapped one, a fork without   *)
(* room for the stack, an execve of no executable, a child killed in execve. *)
(* Every other sequence of calls gives back all it took.                     *)
NoLeakWithoutCause == cause = {} => used = AllOwned \cup kernel
=============================================================================
