------------------------------- MODULE Sched -------------------------------
(***************************************************************************)
(* Threads and the round-robin scheduler, krnl/task/sched.c, with the      *)
(* address spaces that fork, execve and waitpid hand around                *)
(* (krnl/task/exec.c) and the callers in krnl/kernel.c, krnl/util/         *)
(* cmdline.c and krnl/api/syscall.c.                                       *)
(*                                                                         *)
(* A system call of a program runs with interrupts disabled, so between    *)
(* two yields it is one step.  The shell, and its children until they      *)
(* execve, call the same functions with interrupts enabled: the steps of   *)
(* waitpid, execve and exit between which the timer matters are separate   *)
(* actions here.  That the insertion of a forked thread into the queue     *)
(* (sched.c:315-316) is not preempted is an assumption of this model.      *)
(***************************************************************************)
EXTENDS Integers, FiniteSets

CONSTANTS
    MaxTid,      \* bound: thread ids handed out
    MaxCtx,      \* bound: address spaces besides the kernel's
    ExitCodes,   \* what programs pass to exit
    KillCode     \* 128 + sig

ASSUME SchedConstants ==
    MaxTid \in Nat \ {0} /\ MaxCtx \in Nat /\ ExitCodes \subseteq Int /\ KillCode \in Int

Tids == 1 .. MaxTid
Ctxs == 1 .. MaxCtx
NULL == 0        \* no thread; TIDs start at 1
KERNEL == 0      \* the kernel's address space

VARIABLES
    timer,           \* lapic_timer_init has been called: boot is over
    panic,           \* "none", or the call whose fault stopped the machine
    current_thread, thread_queue, next_tid,
    kind,            \* what a thread runs: a kernel loop, the shell, a copy of
                     \* the shell ("child"), or a "program" on its own stack
    state, parent_id, exit_code, next, cr3,      \* of thread_t
    pc,              \* "run", or where in a call the thread is
    wait_pid,        \* the argument of the waitpid a thread is in
    loaded,          \* the CR3 register
    ctxs             \* the address spaces allocated and not freed

thread_vars == <<kind, state, parent_id, exit_code, next, cr3, pc, wait_pid>>
vars == <<timer, panic, current_thread, thread_queue, next_tid, thread_vars, loaded, ctxs>>

Live == {t \in Tids : state[t] # "none"}
Running == {t \in Tids : state[t] = "running"}

Init ==
    /\ timer = FALSE /\ panic = "none"
    /\ current_thread = NULL /\ thread_queue = NULL /\ next_tid = 1
    /\ kind = [t \in Tids |-> "none"]
    /\ state = [t \in Tids |-> "none"]
    /\ parent_id = [t \in Tids |-> NULL]
    /\ exit_code = [t \in Tids |-> 0]
    /\ next = [t \in Tids |-> NULL]
    /\ cr3 = [t \in Tids |-> KERNEL]
    /\ pc = [t \in Tids |-> "run"]
    /\ wait_pid = [t \in Tids |-> NULL]
    /\ loaded = KERNEL /\ ctxs = {}

-----------------------------------------------------------------------------
(* The thread queue: a ring through next, entered at thread_queue.          *)
Tail == CHOOSE t \in Live : next[t] = thread_queue

(* mutant: the new thread becomes the head without the tail pointing at it *)
Linked_Push(child) == [next EXCEPT ![child] = thread_queue]

Linked(child) ==
    IF thread_queue = NULL THEN [next EXCEPT ![child] = child]
    ELSE [next EXCEPT ![Tail] = child, ![child] = thread_queue]

(* mutant: the counter is read and not advanced *)
NextTid_Same == next_tid

NextTid == next_tid + 1

(* a new thread at the end of the queue *)
NewThread(k, parent, ctx) ==
    /\ next_tid' = NextTid
    /\ kind' = [kind EXCEPT ![next_tid] = k]
    /\ state' = [state EXCEPT ![next_tid] = "running"]
    /\ parent_id' = [parent_id EXCEPT ![next_tid] = parent]
    /\ exit_code' = [exit_code EXCEPT ![next_tid] = 0]
    /\ cr3' = [cr3 EXCEPT ![next_tid] = ctx]
    /\ next' = Linked(next_tid)
    /\ thread_queue' = IF thread_queue = NULL THEN next_tid ELSE thread_queue
    /\ UNCHANGED <<pc, wait_pid>>

(* kmain: usbpoll, perhaps video, perhaps cmdline, then the timer *)
sched_kthread(k) ==
    /\ ~timer /\ next_tid <= MaxTid
    /\ \A t \in Live : kind[t] # "shell"
    /\ IF k = "shell" THEN Live # {} ELSE Cardinality(Live) < 2
    /\ NewThread(k, NULL, KERNEL)
    /\ UNCHANGED <<timer, panic, current_thread, loaded, ctxs>>

lapic_timer_init ==
    /\ ~timer /\ Live # {}
    /\ timer' = TRUE
    /\ UNCHANGED <<panic, current_thread, thread_queue, next_tid, thread_vars, loaded, ctxs>>

-----------------------------------------------------------------------------
(* t is the first running thread met from cur's successor on: the threads   *)
(* in S, and no others, are passed over on the way.                         *)
FirstRunning(cur, st, t) ==
    /\ st[t] = "running"
    /\ \E S \in SUBSET (Live \ {t}) :
          /\ next[cur] \in S \cup {t}
          /\ \A u \in S : st[u] # "running" /\ next[u] \in S \cup {t}

(* mutant: the search always starts at the head of the queue *)
Pick_FromHead(cur, st) ==
    IF \E t \in Live : st[t] = "running"
    THEN CHOOSE t \in Live : st[t] = "running" /\ \A u \in Live : u < t => st[u] # "running"
    ELSE next[cur]

(* mutant: the successor, whatever its state *)
Pick_Successor(cur, st) == next[cur]

(* the first running thread, or, when there is none, the successor *)
Pick(cur, st) ==
    IF \E t \in Live : FirstRunning(cur, st, t)
    THEN CHOOSE t \in Live : FirstRunning(cur, st, t)
    ELSE next[cur]

(* the switch, with the thread states the caller leaves behind *)
Switch(st) ==
    IF current_thread = NULL /\ st[thread_queue] = "running"
    THEN current_thread' = thread_queue /\ UNCHANGED loaded
    ELSE LET cur == IF current_thread = NULL THEN thread_queue ELSE current_thread
         IN  current_thread' = Pick(cur, st) /\ loaded' = cr3[current_thread']

(* The timer interrupt, or sched_yield.  The loops of waitpid and exit      *)
(* yield by themselves.                                                     *)
sched_tick ==
    /\ timer /\ panic = "none"
    /\ current_thread # NULL => pc[current_thread] \notin {"waitpid", "exit"}
    /\ Switch(state)
    /\ UNCHANGED <<timer, panic, thread_queue, next_tid, thread_vars, ctxs>>

-----------------------------------------------------------------------------
Runs(t, at, kinds) ==
    /\ panic = "none" /\ t = current_thread
    /\ pc[t] = at /\ kind[t] \in kinds

FreeCtx == CHOOSE c \in Ctxs \ ctxs : \A d \in Ctxs \ ctxs : c <= d

(* sched_fork.  kmalloc or the clone may fail; when the stack cannot be     *)
(* allocated the cloned address space is lost.  A program no longer runs on *)
(* the stack that stack_bottom names: the child's rsp then points outside   *)
(* any stack and the store through it faults.                               *)
sched_fork(t) ==
    /\ Runs(t, "run", {"shell", "program"}) /\ next_tid <= MaxTid
    /\ UNCHANGED <<timer, current_thread, loaded>>
    /\ \/ /\ next_tid' = NextTid
          /\ \/ UNCHANGED ctxs
             \/ Ctxs \ ctxs # {} /\ ctxs' = ctxs \cup {FreeCtx}
          /\ UNCHANGED <<panic, thread_queue, thread_vars>>
       \/ /\ kind[t] = "shell" /\ Ctxs \ ctxs # {}
          /\ ctxs' = ctxs \cup {FreeCtx}
          /\ NewThread("child", t, FreeCtx)
          /\ UNCHANGED panic
       \/ /\ kind[t] = "program" /\ panic' = "fork"
          /\ UNCHANGED <<thread_queue, next_tid, thread_vars, ctxs>>

(* mutant: the address space is freed after thread->cr3 was overwritten *)
ExecFrees_New(old, new) == {new}

ExecFrees(old, new) == {old}

(* sys_execve up to the release of the old address space, which stays       *)
(* loaded.  When the file is not an executable the new one is lost.  A      *)
(* program has its own stack, and with it the frame of this call, in the    *)
(* address space it leaves: the switch takes the return address away.       *)
sys_execve(t) ==
    /\ Runs(t, "run", {"child", "program"}) /\ Ctxs \ ctxs # {}
    /\ \/ ctxs' = ctxs \cup {FreeCtx} /\ UNCHANGED <<panic, cr3, pc>>
       \/ /\ kind[t] = "child"
          /\ cr3' = [cr3 EXCEPT ![t] = FreeCtx]
          /\ ctxs' = (ctxs \cup {FreeCtx}) \ ExecFrees(cr3[t], FreeCtx)
          /\ pc' = [pc EXCEPT ![t] = "execve"]
          /\ UNCHANGED panic
       \/ kind[t] = "program" /\ panic' = "execve" /\ UNCHANGED <<cr3, pc, ctxs>>
    /\ UNCHANGED <<timer, current_thread, thread_queue, next_tid, kind, state, parent_id,
                   exit_code, next, wait_pid, loaded>>

(* the rest of sys_execve: vmm_switch_context and the jump to the program *)
ExecSwitch(t) ==
    /\ Runs(t, "execve", {"child"})
    /\ loaded' = cr3[t]
    /\ kind' = [kind EXCEPT ![t] = "program"]
    /\ pc' = [pc EXCEPT ![t] = "run"]
    /\ UNCHANGED <<timer, panic, current_thread, thread_queue, next_tid, state, parent_id,
                   exit_code, next, cr3, wait_pid, ctxs>>

-----------------------------------------------------------------------------
(* sched_exit of a program: a zombie, then yields for ever *)
sched_exit(t, code) ==
    /\ Runs(t, "run", {"program"})
    /\ state' = [state EXCEPT ![t] = "zombie"]
    /\ exit_code' = [exit_code EXCEPT ![t] = code]
    /\ pc' = [pc EXCEPT ![t] = "exit"]
    /\ Switch(state')
    /\ UNCHANGED <<timer, panic, thread_queue, next_tid, kind, parent_id, next, cr3, wait_pid,
                   ctxs>>

(* sched_exit of a child whose execve returned -1: the timer may come       *)
(* between the two stores                                                   *)
ChildExit(t) ==
    /\ Runs(t, "run", {"child"})
    /\ state' = [state EXCEPT ![t] = "zombie"]
    /\ pc' = [pc EXCEPT ![t] = "exit_code"]
    /\ UNCHANGED <<timer, panic, current_thread, thread_queue, next_tid, kind, parent_id,
                   exit_code, next, cr3, wait_pid, loaded, ctxs>>

ChildExitCode(t) ==
    /\ Runs(t, "exit_code", {"child"})
    /\ exit_code' = [exit_code EXCEPT ![t] = -1]
    /\ pc' = [pc EXCEPT ![t] = "exit"]
    /\ UNCHANGED <<timer, panic, current_thread, thread_queue, next_tid, kind, state,
                   parent_id, next, cr3, wait_pid, loaded, ctxs>>

ExitLoop(t) ==
    /\ Runs(t, "exit", {"child", "program"})
    /\ Switch(state)
    /\ UNCHANGED <<timer, panic, thread_queue, next_tid, thread_vars, ctxs>>

(* mutant: a zombie can be killed again *)
Killable_Any(st) == TRUE

Killable(st) == st \notin {"zombie", "dead"}

(* sched_kill: marks the target, which runs on until the next tick if it is *)
(* the caller itself                                                        *)
sched_kill(t, pid) ==
    /\ Runs(t, "run", {"program"})
    /\ pid \in Live /\ Killable(state[pid])
    /\ state' = [state EXCEPT ![pid] = "zombie"]
    /\ exit_code' = [exit_code EXCEPT ![pid] = KillCode]
    /\ UNCHANGED <<timer, panic, current_thread, thread_queue, next_tid, kind, parent_id, next,
                   cr3, pc, wait_pid, loaded, ctxs>>

-----------------------------------------------------------------------------
IsChild(pid, t) == pid \in Live /\ parent_id[pid] = t

(* mutant: waits for a state nobody sets *)
Collectable_Dead(st) == st = "dead"

Collectable(st) == st = "zombie"

(* One iteration of the loop of sched_waitpid: no such child, a zombie to   *)
(* collect, or a yield.  A program has no children.                         *)
WaitIteration(t, pid) ==
    /\ \/ /\ ~IsChild(pid, t)
          /\ pc' = [pc EXCEPT ![t] = "run"]
          /\ UNCHANGED <<current_thread, loaded, state, wait_pid>>
       \/ /\ IsChild(pid, t) /\ Collectable(state[pid])
          /\ state' = [state EXCEPT ![pid] = "dead"]
          /\ pc' = [pc EXCEPT ![t] = "reap"]
          /\ wait_pid' = [wait_pid EXCEPT ![t] = pid]
          /\ UNCHANGED <<current_thread, loaded>>
       \/ /\ IsChild(pid, t) /\ ~Collectable(state[pid])
          /\ pc' = [pc EXCEPT ![t] = "waitpid"]
          /\ wait_pid' = [wait_pid EXCEPT ![t] = pid]
          /\ Switch(state)
          /\ UNCHANGED state
    /\ UNCHANGED <<timer, panic, thread_queue, next_tid, kind, parent_id, exit_code, next, cr3,
                   ctxs>>

sched_waitpid(t, pid) == Runs(t, "run", {"shell", "program"}) /\ WaitIteration(t, pid)

WaitLoop(t) == Runs(t, "waitpid", {"shell", "program"}) /\ WaitIteration(t, wait_pid[t])

(* mutant: the reaped thread's predecessor keeps pointing at it *)
Unlinked_Stale(target) == [next EXCEPT ![target] = NULL]

Unlinked(target) ==
    LET prev == CHOOSE t \in Live : next[t] = target
    IN  [next EXCEPT ![prev] = next[target], ![target] = NULL]

(* The rest of sched_waitpid: unlink the zombie, then free it; once it is   *)
(* unlinked no other thread can reach it.                                   *)
Reap(t) ==
    LET target == wait_pid[t] IN
    /\ Runs(t, "reap", {"shell", "program"})
    /\ next' = Unlinked(target)
    /\ thread_queue' = IF next[target] = target THEN NULL
                       ELSE IF thread_queue = target THEN next[target] ELSE thread_queue
    /\ ctxs' = ctxs \ {cr3[target]}
    /\ kind' = [kind EXCEPT ![target] = "none"]
    /\ state' = [state EXCEPT ![target] = "none"]
    /\ parent_id' = [parent_id EXCEPT ![target] = NULL]
    /\ exit_code' = [exit_code EXCEPT ![target] = 0]
    /\ cr3' = [cr3 EXCEPT ![target] = KERNEL]
    /\ pc' = [pc EXCEPT ![t] = "run", ![target] = "run"]
    /\ wait_pid' = [wait_pid EXCEPT ![t] = NULL]
    /\ UNCHANGED <<timer, panic, current_thread, next_tid, loaded>>

-----------------------------------------------------------------------------
Calls(t) ==
    \/ sched_fork(t)
    \/ sys_execve(t)
    \/ \E code \in ExitCodes : sched_exit(t, code)
    \/ ChildExit(t)
    \/ \E pid \in Tids : sched_kill(t, pid)
    \/ \E pid \in Tids : sched_waitpid(t, pid)

Continues(t) ==
    \/ ExecSwitch(t) \/ ChildExitCode(t) \/ ExitLoop(t)
    \/ WaitLoop(t) \/ Reap(t)

Next ==
    \/ \E k \in {"loop", "shell"} : sched_kthread(k)
    \/ lapic_timer_init
    \/ sched_tick
    \/ \E t \in Tids : Calls(t) \/ Continues(t)

Spec == Init /\ [][Next]_vars

(* The timer is periodic, and a time slice is long enough for the thread    *)
(* that has it to get on with the call it is in.                            *)
FairSpec ==
    /\ Spec
    /\ WF_vars(lapic_timer_init)
    /\ WF_vars(sched_tick)
    /\ \A t \in Tids : SF_vars(Continues(t))

-----------------------------------------------------------------------------
(* Type correctness of the scheduler's globals and of thread_t's fields; no  *)
(* thread has an id the counter of sched_fork has still to hand out.         *)
TypeOK ==
    /\ timer \in BOOLEAN /\ panic \in {"none", "fork", "execve"}
    /\ current_thread \in Tids \cup {NULL} /\ thread_queue \in Tids \cup {NULL}
    /\ next_tid \in 1 .. MaxTid + 1
    /\ kind \in [Tids -> {"none", "loop", "shell", "child", "program"}]
    /\ state \in [Tids -> {"none", "running", "zombie", "dead"}]
    /\ parent_id \in [Tids -> Tids \cup {NULL}]
    /\ exit_code \in [Tids -> Int]
    /\ next \in [Tids -> Tids \cup {NULL}]
    /\ cr3 \in [Tids -> Ctxs \cup {KERNEL}]
    /\ pc \in [Tids -> {"run", "execve", "exit_code", "exit", "waitpid", "reap"}]
    /\ wait_pid \in [Tids -> Tids \cup {NULL}]
    /\ loaded \in Ctxs \cup {KERNEL} /\ ctxs \in SUBSET Ctxs
    /\ \A t \in Live : t < next_tid

(* The next pointers of the thread queue form one ring through all threads   *)
(* not yet freed and nothing else, also while a fork, an exit or a waitpid   *)
(* of another thread is half done: every walk of sched_tick, sched_waitpid,  *)
(* sched_kill and sched_fork terminates, meets every thread and no freed one.*)
QueueIsRing ==
    /\ IF Live = {} THEN thread_queue = NULL ELSE thread_queue \in Live
    /\ \A t \in Live : next[t] \in Live
    /\ \A t, u \in Live : next[t] = next[u] => t = u
    /\ \A S \in SUBSET Live :
          thread_queue \in S /\ (\A t \in S : next[t] \in S) => S = Live

(* The processor never runs on something freed: the current thread is not    *)
(* freed, its page tables are loaded (outside the window in which execve     *)
(* has replaced them and not switched yet), and no address space has two     *)
(* owners, so waitpid and execve free each one at most once.                 *)
NothingFreedInUse ==
    /\ current_thread # NULL =>
          /\ current_thread \in Live
          /\ loaded = cr3[current_thread] \/ pc[current_thread] = "execve"
    /\ \A t \in Live : cr3[t] \in ctxs \cup {KERNEL}
    /\ \A t, u \in Live : t # u /\ cr3[t] # KERNEL => cr3[t] # cr3[u]

(* A switch takes the processor to a running thread whenever there is one,   *)
(* wherever in the ring the search of sched_tick starts.                     *)
SwitchPicksRunning ==
    [][current_thread' # current_thread /\ Running' # {}
          => current_thread' \in Running']_vars

(* Once a zombie has lost the processor its exit status is what its parent   *)
(* will collect: no later kill changes it, and nobody else collects it.      *)
StatusIsFinal ==
    [][\A t \in Tids : state[t] \in {"zombie", "dead"} /\ t # current_thread =>
          \/ state'[t] \in {"zombie", "dead"} /\ exit_code'[t] = exit_code[t]
          \/ state'[t] = "none" /\ parent_id[t] = current_thread]_vars

(* Round robin: a running thread gets the processor again for as long as it  *)
(* is running, whatever the others fork, kill or wait for.                   *)
RoundRobin ==
    \A t \in Tids :
        timer /\ state[t] = "running"
            ~> (current_thread = t \/ state[t] # "running" \/ panic # "none")

(* A zombie somebody waits for is collected and freed, unless the waiting    *)
(* thread is killed meanwhile.                                               *)
ZombieIsCollected ==
    \A p, c \in Tids :
        pc[p] = "waitpid" /\ wait_pid[p] = c /\ state[c] = "zombie"
            ~> (state[c] = "none" \/ state[p] # "running" \/ panic # "none")

(* sched_fork refuses a thread "without proper stack boundaries"             *)
(* (sched.c:232): a fork that is not refused copies the stack the caller     *)
(* really runs on, and does not fault.                                       *)
ForkHasStackBoundaries == panic # "fork"
=============================================================================
