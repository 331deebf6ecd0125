---------------------------- MODULE SchedProofs -----------------------------
(***************************************************************************)
(* Proofs about Sched for any number of threads and address spaces.        *)
(***************************************************************************)
EXTENDS Sched, TLAPS, FiniteSetTheorems, WellFoundedInduction

-----------------------------------------------------------------------------
(* Rings: a successor function nx on a finite set of threads L, entered at q. *)

(* the threads of S have their successors in S *)
Closed(S, nx) == \A t \in S : nx[t] \in S

Ring(L, nx, q) ==
    /\ q \in L
    /\ Closed(L, nx)
    /\ \A t, u \in L : nx[t] = nx[u] => t = u
    /\ \A S \in SUBSET L : q \in S /\ Closed(S, nx) => S = L

(* QueueIsRing in terms of Ring. *)
LEMMA QueueRing ==
    QueueIsRing <=> (IF Live = {} THEN thread_queue = NULL ELSE Ring(Live, next, thread_queue))
  BY DEF QueueIsRing, Ring, Closed

(* An injective successor function of a finite closed set reaches all of it. *)
LEMMA Predecessor ==
    ASSUME NEW S, IsFiniteSet(S), NEW nx, Closed(S, nx),
           \A t, u \in S : nx[t] = nx[u] => t = u,
           NEW x \in S
    PROVE  \E t \in S : nx[t] = x
  <1> DEFINE f == [t \in S |-> nx[t]]
  <1>1. f \in Injection(S, S)
    BY DEF Closed, Injection, IsInjective
  <1>2. f \in Surjection(S, S)
    BY <1>1, FS_Injection
  <1>3. QED
    BY <1>2 DEF Surjection

(* From any of its threads the whole ring is reached, not only from its head. *)
LEMMA RingFromAnywhere ==
    ASSUME NEW L, IsFiniteSet(L), NEW nx, NEW q, Ring(L, nx, q),
           NEW S \in SUBSET L, S # {}, Closed(S, nx)
    PROVE  S = L
  <1>1. IsFiniteSet(S)
    BY FS_Subset
  <1>2. Closed(L \ S, nx)
    <2> SUFFICES ASSUME NEW u \in L \ S, nx[u] \in S
                 PROVE  FALSE
      BY DEF Closed, Ring
    <2>1. PICK t \in S : nx[t] = nx[u]
      BY <1>1, Predecessor DEF Ring
    <2>2. QED
      BY <2>1 DEF Ring
  <1>3. q \notin S => L \ S = L
    BY <1>2 DEF Ring
  <1>4. QED
    BY <1>3 DEF Ring

(* sched_kthread and sched_fork: a thread linked in at the end of a ring. *)
LEMMA RingInsert ==
    ASSUME NEW L, NEW nx, NEW q, Ring(L, nx, q),
           NEW x, x \notin L, NEW tail \in L, nx[tail] = q,
           NEW ny, ny[tail] = x, ny[x] = q,
           \A t \in L \ {tail} : ny[t] = nx[t]
    PROVE  Ring(L \cup {x}, ny, q)
  <1>1. Closed(L \cup {x}, ny)
    BY DEF Ring, Closed
  <1>2. ASSUME NEW t \in L \cup {x}, NEW u \in L \cup {x}, ny[t] = ny[u]
        PROVE  t = u
    BY <1>2 DEF Ring, Closed
  <1>3. ASSUME NEW S \in SUBSET (L \cup {x}), q \in S, Closed(S, ny)
        PROVE  S = L \cup {x}
    <2>1. x \in S
      <3> SUFFICES ASSUME x \notin S PROVE FALSE
        OBVIOUS
      <3>1. tail \notin S
        BY <1>3 DEF Closed
      <3>2. Closed(S, nx)
        BY <1>3, <3>1 DEF Closed
      <3>3. QED
        BY <1>3, <3>1, <3>2 DEF Ring
    <2>2. Closed(S \ {x}, nx)
      BY <1>3 DEF Closed, Ring
    <2>3. S \ {x} = L
      BY <1>3, <2>2 DEF Ring
    <2>4. QED
      BY <2>1, <2>3
  <1>4. QED
    BY <1>1, <1>2, <1>3 DEF Ring

(* Reap: a thread unlinked from a ring of several. *)
LEMMA RingRemove ==
    ASSUME NEW L, IsFiniteSet(L), NEW nx, NEW q, Ring(L, nx, q),
           NEW x \in L, L # {x}, NEW prev \in L, nx[prev] = x,
           NEW ny, ny[prev] = nx[x],
           \A t \in L \ {prev, x} : ny[t] = nx[t]
    PROVE  /\ nx[x] # x
           /\ Ring(L \ {x}, ny, IF q = x THEN nx[x] ELSE q)
  <1> DEFINE r == IF q = x THEN nx[x] ELSE q
  <1>1. nx[x] # x
    <2> SUFFICES ASSUME nx[x] = x PROVE FALSE
      OBVIOUS
    <2>1. Closed({x}, nx)
      BY DEF Closed
    <2>2. QED
      BY <2>1, RingFromAnywhere
  <1>2. prev # x
    BY <1>1
  <1>3. r \in L \ {x}
    BY <1>1 DEF Ring, Closed
  <1>4. Closed(L \ {x}, ny)
    <2> SUFFICES ASSUME NEW t \in L \ {x} PROVE ny[t] \in L \ {x}
      BY DEF Closed
    <2>1. CASE t = prev
      BY <1>1, <2>1 DEF Ring, Closed
    <2>2. CASE t # prev
      BY <2>2 DEF Ring, Closed
    <2>3. QED
      BY <2>1, <2>2
  <1>5. ASSUME NEW t \in L \ {x}, NEW u \in L \ {x}, ny[t] = ny[u]
        PROVE  t = u
    BY <1>5 DEF Ring
  <1>6. ASSUME NEW S \in SUBSET (L \ {x}), r \in S, Closed(S, ny)
        PROVE  S = L \ {x}
    <2>1. CASE prev \in S
      <3>1. Closed(S \cup {x}, nx)
        BY <1>6, <2>1 DEF Closed
      <3>2. S \cup {x} = L
        BY <1>6, <3>1, RingFromAnywhere
      <3>3. QED
        BY <3>2, <1>6
    <2>2. CASE prev \notin S
      <3>1. Closed(S, nx)
        BY <1>6, <2>2 DEF Closed
      <3>2. S = L
        BY <1>6, <3>1, RingFromAnywhere
      <3>3. QED
        BY <3>2, <1>6
    <2>3. QED
      BY <2>1, <2>2
  <1>7. QED
    BY <1>1, <1>3, <1>4, <1>5, <1>6 DEF Ring

-----------------------------------------------------------------------------
(* The search of sched_tick. *)

(* the search from cur has passed over the threads in S, none of them running, *)
(* and stands at t                                                             *)
Passed(L, nx, cur, st, S, t) ==
    /\ S \in SUBSET (L \ {t})
    /\ nx[cur] \in S \cup {t}
    /\ \A u \in S : st[u] # "running" /\ nx[u] \in S \cup {t}

(* a set of naturals has a least member *)
LEMMA Least ==
    ASSUME NEW T, T \subseteq Nat, T # {}
    PROVE  \E x \in T : \A y \in T : x <= y
  <1>1. \E x \in T : \A y \in T : ~(<<y, x>> \in OpToRel(<, Nat))
    BY NatLessThanWellFounded, WFMin
  <1>2. \E x \in T : \A y \in T : ~(y < x)
    BY <1>1 DEF OpToRel
  <1>3. QED
    BY <1>2

(* One round through the ring meets a running thread if there is one. *)
LEMMA SearchEnds ==
    ASSUME NEW L, IsFiniteSet(L), NEW nx, NEW q, Ring(L, nx, q), NEW cur \in L, NEW st,
           NEW r \in L, st[r] = "running"
    PROVE  \E t \in L : st[t] = "running" /\ \E S \in SUBSET (L \ {t}) : Passed(L, nx, cur, st, S, t)
  <1> DEFINE Rest(S) == Cardinality(L \ S)
             T == {n \in Nat : \E S \in SUBSET L, t \in L : Passed(L, nx, cur, st, S, t) /\ n = Rest(S)}
  <1>1. \A S \in SUBSET L : Rest(S) \in Nat
    BY FS_CardinalityType, FS_Difference
  <1>2. Passed(L, nx, cur, st, {}, nx[cur]) /\ nx[cur] \in L
    BY DEF Passed, Ring, Closed
  <1>3. Rest({}) \in T
    BY <1>1, <1>2
  <1> HIDE DEF Rest
  <1>4. PICK n \in T : \A m \in T : n <= m
    BY <1>3, Least
  <1>5. PICK S \in SUBSET L, t \in L : Passed(L, nx, cur, st, S, t) /\ n = Rest(S)
    BY <1>4
  <1>6. CASE st[t] = "running"
    BY <1>5, <1>6 DEF Passed
  <1>7. CASE st[t] # "running"
    <2> DEFINE U == S \cup {t}
    <2>1. CASE nx[t] \in U
      <3>1. Closed(U, nx)
        BY <1>5, <2>1 DEF Closed, Passed
      <3>2. U = L
        BY <3>1, RingFromAnywhere
      <3>3. QED
        BY <3>2, <1>5, <1>7 DEF Passed
    <2>2. CASE nx[t] \notin U
      <3>1. Passed(L, nx, cur, st, U, nx[t]) /\ nx[t] \in L
        BY <1>5, <1>7, <2>2 DEF Passed, Ring, Closed
      <3>2. U \in SUBSET L
        OBVIOUS
      <3>3. Rest(U) \in T
        BY <1>1, <3>1, <3>2
      <3>4. L \ U = (L \ S) \ {t} /\ t \in L \ S /\ IsFiniteSet(L \ S)
        BY <1>5, FS_Difference DEF Passed
      <3>5. Cardinality((L \ S) \ {t}) = Cardinality(L \ S) - 1
        BY <3>4, FS_RemoveElement
      <3> HIDE DEF U
      <3>6. Rest(U) = Rest(S) - 1
        BY <3>4, <3>5 DEF Rest
      <3>7. Rest(S) \in Nat
        BY <1>1
      <3>8. QED
        BY <1>4, <1>5, <3>3, <3>6, <3>7
    <2>3. QED
      BY <2>1, <2>2
  <1>8. QED
    BY <1>6, <1>7

(* finitely many threads *)
LEMMA LiveFinite == IsFiniteSet(Live)
  <1>1. IsFiniteSet(Tids)
    BY FS_Interval, SchedConstants DEF Tids
  <1>2. Live \in SUBSET Tids
    BY DEF Live
  <1>3. QED
    BY <1>1, <1>2, FS_Subset

(* what the search of sched_tick returns *)
LEMMA PickFinds ==
    ASSUME QueueIsRing, NEW cur \in Live, NEW st
    PROVE  /\ Pick(cur, st) \in Live
           /\ (\E t \in Live : st[t] = "running") => st[Pick(cur, st)] = "running"
  <1>1. Ring(Live, next, thread_queue)
    BY QueueRing
  <1>2. ASSUME NEW r \in Live, st[r] = "running"
        PROVE  \E t \in Live : FirstRunning(cur, st, t)
    <2>1. PICK t \in Live :
             st[t] = "running" /\ \E S \in SUBSET (Live \ {t}) : Passed(Live, next, cur, st, S, t)
      BY <1>1, <1>2, LiveFinite, SearchEnds
    <2>2. QED
      BY <2>1 DEF FirstRunning, Passed
  <1>3. CASE \E t \in Live : FirstRunning(cur, st, t)
    <2>1. Pick(cur, st) \in Live /\ FirstRunning(cur, st, Pick(cur, st))
      BY <1>3 DEF Pick
    <2>2. QED
      BY <2>1 DEF FirstRunning
  <1>4. CASE ~ \E t \in Live : FirstRunning(cur, st, t)
    BY <1>1, <1>2, <1>4 DEF Pick, Ring, Closed
  <1>5. QED
    BY <1>3, <1>4

(* What a switch does, whether by the timer, a yield or an exit. *)
LEMMA SwitchLands ==
    ASSUME QueueIsRing, Live # {}, current_thread \in Live \cup {NULL}, NEW st, Switch(st)
    PROVE  /\ current_thread' \in Live
           /\ \/ loaded' = cr3[current_thread']
              \/ current_thread = NULL /\ loaded' = loaded
           /\ (\E t \in Live : st[t] = "running") => st[current_thread'] = "running"
  <1>1. thread_queue \in Live
    BY DEF QueueIsRing
  <1>2. NULL \notin Live
    BY DEF Live, Tids, NULL
  <1>3. QED
    BY <1>1, <1>2, PickFinds DEF Switch

-----------------------------------------------------------------------------
(* The inductive invariant. *)

(* Before the first switch only kernel threads exist, on the kernel's page   *)
(* tables; a thread is younger than its parent; and the thread that a        *)
(* waitpid has marked and not freed yet is still there, a child of the       *)
(* waiting thread, so nobody else frees it and it is not the waiting thread. *)
SchedAux ==
    /\ timer => Live # {}
    /\ current_thread = NULL => loaded = KERNEL /\ \A t \in Live : cr3[t] = KERNEL
    /\ \A t \in Live : parent_id[t] < t
    /\ \A t \in Tids : pc[t] = "reap" => wait_pid[t] \in Live /\ parent_id[wait_pid[t]] = t

IInv == TypeOK /\ QueueIsRing /\ NothingFreedInUse /\ SchedAux

(* the initial state *)
LEMMA InitIInv == Init => IInv
  <1> SUFFICES ASSUME Init PROVE IInv
    OBVIOUS
  <1>1. Live = {}
    BY DEF Init, Live
  <1>2. TypeOK
    <2>1. next_tid \in 1 .. MaxTid + 1
      BY SchedConstants DEF Init
    <2>2. /\ kind \in [Tids -> {"none", "loop", "shell", "child", "program"}]
          /\ state \in [Tids -> {"none", "running", "zombie", "dead"}]
          /\ pc \in [Tids -> {"run", "execve", "exit_code", "exit", "waitpid", "reap"}]
      BY DEF Init
    <2>3. /\ parent_id \in [Tids -> Tids \cup {NULL}]
          /\ exit_code \in [Tids -> Int]
          /\ next \in [Tids -> Tids \cup {NULL}]
          /\ cr3 \in [Tids -> Ctxs \cup {KERNEL}]
          /\ wait_pid \in [Tids -> Tids \cup {NULL}]
      BY DEF Init
    <2>4. QED
      BY <1>1, <2>1, <2>2, <2>3 DEF Init, TypeOK
  <1>3. QueueIsRing
    BY <1>1 DEF Init, QueueIsRing
  <1>4. NothingFreedInUse /\ SchedAux
    BY <1>1 DEF Init, NothingFreedInUse, SchedAux, NULL, KERNEL
  <1>5. QED
    BY <1>2, <1>3, <1>4 DEF IInv

(* the queue is what it was as long as no thread comes or goes *)
LEMMA RingKept ==
    ASSUME QueueIsRing, Live' = Live, next' = next, thread_queue' = thread_queue
    PROVE  QueueIsRing'
  BY DEF QueueIsRing

(* a thread created by sched_kthread or sched_fork *)
LEMMA NewThreadInRing ==
    ASSUME IInv, next_tid <= MaxTid, NEW k, NEW parent, NEW ctx, NewThread(k, parent, ctx)
    PROVE  /\ next_tid \in Tids \ Live
           /\ Live' = Live \cup {next_tid}
           /\ QueueIsRing'
           /\ next' \in [Tids -> Tids \cup {NULL}]
           /\ thread_queue' \in Tids
  <1> DEFINE x == next_tid
  <1>1. x \in Tids \ Live
    BY DEF IInv, TypeOK, Tids
  <1>2. Live' = Live \cup {x}
    BY <1>1 DEF NewThread, Live, IInv, TypeOK
  <1>3. next \in [Tids -> Tids \cup {NULL}] /\ thread_queue \in Tids \cup {NULL}
    BY DEF IInv, TypeOK
  <1>4. NULL \notin Tids /\ Live \subseteq Tids
    BY DEF Tids, NULL, Live
  <1>5. CASE Live = {}
    <2>1. thread_queue = NULL
      BY <1>5 DEF IInv, QueueIsRing
    <2>2. thread_queue' = x /\ next'[x] = x /\ next' \in [Tids -> Tids \cup {NULL}]
      BY <1>1, <1>3, <2>1 DEF NewThread, Linked
    <2>3. QueueIsRing'
      BY <1>2, <1>5, <2>2 DEF QueueIsRing
    <2>4. QED
      BY <1>1, <1>2, <2>2, <2>3
  <1>6. CASE Live # {}
    <2>1. Ring(Live, next, thread_queue)
      BY <1>6, QueueRing DEF IInv
    <2>2. \E t \in Live : next[t] = thread_queue
      BY <2>1, LiveFinite, Predecessor DEF Ring
    <2>3. Tail \in Live /\ next[Tail] = thread_queue
      BY <2>2 DEF Tail
    <2>4. thread_queue \in Live /\ thread_queue # NULL
      BY <2>1, <1>4 DEF Ring
    <2>5. next' = [next EXCEPT ![Tail] = x, ![x] = thread_queue] /\ thread_queue' = thread_queue
      BY <2>4 DEF NewThread, Linked
    <2>6. /\ next'[Tail] = x /\ next'[x] = thread_queue
          /\ \A t \in Live \ {Tail} : next'[t] = next[t]
          /\ next' \in [Tids -> Tids \cup {NULL}]
      BY <1>1, <1>3, <1>4, <2>3, <2>4, <2>5
    <2>7. Ring(Live \cup {x}, next', thread_queue)
      BY <1>1, <2>1, <2>3, <2>6, RingInsert
    <2>8. QueueIsRing'
      <3>1. Ring(Live', next', thread_queue') /\ Live' # {}
        BY <1>2, <2>5, <2>7
      <3>2. QED
        BY <3>1 DEF QueueIsRing, Ring, Closed
    <2>9. QED
      BY <1>1, <1>2, <1>4, <2>4, <2>5, <2>6, <2>8
  <1>7. QED
    BY <1>5, <1>6

(* the thread a waitpid frees *)
LEMMA ReapedFromRing ==
    ASSUME IInv, NEW t \in Tids, Reap(t)
    PROVE  /\ wait_pid[t] \in Live \ {t}
           /\ t = current_thread /\ t \in Live
           /\ Live' = Live \ {wait_pid[t]}
           /\ QueueIsRing'
           /\ next' \in [Tids -> Tids \cup {NULL}]
           /\ thread_queue' \in Tids
  <1> DEFINE x == wait_pid[t]
  <1>1. pc[t] = "reap" /\ t = current_thread
    BY DEF Reap, Runs
  <1>2. x \in Live /\ parent_id[x] = t
    BY <1>1 DEF IInv, SchedAux
  <1>3. Live \subseteq Tids /\ Tids \subseteq Int /\ NULL \notin Tids
    BY DEF Live, Tids, NULL
  <1>4. x # t
    BY <1>2, <1>3 DEF IInv, SchedAux
  <1>5. t \in Live
    BY <1>1, <1>3 DEF IInv, NothingFreedInUse
  <1>6. Live' = Live \ {x}
    BY <1>2 DEF Reap, Live, IInv, TypeOK
  <1>7. Ring(Live, next, thread_queue)
    BY <1>2, QueueRing DEF IInv
  <1> DEFINE prev == CHOOSE u \in Live : next[u] = x
  <1>8. prev \in Live /\ next[prev] = x
    <2>1. \E u \in Live : next[u] = x
      BY <1>2, <1>7, LiveFinite, Predecessor DEF Ring
    <2>2. QED
      BY <2>1
  <1>9. next' = [next EXCEPT ![prev] = next[x], ![x] = NULL]
    BY DEF Reap, Unlinked
  <1> HIDE DEF prev
  <1>10. next \in [Tids -> Tids \cup {NULL}] /\ next[x] \in Live
    BY <1>2, <1>7 DEF IInv, TypeOK, Ring, Closed
  <1>11. \A u \in Live \ {prev, x} : next'[u] = next[u]
    BY <1>3, <1>9, <1>10
  <1>12. prev # x => next'[prev] = next[x]
    BY <1>3, <1>8, <1>9, <1>10
  <1>13. next' \in [Tids -> Tids \cup {NULL}]
    BY <1>3, <1>9, <1>10
  <1>14. prev # x
    <2> SUFFICES ASSUME next[x] = x PROVE FALSE
      BY <1>8
    <2>1. Closed({x}, next)
      BY DEF Closed
    <2>2. QED
      BY <1>2, <1>4, <1>5, <1>7, <2>1, LiveFinite, RingFromAnywhere
  <1>15. /\ next[x] # x
         /\ Ring(Live \ {x}, next', IF thread_queue = x THEN next[x] ELSE thread_queue)
    BY <1>2, <1>4, <1>5, <1>7, <1>8, <1>11, <1>12, <1>14, LiveFinite, RingRemove
  <1>16. thread_queue' = IF thread_queue = x THEN next[x] ELSE thread_queue
    BY <1>15 DEF Reap
  <1>17. QueueIsRing'
    BY <1>4, <1>5, <1>6, <1>15, <1>16 DEF QueueIsRing, Ring, Closed
  <1>18. thread_queue' \in Tids
    BY <1>3, <1>15, <1>16 DEF Ring
  <1>19. QED
    BY <1>1, <1>2, <1>4, <1>5, <1>6, <1>13, <1>17, <1>18

-----------------------------------------------------------------------------
(* One lemma per action: the invariant is preserved. *)

(* 0 is neither a thread id nor an address space of a program *)
LEMMA Ids ==
    /\ Live \subseteq Tids /\ Tids \subseteq Int /\ NULL \notin Tids
    /\ KERNEL \notin Ctxs
    /\ \A t \in Tids : NULL < t
  BY DEF Live, Tids, Ctxs, NULL, KERNEL

(* the address space an allocation hands out is a free one *)
LEMMA FreeCtxIsFree ==
    ASSUME Ctxs \ ctxs # {}
    PROVE  FreeCtx \in Ctxs \ ctxs
  <1>1. \E c \in Ctxs \ ctxs : \A d \in Ctxs \ ctxs : c <= d
    <2>1. Ctxs \ ctxs \subseteq Nat
      BY DEF Ctxs
    <2>2. QED
      BY <2>1, Least
  <1>2. QED
    BY <1>1 DEF FreeCtx

(* storing an exit code *)
LEMMA StatusTyped ==
    ASSUME NEW f \in [Tids -> Int], NEW x, NEW v \in Int
    PROVE  [f EXCEPT ![x] = v] \in [Tids -> Int]
  OBVIOUS

(* a new thread's fields have their types *)
LEMMA NewThreadTyped ==
    ASSUME IInv, next_tid <= MaxTid,
           NEW k \in {"loop", "shell", "child"}, NEW parent \in Tids \cup {NULL},
           NEW ctx \in Ctxs \cup {KERNEL}, NewThread(k, parent, ctx),
           ctxs' \in SUBSET Ctxs, UNCHANGED <<timer, panic, current_thread, loaded>>
    PROVE  TypeOK'
  <1>1. /\ next_tid \in Tids \ Live
        /\ Live' = Live \cup {next_tid}
        /\ next' \in [Tids -> Tids \cup {NULL}]
        /\ thread_queue' \in Tids
    BY NewThreadInRing
  <1>2. next_tid \in Nat /\ next_tid' = next_tid + 1 /\ next_tid' \in 1 .. MaxTid + 1
    BY SchedConstants DEF NewThread, NextTid, IInv, TypeOK
  <1>3. \A t \in Live' : t < next_tid'
    BY <1>1, <1>2, Ids DEF IInv, TypeOK
  <1>4. /\ kind' \in [Tids -> {"none", "loop", "shell", "child", "program"}]
        /\ state' \in [Tids -> {"none", "running", "zombie", "dead"}]
    BY DEF NewThread, IInv, TypeOK
  <1>5. /\ parent_id' \in [Tids -> Tids \cup {NULL}]
        /\ cr3' \in [Tids -> Ctxs \cup {KERNEL}]
    <2>1. parent_id' = [parent_id EXCEPT ![next_tid] = parent] /\ cr3' = [cr3 EXCEPT ![next_tid] = ctx]
      BY DEF NewThread
    <2>2. parent_id \in [Tids -> Tids \cup {NULL}] /\ cr3 \in [Tids -> Ctxs \cup {KERNEL}]
      BY DEF IInv, TypeOK
    <2>3. QED
      BY <2>1, <2>2
  <1>6. exit_code' \in [Tids -> Int]
    BY StatusTyped DEF NewThread, IInv, TypeOK
  <1>7. UNCHANGED <<pc, wait_pid>>
    BY DEF NewThread
  <1>8. /\ timer' \in BOOLEAN /\ panic' \in {"none", "fork", "execve"}
        /\ current_thread' \in Tids \cup {NULL}
        /\ pc' \in [Tids -> {"run", "execve", "exit_code", "exit", "waitpid", "reap"}]
        /\ wait_pid' \in [Tids -> Tids \cup {NULL}]
        /\ loaded' \in Ctxs \cup {KERNEL}
    BY <1>7 DEF IInv, TypeOK
  <1>9. QED
    BY <1>1, <1>2, <1>3, <1>4, <1>5, <1>6, <1>8 DEF TypeOK

(* kmain starts a kernel thread *)
LEMMA KthreadKeeps ==
    ASSUME IInv, NEW k \in {"loop", "shell"}, sched_kthread(k)
    PROVE  IInv'
  <1>1. NewThread(k, NULL, KERNEL) /\ next_tid <= MaxTid
    BY DEF sched_kthread
  <1>2. UNCHANGED <<timer, panic, current_thread, loaded, ctxs>>
    BY DEF sched_kthread
  <1>3. /\ next_tid \in Tids \ Live
        /\ Live' = Live \cup {next_tid}
        /\ QueueIsRing'
        /\ next' \in [Tids -> Tids \cup {NULL}]
        /\ thread_queue' \in Tids
    BY <1>1, NewThreadInRing
  <1>4. TypeOK'
    BY <1>1, <1>2, NewThreadTyped DEF IInv, TypeOK
  <1>5. NothingFreedInUse'
    BY <1>1, <1>2, <1>3, Ids DEF IInv, TypeOK, NothingFreedInUse, NewThread
  <1>6. SchedAux'
    BY <1>1, <1>2, <1>3, Ids DEF IInv, TypeOK, SchedAux, NewThread
  <1>7. QED
    BY <1>3, <1>4, <1>5, <1>6 DEF IInv

(* sched_fork: failed, succeeded, or faulted *)
LEMMA ForkKeeps ==
    ASSUME IInv, NEW t \in Tids, sched_fork(t)
    PROVE  IInv'
  <1>1. t = current_thread /\ t \in Live /\ current_thread # NULL /\ next_tid <= MaxTid
    BY Ids DEF sched_fork, Runs, IInv, NothingFreedInUse
  <1>2. UNCHANGED <<timer, current_thread, loaded>>
    BY DEF sched_fork
  <1>3. CASE /\ next_tid' = NextTid
             /\ \/ UNCHANGED ctxs
                \/ Ctxs \ ctxs # {} /\ ctxs' = ctxs \cup {FreeCtx}
             /\ UNCHANGED <<panic, thread_queue, thread_vars>>
    <2>1. Live' = Live
      BY <1>3 DEF Live, thread_vars
    <2>2. ctxs \subseteq ctxs' /\ ctxs' \subseteq Ctxs
      BY <1>3, FreeCtxIsFree DEF IInv, TypeOK
    <2>3. next_tid \in Nat /\ next_tid' = next_tid + 1 /\ next_tid' \in 1 .. MaxTid + 1
      BY <1>1, <1>3, SchedConstants DEF NextTid, IInv, TypeOK
    <2>4. TypeOK'
      BY <1>2, <1>3, <2>1, <2>2, <2>3, Ids DEF IInv, TypeOK, thread_vars
    <2>5. QueueIsRing'
      BY <1>3, <2>1, RingKept DEF IInv, thread_vars
    <2>6. NothingFreedInUse'
      BY <1>2, <1>3, <2>1, <2>2 DEF IInv, NothingFreedInUse, thread_vars
    <2>7. SchedAux'
      BY <1>2, <1>3, <2>1 DEF IInv, SchedAux, thread_vars
    <2>8. QED
      BY <2>4, <2>5, <2>6, <2>7 DEF IInv
  <1>4. CASE /\ Ctxs \ ctxs # {} /\ ctxs' = ctxs \cup {FreeCtx}
             /\ NewThread("child", t, FreeCtx)
             /\ UNCHANGED panic
    <2>1. FreeCtx \in Ctxs \ ctxs
      BY <1>4, FreeCtxIsFree
    <2>2. /\ next_tid \in Tids \ Live
          /\ Live' = Live \cup {next_tid}
          /\ QueueIsRing'
          /\ next' \in [Tids -> Tids \cup {NULL}]
          /\ thread_queue' \in Tids
      BY <1>1, <1>4, NewThreadInRing
    <2>3. TypeOK'
      BY <1>1, <1>2, <1>4, <2>1, NewThreadTyped DEF IInv, TypeOK
    <2>4. NothingFreedInUse'
      BY <1>1, <1>2, <1>4, <2>1, <2>2, Ids DEF IInv, TypeOK, NothingFreedInUse, NewThread
    <2>5. t < next_tid
      BY <1>1 DEF IInv, TypeOK
    <2>6. SchedAux'
      BY <1>1, <1>2, <1>4, <2>2, <2>5, Ids DEF IInv, TypeOK, SchedAux, NewThread
    <2>7. QED
      BY <2>2, <2>3, <2>4, <2>6 DEF IInv
  <1>5. CASE /\ panic' = "fork"
             /\ UNCHANGED <<thread_queue, next_tid, thread_vars, ctxs>>
    <2>1. Live' = Live
      BY <1>5 DEF Live, thread_vars
    <2>2. TypeOK'
      BY <1>2, <1>5, <2>1 DEF IInv, TypeOK, thread_vars
    <2>3. QueueIsRing'
      BY <1>5, <2>1, RingKept DEF IInv, thread_vars
    <2>4. NothingFreedInUse' /\ SchedAux'
      BY <1>2, <1>5, <2>1 DEF IInv, NothingFreedInUse, SchedAux, thread_vars
    <2>5. QED
      BY <2>2, <2>3, <2>4 DEF IInv
  <1>6. QED
    BY <1>3, <1>4, <1>5 DEF sched_fork

(* sys_execve replaces and frees the caller's page tables, still loaded *)
LEMMA ExecveKeeps ==
    ASSUME IInv, NEW t \in Tids, sys_execve(t)
    PROVE  IInv'
  <1>1. t = current_thread /\ t \in Live /\ current_thread # NULL /\ pc[t] = "run"
    BY Ids DEF sys_execve, Runs, IInv, NothingFreedInUse
  <1>2. UNCHANGED <<timer, current_thread, thread_queue, next_tid, kind, state, parent_id,
                    exit_code, next, wait_pid, loaded>>
    BY DEF sys_execve
  <1>3. FreeCtx \in Ctxs \ ctxs
    BY FreeCtxIsFree DEF sys_execve
  <1>4. Live' = Live
    BY <1>2 DEF Live
  <1>5. QueueIsRing'
    BY <1>2, <1>4, RingKept DEF IInv
  <1>6. \/ /\ ctxs' \in {ctxs, ctxs \cup {FreeCtx}} /\ UNCHANGED <<cr3, pc>>
           /\ panic' \in {panic, "execve"}
        \/ /\ cr3' = [cr3 EXCEPT ![t] = FreeCtx]
           /\ ctxs' = (ctxs \cup {FreeCtx}) \ {cr3[t]}
           /\ pc' = [pc EXCEPT ![t] = "execve"]
           /\ UNCHANGED panic
    BY DEF sys_execve, ExecFrees
  <1>7. TypeOK'
    BY <1>2, <1>3, <1>4, <1>6 DEF IInv, TypeOK
  <1>8. NothingFreedInUse'
    BY <1>1, <1>2, <1>3, <1>4, <1>6, Ids DEF IInv, TypeOK, NothingFreedInUse
  <1>9. SchedAux'
    BY <1>1, <1>2, <1>4, <1>6 DEF IInv, TypeOK, SchedAux
  <1>10. QED
    BY <1>5, <1>7, <1>8, <1>9 DEF IInv

(* a switch, with what the caller may have changed of its own thread *)
LEMMA SwitchKeeps ==
    ASSUME IInv, timer \/ current_thread # NULL, Live' = Live, TypeOK', NEW st, Switch(st),
           UNCHANGED <<timer, thread_queue, next, cr3, parent_id, ctxs>>,
           \A t \in Tids : pc'[t] = "reap" => pc[t] = "reap" /\ wait_pid'[t] = wait_pid[t]
    PROVE  IInv'
  <1>1. Live # {} /\ current_thread \in Live \cup {NULL}
    BY DEF IInv, SchedAux, NothingFreedInUse
  <1>2. /\ current_thread' \in Live
        /\ \/ loaded' = cr3[current_thread']
           \/ current_thread = NULL /\ loaded' = loaded
    BY <1>1, SwitchLands DEF IInv
  <1>3. QueueIsRing'
    BY RingKept DEF IInv
  <1>4. loaded' = cr3'[current_thread']
    BY <1>2 DEF IInv, SchedAux
  <1>5. NothingFreedInUse'
    BY <1>2, <1>4 DEF IInv, NothingFreedInUse
  <1>6. SchedAux'
    BY <1>1, <1>2, Ids DEF IInv, SchedAux
  <1>7. QED
    BY <1>3, <1>5, <1>6 DEF IInv

(* the thread and the page tables a switch picks are of the right types *)
LEMMA SwitchTyped ==
    ASSUME IInv, timer \/ current_thread # NULL, NEW st, Switch(st)
    PROVE  current_thread' \in Tids \cup {NULL} /\ loaded' \in Ctxs \cup {KERNEL}
  <1>1. Live # {} /\ current_thread \in Live \cup {NULL}
    BY DEF IInv, SchedAux, NothingFreedInUse
  <1>2. /\ current_thread' \in Live
        /\ \/ loaded' = cr3[current_thread']
           \/ current_thread = NULL /\ loaded' = loaded
    BY <1>1, SwitchLands DEF IInv
  <1>3. QED
    BY <1>2, Ids DEF IInv, TypeOK

(* the timer *)
LEMMA TickKeeps ==
    ASSUME IInv, sched_tick
    PROVE  IInv'
  <1>1. /\ timer /\ Switch(state)
        /\ UNCHANGED <<timer, panic, thread_queue, next_tid, thread_vars, ctxs>>
    BY DEF sched_tick
  <1>2. Live' = Live
    BY <1>1 DEF Live, thread_vars
  <1>3. TypeOK'
    BY <1>1, <1>2, SwitchTyped DEF IInv, TypeOK, thread_vars
  <1>4. QED
    BY <1>1, <1>2, <1>3, SwitchKeeps DEF thread_vars

(* an exited thread yields *)
LEMMA ExitLoopKeeps ==
    ASSUME IInv, NEW t \in Tids, ExitLoop(t)
    PROVE  IInv'
  <1>1. /\ current_thread # NULL /\ Switch(state)
        /\ UNCHANGED <<timer, panic, thread_queue, next_tid, thread_vars, ctxs>>
    BY Ids DEF ExitLoop, Runs
  <1>2. Live' = Live
    BY <1>1 DEF Live, thread_vars
  <1>3. TypeOK'
    BY <1>1, <1>2, SwitchTyped DEF IInv, TypeOK, thread_vars
  <1>4. QED
    BY <1>1, <1>2, <1>3, SwitchKeeps DEF thread_vars

(* a program exits *)
LEMMA ExitKeeps ==
    ASSUME IInv, NEW t \in Tids, NEW code \in ExitCodes, sched_exit(t, code)
    PROVE  IInv'
  <1>1. t = current_thread /\ current_thread # NULL /\ t \in Live
    BY Ids DEF sched_exit, Runs, IInv, NothingFreedInUse
  <1>2. /\ state' = [state EXCEPT ![t] = "zombie"]
        /\ exit_code' = [exit_code EXCEPT ![t] = code]
        /\ pc' = [pc EXCEPT ![t] = "exit"]
        /\ Switch(state')
        /\ UNCHANGED <<timer, panic, thread_queue, next_tid, kind, parent_id, next, cr3, wait_pid,
                       ctxs>>
    BY DEF sched_exit
  <1>3. Live' = Live
    BY <1>1, <1>2 DEF Live, IInv, TypeOK
  <1>4. exit_code' \in [Tids -> Int]
    BY <1>2, StatusTyped, SchedConstants DEF IInv, TypeOK
  <1>5. TypeOK'
    BY <1>1, <1>2, <1>3, <1>4, SwitchTyped DEF IInv, TypeOK
  <1>6. QED
    BY <1>1, <1>2, <1>3, <1>5, SwitchKeeps DEF IInv, TypeOK

(* A step that changes thread states, exit codes and program points only:     *)
(* no thread comes or goes, and no thread starts to reap.                     *)
LEMMA QuietKeeps ==
    ASSUME IInv, Live' = Live, TypeOK',
           UNCHANGED <<timer, current_thread, thread_queue, next, cr3, parent_id, loaded, ctxs>>,
           \A t \in Tids : pc[t] = "execve" => pc'[t] = "execve",
           \A t \in Tids : pc'[t] = "reap" => wait_pid'[t] \in Live /\ parent_id[wait_pid'[t]] = t
    PROVE  IInv'
  <1>1. QueueIsRing'
    BY RingKept DEF IInv
  <1>2. NothingFreedInUse'
    BY Ids DEF IInv, NothingFreedInUse
  <1>3. SchedAux'
    BY DEF IInv, SchedAux
  <1>4. QED
    BY <1>1, <1>2, <1>3 DEF IInv

(* a program kills *)
LEMMA KillKeeps ==
    ASSUME IInv, NEW t \in Tids, NEW pid \in Tids, sched_kill(t, pid)
    PROVE  IInv'
  <1>1. /\ pid \in Live
        /\ state' = [state EXCEPT ![pid] = "zombie"]
        /\ exit_code' = [exit_code EXCEPT ![pid] = KillCode]
        /\ UNCHANGED <<timer, panic, current_thread, thread_queue, next_tid, kind, parent_id, next,
                       cr3, pc, wait_pid, loaded, ctxs>>
    BY DEF sched_kill
  <1>2. Live' = Live
    BY <1>1 DEF Live, IInv, TypeOK
  <1>3. exit_code' \in [Tids -> Int]
    BY <1>1, StatusTyped, SchedConstants DEF IInv, TypeOK
  <1>4. TypeOK'
    BY <1>1, <1>2, <1>3 DEF IInv, TypeOK
  <1>5. QED
    BY <1>1, <1>2, <1>4, QuietKeeps DEF IInv, SchedAux

(* a child of the shell exits, in two steps *)
LEMMA ChildExitKeeps ==
    ASSUME IInv, NEW t \in Tids, ChildExit(t) \/ ChildExitCode(t)
    PROVE  IInv'
  <1>1. t \in Live /\ pc[t] # "execve"
    BY Ids DEF ChildExit, ChildExitCode, Runs, IInv, NothingFreedInUse
  <1>2. /\ UNCHANGED <<timer, panic, current_thread, thread_queue, next_tid, kind, parent_id, next,
                       cr3, wait_pid, loaded, ctxs>>
        /\ pc' = [pc EXCEPT ![t] = "exit"] \/ pc' = [pc EXCEPT ![t] = "exit_code"]
        /\ state' = [state EXCEPT ![t] = "zombie"] \/ state' = state
        /\ exit_code' = [exit_code EXCEPT ![t] = -1] \/ exit_code' = exit_code
    BY DEF ChildExit, ChildExitCode
  <1>3. Live' = Live
    BY <1>1, <1>2 DEF Live, IInv, TypeOK
  <1>4. exit_code' \in [Tids -> Int]
    <2>1. exit_code \in [Tids -> Int] /\ -1 \in Int
      BY DEF IInv, TypeOK
    <2>2. QED
      BY <1>2, <2>1, StatusTyped
  <1>5. TypeOK'
    BY <1>2, <1>3, <1>4 DEF IInv, TypeOK
  <1>6. \A u \in Tids : pc[u] = "execve" => pc'[u] = "execve"
    BY <1>1, <1>2 DEF IInv, TypeOK
  <1>7. \A u \in Tids : pc'[u] = "reap" => pc[u] = "reap"
    BY <1>2 DEF IInv, TypeOK
  <1>8. \A u \in Tids : pc'[u] = "reap" => wait_pid'[u] \in Live /\ parent_id[wait_pid'[u]] = u
    BY <1>2, <1>7 DEF IInv, SchedAux
  <1>9. QED
    BY <1>2, <1>3, <1>5, <1>6, <1>8, QuietKeeps

(* the end of sys_execve *)
LEMMA ExecSwitchKeeps ==
    ASSUME IInv, NEW t \in Tids, ExecSwitch(t)
    PROVE  IInv'
  <1>1. t = current_thread /\ current_thread # NULL /\ t \in Live
    BY Ids DEF ExecSwitch, Runs, IInv, NothingFreedInUse
  <1>2. /\ loaded' = cr3[t]
        /\ kind' = [kind EXCEPT ![t] = "program"]
        /\ pc' = [pc EXCEPT ![t] = "run"]
        /\ UNCHANGED <<timer, panic, current_thread, thread_queue, next_tid, state, parent_id,
                       exit_code, next, cr3, wait_pid, ctxs>>
    BY DEF ExecSwitch
  <1>3. Live' = Live
    BY <1>2 DEF Live
  <1>4. TypeOK'
    BY <1>2, <1>3 DEF IInv, TypeOK
  <1>5. QueueIsRing'
    BY <1>2, <1>3, RingKept DEF IInv
  <1>6. NothingFreedInUse'
    BY <1>1, <1>2, <1>3 DEF IInv, NothingFreedInUse
  <1>7. SchedAux'
    BY <1>1, <1>2, <1>3 DEF IInv, TypeOK, SchedAux
  <1>8. QED
    BY <1>4, <1>5, <1>6, <1>7 DEF IInv

(* an iteration of waitpid's loop *)
LEMMA WaitKeeps ==
    ASSUME IInv, NEW t \in Tids, NEW pid \in Tids \cup {NULL},
           t = current_thread, pc[t] \in {"run", "waitpid"}, WaitIteration(t, pid)
    PROVE  IInv'
  <1>1. UNCHANGED <<timer, panic, thread_queue, next_tid, kind, parent_id, exit_code, next, cr3,
                    ctxs>>
    BY DEF WaitIteration
  <1>2. CASE /\ pc' = [pc EXCEPT ![t] = "run"]
             /\ UNCHANGED <<current_thread, loaded, state, wait_pid>>
    <2>1. Live' = Live
      BY <1>2 DEF Live
    <2>2. TypeOK'
      BY <1>1, <1>2, <2>1 DEF IInv, TypeOK
    <2>3. \A u \in Tids : pc[u] = "execve" => pc'[u] = "execve"
      BY <1>2 DEF IInv, TypeOK
    <2>4. \A u \in Tids : pc'[u] = "reap" => pc[u] = "reap"
      BY <1>2 DEF IInv, TypeOK
    <2>5. \A u \in Tids : pc'[u] = "reap" => wait_pid'[u] \in Live /\ parent_id[wait_pid'[u]] = u
      BY <1>2, <2>4 DEF IInv, SchedAux
    <2>6. QED
      BY <1>1, <1>2, <2>1, <2>2, <2>3, <2>5, QuietKeeps
  <1>3. CASE /\ IsChild(pid, t)
             /\ state' = [state EXCEPT ![pid] = "dead"]
             /\ pc' = [pc EXCEPT ![t] = "reap"]
             /\ wait_pid' = [wait_pid EXCEPT ![t] = pid]
             /\ UNCHANGED <<current_thread, loaded>>
    <2>1. Live' = Live /\ pid \in Live /\ parent_id[pid] = t
      BY <1>3 DEF Live, IsChild, IInv, TypeOK
    <2>2. TypeOK'
      BY <1>1, <1>3, <2>1 DEF IInv, TypeOK
    <2>3. \A u \in Tids : pc[u] = "execve" => pc'[u] = "execve"
      BY <1>3 DEF IInv, TypeOK
    <2>4. /\ pc'[t] = "reap" /\ wait_pid'[t] = pid
          /\ \A u \in Tids \ {t} : pc'[u] = pc[u] /\ wait_pid'[u] = wait_pid[u]
      BY <1>3 DEF IInv, TypeOK
    <2>5. \A u \in Tids : pc'[u] = "reap" => wait_pid'[u] \in Live /\ parent_id[wait_pid'[u]] = u
      BY <2>1, <2>4 DEF IInv, SchedAux
    <2>6. QED
      BY <1>1, <1>3, <2>1, <2>2, <2>3, <2>5, QuietKeeps
  <1>4. CASE /\ pc' = [pc EXCEPT ![t] = "waitpid"]
             /\ wait_pid' = [wait_pid EXCEPT ![t] = pid]
             /\ Switch(state)
             /\ UNCHANGED state
    <2>1. Live' = Live /\ current_thread # NULL
      BY <1>4, Ids DEF Live
    <2>2. TypeOK'
      BY <1>1, <1>4, <2>1, SwitchTyped DEF IInv, TypeOK
    <2>3. QED
      BY <1>1, <1>4, <2>1, <2>2, SwitchKeeps DEF IInv, TypeOK
  <1>5. QED
    BY <1>2, <1>3, <1>4 DEF WaitIteration

(* waitpid frees the zombie: nobody else waits for it *)
LEMMA ReapKeeps ==
    ASSUME IInv, NEW t \in Tids, Reap(t)
    PROVE  IInv'
  <1> DEFINE x == wait_pid[t]
  <1>1. /\ x \in Live \ {t}
        /\ t = current_thread /\ t \in Live
        /\ Live' = Live \ {x}
        /\ QueueIsRing'
        /\ next' \in [Tids -> Tids \cup {NULL}]
        /\ thread_queue' \in Tids
    BY ReapedFromRing
  <1>2. /\ pc[t] = "reap"
        /\ ctxs' = ctxs \ {cr3[x]}
        /\ kind' = [kind EXCEPT ![x] = "none"]
        /\ state' = [state EXCEPT ![x] = "none"]
        /\ parent_id' = [parent_id EXCEPT ![x] = NULL]
        /\ exit_code' = [exit_code EXCEPT ![x] = 0]
        /\ cr3' = [cr3 EXCEPT ![x] = KERNEL]
        /\ pc' = [pc EXCEPT ![t] = "run", ![x] = "run"]
        /\ wait_pid' = [wait_pid EXCEPT ![t] = NULL]
        /\ UNCHANGED <<timer, panic, current_thread, next_tid, loaded>>
    BY DEF Reap, Runs
  <1>3. x \in Tids /\ parent_id[x] = t
    BY <1>1, <1>2, Ids DEF IInv, SchedAux
  <1> HIDE DEF x
  <1>4. TypeOK'
    <2>1. exit_code' \in [Tids -> Int]
      BY <1>2, StatusTyped DEF IInv, TypeOK
    <2>2. /\ kind' \in [Tids -> {"none", "loop", "shell", "child", "program"}]
          /\ state' \in [Tids -> {"none", "running", "zombie", "dead"}]
          /\ pc' \in [Tids -> {"run", "execve", "exit_code", "exit", "waitpid", "reap"}]
      BY <1>2 DEF IInv, TypeOK
    <2>3. /\ parent_id' \in [Tids -> Tids \cup {NULL}]
          /\ cr3' \in [Tids -> Ctxs \cup {KERNEL}]
          /\ wait_pid' \in [Tids -> Tids \cup {NULL}]
      BY <1>2 DEF IInv, TypeOK
    <2>4. QED
      BY <1>1, <1>2, <2>1, <2>2, <2>3 DEF IInv, TypeOK
  <1>5. \A u \in Live' : cr3'[u] = cr3[u] /\ parent_id'[u] = parent_id[u]
    BY <1>1, <1>2, Ids DEF IInv, TypeOK
  <1>6. NothingFreedInUse'
    BY <1>1, <1>2, <1>5, Ids DEF IInv, TypeOK, NothingFreedInUse
  <1>7. ASSUME NEW u \in Tids, pc'[u] = "reap"
        PROVE  wait_pid'[u] \in Live' /\ parent_id'[wait_pid'[u]] = u
    <2>1. u # t /\ u # x /\ pc[u] = "reap"
      BY <1>1, <1>2, <1>3, <1>7 DEF IInv, TypeOK
    <2>2. wait_pid'[u] = wait_pid[u]
      BY <1>2, <2>1 DEF IInv, TypeOK
    <2>3. wait_pid[u] \in Live /\ parent_id[wait_pid[u]] = u
      BY <2>1 DEF IInv, SchedAux
    <2>4. wait_pid[u] # x
      BY <1>3, <2>1, <2>3
    <2>5. QED
      BY <1>1, <1>5, <2>2, <2>3, <2>4
  <1>8. SchedAux'
    BY <1>1, <1>2, <1>5, <1>7, Ids DEF IInv, SchedAux
  <1>9. QED
    BY <1>1, <1>4, <1>6, <1>8 DEF IInv

(* every step *)
LEMMA NextIInv == IInv /\ [Next]_vars => IInv'
  <1> SUFFICES ASSUME IInv, [Next]_vars PROVE IInv'
    OBVIOUS
  <1>1. CASE \E k \in {"loop", "shell"} : sched_kthread(k)
    BY <1>1, KthreadKeeps
  <1>2. CASE lapic_timer_init
    <2>1. Live' = Live /\ Live # {}
      BY <1>2 DEF lapic_timer_init, Live, thread_vars
    <2>2. TypeOK'
      BY <1>2, <2>1 DEF lapic_timer_init, IInv, TypeOK, thread_vars
    <2>3. QueueIsRing'
      BY <1>2, <2>1, RingKept DEF lapic_timer_init, IInv, thread_vars
    <2>4. NothingFreedInUse' /\ SchedAux'
      BY <1>2, <2>1 DEF lapic_timer_init, IInv, NothingFreedInUse, SchedAux, thread_vars
    <2>5. QED
      BY <2>2, <2>3, <2>4 DEF IInv
  <1>3. CASE sched_tick
    BY <1>3, TickKeeps
  <1>4. ASSUME NEW t \in Tids, Calls(t)
        PROVE  IInv'
    <2>1. ASSUME NEW pid \in Tids, sched_waitpid(t, pid)
          PROVE  IInv'
      BY <2>1, WaitKeeps DEF sched_waitpid, Runs
    <2>2. QED
      BY <1>4, <2>1, ForkKeeps, ExecveKeeps, ExitKeeps, ChildExitKeeps, KillKeeps DEF Calls
  <1>5. ASSUME NEW t \in Tids, Continues(t)
        PROVE  IInv'
    <2>1. CASE WaitLoop(t)
      <3>1. wait_pid[t] \in Tids \cup {NULL}
        BY DEF IInv, TypeOK
      <3>2. QED
        BY <2>1, <3>1, WaitKeeps DEF WaitLoop, Runs
    <2>2. QED
      BY <1>5, <2>1, ExecSwitchKeeps, ChildExitKeeps, ExitLoopKeeps, ReapKeeps DEF Continues
  <1>6. CASE UNCHANGED vars
    <2>1. Live' = Live
      BY <1>6 DEF vars, thread_vars, Live
    <2>2. TypeOK' /\ QueueIsRing'
      BY <1>6, <2>1, RingKept DEF vars, thread_vars, IInv, TypeOK
    <2>3. NothingFreedInUse' /\ SchedAux'
      BY <1>6, <2>1 DEF vars, thread_vars, IInv, NothingFreedInUse, SchedAux
    <2>4. QED
      BY <2>2, <2>3 DEF IInv
  <1>7. QED
    BY <1>1, <1>2, <1>3, <1>4, <1>5, <1>6 DEF Next

-----------------------------------------------------------------------------
(* The steps of the two action properties. *)

SwitchStep == current_thread' # current_thread /\ Running' # {} => current_thread' \in Running'

(* a switch, seen with the states after the step *)
LEMMA SwitchLandsRunning ==
    ASSUME IInv, timer \/ current_thread # NULL, Live' = Live, Switch(state')
    PROVE  SwitchStep
  <1>1. Live # {} /\ current_thread \in Live \cup {NULL}
    BY DEF IInv, SchedAux, NothingFreedInUse
  <1>2. /\ current_thread' \in Live
        /\ (\E t \in Live : state'[t] = "running") => state'[current_thread'] = "running"
    BY <1>1, SwitchLands DEF IInv
  <1>3. Running' \subseteq Live'
    BY DEF Running, Live
  <1>4. QED
    BY <1>2, <1>3, Ids DEF SwitchStep, Running

(* only a switch changes the current thread *)
LEMMA NextSwitchStep == IInv /\ [Next]_vars => SwitchStep
  <1> SUFFICES ASSUME IInv, [Next]_vars, current_thread' # current_thread PROVE SwitchStep
    BY DEF SwitchStep
  <1>1. CASE sched_tick
    BY <1>1, SwitchLandsRunning DEF sched_tick, thread_vars, Live
  <1>2. ASSUME NEW t \in Tids, Calls(t) \/ Continues(t)
        PROVE  SwitchStep
    <2>1. CASE \E code \in ExitCodes : sched_exit(t, code)
      <3>1. /\ t = current_thread /\ t # NULL /\ t \in Live
            /\ state' = [state EXCEPT ![t] = "zombie"]
            /\ Switch(state')
        BY <2>1, Ids DEF sched_exit, Runs, IInv, NothingFreedInUse
      <3>2. Live' = Live
        BY <3>1 DEF Live, IInv, TypeOK
      <3>3. QED
        BY <3>1, <3>2, SwitchLandsRunning
    <2>2. CASE ExitLoop(t)
      BY <2>2, Ids, SwitchLandsRunning DEF ExitLoop, Runs, thread_vars, Live
    <2>3. ASSUME NEW pid, WaitIteration(t, pid), t = current_thread
          PROVE  SwitchStep
      <3>1. UNCHANGED state /\ Switch(state)
        BY <2>3 DEF WaitIteration
      <3>2. QED
        BY <2>3, <3>1, Ids, SwitchLandsRunning DEF Live
    <2>4. QED
      BY <1>2, <2>1, <2>2, <2>3
         DEF Calls, Continues, sched_fork, sys_execve, ChildExit, sched_kill, sched_waitpid,
             WaitLoop, ExecSwitch, ChildExitCode, Reap, Runs
  <1>3. QED
    BY <1>1, <1>2 DEF Next, vars, sched_kthread, lapic_timer_init

StatusStep ==
    \A t \in Tids : state[t] \in {"zombie", "dead"} /\ t # current_thread =>
        \/ state'[t] \in {"zombie", "dead"} /\ exit_code'[t] = exit_code[t]
        \/ state'[t] = "none" /\ parent_id[t] = current_thread

(* only its parent's waitpid touches a zombie that is off the processor *)
LEMMA NextStatusStep == IInv /\ [Next]_vars => StatusStep
  <1> SUFFICES ASSUME IInv, [Next]_vars PROVE StatusStep
    OBVIOUS
  <1> DEFINE Same == state' = state /\ exit_code' = exit_code
  <1>1. Same => StatusStep
    BY DEF StatusStep
  <1>2. ASSUME NEW k, NEW parent, NEW ctx, NewThread(k, parent, ctx), next_tid <= MaxTid
        PROVE  StatusStep
    <2>1. next_tid \in Tids \ Live
      BY <1>2, NewThreadInRing
    <2>2. /\ state' = [state EXCEPT ![next_tid] = "running"]
          /\ exit_code' = [exit_code EXCEPT ![next_tid] = 0]
      BY <1>2 DEF NewThread
    <2>3. QED
      BY <2>1, <2>2 DEF IInv, TypeOK, Live, StatusStep
  <1>3. ASSUME NEW t \in Tids, Calls(t) \/ Continues(t)
        PROVE  StatusStep
    <2>1. CASE sched_fork(t)
      BY <2>1, <1>1, <1>2 DEF sched_fork, thread_vars
    <2>2. CASE \/ \E code \in ExitCodes : sched_exit(t, code)
               \/ ChildExit(t) \/ ChildExitCode(t)
      BY <2>2 DEF sched_exit, ChildExit, ChildExitCode, Runs, IInv, TypeOK, StatusStep
    <2>3. CASE \E pid \in Tids : sched_kill(t, pid)
      BY <2>3 DEF sched_kill, Killable, IInv, TypeOK, StatusStep
    <2>4. ASSUME NEW pid, WaitIteration(t, pid)
          PROVE  StatusStep
      BY <2>4 DEF WaitIteration, IInv, TypeOK, StatusStep
    <2>5. CASE Reap(t)
      <3>1. /\ state' = [state EXCEPT ![wait_pid[t]] = "none"]
            /\ exit_code' = [exit_code EXCEPT ![wait_pid[t]] = 0]
            /\ parent_id[wait_pid[t]] = current_thread
        BY <2>5 DEF Reap, Runs, IInv, SchedAux
      <3>2. QED
        BY <3>1 DEF IInv, TypeOK, StatusStep
    <2>6. QED
      BY <1>1, <1>3, <2>1, <2>2, <2>3, <2>4, <2>5
         DEF Calls, Continues, sys_execve, sched_waitpid, WaitLoop, ExecSwitch, ExitLoop,
             thread_vars
  <1>4. CASE \E k \in {"loop", "shell"} : sched_kthread(k)
    BY <1>2, <1>4 DEF sched_kthread
  <1>5. QED
    BY <1>1, <1>3, <1>4 DEF Next, vars, thread_vars, lapic_timer_init, sched_tick

-----------------------------------------------------------------------------
(* The invariant holds, whatever the interleaving of threads and timer.       *)
LEMMA Invariant == Spec => []IInv
  BY InitIInv, NextIInv, PTL DEF Spec

(* The fields of thread_t and the scheduler's globals keep their types, and   *)
(* a thread id handed out by sched_kthread or sched_fork is never one of a    *)
(* thread that still exists.                                                  *)
THEOREM SchedTyped == Spec => []TypeOK
  <1>1. IInv => TypeOK
    BY DEF IInv
  <1>2. QED
    BY <1>1, Invariant, PTL

(* The thread queue is one ring through exactly the threads not yet freed,    *)
(* for any number of threads: the walks of sched_tick, sched_waitpid,         *)
(* sched_kill and sched_fork terminate and touch no freed thread_t.           *)
THEOREM QueueStaysRing == Spec => []QueueIsRing
  <1>1. IInv => QueueIsRing
    BY DEF IInv
  <1>2. QED
    BY <1>1, Invariant, PTL

(* The processor never runs a freed thread or on freed page tables, and       *)
(* execve and waitpid never free an address space that a second thread owns.  *)
THEOREM NothingFreedIsUsed == Spec => []NothingFreedInUse
  <1>1. IInv => NothingFreedInUse
    BY DEF IInv
  <1>2. QED
    BY <1>1, Invariant, PTL

(* The search of sched_tick finds a running thread whenever one exists, from  *)
(* wherever in the ring it starts, in a timer tick, an exit or a waitpid.     *)
THEOREM SwitchFindsRunning == Spec => SwitchPicksRunning
  <1>1. IInv /\ [Next]_vars => [SwitchStep]_vars
    BY NextSwitchStep
  <1>2. QED
    BY <1>1, Invariant, PTL DEF Spec, SwitchPicksRunning, SwitchStep

(* The exit status of a zombie that is off the processor is overwritten by no *)
(* kill, and freed by no one but the parent that waits for it.                *)
THEOREM StatusStaysFinal == Spec => StatusIsFinal
  <1>1. IInv /\ [Next]_vars => [StatusStep]_vars
    BY NextStatusStep
  <1>2. QED
    BY <1>1, Invariant, PTL DEF Spec, StatusIsFinal, StatusStep
=============================================================================
