---------------------------- MODULE SocketProofs ----------------------------
(***************************************************************************)
(* Proofs about Socket for any number of processes, sockets, paths and     *)
(* bytes, and any size of the accept queue and of the receive buffer.      *)
(***************************************************************************)
EXTENDS Socket, TLAPS

-----------------------------------------------------------------------------
(* The slots of an accept queue. *)

Slots == 0 .. QueueLen - 1

(* the slots from h up to t, around the end of the array *)
Between(h, t) == IF h <= t THEN h .. t - 1 ELSE (h .. QueueLen - 1) \cup (0 .. t - 1)

(* the step of an index *)
LEMMA NextSlotWraps ==
    ASSUME NEW i \in Slots
    PROVE  /\ NextSlot(i) = IF i + 1 < QueueLen THEN i + 1 ELSE 0
           /\ NextSlot(i) \in Slots
  <1> DEFINE a == i + 1
  <1>1. a \in Nat /\ a <= QueueLen /\ a > 0 /\ QueueLen \in Nat \ {0}
    BY SocketConstants DEF Slots
  <1> HIDE DEF a
  <1>2. a % QueueLen = IF a < QueueLen THEN a ELSE 0
    BY <1>1
  <1>3. NextSlot(i) = IF i + 1 < QueueLen THEN i + 1 ELSE 0
    BY <1>2 DEF NextSlot, a
  <1>4. QED
    BY <1>3, SocketConstants DEF Slots

(* a client enters a queue with room in a slot that was not in use *)
LEMMA Enqueued ==
    ASSUME NEW h \in Slots, NEW t \in Slots, NextSlot(t) # h
    PROVE  Between(h, NextSlot(t)) = Between(h, t) \cup {t} /\ t \notin Between(h, t)
  <1>1. NextSlot(t) = IF t + 1 < QueueLen THEN t + 1 ELSE 0
    BY NextSlotWraps
  <1>2. QED
    BY <1>1, SocketConstants DEF Between, Slots

(* the oldest client leaves it *)
LEMMA Dequeued ==
    ASSUME NEW h \in Slots, NEW t \in Slots, h # t
    PROVE  Between(NextSlot(h), t) = Between(h, t) \ {h} /\ h \in Between(h, t)
  <1>1. NextSlot(h) = IF h + 1 < QueueLen THEN h + 1 ELSE 0
    BY NextSlotWraps
  <1>2. QED
    BY <1>1, SocketConstants DEF Between, Slots

(* the slots in use are slots *)
LEMMA BetweenSlots ==
    ASSUME NEW h \in Slots, NEW t \in Slots
    PROVE  Between(h, t) \subseteq Slots /\ Between(h, h) = {}
  BY SocketConstants DEF Between, Slots

-----------------------------------------------------------------------------
(* The inductive invariant. *)

(* TypeOK but for the size of the socket table *)
FieldsOK ==
    /\ created \in 0 .. MaxSock /\ panic \in BOOLEAN /\ bound_sockets \in SUBSET Socks
    /\ state \in [Socks -> {"none", "unbound", "bound", "listening", "connected", "freed"}]
    /\ \A s \in Socks : /\ owner[s] \in Procs \cup {NULL} /\ path[s] \in Paths \cup {NULL}
                        /\ peer[s] \in Socks \cup {NULL} /\ Len(rx[s]) <= Capacity
                        /\ accept_head[s] \in 0 .. QueueLen - 1
                        /\ accept_tail[s] \in 0 .. QueueLen - 1
    /\ pc \in [Procs -> {"run", "connect", "accept", "read", "write", "dead"}]
    /\ sock \in [Procs -> Socks \cup {NULL}] /\ left \in [Procs -> 0 .. MaxBytes]

(* the fields of unix_socket_t, with their domains *)
Shapes ==
    /\ owner \in [Socks -> Procs \cup {NULL}]
    /\ path \in [Socks -> Paths \cup {NULL}]
    /\ peer \in [Socks -> Socks \cup {NULL}]
    /\ accept_queue \in [Socks -> [Slots -> Socks \cup {NULL}]]
    /\ accept_head \in [Socks -> Slots] /\ accept_tail \in [Socks -> Slots]
    /\ rx \in [Socks -> Seq(Nat)]
    /\ sent \in [Socks -> Nat] /\ received \in [Socks -> Nat]

(* a socket not yet created is as ring_buffer_init and memset leave it *)
Fresh ==
    \A s \in Socks :
        /\ state[s] = "none" <=> s > created
        /\ state[s] = "none" => /\ peer[s] = NULL /\ rx[s] = <<>>
                                /\ accept_head[s] = 0 /\ accept_tail[s] = 0
                                /\ sent[s] = 0 /\ received[s] = 0

(* A call waits on a live socket of its own process, so no other process can *)
(* bind, connect or close that socket meanwhile.                             *)
Waiting ==
    \A p \in Procs :
        /\ sock[p] # NULL => pc[p] # "run" /\ sock[p] \in Live /\ owner[sock[p]] = p
        /\ pc[p] \in {"connect", "accept", "read", "write"} => sock[p] # NULL

(* NoDanglingSocket in parts *)
Peers ==
    \A s \in Live : peer[s] # NULL =>
        peer[s] \in Live /\ peer[peer[s]] = s /\ state[s] = "connected"

Table ==
    /\ bound_sockets \subseteq Live
    /\ \A s, t \in bound_sockets : path[s] = path[t] => s = t

Entries ==
    \A l \in Live : \A i \in Queued(l) :
        /\ accept_queue[l][i] \in Live /\ state[accept_queue[l][i]] = "unbound"
        /\ \E p \in Procs : sock[p] = accept_queue[l][i] /\ pc[p] \in {"connect", "dead"}

EntriesOnce ==
    \A l, m \in Live : \A i \in Queued(l), j \in Queued(m) :
        accept_queue[m][j] = accept_queue[l][i] => l = m /\ i = j

(* the bytes in a receive buffer are those sent and not read *)
Streams ==
    \A s \in Socks : /\ received[s] <= sent[s]
                     /\ Len(rx[s]) = sent[s] - received[s]
                     /\ \A i \in 1 .. Len(rx[s]) : rx[s][i] = received[s] + i

IInv ==
    /\ FieldsOK /\ Shapes /\ Fresh /\ Waiting
    /\ Peers /\ Table /\ Entries /\ EntriesOnce /\ Streams

(* the parts make up NoDanglingSocket *)
LEMMA Parts == Peers /\ Table /\ Entries /\ EntriesOnce <=> NoDanglingSocket
  BY DEF Peers, Table, Entries, EntriesOnce, NoDanglingSocket

(* the bytes are those of StreamIntact, as a sequence *)
LEMMA StreamsIntact == Shapes /\ Streams => StreamIntact
  <1> SUFFICES ASSUME Shapes, Streams, NEW s \in Live
               PROVE  rx[s] = [i \in 1 .. sent[s] - received[s] |-> received[s] + i]
    BY DEF StreamIntact
  <1> DEFINE n == sent[s] - received[s]
             b == received[s]
             f == [i \in 1 .. n |-> b + i]
  <1>1. n \in Nat /\ b \in Nat /\ rx[s] \in Seq(Nat) /\ Len(rx[s]) = n
        /\ \A i \in 1 .. n : rx[s][i] = b + i
    BY DEF Shapes, Streams, Live
  <1> HIDE DEF n, b
  <1>2. f \in Seq(Nat) /\ Len(f) = n
    BY <1>1
  <1>3. \A i \in 1 .. n : rx[s][i] = f[i]
    BY <1>1
  <1> HIDE DEF f
  <1>4. rx[s] = f
    BY <1>1, <1>2, <1>3
  <1>5. QED
    BY <1>4 DEF f, n, b

(* the slots in use lie between head and tail *)
LEMMA QueuedBetween ==
    ASSUME NEW s \in Socks
    PROVE  Queued(s) = Between(accept_head[s], accept_tail[s])
  BY DEF Queued, Between

(* sockets are numbered, and NULL is none of them *)
LEMMA Ids ==
    /\ Live \subseteq Socks /\ Socks \subseteq Nat /\ NULL \notin Socks
  BY SocketConstants DEF Live, Socks, NULL

(* the invariant holds before the first call *)
LEMMA InitIInv == Init => IInv
  <1> SUFFICES ASSUME Init PROVE IInv
    OBVIOUS
  <1>1. Live = {}
    BY DEF Init, Live
  <1>2. 0 \in Slots
    BY SocketConstants DEF Slots
  <1>3. Shapes
    <2>1. /\ owner \in [Socks -> Procs \cup {NULL}]
          /\ path \in [Socks -> Paths \cup {NULL}]
          /\ peer \in [Socks -> Socks \cup {NULL}]
          /\ rx \in [Socks -> Seq(Nat)]
      BY DEF Init
    <2>2. /\ accept_queue \in [Socks -> [Slots -> Socks \cup {NULL}]]
          /\ accept_head \in [Socks -> Slots] /\ accept_tail \in [Socks -> Slots]
          /\ sent \in [Socks -> Nat] /\ received \in [Socks -> Nat]
      BY <1>2 DEF Init, Slots
    <2>3. QED
      BY <2>1, <2>2 DEF Shapes
  <1>4. Streams
    <2> SUFFICES ASSUME NEW s \in Socks
                 PROVE  /\ received[s] <= sent[s]
                        /\ Len(rx[s]) = sent[s] - received[s]
                        /\ \A i \in 1 .. Len(rx[s]) : rx[s][i] = received[s] + i
      BY DEF Streams
    <2>1. rx[s] = <<>> /\ sent[s] = 0 /\ received[s] = 0
      BY DEF Init
    <2>2. Len(rx[s]) = 0
      BY <2>1
    <2>3. QED
      BY <2>1, <2>2
  <1>5. FieldsOK
    <2>1. created \in 0 .. MaxSock
      BY SocketConstants DEF Init
    <2>2. /\ panic \in BOOLEAN /\ bound_sockets \in SUBSET Socks
          /\ state \in [Socks -> {"none", "unbound", "bound", "listening", "connected", "freed"}]
          /\ pc \in [Procs -> {"run", "connect", "accept", "read", "write", "dead"}]
          /\ sock \in [Procs -> Socks \cup {NULL}]
      BY Zenon DEF Init
    <2>3. left \in [Procs -> 0 .. MaxBytes]
      BY SocketConstants DEF Init
    <2>4. ASSUME NEW s \in Socks
          PROVE  /\ owner[s] \in Procs \cup {NULL} /\ path[s] \in Paths \cup {NULL}
                 /\ peer[s] \in Socks \cup {NULL} /\ Len(rx[s]) <= Capacity
                 /\ accept_head[s] \in 0 .. QueueLen - 1
                 /\ accept_tail[s] \in 0 .. QueueLen - 1
      <3>1. Len(rx[s]) = 0
        BY DEF Init
      <3>2. QED
        BY <1>3, <3>1, SocketConstants DEF Shapes, Slots
    <2>5. QED
      BY <2>1, <2>2, <2>3, <2>4 DEF FieldsOK
  <1>6. Fresh
    BY Ids DEF Init, Fresh, Socks
  <1>7. Waiting
    BY DEF Init, Waiting
  <1>8. Peers /\ Table /\ Entries /\ EntriesOnce
    BY <1>1 DEF Init, Peers, Table, Entries, EntriesOnce
  <1>9. QED
    BY <1>3, <1>4, <1>5, <1>6, <1>7, <1>8 DEF IInv

-----------------------------------------------------------------------------
(* What an action may leave to these lemmas. *)

(* the types, from the shapes and what else FieldsOK says *)
LEMMA Typed ==
    ASSUME Shapes', created' \in 0 .. MaxSock, panic' \in BOOLEAN,
           bound_sockets' \in SUBSET Socks,
           state' \in [Socks -> {"none", "unbound", "bound", "listening", "connected", "freed"}],
           \A s \in Socks : Len(rx'[s]) <= Capacity,
           pc' \in [Procs -> {"run", "connect", "accept", "read", "write", "dead"}],
           sock' \in [Procs -> Socks \cup {NULL}], left' \in [Procs -> 0 .. MaxBytes]
    PROVE  FieldsOK'
  BY DEF FieldsOK, Shapes, Slots

(* a process that is not in connect has none of its sockets in a queue *)
LEMMA NotQueued ==
    ASSUME IInv, NEW p \in Procs, pc[p] \notin {"connect", "dead"}, NEW s \in Socks,
           owner[s] = p, NEW l \in Live, NEW i \in Queued(l)
    PROVE  accept_queue[l][i] # s
  <1> SUFFICES ASSUME accept_queue[l][i] = s PROVE FALSE
    OBVIOUS
  <1>1. PICK q \in Procs : sock[q] = s /\ pc[q] \in {"connect", "dead"}
    BY DEF IInv, Entries
  <1>2. owner[s] = q
    BY <1>1, Ids DEF IInv, Waiting
  <1>3. QED
    BY <1>1, <1>2

(* what the invariant says of one entry *)
LEMMA EntryOf ==
    ASSUME IInv, NEW l \in Live, NEW i \in Queued(l)
    PROVE  /\ accept_queue[l][i] \in Live /\ state[accept_queue[l][i]] = "unbound"
           /\ \E p \in Procs : sock[p] = accept_queue[l][i] /\ pc[p] \in {"connect", "dead"}
  BY DEF IInv, Entries

(* and of one socket that is not created yet *)
LEMMA FreshOf ==
    ASSUME IInv, NEW s \in Socks
    PROVE  /\ state[s] = "none" <=> s > created
           /\ state[s] = "none" => /\ peer[s] = NULL /\ rx[s] = <<>>
                                   /\ accept_head[s] = 0 /\ accept_tail[s] = 0
                                   /\ sent[s] = 0 /\ received[s] = 0
  BY DEF IInv, Fresh

(* no queue gains an entry, and the entries that stay are as good as before *)
LEMMA QueuesKept ==
    ASSUME IInv,
           \A l \in Live' : \A i \in Queued(l)' :
               /\ l \in Live /\ i \in Queued(l) /\ accept_queue'[l][i] = accept_queue[l][i]
               /\ accept_queue[l][i] \in Live' /\ state'[accept_queue[l][i]] = "unbound"
               /\ \E p \in Procs : sock'[p] = accept_queue[l][i] /\ pc'[p] \in {"connect", "dead"}
    PROVE  Entries' /\ EntriesOnce'
  <1>1. Entries'
    BY DEF Entries
  <1>2. EntriesOnce'
    BY DEF IInv, EntriesOnce
  <1>3. QED
    BY <1>1, <1>2

(* the sockets and the streams are left alone *)
LEMMA SocketsKept ==
    ASSUME IInv, UNCHANGED <<created, sock_vars>>
    PROVE  Live' = Live /\ Peers' /\ Table' /\ (\A s \in Socks : Queued(s)' = Queued(s))
  <1>1. Live' = Live
    BY DEF Live, sock_vars
  <1>2. Peers' /\ Table'
    BY <1>1 DEF IInv, Peers, Table, sock_vars
  <1>3. \A s \in Socks : Queued(s)' = Queued(s)
    BY DEF Queued, sock_vars
  <1>4. QED
    BY <1>1, <1>2, <1>3

(* what the invariant says of the data, for the actions that change nothing else *)
DataOK ==
    /\ rx \in [Socks -> Seq(Nat)] /\ sent \in [Socks -> Nat] /\ received \in [Socks -> Nat]
    /\ \A s \in Socks : Len(rx[s]) <= Capacity
    /\ \A s \in Socks : state[s] = "none" => rx[s] = <<>> /\ sent[s] = 0 /\ received[s] = 0
    /\ Streams

(* it follows from the invariant *)
LEMMA DataHolds == IInv => DataOK
  BY DEF IInv, FieldsOK, Shapes, Fresh, DataOK

(* and stays when no receive buffer changes *)
LEMMA DataKept ==
    ASSUME IInv, UNCHANGED <<state, data_vars>>
    PROVE  DataOK'
  <1>1. DataOK
    BY DataHolds
  <1>2. QED
    BY <1>1 DEF DataOK, Streams, data_vars

(* A step of a call that changes no socket but perhaps a receive buffer: the *)
(* process goes on, or waits on a socket of its own.  A client whose socket  *)
(* is still in a queue does neither.                                         *)
LEMMA CallStep ==
    ASSUME IInv, NEW p \in Procs, UNCHANGED <<created, sock_vars>>, DataOK',
           NEW at \in {"run", "connect", "accept", "read", "write", "dead"},
           NEW x \in Live \cup {NULL}, Block(p, at, x),
           x # NULL => at # "run" /\ owner[x] = p,
           at \in {"connect", "accept", "read", "write"} => x # NULL,
           left' \in [Procs -> 0 .. MaxBytes], panic' \in BOOLEAN,
           \/ pc[p] \notin {"connect", "dead"}
           \/ at = "dead" /\ x = sock[p]
           \/ sock[p] \in Live /\ state[sock[p]] # "unbound"
    PROVE  IInv'
  <1>1. Live' = Live /\ Peers' /\ Table' /\ \A s \in Socks : Queued(s)' = Queued(s)
    BY SocketsKept
  <1>2. /\ pc' = [pc EXCEPT ![p] = at] /\ sock' = [sock EXCEPT ![p] = x]
        /\ pc \in [Procs -> {"run", "connect", "accept", "read", "write", "dead"}]
        /\ sock \in [Procs -> Socks \cup {NULL}]
    BY DEF Block, IInv, FieldsOK
  <1>3. /\ pc'[p] = at /\ sock'[p] = x
        /\ \A q \in Procs \ {p} : pc'[q] = pc[q] /\ sock'[q] = sock[q]
    BY <1>2
  <1>4. Shapes'
    BY DEF IInv, Shapes, DataOK, sock_vars
  <1>5. FieldsOK'
    <2>1. /\ pc' \in [Procs -> {"run", "connect", "accept", "read", "write", "dead"}]
          /\ sock' \in [Procs -> Socks \cup {NULL}]
      BY <1>2, Ids
    <2>2. /\ created' \in 0 .. MaxSock /\ bound_sockets' \in SUBSET Socks
          /\ state' \in [Socks -> {"none", "unbound", "bound", "listening", "connected", "freed"}]
      BY DEF IInv, FieldsOK, sock_vars
    <2>3. \A s \in Socks : Len(rx'[s]) <= Capacity
      BY DEF DataOK
    <2>4. QED
      BY <1>4, <2>1, <2>2, <2>3, Typed
  <1>6. Fresh'
    BY DEF IInv, Fresh, DataOK, sock_vars
  <1>7. Waiting'
    BY <1>1, <1>3 DEF IInv, Waiting, sock_vars
  <1>8. Entries' /\ EntriesOnce'
    <2> SUFFICES ASSUME NEW l \in Live, NEW i \in Queued(l)
                 PROVE  /\ accept_queue[l][i] \in Live /\ state[accept_queue[l][i]] = "unbound"
                        /\ \E q \in Procs : /\ sock'[q] = accept_queue[l][i]
                                            /\ pc'[q] \in {"connect", "dead"}
      BY <1>1, Ids, QueuesKept DEF sock_vars
    <2>1. /\ accept_queue[l][i] \in Live /\ state[accept_queue[l][i]] = "unbound"
          /\ \E q \in Procs : sock[q] = accept_queue[l][i] /\ pc[q] \in {"connect", "dead"}
      BY DEF IInv, Entries
    <2>2. PICK q \in Procs : sock[q] = accept_queue[l][i] /\ pc[q] \in {"connect", "dead"}
      BY <2>1
    <2>3. sock'[q] = sock[q] /\ pc'[q] \in {"connect", "dead"}
      BY <1>3, <2>1, <2>2, Zenon
    <2>4. QED
      BY <2>1, <2>2, <2>3, Zenon
  <1>9. Streams'
    BY DEF DataOK
  <1>10. QED
    BY <1>1, <1>4, <1>5, <1>6, <1>7, <1>8, <1>9, Zenon DEF IInv

(* a client finds itself connected *)
LEMMA ConnectLoopKeeps ==
    ASSUME IInv, NEW p \in Procs, ConnectLoop(p)
    PROVE  IInv'
  <1>1. /\ pc[p] = "connect" /\ state[sock[p]] # "unbound" /\ Block(p, "run", NULL)
        /\ UNCHANGED <<created, sock_vars, data_vars, left, panic>>
    BY DEF ConnectLoop, Waits, Return
  <1>2. sock[p] \in Live
    BY <1>1 DEF IInv, Waiting
  <1>3. DataOK'
    BY <1>1, DataKept DEF sock_vars
  <1>4. left' \in [Procs -> 0 .. MaxBytes] /\ panic' \in BOOLEAN
    BY <1>1 DEF IInv, FieldsOK
  <1>5. QED
    BY <1>1, <1>2, <1>3, <1>4, CallStep

(* accept or read find nothing and wait *)
LEMMA BlockKeeps ==
    ASSUME IInv, NEW p \in Procs, NEW s \in Socks, Calls(p, s),
           NEW at \in {"accept", "read"}, Block(p, at, s),
           UNCHANGED <<created, sock_vars, data_vars, left, panic>>
    PROVE  IInv'
  <1>1. pc[p] = "run" /\ s \in Live /\ owner[s] = p /\ s # NULL
    BY Ids DEF Calls, Owned
  <1>2. DataOK'
    BY DataKept DEF sock_vars
  <1>3. left' \in [Procs -> 0 .. MaxBytes] /\ panic' \in BOOLEAN
    BY DEF IInv, FieldsOK
  <1>4. QED
    BY <1>1, <1>2, <1>3, CallStep

(* a process dies, wherever it was *)
LEMMA ExitKeeps ==
    ASSUME IInv, NEW p \in Procs, Exit(p)
    PROVE  IInv'
  <1>1. /\ pc' = [pc EXCEPT ![p] = "dead"]
        /\ UNCHANGED <<created, sock_vars, data_vars, sock, left, panic>>
    BY DEF Exit
  <1>2. sock' = [sock EXCEPT ![p] = sock[p]] /\ sock[p] \in Live \cup {NULL}
    BY <1>1 DEF IInv, FieldsOK, Waiting
  <1>3. Block(p, "dead", sock[p]) /\ (sock[p] # NULL => owner[sock[p]] = p)
    BY <1>1, <1>2, Zenon DEF Block, IInv, Waiting
  <1>4. DataOK'
    BY <1>1, DataKept DEF sock_vars
  <1>5. left' \in [Procs -> 0 .. MaxBytes] /\ panic' \in BOOLEAN
    BY <1>1 DEF IInv, FieldsOK
  <1>6. QED
    BY <1>1, <1>2, <1>3, <1>4, <1>5, CallStep

-----------------------------------------------------------------------------
(* The stream. *)

(* consecutive bytes of a stream, the first one after position r *)
Run(b, r) == b \in Seq(Nat) /\ \A i \in 1 .. Len(b) : b[i] = r + i

(* reading takes bytes from the front *)
LEMMA RunRead ==
    ASSUME NEW b, NEW r \in Nat, Run(b, r), NEW n \in 0 .. Len(b)
    PROVE  /\ Run(SubSeq(b, n + 1, Len(b)), r + n)
           /\ Len(SubSeq(b, n + 1, Len(b))) = Len(b) - n
  <1> DEFINE c == SubSeq(b, n + 1, Len(b))
  <1>1. b \in Seq(Nat) /\ Len(b) \in Nat /\ n \in Nat /\ n <= Len(b)
    BY DEF Run
  <1>2. c \in Seq(Nat) /\ Len(c) = Len(b) - n
    BY <1>1
  <1>3. \A i \in 1 .. Len(b) - n : c[i] = b[n + 1 + i - 1]
    BY <1>1
  <1> HIDE DEF c
  <1>4. ASSUME NEW i \in 1 .. Len(c)
        PROVE  c[i] = (r + n) + i
    <2>1. i \in 1 .. Len(b) - n /\ n + 1 + i - 1 = n + i /\ n + i \in 1 .. Len(b)
      BY <1>1, <1>2
    <2>2. c[i] = b[n + i]
      BY <1>3, <2>1
    <2>3. b[n + i] = r + (n + i)
      BY <2>1 DEF Run
    <2>4. QED
      BY <1>1, <2>2, <2>3
  <1>5. QED
    BY <1>2, <1>4, Zenon DEF Run, c

(* writing adds the next ones at the end *)
LEMMA RunWrite ==
    ASSUME NEW b, NEW r \in Nat, Run(b, r), NEW f, Run(f, r + Len(b))
    PROVE  Run(b \o f, r) /\ Len(b \o f) = Len(b) + Len(f)
  <1> DEFINE c == b \o f
  <1>1. b \in Seq(Nat) /\ Len(b) \in Nat /\ f \in Seq(Nat) /\ Len(f) \in Nat
    BY DEF Run
  <1>2. /\ c \in Seq(Nat) /\ Len(c) = Len(b) + Len(f)
        /\ \A i \in 1 .. Len(b) + Len(f) : c[i] = IF i <= Len(b) THEN b[i] ELSE f[i - Len(b)]
    BY <1>1
  <1> HIDE DEF c
  <1>3. ASSUME NEW i \in 1 .. Len(c)
        PROVE  c[i] = r + i
    <2>1. i \in 1 .. Len(b) + Len(f) /\ i \in Nat
      BY <1>1, <1>2
    <2>2. CASE i <= Len(b)
      <3>1. i \in 1 .. Len(b)
        BY <1>1, <2>1, <2>2
      <3>2. c[i] = b[i]
        BY <1>2, <2>1, <2>2
      <3>3. QED
        BY <3>1, <3>2 DEF Run
    <2>3. CASE i > Len(b)
      <3> DEFINE k == i - Len(b)
      <3>1. k \in 1 .. Len(f)
        BY <1>1, <2>1, <2>3
      <3>2. c[i] = f[k]
        BY <1>1, <1>2, <2>1, <2>3
      <3>3. f[k] = (r + Len(b)) + k
        BY <3>1 DEF Run
      <3>4. QED
        BY <1>1, <2>1, <3>2, <3>3
    <2>4. QED
      BY <1>1, <2>1, <2>2, <2>3
  <1>4. QED
    BY <1>2, <1>3 DEF Run, c

(* so the receive buffer of one socket may change *)
LEMMA DataUpdate ==
    ASSUME IInv, UNCHANGED state, NEW s \in Live, NEW c, NEW e \in Nat, NEW r \in Nat,
           rx' = [rx EXCEPT ![s] = c], sent' = [sent EXCEPT ![s] = e],
           received' = [received EXCEPT ![s] = r],
           Run(c, r), Len(c) = e - r, Len(c) <= Capacity
    PROVE  DataOK'
  <1>1. DataOK /\ s \in Socks /\ state[s] # "none"
    BY DataHolds DEF Live
  <1>2. c \in Seq(Nat) /\ r <= e
    BY DEF Run
  <1>3. /\ rx' \in [Socks -> Seq(Nat)]
        /\ sent' \in [Socks -> Nat] /\ received' \in [Socks -> Nat]
    BY <1>1, <1>2 DEF DataOK
  <1>4. rx'[s] = c /\ sent'[s] = e /\ received'[s] = r
    BY <1>1 DEF DataOK
  <1>5. \A t \in Socks \ {s} : rx'[t] = rx[t] /\ sent'[t] = sent[t] /\ received'[t] = received[t]
    BY <1>1 DEF DataOK
  <1>6. Streams'
    <2> SUFFICES ASSUME NEW t \in Socks
                 PROVE  /\ received'[t] <= sent'[t]
                        /\ Len(rx'[t]) = sent'[t] - received'[t]
                        /\ \A i \in 1 .. Len(rx'[t]) : rx'[t][i] = received'[t] + i
      BY DEF Streams
    <2>1. CASE t = s
      BY <1>2, <1>4, <2>1 DEF Run
    <2>2. CASE t # s
      BY <1>1, <1>5, <2>2 DEF DataOK, Streams
    <2>3. QED
      BY <2>1, <2>2
  <1>7. \A t \in Socks : Len(rx'[t]) <= Capacity
    BY <1>1, <1>4, <1>5 DEF DataOK
  <1>8. \A t \in Socks : state[t] = "none" => rx'[t] = <<>> /\ sent'[t] = 0 /\ received'[t] = 0
    BY <1>1, <1>5 DEF DataOK
  <1>9. QED
    BY <1>3, <1>6, <1>7, <1>8 DEF DataOK

(* socket_read returns *)
LEMMA ReadKeeps ==
    ASSUME IInv, NEW p \in Procs, NEW s \in Live, pc[p] \in {"run", "read"}, ReadSome(p, s)
    PROVE  IInv'
  <1>1. Block(p, "run", NULL) /\ UNCHANGED <<created, sock_vars, sent, left, panic>>
    BY DEF ReadSome, Return
  <1>2. left' \in [Procs -> 0 .. MaxBytes] /\ panic' \in BOOLEAN
    BY <1>1 DEF IInv, FieldsOK
  <1>3. CASE UNCHANGED <<rx, received>>
    <2>1. DataOK'
      BY <1>1, <1>3, DataKept DEF sock_vars, data_vars
    <2>2. QED
      BY <1>1, <1>2, <2>1, CallStep
  <1>4. ASSUME NEW n \in 0 .. Len(rx[s]),
               rx' = [rx EXCEPT ![s] = SubSeq(@, n + 1, Len(@))],
               received' = [received EXCEPT ![s] = @ + n]
        PROVE  IInv'
    <2> DEFINE b == rx[s]
               r == received[s]
               c == SubSeq(b, n + 1, Len(b))
    <2>1. s \in Socks /\ DataOK
      BY DataHolds DEF Live
    <2>2. Run(b, r) /\ r \in Nat /\ sent[s] \in Nat /\ Len(b) = sent[s] - r
      BY <2>1 DEF DataOK, Streams, Run
    <2>3. Run(c, r + n) /\ Len(c) = Len(b) - n
      BY <1>4, <2>2, RunRead, Zenon
    <2>4. Len(b) <= Capacity /\ Len(b) \in Nat /\ n \in Nat /\ Capacity \in Nat
      BY <1>4, <2>1, SocketConstants DEF DataOK
    <2>5. /\ rx' = [rx EXCEPT ![s] = c] /\ received' = [received EXCEPT ![s] = r + n]
          /\ sent' = [sent EXCEPT ![s] = sent[s]] /\ state' = state
      BY <1>1, <1>4, <2>1 DEF DataOK, sock_vars
    <2> HIDE DEF b, c, r
    <2>6. Len(c) = sent[s] - (r + n) /\ Len(c) <= Capacity /\ r + n \in Nat
      BY <2>2, <2>3, <2>4
    <2>7. DataOK'
      BY <2>2, <2>3, <2>5, <2>6, DataUpdate, Zenon
    <2>8. QED
      BY <1>1, <1>2, <2>7, CallStep
  <1>5. QED
    BY <1>3, <1>4 DEF ReadSome

(* socket_write sends what there is room for: the ring buffer drops nothing *)
LEMMA WriteKeeps ==
    ASSUME IInv, NEW p \in Procs, NEW s \in Live, owner[s] = p, peer[s] # NULL,
           pc[p] \in {"run", "write"}, NEW n \in 0 .. MaxBytes, WriteSome(p, s, n)
    PROVE  IInv'
  <1> DEFINE to == peer[s]
             w == Least(n, Room(to))
             b == rx[to]
             f == [i \in 1 .. w |-> sent[to] + i]
             c == b \o f
             r == received[to]
             e == sent[to]
  <1>1. /\ rx' = [rx EXCEPT ![to] = Appended(to, w)]
        /\ sent' = [sent EXCEPT ![to] = @ + w]
        /\ left' = [left EXCEPT ![p] = n - w]
        /\ IF w = n THEN Return(p) ELSE Block(p, "write", s)
        /\ UNCHANGED <<created, sock_vars, received, panic>>
    BY DEF WriteSome
  <1>2. to \in Live /\ to \in Socks /\ s # NULL
    BY Ids DEF IInv, Peers
  <1>3. DataOK
    BY DataHolds
  <1>4. /\ Run(b, r) /\ r \in Nat /\ e \in Nat /\ Len(b) = e - r
        /\ Len(b) <= Capacity /\ b \in Seq(Nat)
    BY <1>2, <1>3, Zenon DEF DataOK, Streams, Run
  <1>5. /\ w \in Nat /\ w <= n /\ w <= Capacity - Len(b) /\ Len(b) \in Nat
        /\ n \in Nat /\ n <= MaxBytes
    BY <1>4, SocketConstants DEF Least, Room
  <1>6. Run(c, r) /\ Len(c) = Len(b) + w
    <2> HIDE DEF b, r, e, w
    <2>1. e = r + Len(b)
      BY <1>4
    <2>2. f \in Seq(Nat) /\ Len(f) = w /\ \A i \in 1 .. w : f[i] = e + i
      BY <1>4, <1>5 DEF e
    <2> HIDE DEF f
    <2>3. Run(f, r + Len(b))
      BY <2>1, <2>2 DEF Run
    <2>4. QED
      BY <1>4, <2>2, <2>3, RunWrite, Zenon
  <1>7. Appended(to, w) = c
    <2>1. Appended(to, w) = SubSeq(c, Len(c) - Least(Capacity, Len(c)) + 1, Len(c))
      BY DEF Appended
    <2> HIDE DEF b, w, c
    <2>2. Len(c) \in Nat /\ Len(c) <= Capacity /\ Capacity \in Nat
      BY <1>5, <1>6, SocketConstants
    <2>3. Least(Capacity, Len(c)) = Len(c)
      BY <2>2 DEF Least
    <2>4. Len(c) - Least(Capacity, Len(c)) + 1 = 1
      BY <2>2, <2>3
    <2>5. SubSeq(c, 1, Len(c)) = c
      BY <1>6 DEF Run
    <2>6. QED
      BY <2>1, <2>4, <2>5
  <1>8. /\ rx' = [rx EXCEPT ![to] = c] /\ sent' = [sent EXCEPT ![to] = e + w]
        /\ received' = [received EXCEPT ![to] = r] /\ state' = state
    BY <1>1, <1>2, <1>3, <1>7, Zenon DEF DataOK, sock_vars
  <1>9. DataOK'
    <2> HIDE DEF b, c, r, e, w, f, to
    <2>1. e + w \in Nat /\ Len(c) = (e + w) - r /\ Len(c) <= Capacity
      <3>1. /\ r \in Nat /\ e \in Nat /\ w \in Nat /\ Len(b) = e - r /\ Len(c) = Len(b) + w
            /\ Len(b) \in Nat /\ Capacity \in Nat /\ w <= Capacity - Len(b)
        BY <1>4, <1>5, <1>6, SocketConstants
      <3>2. QED
        BY <3>1
    <2>2. QED
      BY <1>2, <1>4, <1>6, <1>8, <2>1, DataUpdate, Zenon
  <1>10. left' \in [Procs -> 0 .. MaxBytes] /\ panic' \in BOOLEAN
    <2> HIDE DEF w
    <2>1. n - w \in 0 .. MaxBytes
      BY <1>5, SocketConstants
    <2>2. QED
      BY <1>1, <2>1, Zenon DEF IInv, FieldsOK
  <1> HIDE DEF w
  <1>11. CASE w = n
    BY <1>1, <1>9, <1>10, <1>11, CallStep, Zenon DEF Return
  <1>12. CASE w # n
    BY <1>1, <1>2, <1>9, <1>10, <1>12, CallStep, Zenon
  <1>13. QED
    BY <1>11, <1>12

(* a waiting writer: goes on, or finds that its peer has gone *)
LEMMA WriteLoopKeeps ==
    ASSUME IInv, NEW p \in Procs, WriteLoop(p)
    PROVE  IInv'
  <1>1. pc[p] = "write" /\ sock[p] \in Live /\ owner[sock[p]] = p
    BY DEF WriteLoop, Waits, IInv, Waiting
  <1>2. CASE /\ panic' = TRUE
             /\ UNCHANGED <<created, sock_vars, data_vars, proc_vars>>
    <2>1. Block(p, "write", sock[p])
      BY <1>1, <1>2 DEF Block, proc_vars, IInv, FieldsOK
    <2>2. DataOK'
      BY <1>2, DataKept, Zenon DEF sock_vars
    <2>3. left' \in [Procs -> 0 .. MaxBytes] /\ panic' \in BOOLEAN
      BY <1>2 DEF IInv, FieldsOK, proc_vars
    <2>4. sock[p] # NULL
      BY <1>1, Ids, Zenon
    <2>5. QED
      BY <1>1, <1>2, <2>1, <2>2, <2>3, <2>4, CallStep
  <1>3. CASE peer[sock[p]] # NULL /\ WriteSome(p, sock[p], left[p])
    <2>1. left[p] \in 0 .. MaxBytes
      BY DEF IInv, FieldsOK
    <2>2. QED
      BY <1>1, <1>3, <2>1, WriteKeeps
  <1>4. QED
    BY <1>2, <1>3, Zenon DEF WriteLoop

-----------------------------------------------------------------------------
(* The calls that change sockets. *)

(* a new socket is as Fresh says, and nothing refers to it *)
LEMMA SocketKeeps ==
    ASSUME IInv, NEW p \in Procs, sys_socket(p)
    PROVE  IInv'
  <1> DEFINE n == created + 1
  <1>1. /\ created < MaxSock /\ created' = n
        /\ owner' = [owner EXCEPT ![n] = p]
        /\ state' = [state EXCEPT ![n] = "unbound"]
        /\ UNCHANGED <<path, peer, accept_queue, accept_head, accept_tail, bound_sockets,
                       data_vars, proc_vars, panic>>
    BY DEF sys_socket
  <1>2. created \in Nat /\ n \in Socks /\ n > created /\ n \in Nat
    BY <1>1, SocketConstants DEF IInv, FieldsOK, Socks
  <1>3. state[n] = "none"
    BY <1>2, FreshOf
  <1> HIDE DEF n
  <1>4. Live' = Live \cup {n} /\ n \notin Live
    BY <1>1, <1>2, <1>3 DEF Live, IInv, FieldsOK
  <1>5. /\ peer[n] = NULL /\ rx[n] = <<>> /\ accept_head[n] = 0 /\ accept_tail[n] = 0
        /\ sent[n] = 0 /\ received[n] = 0
    BY <1>2, <1>3, FreshOf
  <1>6. Shapes'
    BY <1>1, Zenon DEF IInv, Shapes, data_vars
  <1>7. FieldsOK'
    <2>1. created' \in 0 .. MaxSock
      BY <1>1, <1>2, SocketConstants DEF n
    <2>2. QED
      BY <1>1, <1>6, <2>1, Typed, Zenon DEF IInv, FieldsOK, data_vars, proc_vars
  <1>8. Fresh'
    <2> SUFFICES ASSUME NEW s \in Socks
                 PROVE  /\ state'[s] = "none" <=> s > n
                        /\ state'[s] = "none" => /\ peer[s] = NULL /\ rx[s] = <<>>
                                                 /\ accept_head[s] = 0 /\ accept_tail[s] = 0
                                                 /\ sent[s] = 0 /\ received[s] = 0
      BY <1>1 DEF Fresh, data_vars
    <2>1. CASE s = n
      BY <1>1, <1>2, <2>1 DEF IInv, FieldsOK
    <2>2. CASE s # n
      <3>1. state'[s] = state[s]
        BY <1>1, <2>2 DEF IInv, FieldsOK
      <3>2. s > created <=> s > n
        BY <1>2, <2>2, Ids DEF n
      <3>3. QED
        BY <3>1, <3>2, FreshOf
    <2>3. QED
      BY <2>1, <2>2
  <1>9. \A s \in Live : state'[s] = state[s] /\ owner'[s] = owner[s]
    BY <1>1, <1>4, Ids, Zenon DEF IInv, FieldsOK, Shapes
  <1>10. Waiting'
    BY <1>1, <1>4, <1>9, Zenon DEF IInv, Waiting, proc_vars
  <1>11. Peers' /\ Table'
    BY <1>1, <1>4, <1>5, <1>9, Zenon DEF IInv, Peers, Table
  <1>12. Entries' /\ EntriesOnce'
    <2>1. \A l \in Socks : Queued(l)' = Queued(l)
      BY <1>1 DEF Queued
    <2>2. Queued(n) = {}
      BY <1>2, <1>5 DEF Queued
    <2>3. ASSUME NEW l \in Live', NEW i \in Queued(l)'
          PROVE  /\ l \in Live /\ i \in Queued(l) /\ accept_queue'[l][i] = accept_queue[l][i]
                 /\ accept_queue[l][i] \in Live' /\ state'[accept_queue[l][i]] = "unbound"
                 /\ \E q \in Procs : /\ sock'[q] = accept_queue[l][i]
                                     /\ pc'[q] \in {"connect", "dead"}
      <3>1. l \in Live /\ i \in Queued(l)
        BY <1>2, <1>4, <2>1, <2>2, Ids, Zenon
      <3>2. QED
        <4>1. accept_queue[l][i] \in Live /\ state[accept_queue[l][i]] = "unbound"
          BY <3>1, EntryOf
        <4>2. pc' = pc /\ sock' = sock /\ accept_queue' = accept_queue
          BY <1>1 DEF proc_vars
        <4>3. \E q \in Procs : sock'[q] = accept_queue[l][i] /\ pc'[q] \in {"connect", "dead"}
          BY <3>1, <4>2, EntryOf
        <4>4. QED
          BY <1>4, <1>9, <3>1, <4>1, <4>2, <4>3
    <2>4. QED
      BY <2>3, QueuesKept
  <1>13. Streams'
    BY <1>1 DEF IInv, Streams, data_vars
  <1>14. QED
    BY <1>6, <1>7, <1>8, <1>10, <1>11, <1>12, <1>13 DEF IInv

(* bind and listen: the state of a live socket of the caller changes *)
LEMMA RestateKeeps ==
    ASSUME IInv, NEW p \in Procs, NEW s \in Socks, Calls(p, s), state[s] \in {"unbound", "bound"},
           NEW st \in {"bound", "listening"}, state' = [state EXCEPT ![s] = st],
           Shapes', Table', bound_sockets' \in SUBSET Socks,
           UNCHANGED <<created, owner, peer, accept_queue, accept_head, accept_tail, data_vars,
                       proc_vars, panic>>
    PROVE  IInv'
  <1>1. pc[p] = "run" /\ owner[s] = p /\ s \in Live
    BY DEF Calls, Owned
  <1>2. Live' = Live
    BY <1>1 DEF Live, IInv, FieldsOK
  <1>3. state'[s] = st /\ \A t \in Socks \ {s} : state'[t] = state[t]
    BY Zenon DEF IInv, FieldsOK
  <1>4. FieldsOK'
    BY Typed, Zenon DEF IInv, FieldsOK, data_vars, proc_vars
  <1>5. Fresh'
    BY <1>3 DEF IInv, Fresh, data_vars
  <1>6. Waiting'
    BY <1>2, Zenon DEF IInv, Waiting, proc_vars
  <1>7. Peers'
    BY <1>2, <1>3, Ids DEF IInv, Peers
  <1>8. Entries' /\ EntriesOnce'
    <2>1. ASSUME NEW l \in Live', NEW i \in Queued(l)'
          PROVE  /\ l \in Live /\ i \in Queued(l) /\ accept_queue'[l][i] = accept_queue[l][i]
                 /\ accept_queue[l][i] \in Live' /\ state'[accept_queue[l][i]] = "unbound"
                 /\ \E q \in Procs : /\ sock'[q] = accept_queue[l][i]
                                     /\ pc'[q] \in {"connect", "dead"}
      <3>1. l \in Live /\ i \in Queued(l)
        BY <1>2, Zenon DEF Queued
      <3>2. accept_queue[l][i] # s
        BY <1>1, <3>1, NotQueued
      <3>3. QED
        <4>1. pc' = pc /\ sock' = sock /\ accept_queue' = accept_queue
          BY DEF proc_vars
        <4>2. QED
          BY <1>2, <1>3, <3>1, <3>2, <4>1, Ids, EntryOf
    <2>2. QED
      BY <2>1, QueuesKept, Zenon
  <1>9. Streams'
    BY Zenon DEF IInv, Streams, data_vars
  <1>10. QED
    BY <1>4, <1>5, <1>6, <1>7, <1>8, <1>9, Zenon DEF IInv

(* bind adds one entry, under a path that no other has *)
LEMMA BindKeeps ==
    ASSUME IInv, NEW p \in Procs, NEW s \in Socks, NEW a \in Paths, sys_bind(p, s, a)
    PROVE  IInv'
  <1>1. /\ Calls(p, s) /\ state[s] = "unbound" /\ PathFree(a)
        /\ bound_sockets' = bound_sockets \cup {s}
        /\ path' = [path EXCEPT ![s] = a]
        /\ state' = [state EXCEPT ![s] = "bound"]
        /\ UNCHANGED <<created, owner, peer, accept_queue, accept_head, accept_tail, data_vars,
                       proc_vars, panic>>
    BY DEF sys_bind
  <1>2. s \in Live /\ Live' = Live
    BY <1>1 DEF Calls, Owned, Live, IInv, FieldsOK
  <1>3. Shapes'
    BY <1>1, Zenon DEF IInv, Shapes, data_vars
  <1>4. Table'
    BY <1>1, <1>2, Zenon DEF IInv, Shapes, Table, PathFree, Live
  <1>5. bound_sockets' \in SUBSET Socks
    BY <1>1 DEF IInv, FieldsOK
  <1>6. QED
    BY <1>1, <1>3, <1>4, <1>5, RestateKeeps, Zenon

(* listen only changes the state *)
LEMMA ListenKeeps ==
    ASSUME IInv, NEW p \in Procs, NEW s \in Socks, sys_listen(p, s)
    PROVE  IInv'
  <1>1. /\ Calls(p, s) /\ state[s] = "bound"
        /\ state' = [state EXCEPT ![s] = "listening"]
        /\ UNCHANGED <<created, owner, path, peer, accept_queue, accept_head, accept_tail,
                       bound_sockets, data_vars, proc_vars, panic>>
    BY DEF sys_listen
  <1>2. Live' = Live
    BY <1>1 DEF Live, IInv, FieldsOK
  <1>3. Shapes' /\ Table'
    BY <1>1, <1>2 DEF IInv, Shapes, Table, data_vars
  <1>4. bound_sockets' \in SUBSET Socks
    BY <1>1 DEF IInv, FieldsOK
  <1>5. QED
    BY <1>1, <1>3, <1>4, RestateKeeps, Zenon

(* the client enters a slot that was free, and is in no other slot *)
LEMMA ConnectKeeps ==
    ASSUME IInv, NEW p \in Procs, NEW s \in Socks, NEW a \in Paths, sys_connect(p, s, a)
    PROVE  IInv'
  <1>1. PICK l \in bound_sockets :
            /\ HasRoom(l)
            /\ accept_queue' = [accept_queue EXCEPT ![l][accept_tail[l]] = s]
            /\ accept_tail' = [accept_tail EXCEPT ![l] = NextSlot(@)]
    BY Zenon DEF sys_connect
  <1>2. /\ pc[p] = "run" /\ owner[s] = p /\ s \in Live /\ state[s] = "unbound"
        /\ pc' = [pc EXCEPT ![p] = "connect"] /\ sock' = [sock EXCEPT ![p] = s]
        /\ UNCHANGED <<created, owner, state, path, peer, accept_head, bound_sockets, data_vars,
                       left, panic>>
    BY DEF sys_connect, Calls, Owned, Block
  <1>3. l \in Live /\ l \in Socks /\ Live' = Live
    BY <1>2, Ids DEF IInv, Table, Live
  <1> DEFINE h == accept_head[l]
             t == accept_tail[l]
  <1>4. h \in Slots /\ t \in Slots /\ NextSlot(t) # h /\ NextSlot(t) \in Slots
    BY <1>1, <1>3, NextSlotWraps, Zenon DEF IInv, Shapes, HasRoom
  <1>5. Shapes'
    <2>1. accept_tail' \in [Socks -> Slots]
      BY <1>1, <1>3, <1>4, Zenon DEF IInv, Shapes
    <2>2. accept_queue' \in [Socks -> [Slots -> Socks \cup {NULL}]]
      BY <1>1, <1>3, <1>4 DEF IInv, Shapes
    <2>3. QED
      BY <1>2, <2>1, <2>2, Zenon DEF IInv, Shapes, data_vars
  <1>6. FieldsOK'
    <2>1. /\ pc' \in [Procs -> {"run", "connect", "accept", "read", "write", "dead"}]
          /\ sock' \in [Procs -> Socks \cup {NULL}]
      BY <1>2, Zenon DEF IInv, FieldsOK
    <2>2. QED
      BY <1>2, <1>5, <2>1, Typed, Zenon DEF IInv, FieldsOK, data_vars
  <1>7. /\ pc'[p] = "connect" /\ sock'[p] = s
        /\ \A q \in Procs \ {p} : pc'[q] = pc[q] /\ sock'[q] = sock[q]
    BY <1>2, Zenon DEF IInv, FieldsOK
  <1>8. Fresh'
    <2>1. state[l] # "none"
      BY <1>3 DEF Live
    <2>2. \A x \in Socks \ {l} : accept_tail'[x] = accept_tail[x]
      BY <1>1 DEF IInv, Shapes
    <2>3. QED
      BY <1>2, <2>1, <2>2, Zenon DEF IInv, Fresh, data_vars
  <1>9. Waiting'
    <2> SUFFICES ASSUME NEW q \in Procs
                 PROVE  /\ sock'[q] # NULL =>
                              pc'[q] # "run" /\ sock'[q] \in Live /\ owner[sock'[q]] = q
                        /\ pc'[q] \in {"connect", "accept", "read", "write"} => sock'[q] # NULL
      BY <1>2, <1>3, Zenon DEF Waiting
    <2>1. CASE q = p
      BY <1>2, <1>7, <2>1, Ids, Zenon
    <2>2. CASE q # p
      BY <1>7, <2>2, Zenon DEF IInv, Waiting
    <2>3. QED
      BY <2>1, <2>2, Zenon
  <1>10. Peers' /\ Table'
    BY <1>2, <1>3, Zenon DEF IInv, Peers, Table
  <1>11. ASSUME NEW m \in Live, NEW i \in Queued(m)'
         PROVE  \/ m = l /\ i = t /\ accept_queue'[m][i] = s
                \/ /\ i \in Queued(m) /\ accept_queue'[m][i] = accept_queue[m][i]
                   /\ accept_queue[m][i] # s
    <2>1. m \in Socks /\ accept_head[m] \in Slots /\ accept_tail[m] \in Slots
      BY Ids DEF IInv, Shapes
    <2>2. CASE m # l
      <3>1. accept_tail'[m] = accept_tail[m] /\ accept_queue'[m] = accept_queue[m]
        BY <1>1, <2>1, <2>2, Zenon DEF IInv, Shapes
      <3>2. i \in Queued(m)
        BY <1>2, <3>1, Zenon DEF Queued
      <3>3. QED
        BY <1>2, <3>1, <3>2, NotQueued, Zenon
    <2>3. CASE m = l
      <3>1. accept_tail'[l] = NextSlot(t) /\ accept_head'[l] = h
        BY <1>1, <1>2, <1>3 DEF IInv, Shapes
      <3>2. Queued(l)' = Between(h, NextSlot(t))
        BY <3>1, Zenon DEF Queued, Between
      <3>3. Queued(l)' = Queued(l) \cup {t} /\ t \notin Queued(l) /\ Queued(l) \subseteq Slots
        <4>1. Queued(l) = Between(h, t)
          BY <1>3, QueuedBetween
        <4>2. Between(h, NextSlot(t)) = Between(h, t) \cup {t} /\ t \notin Between(h, t)
          BY <1>4, Enqueued, Zenon
        <4>3. Between(h, t) \subseteq Slots
          BY <1>4, BetweenSlots
        <4>4. QED
          BY <3>2, <4>1, <4>2, <4>3
      <3>4. accept_queue'[l] = [accept_queue[l] EXCEPT ![t] = s]
            /\ accept_queue[l] \in [Slots -> Socks \cup {NULL}]
        BY <1>1, <1>3, Zenon DEF IInv, Shapes
      <3>5. CASE i = t
        BY <1>4, <2>3, <3>4, <3>5, Zenon
      <3>6. CASE i # t
        <4>1. i \in Queued(l) /\ i \in Slots
          BY <2>3, <3>3, <3>6
        <4>2. accept_queue'[l][i] = accept_queue[l][i]
          BY <3>4, <3>6, <4>1, Zenon
        <4>3. QED
          BY <1>2, <1>3, <2>3, <4>1, <4>2, NotQueued, Zenon
      <3>7. QED
        BY <3>5, <3>6, Zenon
    <2>4. QED
      BY <2>2, <2>3, Zenon
  <1>12. Entries'
    <2> SUFFICES ASSUME NEW m \in Live, NEW i \in Queued(m)'
                 PROVE  /\ accept_queue'[m][i] \in Live /\ state[accept_queue'[m][i]] = "unbound"
                        /\ \E q \in Procs : /\ sock'[q] = accept_queue'[m][i]
                                            /\ pc'[q] \in {"connect", "dead"}
      <3>1. state' = state
        BY <1>2
      <3>2. QED
        BY <1>3, <3>1 DEF Entries
    <2>1. CASE accept_queue'[m][i] = s
      BY <1>2, <1>7, <2>1, Zenon
    <2>2. CASE accept_queue'[m][i] # s
      <3>1. i \in Queued(m) /\ accept_queue'[m][i] = accept_queue[m][i]
        BY <1>11, <2>2
      <3>2. PICK q \in Procs : sock[q] = accept_queue[m][i] /\ pc[q] \in {"connect", "dead"}
        BY <3>1, EntryOf
      <3>3. q # p
        BY <1>2, <3>2, Zenon
      <3>4. QED
        BY <1>7, <3>1, <3>2, <3>3, EntryOf
    <2>3. QED
      BY <2>1, <2>2, Zenon
  <1>13. EntriesOnce'
    <2> SUFFICES ASSUME NEW m \in Live, NEW k \in Live, NEW i \in Queued(m)', NEW j \in Queued(k)',
                        accept_queue'[k][j] = accept_queue'[m][i]
                 PROVE  m = k /\ i = j
      BY <1>3 DEF EntriesOnce
    <2>1. CASE accept_queue'[m][i] = s
      BY <1>11, <2>1
    <2>2. CASE accept_queue'[m][i] # s
      <3>1. /\ i \in Queued(m) /\ accept_queue'[m][i] = accept_queue[m][i]
            /\ j \in Queued(k) /\ accept_queue'[k][j] = accept_queue[k][j]
        BY <1>11, <2>2, Zenon
      <3>2. QED
        BY <3>1, Zenon DEF IInv, EntriesOnce
    <2>3. QED
      BY <2>1, <2>2
  <1>14. Streams'
    BY <1>2, Zenon DEF IInv, Streams, data_vars
  <1>15. QED
    BY <1>5, <1>6, <1>8, <1>9, <1>10, <1>12, <1>13, <1>14, Zenon DEF IInv

-----------------------------------------------------------------------------
(* accept takes the oldest client out of the queue: every other entry stays, *)
(* and none of them is this client                                           *)
LEMMA Remaining ==
    ASSUME IInv, NEW s \in Live, accept_head[s] # accept_tail[s],
           accept_head' = [accept_head EXCEPT ![s] = NextSlot(@)],
           UNCHANGED <<accept_queue, accept_tail>>
    PROVE  /\ accept_head' \in [Socks -> Slots]
           /\ accept_head[s] \in Queued(s)
           /\ \A l \in Socks \ {s} : Queued(l)' = Queued(l)
           /\ Queued(s)' = Queued(s) \ {accept_head[s]}
           /\ \A l \in Live : \A i \in Queued(l)' :
                 /\ i \in Queued(l)
                 /\ accept_queue[l][i] # accept_queue[s][accept_head[s]]
  <1> DEFINE h == accept_head[s]
             t == accept_tail[s]
  <1>1. s \in Socks /\ h \in Slots /\ t \in Slots /\ NextSlot(h) \in Slots
    BY Ids, NextSlotWraps, Zenon DEF IInv, Shapes
  <1>2. accept_head' \in [Socks -> Slots]
    BY <1>1, Zenon DEF IInv, Shapes
  <1>3. \A l \in Socks \ {s} : Queued(l)' = Queued(l)
    BY <1>1, Zenon DEF IInv, Shapes, Queued
  <1>4. Queued(s)' = Between(NextSlot(h), t)
    <2>1. accept_head'[s] = NextSlot(h) /\ accept_tail'[s] = t
      BY <1>1 DEF IInv, Shapes
    <2>2. QED
      BY <2>1, Zenon DEF Queued, Between
  <1>5. Queued(s)' = Queued(s) \ {h} /\ h \in Queued(s)
    BY <1>1, <1>4, QueuedBetween, Dequeued
  <1>6. ASSUME NEW l \in Live, NEW i \in Queued(l)'
        PROVE  i \in Queued(l) /\ accept_queue[l][i] # accept_queue[s][h]
    <2>1. i \in Queued(l) /\ ~(l = s /\ i = h)
      BY <1>3, <1>5, Ids, Zenon
    <2>2. QED
      BY <1>5, <2>1 DEF IInv, EntriesOnce
  <1>7. QED
    BY <1>2, <1>3, <1>5, <1>6, Zenon

(* the caller goes on; everyone else waits as before *)
LEMMA ReturnKept ==
    ASSUME IInv, NEW p \in Procs, Return(p)
    PROVE  /\ pc' \in [Procs -> {"run", "connect", "accept", "read", "write", "dead"}]
           /\ sock' \in [Procs -> Socks \cup {NULL}]
           /\ pc'[p] = "run" /\ sock'[p] = NULL
           /\ \A q \in Procs \ {p} : pc'[q] = pc[q] /\ sock'[q] = sock[q]
  BY DEF IInv, FieldsOK, Return, Block

(* the client is lost when there is no memory or no descriptor for a socket *)
LEMMA DequeueFails ==
    ASSUME IInv, NEW p \in Procs, NEW s \in Live, pc[p] \notin {"connect", "dead"},
           Dequeue(p, s), UNCHANGED <<created, owner, state, peer>>
    PROVE  IInv'
  <1>1. /\ accept_head[s] # accept_tail[s]
        /\ accept_head' = [accept_head EXCEPT ![s] = NextSlot(@)]
        /\ Return(p)
        /\ UNCHANGED <<path, accept_queue, accept_tail, bound_sockets, data_vars, left, panic>>
    BY DEF Dequeue
  <1>2. Live' = Live /\ s \in Socks /\ state[s] # "none"
    BY Zenon DEF Live
  <1>3. /\ accept_head' \in [Socks -> Slots]
        /\ \A l \in Live : \A i \in Queued(l)' : i \in Queued(l)
    BY <1>1, Remaining, Zenon
  <1>4. /\ pc' \in [Procs -> {"run", "connect", "accept", "read", "write", "dead"}]
        /\ sock' \in [Procs -> Socks \cup {NULL}]
        /\ pc'[p] = "run" /\ sock'[p] = NULL
        /\ \A q \in Procs \ {p} : pc'[q] = pc[q] /\ sock'[q] = sock[q]
    BY <1>1, ReturnKept
  <1>5. Shapes'
    BY <1>1, <1>3 DEF IInv, Shapes, data_vars
  <1>6. FieldsOK'
    BY <1>1, <1>4, <1>5, Typed, Zenon DEF IInv, FieldsOK, data_vars
  <1>7. Fresh'
    <2>1. \A x \in Socks \ {s} : accept_head'[x] = accept_head[x]
      BY <1>1, Zenon DEF IInv, Shapes
    <2>2. QED
      BY <1>1, <1>2, <2>1, Zenon DEF IInv, Fresh, data_vars
  <1>8. Waiting'
    BY <1>2, <1>4 DEF IInv, Waiting
  <1>9. Peers' /\ Table'
    BY <1>1, <1>2, Zenon DEF IInv, Peers, Table
  <1>10. Entries' /\ EntriesOnce'
    <2>1. ASSUME NEW l \in Live', NEW i \in Queued(l)'
          PROVE  /\ l \in Live /\ i \in Queued(l) /\ accept_queue'[l][i] = accept_queue[l][i]
                 /\ accept_queue[l][i] \in Live' /\ state'[accept_queue[l][i]] = "unbound"
                 /\ \E q \in Procs : /\ sock'[q] = accept_queue[l][i]
                                     /\ pc'[q] \in {"connect", "dead"}
      <3>1. l \in Live /\ i \in Queued(l) /\ accept_queue' = accept_queue /\ state' = state
        BY <1>1, <1>2, <1>3
      <3>2. accept_queue[l][i] \in Live /\ state[accept_queue[l][i]] = "unbound"
        BY <3>1, EntryOf
      <3>3. \E q \in Procs : sock'[q] = accept_queue[l][i] /\ pc'[q] \in {"connect", "dead"}
        BY <1>4, <3>1, EntryOf
      <3>4. QED
        BY <1>2, <3>1, <3>2, <3>3
    <2>2. QED
      BY <2>1, QueuesKept, Zenon
  <1>11. Streams'
    BY <1>1, Zenon DEF IInv, Streams, data_vars
  <1>12. QED
    BY <1>5, <1>6, <1>7, <1>8, <1>9, <1>10, <1>11, Zenon DEF IInv

(* the client and a new socket become each other's peer *)
LEMMA DequeueServes ==
    ASSUME IInv, NEW p \in Procs, NEW s \in Live, pc[p] \notin {"connect", "dead"},
           Dequeue(p, s), ~UNCHANGED <<created, owner, state, peer>>
    PROVE  IInv'
  <1> DEFINE c == accept_queue[s][accept_head[s]]
             n == created + 1
  <1>1. /\ accept_head[s] # accept_tail[s]
        /\ accept_head' = [accept_head EXCEPT ![s] = NextSlot(@)]
        /\ n <= MaxSock /\ created' = n
        /\ owner' = [owner EXCEPT ![n] = p]
        /\ state' = [state EXCEPT ![n] = "connected", ![c] = "connected"]
        /\ peer' = [peer EXCEPT ![n] = c, ![c] = n]
        /\ Return(p)
        /\ UNCHANGED <<path, accept_queue, accept_tail, bound_sockets, data_vars, left, panic>>
    BY Zenon DEF Dequeue, Joined
  <1>2. created \in Nat /\ n \in Socks /\ n > created /\ n \in Nat /\ n \in 0 .. MaxSock
    <2>1. created \in 0 .. MaxSock
      BY DEF IInv, FieldsOK
    <2>2. QED
      BY <1>1, <2>1, SocketConstants DEF Socks
  <1>3. state[n] = "none" /\ peer[n] = NULL /\ accept_head[n] = 0 /\ accept_tail[n] = 0
    BY <1>2, FreshOf
  <1>4. \A x \in Socks \ {n} : x > created <=> x > n
    BY <1>2, Ids
  <1> HIDE DEF n
  <1>5. /\ accept_head' \in [Socks -> Slots]
        /\ accept_head[s] \in Queued(s)
        /\ \A l \in Socks \ {s} : Queued(l)' = Queued(l)
        /\ \A l \in Live : \A i \in Queued(l)' : i \in Queued(l) /\ accept_queue[l][i] # c
    BY <1>1, Remaining, Zenon
  <1>6. c \in Live /\ state[c] = "unbound"
    BY <1>5, EntryOf
  <1> HIDE DEF c
  <1>7. c \in Socks /\ s \in Socks /\ n \notin Live /\ c # n /\ s # n /\ peer[c] = NULL
        /\ state[s] # "none" /\ state[c] # "none"
    BY <1>3, <1>6, Ids, Zenon DEF Live, IInv, Peers
  <1>8. /\ state'[n] = "connected" /\ state'[c] = "connected"
        /\ \A x \in Socks \ {n, c} : state'[x] = state[x]
        /\ state' \in [Socks -> {"none", "unbound", "bound", "listening", "connected", "freed"}]
    BY <1>1, <1>2, <1>7, Zenon DEF IInv, FieldsOK
  <1>9. /\ peer'[n] = c /\ peer'[c] = n /\ \A x \in Socks \ {n, c} : peer'[x] = peer[x]
        /\ peer' \in [Socks -> Socks \cup {NULL}]
    BY <1>1, <1>2, <1>7, Zenon DEF IInv, Shapes
  <1>10. /\ owner'[n] = p /\ \A x \in Socks \ {n} : owner'[x] = owner[x]
         /\ owner' \in [Socks -> Procs \cup {NULL}]
    BY <1>1, <1>2 DEF IInv, Shapes
  <1>11. Live' = Live \cup {n}
    BY <1>2, <1>6, <1>8, Zenon DEF Live
  <1>12. /\ pc' \in [Procs -> {"run", "connect", "accept", "read", "write", "dead"}]
         /\ sock' \in [Procs -> Socks \cup {NULL}]
         /\ pc'[p] = "run" /\ sock'[p] = NULL
         /\ \A q \in Procs \ {p} : pc'[q] = pc[q] /\ sock'[q] = sock[q]
    BY <1>1, ReturnKept
  <1>13. Shapes'
    BY <1>1, <1>5, <1>9, <1>10, Zenon DEF IInv, Shapes, data_vars
  <1>14. FieldsOK'
    BY <1>1, <1>2, <1>8, <1>12, <1>13, Typed, Zenon DEF IInv, FieldsOK, data_vars
  <1>15. Fresh'
    <2>1. \A x \in Socks \ {s} : accept_head'[x] = accept_head[x]
      BY <1>1, Zenon DEF IInv, Shapes
    <2> SUFFICES ASSUME NEW x \in Socks
                 PROVE  /\ state'[x] = "none" <=> x > n
                        /\ state'[x] = "none" => /\ peer'[x] = NULL /\ rx[x] = <<>>
                                                 /\ accept_head'[x] = 0 /\ accept_tail[x] = 0
                                                 /\ sent[x] = 0 /\ received[x] = 0
      BY <1>1, Zenon DEF Fresh, data_vars
    <2>2. CASE x = n
      <3>1. ~(n > n)
        BY <1>2
      <3>2. QED
        BY <1>8, <2>2, <3>1
    <2>3. CASE x = c
      <3>1. ~(x > n)
        BY <1>4, <1>7, <2>3, FreshOf
      <3>2. QED
        BY <1>8, <2>3, <3>1
    <2>4. CASE x # n /\ x # c
      <3>1. state'[x] = state[x] /\ peer'[x] = peer[x] /\ (x > created <=> x > n)
        BY <1>4, <1>8, <1>9, <2>4
      <3>2. state[x] = "none" => x # s
        BY <1>7
      <3>3. QED
        BY <2>1, <3>1, <3>2, FreshOf
    <2>5. QED
      BY <2>2, <2>3, <2>4, Zenon
  <1>16. Waiting'
    <2>1. \A x \in Live : x \in Live' /\ owner'[x] = owner[x]
      BY <1>7, <1>10, <1>11, Ids, Zenon
    <2>2. QED
      <3>1. ASSUME NEW q \in Procs
            PROVE  /\ sock'[q] # NULL =>
                         pc'[q] # "run" /\ sock'[q] \in Live' /\ owner'[sock'[q]] = q
                   /\ pc'[q] \in {"connect", "accept", "read", "write"} => sock'[q] # NULL
        <4>1. CASE q = p
          BY <1>12, <4>1
        <4>2. CASE q # p
          BY <1>12, <2>1, <4>2 DEF IInv, Waiting
        <4>3. QED
          BY <4>1, <4>2
      <3>2. QED
        BY <3>1 DEF Waiting
  <1>17. Peers'
    <2> SUFFICES ASSUME NEW x \in Live', peer'[x] # NULL
                 PROVE  peer'[x] \in Live' /\ peer'[peer'[x]] = x /\ state'[x] = "connected"
      BY DEF Peers
    <2>1. CASE x = n \/ x = c
      BY <1>6, <1>8, <1>9, <1>11, <2>1, Zenon
    <2>2. CASE x # n /\ x # c
      <3>1. x \in Live /\ x \in Socks /\ peer'[x] = peer[x] /\ state'[x] = state[x]
        BY <1>8, <1>9, <1>11, <2>2, Ids, Zenon
      <3>2. peer[x] \in Live /\ peer[peer[x]] = x /\ state[x] = "connected"
        BY <3>1, Zenon DEF IInv, Peers
      <3>3. peer[x] # n /\ peer[x] # c /\ peer[x] \in Socks
        BY <1>7, <3>1, <3>2, Ids, Zenon
      <3>4. QED
        BY <1>9, <1>11, <3>1, <3>2, <3>3, Zenon
    <2>3. QED
      BY <2>1, <2>2, Zenon
  <1>18. Table'
    BY <1>1, <1>11 DEF IInv, Table
  <1>19. Entries' /\ EntriesOnce'
    <2>1. \A m \in Socks : m = n => Queued(m)' = {}
      <3> SUFFICES ASSUME NEW m \in Socks, m = n PROVE Queued(m)' = {}
        OBVIOUS
      <3>1. Queued(m) = {}
        BY <1>3 DEF Queued
      <3>2. QED
        BY <1>5, <1>7, <3>1
    <2>2. ASSUME NEW l \in Live', NEW i \in Queued(l)'
          PROVE  /\ l \in Live /\ i \in Queued(l) /\ accept_queue'[l][i] = accept_queue[l][i]
                 /\ accept_queue[l][i] \in Live' /\ state'[accept_queue[l][i]] = "unbound"
                 /\ \E q \in Procs : /\ sock'[q] = accept_queue[l][i]
                                     /\ pc'[q] \in {"connect", "dead"}
      <3>1. l \in Live
        BY <1>2, <1>11, <2>1, Zenon
      <3>2. i \in Queued(l) /\ accept_queue[l][i] # c
        BY <1>5, <3>1, Zenon
      <3>3. /\ accept_queue[l][i] \in Live /\ state[accept_queue[l][i]] = "unbound"
            /\ \E q \in Procs : sock[q] = accept_queue[l][i] /\ pc[q] \in {"connect", "dead"}
        BY <3>1, <3>2, EntryOf
      <3>4. state'[accept_queue[l][i]] = "unbound"
        BY <1>7, <1>8, <3>2, <3>3, Ids, Zenon
      <3>5. \E q \in Procs : sock'[q] = accept_queue[l][i] /\ pc'[q] \in {"connect", "dead"}
        BY <1>12, <3>3
      <3>6. QED
        BY <1>1, <1>11, <3>1, <3>2, <3>3, <3>4, <3>5, Zenon
    <2>3. QED
      BY <2>2, QueuesKept, Zenon
  <1>20. Streams'
    BY <1>1, Zenon DEF IInv, Streams, data_vars
  <1>21. QED
    BY <1>13, <1>14, <1>15, <1>16, <1>17, <1>18, <1>19, <1>20, Zenon DEF IInv

(* both outcomes of the dequeue *)
LEMMA DequeueKeeps ==
    ASSUME IInv, NEW p \in Procs, NEW s \in Live, pc[p] \notin {"connect", "dead"}, Dequeue(p, s)
    PROVE  IInv'
  BY DequeueFails, DequeueServes, Zenon

-----------------------------------------------------------------------------
(* No call waits on a socket its process closes, and it is in no queue; its  *)
(* peer forgets it.                                                          *)
LEMMA CloseKeeps ==
    ASSUME IInv, NEW p \in Procs, NEW s \in Socks, socket_close(p, s)
    PROVE  IInv'
  <1>1. pc[p] = "run" /\ owner[s] = p /\ s \in Live
    BY Zenon DEF socket_close, Calls, Owned
  <1>2. /\ state' = [state EXCEPT ![s] = "freed"]
        /\ peer' = IF peer[s] = NULL THEN peer
                   ELSE [peer EXCEPT ![peer[s]] = NULL, ![s] = NULL]
        /\ bound_sockets' = bound_sockets \ {s}
        /\ owner' = [owner EXCEPT ![s] = NULL]
        /\ path' = [path EXCEPT ![s] = NULL]
        /\ accept_queue' = [accept_queue EXCEPT ![s] = [i \in 0 .. QueueLen - 1 |-> NULL]]
        /\ accept_head' = [accept_head EXCEPT ![s] = 0]
        /\ accept_tail' = [accept_tail EXCEPT ![s] = 0]
        /\ rx' = [rx EXCEPT ![s] = <<>>]
        /\ sent' = [sent EXCEPT ![s] = 0] /\ received' = [received EXCEPT ![s] = 0]
        /\ UNCHANGED <<created, proc_vars, panic>>
    BY Zenon DEF socket_close, Unbound
  <1>3. /\ state'[s] = "freed" /\ \A x \in Socks \ {s} : state'[x] = state[x]
        /\ state' \in [Socks -> {"none", "unbound", "bound", "listening", "connected", "freed"}]
    BY <1>2 DEF IInv, FieldsOK
  <1>4. Live' = Live \ {s}
    BY <1>3, Zenon DEF Live
  <1>5. \A q \in Procs : sock[q] # s
    BY <1>1, Ids DEF IInv, Waiting
  <1>6. 0 \in Slots
    BY SocketConstants DEF Slots
  <1>7. Shapes'
    <2>1. owner' \in [Socks -> Procs \cup {NULL}] /\ path' \in [Socks -> Paths \cup {NULL}]
      BY <1>2, Zenon DEF IInv, Shapes
    <2>2. peer' \in [Socks -> Socks \cup {NULL}]
      BY <1>2, Zenon DEF IInv, Shapes
    <2>3. /\ accept_head' \in [Socks -> Slots] /\ accept_tail' \in [Socks -> Slots]
          /\ sent' \in [Socks -> Nat] /\ received' \in [Socks -> Nat]
      BY <1>2, <1>6 DEF IInv, Shapes
    <2>4. accept_queue' \in [Socks -> [Slots -> Socks \cup {NULL}]]
      <3>1. [i \in 0 .. QueueLen - 1 |-> NULL] \in [Slots -> Socks \cup {NULL}]
        BY Zenon DEF Slots
      <3>2. QED
        BY <1>2, <3>1 DEF IInv, Shapes
    <2>5. rx' \in [Socks -> Seq(Nat)]
      BY <1>2 DEF IInv, Shapes
    <2>6. QED
      BY <2>1, <2>2, <2>3, <2>4, <2>5, Zenon DEF Shapes
  <1>8. rx'[s] = <<>> /\ sent'[s] = 0 /\ received'[s] = 0
        /\ \A x \in Socks \ {s} : /\ rx'[x] = rx[x] /\ sent'[x] = sent[x]
                                  /\ received'[x] = received[x]
    BY <1>2, Zenon DEF IInv, Shapes
  <1>9. /\ accept_head'[s] = 0 /\ accept_tail'[s] = 0
        /\ \A x \in Socks \ {s} : /\ accept_head'[x] = accept_head[x]
                                  /\ accept_tail'[x] = accept_tail[x]
                                  /\ accept_queue'[x] = accept_queue[x]
                                  /\ owner'[x] = owner[x] /\ path'[x] = path[x]
    BY <1>2, Zenon DEF IInv, Shapes
  <1>10. /\ \A x \in Socks \ {s} : peer'[x] = IF x = peer[s] THEN NULL ELSE peer[x]
         /\ peer'[s] = NULL
    BY <1>2, Ids, Zenon DEF IInv, Shapes
  <1>11. FieldsOK'
    <2>1. bound_sockets' \in SUBSET Socks
      BY <1>2 DEF IInv, FieldsOK
    <2>2. \A x \in Socks : Len(rx'[x]) <= Capacity
      <3>1. Len(rx'[s]) = 0
        BY <1>8
      <3>2. QED
        <4>1. 0 <= Capacity /\ \A x \in Socks : Len(rx[x]) <= Capacity
          BY SocketConstants DEF IInv, FieldsOK
        <4>2. QED
          BY <1>8, <3>1, <4>1
    <2>3. QED
      BY <1>2, <1>3, <1>7, <2>1, <2>2, Typed, Zenon DEF IInv, FieldsOK, proc_vars
  <1>12. Fresh'
    <2> SUFFICES ASSUME NEW x \in Socks
                 PROVE  /\ state'[x] = "none" <=> x > created
                        /\ state'[x] = "none" => /\ peer'[x] = NULL /\ rx'[x] = <<>>
                                                 /\ accept_head'[x] = 0 /\ accept_tail'[x] = 0
                                                 /\ sent'[x] = 0 /\ received'[x] = 0
      BY <1>2, Zenon DEF Fresh
    <2>1. CASE x = s
      BY <1>1, <1>3, <2>1, Zenon DEF IInv, Fresh, Live
    <2>2. CASE x # s
      <3>1. /\ state'[x] = state[x] /\ rx'[x] = rx[x] /\ sent'[x] = sent[x]
            /\ received'[x] = received[x] /\ accept_head'[x] = accept_head[x]
            /\ accept_tail'[x] = accept_tail[x] /\ (peer[x] = NULL => peer'[x] = NULL)
        BY <1>3, <1>8, <1>9, <1>10, <2>2
      <3>2. QED
        BY <3>1, FreshOf
    <2>3. QED
      BY <2>1, <2>2
  <1>13. Waiting'
    <2> SUFFICES ASSUME NEW q \in Procs
                 PROVE  /\ sock[q] # NULL =>
                              pc[q] # "run" /\ sock[q] \in Live' /\ owner'[sock[q]] = q
                        /\ pc[q] \in {"connect", "accept", "read", "write"} => sock[q] # NULL
      BY <1>2 DEF Waiting, proc_vars
    <2>1. QED
      BY <1>4, <1>5, <1>9, Ids, Zenon DEF IInv, Waiting
  <1>14. Peers'
    <2> SUFFICES ASSUME NEW x \in Live', peer'[x] # NULL
                 PROVE  peer'[x] \in Live' /\ peer'[peer'[x]] = x /\ state'[x] = "connected"
      BY DEF Peers
    <2>1. x \in Live /\ x \in Socks /\ x # s
      BY <1>4, Ids, Zenon
    <2>2. x # peer[s] /\ peer'[x] = peer[x]
      BY <1>10, <2>1, Zenon
    <2>3. peer[x] \in Live /\ peer[peer[x]] = x /\ state[x] = "connected" /\ peer[x] \in Socks
      BY <2>1, <2>2, Ids, Zenon DEF IInv, Peers
    <2>4. peer[x] # s
      BY <2>2, <2>3
    <2>5. peer[x] # peer[s]
      BY <1>1, <2>1, <2>2, <2>3 DEF IInv, Peers
    <2>6. QED
      BY <1>3, <1>4, <1>10, <2>1, <2>2, <2>3, <2>4, <2>5, Zenon
  <1>15. Table'
    BY <1>2, <1>4, <1>9, Ids DEF IInv, Table
  <1>16. Entries' /\ EntriesOnce'
    <2>1. ASSUME NEW l \in Live', NEW i \in Queued(l)'
          PROVE  /\ l \in Live /\ i \in Queued(l) /\ accept_queue'[l][i] = accept_queue[l][i]
                 /\ accept_queue[l][i] \in Live' /\ state'[accept_queue[l][i]] = "unbound"
                 /\ \E q \in Procs : /\ sock'[q] = accept_queue[l][i]
                                     /\ pc'[q] \in {"connect", "dead"}
      <3>1. l \in Live /\ l \in Socks /\ l # s
        BY <1>4, Ids, Zenon
      <3>2. i \in Queued(l) /\ accept_queue'[l][i] = accept_queue[l][i]
        BY <1>9, <3>1 DEF Queued
      <3>3. accept_queue[l][i] # s
        BY <1>1, <3>1, <3>2, NotQueued, Zenon
      <3>4. QED
        <4>1. pc' = pc /\ sock' = sock
          BY <1>2 DEF proc_vars
        <4>2. /\ accept_queue[l][i] \in Live /\ state[accept_queue[l][i]] = "unbound"
              /\ \E q \in Procs : sock[q] = accept_queue[l][i] /\ pc[q] \in {"connect", "dead"}
          BY <3>1, <3>2, EntryOf
        <4>3. accept_queue[l][i] \in Live' /\ state'[accept_queue[l][i]] = "unbound"
          BY <1>3, <1>4, <3>3, <4>2, Ids, Zenon
        <4>4. QED
          BY <3>1, <3>2, <4>1, <4>2, <4>3, Zenon
    <2>2. QED
      BY <2>1, QueuesKept, Zenon
  <1>17. Streams'
    <2> SUFFICES ASSUME NEW x \in Socks
                 PROVE  /\ received'[x] <= sent'[x]
                        /\ Len(rx'[x]) = sent'[x] - received'[x]
                        /\ \A i \in 1 .. Len(rx'[x]) : rx'[x][i] = received'[x] + i
      BY Zenon DEF Streams
    <2>1. CASE x = s
      <3>1. Len(rx'[x]) = 0
        BY <1>8, <2>1, Zenon
      <3>2. received'[x] = 0 /\ sent'[x] = 0
        BY <1>8, <2>1, Zenon
      <3>3. QED
        BY <3>1, <3>2
    <2>2. CASE x # s
      BY <1>8, <2>2, Zenon DEF IInv, Streams
    <2>3. QED
      BY <2>1, <2>2, Zenon
  <1>18. QED
    BY <1>7, <1>11, <1>12, <1>13, <1>14, <1>15, <1>16, <1>17, Zenon DEF IInv

-----------------------------------------------------------------------------
(* The invariant is inductive: one case per call and per waiting call. *)
LEMMA NextIInv == IInv /\ [Next]_vars => IInv'
  <1> SUFFICES ASSUME IInv, [Next]_vars PROVE IInv'
    OBVIOUS
  <1>1. CASE UNCHANGED vars
    <2>1. UNCHANGED <<created, sock_vars, data_vars, proc_vars, panic>>
      BY <1>1 DEF vars
    <2>2. Live' = Live /\ \A s \in Socks : Queued(s)' = Queued(s)
      BY <2>1, SocketsKept
    <2>3. FieldsOK' /\ Shapes' /\ Fresh' /\ Streams'
      BY <2>1, Zenon DEF IInv, FieldsOK, Shapes, Fresh, Streams, sock_vars, data_vars, proc_vars
    <2>4. Waiting' /\ Peers' /\ Table'
      BY <2>1, <2>2, Zenon DEF IInv, Waiting, Peers, Table, sock_vars, proc_vars
    <2>5. Entries' /\ EntriesOnce'
      BY <2>1, <2>2, Ids DEF IInv, Entries, EntriesOnce, sock_vars, proc_vars
    <2>6. QED
      BY <2>3, <2>4, <2>5, Zenon DEF IInv
  <1>2. ASSUME NEW p \in Procs, Call(p) PROVE IInv'
    <2>1. CASE sys_socket(p)
      BY <2>1, SocketKeeps, Zenon
    <2>2. ASSUME NEW s \in Socks, NEW a \in Paths, sys_bind(p, s, a) \/ sys_connect(p, s, a)
          PROVE  IInv'
      BY <2>2, BindKeeps, ConnectKeeps
    <2>3. ASSUME NEW s \in Socks, sys_listen(p, s) PROVE IInv'
      BY <2>3, ListenKeeps, Zenon
    <2>4. ASSUME NEW s \in Socks, sys_accept(p, s) PROVE IInv'
      <3>1. Calls(p, s) /\ pc[p] = "run" /\ s \in Live
        BY <2>4 DEF sys_accept, Calls, Owned
      <3>2. CASE Dequeue(p, s)
        BY <3>1, <3>2, DequeueKeeps, Zenon
      <3>3. CASE Block(p, "accept", s) /\ UNCHANGED <<created, sock_vars, data_vars, left, panic>>
        BY <3>1, <3>3, BlockKeeps, Zenon
      <3>4. QED
        BY <2>4, <3>2, <3>3, Zenon DEF sys_accept
    <2>5. ASSUME NEW s \in Socks, socket_read(p, s) PROVE IInv'
      <3>1. Calls(p, s) /\ pc[p] = "run" /\ s \in Live
        BY <2>5 DEF socket_read, Calls, Owned
      <3>2. CASE ReadSome(p, s)
        BY <3>1, <3>2, ReadKeeps, Zenon
      <3>3. CASE Block(p, "read", s) /\ UNCHANGED <<created, sock_vars, data_vars, left, panic>>
        BY <3>1, <3>3, BlockKeeps, Zenon
      <3>4. QED
        BY <2>5, <3>2, <3>3, Zenon DEF socket_read
    <2>6. ASSUME NEW s \in Socks, NEW n \in 1 .. MaxBytes, socket_write(p, s, n) PROVE IInv'
      <3>1. pc[p] = "run" /\ s \in Live /\ owner[s] = p /\ peer[s] # NULL
        BY <2>6 DEF socket_write, Calls, Owned
      <3>2. n \in 0 .. MaxBytes
        BY SocketConstants
      <3>3. WriteSome(p, s, n)
        BY <2>6 DEF socket_write
      <3>4. QED
        BY <3>1, <3>2, <3>3, WriteKeeps, Zenon
    <2>7. ASSUME NEW s \in Socks, socket_close(p, s) PROVE IInv'
      BY <2>7, CloseKeeps
    <2>8. QED
      BY <1>2, <2>1, <2>2, <2>3, <2>4, <2>5, <2>6, <2>7, Zenon DEF Call
  <1>3. ASSUME NEW p \in Procs, Wake(p) PROVE IInv'
    <2>1. CASE ConnectLoop(p)
      BY <2>1, ConnectLoopKeeps
    <2>2. CASE AcceptLoop(p)
      <3>1. pc[p] = "accept" /\ sock[p] \in Live
        BY <2>2, Zenon DEF AcceptLoop, Waits, IInv, Waiting
      <3>2. QED
        BY <2>2, <3>1, DequeueKeeps, Zenon DEF AcceptLoop
    <2>3. CASE ReadLoop(p)
      <3>1. pc[p] = "read" /\ sock[p] \in Live
        BY <2>3 DEF ReadLoop, Waits, IInv, Waiting
      <3>2. QED
        BY <2>3, <3>1, ReadKeeps, Zenon DEF ReadLoop
    <2>4. CASE WriteLoop(p)
      BY <2>4, WriteLoopKeeps
    <2>5. QED
      BY <1>3, <2>1, <2>2, <2>3, <2>4, Zenon DEF Wake
  <1>4. ASSUME NEW p \in Procs, Exit(p) PROVE IInv'
    BY <1>4, ExitKeeps
  <1>5. QED
    BY <1>1, <1>2, <1>3, <1>4 DEF Next

(* IInv holds in every reachable state *)
LEMMA Invariant == Spec => []IInv
  BY InitIInv, NextIInv, PTL DEF Spec

-----------------------------------------------------------------------------
(* Whatever calls are interleaved with closes and exits, no peer pointer, no *)
(* table entry and no accept queue of a live listener refers to a freed      *)
(* socket, and no client is queued twice.                                    *)
THEOREM NothingDangles == Spec => []NoDanglingSocket
  <1>1. IInv => NoDanglingSocket
    BY Parts DEF IInv
  <1>2. QED
    BY <1>1, Invariant, PTL

(* For any capacity of the ring buffer and any chunking of writes and reads, *)
(* a receive buffer holds the bytes sent and not yet read, in order.         *)
THEOREM StreamsStayIntact == Spec => []StreamIntact
  <1>1. IInv => StreamIntact
    BY StreamsIntact DEF IInv
  <1>2. QED
    BY <1>1, Invariant, PTL

-----------------------------------------------------------------------------
(* What a step does to an entry of the queue of a live listener. *)
Served(l, i) ==
    \/ l \notin Live'
    \/ i \in Queued(l)' /\ accept_queue'[l][i] = accept_queue[l][i]
    \/ i = accept_head[l] /\ accept_head'[l] = NextSlot(i)
          /\ state'[accept_queue[l][i]] \in {"unbound", "connected"}

(* a connect leaves the entries there are where they are *)
LEMMA ConnectServes ==
    ASSUME IInv, NEW p \in Procs, NEW s \in Socks, NEW a \in Paths, sys_connect(p, s, a),
           NEW l \in Live, NEW i \in Queued(l)
    PROVE  Served(l, i)
  <1>1. PICK target \in bound_sockets :
            /\ HasRoom(target)
            /\ accept_queue' = [accept_queue EXCEPT ![target][accept_tail[target]] = s]
            /\ accept_tail' = [accept_tail EXCEPT ![target] = NextSlot(@)]
            /\ accept_head' = accept_head
    BY Zenon DEF sys_connect
  <1>2. l \in Socks /\ accept_head[l] \in Slots /\ accept_tail[l] \in Slots
    BY Ids DEF IInv, Shapes
  <1>3. CASE l # target
    <2>1. accept_tail'[l] = accept_tail[l] /\ accept_queue'[l] = accept_queue[l]
      BY <1>1, <1>2, <1>3 DEF IInv, Shapes
    <2>2. QED
      BY <1>1, <2>1 DEF Served, Queued
  <1>4. CASE l = target
    <2> DEFINE h == accept_head[l]
               t == accept_tail[l]
    <2>1. NextSlot(t) # h /\ accept_tail'[l] = NextSlot(t) /\ accept_head'[l] = h
      BY <1>1, <1>2, <1>4, Zenon DEF IInv, Shapes, HasRoom
    <2>2. Queued(l)' = Between(h, NextSlot(t))
      BY <2>1 DEF Queued, Between
    <2>3. Queued(l)' = Queued(l) \cup {t} /\ t \notin Queued(l) /\ Queued(l) \subseteq Slots
      <3>1. Queued(l) = Between(h, t)
        BY <1>2, QueuedBetween
      <3>2. Between(h, NextSlot(t)) = Between(h, t) \cup {t} /\ t \notin Between(h, t)
        BY <1>2, <2>1, Enqueued
      <3>3. Between(h, t) \subseteq Slots
        BY <1>2, BetweenSlots
      <3>4. QED
        BY <2>2, <3>1, <3>2, <3>3
    <2>4. accept_queue'[l] = [accept_queue[l] EXCEPT ![t] = s]
          /\ accept_queue[l] \in [Slots -> Socks \cup {NULL}]
      BY <1>1, <1>2, <1>4, Zenon DEF IInv, Shapes
    <2>5. i # t /\ i \in Slots
      BY <2>3, Zenon
    <2>6. accept_queue'[l][i] = accept_queue[l][i]
      BY <2>4, <2>5, Zenon
    <2>7. QED
      BY <2>3, <2>6, Zenon DEF Served
  <1>5. QED
    BY <1>3, <1>4, Zenon

(* accept takes the oldest entry and no other *)
LEMMA DequeueServesOldest ==
    ASSUME IInv, NEW p \in Procs, NEW s \in Live, Dequeue(p, s),
           NEW l \in Live, NEW i \in Queued(l)
    PROVE  Served(l, i)
  <1> DEFINE c == accept_queue[s][accept_head[s]]
             n == created + 1
  <1>1. /\ accept_head[s] # accept_tail[s]
        /\ accept_head' = [accept_head EXCEPT ![s] = NextSlot(@)]
        /\ UNCHANGED <<accept_queue, accept_tail>>
        /\ \/ state' = state
           \/ state' = [state EXCEPT ![n] = "connected", ![c] = "connected"]
    BY DEF Dequeue
  <1>2. /\ accept_head[s] \in Queued(s)
        /\ \A m \in Socks \ {s} : Queued(m)' = Queued(m)
        /\ Queued(s)' = Queued(s) \ {accept_head[s]}
    BY <1>1, Remaining, Zenon
  <1>3. CASE l # s \/ i # accept_head[s]
    BY <1>1, <1>2, <1>3, Ids, Zenon DEF Served
  <1>4. CASE l = s /\ i = accept_head[s]
    <2>1. c \in Socks /\ state[c] = "unbound"
      BY <1>2, Ids, EntryOf
    <2> HIDE DEF c, n
    <2>2. state'[c] \in {"unbound", "connected"}
      BY <1>1, <2>1, Zenon DEF IInv, FieldsOK
    <2>3. accept_head'[s] = NextSlot(accept_head[s])
      BY <1>1, Ids, Zenon DEF IInv, Shapes
    <2>4. QED
      BY <1>4, <2>2, <2>3, Zenon DEF Served, c
  <1>5. QED
    BY <1>3, <1>4, Zenon

(* a close empties the queue of the socket it frees *)
LEMMA CloseServes ==
    ASSUME IInv, NEW p \in Procs, NEW s \in Socks, socket_close(p, s),
           NEW l \in Live, NEW i \in Queued(l)
    PROVE  Served(l, i)
  <1>1. CASE l = s
    BY <1>1, Zenon DEF socket_close, Served, Live, IInv, FieldsOK
  <1>2. CASE l # s
    <2>1. /\ accept_head'[l] = accept_head[l] /\ accept_tail'[l] = accept_tail[l]
          /\ accept_queue'[l] = accept_queue[l]
      BY <1>2, Ids DEF socket_close, IInv, Shapes
    <2>2. QED
      BY <2>1, Zenon DEF Served, Queued
  <1>3. QED
    BY <1>1, <1>2, Zenon

(* no other call touches a queue *)
LEMMA OthersServe ==
    ASSUME NEW l \in Live, NEW i \in Queued(l),
           UNCHANGED <<accept_queue, accept_head, accept_tail>>
    PROVE  Served(l, i)
  BY Zenon DEF Served, Queued

(* Clients are served in the order in which they entered the queue, for any  *)
(* length of the queue and any number of clients: no connect overwrites an   *)
(* entry or makes a full queue look empty.                                   *)
THEOREM ServedInOrder == Spec => ClientsServedInOrder
  <1>1. ASSUME IInv, [Next]_vars, NEW l \in Live, NEW i \in Queued(l)
        PROVE  Served(l, i)
    <2>1. CASE UNCHANGED vars
      BY <2>1, OthersServe, Zenon DEF vars, sock_vars
    <2>2. ASSUME NEW p \in Procs, Call(p) PROVE Served(l, i)
      <3>1. CASE sys_socket(p)
        BY <3>1, OthersServe, Zenon DEF sys_socket
      <3>2. ASSUME NEW s \in Socks, NEW a \in Paths, sys_bind(p, s, a) PROVE Served(l, i)
        BY <3>2, OthersServe, Zenon DEF sys_bind
      <3>3. ASSUME NEW s \in Socks, NEW a \in Paths, sys_connect(p, s, a) PROVE Served(l, i)
        BY <1>1, <3>3, ConnectServes, Zenon
      <3>4. ASSUME NEW s \in Socks, sys_listen(p, s) \/ socket_read(p, s) PROVE Served(l, i)
        BY <3>4, OthersServe, Zenon DEF sys_listen, socket_read, ReadSome, sock_vars
      <3>5. ASSUME NEW s \in Socks, sys_accept(p, s) PROVE Served(l, i)
        <4>1. s \in Live
          BY <3>5 DEF sys_accept, Calls, Owned
        <4>2. CASE Dequeue(p, s)
          BY <1>1, <4>1, <4>2, DequeueServesOldest, Zenon
        <4>3. CASE UNCHANGED sock_vars
          BY <4>3, OthersServe DEF sock_vars
        <4>4. QED
          BY <3>5, <4>2, <4>3, Zenon DEF sys_accept
      <3>6. ASSUME NEW s \in Socks, NEW n \in 1 .. MaxBytes, socket_write(p, s, n)
            PROVE  Served(l, i)
        BY <3>6, OthersServe, Zenon DEF socket_write, WriteSome, sock_vars
      <3>7. ASSUME NEW s \in Socks, socket_close(p, s) PROVE Served(l, i)
        BY <1>1, <3>7, CloseServes, Zenon
      <3>8. QED
        BY <2>2, <3>1, <3>2, <3>3, <3>4, <3>5, <3>6, <3>7, Zenon DEF Call
    <2>3. ASSUME NEW p \in Procs, Wake(p) PROVE Served(l, i)
      <3>1. CASE ConnectLoop(p) \/ ReadLoop(p) \/ WriteLoop(p)
        BY <3>1, OthersServe, Zenon DEF ConnectLoop, ReadLoop, ReadSome, WriteLoop, WriteSome, sock_vars
      <3>2. CASE AcceptLoop(p)
        <4>1. sock[p] \in Live /\ Dequeue(p, sock[p])
          BY <1>1, <3>2, Zenon DEF AcceptLoop, Waits, IInv, Waiting
        <4>2. QED
          BY <1>1, <4>1, DequeueServesOldest, Zenon
      <3>3. QED
        BY <2>3, <3>1, <3>2 DEF Wake
    <2>4. ASSUME NEW p \in Procs, Exit(p) PROVE Served(l, i)
      BY <2>4, OthersServe, Zenon DEF Exit, sock_vars
    <2>5. QED
      BY <1>1, <2>1, <2>2, <2>3, <2>4, Zenon DEF Next
  <1>2. IInv /\ [Next]_vars =>
            [\A l \in Live : \A i \in Queued(l) :
                LET c == accept_queue[l][i]
                IN  \/ l \notin Live'
                    \/ i \in Queued(l)' /\ accept_queue'[l][i] = c
                    \/ i = accept_head[l] /\ accept_head'[l] = NextSlot(i)
                          /\ state'[c] \in {"unbound", "connected"}]_vars
    BY <1>1 DEF Served
  <1>3. QED
    BY <1>2, Invariant, PTL DEF Spec, ClientsServedInOrder
=============================================================================
