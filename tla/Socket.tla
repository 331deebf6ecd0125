------------------------------- MODULE Socket -------------------------------
(***************************************************************************)
(* Unix-domain stream sockets, krnl/net/socket.c.                          *)
(*                                                                         *)
(* A system call is one step from one yield to the next.  Descriptors are  *)
(* not shared: only a fork could share them and no program survives one    *)
(* (see Sched), so a socket is used by its owner and by its peer.  The     *)
(* receive buffer is the queue that RingBuffer implements; a byte is       *)
(* represented by its position in the stream.                              *)
(***************************************************************************)
EXTENDS Integers, Sequences, FiniteSets

CONSTANTS
    Procs, Paths,
    MaxSock,       \* bound: sockets ever created
    MaxBytes,      \* bound: bytes ever sent to one socket
    MAX_FDS,       \* descriptors of a process
    MAX_SOCKETS,   \* entries of bound_sockets
    QueueLen,      \* entries of accept_queue (16)
    Capacity       \* bytes in rx_buffer (4096)

Socks == 1 .. MaxSock
NULL == 0

ASSUME SocketConstants ==
    /\ MaxSock \in Nat /\ MaxBytes \in Nat /\ MAX_FDS \in Nat /\ MAX_SOCKETS \in Nat
    /\ QueueLen \in Nat \ {0} /\ Capacity \in Nat \ {0}

VARIABLES
    created,                    \* how many sockets were created so far
    owner,                      \* the process whose descriptor refers to it
    state, path, peer, rx,      \* of unix_socket_t
    accept_queue, accept_head, accept_tail,
    bound_sockets,              \* the sockets entered in the table
    pc, sock,                   \* the call a process waits in, and on what
    left,                       \* bytes its write has still to send
    sent, received,             \* bytes ever sent to, and read from, a socket
    panic                       \* a NULL dereference stopped the machine

sock_vars == <<owner, state, path, peer, accept_queue, accept_head, accept_tail, bound_sockets>>
data_vars == <<rx, sent, received>>
proc_vars == <<pc, sock, left>>
vars == <<created, sock_vars, data_vars, proc_vars, panic>>

Live == {s \in Socks : state[s] \notin {"none", "freed"}}
Owned(p) == {s \in Live : owner[s] = p}
Queued(s) == IF accept_head[s] <= accept_tail[s]
             THEN accept_head[s] .. accept_tail[s] - 1
             ELSE (accept_head[s] .. QueueLen - 1) \cup (0 .. accept_tail[s] - 1)
Least(a, b) == IF a <= b THEN a ELSE b

Init ==
    /\ created = 0 /\ panic = FALSE /\ bound_sockets = {}
    /\ owner = [s \in Socks |-> NULL]
    /\ state = [s \in Socks |-> "none"]
    /\ path = [s \in Socks |-> NULL]
    /\ peer = [s \in Socks |-> NULL]
    /\ rx = [s \in Socks |-> <<>>]
    /\ accept_queue = [s \in Socks |-> [i \in 0 .. QueueLen - 1 |-> NULL]]
    /\ accept_head = [s \in Socks |-> 0]
    /\ accept_tail = [s \in Socks |-> 0]
    /\ sent = [s \in Socks |-> 0] /\ received = [s \in Socks |-> 0]
    /\ pc = [p \in Procs |-> "run"]
    /\ sock = [p \in Procs |-> NULL] /\ left = [p \in Procs |-> 0]

Calls(p, s) == ~panic /\ pc[p] = "run" /\ s \in Owned(p)
Waits(p, at) == ~panic /\ pc[p] = at

Block(p, at, s) == pc' = [pc EXCEPT ![p] = at] /\ sock' = [sock EXCEPT ![p] = s]
Return(p) == Block(p, "run", NULL)

-----------------------------------------------------------------------------
sys_socket(p) ==
    /\ Waits(p, "run") /\ created < MaxSock
    /\ Cardinality(Owned(p)) < MAX_FDS
    /\ created' = created + 1
    /\ owner' = [owner EXCEPT ![created'] = p]
    /\ state' = [state EXCEPT ![created'] = "unbound"]
    /\ UNCHANGED <<path, peer, accept_queue, accept_head, accept_tail, bound_sockets,
                   data_vars, proc_vars, panic>>

PathFree(a) == \A s \in bound_sockets : path[s] # a

sys_bind(p, s, a) ==
    /\ Calls(p, s) /\ state[s] = "unbound"
    /\ PathFree(a) /\ Cardinality(bound_sockets) < MAX_SOCKETS
    /\ bound_sockets' = bound_sockets \cup {s}
    /\ path' = [path EXCEPT ![s] = a]
    /\ state' = [state EXCEPT ![s] = "bound"]
    /\ UNCHANGED <<created, owner, peer, accept_queue, accept_head, accept_tail, data_vars,
                   proc_vars, panic>>

sys_listen(p, s) ==
    /\ Calls(p, s) /\ state[s] = "bound"
    /\ state' = [state EXCEPT ![s] = "listening"]
    /\ UNCHANGED <<created, owner, path, peer, accept_queue, accept_head, accept_tail,
                   bound_sockets, data_vars, proc_vars, panic>>

(* mutant: the index runs past the end of the queue *)
NextSlot_NoWrap(i) == i + 1

NextSlot(i) == (i + 1) % QueueLen

(* mutant: a full accept queue is not recognised *)
HasRoom_Always(t) == TRUE

HasRoom(t) == NextSlot(accept_tail[t]) # accept_head[t]

(* enters the listener's queue, then waits for its state to change *)
sys_connect(p, s, a) ==
    /\ Calls(p, s) /\ state[s] = "unbound"
    /\ \E target \in bound_sockets :
          /\ path[target] = a /\ state[target] = "listening" /\ HasRoom(target)
          /\ accept_queue' = [accept_queue EXCEPT ![target][accept_tail[target]] = s]
          /\ accept_tail' = [accept_tail EXCEPT ![target] = NextSlot(@)]
    /\ Block(p, "connect", s)
    /\ UNCHANGED <<created, owner, state, path, peer, accept_head, bound_sockets, data_vars,
                   left, panic>>

ConnectLoop(p) ==
    /\ Waits(p, "connect") /\ state[sock[p]] # "unbound"
    /\ Return(p)
    /\ UNCHANGED <<created, sock_vars, data_vars, left, panic>>

-----------------------------------------------------------------------------
Joined(n, client) == [peer EXCEPT ![n] = client, ![client] = n]

(* accept from the dequeue on.  Without memory for a socket, or without a   *)
(* descriptor for it, the client has left the queue and stays unconnected.  *)
Dequeue(p, s) ==
    LET client == accept_queue[s][accept_head[s]]
        n == created + 1
    IN  /\ accept_head[s] # accept_tail[s]
        /\ accept_head' = [accept_head EXCEPT ![s] = NextSlot(@)]
        /\ \/ UNCHANGED <<created, owner, state, peer>>
           \/ /\ n <= MaxSock /\ Cardinality(Owned(p)) < MAX_FDS
              /\ created' = n
              /\ owner' = [owner EXCEPT ![n] = p]
              /\ state' = [state EXCEPT ![n] = "connected", ![client] = "connected"]
              /\ peer' = Joined(n, client)
        /\ Return(p)
        /\ UNCHANGED <<path, accept_queue, accept_tail, bound_sockets, data_vars, left, panic>>

sys_accept(p, s) ==
    /\ Calls(p, s) /\ state[s] = "listening"
    /\ \/ Dequeue(p, s)
       \/ /\ accept_head[s] = accept_tail[s]
          /\ Block(p, "accept", s)
          /\ UNCHANGED <<created, sock_vars, data_vars, left, panic>>

AcceptLoop(p) == Waits(p, "accept") /\ Dequeue(p, sock[p])

-----------------------------------------------------------------------------
(* mutant: only data wakes a reader *)
AtEnd_Never(s) == FALSE

(* nothing more will come *)
AtEnd(s) == peer[s] = NULL

(* the part of socket_read that returns: some of the bytes there are, or none *)
ReadSome(p, s) ==
    /\ \/ /\ rx[s] # <<>>
          /\ \E n \in 0 .. Len(rx[s]) :
                /\ rx' = [rx EXCEPT ![s] = SubSeq(@, n + 1, Len(@))]
                /\ received' = [received EXCEPT ![s] = @ + n]
       \/ rx[s] = <<>> /\ AtEnd(s) /\ UNCHANGED <<rx, received>>
    /\ Return(p)
    /\ UNCHANGED <<created, sock_vars, sent, left, panic>>

socket_read(p, s) ==
    /\ Calls(p, s) /\ state[s] = "connected"
    /\ \/ ReadSome(p, s)
       \/ /\ rx[s] = <<>> /\ ~AtEnd(s)
          /\ Block(p, "read", s)
          /\ UNCHANGED <<created, sock_vars, data_vars, left, panic>>

ReadLoop(p) == Waits(p, "read") /\ ReadSome(p, sock[p])

(* mutant: the writer relies on the ring buffer to make room *)
Room_Any(s) == MaxBytes

Room(s) == Capacity - Len(rx[s])

(* what the ring buffer holds after n more bytes: the newest *)
Appended(s, n) ==
    LET all == rx[s] \o [i \in 1 .. n |-> sent[s] + i]
    IN  SubSeq(all, Len(all) - Least(Capacity, Len(all)) + 1, Len(all))

(* the loop of socket_write up to its end or its yield *)
WriteSome(p, s, n) ==
    LET to == peer[s]
        w == Least(n, Room(to))
    IN  /\ rx' = [rx EXCEPT ![to] = Appended(to, w)]
        /\ sent' = [sent EXCEPT ![to] = @ + w]
        /\ left' = [left EXCEPT ![p] = n - w]
        /\ IF w = n THEN Return(p) ELSE Block(p, "write", s)
        /\ UNCHANGED <<created, sock_vars, received, panic>>

socket_write(p, s, n) ==
    /\ Calls(p, s) /\ state[s] = "connected" /\ peer[s] # NULL
    /\ sent[peer[s]] + n <= MaxBytes
    /\ WriteSome(p, s, n)

(* After a yield the peer pointer is used unchecked: the peer's close has   *)
(* set it to NULL, and the test whether the peer is closed faults.          *)
WriteLoop(p) ==
    /\ Waits(p, "write")
    /\ IF peer[sock[p]] = NULL
       THEN panic' = TRUE /\ UNCHANGED <<created, sock_vars, data_vars, proc_vars>>
       ELSE Room(peer[sock[p]]) > 0 /\ WriteSome(p, sock[p], left[p])

-----------------------------------------------------------------------------
(* mutant: the table keeps the freed socket *)
Unbound_Kept(s) == bound_sockets

Unbound(s) == bound_sockets \ {s}

(* close(fd): the peer is told, the table forgets the socket, the memory is *)
(* freed (its fields are reset here only so that equal states are equal);   *)
(* clients in its accept queue are not told                                 *)
socket_close(p, s) ==
    /\ Calls(p, s)
    /\ state' = [state EXCEPT ![s] = "freed"]
    /\ peer' = IF peer[s] = NULL THEN peer
               ELSE [peer EXCEPT ![peer[s]] = NULL, ![s] = NULL]
    /\ bound_sockets' = Unbound(s)
    /\ owner' = [owner EXCEPT ![s] = NULL]
    /\ path' = [path EXCEPT ![s] = NULL]
    /\ accept_queue' = [accept_queue EXCEPT ![s] = [i \in 0 .. QueueLen - 1 |-> NULL]]
    /\ accept_head' = [accept_head EXCEPT ![s] = 0]
    /\ accept_tail' = [accept_tail EXCEPT ![s] = 0]
    /\ rx' = [rx EXCEPT ![s] = <<>>]
    /\ sent' = [sent EXCEPT ![s] = 0] /\ received' = [received EXCEPT ![s] = 0]
    /\ UNCHANGED <<created, proc_vars, panic>>

(* exit, or a kill at a yield: descriptors are dropped without a close *)
Exit(p) ==
    /\ ~panic /\ pc[p] # "dead"
    /\ pc' = [pc EXCEPT ![p] = "dead"]
    /\ UNCHANGED <<created, sock_vars, data_vars, sock, left, panic>>

-----------------------------------------------------------------------------
Call(p) ==
    \/ sys_socket(p)
    \/ \E s \in Socks :
          \/ sys_listen(p, s) \/ sys_accept(p, s) \/ socket_read(p, s) \/ socket_close(p, s)
          \/ \E a \in Paths : sys_bind(p, s, a) \/ sys_connect(p, s, a)
          \/ \E n \in 1 .. MaxBytes : socket_write(p, s, n)

Wake(p) == ConnectLoop(p) \/ AcceptLoop(p) \/ ReadLoop(p) \/ WriteLoop(p)

Next == \E p \in Procs : Call(p) \/ Wake(p) \/ Exit(p)

Spec == Init /\ [][Next]_vars

(* a thread that yields is scheduled again (RoundRobin of Sched) *)
FairSpec == Spec /\ \A p \in Procs : WF_vars(Wake(p))

-----------------------------------------------------------------------------
(* Types of the socket table, the sockets and the waiting calls. *)
TypeOK ==
    /\ created \in 0 .. MaxSock /\ panic \in BOOLEAN /\ bound_sockets \in SUBSET Socks
    /\ Cardinality(bound_sockets) <= MAX_SOCKETS
    /\ state \in [Socks -> {"none", "unbound", "bound", "listening", "connected", "freed"}]
    /\ \A s \in Socks : /\ owner[s] \in Procs \cup {NULL} /\ path[s] \in Paths \cup {NULL}
                        /\ peer[s] \in Socks \cup {NULL} /\ Len(rx[s]) <= Capacity
                        /\ accept_head[s] \in 0 .. QueueLen - 1
                        /\ accept_tail[s] \in 0 .. QueueLen - 1
    /\ pc \in [Procs -> {"run", "connect", "accept", "read", "write", "dead"}]
    /\ sock \in [Procs -> Socks \cup {NULL}] /\ left \in [Procs -> 0 .. MaxBytes]

(* Nothing points to a freed socket: the peers of a connection point to each *)
(* other, the table holds live sockets under different paths, and a client   *)
(* in the accept queue of a live listener is alive, unconnected and queued   *)
(* once, so accept never touches freed memory or connects a client twice.    *)
NoDanglingSocket ==
    /\ \A s \in Live : peer[s] # NULL =>
          peer[s] \in Live /\ peer[peer[s]] = s /\ state[s] = "connected"
    /\ bound_sockets \subseteq Live
    /\ \A s, t \in bound_sockets : path[s] = path[t] => s = t
    /\ \A l, m \in Live : \A i \in Queued(l), j \in Queued(m) :
          LET c == accept_queue[l][i]
          IN  /\ c \in Live /\ state[c] = "unbound"
              /\ \E p \in Procs : sock[p] = c /\ pc[p] \in {"connect", "dead"}
              /\ accept_queue[m][j] = c => l = m /\ i = j

(* The receive buffer of a socket holds exactly the bytes sent and not yet   *)
(* read, in order: although a full ring buffer drops its oldest bytes, no    *)
(* interleaving of a blocked writer with its reader loses, repeats or        *)
(* reorders one.                                                             *)
StreamIntact ==
    \A s \in Live : rx[s] = [i \in 1 .. sent[s] - received[s] |-> received[s] + i]

(* A client leaves the queue of a listener only as its oldest entry, taken   *)
(* by accept, or because the listener was closed: a connect on a full queue  *)
(* neither overwrites an entry nor makes the queue look empty.               *)
ClientsServedInOrder ==
    [][\A l \in Live : \A i \in Queued(l) :
          LET c == accept_queue[l][i]
          IN  \/ l \notin Live'
              \/ i \in Queued(l)' /\ accept_queue'[l][i] = c
              \/ i = accept_head[l] /\ accept_head'[l] = NextSlot(i)
                    /\ state'[c] \in {"unbound", "connected"}]_vars

(* No wakeup is lost: a call whose condition has come about returns, however *)
(* the others interleave: a reader with data or without a peer, a client     *)
(* that has been connected, an acceptor with somebody in its queue.          *)
WaitersReturn ==
    \A p \in Procs :
        LET s == sock[p] IN
        /\ (pc[p] = "read" /\ (rx[s] # <<>> \/ peer[s] = NULL)) ~> (pc[p] # "read" \/ panic)
        /\ (pc[p] = "connect" /\ state[s] = "connected") ~> (pc[p] # "connect" \/ panic)
        /\ (pc[p] = "accept" /\ accept_head[s] # accept_tail[s])
              ~> (pc[p] # "accept" \/ panic)
=============================================================================
