------------------------- MODULE SocketTableProofs --------------------------
(***************************************************************************)
(* The size of the socket table, and with it the types of Socket.          *)
(***************************************************************************)
EXTENDS SocketProofs, FiniteSetTheorems

Bounded == Cardinality(bound_sockets) <= MAX_SOCKETS

(* only sys_bind adds to the table, and only when it is not full *)
LEMMA TableStep ==
    ASSUME [Next]_vars
    PROVE  \/ bound_sockets' \subseteq bound_sockets
           \/ \E s \in Socks : /\ bound_sockets' = bound_sockets \cup {s}
                               /\ Cardinality(bound_sockets) < MAX_SOCKETS
  <1>1. CASE UNCHANGED vars
    BY <1>1 DEF vars, sock_vars
  <1>2. ASSUME NEW p \in Procs, Call(p), ~(\E s \in Socks, a \in Paths : sys_bind(p, s, a))
        PROVE  bound_sockets' \subseteq bound_sockets
    <2>1. ASSUME sys_socket(p) PROVE bound_sockets' \subseteq bound_sockets
      BY <2>1 DEF sys_socket
    <2>2. ASSUME NEW s \in Socks, sys_listen(p, s) \/ sys_accept(p, s) \/ socket_read(p, s)
          PROVE  bound_sockets' \subseteq bound_sockets
      BY <2>2 DEF sys_listen, sys_accept, Dequeue, socket_read, ReadSome, sock_vars
    <2>3. ASSUME NEW s \in Socks, socket_close(p, s) PROVE bound_sockets' \subseteq bound_sockets
      BY <2>3 DEF socket_close, Unbound
    <2>4. ASSUME NEW s \in Socks, NEW a \in Paths, sys_connect(p, s, a)
          PROVE  bound_sockets' \subseteq bound_sockets
      BY <2>4 DEF sys_connect
    <2>5. ASSUME NEW s \in Socks, NEW n \in 1 .. MaxBytes, socket_write(p, s, n)
          PROVE  bound_sockets' \subseteq bound_sockets
      BY <2>5 DEF socket_write, WriteSome, sock_vars
    <2>6. QED
      BY <1>2, <2>1, <2>2, <2>3, <2>4, <2>5, Zenon DEF Call
  <1>3. ASSUME NEW p \in Procs, NEW s \in Socks, NEW a \in Paths, sys_bind(p, s, a)
        PROVE  bound_sockets' = bound_sockets \cup {s} /\ Cardinality(bound_sockets) < MAX_SOCKETS
    BY <1>3, Zenon DEF sys_bind
  <1>4. ASSUME NEW p \in Procs, Wake(p) PROVE bound_sockets' \subseteq bound_sockets
    BY <1>4 DEF Wake, ConnectLoop, AcceptLoop, Dequeue, ReadLoop, ReadSome, WriteLoop, WriteSome, sock_vars
  <1>5. ASSUME NEW p \in Procs, Exit(p) PROVE bound_sockets' \subseteq bound_sockets
    BY <1>5 DEF Exit, sock_vars
  <1>6. QED
    BY <1>1, <1>2, <1>3, <1>4, <1>5, Zenon DEF Next

(* so it never holds more than MAX_SOCKETS *)
LEMMA BoundedStep == IInv /\ Bounded /\ [Next]_vars => Bounded'
  <1> SUFFICES ASSUME IInv, Bounded, [Next]_vars PROVE Bounded'
    OBVIOUS
  <1>1. IsFiniteSet(Socks) /\ bound_sockets \in SUBSET Socks /\ MAX_SOCKETS \in Nat
    BY FS_Interval, SocketConstants DEF Socks, IInv, FieldsOK
  <1>2. IsFiniteSet(bound_sockets) /\ Cardinality(bound_sockets) \in Nat
    BY <1>1, FS_Subset, FS_CardinalityType
  <1>3. CASE bound_sockets' \subseteq bound_sockets
    <2>1. Cardinality(bound_sockets') <= Cardinality(bound_sockets) /\ Cardinality(bound_sockets') \in Nat
      BY <1>2, <1>3, FS_Subset, FS_CardinalityType
    <2>2. QED
      BY <1>1, <1>2, <2>1 DEF Bounded
  <1>4. ASSUME NEW s \in Socks, bound_sockets' = bound_sockets \cup {s},
               Cardinality(bound_sockets) < MAX_SOCKETS
        PROVE  Bounded'
    <2>1. Cardinality(bound_sockets \cup {s})
              = IF s \in bound_sockets THEN Cardinality(bound_sockets) ELSE Cardinality(bound_sockets) + 1
      BY <1>2, FS_AddElement
    <2>2. Cardinality(bound_sockets \cup {s}) <= MAX_SOCKETS
      BY <1>1, <1>2, <1>4, <2>1
    <2>3. QED
      BY <1>4, <2>2 DEF Bounded
  <1>5. QED
    BY <1>3, <1>4, TableStep

(* For any number of processes, sockets and paths, the socket table, the     *)
(* sockets and the waiting calls keep their types: no more than MAX_SOCKETS  *)
(* paths are bound, no receive buffer outgrows its capacity and no queue     *)
(* index leaves the array.                                                   *)
THEOREM SocketTyped == Spec => []TypeOK
  <1>1. Init => Bounded
    BY FS_EmptySet, SocketConstants DEF Init, Bounded
  <1>2. IInv /\ Bounded => TypeOK
    BY DEF IInv, FieldsOK, Bounded, TypeOK
  <1>3. QED
    BY <1>1, <1>2, Invariant, BoundedStep, PTL DEF Spec
=============================================================================
