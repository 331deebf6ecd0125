------------------------------ MODULE MCSocket ------------------------------
(* Socket for TLC; processes, and paths, are interchangeable. *)
EXTENDS Socket, TLC

Symmetry == Permutations(Procs) \cup Permutations(Paths)

(* a process that exited before it did anything *)
Bystander(p) == pc[p] = "dead" /\ sock[p] = NULL /\ Owned(p) = {}

(* bound: streams of more than one byte are followed while two processes are at *)
(* work, the accept queues while three are                                      *)
ShortStreams == (\A s \in Socks : sent[s] <= 1) \/ \E p \in Procs : Bystander(p)
=============================================================================
