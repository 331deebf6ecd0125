------------------------------ MODULE MCMemory ------------------------------
(***************************************************************************)
(* The memory of the kernel and of its processes for TLC.  The four        *)
(* modules share no state here, so a behaviour runs one of them (part) and *)
(* leaves the others in an initial state: their states add up instead of   *)
(* multiplying.                                                            *)
(***************************************************************************)
EXTENDS KHeap, KMalloc, HashMap, ProcMem

CONSTANTS p1, p2

VARIABLE part

MCHash == [a |-> 0, b |-> 4, c |-> 1, d |-> 2]
MCPath == [v \in {1, 10, 11, 20, 21, 30, 40} |-> IF v \in {20, 21} THEN <<"mid">> ELSE <<"low">>]
MCCode == <<1>>
MCStack == <<40>>
MCProcs == Permutations(Proc)

(* one process with all frames to itself, or two with few *)
Alone == kernel = {Fb}

Init ==
    /\ part \in {"heap", "kmalloc", "hashmap", "one process", "processes"}
    /\ HeapInit /\ KmallocInit /\ MapInit /\ ProcInit
    /\ part # "kmalloc" => pool.start = Min(PoolStarts)
    /\ part # "hashmap" => capacity = Min(Capacities)
    /\ Alone <=> part # "processes"

Next ==
    /\ UNCHANGED part
    /\ \/ part = "heap" /\ HeapNext /\ UNCHANGED <<kmallocVars, mapVars, procVars>>
       \/ part = "kmalloc" /\ KmallocNext /\ UNCHANGED <<heapVars, mapVars, procVars>>
       \/ part = "hashmap" /\ MapNext /\ UNCHANGED <<heapVars, kmallocVars, procVars>>
       \/ /\ part \in {"one process", "processes"}
          /\ \E p \in Proc :
                /\ ProcStep(p)
                /\ part = "one process" => \A q \in Proc \ {p} : phase[q] = "none"
          /\ UNCHANGED <<heapVars, kmallocVars, mapVars>>

Spec == Init /\ [][Next]_<<heapVars, kmallocVars, mapVars, procVars, part>>

(* bound: a behaviour meets one cause of lost frames *)
OneCause == Cardinality(cause) <= 1
=============================================================================
