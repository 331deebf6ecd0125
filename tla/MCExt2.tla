------------------------------ MODULE MCExt2 ------------------------------
(***************************************************************************)
(* Small instance of Ext2 in two parts, which are explored side by side:   *)
(* "names": two processes make, remove and rename files and directories    *)
(*          in the root and in directories below it;                       *)
(* "files": one process works on one name and writes to a descriptor.      *)
(* Five blocks in two groups: the file system fills up.                    *)
(***************************************************************************)
EXTENDS Ext2

VARIABLE part

MCName == {"a", "b"}
MCUnits == [a |-> 1, b |-> 2]
MCPaths == {<<>>, <<"a">>, <<"b", ".", "..", "a", "b">>}
(* within the direct pointers and one table, across to the second level, in *)
(* the second level and in the third                                        *)
MCTransfers == {<<0, 2>>, <<2, 2>>, <<4, 1>>, <<7, 1>>}
MCProcs == Permutations(Proc)

Alone == {p \in Proc : \A q \in Proc \ {p} : cwd[q] = Outside}

MCInit == Ext2Init /\ part \in {"names", "files"}
MCNext == /\ Ext2Calls(IF part = "names" THEN Proc ELSE Alone,
                       IF part = "names" THEN Name ELSE {"a"},
                       IF part = "names" THEN {} ELSE Fd)
          /\ UNCHANGED part
MCSpec == MCInit /\ [][MCNext]_<<ext2Vars, part>>

(* bound: what follows a second cause is not explored *)
OneCause == Cardinality(cause) <= 1
=============================================================================
