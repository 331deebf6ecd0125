------------------------------- MODULE MCPmm -------------------------------
(* Small memories for Pmm: a bitmap that fills its entry, a first entry too *)
(* small for the bitmap, no usable entry large enough, one usable entry.    *)
EXTENDS Pmm, TLC

U(b, n) == [base |-> b, length |-> n, usable |-> TRUE]
R(b, n) == [base |-> b, length |-> n, usable |-> FALSE]

MCMemmaps == {
    <<R(0, 1), U(1, 1), R(2, 1), U(3, 3), R(6, 1), U(7, 1)>>,
    <<R(0, 1), U(1, 1), U(2, 4), R(7, 2)>>,
    <<R(0, 3), U(3, 1), R(4, 9)>>,
    <<R(0, 1), U(1, 6)>> }

SmallMemmaps == {<<R(0, 1), U(1, 4)>>}

Symmetry == Permutations(Callers)
=============================================================================
