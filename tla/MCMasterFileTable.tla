--------------------------- MODULE MCMasterFileTable ---------------------------
(* Programs on a disk of two blocks: a root, two more inodes at a time and     *)
(* files of one and two blocks.                                                *)
EXTENDS MasterFileTable, TLC

CONSTANTS p1, p2, p3, root_name, a, b

MCPtr == {p1, p2, p3}
MCNames == {root_name, a, b}
MCSizes == {4096, 4097}

Symmetry == Permutations(MCPtr) \cup Permutations({a, b})

===============================================================================
