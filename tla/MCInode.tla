-------------------------------- MODULE MCInode --------------------------------
(* Inode on a disk of three blocks: a root, up to four more inodes at a time   *)
(* and files of zero, one and two blocks.  The addresses malloc returns and    *)
(* the names other than "/" are interchangeable.                               *)
EXTENDS Inode, TLC

CONSTANTS p1, p2, p3, p4, p5, root_name, a, b

MCPtr == {p1, p2, p3, p4, p5}
MCNames == {root_name, a, b}
MCSizes == {0, 4096, 4097}

Symmetry == Permutations(MCPtr) \cup Permutations({a, b})

===============================================================================
