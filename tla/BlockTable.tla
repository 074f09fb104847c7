------------------------------ MODULE BlockTable ------------------------------
(*****************************************************************************)
(* The block allocation table (BAT) of the simulated disk of oblig/: one     *)
(* byte per block, 0 for unused and 1 for in use.  The constant operators    *)
(* here are shared by Allocation, which checks the functions of allocation.c *)
(* under failing I/O, and by Inode, in which a table can be read or cannot.  *)
(*****************************************************************************)
EXTENDS Integers

CONSTANT NUM_BLOCKS         \* the length of the table, 50 in the source

ASSUME NumBlocksAssumption == NUM_BLOCKS \in Nat \ {0}

Blocks == 0 .. NUM_BLOCKS - 1

Table == [Blocks -> {0, 1}]

\* What format_disk writes: calloc gives NUM_BLOCKS zero bytes.
FormattedTable == [b \in Blocks |-> 0]

\* A file that is missing or empty, as fopen "w" leaves it, has none of the
\* bytes.  read_table returns NULL, and allocate_block and free_block -1.
NoByte == 2

EmptyFile == [b \in Blocks |-> NoByte]

\* The loop of allocate_block stops at the lowest entry that is 0.
IsFirstUnused(table, b) ==
    /\ b \in Blocks
    /\ table[b] = 0
    /\ \A c \in Blocks : c < b => table[c] # 0

\* allocate_block finds no byte that is 0, or no byte at all.
Full(table) == \A b \in Blocks : table[b] # 0

Marked(table, b) == [table EXCEPT ![b] = 1]

\* A plausible bug: free_block writes the table back without clearing the byte.
MutantCleared(table, b) == table

\* free_block changes nothing if the block is not marked.
Cleared(table, b) == [table EXCEPT ![b] = IF @ = 1 THEN 0 ELSE @]

===============================================================================
