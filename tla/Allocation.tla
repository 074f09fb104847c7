------------------------------ MODULE Allocation ------------------------------
(*****************************************************************************)
(* allocation.c: the three functions that change the block allocation table, *)
(* on a file system whose calls may fail.  Every call reads the whole table  *)
(* from its file, changes a copy and writes the whole table back.            *)
(*                                                                           *)
(* Simplifications: a short fwrite, and a write lost when the unchecked      *)
(* fclose flushes it, both leave a file that is too short to be read; the    *)
(* file name is set, so the exit(-1) guards do not fire.                     *)
(*                                                                           *)
(* A definition named Mutant... is a plausible bug: what the definition that *)
(* follows it would be if the code were wrong.                               *)
(*****************************************************************************)
EXTENDS BlockTable

CONSTANTS
    WriteFaults,  \* how write_table and unlink may fail
    ReadFaults,   \* whether a complete file may still fail to be read
    MaxHolders    \* bound on the history counter held

Faults == {"open_fails", "short_write", "unlink_fails"}

ASSUME FaultsAssumption == WriteFaults \subseteq Faults /\ ReadFaults \in BOOLEAN

ASSUME MaxHoldersAssumption == MaxHolders \in Nat

VARIABLES
    table,   \* the bytes of the file, meaningful while it is complete
    intact,  \* the file exists and holds NUM_BLOCKS bytes
    result,  \* the value the last call returned
    held,    \* history: how many callers were handed the block and hold it
    stale    \* history: the blocks a write_table that could not open was about

vars == <<table, intact, result, held, stale>>

FAILURE == -1

NoHolders == [b \in Blocks |-> 0]

Init ==
    /\ table = FormattedTable
    /\ intact = TRUE
    /\ result = 0
    /\ held = NoHolders
    /\ stale = {}

-------------------------------------------------------------------------------
\* read_table takes the zero bytes that a short fread left for a table.
MutantLost == intact' = TRUE /\ table' = FormattedTable

Lost == intact' = FALSE /\ table' = FormattedTable

\* write_table after the byte of block was changed.  fopen(file_name, "w")
\* truncates the file before anything is written; if it is refused, the file
\* keeps the table that was read.
WriteTable(new, block) ==
    \/ table' = new /\ intact' = TRUE /\ stale' = stale
    \/ "short_write" \in WriteFaults /\ Lost /\ stale' = stale
    \/ /\ "open_fails" \in WriteFaults
       /\ stale' = stale \cup {block}
       /\ UNCHANGED <<table, intact>>

\* read_table returns NULL: fopen, fread or malloc failed.
ReadFails ==
    /\ ~intact \/ ReadFaults
    /\ result' = FAILURE
    /\ UNCHANGED <<table, intact, held, stale>>

\* After unlink the disk is a new one: nobody holds a block of it.
FormatDisk ==
    /\ \/ table' = FormattedTable /\ intact' = TRUE /\ result' = 0
       \/ /\ WriteFaults \cap {"open_fails", "short_write"} # {}
          /\ Lost
          /\ result' = FAILURE
    /\ held' = NoHolders
    /\ stale' = {}

UnlinkFails ==
    /\ "unlink_fails" \in WriteFaults
    /\ result' = FAILURE
    /\ UNCHANGED <<table, intact, held, stale>>

\* The result of write_table is not looked at: i is returned in any case.
AllocateBlock ==
    /\ intact
    /\ \E i \in Blocks :
          /\ IsFirstUnused(table, i)
          /\ held[i] < MaxHolders
          /\ WriteTable(Marked(table, i), i)
          /\ held' = [held EXCEPT ![i] = @ + 1]
          /\ result' = i

\* The loop falls through and its counter is returned.
MutantNoBlockAvailable ==
    /\ intact
    /\ Full(table)
    /\ result' = NUM_BLOCKS
    /\ UNCHANGED <<table, intact, held, stale>>

NoBlockAvailable ==
    /\ intact
    /\ Full(table)
    /\ result' = FAILURE
    /\ UNCHANGED <<table, intact, held, stale>>

\* The caller gives back one of the holds on the block, if there is one.
\* Here too 0 is returned whether or not the table reached the file.
FreeBlock(block) ==
    /\ intact
    /\ table[block] = 1
    /\ WriteTable(Cleared(table, block), block)
    /\ held' = [held EXCEPT ![block] = IF @ = 0 THEN 0 ELSE @ - 1]
    /\ result' = 0

FreeRefused(block) ==
    /\ block \in Blocks => (intact /\ table[block] # 1)
    /\ result' = FAILURE
    /\ UNCHANGED <<table, intact, held, stale>>

Next ==
    \/ FormatDisk
    \/ UnlinkFails
    \/ ReadFails
    \/ AllocateBlock
    \/ NoBlockAvailable
    \/ \E block \in Blocks : FreeBlock(block)
    \/ \E block \in -1 .. NUM_BLOCKS : FreeRefused(block)

Spec == Init /\ [][Next]_vars

-------------------------------------------------------------------------------
(* Properties *)

\* The type invariant: a call returns a block number, 0 or -1.
TypeOK ==
    /\ table \in Table
    /\ intact \in BOOLEAN
    /\ result \in Blocks \cup {0, FAILURE}
    /\ held \in [Blocks -> Nat]
    /\ stale \subseteq Blocks

\* No block is in the hands of two callers, although allocate_block and
\* free_block ignore what write_table returns.  The only exception is a block
\* whose own update was refused by fopen: the damage of a refused write does
\* not spread, and a write that is cut short does none.
SingleHolder == \A b \in Blocks \ stale : held[b] <= 1

\* As long as the table can be read it tells the truth about all other blocks:
\* those marked 1 are the ones somebody holds, so free_block leaks no block
\* and none in use counts as available.
TableTellsHolders == intact => \A b \in Blocks \ stale : table[b] = held[b]

===============================================================================
