-------------------------- MODULE Allocation_proofs ---------------------------
(*****************************************************************************)
(* Proofs about Allocation for a table of any length, any number of holders  *)
(* and any set of faults of the file system under it.                        *)
(*****************************************************************************)
EXTENDS Allocation, TLAPS

\* What write_table leaves is again a table, it changes the byte of one block
\* only, and a byte that did not reach the file makes its block stale.
LEMMA WriteTableEffect ==
    ASSUME table \in Table, stale \subseteq Blocks,
           NEW block \in Blocks, NEW v \in {0, 1},
           WriteTable([table EXCEPT ![block] = v], block)
    PROVE  /\ table' \in Table
           /\ intact' \in {TRUE, FALSE, intact}
           /\ stale' \subseteq Blocks
           /\ stale \subseteq stale'
           /\ intact' /\ block \notin stale' => table'[block] = v
           /\ intact' => \A b \in Blocks \ {block} : table'[b] = table[b]
BY DEF WriteTable, Lost, FormattedTable, Table

-------------------------------------------------------------------------------
(* Types *)

\* Init gives every variable a value of its type.
LEMMA InitTypeOK == Init => TypeOK
BY NumBlocksAssumption
   DEF Init, TypeOK, Table, FormattedTable, NoHolders, Blocks, FAILURE

\* Every step keeps the types.
LEMMA NextTypeOK == TypeOK /\ [Next]_vars => TypeOK'
<1> SUFFICES ASSUME TypeOK, [Next]_vars PROVE TypeOK'
    OBVIOUS
<1> USE DEF TypeOK
<1>1. CASE FormatDisk
  BY <1>1 DEF FormatDisk, Lost, Table, FormattedTable, NoHolders
<1>2. CASE UnlinkFails
  BY <1>2 DEF UnlinkFails
<1>3. CASE ReadFails
  BY <1>3 DEF ReadFails
<1>4. CASE AllocateBlock
  <2>1. PICK i \in Blocks : /\ WriteTable([table EXCEPT ![i] = 1], i)
                            /\ held' = [held EXCEPT ![i] = @ + 1]
                            /\ result' = i
    BY <1>4 DEF AllocateBlock, Marked
  <2>2. table' \in Table /\ intact' \in BOOLEAN /\ stale' \subseteq Blocks
    BY <2>1, WriteTableEffect
  <2>3. held' \in [Blocks -> Nat]
    BY <2>1
  <2>4. QED
    BY <2>1, <2>2, <2>3
<1>5. CASE NoBlockAvailable
  BY <1>5 DEF NoBlockAvailable
<1>6. ASSUME NEW block \in Blocks, FreeBlock(block) PROVE TypeOK'
  <2>1. WriteTable([table EXCEPT ![block] = 0], block)
    BY <1>6 DEF FreeBlock, Cleared
  <2>2. table' \in Table /\ intact' \in BOOLEAN /\ stale' \subseteq Blocks
    BY <2>1, WriteTableEffect
  <2>3. held' \in [Blocks -> Nat]
    BY <1>6 DEF FreeBlock
  <2>4. result' = 0
    BY <1>6 DEF FreeBlock
  <2>5. QED
    BY <2>2, <2>3, <2>4
<1>7. ASSUME NEW block \in -1 .. NUM_BLOCKS, FreeRefused(block) PROVE TypeOK'
  BY <1>7 DEF FreeRefused
<1>8. CASE UNCHANGED vars
  BY <1>8 DEF vars
<1>9. QED
  BY <1>1, <1>2, <1>3, <1>4, <1>5, <1>6, <1>7, <1>8 DEF Next

\* Whatever fails, the table stays a table and a call returns a block, 0 or -1.
THEOREM TypeCorrect == Spec => []TypeOK
BY InitTypeOK, NextTypeOK, PTL DEF Spec

-------------------------------------------------------------------------------
(* Holders *)

\* SingleHolder alone is not inductive: that allocate_block takes a block
\* marked 0 says nothing of its holders unless the table tells them.  After a
\* lost table nothing is handed out until the disk is formatted.
HoldersInv == TypeOK /\ SingleHolder /\ TableTellsHolders

LEMMA InitHolders == Init => SingleHolder /\ TableTellsHolders
BY DEF Init, SingleHolder, TableTellsHolders, FormattedTable, NoHolders

LEMMA NextHolders == HoldersInv /\ [Next]_vars => HoldersInv'
<1> SUFFICES ASSUME HoldersInv, [Next]_vars
             PROVE  SingleHolder' /\ TableTellsHolders'
    BY NextTypeOK DEF HoldersInv
<1> USE DEF HoldersInv, TypeOK, SingleHolder, TableTellsHolders
<1>1. CASE FormatDisk
  BY <1>1 DEF FormatDisk, Lost, FormattedTable, NoHolders
<1>2. CASE UnlinkFails \/ ReadFails \/ NoBlockAvailable
  BY <1>2 DEF UnlinkFails, ReadFails, NoBlockAvailable
<1>3. CASE AllocateBlock
  <2>1. PICK i \in Blocks : /\ table[i] = 0
                            /\ WriteTable([table EXCEPT ![i] = 1], i)
                            /\ held' = [held EXCEPT ![i] = @ + 1]
    BY <1>3 DEF AllocateBlock, Marked, IsFirstUnused
  <2>2. i \in stale \/ held[i] = 0
    BY <1>3, <2>1 DEF AllocateBlock
  <2>3. stale \subseteq stale'
    BY <2>1, WriteTableEffect
  <2>4. held' = [held EXCEPT ![i] = held[i] + 1]
    BY <2>1
  <2>5. SingleHolder'
    BY <2>2, <2>3, <2>4
  <2>6. TableTellsHolders'
    <3>1. intact
      BY <1>3 DEF AllocateBlock
    <3>2. intact' => /\ i \notin stale' => table'[i] = 1
                     /\ \A b \in Blocks \ {i} : table'[b] = table[b]
      BY <2>1, WriteTableEffect
    <3>3. QED
      BY <2>2, <2>3, <2>4, <3>1, <3>2
  <2>7. QED
    BY <2>5, <2>6
<1>4. ASSUME NEW block \in Blocks, FreeBlock(block)
      PROVE  SingleHolder' /\ TableTellsHolders'
  <2>1. /\ intact
        /\ table[block] = 1
        /\ WriteTable([table EXCEPT ![block] = 0], block)
        /\ held' = [held EXCEPT ![block] =
                        IF held[block] = 0 THEN 0 ELSE held[block] - 1]
    BY <1>4 DEF FreeBlock, Cleared
  <2>2. block \in stale \/ held[block] = 1
    BY <2>1
  <2>3. stale \subseteq stale'
    BY <2>1, WriteTableEffect
  <2>4. intact' => /\ block \notin stale' => table'[block] = 0
                   /\ \A b \in Blocks \ {block} : table'[b] = table[b]
    BY <2>1, WriteTableEffect
  <2>5. QED
    BY <2>1, <2>2, <2>3, <2>4
<1>5. ASSUME NEW block \in -1 .. NUM_BLOCKS, FreeRefused(block)
      PROVE  SingleHolder' /\ TableTellsHolders'
  BY <1>5 DEF FreeRefused
<1>6. CASE UNCHANGED vars
  BY <1>6 DEF vars
<1>7. QED
  BY <1>1, <1>2, <1>3, <1>4, <1>5, <1>6 DEF Next

\* On a disk of any size no block has two holders, except a block whose own
\* update was refused by the file system.
THEOREM SingleHolderHolds == Spec => []SingleHolder
<1>1. Init => HoldersInv
  BY InitTypeOK, InitHolders DEF HoldersInv
<1>2. HoldersInv => SingleHolder
  BY DEF HoldersInv
<1>3. QED
  BY <1>1, <1>2, NextHolders, PTL DEF Spec

\* On a disk of any size a table that can be read marks the held blocks and
\* no others, except a block whose own update was refused.
THEOREM TableTellsHoldersHolds == Spec => []TableTellsHolders
<1>1. Init => HoldersInv
  BY InitTypeOK, InitHolders DEF HoldersInv
<1>2. HoldersInv => TableTellsHolders
  BY DEF HoldersInv
<1>3. QED
  BY <1>1, <1>2, NextHolders, PTL DEF Spec

===============================================================================
