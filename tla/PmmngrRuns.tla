----------------------------- MODULE PmmngrRuns -----------------------------
(***************************************************************************)
(* The half of kernel/memory/pmmngr.c that hands out runs of contiguous    *)
(* blocks (pmmngr_alloc_blocks, pmmngr_free_blocks and their scan          *)
(* mmap_first_free_s), beside the single block operations of Pmmngr.       *)
(* pmmngr.h exports them; nothing in the kernel calls them yet.            *)
(***************************************************************************)
EXTENDS Pmmngr

CONSTANT Amounts      \* lengths of the runs that are asked for

ASSUME AmountsAssumption == Amounts \subseteq Nat \ {0}

\* mmap_test: bits above mmngrMaxBlocks read as set; bit mmngrMaxBlocks
\* itself, one past the last block, is read from the map.
mmap_test(bit) == bit > MaxBlocks \/ bit \in mmngrMemoryMap

\* Length of the free run at p, counted up to amount.
FreeRun(p, amount) ==
  LET taken == {j \in 0 .. amount - 1 : mmap_test(p + j)}
  IN  IF taken = {} THEN amount ELSE Min(taken)

WordIsFull(i) == i * WordBits .. (i + 1) * WordBits - 1 \subseteq mmngrMemoryMap

\* The two nested loops of mmap_first_free_s as one walk over the position
\* p = i * WordBits + k: where it goes on if there is no run at p.  A run that
\* is too short moves k past it; when that leaves the word, i is advanced as
\* well and then once more by its loop, so the rest of the word in which the
\* run ended is not looked at.
NextPosition(p, amount) ==
  LET i == p \div WordBits
      k == p % WordBits
      r == FreeRun(p, amount)
  IN  IF k = 0 /\ WordIsFull(i) THEN (i + 1) * WordBits
      ELSE IF k + r >= WordBits THEN (i + (k + r) \div WordBits + 1) * WordBits
      ELSE p + r + 1

\* There is no run where the word is full, so that is not asked for twice.
ScanFrom(start, amount) ==
  LET scan[p \in Nat] ==
        IF p \notin Scanned THEN 0
        ELSE IF FreeRun(p, amount) = amount THEN p
        ELSE scan[NextPosition(p, amount)]
  IN  scan[start]

\* A slip: the run is taken where the first clear bit is, whatever its length.
mmap_first_free_s_any_length(amount) == ScanFrom(0, 1)

mmap_first_free_s(amount) == ScanFrom(0, amount)

Run(b, amount) == b .. b + amount - 1

\* The refusals of pmmngr_alloc_blocks.
RunFails(amount) ==
  \/ pmmngr_get_free_block_count = 0
  \/ amount > pmmngr_get_free_block_count
  \/ mmap_first_free_s(amount) = 0

pmmngr_alloc_blocks(amount) ==
  /\ ~RunFails(amount)
  /\ LET R == Run(mmap_first_free_s(amount), amount)
     IN  /\ mmngrMemoryMap' = mmngrMemoryMap \cup R
         /\ held' = held \cup R
  /\ mmngrUsedBlocks' = Plus(amount)
  /\ UNCHANGED usable

pmmngr_free_blocks(b, amount) ==
  /\ Run(b, amount) \subseteq held
  /\ mmngrMemoryMap' = mmngrMemoryMap \ Run(b, amount)
  /\ mmngrUsedBlocks' = Minus(amount)
  /\ held' = held \ Run(b, amount)
  /\ UNCHANGED usable

RunsNext ==
  \/ Next
  \/ \E a \in Amounts : pmmngr_alloc_blocks(a)
  \/ \E a \in Amounts, b \in Bits : pmmngr_free_blocks(b, a)

RunsSpec == Init /\ [][RunsNext]_vars

-----------------------------------------------------------------------------
(* Properties.                                                             *)

\* What is handed out is nobody's, be it a block or a run: the scans answer
\* blocks that are all clear and that no caller holds, although the one for
\* runs mixes positions of two loops.
RunIsFresh ==
  [][LET Fresh(S) == S \cap (held \cup mmngrMemoryMap) = {}
     IN  /\ pmmngr_alloc_block => Fresh({mmap_first_free})
         /\ \A a \in Amounts : pmmngr_alloc_blocks(a) => Fresh(Run(mmap_first_free_s(a), a))]_vars

=============================================================================
