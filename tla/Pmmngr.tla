------------------------------- MODULE Pmmngr -------------------------------
(***************************************************************************)
(* The physical memory manager, kernel/memory/pmmngr.c: a bitmap with one  *)
(* bit for each 4 KiB block (set = in use) and a counter of used blocks    *)
(* kept beside it.  Sizes are scaled: BlockSize bytes make a block and     *)
(* WordBits bits a word of the bitmap, which the scan and the initial fill *)
(* treat a whole word at a time.                                           *)
(*                                                                         *)
(* The callers are the boot code (region calls) and the virtual memory and *)
(* process managers (single blocks).  Their contract is in the guards:     *)
(* they give back what they hold, and no region call covers a held block.  *)
(* Runs of blocks (pmmngr_alloc_blocks) are added in PmmngrRuns.           *)
(***************************************************************************)
EXTENDS Integers, FiniteSets, FiniteSetsExt

CONSTANTS
  WordBits,     \* bits in a word of the bitmap (32)
  BlockSize,    \* PMMNGR_BLOCK_SIZE in bytes (4096)
  MaxBlocks,    \* mmngrMaxBlocks: blocks of memory reported by the BIOS
  MapBits,      \* bits of the mapped bitmap area (64 pages of bits)
  Modulus,      \* the counters are uint32_t: arithmetic is modulo 2^32
  Regions       \* the <<base, size>> byte ranges the boot code may pass

ASSUME SizesAssumption ==
  /\ WordBits \in Nat \ {0}
  /\ BlockSize \in Nat \ {0}
  /\ MaxBlocks \in Nat
  /\ MapBits \in Nat
  /\ MaxBlocks < MapBits
  /\ Modulus \in Nat
  /\ MapBits < Modulus

VARIABLES
  mmngrMemoryMap,    \* the set of bits that are set
  mmngrUsedBlocks,   \* the counter
  usable,            \* ghost: blocks declared usable by region calls
  held               \* ghost: blocks handed out and not given back

vars == <<mmngrMemoryMap, mmngrUsedBlocks, usable, held>>

Bits == 0 .. MapBits - 1

-----------------------------------------------------------------------------
(* The blocks a region call touches.                                       *)

CeilDiv(n, d) == IF n % d = 0 THEN n \div d ELSE n \div d + 1

\* Rounds base up and, independently, size up.
InitBlocks(base, size) ==
  LET start == CeilDiv(base, BlockSize)
  IN  start .. start + CeilDiv(size, BlockSize) - 1

\* Rounds base down and size up.
DeinitBlocks(base, size) ==
  LET start == base \div BlockSize
  IN  start .. start + CeilDiv(size, BlockSize) - 1

ASSUME RegionsAssumption ==
  \A r \in Regions :
    /\ r \in Nat \X Nat
    /\ InitBlocks(r[1], r[2]) \subseteq Bits
    /\ DeinitBlocks(r[1], r[2]) \subseteq Bits

-----------------------------------------------------------------------------
(* Bitmap and counter primitives.                                          *)

\* The words that the initial fill and the scans cover completely; the last
\* MaxBlocks % WordBits blocks are outside.
WholeWords == MaxBlocks \div WordBits

Scanned == 0 .. WholeWords * WordBits - 1

\* A slip: the scan stops a word early.
mmap_first_free_stops_early ==
  LET clear == (0 .. (WholeWords - 1) * WordBits - 1) \ mmngrMemoryMap
  IN  IF clear = {} THEN 0 ELSE Min(clear)

\* mmap_first_free: the lowest clear bit, 0 when there is none.
mmap_first_free ==
  LET clear == Scanned \ mmngrMemoryMap
  IN  IF clear = {} THEN 0 ELSE Min(clear)

Plus(n)  == (mmngrUsedBlocks + n) % Modulus
Minus(n) == (mmngrUsedBlocks - n) % Modulus

pmmngr_get_free_block_count == (MaxBlocks - mmngrUsedBlocks) % Modulus

-----------------------------------------------------------------------------
(* Operations.                                                             *)

\* pmmngr_init.  The fill stops at the last whole word: the rest of the
\* bitmap area holds whatever the memory held.
Init ==
  /\ \E rest \in SUBSET (Bits \ Scanned) : mmngrMemoryMap = Scanned \cup rest
  /\ mmngrUsedBlocks = MaxBlocks
  /\ usable = {}
  /\ held = {}

\* A slip: block 0 is not marked used again.
pmmngr_init_region_frees_zero(base, size) ==
  LET S == InitBlocks(base, size)
  IN  /\ S \cap held = {}
      /\ mmngrMemoryMap' = mmngrMemoryMap \ S
      /\ mmngrUsedBlocks' = Minus(Cardinality(S))
      /\ usable' = (usable \cup S) \ {0}
      /\ UNCHANGED held

pmmngr_init_region(base, size) ==
  LET S == InitBlocks(base, size)
  IN  /\ S \cap held = {}
      /\ mmngrMemoryMap' = (mmngrMemoryMap \ S) \cup {0}
      /\ mmngrUsedBlocks' = Minus(Cardinality(S))
      /\ usable' = (usable \cup S) \ {0}
      /\ UNCHANGED held

\* A slip: the counter is left alone.
pmmngr_deinit_region_uncounted(base, size) ==
  LET S == DeinitBlocks(base, size)
  IN  /\ S \cap held = {}
      /\ mmngrMemoryMap' = mmngrMemoryMap \cup S
      /\ usable' = usable \ S
      /\ UNCHANGED <<mmngrUsedBlocks, held>>

pmmngr_deinit_region(base, size) ==
  LET S == DeinitBlocks(base, size)
  IN  /\ S \cap held = {}
      /\ mmngrMemoryMap' = mmngrMemoryMap \cup S
      /\ mmngrUsedBlocks' = Plus(Cardinality(S))
      /\ usable' = usable \ S
      /\ UNCHANGED held

\* pmmngr_alloc_block answers 0, "out of memory", and changes nothing.
AllocFails ==
  \/ pmmngr_get_free_block_count = 0
  \/ mmap_first_free = 0

pmmngr_alloc_block ==
  /\ ~AllocFails
  /\ mmngrMemoryMap' = mmngrMemoryMap \cup {mmap_first_free}
  /\ mmngrUsedBlocks' = Plus(1)
  /\ held' = held \cup {mmap_first_free}
  /\ UNCHANGED usable

\* A slip: the counter is not decremented.
pmmngr_free_block_uncounted(b) ==
  /\ b \in held
  /\ mmngrMemoryMap' = mmngrMemoryMap \ {b}
  /\ held' = held \ {b}
  /\ UNCHANGED <<mmngrUsedBlocks, usable>>

pmmngr_free_block(b) ==
  /\ b \in held
  /\ mmngrMemoryMap' = mmngrMemoryMap \ {b}
  /\ mmngrUsedBlocks' = Minus(1)
  /\ held' = held \ {b}
  /\ UNCHANGED usable

RegionCall ==
  \E r \in Regions :
    \/ pmmngr_init_region(r[1], r[2])
    \/ pmmngr_deinit_region(r[1], r[2])

Next ==
  \/ RegionCall
  \/ pmmngr_alloc_block
  \/ \E b \in Bits : pmmngr_free_block(b)

Spec == Init /\ [][Next]_vars

-----------------------------------------------------------------------------
(* Properties.                                                             *)

\* Every variable has its type; the counter is a uint32_t.
TypeOK ==
  /\ mmngrMemoryMap \subseteq Bits
  /\ mmngrUsedBlocks \in 0 .. Modulus - 1
  /\ usable \subseteq Bits
  /\ held \subseteq Bits

\* The bitmap is an exact ledger wherever the scans look: a bit is set just
\* when the block was never declared usable (or was reserved since) or some
\* caller holds it.  A set bit too many leaks a block for ever, one too few
\* lets mmap_first_free hand out a block twice or hand out reserved memory.
MapIsLedger ==
  \A b \in Scanned : b \in mmngrMemoryMap <=> (b \notin usable \/ b \in held)

\* Callers only ever hold blocks that a region call declared usable, and
\* never block 0, whose address would read as "out of memory"
\* (pmmngr_init_region: "This insures allocs cant be 0").
HeldIsUsable == held \subseteq (usable \cap Scanned) \ {0}

\* The difference between the counter and the bitmap, modulo 2^32.
Drift == (mmngrUsedBlocks - Cardinality(mmngrMemoryMap)) % Modulus

\* Handing out and giving back blocks moves counter and bitmap together: the
\* gap the region calls leave between them is never widened at run time.
RuntimeKeepsDrift == [][RegionCall \/ Drift' = Drift]_vars

\* When the counter is not above the number of set bits, a request is refused
\* only if no usable block is left in the words the scan covers.
RefusedOnlyWhenFull ==
  mmngrUsedBlocks <= Cardinality(mmngrMemoryMap \cap (0 .. MaxBlocks - 1))
    => (AllocFails => (usable \cap Scanned) \subseteq held)

\* On the blocks that the scan covers the allocator implements the ledger of
\* FrameAllocator.
Ledger == INSTANCE FrameAllocator WITH Frame <- Scanned,
                                       usable <- usable \cap Scanned,
                                       held <- held \cap Scanned

ImplementsFrameAllocator == Ledger!Spec

\* An answer of pmmngr_alloc_block is a ledger allocation, never a block that
\* some caller has already: handing one out twice would be a stutter of the
\* ledger, which refinement alone lets pass.
EveryAnswerIsFresh ==
  [][pmmngr_alloc_block => mmap_first_free \notin held /\ Ledger!Alloc({mmap_first_free})]_vars

=============================================================================
