----------------------------- MODULE BootMemory -----------------------------
(***************************************************************************)
(* How the kernel entry code sets the physical memory manager up           *)
(* (initialise_memory in kernel/kernel_entry.c) and what single block      *)
(* requests find afterwards.  The boot code is a straight line of calls: a *)
(* region for each BIOS memory map entry that is free, then the regions    *)
(* the kernel already uses, then the first page table block for mapping    *)
(* the video memory, then the region of the page table that stage 2 used   *)
(* for the identity map and that is not needed any more.                   *)
(***************************************************************************)
EXTENDS Pmmngr, SequencesExt

CONSTANTS
  BiosMap,      \* BIOS memory map: [high, base, length, type] entries, where
                \* high is baseH and base and length are baseL and lengthL
  EbdaBases,    \* what the BIOS data area may give as EBDA base, in bytes
  RomBase,      \* 0xA0000, end of the EBDA
  ParagraphBits,\* an EBDA base above RomBase is shifted right by this many bits
  UsedBefore,   \* regions deinitialised before the EBDA: GDT, kernel stack
  UsedAfter,    \* and after it: video/ROM, bitmap, page directory, kernel
  OldPageTable, \* <<0x81000, 0x1000>>
  InUse,        \* what is in memory for good, told by those who use it: kernel
                \* stack, page directory and tables, bitmap, image of the kernel
                \* and so on, each a <<base, length>>
  KernelWindow  \* <<0x01000000, 0x400000>>: what stage 2 maps for the kernel

\* Where the program puts things: each region begins or ends at a block, as
\* the rounding of pmmngr_deinit_region needs it to; one of them begins at
\* address 0.  The old page table is made of whole blocks in the bitmap, and
\* lies in one of the regions.
ASSUME LayoutAssumption ==
  /\ \A used \in {UsedBefore, UsedAfter} :
       /\ used \in Seq(Nat \X Nat)
       /\ \A i \in DOMAIN used :
            used[i][1] % BlockSize = 0 \/ (used[i][1] + used[i][2]) % BlockSize = 0
  /\ \E i \in DOMAIN UsedBefore : UsedBefore[i][1] = 0 /\ UsedBefore[i][2] > 0
  /\ RomBase \in Nat /\ RomBase % BlockSize = 0
  /\ OldPageTable \in Nat \X Nat
  /\ OldPageTable[1] % BlockSize = 0 /\ OldPageTable[2] % BlockSize = 0
  /\ OldPageTable[1] > 0 /\ OldPageTable[1] + OldPageTable[2] <= MapBits * BlockSize
  /\ \E i \in DOMAIN UsedAfter :
       /\ UsedAfter[i][1] <= OldPageTable[1]
       /\ OldPageTable[1] + OldPageTable[2] <= UsedAfter[i][1] + UsedAfter[i][2]

Bytes(place) == place[1] .. place[1] + place[2] - 1

\* The boot code knows what is in use: each place lies in one of the regions,
\* and apart from the old page table.
ASSUME InUseAssumption ==
  /\ InUse \subseteq Nat \X Nat
  /\ \A place \in InUse :
       /\ \E used \in {UsedBefore, UsedAfter} : \E i \in DOMAIN used :
            Bytes(place) \subseteq Bytes(used[i])
       /\ Bytes(place) \cap Bytes(OldPageTable) = {}

\* Where the EBDA is taken to begin when the BIOS data area says e.
EbdaBaseOf(e) == IF e > RomBase THEN e \div 2 ^ ParagraphBits ELSE e

\* The BIOS data area holds a 16-bit number of paragraphs: shifted right, the
\* base is below RomBase.  The EBDA leaves the page tables their place.
ASSUME EbdaAssumption ==
  \A e \in EbdaBases :
    e \in Nat /\ EbdaBaseOf(e) \in 0 .. RomBase /\ OldPageTable[1] + OldPageTable[2] <= e

VARIABLES
  ebda,         \* the EBDA base read from the BIOS data area
  step          \* how many of the boot code's calls have been made

bootVars == <<vars, ebda, step>>

-----------------------------------------------------------------------------
(* The calls of the boot code.                                             *)

\* Memory above 4 GiB does not count towards the size.
AddLength(e, size) == IF e.high = 0 THEN size + e.length ELSE size

MemSize == FoldRight(AddLength, BiosMap, 0)

ASSUME MapAssumption ==
  BiosMap \in Seq([high : Nat, base : Nat, length : Nat, type : Nat])

ASSUME MapSizeAssumption == MaxBlocks = MemSize \div BlockSize

\* A slip: entries of every type.
InitCalls_any_type ==
  [i \in DOMAIN BiosMap |->
     [op |-> "init", base |-> BiosMap[i].base, size |-> BiosMap[i].length]]

\* The loop over the entries: by its type alone an entry becomes free.
InitCalls ==
  [i \in DOMAIN BiosMap |->
     [op   |-> IF BiosMap[i].type \in {1, 3} THEN "init" ELSE "skip",
      base |-> BiosMap[i].base,
      size |-> BiosMap[i].length]]

EbdaBase == EbdaBaseOf(ebda)

\* A slip: the list ends one region early.
DeinitCalls_without_last ==
  LET used == UsedBefore \o <<<<EbdaBase, RomBase - EbdaBase>>>> \o Front(UsedAfter)
  IN  [i \in DOMAIN used |-> [op |-> "deinit", base |-> used[i][1], size |-> used[i][2]]]

DeinitCalls ==
  LET used == UsedBefore \o <<<<EbdaBase, RomBase - EbdaBase>>>> \o UsedAfter
  IN  [i \in DOMAIN used |-> [op |-> "deinit", base |-> used[i][1], size |-> used[i][2]]]

MapVideoMemory == <<[op |-> "alloc", base |-> 0, size |-> 0]>>

FreeOldPageTable ==
  <<[op |-> "init", base |-> OldPageTable[1], size |-> OldPageTable[2]]>>

Calls == InitCalls \o DeinitCalls \o MapVideoMemory \o FreeOldPageTable

Booted == step = Len(Calls)

-----------------------------------------------------------------------------

BootInit ==
  /\ Init
  /\ ebda \in EbdaBases
  /\ step = 0

\* The next call.  A block request that fails is not noticed: the result of
\* vmmngr_map_page is not looked at.
BootStep ==
  /\ ~Booted
  /\ LET c == Calls[step + 1]
     IN  \/ c.op = "skip" /\ UNCHANGED vars
         \/ c.op = "init" /\ pmmngr_init_region(c.base, c.size)
         \/ c.op = "deinit" /\ pmmngr_deinit_region(c.base, c.size)
         \/ c.op = "alloc" /\ pmmngr_alloc_block
         \/ c.op = "alloc" /\ AllocFails /\ UNCHANGED vars
  /\ step' = step + 1
  /\ UNCHANGED ebda

\* Afterwards the kernel only asks for single blocks and gives them back.
RunTime ==
  /\ Booted
  /\ \/ pmmngr_alloc_block
     \/ \E b \in Bits : pmmngr_free_block(b)
  /\ UNCHANGED <<ebda, step>>

BootNext == BootStep \/ RunTime

BootSpec == BootInit /\ [][BootNext]_bootVars

-----------------------------------------------------------------------------
(* Properties.                                                             *)

\* What the machine uses: the places in memory, the EBDA where the BIOS data
\* area says it begins, and, until it is given back, the old page table.
PlacesInUse ==
  InUse \cup {<<ebda, RomBase - ebda>>} \cup (IF Booted THEN {} ELSE {OldPageTable})

BytesOf(b) == b * BlockSize .. (b + 1) * BlockSize - 1

\* Nobody is ever handed a block with a byte of what is in use, the GDT, the
\* kernel's stack, image and page tables, the EBDA, the ROM area and the
\* bitmap: the boot code strikes out a region for each of them, its calls come
\* before every request, and their rounding covers the regions.
UsedNeverHeld == \A b \in held : \A place \in PlacesInUse : BytesOf(b) \cap Bytes(place) = {}

\* The same for all that stage 2 maps for the kernel, image and heap behind it:
\* the regions the kernel has used are struck out (kernel_entry.c:170).  They
\* are up to 400 KiB; the heap goes on behind them.
WindowNeverHeld == \A b \in held : BytesOf(b) \cap Bytes(KernelWindow) = {}

\* A byte of RAM that the BIOS gives to the system, below 4 GiB.  What lies
\* above is ignored (kernel_entry.c:131).
IsRam(a) ==
  \E i \in DOMAIN BiosMap :
    /\ BiosMap[i].high = 0
    /\ BiosMap[i].type \in {1, 3}
    /\ a \in BiosMap[i].base .. BiosMap[i].base + BiosMap[i].length - 1

\* Every block handed out is RAM from its first to its last byte, although
\* regions are rounded to blocks and only some of what lies in the rounding
\* is taken back afterwards.
HeldIsRam ==
  \A b \in held : \A a \in BytesOf(b) : IsRam(a)

\* Requests get memory that exists and that nothing else is in.
HeldIsFreeRam == HeldIsRam /\ UsedNeverHeld

\* The set-up never ends with a counter that promises more blocks than the
\* bitmap has: the free count cannot exceed the clear bits of the map.
FreeCountIsBacked ==
  Booted => pmmngr_get_free_block_count <= Cardinality(Bits \ mmngrMemoryMap)

=============================================================================
