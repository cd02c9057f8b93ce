----------------------------- MODULE BootLoader -----------------------------
(***************************************************************************)
(* From the boot sector to the entry of the kernel:                        *)
(* bootloader/bootloader.asm loads the root directory, the FAT, STAGE2.BIN *)
(* and KERNEL.BIN with BIOS disk calls; bootloader/stage2.asm asks the     *)
(* BIOS for the memory map, copies the kernel to 16 MiB, sets paging up    *)
(* and calls the kernel.  Addresses, sector numbers and the 16-bit         *)
(* arithmetic on them are the program's own, in decimal.                   *)
(*                                                                         *)
(* Memory is known by the pieces of the disk that were loaded into it.  A  *)
(* piece is cut short where something else is written over its end, by     *)
(* another load or by the BIOS that stores its memory map behind stage 2,  *)
(* and it is gone when that happens to its beginning.                      *)
(***************************************************************************)
EXTENDS Integers, Sequences

CONSTANTS
  Disks,        \* [files, start, fat, kernel]: the names in the root directory,
                \* their first clusters, the FAT, and the clusters of the kernel
  Stage2Length, \* bytes of STAGE2.BIN
  Bioses        \* [report, carry]: what the BIOS answers in turn, each with
                \* [size, ignore, entry], and whether it ends the list by
                \* carry or by EBX = 0

ASSUME BiosAssumption ==
  \A b \in Bioses :
    /\ b.carry \in BOOLEAN
    /\ b.report \in Seq([size : Nat, ignore : BOOLEAN,
                         entry : [high : Nat, base : Nat, length : Nat, type : Nat]])

VARIABLES
  disk,         \* the disk that is booted from
  bios,         \* the BIOS of the machine
  phase,        \* what is done next
  cluster,      \* DI: the cluster to load
  segment,      \* bufSegment, an argument of load_file that it increments
  memory,       \* pieces by linear address: [size, sector, count], of which
                \* size bytes are left
  asked,        \* how often the BIOS was asked for an entry of its map
  mmap          \* the entries stored from MemMapAddress on

loaderVars == <<disk, bios, phase, cluster, segment, memory, asked, mmap>>

Word == 65536

-----------------------------------------------------------------------------
(* The volume.                                                             *)

bpbBytesPerSector       == 512
bpbSectorsPerCluster    == 8
bpbReservedSectors      == 1
bpbNumberOfFATS         == 1
bpbRootDirectoryEntries == 16
bpbSectorsPerFAT        == 16

\* Where the file system has its parts.
RootDirStart == bpbReservedSectors + bpbNumberOfFATS * bpbSectorsPerFAT
RootDirSectors == (bpbRootDirectoryEntries * 32) \div bpbBytesPerSector
DataStart == RootDirStart + RootDirSectors

\* A byte of the BPB that is loaded as a word has the low byte of the field
\* behind it above it.
AsWord(byte, behind) == byte + 256 * (behind % 256)

\* Where the boot sector looks for the root directory: in the end the surplus
\* byte falls out of the 16-bit product.
FirstRootSector ==
  (((AsWord(bpbNumberOfFATS, bpbRootDirectoryEntries) * bpbSectorsPerFAT) % Word)
     + bpbReservedSectors) % Word

datasector ==
  ((bpbRootDirectoryEntries * 32 + bpbBytesPerSector - 1) \div bpbBytesPerSector
     + FirstRootSector) % Word

SectorOf(c) == ((c - 2) * bpbSectorsPerCluster + datasector) % Word

\* The clusters that a FAT of two bytes per entry describes; there are no
\* clusters 0 and 1.
Clusters == 2 .. (bpbSectorsPerFAT * bpbBytesPerSector) \div 2 - 1

EndsChain(entry) == entry >= 65528      \* 0xFFF8

\* The FAT chains the clusters of the kernel in their order; STAGE2.BIN is not
\* longer than one.
ASSUME VolumeAssumption ==
  \A d \in Disks :
    /\ d.kernel \in Seq(Clusters) /\ d.kernel # <<>>
    /\ d.start.kernel = d.kernel[1] /\ d.start.stage2 \in Clusters
    /\ d.start.stage2 \in DOMAIN d.fat /\ EndsChain(d.fat[d.start.stage2])
    /\ \A i \in DOMAIN d.kernel :
         /\ d.kernel[i] \in DOMAIN d.fat
         /\ IF i = Len(d.kernel) THEN EndsChain(d.fat[d.kernel[i]])
                                 ELSE d.fat[d.kernel[i]] = d.kernel[i + 1]

\* A slip: the whole 32-bit product is divided.
SegmentStep_unclipped ==
  (AsWord(bpbSectorsPerCluster, bpbReservedSectors) * bpbBytesPerSector) \div 16

\* By how much bufSegment grows from cluster to cluster; the surplus byte of
\* the word falls out here too, with DX.
SegmentStep ==
  ((AsWord(bpbSectorsPerCluster, bpbReservedSectors) * bpbBytesPerSector) % Word) \div 16

-----------------------------------------------------------------------------
(* Memory.                                                                 *)

BootSector    == 31744      \* 0x7C00
Stage2Address == 1792       \* 0x0700
RootDirBuffer == 33280      \* 0x8200, and KernelAddress of stage 2

FatAddress == 27680 * 16    \* 0x6C20:0000

MemMapAddress == 2816       \* 0x0B00
EntrySize     == 24

KernelMax        == 409600      \* 0x64000
NewKernelAddress == 16777216    \* 0x01000000

Piece(s, n) == [size |-> n * bpbBytesPerSector, sector |-> s, count |-> n]

\* What n bytes written from address a on leave of the pieces.
Overwritten(a, n) ==
  [x \in {y \in DOMAIN memory : y < a \/ a + n <= y} |->
     IF x < a /\ a < x + memory[x].size THEN [memory[x] EXCEPT !.size = a - x]
     ELSE memory[x]]

\* int 0x13: n sectors from sector s on, to address a.
Loaded(a, s, n) ==
  LET left == Overwritten(a, n * bpbBytesPerSector)
  IN  [x \in DOMAIN left \cup {a} |-> IF x = a THEN Piece(s, n) ELSE left[x]]

\* The n sectors from sector s on are at address a, whole or up to some byte.
Holds(a, s, n) == a \in DOMAIN memory /\ memory[a] = Piece(s, n)

Begins(a, s, n, bytes) ==
  /\ a \in DOMAIN memory
  /\ memory[a].sector = s /\ memory[a].count = n /\ memory[a].size >= bytes

\* A sector could not be loaded, or a file is missing: a message and halt.
Halts ==
  /\ phase' = "halted"
  /\ UNCHANGED <<disk, bios, cluster, segment, memory, asked, mmap>>

\* Stage 2 ends before the place of the memory map, as the some 600 bytes of
\* stage2.asm do.
ASSUME Stage2Assumption == Stage2Length \in 1 .. MemMapAddress - Stage2Address

\* A BIOS has no more entries than there is room for before the kernel: 1262.
ASSUME ReportFits ==
  \A b \in Bioses : MemMapAddress + EntrySize * (Len(b.report) + 1) <= RootDirBuffer

-----------------------------------------------------------------------------
(* The boot sector.                                                        *)

LoaderInit ==
  /\ disk \in Disks
  /\ bios \in Bioses
  /\ phase = "root_dir"
  /\ cluster = 0 /\ segment = 0
  /\ memory = [x \in {BootSector} |-> Piece(0, 1)]
  /\ asked = 0 /\ mmap = <<>>

load_root_dir ==
  /\ phase = "root_dir"
  /\ memory' = Loaded(RootDirBuffer, FirstRootSector, RootDirSectors)
  /\ phase' = "FAT"
  /\ UNCHANGED <<disk, bios, cluster, segment, asked, mmap>>

\* What is done when the FAT or a file has been loaded.
Find == [stage2 |-> "find_stage2", kernel |-> "find_kernel"]
NextFile == [FAT |-> Find.stage2, stage2 |-> Find.kernel, kernel |-> "memory_map"]

load_fat ==
  /\ phase = "FAT"
  /\ memory' = Loaded(FatAddress, bpbReservedSectors, bpbSectorsPerFAT)
  /\ phase' = NextFile.FAT
  /\ UNCHANGED <<disk, bios, cluster, segment, asked, mmap>>

Files == {"stage2", "kernel"}

\* load_file looks the name up in the root directory, as far as that is still
\* where it was loaded.
find_file(f) ==
  /\ phase = Find[f]
  /\ f \in disk.files /\ Holds(RootDirBuffer, RootDirStart, RootDirSectors)
  /\ cluster' = disk.start[f]
  /\ segment' = 0
  /\ phase' = f
  /\ UNCHANGED <<disk, bios, memory, asked, mmap>>

no_file(f) ==
  /\ phase = Find[f]
  /\ ~(f \in disk.files /\ Holds(RootDirBuffer, RootDirStart, RootDirSectors))
  /\ Halts

\* The FAT entry of cluster c, read behind the FAT or where something else has
\* been loaded over it: anything.
FatEntries(c) ==
  IF Holds(FatAddress, bpbReservedSectors, bpbSectorsPerFAT)' /\ c \in DOMAIN disk.fat
  THEN {disk.fat[c]} ELSE {2, Word - 1}

BufferOffset(f) == IF f = "stage2" THEN Stage2Address ELSE RootDirBuffer

load_cluster(f) ==
  /\ phase = f
  /\ memory' = Loaded(segment * 16 + BufferOffset(f), SectorOf(cluster), bpbSectorsPerCluster)
  /\ \E entry \in FatEntries(cluster) :
       \/ /\ EndsChain(entry)
          /\ phase' = NextFile[f]
          /\ UNCHANGED <<cluster, segment>>
       \/ /\ ~EndsChain(entry)
          /\ cluster' = entry
          /\ segment' = (segment + SegmentStep) % Word
          /\ UNCHANGED phase
  /\ UNCHANGED <<disk, bios, asked, mmap>>

\* int 0x13 reports an error for any of the loads.
load_sector_error ==
  /\ phase \in {"root_dir", "FAT"} \cup Files
  /\ Halts

-----------------------------------------------------------------------------
(* Stage 2.                                                                *)

\* The call of the BIOS that is next has an entry to give, and it is the last.
HasEntry == asked < Len(bios.report)
EbxIsZero == ~bios.carry /\ asked + 1 = Len(bios.report)

\* For each call stage 2 and the BIOS write to the place that is next in the
\* list, whatever becomes of the answer.
Asking == Overwritten(MemMapAddress + EntrySize * Len(mmap), EntrySize)

\* An empty list, and one that ends with its first entry, are taken for a
\* BIOS without memory map.
e820_failed ==
  /\ phase = "memory_map" /\ asked = 0
  /\ ~HasEntry \/ EbxIsZero
  /\ memory' = Asking
  /\ phase' = "halted"
  /\ UNCHANGED <<disk, bios, cluster, segment, asked, mmap>>

\* A slip: the entry that comes with EBX = 0 is dropped.
Stored_all_but_last(reply) ==
  /\ ~EbxIsZero
  /\ reply.size > 0 /\ ~(reply.size > 20 /\ reply.ignore) /\ reply.entry.length > 0

\* An entry is kept if it has a size, its "ignore" bit, if it is long enough
\* to have one, does not say otherwise, and it describes some memory.
Stored(reply) ==
  /\ reply.size > 0 /\ ~(reply.size > 20 /\ reply.ignore) /\ reply.entry.length > 0

\* A slip: EBX is not kept from call to call, and the list starts over.
e820_entry_starts_over ==
  /\ phase = "memory_map" /\ HasEntry
  /\ asked > 0 \/ ~EbxIsZero
  /\ LET reply == bios.report[1]
     IN  mmap' = IF Stored(reply) THEN Append(mmap, reply.entry) ELSE mmap
  /\ memory' = Asking
  /\ UNCHANGED <<disk, bios, phase, cluster, segment, asked>>

e820_entry ==
  /\ phase = "memory_map" /\ HasEntry
  /\ asked > 0 \/ ~EbxIsZero
  /\ LET reply == bios.report[asked + 1]
     IN  mmap' = IF Stored(reply) THEN Append(mmap, reply.entry) ELSE mmap
  /\ memory' = Asking
  /\ asked' = asked + 1
  /\ phase' = IF EbxIsZero THEN "copy" ELSE phase
  /\ UNCHANGED <<disk, bios, cluster, segment>>

e820_carry ==
  /\ phase = "memory_map" /\ asked > 0 /\ ~HasEntry
  /\ memory' = Asking
  /\ phase' = "copy"
  /\ UNCHANGED <<disk, bios, cluster, segment, asked, mmap>>

\* 400 KiB are copied, whatever the size of the kernel.
copy_kernel ==
  /\ phase = "copy"
  /\ LET copied == {x \in DOMAIN memory :
                      RootDirBuffer <= x /\ x + memory[x].size <= RootDirBuffer + KernelMax}
         moved  == {x - RootDirBuffer + NewKernelAddress : x \in copied}
     IN  memory' = [x \in DOMAIN memory \cup moved |->
                      IF x \in moved THEN memory[x - NewKernelAddress + RootDirBuffer]
                      ELSE memory[x]]
  /\ phase' = "entered"
  /\ UNCHANGED <<disk, bios, cluster, segment, asked, mmap>>

PageSize == 4096

\* setup_paging: the page tables behind the entries of the page directory.
\* They map the first 4 MiB, the kernel's 4 MiB and two pages of stack.
PageDirectory(i) ==
  CASE i = 0   -> [j \in 0 .. 1023 |-> j * PageSize]
    [] i = 768 -> [j \in 0 .. 1023 |-> NewKernelAddress + j * PageSize]
    [] i = 960 -> [j \in {0, 1} |-> 524288 - (2 - j) * PageSize]
    [] OTHER   -> <<>>

\* The physical page behind virtual page v.
Translate(v) == PageDirectory(v \div 1024)[v % 1024]

LoaderNext ==
  \/ load_root_dir
  \/ load_fat
  \/ \E f \in Files : find_file(f) \/ no_file(f) \/ load_cluster(f)
  \/ load_sector_error
  \/ e820_failed
  \/ e820_entry
  \/ e820_carry
  \/ copy_kernel

-----------------------------------------------------------------------------
(* Properties.                                                             *)

\* The page number of 0xC0000000, where stage 2 calls the kernel.
KernelPage == 786432

Loading == {"root_dir", "FAT", Find.stage2, Find.kernel} \cup Files

\* What runs is there: the boot sector is never loaded over while it loads,
\* stage 2 is whole from its start to its end, although the memory map is
\* stored into the cluster it was loaded with, and each cluster of the kernel
\* is at its address when the kernel is called, although it is loaded over
\* the root directory it was found in, up to the FAT it is chained by, with
\* sector and segment numbers that are right only modulo 2^16.
CodeIsInPlace ==
  /\ phase \in Loading => Holds(BootSector, 0, 1)
  /\ phase \in {"memory_map", "copy", "entered"} =>
       Begins(Stage2Address, DataStart + (disk.start.stage2 - 2) * bpbSectorsPerCluster,
              bpbSectorsPerCluster, Stage2Length)
  /\ phase = "entered" =>
       \A i \in DOMAIN disk.kernel :
         Holds(Translate(KernelPage + i - 1),
               DataStart + (disk.kernel[i] - 2) * bpbSectorsPerCluster, bpbSectorsPerCluster)

\* Unless the BIOS fails, the machine ends in the kernel or halted with a
\* message: neither the chain of clusters nor the memory map goes on for ever.
LoadingEnds == <>(phase \in {"entered", "halted"})

=============================================================================
