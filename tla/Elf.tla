-------------------------------- MODULE Elf --------------------------------
(***************************************************************************)
(* The ELF loader, kernel/process/elf.c: what it accepts, and the segment  *)
(* list it makes of the program headers.  An image is a record of ident    *)
(* (the fields of the header that are compared with a value: "lithium" if  *)
(* all of them have it), eEntry and headers, the program header table.     *)
(***************************************************************************)
EXTENDS Integers, Sequences

CONSTANTS
  EXE_MAX_SEGMENTS,   \* entries of elf_load_info.segs (5)
  Leftover            \* what an entry of segs may hold before it is assigned

PT_LOAD == 1

\* Entries of the program header table, and of segs.
Headers == [type : Nat, offset : Nat, vAddr : Nat, fileSize : Nat, memSize : Nat]
Segments == [offsetInFile : Nat, addressInMemory : Nat, sizeInFile : Nat, sizeInMemory : Nat]

ASSUME LeftoverAssumption == Leftover \subseteq Segments

\* elf_is_valid, elf_is_32_bit, elf_is_x86, elf_is_little_endian and
\* elf_is_executable.
Identified(image) == image.ident = "lithium"

elf_pht_entries(image) == Len(image.headers)

elf_lithiumos_check(image) ==
  Identified(image) /\ elf_pht_entries(image) <= EXE_MAX_SEGMENTS

Segment(header) ==
  [offsetInFile    |-> header.offset,
   addressInMemory |-> header.vAddr,
   sizeInFile      |-> header.fileSize,
   sizeInMemory    |-> header.memSize]

\* The lists elf32_parse may make of an accepted image.  Every program header
\* has an entry, but only those of type PT_LOAD have theirs assigned: segs is
\* a local variable of setup_process: the others keep what the stack held.
elf32_parse(image) ==
  LET headers == image.headers
      load    == {i \in DOMAIN headers : headers[i].type = PT_LOAD}
  IN  {[i \in DOMAIN headers |-> IF i \in load THEN Segment(headers[i]) ELSE rest[i]] :
         rest \in [DOMAIN headers \ load -> Leftover]}

=============================================================================
