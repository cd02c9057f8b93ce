--------------------------- MODULE ProcessMemory ---------------------------
(***************************************************************************)
(* The memory of user processes: kernel/process/process.c on top of the    *)
(* page tables of kernel/memory/vmmngr.c and the bitmap of pmmngr.c.       *)
(*                                                                         *)
(* A process is given a block for its page directory when it is added; its *)
(* segments and stack are mapped by the page fault its first thread starts *)
(* with; it may map more with SYSCALL_VIRTUAL_ALLOC; and when it exits,    *)
(* the blocks recorded in its pmem_region lists are given back.            *)
(*                                                                         *)
(* Pages and blocks are numbers.  What a process has mapped is a function  *)
(* from slots (a page table, or a page) to blocks.  Handlers run with      *)
(* interrupts off, so each is one action.  The bitmap is the set of its    *)
(* bits; kernel structures live in the window that is mapped at boot and   *)
(* take no blocks here.  A process has one thread, as every process the    *)
(* kernel starts: scheduler_add_thread has no caller.                      *)
(***************************************************************************)
EXTENDS Integers, FiniteSetsExt, Elf

CONSTANTS
  Users,        \* processes that may be added
  Idle,         \* the kernel's own process; it maps nothing
  PageSize,     \* bytes in a page and in a block
  TableSize,    \* pages that one page table maps
  Blocks,       \* blocks addressable with 32 bits (2^20)
  Usable,       \* the blocks initialise_memory has left clear
  MaxBlocks,    \* mmngrMaxBlocks: the scan looks below this one
  Binaries,     \* the images a process may be added with
  StackPages,   \* the run of pages of the first thread's stack
  Requests      \* the runs of pages asked for with SYSCALL_VIRTUAL_ALLOC

ASSUME MemoryAssumption ==
  /\ Idle \notin Users
  /\ PageSize \in Nat \ {0} /\ TableSize \in Nat \ {0}
  /\ MaxBlocks \in Nat \ {0} /\ Blocks \in Nat /\ MaxBlocks <= Blocks
  /\ Usable \subseteq 1 .. MaxBlocks - 1

\* A run of pages is the pair of its first page and their number.
ASSUME RunsAssumption == StackPages \in Nat \X Nat /\ Requests \subseteq Nat \X Nat

\* The addresses that a loadable header puts in memory.
Occupied(header) == header.vAddr .. header.vAddr + header.memSize - 1

Loadable(image) == {i \in DOMAIN image.headers : image.headers[i].type = PT_LOAD}

\* What a linker makes: loadable parts that do not overlap.
ASSUME BinariesAssumption ==
  \A image \in Binaries :
    /\ image.headers \in Seq(Headers)
    /\ \A i \in Loadable(image) :
         /\ image.headers[i].fileSize <= image.headers[i].memSize
         /\ \A j \in Loadable(image) \ {i} :
              Occupied(image.headers[i]) \cap Occupied(image.headers[j]) = {}

VARIABLES
  used,         \* the bits that are set in mmngrMemoryMap
  current,      \* currentProc
  state,        \* of each process: "none", "added", "set up" or "gone"
  pdPhysical,   \* block of each process's page directory
  binary,       \* loadBinaryFrom: the image a process was added with
  memory,       \* ghost: what setup_process has written, by address
  space,        \* block behind each slot a process has mapped
  regions,      \* proc->pmemRegions: the values recorded in it
  stack,        \* thread->pmemRegions: the values recorded in it
  panicked      \* a process could not be set up: the machine is halted

vars == <<used, current, state, pdPhysical, binary, memory, space, regions, stack, panicked>>

Alive == {p \in Users : state[p] \in {"added", "set up"}}

-----------------------------------------------------------------------------
(* Blocks.                                                                 *)

Reserved == (0 .. MaxBlocks - 1) \ Usable

\* The blocks pmmngr_alloc_block answers with, one after the other: first fit.
Available ==
  LET clear == (0 .. MaxBlocks - 1) \ used
      rank(b) == Cardinality({c \in clear : c <= b})
  IN  [i \in 1 .. Cardinality(clear) |-> CHOOSE b \in clear : rank(b) = i]

\* Pages are mapped in runs, one after the other.
PagesIn(run) == run[1] .. run[1] + run[2] - 1

\* What vmmngr_alloc_page looks at, page by page, as <<run, number of the look>>:
\* the entry of the page table in the directory, and that of the page.
Looks(runs) == UNION {{i} \X (0 .. 2 * runs[i][2] - 1) : i \in DOMAIN runs}

Before(u, w) == u[1] < w[1] \/ (u[1] = w[1] /\ u[2] < w[2])

SlotAt(runs, w) ==
  LET page == runs[w[1]][1] + (w[2] \div 2)
  IN  IF w[2] % 2 = 0 THEN <<"table", page \div TableSize>> ELSE <<"page", page>>

\* The looks that find an entry not present, and take a block for it.
Needed(p, runs) ==
  {w \in Looks(runs) :
     /\ SlotAt(runs, w) \notin DOMAIN space[p]
     /\ \A u \in Looks(runs) : Before(u, w) => SlotAt(runs, u) # SlotAt(runs, w)}

Rank(need, w) == Cardinality({u \in need : ~Before(w, u)})

Suffices(p, runs) == Cardinality(Needed(p, runs)) <= Len(Available)

\* What p has mapped after vmmngr_alloc_page for each page of the runs, up to
\* the first slot there is no block for.
Mapping(p, runs) ==
  LET need == Needed(p, runs)
      free == Available
      got  == {w \in need : Rank(need, w) <= Len(free)}
      new  == {SlotAt(runs, w) : w \in got}
  IN  [s \in DOMAIN space[p] \cup new |->
         IF s \in new
         THEN free[Rank(need, CHOOSE w \in got : SlotAt(runs, w) = s)]
         ELSE space[p][s]]

\* A slip: the bits of the blocks are not set.
Takes_unmarked(p, runs) ==
  /\ space' = [space EXCEPT ![p] = Mapping(p, runs)]
  /\ UNCHANGED used

Takes(p, runs) ==
  /\ space' = [space EXCEPT ![p] = Mapping(p, runs)]
  /\ used' = used \cup {space'[p][s] : s \in DOMAIN space'[p]}

-----------------------------------------------------------------------------
(* Adding and setting up.                                                  *)

Init ==
  /\ used = Reserved
  /\ current = Idle
  /\ state = [p \in Users |-> "none"]
  /\ pdPhysical = [p \in Users |-> 0]
  /\ binary = [p \in Users |-> 0]
  /\ memory = [p \in Users |-> <<>>]
  /\ space = [p \in Users |-> <<>>]
  /\ regions = [p \in Users |-> {}]
  /\ stack = [p \in Users |-> {}]
  /\ panicked = FALSE

\* Without a block the answer is NULL, and nothing changes.
add_process(p, image) ==
  /\ state[p] = "none"
  /\ Available # <<>>
  /\ used' = used \cup {Head(Available)}
  /\ pdPhysical' = [pdPhysical EXCEPT ![p] = Head(Available)]
  /\ state' = [state EXCEPT ![p] = "added"]
  /\ binary' = [binary EXCEPT ![p] = image]
  /\ UNCHANGED <<current, memory, space, regions, stack, panicked>>

\* setup_process maps the segment's size and one page more, rounded up.
PagesOf(seg) ==
  <<seg.addressInMemory \div PageSize, (seg.sizeInMemory + 2 * PageSize - 1) \div PageSize>>

\* The segments' pages, then the stack's.
SetupRuns(segs) == Append([i \in DOMAIN segs |-> PagesOf(segs[i])], StackPages)

\* A slip: as much is zeroed behind the segment as it has in memory.
Written_zeroes_on(seg) ==
  LET zeros == seg.addressInMemory + seg.sizeInFile
  IN  (seg.addressInMemory .. zeros - 1) \cup (zeros .. zeros + seg.sizeInMemory - 1)

\* Where the memcpy and the memset of a segment write, and what.
Written(seg) ==
  LET zeros == seg.addressInMemory + seg.sizeInFile
  IN  (seg.addressInMemory .. zeros - 1)
        \cup (zeros .. seg.addressInMemory + seg.sizeInMemory - 1)

ByteOf(seg, x) ==
  IF x - seg.addressInMemory < seg.sizeInFile
  THEN <<"file", seg.offsetInFile + x - seg.addressInMemory>> ELSE <<"zero">>

\* Segments are copied one after the other: the last that writes to x counts.
Copied(segs) ==
  [x \in UNION {Written(segs[i]) : i \in DOMAIN segs} |->
     ByteOf(segs[Max({i \in DOMAIN segs : x \in Written(segs[i])})], x)]

PageBlocks(p, run) == {space'[p][<<"page", v>>] : v \in PagesIn(run)}

\* setup_process hands the address on where a page index is expected;
\* init_thread_stack divides it by PAGE_SIZE.
process_add_pmem_region(p, segs) ==
  regions' = [regions EXCEPT
    ![p] = {b * PageSize : b \in UNION {PageBlocks(p, PagesOf(segs[i])) : i \in DOMAIN segs}}]

thread_add_pmem_region(p) ==
  stack' = [stack EXCEPT ![p] = PageBlocks(p, StackPages)]

\* The page fault at 0xDEADBEEF.  An image that is not accepted stops the
\* machine, as does a lack of blocks.
setup_refused(p) ==
  /\ p = current /\ state[p] = "added"
  /\ ~elf_lithiumos_check(binary[p])
  /\ panicked' = TRUE
  /\ UNCHANGED <<used, current, state, pdPhysical, binary, memory, space, regions, stack>>

setup_process(p, segs) ==
  /\ p = current /\ state[p] = "added"
  /\ elf_lithiumos_check(binary[p]) /\ segs \in elf32_parse(binary[p])
  /\ LET runs == SetupRuns(segs)
     IN  \/ /\ Suffices(p, runs)
            /\ Takes(p, runs)
            /\ process_add_pmem_region(p, segs)
            /\ thread_add_pmem_region(p)
            /\ memory' = [memory EXCEPT ![p] = Copied(segs)]
            /\ state' = [state EXCEPT ![p] = "set up"]
            /\ UNCHANGED <<current, pdPhysical, binary, panicked>>
         \/ /\ ~Suffices(p, runs)
            /\ Takes(p, runs)
            /\ panicked' = TRUE
            /\ UNCHANGED <<current, state, pdPhysical, binary, memory, regions, stack>>

\* SYSCALL_VIRTUAL_ALLOC.  It stops at the first page there is no block for,
\* and keeps what it has mapped.
virtual_alloc(p, run) ==
  /\ p = current /\ state[p] = "set up"
  /\ Takes(p, <<run>>)
  /\ UNCHANGED <<current, state, pdPhysical, binary, memory, regions, stack, panicked>>

-----------------------------------------------------------------------------
(* Exit.                                                                   *)

\* The block whose bit pmmngr_free_block(pageIndex * PAGE_SIZE) clears, in
\* 32-bit arithmetic.
Freed(pageIndex) == pageIndex % Blocks

\* A slip: the stack is not given back.
process_destroy_without_stack(p) ==
  used' = used \ ({Freed(i) : i \in regions[p]} \cup {pdPhysical[p]})

\* The recorded regions of the thread and of the process, and, once the next
\* process's directory is in use, the directory.
process_destroy(p) ==
  used' = used \ ({Freed(i) : i \in stack[p] \cup regions[p]} \cup {pdPhysical[p]})

scheduler_remove_current_process(p, q) ==
  /\ p = current /\ state[p] = "set up"
  /\ q \in (Alive \ {p}) \cup {Idle}
  /\ current' = q
  /\ process_destroy(p)
  /\ state' = [state EXCEPT ![p] = "gone"]
  /\ UNCHANGED <<pdPhysical, binary, memory, space, regions, stack, panicked>>

\* The timer gives the processor to the processes in turn.
Switch ==
  /\ current' \in (Alive \cup {Idle}) \ {current}
  /\ UNCHANGED <<used, state, pdPhysical, binary, memory, space, regions, stack, panicked>>

\* The blocks a process stands on: its directory, page tables and pages.
Holdings(p) == {pdPhysical[p]} \cup {space[p][s] : s \in DOMAIN space[p]}

\* An exit has cleared the bit of a block that is still in use.  The model ends
\* there: once the block is handed out again, what goes on depends on what its
\* two owners write over one another's page tables, code or data.
Struck == ~ (Reserved \cup UNION {Holdings(p) : p \in Alive} \subseteq used)

Next ==
  /\ ~panicked /\ ~Struck
  /\ \/ \E p \in Users :
          \/ \E image \in Binaries : add_process(p, image)
          \/ setup_refused(p)
          \/ \E segs \in UNION {elf32_parse(image) : image \in Binaries} : setup_process(p, segs)
          \/ \E run \in Requests : virtual_alloc(p, run)
          \/ \E q \in Users \cup {Idle} : scheduler_remove_current_process(p, q)
     \/ Switch

Spec == Init /\ [][Next]_vars

-----------------------------------------------------------------------------
(* Properties.                                                             *)

\* Every variable has its type.
TypeOK ==
  /\ used \subseteq 0 .. MaxBlocks - 1
  /\ current \in Alive \cup {Idle}
  /\ state \in [Users -> {"none", "added", "set up", "gone"}]
  /\ pdPhysical \in [Users -> {0} \cup Usable]
  /\ \A p \in Users : \A s \in DOMAIN space[p] : space[p][s] \in Usable
  /\ panicked \in BOOLEAN

\* No block serves twice: not two processes, not two slots of one, and none
\* that the kernel has reserved.  Otherwise one process writes into another,
\* or into somebody's page tables.
BlocksAreExclusive ==
  \A p \in Alive :
    /\ \A q \in Alive \ {p} : Holdings(p) \cap Holdings(q) = {}
    /\ \A s, t \in DOMAIN space[p] : space[p][s] = space[p][t] => s = t
    /\ \A s \in DOMAIN space[p] : space[p][s] # pdPhysical[p]
    /\ Holdings(p) \cap Reserved = {}

\* The blocks whose bits an exit may clear by mistake: where the address of a
\* segment's block leads when it is taken for a page index.  With pages of
\* 4 KiB and 2^20 blocks these are 16 MiB apart, and the first two are block 0
\* and the first of the kernel.
Stray == {Freed(b * PageSize) : b \in Usable}

\* The bit of a block in use is set, for the whole time it is in use, except
\* that of a stray one.
HoldingsStayMarked == \A p \in Alive : Holdings(p) \ Stray \subseteq used

\* Each process stands on blocks of its own, which stay its own.
BlocksAreOwned == TypeOK /\ BlocksAreExclusive /\ HoldingsStayMarked

\* Every loadable part of p's image is in memory.
PartsAreLoaded(p) ==
  \A i \in Loadable(binary[p]) :
    LET h == binary[p].headers[i]
    IN  \A x \in Occupied(h) :
          /\ <<"page", x \div PageSize>> \in DOMAIN space[p]
          /\ memory[p][x] = IF x - h.vAddr < h.fileSize
                            THEN <<"file", h.offset + x - h.vAddr>> ELSE <<"zero">>

\* Once a process is set up, its image is in memory: each part mapped, wherever
\* in a page it starts, with its bytes of the file at their addresses and zeros
\* behind them, whatever else shares its pages and was copied before or after it.
SegmentsAreLoaded == \A p \in Alive : state[p] = "set up" => PartsAreLoaded(p)

\* What an exit owes: the directory, and the pages of the stack.
Owed(p) == {pdPhysical[p]} \cup {space[p][<<"page", v>>] : v \in PagesIn(StackPages)}

\* What it leaves marked, for ever: segments, whose numbers it gets wrong, and
\* page tables and the pages of SYSCALL_VIRTUAL_ALLOC, which nothing records.
Kept(p) == Holdings(p) \ Owed(p)

\* The blocks that have a reason to be marked.
Accounts ==
  Reserved \cup (UNION {Holdings(p) : p \in Alive})
           \cup (UNION {Kept(p) : p \in {q \in Users : state[q] = "gone"}})

\* Every block is accounted for, through any history of exits and failures:
\* a block without a reason is clear, such as the directory and the stack of
\* a process that has gone, and only a stray one with a reason may be, too.
BlocksAreAccounted == used \subseteq Accounts /\ Accounts \ Stray \subseteq used

\* The blocks that initialise_memory has taken out stay marked: "De-initialise
\* regions that we have used ... The kernel (400KiB max)" (kernel_entry.c:170).
ReservedStaysSet == Reserved \subseteq used

=============================================================================
