# Verification of Lithium OS

Lithium OS is a small kernel for 32-bit x86: a boot loader in assembly, a kernel in C with a physical
memory manager, paging, a heap, a round-robin scheduler for user processes, drivers for timer, keyboard,
screen and disk, and a C library for user programs. This directory holds TLA+ modules translated from
its source, TLC configurations that check them on small instances, and proofs that TLAPS checks.

All paths are below `src/`. `PROJECT.json` names, for each definition, the lines it stands for.

## 1. The system

| Component | Source | State | Operations | Hard behaviour | What makes it correct |
|---|---|---|---|---|---|
| physical memory manager | `kernel/memory/pmmngr.c` | bitmap of 4 KiB blocks, counter of used ones | init; region calls; one block or a run: allocate, free | counter and bitmap kept apart; block 0 means "none"; whole-word scans over a number of blocks that is no multiple of 32 | bitmap is an exact ledger; nothing handed out twice or undeclared; refusals are just |
| boot memory set-up | `kernel/kernel_entry.c` | BIOS memory map, EBDA base | a fixed sequence of region calls and page mappings | overlapping regions, roundings, entries above 4 GiB | used memory and non-RAM never handed out |
| virtual memory manager | `kernel/memory/vmmngr.c`, `kernel/cpu/pde.c`, `pte.c` | page directory and tables, recursive entry | map, allocate a page, switch directory | memory may run out between table and page; kernel tables are made in one process's directory | every page has its table; every directory switched to has the kernel's tables |
| kernel heap | `kernel/memory/kmalloc.c` | doubly linked headers in the heap itself | `kmalloc`, `kfree` | headers written to memory that may not be mapped; mapping fails half-way | list is whole, blocks disjoint, mapped, coalesced |
| scheduler | `kernel/process/scheduler.c` | queue of processes with threads, current and previous process | add process, thread; tick; set up; exit | exit rewrites a link recorded earlier; the switch copies the kernel half | round robin; contexts kept; destroyed processes never run |
| process management | `kernel/process/process.c` | page directory, region lists | add, set up, exit | recorded block numbers used later; failure half-way | no block in two places; exit frees its own blocks only |
| system calls and handlers | `kernel/process/syscall.c`, `kernel/cpu/pagefault.c`, `kernel/hardware/timer.c` | - | print, virtual_alloc, exit; page fault; tick | partial failure of virtual_alloc | as above |
| user heap | `api/stdlib/malloc.c` | headers, `heapEnd` | `malloc`, `free`, growth by system call | growth after any history; 32-bit wrap-around; growth fails half-way | as the kernel heap, and requests that do not wrap are served in full |
| ELF loader | `kernel/process/elf.c` | none | check, parse | headers that are not loadable leave entries unassigned | the segments in memory are those of the image |
| screen | `kernel/hardware/screen/print.c` | cursor, colour, video memory | print, clear | backspace across lines, scrolling by an overlapping copy | the window shows the text |
| keyboard | `kernel/hardware/keyboard/keyboard.c` | shift, caps lock | key interrupt | presses, releases and repeats of several keys; codes lost | the shift state follows the key |
| interrupts and exceptions | `kernel/cpu/interrupt.c`, `interrupt_asm.asm`, `gdt.c`, `panic.c`, `pagefault.c` | gates, two controllers | enter, dispatch, acknowledge, leave; panic | one kernel stack; two controllers to acknowledge | handlers run alone; no line goes dead |
| ATA driver | `kernel/drivers/ata.c` | drive registers | read sectors | late busy bit, slow and failing drives, time-outs | data only from a successful read; waits end |
| FAT16 | `kernel/drivers/fs/fat16.c` | - | a stub | - | - |
| timer | `kernel/hardware/timer.c` | tick counter | tick, wait | counter wraps | waits are whole |
| printf, itoa | `api/stdio/printf.c`, `api/stdlib/itoa.c` | 64 byte buffer | printf | flushes at the buffer's end | output is the format's expansion |
| strings, utilities | `kernel/util.c`, `api/string/string.c` | `strtok`'s context | pure functions | the last token; overlapping copies | reference definitions |
| boot loader | `bootloader/*.asm`, `kernel/loader.asm` | registers, memory | load root directory, FAT, two files; memory map; paging | 16-bit arithmetic, files loaded over what they were found in | the code that runs is in place; the map is complete |
| start-up, shell | `api/lios_startup.c`, `lishell/` | a string | `malloc_init`, `main`, exit | tokens, output through one buffer | every word printed; the program ends |

How they interact. The boot loader leaves kernel, page tables and memory map in memory and calls the kernel
(`Boot`). The kernel's entry code frees the BIOS regions in the physical memory manager, strikes out what is in
use, turns paging over and initialises the heap (`BootMemory`). From then on blocks are taken by
`vmmngr_alloc_page` and `vmmngr_map_page` for page tables and pages, on behalf of `kmalloc` (kernel heap pages),
`setup_process` and `SYSCALL_VIRTUAL_ALLOC` (process pages) and `add_process` (page directories). The timer
interrupt calls the scheduler with the saved registers; a new thread starts at 0xDEADBEEF, and the page fault it takes
there has its ELF image checked, mapped and copied; exit is a system call that unlinks the process, switches, and
destroys it. The user heap only knows the kernel through `SYSCALL_VIRTUAL_ALLOC`. Programs print through `SYSCALL_PRINT`
into the screen that the keyboard handler also prints to (`Console`).

Concurrency. There is one processor, and every gate clears the interrupt flag: a handler is not interrupted. `Console`
models this with gates, flag and controllers, and checks it (`HandlersRunAlone`); the other modules rest on it, so that in
them each handler is one action. What interleaves is handlers of different processes, the threads between them, and the
devices: the drive and the timer move between any two port accesses of the ATA driver.

## 2. Modules

| Module | Models | Notes |
|---|---|---|
| `FrameAllocator` | abstract | a ledger of usable and held frames |
| `Pmmngr` | `pmmngr.c`, single blocks and region calls | implements `FrameAllocator` |
| `PmmngrRuns` | `pmmngr.c`, runs of blocks | extends `Pmmngr`; the scan is a recursive function of the position |
| `BootMemory` | `initialise_memory` | extends `Pmmngr`: its actions in the boot code's order, then run time |
| `BootLoader` | `bootloader.asm`, `stage2.asm` | addresses and 16-bit arithmetic are the program's own |
| `Boot` | the whole boot | composes `BootLoader` and `BootMemory` |
| `HeapArena` | abstract | disjoint blocks inside an arena |
| `Kmalloc` | `kmalloc.c` | implements `HeapArena` |
| `Malloc` | `api/stdlib/malloc.c` and the system call under it | implements `HeapArena` |
| `RoundRobin` | abstract | a ring and a turn |
| `Scheduler` | `scheduler.c`, thread and process records, timer and page fault handlers | implements `RoundRobin` |
| `Elf` | `elf.c` | pure operators |
| `ProcessMemory` | `process.c`, `vmmngr.c`, the system calls, on the bitmap of `pmmngr.c` | extends `Elf`; processes' memory and its contents, from start to exit |
| `Ata` | `ata.c` and `timer.c` beside a drive | one action per port access or loop round |
| `Terminal` | abstract | the text a screen shows the end of |
| `Screen` | `print.c` | operators on the screen's state |
| `Keyboard` | `keyboard.c` and the keyboard's queue | |
| `Interrupts` | `interrupt.c`, stubs, controllers | |
| `Printf` | `printf.c`, `itoa.c`, `strtok`, `strrev` | a call in progress is a record |
| `Console` | handlers, shell and another program | composes the four above it |
| `PmmngrProofs`, `KmallocProofs`, `MallocProofs`, `SchedulerProofs`, `ProcessMemoryProofs`, `AtaProofs`, `ConsoleProofs` | - | theorems about the module each is named after; `PmmngrProofs` also about `BootMemory`, `BootLoader` and `Boot` |
| `ArithLemmas` | - | lemmas on numbers, division and cardinalities that they share |
| `MC...` | - | instances for TLC |

Definitions that a comment calls a slip are plausible errors; they stand before the definition they distort, and
`PROJECT.json` lists which property finds each of them.

### State and actions

*Pmmngr.* `mmngrMemoryMap` is the set of set bits, `mmngrUsedBlocks` the counter modulo 2^32 (`Modulus`). `usable` and
`held` are ghosts: what region calls declared and what callers have. Actions are the functions of the same name. Their
guards state the callers' contract: a block is freed by who holds it, and no region call covers a held block. Bits behind
the last whole word start with any value, since the fill does not reach them.

*BootMemory.* `Calls` is the list of allocator calls `initialise_memory` makes for a memory map, with a call that does
nothing (`"skip"`) for each entry that is not usable; `step` counts them.
Mapping the video memory takes one block, for the page table; the later `vmmngr_map_page` calls fall in tables that exist.
After the last call, single blocks are requested and returned in any order. What is in use is not read off those calls: `InUse`
is the places where GDT, stack, tables, bitmap and image are, told by those who use them, and `KernelWindow` is what stage 2 maps for
the kernel. `MCBoot` compares the real places with the regions of `kernel_entry.c:171-177` (`RealLayout`).

*Kmalloc.* `header` maps the addresses of headers to their contents; adding a header enlarges its domain, merging shrinks
it. The walk "first block that fits" is `Min(Fitting(n))`, justified by `ListIsSound`. `kmalloc` has four outcomes: served;
block taken but a page cannot be mapped (`kmalloc_unmapped`, leaves a used block nobody owns, in `lost`); nothing fits
(`kmalloc_refused`, which maps pages at address 0 before it answers 0); and a page fault on a header written to an
unmapped page (`kmalloc_faults`), which ends the behaviour. Whether blocks for pages are available is a free choice.

*Malloc.* As Kmalloc, with `heapEnd` growing, the last header's `next` NULL, sizes modulo 2^32 and the `uint8_t` cast of
`heapEnd` modulo 2^8. `Pages` are the pages the kernel can map: a request beyond them fails half-way. The list a call
leaves is computed as a value (`Taken`, `Appended`) and written unless a new header lies in a page not mapped.

*Scheduler.* `next`, `threads` (a number: thread lists only grow), `regs` and `cpu` (a program counter stands for all
registers), `cr3`, and for each directory the kernel page tables it has and where its recursive entry leads. `at` is a
ghost that says where each thread really is. A destroyed process keeps its fields, as freed memory does until it is reused,
and is never added again. Two constants open cases the repository's own programs do not reach: `StaleExits` (an exit
while `previousProc` is a destroyed process) and `InnerExits` (exit by a thread that is not its process's last).
`MayExit` excludes both when they are FALSE; `scheduler_stale_exit` sets the first TRUE. A set-up
that fails, for lack of memory or a wrong image, and any other fault of a thread bring up the panic screen and halt the machine (`panicked`).

*ProcessMemory.* `space[p]` maps slots, `<<"table", i>>` or `<<"page", v>>`, to blocks. Pages are mapped in runs, `<<first,
number>>`. `Looks` are the entries `vmmngr_alloc_page` looks at over some runs, `Needed` those it finds not present, and
`Mapping` gives them the lowest free blocks in their order (`Rank`) until these run out. `regions` and `stack` are the numbers recorded for the exit, `Freed` what the exit makes of them in 32 bits.
`binary` is the image, `memory` what `setup_process` writes, address by address. `elf32_parse` yields all lists the code may
make of an image: entries of headers that are not `PT_LOAD` are left as the stack had them (`Leftover`).
`setup_process` records addresses where page indices belong, so an exit clears the bits of the blocks in `Stray` instead of those of the
segments: with 4 KiB pages these are block 0, block 4096, where the kernel starts, and so on every 16 MiB. Such an exit is a step of the model
like any other; once it has hit a block in use (`Struck`) the model ends, for what follows depends on what the two owners of the block write over each other.

*BootLoader.* `memory` maps addresses to the piece of the disk loaded there; what is written over a piece's end cuts
it short, and what is written over its beginning removes it, so code or data in place is a lookup. The memory map is stored from 0x0B00 on, in
the cluster that stage 2 was loaded with but behind its end. `phase` is where the boot is (the file it looks
for or loads, then the memory map, the copy and the kernel), `cluster` is DI and `segment`
the argument `load_file` increments. What `load_file` reads from a FAT that is no longer there is an end or a
cluster, whichever is worse. `mmap` and `asked` are the loop over the BIOS's entries. Each load may fail.

*Ata.* `pc` is where the driver is: waiting, polling (four looks), in one of the two busy loops, reading, or in the delay
between sectors. The drive is the environment: `stale` counts the looks for which its status is still the old one, at most
four (400 ns); `mode` says what it does. `timer_ticks` wraps at `Modulus`; `elapsed` is a ghost clock that does not. A tick
comes only after the waiting loop has looked at least once (`n = 1`), since 5 ms are longer than one round.

*Console.* `frames` is the kernel stack (one record per handler entered), `irr` and `inService` the two
controllers, `enabled` the interrupt flag. A handler's step is a character printed or a command to a chip; a thread's step goes
up to its next access to something shared. `screen` is the memory and cursor, and the ghost `text` what `Terminal` makes of the
messages, each taken as a whole. Devices act while no handler runs: a request that comes up during a handler has to wait
for its end anyway, and a code that comes during one is queued the same way. A tick only comes when no other request is waiting,
because all handlers together take less than 5 ms. `next` and `previous` are the links of the queue and `previousProc`: a tick follows
the link of the current process, an exit changes the one of `previous`. Where that gives the processor to a program that has ended
(two exits with no switch between, `scheduler_stale_exit`), the behaviour ends. `lios_startup` may fail in `malloc_init` and exit without `main`, and a
first fault whose program cannot be loaded brings up the panic screen. printf goes on up to where a plain character finds its buffer full (`Overrun`).

## 3. Runs

Passing runs:

| Run | Instance | States | Shows |
|---|---|---|---|
| `pmmngr` | 7 blocks, 3-bit words, 3 regions: unaligned, over block 0, overlapping; runs of 1, 2, 4 | 24 080 | the ledger, its refinement, just refusals, the counter's drift, fresh runs |
| `boot` | the real volume; kernels of 1, 3 and 100 clusters, disks without a file; 4 BIOSes; then 17 blocks laid out like a PC, EBDA base aligned and not | 39 056 | code and memory map arrive; only RAM with nothing in it, up to the 400 KiB of the kernel, is handed out; the free count is backed by the bitmap; the boot ends |
| `kmalloc` | heap of 24 bytes, 2-byte headers, 6 pages of which 4 are mapped at start | 11 151 | list, ownership, mapping, coalescing, refinement |
| `malloc` | heap of 1 to 3 pages of 8 bytes | 1 499 | the same across growth |
| `scheduler` | idle and 2 processes, 2 threads each | 49 019 | queue, contexts, directories; refinement of the ring; every thread runs, or the machine is halted |
| `process_memory` | 3 processes, 4 images (2 refused), 16 usable blocks, 4-page tables | 53 477 | blocks of processes are their own, images are in memory, blocks are accounted for |
| `ata` | reads of 1 and 2 sectors, sleeps of 0 and 7, ticks modulo 33, drives idle, busy or stuck | 181 889 | reads are right, waits whole; waits and transfers end |
| `console` | shell and a program, up to 3 keys, lines 0, 1 and 8, a crash, 3 rows of 2 cells | 181 494 | messages whole on the screen, handlers alone, shift, printf and strtok, liveness of lines and programs |

Runs that find a property violated, each a statement of the source that the code does not keep:

| Run | Property | What happens |
|---|---|---|
| `kmalloc_fault` | `NeverFaults` | a header is written before its page is mapped |
| `scheduler_stale_exit` | `RunningIsAlive` | two exits with no switch of process between |
| `process_kernel_block` | `ReservedStaysSet` | an address recorded as a page index leads an exit to a block of the kernel |
| `boot_heap_window` | `WindowNeverHeld` | the kernel heap behind the first 400 KiB is in blocks that are handed out |

What the instances leave out. The models allow more than the passing runs' constants do, and these values lead to states
in which a property, or a statement of the source, does not hold:

- the scan for runs advances `i` by `k / 32` and once more (`pmmngr.c:246`), so a free run in the word where a short one
  ended is refused as out of memory. A run may go on behind the last whole word, into bits the fill has not reached, and up to the block
  behind the last (`>` in line 42), so that somebody gets blocks no region call has declared. Ledger and refinement are stated for the whole words the
  scan covers. Nothing in the kernel asks for runs yet.
- a memory map whose ROM area is not free (`WindowMap`, as PCs have it): striking it out counts its blocks a second time (`pmmngr.c:125`), the
  counter ends above the bitmap, and requests are refused while as many blocks are left. `RefusedOnlyWhenFull` has this as its precondition.
- an entry of the memory map above 4 GiB: the low addresses it is cut to are freed (`kernel_entry.c:150`), and `HeldIsFreeRam` fails.
- `HeapStart` inside a page: growth asks for `expand / PAGE_SIZE` pages from an address inside one (`malloc.c:203`), one too few, and `HandedOutIsMapped`
  fails for `Malloc`. The linker script of the shell does not align `__end`, so a real program may start its heap so.
- sizes of 2^32 - 3 and more: `ALIGN_DWORD` makes 0 of them (`malloc.c:64`), and the caller gets a block that is too small.
- `InnerExits`: a thread that is not its process's last exits, the switch prefers its successor, and the process that goes on is destroyed
  (`scheduler.c:219`): `RunningIsAlive` fails. Nothing calls `scheduler_add_thread` yet.
- a kernel of 101 clusters: the last one is loaded over the FAT, and `copy_kernel` copies 400 KiB only.
- more pages than there are below `HEAP_END`: `malloc.c:196` compares with the lowest byte of `heapEnd`, so the heap grows beyond it.
- `Leftover` other than zeros: a header that is not `PT_LOAD` has whatever the stack held mapped and copied, over other segments too.
- a drive that fails: the tests of ERR and DF (`ata.c:97-100, 131-135`) stand behind an if whose branches continue and break, and none is reached. Data
  counts as read, and `ReadIsRight` is claimed for drives without errors. Drive 1 is never selected, because line 42 clears the bit line 40 sets; a count of 0 reads nothing of 256 sectors.
- deadlines that wrap around `timer_ticks`: a wait ends at once, or no tick gets beyond the deadline. `WaitIsWhole` and
  `EveryWaitEnds` name the deadlines they are about.
- a plain character that finds the buffer filled by a `%c` (in a buffer of six bytes: after five `%c`): it takes the byte of the NUL, the test of `printf.c:99` for a full buffer is past,
  and what follows is written behind the buffer. The call ends there in the model (`Overrun`).
- a shell text of one word: `strtok` answers NULL at once, and nothing is printed; and one that ends with a delimiter: `strtok` returns
  empty tokens for ever, and `EveryProgramEnds` fails. `ShellTextAssumption` excludes both.
- `"rshift"` or `"control"` among the keys: the first prints a character, the second does nothing. Caps lock held down toggles with each repeat.
- a key pressed between the loader's `cli` and `irq_remap`: its code stays in port 0x60, and whether its edge is seen depends on
  the controller. `Console` begins with an empty keyboard.

Why the bounds are enough. *Pmmngr*: two whole words and one incomplete one make every case of the scan and of the
roundings. *Boot*: a chain of one cluster, one in pieces at both ends of the disk, and the longest the memory has room for; the
report has each kind of entry to be skipped, between and before others; one block for each region of the real layout, with the EBDA
beginning inside a block. *Kmalloc*: five
blocks, so a freed block meets every combination of neighbours; the sizes leave rests below, at and above
`HeaderSize + MinBlock`, and one block ends a page before the next header; pages are missing between the window and
the last page. *Malloc*: two growths, behind a free and behind a used last block. *Scheduler*: a process in the middle of the
queue and its last one can exit (the first is the kernel's and never does), one and two threads. *ProcessMemory*: segments share a page and end in different
page tables, zeros end where another segment begins; three processes with sixteen blocks run out at every point of set-up and
growth. *Ata*: two sectors of two words meet every place of the loops; the counter wraps and, like 2^32, is no multiple of the tick;
the larger LBA needs all four registers. *Console*: the screen wraps, scrolls by a copy that overlaps itself, and is
backspaced at a row's start; ints of four bits have -8 and 7 as limits, and the rooms printf asks for fit their longest texts as
12 and 10 fit those of 32 bits; a line of the slave is acknowledged on both controllers; `Sessions` bounds how much
of keys and programs come together, since each adds to the interleavings.

*ProcessMemory* again: the blocks of `process_memory` (`Mixed`) lead an exit to no block, to usable blocks and to a reserved one; those of
`process_kernel_block` to the kernel's. With blocks 1 to 8 an exit clears the bit of block 0 in the same way, whose bit "is always set" (`pmmngr.c:104`). Sizes are
scaled: `Blocks = 64` stands for 2^20 and `PageSize = 4` for 4096. `boot_heap_window` has a memory map with RAM for the whole window.

`CHECK_DEADLOCK FALSE` is set where the system stops: Kmalloc (a page fault halts the machine), ProcessMemory and Console (a panic
does), Boot (a message and halt), Scheduler (a panic).

Symmetry is used over user processes in runs with invariants only. None of their definitions orders processes.

Fairness. *Scheduler*: weak fairness of `scheduler_tick` and nothing else: the timer is programmed for 200 Hz and
interrupts are enabled whenever a thread or the idle loop runs (EFLAGS 0x202). Threads themselves need not make progress.
`EveryThreadRuns` excludes the destroyed, and ends with a panic. *Boot*: weak fairness of the loader's own steps: the processor goes on and the BIOS
returns. *Ata*: weak fairness of the driver, for the processor goes on. That ticks come is a hypothesis of `EveryWaitEnds`, since
a caller may have interrupts off, and that the drive answers one of `EveryTransferEnds`, since the loops of lines 88 and 122 wait without
a bound; a drive that is stuck never becomes ready. *Console*: weak fairness of interrupts and handlers; strong fairness of `Tick`, for the timer's request waits for others
to be served first; strong fairness of the programs' steps, for a program that has the processor gets time before each next
tick and keeps its place in the queue between. The other devices are not fair.

## 4. Proofs

`PmmngrProofs` proves, for every map size, word size, counter width and set of region calls allowed by the assumptions
`SizesAssumption` and `RegionsAssumption`, every invariant and action property of the run `pmmngr` and the refinement of `FrameAllocator`.
Types, `MapIsLedger`, `RefusedOnlyWhenFull`, `RuntimeKeepsDrift`, `RunIsFresh` and the refinement are theorems about
`RunsSpec`, where single blocks, runs of any length and region calls come in any order; their invariant `RunsLedger` adds to the ledger that what is held is marked, and usable where a scan looks.
`HeldIsUsable` and `EveryAnswerIsFresh` are about `Spec`, without runs, for a run may hold bits behind the last whole word that nobody declared usable.
That a block found clear by the scan is usable and not block 0 is not in the ledger, so their invariant, `LedgerInv`, adds
`HeldIsUsable`. The drift needs the facts on cardinalities and remainders of `ArithLemmas`, and that a freed block's bit was set,
which is the ledger again. What the scan for runs answers is said by `ScanAnswers`: 0, or the first block of a run that is all clear. A recursive function is a CHOOSE, so the lemma first shows that there is one, from the
end of the map downwards (`ScanMovesOn`: each position the loops go on to is a later one), without an induction theorem: the least
position from which such a function exists is 0.

The same module goes on to the boot. Its theorems are about `WholeSpec`, from the first load to run time, and hold for any
memory map, layout, disk and BIOS allowed by these assumptions: `LayoutAssumption` (each region struck out begins or ends at a
block; the old page table lies in one of them), `InUseAssumption` (each place in use lies in one of the regions and apart from the old page table;
`RealLayout` is this for the addresses of the program), `EbdaAssumption` (a 16-bit number of paragraphs, behind the page tables), `MapAssumption`
and `BiosAssumption` (types), `VolumeAssumption` (the FAT chains the kernel's clusters; STAGE2.BIN has one),
`Stage2Assumption` (stage 2 ends before 0x0B00), `ReportFits` (the memory map ends before the kernel), `ReportAssumption`
(`BiosMap` is the list of replies that are meant). Where a theorem has a hypothesis, the code does not ensure it:

- `UsedIsNeverHeld`: no block with a byte of something in use is handed out, for every memory map: the rounding of the regions struck out
  covers what is in them. `ReservedInv` says that a region struck out stays unusable, that no request is served before the last is, and that only
  the old page table comes back. The kernel's heap behind the 400 KiB is not `InUse`: `boot_heap_window` shows that it is handed out.
- `HeldIsAlwaysFreeRam` adds that what is handed out is RAM, if `MapIsRegular`: usable entries lie below 4 GiB and are whole
  blocks, or end in the EBDA. `pmmngr_init_region` rounds outwards, and only that makes the rounding harmless. `TouchedInv` ties usable
  blocks to entries.
- `FreeCountIsAlwaysBacked`, if `EntriesAreApart` and `MemorySuffices`: overlapping entries count a block twice, and with less memory
  than is struck out the counter wraps to a large count. `CountInv` follows the count call by call. That reserving a block that was
  never free is counted is harmless, because it makes the count too small; block 0, which the count may include
  and requests never get, is struck out before the end.
- `CodeIsAlwaysInPlace`, if `KernelFits`: at most the 100 clusters that are copied; the 101st is loaded over the FAT. `VolumeNumbers`
  shows what the 16-bit arithmetic amounts to on this volume for every cluster; `LoaderInv` says for each phase which pieces are in
  memory, and up to where, and `LoadedKeeps` that a load leaves the pieces alone that it does not reach. The entries of the memory map, as many as are kept,
  are stored behind the end of stage 2 and before the kernel, so that they only cut the piece of stage 2 short.
- `MapIsAlwaysHandedOn`: `MapInv` gives each entry kept so far its place, the number of those kept up to it; that every place
  is taken once is `EveryPlaceTaken`.

TLC has checked these invariants, and that the hypotheses hold, on the instance of the run `boot`.

`KmallocProofs` proves, under `HeapAssumption`, that `HeapInv` is inductive and from it every invariant of the run
`kmalloc` and the refinement of `HeapArena`. `ListIsSound` is the core: a header's `next` is the nearest header above and
`prev` its inverse. It is stated by order instead of by a walk, so that a split or a merge is a change of one gap and no
induction over the list is needed. `HeadersAreOwned` ties the ghost `live` to the headers; disjointness of blocks follows from
both, because each block ends before its header's `next`. `NoFreeNeighbours` is needed for `kfree`: it
says that after merging once on each side there is nothing left to merge.

`SchedulerProofs` proves, under `SchedulerAssumption`, that every safety property of the run `scheduler` holds for any number
of processes and threads, provided `StaleExits` and `InnerExits` are FALSE (`OrderlyExits`); without that they are false,
as `scheduler_stale_exit` shows for the first. The invariant adds to the properties that only the kernel process is
ever the first in the queue (so no exit has to change `pQueue`), that unused processes have no links, that the current
thread is one of the current process, and that the queue is no circle. The last is said by a rank that grows along every
link and needs no walk: an append ranks the new process above the last one, an unlinking keeps the ranks. It is needed in the step
of the exit, where `previousProc` must not be the process that exits. That `previousProc` is right survives a tick
because the next process is read from the same link, and an append because only the last link changes.

The refinement of the ring of `RoundRobin` is proved under the same condition. `RingInv` says that some sequence follows the links and
holds every process in the queue once; `QueueIsTheOne` that there is only one (two would differ at some least position, but the
links lead on from the one before to the same process), so it is the sequence the mapping names, before and after each step. Then an
append makes it one longer (`AddAdmits`), a tick leaves it alone and the turn passes to the ring's successor or stays
(`TickPasses`), and an exit closes the gap at the current process (`ExitLeaves`).

`MallocProofs` proves `HeapInv`, `FreedHeapIsWhole` and the refinement of `HeapArena`, under
`MallocAssumption`, `PagesAssumption` and the hypothesis `RequestsFit`: no request wraps when it is rounded up and a header and
a page are added. `malloc` does not test this, so it is a hypothesis and not an
assumption. `HandedOutIsMapped` is proved for heaps that start on a page boundary, which the linker script does not ensure. The argument is that of `KmallocProofs` with an end that moves: its lemmas are stated for any
list and any end, and say of each way a call changes the list (`Taken`, `Appended`, `Freed`, `Grown`) that a sound list stays
one.

`ProcessMemoryProofs` proves the three invariants of `process_memory` for any number of processes, any images, page and
table sizes, and any machine, up to and including the first exit that hits a block in use. `BlocksAreOwned` and `BlocksAreAccounted` except the stray
blocks, whose bits an exit may clear by mistake; `StrayIsSparse` says which these are: multiples of `PageSize`, one block in 16 MiB. The
invariant (`Inv`) adds to the properties what each process *stands on* through its life: directory,
tables and pages while it is alive, and after its exit those blocks that were never given back. These sets are disjoint,
and together with the reserved blocks they are the bitmap, but for stray blocks (one that a gone process has left may be another's again); `BlocksAreExclusive` alone is not inductive, since it
says nothing of a block an exited process has left marked. The stack's recorded blocks have to be among those of the pages, or the exit
would free more than its own. That `vmmngr_alloc_page` gives each slot a block of its own rests on ranks in a finite set of
numbers (`EveryPlaceTaken`, `RanksDiffer`). `SegmentsAreLoaded` needs `LeftoverIsEmpty`, zeros in the unassigned entries of
`segs`: the parts of an image do not overlap, so what the last copy wrote at an address is the only one's.

`AtaProofs` proves `WaitIsWhole`, and `ReadIsRight` under `WholeReads` (an LBA of 28 bits, 1 to 255 sectors, drive 0: outside it,
registers do not say what was asked for), for any drives, sizes, time-outs and timer. For `WaitIsWhole` the counter has to be related to the
ghost clock modulo 2^32 (`WaitInv`). `ReadInv` says at each place of the driver what is in the drive's registers, how many words are in the
buffer, and which of the drive's status bits can still be old; `ClockAssumption` and `SectorAssumption` are the types of the constants.

`ConsoleProofs` proves `HandlersRunAlone`, `ShiftIsFollowed`, `ScreenShowsText`, `PrintfSaysAll` and `ShellPrintsWords` for any devices,
keys, programs, texts and sizes. `AloneInv` lists, for each point of a handler, the flag and what both controllers have in service.
`ShiftInv` reads the future of `keyShift` from the codes still
in the port's queue: the last code of the shift key decides, or, without one, `keyShift` itself. It needs `AloneInv`,
because the code is read by a handler that nothing else may overtake.

- `ScreenAlwaysShowsText`: `TextInv` says that the screen shows some text t, and that `text` is t with the rest of the message
  that is being printed, which is nothing outside of a handler. `PrintShows` is the step: `print_char` does to what is shown what `Typed`
  does to the text, in each of its cases (a newline fills the row, a backspace may lead to the row above, the last row scrolls,
  and the overlapping copy upwards moves cells whole, `MemcpyMoves`). It needs `AloneInv`, for two messages printed at once would mix.
- `PrintfAlwaysSaysAll`: `SaysSoFar` says of a call that it has gone through the first k of its pieces: `i` and `args` stand where the
  pieces left end, `sent` and `buf` are together what those pieces mean, and there is room left for the NUL. What is sent is the buffer up to its first NUL;
  no piece has one (`MeaningIsWhole`). The model of a call ends where a plain character finds the buffer full.
  `ConsumedSays` has a case for each kind of piece. That a text given by pieces has them where they are expected (`FlatIs`, `PartAt`) is
  shown without induction, from the least position where it would fail. `ThreadsInv` adds where the shell is in its string, since
  what `strtok` left decides what is printed next; `%` is not in that string (`ShellTextAssumption`), for the shell passes it to `printf` as a format.

- `ItoaAlwaysRight`: `itoa` takes digits from the last one on, and the number is written by weights (`NumberText`: digit `k` is
  `size \div base^k % base`, and the first is not 0). Both are recursive functions over the values of an int; that they exist and obey
  their equations (`DigitsAre`, `WeightsAre`) is shown from segment to segment of the numbers, with `UpTo`. `LoopWritesDigits` goes along the quotients, with
  `DividedTwice` for the weights; `StrrevTurns` has the invariant of the swaps. The lowest int is its own negative modulo `IntSize`, which
  is why `-8` comes out right. `IntAssumption` is what the rooms have to be: 10^10 > 2^31 and 16^9 >= 2^32 for 12 and 10. TLC evaluates
  the statement for ints of four bits as well (`MCItoaAssumption`).
- `ShellAlwaysPrintsWords`: `ShellInv` says of the shell that its text is the original one up to where `strtok` has been, with a NUL for each
  delimiter on the way (`Torn`), that the token in hand begins behind a delimiter, and which words it has said there (`Reached`). Before the first call of
  `strtok` there is no token (`NoToken`). `StrtokFinds` and `StrtokEnds` are the three outcomes of `strtok`; that it is told from the byte
  before the context whether the last token is still to come is why `Torn` has to know every byte behind the shell. It needs
  `SpeechInv`, for what a call has said when it returns, and that the text is a C string of two words or more that ends with one (`ShellTextAssumption`) and that
  the shell is a thread (`ShellAssumption`).

What the programs pass to printf is well formed (`CallsAssumption`): each known specifier has its argument, and an
unknown one, whose argument printf does not skip, comes last; the character of a `%c` is not NUL. Any piece may follow any other.

Every safety property of the runs that pass is proved, with the assumptions named above. Only model-checked are the liveness properties
(fairness and ENABLED are beyond the prover), and what the runs that end in a violation show.

## 5. Not modelled, and the plan

Not modelled: `fat16.c` (a stub without callers); the A20 gate, the switch to protected mode and the clearing of `.bss`, descriptor
tables, attribute bits, TLB flushes and colours, which set hardware up in a straight line and hold no state that the
properties tell apart; `set_vid_mem`, which moves the screen's window once during boot; `lishell.h`, which is the compiled shell as
an array; `strlen`, `strcmp`, `memset` and the kernel's second `itoa`, textbook loops; two-byte scan codes.
`ProcessMemory` takes kernel heap pages from the boot window, and processes there have one thread
(`scheduler_add_thread` has no caller).

What comes next: a composition of kernel heap pages, the boot window and process memory on one allocator, with failures
of `kmalloc` in `process.c`.
