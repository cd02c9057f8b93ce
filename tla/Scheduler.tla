----------------------------- MODULE Scheduler -----------------------------
(***************************************************************************)
(* The task scheduler, kernel/process/scheduler.c: a singly linked queue   *)
(* of processes, each with a list of threads, walked round-robin by the    *)
(* timer interrupt; processes are appended to it and take themselves out   *)
(* of it with the exit system call.                                        *)
(*                                                                         *)
(* The timer, page fault and system call handlers are reached through      *)
(* interrupt gates, so each runs to its end: one action per handler.  The  *)
(* only caller that adds is kmain, before it enables interrupts; here      *)
(* processes and threads may be added at any time, with interrupts off.    *)
(* What the interrupted thread had in its registers is its program         *)
(* counter: START for 0xDEADBEEF, the address a new thread faults on,      *)
(* else 0 or 1.                                                            *)
(***************************************************************************)
EXTENDS Integers, Sequences, FiniteSets

CONSTANTS
  Idle,            \* the kernel process kmain adds first; it never exits
  Users,           \* processes that can be added
  MaxThreads,      \* bound on the threads of a process
  KernelTables,    \* page tables the kernel may add to its half of memory
  StaleExits,      \* a process may exit while previousProc is destroyed
  InnerExits,      \* a thread that is not its process's last may call exit
  NULL, BOOT       \* no process; the boot loader's page directory

Procs == Users \cup {Idle}
Directories == Procs \cup {BOOT}
Threads == 1 .. MaxThreads

START == 2
PCs == {0, 1, START}

ASSUME SchedulerAssumption ==
  /\ NULL \notin Directories /\ BOOT \notin Procs /\ Idle \notin Users
  /\ MaxThreads \in Nat \ {0}
  /\ StaleExits \in BOOLEAN /\ InnerExits \in BOOLEAN

VARIABLES
  pQueue, currentProc, previousProc, currentThread,   \* the globals
  next,        \* proc->next, of destroyed processes too
  threads,     \* number of threads of each process; 0: not added yet
  loaded,      \* processes whose binary is copied (binarySize = 0)
  regs,        \* thread->regs
  cpu,         \* what the processor goes on with after the interrupt
  at,          \* ghost: where each thread is, whatever is saved for it
  cr3,         \* the page directory in use
  tables,      \* the kernel's page tables that each directory has
  recursive,   \* the directory that each directory's last entry leads to
  destroyed,   \* processes that have exited; their memory is free
  panicked     \* the machine is halted, with interrupts off

globals == <<pQueue, currentProc, previousProc, currentThread>>
spaces  == <<cr3, tables, recursive>>
vars == <<globals, next, threads, loaded, regs, cpu, at, spaces, destroyed, panicked>>

Added == {p \in Procs : threads[p] > 0} \ destroyed

-----------------------------------------------------------------------------

Init ==
  /\ pQueue = NULL /\ currentProc = NULL /\ previousProc = NULL /\ currentThread = 0
  /\ next = [p \in Procs |-> NULL]
  /\ threads = [p \in Procs |-> 0]
  /\ loaded = {}
  /\ regs = [p \in Procs |-> [t \in Threads |-> START]]
  /\ at = [p \in Procs |-> [t \in Threads |-> START]]
  /\ cpu = 0
  /\ cr3 = BOOT
  /\ tables = [d \in Directories |-> {}]
  /\ recursive = [d \in Directories |-> IF d = BOOT THEN BOOT ELSE NULL]
  /\ destroyed = {}
  /\ panicked = FALSE

\* Nothing goes on after a panic, and this step is none.
GoesOn == ~panicked /\ panicked' = FALSE

\* kmalloc and vmmngr_map_page may need page tables for kernel addresses;
\* they are entered in the directory in use.
KernelMaps ==
  /\ \E K \in SUBSET KernelTables : tables' = [tables EXCEPT ![cr3] = @ \cup K]
  /\ UNCHANGED <<cr3, recursive>>

-----------------------------------------------------------------------------
(* Adding.                                                                 *)

\* A slip: the process is put before the others.
Enqueue_in_front(p) == pQueue' = p /\ next' = [next EXCEPT ![p] = pQueue]

\* The queue is walked to its end, the one process whose next is NULL.  (When
\* exits have left a destroyed process in it, nothing more is added.)
Enqueue(p) ==
  \/ /\ pQueue = NULL
     /\ pQueue' = p
     /\ UNCHANGED next
  \/ /\ pQueue # NULL
     /\ \E q \in Added : next[q] = NULL /\ next' = [next EXCEPT ![q] = p]
     /\ UNCHANGED pQueue

Add(p, pc) ==
  /\ GoesOn
  /\ threads[p] = 0
  /\ Enqueue(p)
  /\ threads' = [threads EXCEPT ![p] = 1]
  /\ regs' = [regs EXCEPT ![p][1] = pc]
  /\ at' = [at EXCEPT ![p][1] = pc]
  /\ KernelMaps
  /\ UNCHANGED <<currentProc, previousProc, currentThread, cpu, destroyed>>

\* kmain adds the idle process before any other.
scheduler_add_kernel_process ==
  /\ pQueue = NULL
  /\ Add(Idle, 0)
  /\ loaded' = loaded \cup {Idle}

scheduler_add_process(p) ==
  /\ pQueue # NULL
  /\ Add(p, START)
  /\ UNCHANGED loaded

scheduler_add_thread(p) ==
  /\ GoesOn
  /\ p \in Added /\ threads[p] < MaxThreads
  /\ threads' = [threads EXCEPT ![p] = @ + 1]
  /\ regs' = [regs EXCEPT ![p][threads[p] + 1] = START]
  /\ at' = [at EXCEPT ![p][threads[p] + 1] = START]
  /\ KernelMaps
  /\ UNCHANGED <<globals, next, loaded, cpu, destroyed>>

-----------------------------------------------------------------------------
(* Switching.                                                              *)

\* A slip: the new directory keeps the recursive entry of the old one.
Enter_copied_whole(p) ==
  /\ tables' = [tables EXCEPT ![p] = tables[cr3]]
  /\ recursive' = [recursive EXCEPT ![p] = recursive[cr3]]
  /\ cr3' = p

\* The kernel's half of the directory in use is copied to the one of p, its
\* recursive entry is made to lead to itself, and it is switched to.
Enter(p) ==
  /\ tables' = [tables EXCEPT ![p] = tables[cr3]]
  /\ recursive' = [recursive EXCEPT ![p] = p]
  /\ cr3' = p

Resume(p, t, saved) ==
  /\ currentProc' = p /\ currentThread' = t
  /\ regs' = saved
  /\ cpu' = saved[p][t]
  /\ Enter(p)

\* A slip: what the interrupted thread had in its registers is lost.
Saved_not == regs
Saved == [regs EXCEPT ![currentProc][currentThread] = cpu]

\* A slip: the first process is passed over when the queue starts again.
After_skips_head(p, link) ==
  IF link[p] # NULL THEN link[p]
  ELSE IF link[pQueue] # NULL THEN link[pQueue] ELSE pQueue

\* The process that follows p when the queue's links are link.
After(p, link) == IF link[p] = NULL THEN pQueue ELSE link[p]

\* scheduler_switch_process.
Switch(link) ==
  \/ /\ currentProc = NULL
     /\ Resume(pQueue, 1, regs)
     /\ UNCHANGED previousProc
  \/ /\ currentProc # NULL
     /\ \/ /\ currentThread = threads[currentProc]
           /\ previousProc' = currentProc
           /\ Resume(After(currentProc, link), 1, Saved)
        \/ /\ currentThread # threads[currentProc]
           /\ Resume(currentProc, currentThread + 1, Saved)
           /\ UNCHANGED previousProc

\* The timer interrupt.
scheduler_tick ==
  /\ GoesOn
  /\ pQueue # NULL
  /\ Switch(next)
  /\ UNCHANGED <<pQueue, next, threads, loaded, at, destroyed>>

\* The exit system call.
MayExit ==
  /\ currentProc \in Users
  /\ cpu # START
  /\ StaleExits \/ previousProc \notin destroyed
  /\ InnerExits \/ currentThread = threads[currentProc]

\* A slip: the process stays in the queue.
Unlinked_not == next
Unlinked == [next EXCEPT ![previousProc] = next[currentProc]]

\* The stale link and everything else in a destroyed process stays as it is
\* until the memory is used again.
scheduler_remove_current_process ==
  /\ GoesOn
  /\ MayExit
  /\ next' = Unlinked
  /\ Switch(Unlinked)
  /\ destroyed' = destroyed \cup {currentProc}
  /\ UNCHANGED <<pQueue, threads, loaded, at>>

-----------------------------------------------------------------------------
(* What the threads do between interrupts.                                 *)

Runs(pc) ==
  /\ cpu' = pc
  /\ at' = [at EXCEPT ![currentProc][currentThread] = pc]

ThreadSteps ==
  /\ GoesOn
  /\ currentProc # NULL /\ cpu # START
  /\ Runs(1 - cpu)
  /\ UNCHANGED <<globals, next, threads, loaded, regs, spaces, destroyed>>

\* The binary is no ELF file or memory runs out, for the process or, when it
\* is loaded, for the stack: pagefault_handle panics.
Fails == panicked' = TRUE /\ loaded' \in {loaded, loaded \cup {currentProc}}

\* Any other fault of a thread: pagefault_handle and fault_handler panic.
ThreadCrashes ==
  /\ ~panicked
  /\ currentProc # NULL /\ cpu # START
  /\ panicked' = TRUE
  /\ UNCHANGED <<globals, next, threads, loaded, regs, cpu, at, spaces, destroyed>>

\* The page fault of a new thread: scheduler_setup_current_thread loads the
\* binary if that is still to be done, and only then has an address for the
\* thread to go on at.  The thread of a loaded process faults again.
scheduler_setup_current_thread ==
  /\ ~panicked
  /\ currentProc # NULL /\ cpu = START
  /\ KernelMaps
  /\ UNCHANGED <<globals, next, threads, regs, destroyed>>
  /\ \/ /\ GoesOn
        /\ \/ currentProc \notin loaded /\ Runs(0)
           \/ currentProc \in loaded /\ UNCHANGED <<cpu, at>>
        /\ loaded' = loaded \cup {currentProc}
     \/ /\ Fails
        /\ UNCHANGED <<cpu, at>>

-----------------------------------------------------------------------------

Next ==
  \/ scheduler_add_kernel_process
  \/ \E p \in Users : scheduler_add_process(p) \/ scheduler_add_thread(p)
  \/ scheduler_tick
  \/ scheduler_remove_current_process
  \/ ThreadSteps
  \/ ThreadCrashes
  \/ scheduler_setup_current_thread

Spec == Init /\ [][Next]_vars

\* The timer goes on interrupting, whatever the threads do, until a panic.
FairSpec == Spec /\ WF_vars(scheduler_tick)

-----------------------------------------------------------------------------
(* Properties.                                                             *)

\* Every variable has its type.
TypeOK ==
  /\ pQueue \in Procs \cup {NULL} /\ currentProc \in Procs \cup {NULL}
  /\ previousProc \in Procs \cup {NULL}
  /\ currentThread \in Threads \cup {0}
  /\ next \in [Procs -> Procs \cup {NULL}]
  /\ threads \in [Procs -> Threads \cup {0}]
  /\ loaded \in SUBSET Procs
  /\ regs \in [Procs -> [Threads -> PCs]]
  /\ at \in [Procs -> [Threads -> PCs]]
  /\ cpu \in PCs
  /\ cr3 \in Directories
  /\ tables \in [Directories -> SUBSET KernelTables]
  /\ recursive \in [Directories -> Directories \cup {NULL}]
  /\ destroyed \in SUBSET Users
  /\ panicked \in BOOLEAN

\* The process that runs has not exited: neither its struct nor the page
\* directory in use has been freed.
RunningIsAlive == currentProc \in Added \cup {NULL} /\ cr3 \notin destroyed

\* Neither has any process in the queue, and no two of them have the same one
\* behind them: an exit takes exactly the process that exits out of it.
QueueIsAlive ==
  /\ pQueue \in Added \cup {NULL}
  /\ \A p \in Added : next[p] \in (Added \ {pQueue}) \cup {NULL}
  /\ \A p, q \in Added : next[p] = next[q] => p = q

\* previousProc is the process before the current one in the queue, the one
\* whose link an exit must change, unless it has exited itself.
PreviousPrecedes ==
  currentProc \notin {NULL, pQueue} /\ previousProc \notin destroyed =>
    previousProc \in Added /\ next[previousProc] = currentProc

\* The links are sound, so that an exit takes its process out and no other.
LinksAreSound == QueueIsAlive /\ PreviousPrecedes

\* Each thread is resumed with the registers it was interrupted with.
ContextsAreKept ==
  /\ currentProc # NULL => cpu = at[currentProc][currentThread]
  /\ \A p \in Added : \A t \in 1 .. threads[p] :
       <<p, t>> # <<currentProc, currentThread>> => regs[p][t] = at[p][t]

\* The directory in use has every page table the kernel has made, in whichever
\* process's time, and its recursive entry leads to itself: the kernel sees
\* all of its heap and edits the page tables of the process it runs for.
DirectoryIsReady ==
  /\ recursive[cr3] = cr3
  /\ currentProc # NULL => cr3 = currentProc
  /\ \A d \in Directories : tables[d] \subseteq tables[cr3]

\* Every thread of a process that does not exit gets the processor again and
\* again, whatever is added and whoever else exits, until a set-up that fails
\* or another fault halts the machine.
EveryThreadRuns ==
  \A p \in Procs : \A t \in Threads :
    p \in Added /\ t <= threads[p] ~>
      p \in destroyed \/ (currentProc = p /\ currentThread = t) \/ panicked

\* The processes in the order of the queue, from its head along the links.
IsQueue(q) ==
  /\ pQueue = IF q = <<>> THEN NULL ELSE q[1]
  /\ \A i \in DOMAIN q : next[q[i]] = IF i = Len(q) THEN NULL ELSE q[i + 1]

Queue == CHOOSE q \in [1 .. Cardinality(Added) -> Added] : IsQueue(q)

\* The scheduler implements the ring of RoundRobin.
Ring == INSTANCE RoundRobin WITH Members <- Procs, None <- NULL,
                                 ring <- Queue, turn <- currentProc

ImplementsRoundRobin == Ring!Spec

=============================================================================
