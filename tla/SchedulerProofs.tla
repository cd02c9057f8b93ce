-------------------------- MODULE SchedulerProofs --------------------------
(***************************************************************************)
(* Proofs about Scheduler, for any number of processes and threads, under  *)
(* the two conditions its passing runs have: a process exits with its last *)
(* thread, and not while previousProc is a process that has exited.        *)
(*                                                                         *)
(* The invariant speaks of links between neighbours only.  What a walk     *)
(* along the queue would show, that it is no circle, is said by a rank     *)
(* that grows along every link.  The refinement of the ring adds the queue *)
(* as a sequence: there is one that follows the links and holds each       *)
(* process in it once, and each step of the code changes it as the ring's. *)
(***************************************************************************)
EXTENDS Scheduler, ArithLemmas, SequenceTheorems

\* Only the kernel process is ever the first, and a process that was not
\* added has no link and has not exited.
QueueShape ==
  /\ pQueue \in {NULL, Idle}
  /\ pQueue = NULL => \A p \in Procs : threads[p] = 0
  /\ \A p \in Procs : threads[p] = 0 => next[p] = NULL /\ p \notin destroyed

\* Links lead upwards in some order of the processes.
RanksBy(rank) == \A p \in Added : next[p] # NULL => rank[p] < rank[next[p]]
NoCircle == \E rank \in [Procs -> Nat] : RanksBy(rank)

QueueInv == QueueShape /\ QueueIsAlive /\ NoCircle

\* Before the first switch the boot loader's directory is in use; afterwards
\* the current thread is one of the current process.
TurnShape ==
  /\ currentProc = NULL => cr3 = BOOT
  /\ currentProc # NULL => currentThread \in 1 .. threads[currentProc]

TurnInv == TurnShape /\ RunningIsAlive /\ PreviousPrecedes

Inv == TypeOK /\ QueueInv /\ TurnInv /\ ContextsAreKept /\ DirectoryIsReady

\* The behaviours the theorems are about.
OrderlyExits == ~StaleExits /\ ~InnerExits

-----------------------------------------------------------------------------

LEMMA Constants ==
  /\ NULL \notin Procs /\ NULL \notin Directories /\ BOOT \notin Procs
  /\ BOOT \in Directories /\ Procs \subseteq Directories
  /\ Idle \in Procs /\ Users \subseteq Procs /\ Idle \notin Users
  /\ MaxThreads \in Nat /\ 1 \in Threads /\ Threads \subseteq Nat /\ 0 \notin Threads
BY SchedulerAssumption DEF Procs, Directories, Threads

LEMMA InitialState == Init => Inv
<1> SUFFICES ASSUME Init PROVE Inv
  OBVIOUS
<1> USE Constants DEF Init
<1>1. Added = {}
  BY DEF Added
<1>2. TypeOK
  BY DEF TypeOK, PCs
<1>3. QueueShape /\ QueueIsAlive
  BY <1>1 DEF QueueShape, QueueIsAlive
<1>4. NoCircle
  <2>1. [p \in Procs |-> 0] \in [Procs -> Nat]
    OBVIOUS
  <2> QED BY <1>1, <2>1 DEF NoCircle, RanksBy
<1>5. TurnInv
  BY <1>1 DEF TurnInv, TurnShape, RunningIsAlive, PreviousPrecedes
<1>6. ContextsAreKept /\ DirectoryIsReady
  BY <1>1 DEF ContextsAreKept, DirectoryIsReady
<1> QED BY <1>2, <1>3, <1>4, <1>5, <1>6 DEF Inv, QueueInv

-----------------------------------------------------------------------------
(* Adding.                                                                 *)

\* Putting a process at the end of the queue keeps the queue in order.
LEMMA AddKeepsQueue ==
  ASSUME Inv, NEW p \in Procs, NEW pc \in PCs, Add(p, pc),
         pQueue = NULL => p = Idle
  PROVE  QueueInv' /\ Added' = Added \cup {p} /\ p \notin Added
<1> USE Constants
<1>1. /\ threads[p] = 0 /\ threads' = [threads EXCEPT ![p] = 1]
      /\ destroyed' = destroyed /\ Enqueue(p)
      /\ threads \in [Procs -> Threads \cup {0}] /\ next \in [Procs -> Procs \cup {NULL}]
      /\ next[p] = NULL /\ p \notin destroyed
  BY DEF Add, Inv, TypeOK, QueueInv, QueueShape
<1>2. Added' = Added \cup {p} /\ p \notin Added
  BY <1>1 DEF Added
<1>3. CASE pQueue = NULL
  <2>1. Added = {} /\ p = Idle
    BY <1>3 DEF Inv, QueueInv, QueueShape, Added
  <2>2. pQueue' = p /\ next' = next
    BY <1>1, <1>3 DEF Enqueue
  <2>3. QueueShape'
    BY <1>1, <2>1, <2>2 DEF Inv, QueueInv, QueueShape
  <2>4. QueueIsAlive'
    BY <1>1, <1>2, <2>1, <2>2 DEF QueueIsAlive
  <2>5. NoCircle'
    <3>1. [q \in Procs |-> 0] \in [Procs -> Nat]
      OBVIOUS
    <3> QED BY <1>1, <1>2, <2>1, <2>2, <3>1 DEF NoCircle, RanksBy
  <2> QED BY <1>2, <2>3, <2>4, <2>5 DEF QueueInv
<1>4. CASE pQueue # NULL
  <2>1. PICK q \in Added : next[q] = NULL /\ next' = [next EXCEPT ![q] = p]
    BY <1>1, <1>4 DEF Enqueue
  <2>2. /\ q \in Procs /\ q # p /\ pQueue' = pQueue
        /\ next'[q] = p /\ \A g \in Procs \ {q} : next'[g] = next[g]
    BY <1>1, <1>2, <1>4, <2>1 DEF Enqueue, Added
  <2>3. QueueShape'
    <3>1. pQueue' \in {NULL, Idle} /\ pQueue' # NULL
      BY <1>4, <2>2 DEF Inv, QueueInv, QueueShape
    <3>2. ASSUME NEW g \in Procs, threads'[g] = 0
          PROVE  next'[g] = NULL /\ g \notin destroyed'
      BY <1>1, <2>1, <2>2, <3>2 DEF Inv, QueueInv, QueueShape, Added
    <3> QED BY <3>1, <3>2 DEF QueueShape
  <2>4. QueueIsAlive'
    <3>1. /\ pQueue \in Added /\ pQueue # p
          /\ \A g \in Added : next[g] \in (Added \ {pQueue}) \cup {NULL}
          /\ \A g, h \in Added : next[g] = next[h] => g = h
      BY <1>2, <1>4 DEF Inv, QueueInv, QueueIsAlive
    <3>2. pQueue' \in Added' \cup {NULL}
      BY <1>2, <2>2, <3>1
    <3>3. \A g \in Added : g # q => next'[g] = next[g] /\ next[g] # NULL
      BY <2>1, <2>2, <3>1 DEF Added
    <3>4. next'[q] = p /\ next'[p] = NULL
      BY <1>1, <2>2
    <3>5. \A g \in Added' : next'[g] \in (Added' \ {pQueue'}) \cup {NULL}
      BY <1>2, <2>2, <3>1, <3>3, <3>4
    <3>6. ASSUME NEW g \in Added', NEW h \in Added', next'[g] = next'[h]
          PROVE  g = h
      <4>1. \A f \in Added : next[f] # p
        BY <1>2, <3>1
      <4> QED BY <1>2, <3>1, <3>3, <3>4, <3>6, <4>1
    <3> QED BY <3>2, <3>5, <3>6 DEF QueueIsAlive
  <2>5. NoCircle'
    <3>1. PICK rank \in [Procs -> Nat] : RanksBy(rank)
      BY DEF Inv, QueueInv, NoCircle
    <3> DEFINE above == [rank EXCEPT ![p] = rank[q] + 1]
    <3>2. above \in [Procs -> Nat] /\ above[p] = rank[q] + 1
      BY <2>2
    <3>3. \A g \in Procs \ {p} : above[g] = rank[g]
      BY <2>2
    <3> HIDE DEF above
    <3>4. ASSUME NEW g \in Added', next'[g] # NULL
          PROVE  above[g] < above[next'[g]]
      <4>1. g \in Added /\ g # p /\ g \in Procs
        BY <1>1, <1>2, <2>2, <3>4 DEF Added
      <4>2. CASE g = q
        BY <2>2, <3>2, <3>3, <4>1, <4>2
      <4>3. CASE g # q
        <5>1. next'[g] = next[g] /\ next[g] \in Added /\ next[g] \in Procs /\ next[g] # p
          BY <1>2, <2>2, <3>4, <4>1, <4>3 DEF Inv, QueueInv, QueueIsAlive, Added
        <5>2. rank[g] < rank[next[g]]
          BY <3>1, <3>4, <4>1, <5>1 DEF RanksBy
        <5> QED BY <3>3, <4>1, <5>1, <5>2
      <4> QED BY <4>2, <4>3
    <3> QED BY <3>2, <3>4 DEF NoCircle, RanksBy
  <2> QED BY <1>2, <2>3, <2>4, <2>5 DEF QueueInv
<1> QED BY <1>3, <1>4

\* New page tables of the kernel's are in the directory in use, which stays
\* the one with all of them.
LEMMA KernelMapsIsReady ==
  ASSUME TypeOK, DirectoryIsReady, KernelMaps, currentProc' = currentProc
  PROVE  /\ DirectoryIsReady' /\ cr3' = cr3 /\ recursive' = recursive
         /\ tables' \in [Directories -> SUBSET KernelTables]
<1>1. PICK K \in SUBSET KernelTables : tables' = [tables EXCEPT ![cr3] = @ \cup K]
  BY DEF KernelMaps
<1>2. cr3' = cr3 /\ recursive' = recursive /\ cr3 \in Directories
      /\ tables \in [Directories -> SUBSET KernelTables]
  BY DEF KernelMaps, TypeOK
<1>3. tables' \in [Directories -> SUBSET KernelTables]
  BY <1>1, <1>2
<1>4. \A d \in Directories : tables'[d] \subseteq tables'[cr3]
  BY <1>1, <1>2 DEF DirectoryIsReady
<1> QED BY <1>2, <1>3, <1>4 DEF DirectoryIsReady


\* So everything keeps the invariant that adds a process.
LEMMA AddStep ==
  ASSUME Inv, NEW p \in Procs, NEW pc \in PCs, Add(p, pc),
         pQueue = NULL => p = Idle,
         loaded' \subseteq Procs
  PROVE  Inv'
<1> USE Constants
<1>1. QueueInv' /\ Added' = Added \cup {p} /\ p \notin Added
  BY AddKeepsQueue
<1>2. /\ UNCHANGED <<currentProc, previousProc, currentThread, cpu, destroyed>>
      /\ threads' = [threads EXCEPT ![p] = 1] /\ threads[p] = 0
      /\ regs' = [regs EXCEPT ![p][1] = pc]
      /\ at' = [at EXCEPT ![p][1] = pc]
      /\ KernelMaps
  BY DEF Add
<1>3. TypeOK
  BY DEF Inv
<1>4. /\ DirectoryIsReady' /\ cr3' = cr3 /\ recursive' = recursive
      /\ tables' \in [Directories -> SUBSET KernelTables]
  BY <1>2, <1>3, KernelMapsIsReady DEF Inv
<1>5. currentProc # p
  BY <1>1 DEF Inv, TurnInv, RunningIsAlive
<1>6. TypeOK'
  <2>1. pQueue' \in Procs \cup {NULL} /\ next' \in [Procs -> Procs \cup {NULL}]
    <3>1. pQueue \in Procs \cup {NULL} /\ next \in [Procs -> Procs \cup {NULL}]
      BY <1>3 DEF TypeOK
    <3>2. Enqueue(p)
      BY DEF Add
    <3> QED BY <3>1, <3>2 DEF Enqueue
  <2>2. /\ threads' \in [Procs -> Threads \cup {0}]
        /\ regs' \in [Procs -> [Threads -> PCs]]
        /\ at' \in [Procs -> [Threads -> PCs]]
    BY <1>2, <1>3 DEF TypeOK
  <2>3. panicked' \in BOOLEAN
    BY Zenon DEF Add, GoesOn
  <2> QED BY <1>2, <1>3, <1>4, <2>1, <2>2, <2>3 DEF TypeOK
<1>7. TurnInv'
  <2>1. TurnShape'
    BY <1>2, <1>3, <1>4, <1>5 DEF Inv, TurnInv, TurnShape, TypeOK
  <2>2. RunningIsAlive'
    BY <1>1, <1>2, <1>4 DEF Inv, TurnInv, RunningIsAlive
  <2>3. PreviousPrecedes'
    <3> SUFFICES ASSUME currentProc \notin {NULL, pQueue'}, previousProc \notin destroyed
                 PROVE  previousProc \in Added' /\ next'[previousProc] = currentProc
      BY <1>2 DEF PreviousPrecedes
    <3>1. pQueue # NULL
      BY <1>3, <1>5 DEF Inv, QueueInv, QueueShape, TurnInv, RunningIsAlive, Added
    <3>2. pQueue' = pQueue
      BY <3>1 DEF Add, Enqueue
    <3>3. previousProc \in Added /\ next[previousProc] = currentProc
      BY <3>2 DEF Inv, TurnInv, PreviousPrecedes
    <3>4. next'[previousProc] = next[previousProc]
      BY <1>3, <3>1, <3>3 DEF Add, Enqueue, TypeOK, Added
    <3> QED BY <1>1, <3>3, <3>4
  <2> QED BY <2>1, <2>2, <2>3 DEF TurnInv
<1>8. ContextsAreKept'
  <2>1. currentProc # NULL => cpu = at'[currentProc][currentThread]
    BY <1>2, <1>3, <1>5 DEF Inv, ContextsAreKept, TypeOK
  <2>2. ASSUME NEW g \in Added', NEW t \in 1 .. threads'[g],
               <<g, t>> # <<currentProc, currentThread>>
        PROVE  regs'[g][t] = at'[g][t]
    <3>1. CASE g = p
      <4>1. t = 1
        BY <1>2, <1>3, <3>1 DEF TypeOK
      <4> QED BY <1>2, <1>3, <3>1, <4>1 DEF TypeOK
    <3>2. CASE g # p
      <4>1. g \in Added /\ g \in Procs /\ threads'[g] = threads[g]
        BY <1>1, <1>2, <1>3, <3>2 DEF Added, TypeOK
      <4>2. regs[g][t] = at[g][t]
        BY <2>2, <4>1 DEF Inv, ContextsAreKept
      <4> QED BY <1>2, <1>3, <3>2, <4>1, <4>2 DEF TypeOK
    <3> QED BY <3>1, <3>2
  <2> QED BY <1>2, <2>1, <2>2 DEF ContextsAreKept
<1> QED BY <1>1, <1>4, <1>6, <1>7, <1>8 DEF Inv

\* A thread of a process that is there already.
LEMMA AddThreadStep ==
  ASSUME Inv, NEW p \in Users, scheduler_add_thread(p)
  PROVE  Inv'
<1> USE Constants
<1> DEFINE n == threads[p] + 1
<1>1. /\ UNCHANGED <<globals, next, loaded, cpu, destroyed>>
      /\ p \in Added /\ p \in Procs
      /\ threads' = [threads EXCEPT ![p] = n]
      /\ regs' = [regs EXCEPT ![p][n] = START]
      /\ at' = [at EXCEPT ![p][n] = START]
      /\ KernelMaps
  BY DEF scheduler_add_thread
<1>2. TypeOK
  BY DEF Inv
<1>3. n \in Threads /\ n - 1 = threads[p] /\ threads[p] \in Nat /\ threads[p] > 0
  BY <1>1, <1>2 DEF scheduler_add_thread, TypeOK, Threads, Added
<1> HIDE DEF n
<1>4. /\ DirectoryIsReady' /\ cr3' = cr3 /\ recursive' = recursive
      /\ tables' \in [Directories -> SUBSET KernelTables]
  BY <1>1, <1>2, KernelMapsIsReady DEF Inv, globals
<1>5. TypeOK'
  <2>1. /\ threads' \in [Procs -> Threads \cup {0}]
        /\ regs' \in [Procs -> [Threads -> PCs]]
        /\ at' \in [Procs -> [Threads -> PCs]]
    BY <1>1, <1>2, <1>3 DEF TypeOK, PCs
  <2>2. panicked' \in BOOLEAN
    BY Zenon DEF scheduler_add_thread, GoesOn
  <2> QED BY <1>1, <1>2, <1>4, <2>1, <2>2 DEF TypeOK, globals
<1>6. /\ Added' = Added
      /\ \A g \in Procs : threads'[g] = 0 <=> threads[g] = 0
      /\ \A g \in Procs \ {p} : threads'[g] = threads[g]
      /\ threads'[p] = n
  BY <1>1, <1>2, <1>3 DEF Added, TypeOK
<1>7. QueueInv'
  BY <1>1, <1>6 DEF Inv, QueueInv, QueueShape, QueueIsAlive, NoCircle, RanksBy, globals, Added
<1>8. TurnInv'
  <2>1. TurnShape'
    BY <1>1, <1>2, <1>3, <1>4, <1>6 DEF Inv, TurnInv, TurnShape, globals, TypeOK
  <2> QED BY <1>1, <1>4, <1>6, <2>1 DEF Inv, TurnInv, RunningIsAlive, PreviousPrecedes, globals
<1>9. ContextsAreKept'
  <2>1. \A g \in Procs : \A t \in Threads : <<g, t>> # <<p, n>> =>
          regs'[g][t] = regs[g][t] /\ at'[g][t] = at[g][t]
    BY <1>1, <1>2, <1>3 DEF TypeOK
  <2>2. regs'[p][n] = at'[p][n]
    BY <1>1, <1>2, <1>3 DEF TypeOK
  <2>3. currentProc # NULL => cpu = at'[currentProc][currentThread]
    <3> SUFFICES ASSUME currentProc # NULL PROVE cpu = at'[currentProc][currentThread]
      OBVIOUS
    <3>1. currentProc \in Procs /\ currentThread \in Threads
          /\ currentThread \in 1 .. threads[currentProc]
      BY <1>2 DEF Inv, TurnInv, TurnShape, TypeOK, Threads
    <3>2. <<currentProc, currentThread>> # <<p, n>>
      BY <1>3, <3>1
    <3> QED BY <2>1, <3>1, <3>2 DEF Inv, ContextsAreKept
  <2>4. ASSUME NEW g \in Added, NEW t \in 1 .. threads'[g],
               <<g, t>> # <<currentProc, currentThread>>
        PROVE  regs'[g][t] = at'[g][t]
    <3>1. g \in Procs /\ t \in Threads
      <4>1. g \in Procs /\ threads'[g] \in Threads \cup {0}
        BY <1>5 DEF Added, TypeOK
      <4> QED BY <4>1 DEF Threads
    <3>2. CASE <<g, t>> = <<p, n>>
      BY <2>2, <3>2
    <3>3. CASE <<g, t>> # <<p, n>>
      <4>1. t \in 1 .. threads[g]
        BY <1>3, <1>6, <3>1, <3>3 DEF Threads
      <4>2. regs[g][t] = at[g][t]
        BY <2>4, <4>1 DEF Inv, ContextsAreKept
      <4> QED BY <2>1, <3>1, <3>3, <4>2
    <3> QED BY <3>2, <3>3
  <2> QED BY <1>1, <1>6, <2>3, <2>4 DEF ContextsAreKept, globals
<1> QED BY <1>4, <1>5, <1>7, <1>8, <1>9 DEF Inv

-----------------------------------------------------------------------------
(* Threads.                                                                *)

\* A thread that goes on moves in the registers and in its own place alike.
LEMMA RunsKeepsContexts ==
  ASSUME Inv, NEW pc \in PCs, currentProc # NULL, Runs(pc),
         UNCHANGED <<globals, threads, regs, destroyed>>
  PROVE  ContextsAreKept' /\ cpu' \in PCs /\ at' \in [Procs -> [Threads -> PCs]]
<1> USE Constants
<1>1. /\ currentProc \in Procs /\ currentThread \in Threads
      /\ at \in [Procs -> [Threads -> PCs]]
  BY DEF Inv, TypeOK, TurnInv, TurnShape, Threads
<1>2. at' = [at EXCEPT ![currentProc][currentThread] = pc] /\ cpu' = pc
  BY DEF Runs
<1>3. \A g \in Procs : \A t \in Threads :
        <<g, t>> # <<currentProc, currentThread>> => at'[g][t] = at[g][t]
  BY <1>1, <1>2
<1>4. at'[currentProc][currentThread] = pc /\ at' \in [Procs -> [Threads -> PCs]]
  BY <1>1, <1>2
<1>5. ASSUME NEW g \in Added, NEW t \in 1 .. threads[g],
             <<g, t>> # <<currentProc, currentThread>>
      PROVE  regs[g][t] = at'[g][t]
  <2>1. g \in Procs /\ t \in Threads
    <3>1. g \in Procs /\ threads[g] \in Threads \cup {0}
      BY DEF Inv, TypeOK, Added
    <3> QED BY <3>1 DEF Threads
  <2> QED BY <1>3, <1>5, <2>1 DEF Inv, ContextsAreKept
<1>6. Added' = Added
  BY DEF Added
<1> QED BY <1>2, <1>4, <1>5, <1>6 DEF ContextsAreKept, globals

LEMMA ThreadStep == ASSUME Inv, ThreadSteps PROVE Inv'
<1>1. /\ currentProc # NULL /\ Runs(1 - cpu) /\ 1 - cpu \in PCs
      /\ UNCHANGED <<globals, next, threads, loaded, regs, spaces, destroyed>>
  BY DEF ThreadSteps, Inv, TypeOK, PCs, START
<1>2. ContextsAreKept' /\ cpu' \in PCs /\ at' \in [Procs -> [Threads -> PCs]]
  BY <1>1, RunsKeepsContexts
<1>3. TypeOK'
  <2>1. panicked' \in BOOLEAN
    BY Zenon DEF ThreadSteps, GoesOn
  <2> QED BY <1>1, <1>2, <2>1 DEF Inv, TypeOK, globals, spaces
<1> QED BY <1>1, <1>2, <1>3 DEF Inv, QueueInv, QueueShape, QueueIsAlive, NoCircle, RanksBy,
          TurnInv, TurnShape, RunningIsAlive, PreviousPrecedes, DirectoryIsReady, Added, globals, spaces

LEMMA CrashStep == ASSUME Inv, ThreadCrashes PROVE Inv'
<1>1. UNCHANGED <<globals, next, threads, loaded, regs, cpu, at, spaces, destroyed>>
  BY DEF ThreadCrashes
<1>2. panicked' \in BOOLEAN
  BY Zenon DEF ThreadCrashes
<1>3. TypeOK' /\ ContextsAreKept'
  BY <1>1, <1>2 DEF Inv, TypeOK, ContextsAreKept, Added, globals, spaces
<1> QED BY <1>1, <1>3 DEF Inv, QueueInv, QueueShape, QueueIsAlive, NoCircle, RanksBy,
          TurnInv, TurnShape, RunningIsAlive, PreviousPrecedes, DirectoryIsReady, Added, globals, spaces

LEMMA SetupStep == ASSUME Inv, scheduler_setup_current_thread PROVE Inv'
<1>1. /\ currentProc # NULL /\ KernelMaps
      /\ UNCHANGED <<globals, next, threads, regs, destroyed>>
  BY DEF scheduler_setup_current_thread
<1>2. ContextsAreKept' /\ cpu' \in PCs /\ at' \in [Procs -> [Threads -> PCs]]
  <2>1. CASE Runs(0)
    BY <1>1, <2>1, RunsKeepsContexts DEF PCs
  <2>2. CASE UNCHANGED <<cpu, at>>
    BY <1>1, <2>2 DEF Inv, TypeOK, ContextsAreKept, Added, globals
  <2>3. Runs(0) \/ UNCHANGED <<cpu, at>>
    BY Zenon DEF scheduler_setup_current_thread
  <2> QED BY <2>1, <2>2, <2>3
<1>3. /\ DirectoryIsReady' /\ cr3' = cr3 /\ recursive' = recursive
      /\ tables' \in [Directories -> SUBSET KernelTables]
  BY <1>1, KernelMapsIsReady DEF Inv, globals
<1>4. TypeOK'
  <2>1. panicked' \in BOOLEAN
    BY Zenon DEF scheduler_setup_current_thread, GoesOn, Fails
  <2>2. loaded' \in {loaded, loaded \cup {currentProc}}
    BY Zenon DEF scheduler_setup_current_thread, Fails
  <2>3. currentProc \in Procs /\ loaded \in SUBSET Procs
    BY <1>1, Constants DEF Inv, TypeOK
  <2>4. loaded' \in SUBSET Procs
    BY <2>2, <2>3
  <2> QED BY <1>1, <1>2, <1>3, <2>1, <2>4 DEF Inv, TypeOK, globals
<1> QED BY <1>1, <1>2, <1>3, <1>4 DEF Inv, QueueInv, QueueShape, QueueIsAlive, NoCircle, RanksBy,
          TurnInv, TurnShape, RunningIsAlive, PreviousPrecedes, Added, globals

-----------------------------------------------------------------------------
(* Switching.                                                              *)

\* Once the interrupted thread's registers are saved, every thread's are.
LEMMA AllSaved ==
  ASSUME Inv, currentProc # NULL
  PROVE  /\ Saved \in [Procs -> [Threads -> PCs]]
         /\ \A g \in Added : \A t \in 1 .. threads[g] : Saved[g][t] = at[g][t]
<1> USE Constants
<1>1. /\ currentProc \in Procs /\ currentThread \in Threads
      /\ regs \in [Procs -> [Threads -> PCs]] /\ cpu \in PCs
      /\ cpu = at[currentProc][currentThread]
  BY DEF Inv, TypeOK, TurnInv, TurnShape, ContextsAreKept, Threads
<1>2. Saved = [regs EXCEPT ![currentProc][currentThread] = cpu]
  BY DEF Saved
<1>3. Saved \in [Procs -> [Threads -> PCs]]
  BY <1>1, <1>2
<1>4. ASSUME NEW g \in Added, NEW t \in 1 .. threads[g]
      PROVE  Saved[g][t] = at[g][t]
  <2>1. g \in Procs /\ t \in Threads
    <3>1. g \in Procs /\ threads[g] \in Threads \cup {0}
      BY DEF Inv, TypeOK, Added
    <3> QED BY <3>1 DEF Threads
  <2>2. CASE <<g, t>> = <<currentProc, currentThread>>
    BY <1>1, <1>2, <2>2
  <2>3. CASE <<g, t>> # <<currentProc, currentThread>>
    <3>1. regs[g][t] = at[g][t]
      BY <2>3 DEF Inv, ContextsAreKept
    <3> QED BY <1>1, <1>2, <2>1, <2>3, <3>1
  <2> QED BY <2>2, <2>3
<1> QED BY <1>3, <1>4

\* What is left to show of a switch along sound links: it goes to a thread
\* there is, of a process that is there afterwards, and enters its directory.
LEMMA ResumeKeeps ==
  ASSUME Inv, NEW p \in Procs, NEW t \in Nat, NEW saved \in [Procs -> [Threads -> PCs]],
         Resume(p, t, saved),
         UNCHANGED <<threads, at>>, Added' \subseteq Added,
         p \in Added', t \in 1 .. threads[p], destroyed' \subseteq Users,
         \A g \in Added : \A u \in 1 .. threads[g] : saved[g][u] = at[g][u]
  PROVE  /\ ContextsAreKept' /\ DirectoryIsReady' /\ RunningIsAlive' /\ TurnShape'
         /\ currentThread' \in Threads /\ cpu' \in PCs
         /\ regs' \in [Procs -> [Threads -> PCs]]
         /\ cr3' \in Directories
         /\ tables' \in [Directories -> SUBSET KernelTables]
         /\ recursive' \in [Directories -> Directories \cup {NULL}]
<1> USE Constants
<1>1. /\ currentProc' = p /\ currentThread' = t /\ regs' = saved /\ cpu' = saved[p][t]
      /\ tables' = [tables EXCEPT ![p] = tables[cr3]]
      /\ recursive' = [recursive EXCEPT ![p] = p] /\ cr3' = p
  BY DEF Resume, Enter
<1>2. /\ cr3 \in Directories /\ tables \in [Directories -> SUBSET KernelTables]
      /\ recursive \in [Directories -> Directories \cup {NULL}]
  BY DEF Inv, TypeOK
<1>3. t \in Threads
  <2>1. threads[p] \in Threads \cup {0}
    BY DEF Inv, TypeOK
  <2> QED BY <2>1 DEF Threads
<1>4. ContextsAreKept'
  <2>1. cpu' = at'[currentProc'][currentThread']
    BY <1>1
  <2>2. \A g \in Added' : \A u \in 1 .. threads'[g] : regs'[g][u] = at'[g][u]
    BY <1>1
  <2> QED BY <2>1, <2>2 DEF ContextsAreKept
<1>5. DirectoryIsReady'
  <2>1. recursive'[p] = p /\ tables'[p] = tables[cr3]
    BY <1>1, <1>2
  <2>2. \A d \in Directories : tables'[d] \subseteq tables'[p]
    BY <1>1, <1>2, <2>1 DEF Inv, DirectoryIsReady
  <2> QED BY <1>1, <2>1, <2>2 DEF DirectoryIsReady
<1>6. RunningIsAlive'
  BY <1>1 DEF RunningIsAlive, Added
<1>7. TurnShape'
  BY <1>1 DEF TurnShape
<1>8. saved[p][t] \in PCs
  BY <1>3
<1>9. tables' \in [Directories -> SUBSET KernelTables]
      /\ recursive' \in [Directories -> Directories \cup {NULL}]
  BY <1>1, <1>2
<1> QED BY <1>1, <1>3, <1>4, <1>5, <1>6, <1>7, <1>8, <1>9

\* The timer interrupt.
LEMMA TickStep ==
  ASSUME Inv, scheduler_tick
  PROVE  Inv'
<1> USE Constants
<1>1. /\ pQueue # NULL /\ Switch(next)
      /\ UNCHANGED <<pQueue, next, threads, loaded, at, destroyed>>
  BY DEF scheduler_tick
<1>2. Added' = Added /\ destroyed' \subseteq Users
  BY <1>1 DEF Added, Inv, TypeOK
<1>3. QueueInv'
  BY <1>1, <1>2 DEF Inv, QueueInv, QueueShape, QueueIsAlive, NoCircle, RanksBy
<1>4. pQueue \in Added /\ \A g \in Added : g \in Procs /\ 1 \in 1 .. threads[g]
  <2>1. pQueue \in Added
    BY <1>1 DEF Inv, QueueInv, QueueIsAlive
  <2>2. ASSUME NEW g \in Added PROVE g \in Procs /\ 1 \in 1 .. threads[g]
    <3>1. g \in Procs /\ threads[g] \in Threads \cup {0} /\ threads[g] > 0
      BY DEF Added, Inv, TypeOK
    <3> QED BY <3>1 DEF Threads
  <2> QED BY <2>1, <2>2
<1> DEFINE Kept == /\ ContextsAreKept' /\ DirectoryIsReady' /\ RunningIsAlive' /\ TurnShape'
                   /\ currentThread' \in Threads /\ cpu' \in PCs
                   /\ regs' \in [Procs -> [Threads -> PCs]]
                   /\ cr3' \in Directories
                   /\ tables' \in [Directories -> SUBSET KernelTables]
                   /\ recursive' \in [Directories -> Directories \cup {NULL}]
<1>5. Kept /\ PreviousPrecedes' /\ previousProc' \in Procs \cup {NULL} /\ currentProc' \in Procs
  <2>1. CASE currentProc = NULL
    <3>1. Resume(pQueue, 1, regs) /\ previousProc' = previousProc
      BY <1>1, <2>1 DEF Switch
    <3>2. /\ regs \in [Procs -> [Threads -> PCs]] /\ previousProc \in Procs \cup {NULL}
          /\ \A g \in Added : \A u \in 1 .. threads[g] : regs[g][u] = at[g][u]
      BY <1>4, <2>1 DEF Inv, TypeOK, ContextsAreKept
    <3>3. Kept
      BY <1>1, <1>2, <1>4, <3>1, <3>2, ResumeKeeps
    <3>4. currentProc' = pQueue
      BY <3>1 DEF Resume
    <3> QED BY <1>1, <1>4, <3>1, <3>2, <3>3, <3>4 DEF PreviousPrecedes
  <2>2. CASE currentProc # NULL /\ currentThread = threads[currentProc]
    <3>1. previousProc' = currentProc /\ Resume(After(currentProc, next), 1, Saved)
      BY <1>1, <2>2 DEF Switch
    <3>2. currentProc \in Added
      BY <2>2 DEF Inv, TurnInv, RunningIsAlive
    <3>3. After(currentProc, next) \in Added
      BY <1>4, <3>2 DEF After, Inv, QueueInv, QueueIsAlive
    <3>4. Kept
      BY <1>1, <1>2, <1>4, <2>2, <3>1, <3>3, ResumeKeeps, AllSaved
    <3>5. currentProc' = After(currentProc, next)
      BY <3>1 DEF Resume
    <3>6. PreviousPrecedes'
      BY <1>1, <1>2, <3>1, <3>2, <3>5 DEF PreviousPrecedes, After
    <3> QED BY <1>4, <3>1, <3>2, <3>3, <3>4, <3>5, <3>6
  <2>3. CASE currentProc # NULL /\ currentThread # threads[currentProc]
    <3>1. previousProc' = previousProc /\ Resume(currentProc, currentThread + 1, Saved)
      BY <1>1, <2>3 DEF Switch
    <3>2. /\ currentProc \in Added /\ currentThread + 1 \in Nat
          /\ currentThread + 1 \in 1 .. threads[currentProc]
      <4>1. currentProc \in Added /\ currentThread \in 1 .. threads[currentProc]
        BY <2>3 DEF Inv, TurnInv, TurnShape, RunningIsAlive
      <4>2. threads[currentProc] \in Threads \cup {0}
        BY <4>1 DEF Inv, TypeOK, Added
      <4>3. threads[currentProc] \in Nat
        BY <4>2 DEF Threads
      <4> QED BY <2>3, <4>1, <4>3
    <3>3. Kept
      BY <1>1, <1>2, <1>4, <2>3, <3>1, <3>2, ResumeKeeps, AllSaved
    <3>4. currentProc' = currentProc
      BY <3>1 DEF Resume
    <3>5. PreviousPrecedes'
      BY <1>1, <1>2, <3>1, <3>4 DEF Inv, TurnInv, PreviousPrecedes
    <3> QED BY <1>4, <3>1, <3>2, <3>3, <3>4, <3>5 DEF Inv, TypeOK
  <2> QED BY <2>1, <2>2, <2>3
<1>6. TypeOK'
  <2>1. panicked' \in BOOLEAN
    BY Zenon DEF scheduler_tick, GoesOn
  <2> QED BY <1>1, <1>5, <2>1 DEF Inv, TypeOK
<1> QED BY <1>3, <1>5, <1>6 DEF Inv, TurnInv

\* An orderly exit: previousProc is right, so the process that exits is taken
\* out of the queue, and the one behind it, or the first, goes on.
LEMMA ExitStep ==
  ASSUME OrderlyExits, Inv, scheduler_remove_current_process
  PROVE  Inv'
<1> USE Constants
<1> DEFINE c == currentProc
<1> DEFINE q == previousProc
<1> DEFINE to == After(c, Unlinked)
<1>1. /\ c \in Users /\ c \in Procs /\ c # NULL /\ c # Idle
      /\ q \notin destroyed /\ currentThread = threads[c]
      /\ next' = Unlinked /\ Switch(Unlinked) /\ destroyed' = destroyed \cup {c}
      /\ UNCHANGED <<pQueue, threads, loaded, at>>
  BY DEF scheduler_remove_current_process, MayExit, OrderlyExits
<1>2. c \in Added /\ pQueue # NULL /\ pQueue \in Added /\ pQueue # c
  BY <1>1 DEF Inv, TurnInv, RunningIsAlive, QueueInv, QueueShape, QueueIsAlive, Added
<1>3. q \in Added /\ q \in Procs /\ next[q] = c
  BY <1>1, <1>2 DEF Inv, TurnInv, PreviousPrecedes, Added
<1>4. /\ next \in [Procs -> Procs \cup {NULL}]
      /\ \A g \in Added : next[g] \in (Added \ {pQueue}) \cup {NULL}
      /\ \A g, h \in Added : next[g] = next[h] => g = h
  BY DEF Inv, TypeOK, QueueInv, QueueIsAlive
<1>5. PICK rank \in [Procs -> Nat] : RanksBy(rank)
  BY DEF Inv, QueueInv, NoCircle
<1>6. q # c /\ next[c] # c
  <2>1. rank[q] < rank[c]
    BY <1>1, <1>3, <1>5 DEF RanksBy
  <2>2. next[c] # NULL => rank[c] < rank[next[c]]
    BY <1>2, <1>5 DEF RanksBy
  <2>3. rank[c] \in Nat
    BY <1>1, <1>5
  <2> QED BY <1>1, <2>1, <2>2, <2>3
<1>7. /\ next' \in [Procs -> Procs \cup {NULL}]
      /\ next'[q] = next[c] /\ \A g \in Procs \ {q} : next'[g] = next[g]
  BY <1>1, <1>3, <1>4 DEF Unlinked
<1>8. Added' = Added \ {c} /\ destroyed' \subseteq Users
  BY <1>1 DEF Added, Inv, TypeOK
<1>9. \A g \in Added : g \in Procs /\ threads[g] > 0 /\ 1 \in 1 .. threads[g]
  <2> SUFFICES ASSUME NEW g \in Added
               PROVE  g \in Procs /\ threads[g] > 0 /\ 1 \in 1 .. threads[g]
    OBVIOUS
  <2>1. g \in Procs /\ threads[g] \in Threads \cup {0} /\ threads[g] > 0
    BY DEF Added, Inv, TypeOK
  <2> QED BY <2>1 DEF Threads
<1> HIDE DEF c, q, to
<1>10. QueueShape'
  <2>1. \A g \in Procs : threads[g] = 0 => g # q /\ g # c
    BY <1>2, <1>3, <1>9
  <2> QED BY <1>1, <1>2, <1>7, <2>1 DEF Inv, QueueInv, QueueShape
<1>11. QueueIsAlive'
  <2>1. \A g \in Added' : next'[g] \in (Added' \ {pQueue'}) \cup {NULL}
    <3> SUFFICES ASSUME NEW g \in Added'
                 PROVE  next'[g] \in (Added' \ {pQueue'}) \cup {NULL}
      OBVIOUS
    <3>1. CASE g = q
      BY <1>1, <1>2, <1>4, <1>6, <1>7, <1>8, <3>1
    <3>2. CASE g # q
      BY <1>1, <1>3, <1>4, <1>7, <1>8, <1>9, <3>2
    <3> QED BY <3>1, <3>2
  <2>2. \A g, h \in Added' : next'[g] = next'[h] => g = h
    <3> SUFFICES ASSUME NEW g \in Added', NEW h \in Added', next'[g] = next'[h]
                 PROVE  g = h
      OBVIOUS
    <3>1. g \in Added /\ h \in Added /\ g # c /\ h # c /\ g \in Procs /\ h \in Procs
      BY <1>8, <1>9
    <3> QED BY <1>2, <1>4, <1>7, <3>1
  <2> QED BY <1>1, <1>2, <1>8, <2>1, <2>2 DEF QueueIsAlive
<1>12. NoCircle'
  <2>1. ASSUME NEW g \in Added', next'[g] # NULL
        PROVE  rank[g] < rank[next'[g]]
    <3>1. CASE g = q
      <4>1. rank[q] < rank[c] /\ rank[c] < rank[next[c]]
        BY <1>1, <1>2, <1>3, <1>5, <1>7, <2>1, <3>1 DEF RanksBy
      <4>2. rank[q] \in Nat /\ rank[c] \in Nat /\ rank[next[c]] \in Nat
        BY <1>1, <1>3, <1>4, <1>5, <1>7, <2>1, <3>1
      <4> QED BY <1>7, <3>1, <4>1, <4>2
    <3>2. CASE g # q
      BY <1>5, <1>7, <1>8, <1>9, <2>1, <3>2 DEF RanksBy
    <3> QED BY <3>1, <3>2
  <2> QED BY <1>5, <2>1 DEF NoCircle, RanksBy
<1>13. to \in Added'
  <2>1. to = IF next'[c] = NULL THEN pQueue ELSE next'[c]
    BY <1>1 DEF to, After
  <2>2. next'[c] = next[c]
    BY <1>1, <1>6, <1>7
  <2> QED BY <1>2, <1>4, <1>6, <1>8, <2>1, <2>2
<1>14. previousProc' = c /\ Resume(to, 1, Saved)
  BY <1>1 DEF Switch, to, c
<1>15. /\ ContextsAreKept' /\ DirectoryIsReady' /\ RunningIsAlive' /\ TurnShape'
       /\ currentThread' \in Threads /\ cpu' \in PCs
       /\ regs' \in [Procs -> [Threads -> PCs]]
       /\ cr3' \in Directories
       /\ tables' \in [Directories -> SUBSET KernelTables]
       /\ recursive' \in [Directories -> Directories \cup {NULL}]
  <2>1. to \in Procs /\ 1 \in 1 .. threads[to] /\ Added' \subseteq Added
    BY <1>8, <1>9, <1>13
  <2>2. /\ Saved \in [Procs -> [Threads -> PCs]]
        /\ \A g \in Added : \A u \in 1 .. threads[g] : Saved[g][u] = at[g][u]
    BY <1>1, AllSaved DEF c
  <2> QED BY <1>1, <1>8, <1>13, <1>14, <2>1, <2>2, ResumeKeeps
<1>16. currentProc' = to /\ to \in Procs
  BY <1>8, <1>9, <1>13, <1>14 DEF Resume
<1>17. PreviousPrecedes'
  BY <1>1, <1>14 DEF PreviousPrecedes
<1>18. TypeOK'
  <2>1. panicked' \in BOOLEAN
    BY Zenon DEF scheduler_remove_current_process, GoesOn
  <2> QED BY <1>1, <1>7, <1>8, <1>14, <1>15, <1>16, <2>1 DEF Inv, TypeOK
<1> QED BY <1>10, <1>11, <1>12, <1>15, <1>17, <1>18 DEF Inv, QueueInv, TurnInv

-----------------------------------------------------------------------------
(* Every step, and the theorems.                                           *)

LEMMA StutterStep == ASSUME Inv, UNCHANGED vars PROVE Inv'
<1>1. /\ UNCHANGED <<pQueue, currentProc, previousProc, currentThread>>
      /\ UNCHANGED <<next, threads, loaded, regs, cpu, at, destroyed, panicked>>
      /\ UNCHANGED <<cr3, tables, recursive>>
  BY DEF vars, globals, spaces
<1>2. Added' = Added
  BY <1>1 DEF Added
<1>3. TypeOK' /\ ContextsAreKept' /\ DirectoryIsReady'
  BY <1>1, <1>2 DEF Inv, TypeOK, ContextsAreKept, DirectoryIsReady
<1>4. QueueInv'
  BY <1>1, <1>2 DEF Inv, QueueInv, QueueShape, QueueIsAlive, NoCircle, RanksBy
<1>5. TurnInv'
  BY <1>1, <1>2 DEF Inv, TurnInv, TurnShape, RunningIsAlive, PreviousPrecedes
<1> QED BY <1>3, <1>4, <1>5 DEF Inv

LEMMA NextStep == ASSUME OrderlyExits, Inv, [Next]_vars PROVE Inv'
<1>1. CASE scheduler_add_kernel_process
  BY <1>1, Constants, AddStep DEF scheduler_add_kernel_process, PCs, Inv, TypeOK
<1>2. ASSUME NEW p \in Users, scheduler_add_process(p) PROVE Inv'
  BY <1>2, Constants, AddStep DEF scheduler_add_process, PCs, START, Inv, TypeOK
<1>3. ASSUME NEW p \in Users, scheduler_add_thread(p) PROVE Inv'
  BY <1>3, AddThreadStep
<1>4. CASE scheduler_tick
  BY <1>4, TickStep
<1>5. CASE scheduler_remove_current_process
  BY <1>5, ExitStep
<1>6. CASE ThreadSteps
  BY <1>6, ThreadStep
<1>7. CASE scheduler_setup_current_thread
  BY <1>7, SetupStep
<1>8. CASE ThreadCrashes
  BY <1>8, CrashStep
<1>9. CASE UNCHANGED vars
  BY <1>9, StutterStep
<1> QED BY <1>1, <1>2, <1>3, <1>4, <1>5, <1>6, <1>7, <1>8, <1>9 DEF Next

\* The invariant holds in every state, whatever is added, ticks and exits.
THEOREM SchedulerInvariant == ASSUME OrderlyExits PROVE Spec => []Inv
<1>1. Init => Inv
  BY InitialState
<1>2. Inv /\ [Next]_vars => Inv'
  BY NextStep
<1> QED BY <1>1, <1>2, PTL DEF Spec

\* Every variable of the scheduler has its type.
THEOREM TypeCorrect == ASSUME OrderlyExits PROVE Spec => []TypeOK
<1>1. Inv => TypeOK
  BY DEF Inv
<1> QED BY <1>1, SchedulerInvariant, PTL

\* The process the timer resumes, and the page directory in use, are never
\* those of a process that has exited.
THEOREM RunningIsAlwaysAlive == ASSUME OrderlyExits PROVE Spec => []RunningIsAlive
<1>1. Inv => RunningIsAlive
  BY DEF Inv, TurnInv
<1> QED BY <1>1, SchedulerInvariant, PTL

\* An exit takes exactly the process that exits out of the queue, wherever in
\* the queue it is.
THEOREM QueueIsAlwaysAlive == ASSUME OrderlyExits PROVE Spec => []QueueIsAlive
<1>1. Inv => QueueIsAlive
  BY DEF Inv, QueueInv
<1> QED BY <1>1, SchedulerInvariant, PTL

\* previousProc is the process whose link an exit has to change.
THEOREM PreviousAlwaysPrecedes == ASSUME OrderlyExits PROVE Spec => []PreviousPrecedes
<1>1. Inv => PreviousPrecedes
  BY DEF Inv, TurnInv
<1> QED BY <1>1, SchedulerInvariant, PTL

\* The links of the queue are sound before and after every exit.
THEOREM LinksAreAlwaysSound == ASSUME OrderlyExits PROVE Spec => []LinksAreSound
BY QueueIsAlwaysAlive, PreviousAlwaysPrecedes, PTL DEF LinksAreSound

\* Every thread is resumed with the registers it was interrupted with.
THEOREM ContextsAreAlwaysKept == ASSUME OrderlyExits PROVE Spec => []ContextsAreKept
<1>1. Inv => ContextsAreKept
  BY DEF Inv
<1> QED BY <1>1, SchedulerInvariant, PTL

\* The directory in use has every page table of the kernel's half, whichever
\* process was running when the table was made.
THEOREM DirectoryIsAlwaysReady == ASSUME OrderlyExits PROVE Spec => []DirectoryIsReady
<1>1. Inv => DirectoryIsReady
  BY DEF Inv
<1> QED BY <1>1, SchedulerInvariant, PTL

-----------------------------------------------------------------------------
(* The ring: a walk along the links meets every process once, and in the   *)
(* order they were added.                                                  *)

\* q is the queue, and holds the processes that are in it once each.
InOrder(q) ==
  /\ q \in Seq(Added) /\ IsQueue(q)
  /\ \A p \in Added : \E i \in 1 .. Len(q) : q[i] = p
  /\ \A i, j \in 1 .. Len(q) : q[i] = q[j] => i = j

RingInv == \E q \in Seq(Procs) : InOrder(q)

\* There is only one such sequence, the one the refinement mapping names.
OneQueue == \A q \in Seq(Procs) : InOrder(q) => Queue = q

LEMMA QueueIsTheOne == OneQueue
<1> SUFFICES ASSUME NEW q \in Seq(Procs), InOrder(q) PROVE Queue = q
  BY DEF OneQueue
<1> DEFINE n == Len(q)
<1>1. n \in Nat /\ q \in [1 .. n -> Added] /\ DOMAIN q = 1 .. n /\ IsQueue(q)
  BY LenProperties DEF InOrder
<1>2. Cardinality(Added) = n
  <2>1. q \in Bijection(1 .. n, Added)
    BY <1>1 DEF InOrder, Bijection, Injection, Surjection, IsInjective
  <2>2. ExistsBijection(1 .. n, Added)
    BY <2>1 DEF ExistsBijection
  <2> QED BY <1>1, <2>2, FS_CountingElements
<1>3. ASSUME NEW r \in [1 .. n -> Added], IsQueue(r)
      PROVE  r = q
  <2>1. r \in Seq(Added) /\ DOMAIN r = 1 .. n
    BY <1>1, <1>3, SeqDef
  <2>2. Len(r) = n
    BY <1>1, <2>1, LenProperties
  <2> DEFINE S == {i \in 1 .. n : r[i] # q[i]}
  <2>3. ASSUME S # {} PROVE FALSE
    <3>1. S \in SUBSET Nat
      BY <1>1
    <3>2. PICK m \in S : \A i \in S : m <= i
      BY <2>3, <3>1, MinIsLeast
    <3>3. m \in 1 .. n /\ r[m] # q[m]
      BY <3>2
    <3>4. CASE m = 1
      <4>1. q # <<>> /\ r # <<>>
        BY <1>1, <2>1, <2>2, <3>3, <3>4, EmptySeq
      <4> QED BY <1>1, <1>3, <3>3, <3>4, <4>1 DEF IsQueue
    <3>5. CASE m # 1
      <4>1. PICK k \in 1 .. n : m = k + 1 /\ k # n
        <5>1. m - 1 \in 1 .. n /\ m = (m - 1) + 1 /\ m - 1 # n
          BY <1>1, <3>3, <3>5
        <5> QED BY <5>1
      <4>2. r[k] = q[k]
        <5>1. ~ (m <= k)
          BY <1>1, <4>1
        <5> QED BY <3>2, <4>1, <5>1
      <4>3. next[q[k]] = q[k + 1]
        BY <1>1, <4>1 DEF IsQueue
      <4>4. next[r[k]] = r[k + 1]
        BY <1>3, <2>1, <2>2, <4>1 DEF IsQueue
      <4> QED BY <3>3, <4>1, <4>2, <4>3, <4>4
    <3> QED BY <3>4, <3>5
  <2>4. \A i \in 1 .. n : r[i] = q[i]
    BY <2>3
  <2> QED BY <1>1, <1>3, <2>4
<1> QED BY <1>1, <1>2, <1>3 DEF Queue

\* Before a step and after it.
LEMMA QueueWas ==
  ASSUME NEW q \in Seq(Procs), NEW r \in Seq(Procs), InOrder(q), InOrder(r)'
  PROVE  Queue = q /\ Queue' = r
<1>1. OneQueue /\ OneQueue'
  BY QueueIsTheOne, PTL
<1> QED BY <1>1 DEF OneQueue

\* The successor in the ring is the process that follows in the list.
LEMMA SuccessorFollows ==
  ASSUME Inv, NEW q \in Seq(Procs), InOrder(q), Added # {}
  PROVE  /\ q # <<>> /\ pQueue = q[1] /\ Len(q) \in Nat /\ Len(q) >= 1
         /\ currentProc = NULL => Ring!Successor = pQueue
         /\ \A k \in 1 .. Len(q) : q[k] = currentProc =>
              Ring!Place = k /\ Ring!Successor = After(currentProc, next)
<1> USE Constants
<1>1. /\ Len(q) \in Nat /\ q \in [1 .. Len(q) -> Added] /\ DOMAIN q = 1 .. Len(q)
      /\ IsQueue(q) /\ Queue = q
  BY LenProperties, QueueIsTheOne DEF InOrder, OneQueue
<1>2. Len(q) >= 1 /\ q # <<>>
  <2>1. PICK p \in Added : TRUE
    OBVIOUS
  <2>2. PICK i \in 1 .. Len(q) : q[i] = p
    BY <2>1 DEF InOrder
  <2> QED BY <1>1, <2>2, EmptySeq
<1>3. pQueue = q[1]
  BY <1>1, <1>2 DEF IsQueue
<1>4. ASSUME NEW k \in 1 .. Len(q), q[k] = currentProc
      PROVE  Ring!Place = k /\ Ring!Successor = After(currentProc, next)
  <2>1. currentProc # NULL
    BY <1>1, <1>4 DEF Added
  <2>2. \A i \in 1 .. Len(q) : q[i] = currentProc => i = k
    BY <1>4 DEF InOrder
  <2>3. Ring!Place = k
    BY <1>1, <1>4, <2>2 DEF Ring!Place, Ring!Positions
  <2>4. next[currentProc] = IF k = Len(q) THEN NULL ELSE q[k + 1]
    BY <1>1, <1>4 DEF IsQueue
  <2>5. CASE k = Len(q)
    BY <1>1, <1>3, <1>4, <2>3, <2>4, <2>5 DEF Ring!Successor, After
  <2>6. CASE k # Len(q)
    <3>1. q[k + 1] # NULL /\ currentProc # q[Len(q)]
      <4>1. PICK n \in Nat : n = Len(q)
        BY <1>1
      <4>2. n >= 1 /\ k \in 1 .. n /\ k # n
        BY <1>2, <2>6, <4>1
      <4>3. k + 1 \in 1 .. n /\ n \in 1 .. n
        BY <4>2
      <4> QED BY <1>1, <2>2, <2>6, <4>1, <4>3 DEF Added
    <3> QED BY <1>1, <2>1, <2>3, <2>4, <2>6, <3>1 DEF Ring!Successor, After
  <2> QED BY <2>3, <2>5, <2>6
<1> QED BY <1>1, <1>2, <1>3, <1>4 DEF Ring!Successor

\* A process that is added comes last in the ring.
LEMMA AddAdmits ==
  ASSUME Inv, RingInv, NEW p \in Procs, NEW pc \in PCs, Add(p, pc),
         pQueue = NULL => p = Idle
  PROVE  RingInv' /\ Ring!Admit(p)
<1> USE Constants
<1>1. PICK q \in Seq(Procs) : InOrder(q)
  BY DEF RingInv
<1> DEFINE n == Len(q)
<1> DEFINE r == Append(q, p)
<1>2. /\ n \in Nat /\ q \in [1 .. n -> Added] /\ DOMAIN q = 1 .. n /\ IsQueue(q)
      /\ \A g \in Added : \E i \in 1 .. n : q[i] = g
      /\ \A i, j \in 1 .. n : q[i] = q[j] => i = j
  BY <1>1, LenProperties DEF InOrder
<1>3. Added' = Added \cup {p} /\ p \notin Added /\ Enqueue(p) /\ currentProc' = currentProc
  BY AddKeepsQueue DEF Add
<1>4. next \in [Procs -> Procs \cup {NULL}] /\ next[p] = NULL /\ Added \subseteq Procs
  BY DEF Inv, TypeOK, QueueInv, QueueShape, Add, Added
<1>5. /\ r \in Seq(Procs) /\ r \in Seq(Added') /\ Len(r) = n + 1 /\ DOMAIN r = 1 .. n + 1
      /\ r[n + 1] = p /\ \A i \in 1 .. n : r[i] = q[i]
  <2>1. r \in Seq(Procs) /\ Len(r) = n + 1 /\ r[n + 1] = p /\ \A i \in 1 .. n : r[i] = q[i]
    BY <1>2
  <2>2. q \in Seq(Added')
    BY <1>1, <1>3, SeqMonotonic DEF InOrder
  <2>3. r \in Seq(Added')
    BY <1>3, <2>2
  <2>4. DOMAIN r = 1 .. Len(r)
    BY <2>1, LenProperties
  <2> QED BY <2>1, <2>3, <2>4
<1> HIDE DEF n, r
<1>6. /\ pQueue' = r[1] /\ r # <<>>
      /\ \A i \in 1 .. n : next'[r[i]] = r[i + 1]
      /\ next'[p] = NULL
  <2>1. CASE pQueue = NULL
    <3>1. q = <<>> /\ n = 0
      BY <1>2, <1>4, <2>1, EmptySeq DEF IsQueue
    <3> QED BY <1>3, <1>4, <1>5, <2>1, <3>1, EmptySeq DEF Enqueue
  <2>2. CASE pQueue # NULL
    <3>1. PICK g \in Added : next[g] = NULL /\ next' = [next EXCEPT ![g] = p]
      BY <1>3, <2>2 DEF Enqueue
    <3>2. PICK k \in 1 .. n : q[k] = g
      BY <1>2, <3>1
    <3>3. k = n
      <4>1. CASE k # n
        <5>1. k + 1 \in 1 .. n /\ next[q[k]] = q[k + 1]
          BY <1>2, <3>2, <4>1 DEF IsQueue
        <5>2. q[k + 1] # NULL
          BY <1>2, <1>4, <5>1
        <5> QED BY <3>1, <3>2, <5>1, <5>2
      <4> QED BY <4>1
    <3>4. next'[g] = p /\ \A h \in Procs \ {g} : next'[h] = next[h]
      BY <1>4, <3>1
    <3>5. pQueue' = r[1] /\ r # <<>>
      <4>1. 1 \in 1 .. n /\ q # <<>>
        BY <1>2, <3>2, EmptySeq
      <4> QED BY <1>2, <1>3, <1>5, <2>2, <4>1, EmptySeq DEF IsQueue, Enqueue
    <3>6. ASSUME NEW i \in 1 .. n PROVE next'[r[i]] = r[i + 1]
      <4>1. CASE i = n
        BY <1>5, <3>2, <3>3, <3>4, <4>1
      <4>2. CASE i # n
        <5>1. q[i] # g /\ q[i] \in Procs /\ i + 1 \in 1 .. n
          BY <1>2, <1>4, <3>2, <3>3, <4>2
        <5>2. next[q[i]] = q[i + 1]
          BY <1>2, <4>2 DEF IsQueue
        <5> QED BY <1>5, <3>4, <5>1, <5>2
      <4> QED BY <4>1, <4>2
    <3>7. next'[p] = NULL
      BY <1>3, <1>4, <3>1, <3>4
    <3> QED BY <3>5, <3>6, <3>7
  <2> QED BY <2>1, <2>2
<1>7. InOrder(r)'
  <2>1. \A i \in 1 .. n + 1 : i \in 1 .. n \/ i = n + 1
    BY <1>2
  <2>2. IsQueue(r)'
    BY <1>2, <1>5, <1>6, <2>1 DEF IsQueue
  <2>3. \A g \in Added' : \E i \in 1 .. n + 1 : r[i] = g
    <3> SUFFICES ASSUME NEW g \in Added' PROVE \E i \in 1 .. n + 1 : r[i] = g
      OBVIOUS
    <3>1. CASE g = p
      BY <1>2, <1>5, <3>1
    <3>2. CASE g # p
      <4>1. PICK i \in 1 .. n : q[i] = g
        BY <1>2, <1>3, <3>2
      <4>2. i \in 1 .. n + 1 /\ r[i] = g
        BY <1>2, <1>5, <4>1
      <4> QED BY <4>2
    <3> QED BY <3>1, <3>2
  <2>4. \A i, j \in 1 .. n + 1 : r[i] = r[j] => i = j
    BY <1>2, <1>3, <1>5, <2>1
  <2> QED BY <1>5, <2>2, <2>3, <2>4 DEF InOrder
<1>8. Queue = q /\ Queue' = r
  BY <1>1, <1>5, <1>7, QueueWas
<1>9. \A i \in 1 .. n : q[i] # p
  BY <1>2, <1>3
<1> QED BY <1>3, <1>5, <1>7, <1>8, <1>9 DEF RingInv, Ring!Admit, Ring!Positions, n, r

\* A step that leaves the links and the processes in the queue alone leaves
\* the ring alone.
LEMMA SameRing ==
  ASSUME RingInv, UNCHANGED <<pQueue, next>>, Added' = Added
  PROVE  RingInv' /\ Queue' = Queue
<1>1. PICK q \in Seq(Procs) : InOrder(q)
  BY DEF RingInv
<1>2. InOrder(q)'
  BY <1>1 DEF InOrder, IsQueue
<1> QED BY <1>1, <1>2, QueueWas DEF RingInv

\* The timer passes the turn on, or only to another thread.
LEMMA TickPasses ==
  ASSUME Inv, RingInv, scheduler_tick
  PROVE  RingInv' /\ (Ring!Pass \/ UNCHANGED <<Queue, currentProc>>)
<1> USE Constants
<1>1. /\ pQueue # NULL /\ Switch(next)
      /\ UNCHANGED <<pQueue, next, threads, destroyed>>
  BY DEF scheduler_tick
<1>2. Added' = Added
  BY <1>1 DEF Added
<1>3. RingInv' /\ Queue' = Queue
  BY <1>1, <1>2, SameRing
<1>4. PICK q \in Seq(Procs) : InOrder(q)
  BY DEF RingInv
<1>5. Queue = q /\ Added # {}
  BY <1>1, <1>4, QueueIsTheOne DEF OneQueue, Inv, QueueInv, QueueIsAlive
<1>6. CASE currentProc = NULL
  <2>1. currentProc' = pQueue
    BY <1>1, <1>6 DEF Switch, Resume
  <2> QED BY <1>3, <1>4, <1>5, <1>6, <2>1, SuccessorFollows DEF Ring!Pass
<1>7. CASE currentProc # NULL /\ currentThread = threads[currentProc]
  <2>1. currentProc' = After(currentProc, next)
    BY <1>1, <1>7 DEF Switch, Resume
  <2>2. PICK k \in 1 .. Len(q) : q[k] = currentProc
    BY <1>4, <1>7 DEF InOrder, Inv, TurnInv, RunningIsAlive
  <2> QED BY <1>3, <1>4, <1>5, <2>1, <2>2, SuccessorFollows DEF Ring!Pass
<1>8. CASE currentProc # NULL /\ currentThread # threads[currentProc]
  BY <1>1, <1>3, <1>8 DEF Switch, Resume
<1> QED BY <1>6, <1>7, <1>8

\* An orderly exit takes the process that has the turn out of the ring, and
\* its successor gets the turn.
LEMMA ExitLeaves ==
  ASSUME OrderlyExits, Inv, RingInv, scheduler_remove_current_process
  PROVE  RingInv' /\ Ring!Leave
<1> USE Constants
<1> DEFINE c == currentProc
<1>1. /\ c \in Users /\ c \in Procs /\ c # NULL /\ c # Idle
      /\ previousProc \notin destroyed /\ currentThread = threads[c]
      /\ next' = Unlinked /\ Switch(Unlinked) /\ destroyed' = destroyed \cup {c}
      /\ UNCHANGED <<pQueue, threads>>
  BY DEF scheduler_remove_current_process, MayExit, OrderlyExits
<1>2. c \in Added /\ pQueue \in Added /\ pQueue # c
  BY <1>1 DEF Inv, TurnInv, RunningIsAlive, QueueInv, QueueShape, QueueIsAlive, Added
<1>3. previousProc \in Added /\ previousProc \in Procs /\ next[previousProc] = c
  BY <1>1, <1>2 DEF Inv, TurnInv, PreviousPrecedes, Added
<1>4. /\ next \in [Procs -> Procs \cup {NULL}] /\ Added \subseteq Procs
      /\ \A g, h \in Added : next[g] = next[h] => g = h
  BY DEF Inv, TypeOK, QueueInv, QueueIsAlive, Added
<1>5. Added' = Added \ {c}
  BY <1>1 DEF Added
<1>6. PICK q \in Seq(Procs) : InOrder(q)
  BY DEF RingInv
<1> DEFINE n == Len(q)
<1>7. /\ q \in [1 .. n -> Added] /\ DOMAIN q = 1 .. n /\ IsQueue(q)
      /\ \A g \in Added : \E i \in 1 .. n : q[i] = g
      /\ \A i, j \in 1 .. n : q[i] = q[j] => i = j
  BY <1>6, LenProperties DEF InOrder
<1>8. n \in Nat /\ n >= 1 /\ q # <<>> /\ pQueue = q[1]
  BY <1>2, <1>6, SuccessorFollows
<1>9. PICK k \in 1 .. n : q[k] = c
  BY <1>2, <1>7
<1>10. Queue = q /\ Ring!Place = k /\ Ring!Successor = After(c, next)
  BY <1>2, <1>6, <1>9, SuccessorFollows, QueueIsTheOne DEF OneQueue
<1>11. \A i \in 1 .. n : next[q[i]] = IF i = n THEN NULL ELSE q[i + 1]
  BY <1>7 DEF IsQueue
<1> DEFINE r == [i \in 1 .. n - 1 |-> q[IF i < k THEN i ELSE i + 1]]
<1> HIDE DEF c, n
<1>12. PICK j \in 1 .. n : j + 1 = k /\ q[j] = previousProc
  <2>1. k # 1
    BY <1>2, <1>8, <1>9
  <2>2. k - 1 \in 1 .. n /\ (k - 1) + 1 = k /\ k - 1 # n
    BY <1>8, <2>1
  <2>3. PICK j \in 1 .. n : j + 1 = k /\ j # n
    BY <2>2
  <2>4. next[q[j]] = c
    BY <1>9, <1>11, <2>3
  <2>5. q[j] = previousProc
    BY <1>3, <1>4, <1>7, <2>3, <2>4
  <2> QED BY <2>3, <2>5
<1>13. /\ next'[previousProc] = next[c] /\ previousProc # c
       /\ \A g \in Procs \ {previousProc} : next'[g] = next[g]
  <2>1. previousProc # c
    <3>1. j # k
      BY <1>8, <1>12
    <3> QED BY <1>7, <1>9, <1>12, <3>1
  <2> QED BY <1>1, <1>3, <1>4, <2>1 DEF Unlinked, c
<1>14. /\ n - 1 \in Nat
       /\ \A i \in 1 .. n - 1 : /\ i \in 1 .. n /\ i + 1 \in 1 .. n
                                /\ (IF i < k THEN i ELSE i + 1) \in 1 .. n
                                /\ (IF i < k THEN i ELSE i + 1) # k
  BY <1>8
<1>15. /\ r \in [1 .. n - 1 -> Added'] /\ r \in Seq(Added') /\ r \in Seq(Procs)
       /\ Len(r) = n - 1 /\ DOMAIN r = 1 .. n - 1
       /\ \A i \in 1 .. n - 1 : r[i] = q[IF i < k THEN i ELSE i + 1]
  <2>1. r \in [1 .. n - 1 -> Added']
    BY <1>5, <1>7, <1>9, <1>14
  <2>2. r \in Seq(Added')
    <3> HIDE DEF r
    <3> QED BY <1>14, <2>1, SeqDef
  <2>3. r \in Seq(Procs)
    BY <1>4, <1>5, <2>2, SeqMonotonic
  <2>4. 1 .. Len(r) = 1 .. n - 1 /\ Len(r) \in Nat
    BY <2>1, <2>2, LenProperties
  <2>5. Len(r) = n - 1
    <3> HIDE DEF r
    <3> QED BY <1>14, <2>4
  <2> QED BY <2>1, <2>2, <2>3, <2>5
<1> HIDE DEF r
<1>16. IsQueue(r)'
  <2>1. pQueue' = r[1] /\ r # <<>>
    <3>1. 1 \in 1 .. n - 1 /\ 1 < k
      BY <1>8, <1>12
    <3>2. r # <<>>
      BY <1>14, <1>15, <3>1, EmptySeq
    <3> QED BY <1>1, <1>8, <1>15, <3>1, <3>2
  <2>2. ASSUME NEW i \in 1 .. n - 1
        PROVE  next'[r[i]] = IF i = n - 1 THEN NULL ELSE r[i + 1]
    <3>1. CASE i < j
      <4>1. i < k /\ i + 1 < k /\ i # n - 1 /\ i # n /\ i # j /\ i + 1 \in 1 .. n - 1
        BY <1>8, <1>12, <3>1
      <4>2. r[i] = q[i] /\ r[i + 1] = q[i + 1]
        BY <1>15, <4>1
      <4>3. q[i] # previousProc /\ q[i] \in Procs
        BY <1>4, <1>7, <1>12, <1>14, <4>1
      <4> QED BY <1>11, <1>13, <1>14, <4>1, <4>2, <4>3
    <3>2. CASE i = j
      <4>1. i < k /\ ~ (i + 1 < k) /\ i + 1 = k
        BY <1>8, <1>12, <3>2
      <4>2. r[i] = previousProc
        BY <1>12, <1>15, <3>2, <4>1
      <4>3. next'[r[i]] = IF k = n THEN NULL ELSE q[k + 1]
        BY <1>9, <1>11, <1>13, <4>2
      <4>4. CASE k = n
        <5>1. i = n - 1
          BY <1>8, <4>1, <4>4
        <5> QED BY <4>3, <4>4, <5>1
      <4>5. CASE k # n
        <5>1. k \in 1 .. n - 1 /\ i # n - 1 /\ ~ (k < k)
          BY <1>8, <4>1, <4>5
        <5>2. r[k] = q[k + 1]
          BY <1>15, <5>1
        <5> QED BY <4>1, <4>3, <4>5, <5>1, <5>2
      <4> QED BY <4>4, <4>5
    <3>3. CASE i > j
      <4>1. PICK h \in 1 .. n : h = i + 1 /\ ~ (i < k) /\ h # j /\ (h = n <=> i = n - 1)
        <5>1. i + 1 \in 1 .. n /\ ~ (i < k) /\ i + 1 # j /\ (i + 1 = n <=> i = n - 1)
          BY <1>8, <1>12, <3>3
        <5> QED BY <5>1
      <4>2. r[i] = q[h]
        BY <1>15, <4>1
      <4>3. q[h] # previousProc /\ q[h] \in Procs
        BY <1>4, <1>7, <1>12, <4>1
      <4>4. next'[r[i]] = IF i = n - 1 THEN NULL ELSE q[h + 1]
        BY <1>11, <1>13, <4>1, <4>2, <4>3
      <4>5. CASE i # n - 1
        <5>1. h \in 1 .. n - 1 /\ ~ (h < k)
          BY <1>8, <4>1, <4>5
        <5> QED BY <1>15, <4>1, <4>4, <4>5, <5>1
      <4> QED BY <4>4, <4>5
    <3>4. i < j \/ i = j \/ i > j
      BY <1>8
    <3> QED BY <3>1, <3>2, <3>3, <3>4
  <2> QED BY <1>15, <2>1, <2>2 DEF IsQueue
<1>17. \A g \in Added' : \E i \in 1 .. n - 1 : r[i] = g
  <2> SUFFICES ASSUME NEW g \in Added' PROVE \E i \in 1 .. n - 1 : r[i] = g
    OBVIOUS
  <2>1. PICK h \in 1 .. n : q[h] = g /\ h # k
    BY <1>5, <1>7, <1>9
  <2>2. CASE h < k
    <3>1. h \in 1 .. n - 1
      BY <1>8, <2>2
    <3> QED BY <1>15, <2>1, <2>2, <3>1
  <2>3. CASE ~ (h < k)
    <3>1. PICK i \in 1 .. n - 1 : h = i + 1 /\ ~ (i < k)
      <4>1. h - 1 \in 1 .. n - 1 /\ h = (h - 1) + 1 /\ ~ (h - 1 < k)
        BY <1>8, <2>1, <2>3
      <4> QED BY <4>1
    <3> QED BY <1>15, <2>1, <3>1
  <2> QED BY <2>2, <2>3
<1>18. \A i, h \in 1 .. n - 1 : r[i] = r[h] => i = h
  <2> SUFFICES ASSUME NEW i \in 1 .. n - 1, NEW h \in 1 .. n - 1, r[i] = r[h] PROVE i = h
    OBVIOUS
  <2>1. (IF i < k THEN i ELSE i + 1) = (IF h < k THEN h ELSE h + 1)
    BY <1>7, <1>14, <1>15
  <2> QED BY <1>8, <2>1
<1>19. InOrder(r)'
  BY <1>15, <1>16, <1>17, <1>18 DEF InOrder
<1>20. Queue' = r
  BY <1>6, <1>15, <1>19, QueueWas
<1>21. currentProc' = After(c, next)
  <2>1. currentProc' = After(c, Unlinked)
    BY <1>1 DEF Switch, Resume, c
  <2>2. Unlinked[c] = next[c]
    BY <1>1, <1>13
  <2> QED BY <2>1, <2>2 DEF After
<1> QED BY <1>1, <1>2, <1>8, <1>10, <1>15, <1>19, <1>20, <1>21 DEF RingInv, Ring!Leave, c, n, r

\* The queue and the current process implement the ring of RoundRobin: a
\* process that is added goes to its end, the timer passes the turn to the
\* next one and to no other, and a process that exits leaves it without
\* disturbing the order of the rest.
THEOREM Refinement == ASSUME OrderlyExits PROVE Spec => ImplementsRoundRobin
<1>1. Init => Ring!Init /\ RingInv
  <2> SUFFICES ASSUME Init PROVE Ring!Init /\ RingInv
    OBVIOUS
  <2>1. Added = {} /\ pQueue = NULL /\ currentProc = NULL
    BY DEF Init, Added
  <2>2. << >> \in Seq(Procs) /\ << >> \in Seq(Added) /\ Len(<< >>) = 0
    BY EmptySeq
  <2>3. InOrder(<< >>)
    BY <2>1, <2>2 DEF InOrder, IsQueue
  <2> QED BY <2>1, <2>2, <2>3, QueueIsTheOne DEF OneQueue, RingInv, Ring!Init
<1>2. Inv /\ RingInv /\ [Next]_vars => RingInv' /\ [Ring!Next]_<<Queue, currentProc>>
  <2> SUFFICES ASSUME Inv, RingInv, [Next]_vars
               PROVE  RingInv' /\ [Ring!Next]_<<Queue, currentProc>>
    OBVIOUS
  <2>1. ASSUME NEW p \in Procs, NEW pc \in PCs, Add(p, pc), pQueue = NULL => p = Idle
        PROVE  RingInv' /\ Ring!Next
    BY <2>1, AddAdmits DEF Ring!Next
  <2>2. CASE scheduler_add_kernel_process
    BY <2>1, <2>2, Constants DEF scheduler_add_kernel_process, PCs
  <2>3. ASSUME NEW p \in Users, scheduler_add_process(p)
        PROVE  RingInv' /\ Ring!Next
    BY <2>1, <2>3, Constants DEF scheduler_add_process, PCs, START
  <2>4. ASSUME UNCHANGED <<pQueue, next, currentProc>>, Added' = Added
        PROVE  RingInv' /\ UNCHANGED <<Queue, currentProc>>
    BY <2>4, SameRing
  <2>5. ASSUME NEW p \in Users, scheduler_add_thread(p)
        PROVE  RingInv' /\ UNCHANGED <<Queue, currentProc>>
    <3>1. threads[p] > 0 /\ threads[p] \in Nat /\ threads' = [threads EXCEPT ![p] = @ + 1]
          /\ destroyed' = destroyed /\ UNCHANGED <<pQueue, next, currentProc>>
      <4>1. threads[p] \in Threads \cup {0} /\ threads[p] > 0
        BY <2>5, Constants DEF scheduler_add_thread, Inv, TypeOK, Added
      <4> QED BY <2>5, <4>1 DEF scheduler_add_thread, globals, Threads
    <3>2. Added' = Added
      BY <3>1 DEF Added, Inv, TypeOK
    <3> QED BY <2>4, <3>1, <3>2
  <2>6. CASE scheduler_tick
    BY <2>6, TickPasses DEF Ring!Next
  <2>7. CASE scheduler_remove_current_process
    BY <2>7, ExitLeaves DEF Ring!Next
  <2>8. CASE ThreadSteps \/ ThreadCrashes \/ scheduler_setup_current_thread \/ UNCHANGED vars
    <3>1. UNCHANGED <<globals, next, threads, destroyed>>
      BY <2>8, Zenon DEF ThreadSteps, ThreadCrashes, scheduler_setup_current_thread, vars
    <3>2. Added' = Added
      BY <3>1 DEF Added
    <3> QED BY <2>4, <3>1, <3>2 DEF globals
  <2> QED BY <2>2, <2>3, <2>5, <2>6, <2>7, <2>8 DEF Next
<1> QED BY <1>1, <1>2, SchedulerInvariant, PTL DEF Spec, ImplementsRoundRobin, Ring!Spec

=============================================================================
