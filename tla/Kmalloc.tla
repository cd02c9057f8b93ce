------------------------------ MODULE Kmalloc ------------------------------
(***************************************************************************)
(* The kernel's heap, kernel/memory/kmalloc.c: a doubly linked list of     *)
(* headers that cuts the range HeapStart .. HeapEnd into blocks, first fit *)
(* in address order, and coalescing with both neighbours on kfree.         *)
(*                                                                         *)
(* Addresses are bytes.  A header is a record in the function header,      *)
(* whose domain is the set of addresses where the list has a header now.   *)
(* All callers run with interrupts off (system call, page fault and boot   *)
(* code), so each call is one step; they free what they were given, once.  *)
(* The list is built in memory that has to be mapped: a header written     *)
(* into an unmapped page is a page fault in the kernel, which halts it.    *)
(***************************************************************************)
EXTENDS Integers, FiniteSetsExt

CONSTANTS
  HeapStart,    \* &_KERNEL_END_
  HeapEnd,      \* KHEAP_END
  HeaderSize,   \* sizeof(struct kmallocHeader) (12)
  MinBlock,     \* MIN_BLOCK_SIZE (4)
  PageSize,     \* PAGE_SIZE (4096)
  WindowPages,  \* pages stage 2 of the boot loader has mapped (4 MiB)
  Requests      \* sizes that are asked for

Last == HeapEnd - HeaderSize

ASSUME HeapAssumption ==
  /\ HeapStart \in Nat \ {0}
  /\ HeapEnd \in Nat
  /\ HeaderSize \in Nat \ {0}
  /\ MinBlock \in Nat \ {0}
  /\ PageSize \in Nat \ {0}
  /\ HeapStart % PageSize = 0 /\ HeapEnd % PageSize = 0
  /\ HeaderSize <= PageSize
  /\ HeapStart + HeaderSize + MinBlock <= Last
  /\ WindowPages \subseteq Nat
  /\ Requests \subseteq Nat

VARIABLES
  header,       \* the headers in the list, by address
  mapped,       \* pages that are present
  live,         \* ghost: size of each block a caller owns, by its address
  lost,         \* ghost: headers of blocks in use that no caller owns
  faulted       \* a header was written to a page that is not present

vars == <<header, mapped, live, lost, faulted>>

Headers == DOMAIN header
Page(a) == a \div PageSize

FREE == 0
USED == 1

-----------------------------------------------------------------------------

\* kmalloc_init: one free block, and a used header of no size at the end.
Init ==
  /\ header = [h \in {HeapStart, Last} |->
                 IF h = HeapStart THEN [status |-> FREE, prev |-> 0, next |-> Last]
                                  ELSE [status |-> USED, prev |-> HeapStart, next |-> Last]]
  /\ mapped = WindowPages \cup {Page(HeapStart), Page(HeapEnd - PageSize)}
  /\ live = [a \in {} |-> 0]
  /\ lost = {}
  /\ faulted = FALSE

-----------------------------------------------------------------------------
(* kmalloc.                                                                *)

Sized(bytes) == IF bytes < MinBlock THEN MinBlock ELSE bytes

Sane(bytes) ==
  /\ bytes # 0
  /\ Sized(bytes) <= HeapEnd - HeapStart - 2 * HeaderSize

\* The walk along the list stops at the first of these; the list is in
\* address order (ListIsSound), so that is the lowest.
Fitting(n) ==
  {h \in Headers \ {Last} :
     header[h].status = FREE /\ header[h].next - h >= HeaderSize + n}

\* What is left behind the block is worth a header of its own.
HasRest(h, n) == header[h].next - (h + HeaderSize + n) >= HeaderSize + MinBlock

TakeWhole(h) ==
  header' = [header EXCEPT ![h].status = USED, ![header[h].next].prev = h]

\* A slip: the header behind still points back to the block's header.
Split_stale_prev(h, new) ==
  header' = [g \in Headers \cup {new} |->
    CASE g = h   -> [header[h] EXCEPT !.status = USED, !.next = new]
      [] g = new -> [status |-> FREE, prev |-> h, next |-> header[h].next]
      [] OTHER   -> header[g]]

Split(h, new) ==
  header' = [g \in Headers \cup {new} |->
    CASE g = h              -> [header[h] EXCEPT !.status = USED, !.next = new]
      [] g = new            -> [status |-> FREE, prev |-> h, next |-> header[h].next]
      [] g = header[h].next -> [header[g] EXCEPT !.prev = new]
      [] OTHER              -> header[g]]

\* The list operation of a request of n bytes served from h.
Take(h, n) ==
  \/ ~HasRest(h, n) /\ TakeWhole(h)
  \/ HasRest(h, n) /\ Split(h, h + HeaderSize + n)

HeaderPages(h) == Page(h) .. Page(h + HeaderSize - 1)

\* The new header would be written where nothing is mapped.
Faults(h, n) == HasRest(h, n) /\ ~(HeaderPages(h + HeaderSize + n) \subseteq mapped)

\* A slip: rounded down, the loop stops before the block's last page.
Area_rounds_down(a, n) == Page(a) .. Page(a + n) - 1

\* The pages kmalloc maps before it returns: up to the byte behind the block.
Area(a, n) == Page(a) .. Page(a + n)

\* vmmngr_alloc_page for each of the pages, in order.  It fails where a page
\* is missing and no frame is free; the pages before stay mapped.
MapArea(W) == mapped' = mapped \cup W
MapAreaFails(W) == \E p \in W \ mapped : mapped' = mapped \cup {q \in W : q < p}

\* The request is served.
kmalloc(bytes) ==
  LET n == Sized(bytes)
      h == Min(Fitting(n))
      a == h + HeaderSize
  IN  /\ Sane(bytes)
      /\ Fitting(n) # {}
      /\ ~Faults(h, n)
      /\ Take(h, n)
      /\ MapArea(Area(a, n))
      /\ live' = [b \in DOMAIN live \cup {a} |-> IF b = a THEN n ELSE live[b]]
      /\ UNCHANGED <<lost, faulted>>

\* A block is found, but its pages cannot all be mapped: the answer is 0 and
\* the block stays in use.
kmalloc_unmapped(bytes) ==
  LET n == Sized(bytes)
      h == Min(Fitting(n))
  IN  /\ Sane(bytes)
      /\ Fitting(n) # {}
      /\ ~Faults(h, n)
      /\ Take(h, n)
      /\ MapAreaFails(Area(h + HeaderSize, n))
      /\ lost' = lost \cup {h}
      /\ UNCHANGED <<live, faulted>>

\* No block fits.  The answer is 0, and the area at address 0 is mapped
\* before it is given.
kmalloc_refused(bytes) ==
  LET n == Sized(bytes)
  IN  /\ Sane(bytes)
      /\ Fitting(n) = {}
      /\ MapArea(Area(0, n)) \/ MapAreaFails(Area(0, n))
      /\ UNCHANGED <<header, live, lost, faulted>>

\* The page fault halts the machine; the list is not looked at again.
kmalloc_faults(bytes) ==
  LET n == Sized(bytes)
  IN  /\ Sane(bytes)
      /\ Fitting(n) # {}
      /\ Faults(Min(Fitting(n)), n)
      /\ faulted' = TRUE
      /\ UNCHANGED <<header, mapped, live, lost>>

-----------------------------------------------------------------------------
(* kfree.                                                                  *)

\* A slip: the block before is merged although it is in use.
MergesPrevious_in_use(h) == header[h].prev # 0
MergesPrevious(h) == header[h].prev # 0 /\ header[header[h].prev].status = FREE

\* A slip: the block behind is not looked at once the one before is merged.
MergesNext_once(h) == ~MergesPrevious(h) /\ header[header[h].next].status = FREE
MergesNext(h) == header[header[h].next].status = FREE

\* The block that h becomes part of, and where that block ends.
Base(h) == IF MergesPrevious(h) THEN header[h].prev ELSE h

Top(h)  == IF MergesNext(h) THEN header[header[h].next].next ELSE header[h].next

Absorbed(h) ==
  {g \in {h} : MergesPrevious(h)} \cup {g \in {header[h].next} : MergesNext(h)}

Coalesce(h) ==
  header' = [g \in Headers \ Absorbed(h) |->
    CASE g = Base(h) -> [header[g] EXCEPT !.status = FREE, !.next = Top(h)]
      [] g = Top(h)  -> [header[g] EXCEPT !.prev = Base(h)]
      [] OTHER       -> header[g]]

kfree(a) ==
  /\ a \in DOMAIN live
  /\ Coalesce(a - HeaderSize)
  /\ live' = [b \in DOMAIN live \ {a} |-> live[b]]
  /\ UNCHANGED <<mapped, lost, faulted>>

-----------------------------------------------------------------------------

Next ==
  /\ ~faulted
  /\ \/ \E bytes \in Requests : \/ kmalloc(bytes)
                                \/ kmalloc_unmapped(bytes)
                                \/ kmalloc_refused(bytes)
                                \/ kmalloc_faults(bytes)
     \/ \E a \in DOMAIN live : kfree(a)

Spec == Init /\ [][Next]_vars

-----------------------------------------------------------------------------
(* Properties.                                                             *)

\* Every variable has its type.
TypeOK ==
  /\ Headers \subseteq HeapStart .. Last
  /\ header \in [Headers -> [status : {FREE, USED}, prev : Headers \cup {0}, next : Headers]]
  /\ mapped \subseteq Nat
  /\ DOMAIN live \subseteq Nat
  /\ live \in [DOMAIN live -> Nat]
  /\ lost \subseteq Nat
  /\ faulted \in BOOLEAN

\* The list is whole: it starts at HeapStart, ends at the used header at the
\* end, next leads to the nearest header above, with room for a block in
\* between, and prev is the inverse of next.
ListIsSound ==
  /\ HeapStart \in Headers /\ header[HeapStart].prev = 0
  /\ Last \in Headers /\ header[Last].status = USED /\ header[Last].next = Last
  /\ \A h \in Headers \ {Last} :
       LET n == header[h].next
       IN  /\ n - h >= HeaderSize + MinBlock
           /\ header[n].prev = h
           /\ \A g \in Headers : ~(h < g /\ g < n)
  /\ \A h \in Headers \ {HeapStart} :
       header[h].prev \in Headers \ {Last} /\ header[header[h].prev].next = h

\* No two neighbouring blocks are both free: kfree has merged every pair, so
\* that memory freed in any order can serve the largest request again.
NoFreeNeighbours ==
  \A h \in Headers : header[h].status = FREE => header[header[h].next].status = USED

\* Each live block has a used header, ends before the next header, and is the
\* only block of that header; no used header but the lost ones is without one.
HeadersAreOwned ==
  /\ \A a \in DOMAIN live :
       /\ a - HeaderSize \in Headers \ (lost \cup {Last})
       /\ header[a - HeaderSize].status = USED
       /\ live[a] >= MinBlock
       /\ a + live[a] <= header[a - HeaderSize].next
  /\ \A h \in Headers \ {Last} :
       header[h].status = USED => h + HeaderSize \in DOMAIN live \/ h \in lost
  /\ \A h \in lost : h \in Headers \ {Last} /\ header[h].status = USED

\* The heap is sound: a well-typed, whole list, coalesced, whose used headers
\* are those of the live and of the lost blocks.  Splitting, merging and every
\* way a request can fail keep all four, each of which needs the others.
HeapInv == TypeOK /\ ListIsSound /\ NoFreeNeighbours /\ HeadersAreOwned

Bytes(a, n) == a .. a + n - 1

\* No byte belongs to two blocks, nor to a block and a header: a caller that
\* stays within its block damages neither another caller's data nor the list.
NothingOverlaps ==
  \A a \in DOMAIN live :
    /\ \A b \in DOMAIN live \ {a} : Bytes(a, live[a]) \cap Bytes(b, live[b]) = {}
    /\ \A h \in Headers : Bytes(a, live[a]) \cap Bytes(h, HeaderSize) = {}

\* Every byte handed out, and every header in the list, is in a mapped page.
HandedOutIsMapped ==
  /\ \A a \in DOMAIN live : \A x \in Bytes(a, live[a]) : Page(x) \in mapped
  /\ \A h \in Headers : HeaderPages(h) \subseteq mapped

\* When every block has been given back, the heap is again the single free
\* block it started as, whatever the order of requests and frees was.
FreedHeapIsWhole == DOMAIN live = {} /\ lost = {} => Headers = {HeapStart, Last}

\* The heap implements the arena of HeapArena.
Arena == INSTANCE HeapArena WITH Lo <- HeapStart, Hi <- HeapEnd

ImplementsHeapArena == Arena!Spec

\* The heap's own headers are always written to mapped memory.
NeverFaults == ~faulted

=============================================================================
