------------------------------- MODULE Malloc -------------------------------
(***************************************************************************)
(* The heap of a user program, api/stdlib/malloc.c: first fit over a list  *)
(* of headers as in the kernel, but the heap grows, page by page, when no  *)
(* block fits, and the last header's next is NULL: its block ends with the *)
(* heap.  A program has one thread; each call is one step.                 *)
(*                                                                         *)
(* Sizes and addresses are uint32_t, here modulo Modulus.  The kernel is   *)
(* represented by what SYSCALL_VIRTUAL_ALLOC does: it maps whole pages     *)
(* from the one the address lies in, and stops when memory runs out.       *)
(***************************************************************************)
EXTENDS Integers, FiniteSetsExt

CONSTANTS
  HeapStart,    \* &__end, where the linker script ends the program
  HEAP_END,     \* (0xA0000000)
  Modulus,      \* 2^32
  ByteModulus,  \* 2^8
  DWord,        \* ALIGN_DWORD's unit (4)
  HeaderSize,   \* sizeof(mheader_t) (12)
  MinBlock,     \* MIN_BLOCK_SIZE (4)
  PageSize,     \* PAGE_SIZE (4096)
  Pages,        \* the pages the kernel can map for the program
  Requests      \* sizes that are asked for

ASSUME MallocAssumption ==
  /\ HeapStart \in Nat \ {0} /\ Modulus \in Nat
  /\ {DWord, HeaderSize, MinBlock, PageSize} \subseteq Nat \ {0}
  /\ MinBlock % DWord = 0 /\ HeaderSize % DWord = 0 /\ PageSize % DWord = 0
  /\ HeaderSize + MinBlock <= PageSize
  /\ HeapStart + PageSize < Modulus
  /\ Requests \subseteq 0 .. Modulus - 1

\* The heap's first page can be mapped, and memory runs out below the last
\* pages of the address space, which are the kernel's.
ASSUME PagesAssumption ==
  /\ Pages \subseteq Nat
  /\ HeapStart \div PageSize .. (HeapStart + PageSize - 1) \div PageSize \subseteq Pages
  /\ \A p \in Pages : (p + 2) * PageSize <= Modulus

VARIABLES
  header,       \* the headers in the list, by address
  heapEnd,
  mapped,       \* the pages that are mapped
  live,         \* ghost: size of each block the program owns, by its address
  faulted       \* a header was written to a page that is not mapped

vars == <<header, heapEnd, mapped, live, faulted>>

Headers == DOMAIN header
Page(a) == a \div PageSize
NULL == 0
FREE == 0
USED == 1

-----------------------------------------------------------------------------

\* The pages of SYSCALL_VIRTUAL_ALLOC, without bound.
PagesFrom(a, n) == Page(a) .. Page(a) + n - 1

\* setup_process has mapped a page's worth behind the program, and malloc_init
\* asks for the heap's first page.
Init ==
  /\ header = [h \in {HeapStart} |-> [status |-> FREE, prev |-> NULL, next |-> NULL]]
  /\ heapEnd = HeapStart + PageSize
  /\ mapped = Page(HeapStart) .. Page(HeapStart + PageSize - 1)
  /\ live = [a \in {} |-> 0]
  /\ faulted = FALSE

\* Rounding up, x modulo 2^32: ALIGN_DWORD and ROUND_UP_PAGE.
RoundUp(x, unit) ==
  IF x % unit = 0 THEN x
  ELSE LET y == (x + unit) % Modulus IN y - (y % unit)

Sized(bytes) == RoundUp(IF bytes < MinBlock THEN MinBlock ELSE bytes, DWord)

\* Where h's block ends, in a heap that ends at end.
Top(h, end) == IF header[h].next = NULL THEN end ELSE header[h].next

SlotSize(h) == Top(h, heapEnd) - h - HeaderSize

\* The walk stops at the first of these, which is the lowest (ListIsSound).
Fitting(n) == {h \in Headers : header[h].status = FREE /\ SlotSize(h) >= n}

\* A new header fits behind n bytes of h's block, and leaves enough room.
HasRest(list, h, n, end) ==
  (IF list[h].next = NULL THEN end ELSE list[h].next) - (h + HeaderSize + n)
    >= HeaderSize + MinBlock

\* A slip: the header behind still points back to h.
Taken_stale_prev(list, h, n, end) ==
  LET new == h + HeaderSize + n
  IN  IF HasRest(list, h, n, end)
        THEN [g \in DOMAIN list \cup {new} |->
                CASE g = h   -> [list[h] EXCEPT !.status = USED, !.next = new]
                  [] g = new -> [status |-> FREE, prev |-> h, next |-> list[h].next]
                  [] OTHER   -> list[g]]
        ELSE [list EXCEPT ![h].status = USED]

\* The list after n bytes of h's block are taken, in a heap that ends at end.
Taken(list, h, n, end) ==
  LET new == h + HeaderSize + n
  IN  IF HasRest(list, h, n, end)
        THEN [g \in DOMAIN list \cup {new} |->
                CASE g = h            -> [list[h] EXCEPT !.status = USED, !.next = new]
                  [] g = new          -> [status |-> FREE, prev |-> h, next |-> list[h].next]
                  [] g = list[h].next -> [list[g] EXCEPT !.prev = new]
                  [] OTHER            -> list[g]]
        ELSE [list EXCEPT ![h].status = USED]

\* The header at the end of the list.
LastHeader == CHOOSE h \in Headers : header[h].next = NULL

\* The list with a header for the bytes behind the old end of the heap.
Appended ==
  [g \in Headers \cup {heapEnd} |->
    CASE g = heapEnd    -> [status |-> FREE, prev |-> LastHeader, next |-> NULL]
      [] g = LastHeader -> [header[g] EXCEPT !.next = heapEnd]
      [] OTHER          -> header[g]]

HeaderPages(h) == Page(h) .. Page(h + HeaderSize - 1)

\* The program writes its new list, unless one of the new headers lies in a
\* page that is not mapped.
Answer(list, h, n) ==
  IF \A g \in DOMAIN list \ Headers : HeaderPages(g) \subseteq mapped'
    THEN /\ header' = list
         /\ live' = [b \in DOMAIN live \cup {h + HeaderSize} |->
                       IF b = h + HeaderSize THEN n ELSE live[b]]
         /\ UNCHANGED faulted
    ELSE faulted' = TRUE /\ UNCHANGED <<header, live>>

\* A request that a block of the heap can serve.
malloc(bytes) ==
  LET n == Sized(bytes)
      h == Min(Fitting(n))
  IN  /\ bytes # 0
      /\ Fitting(n) # {}
      /\ UNCHANGED <<heapEnd, mapped>>
      /\ Answer(Taken(header, h, n, heapEnd), h, n)

-----------------------------------------------------------------------------
(* Growing.                                                                *)

FreeSpaceAtEnd == IF header[LastHeader].status = FREE THEN SlotSize(LastHeader) ELSE 0

\* heapEnd is cast to uint8_t before it is compared with HEAP_END.
MayGrow(n) ==
  (HEAP_END - ((heapEnd % ByteModulus) - FreeSpaceAtEnd) - HeaderSize) % Modulus >= n

\* A slip: the header is not counted.
Expand_without_header(n) == RoundUp(n, PageSize)

Expand(n) == RoundUp((n + HeaderSize) % Modulus, PageSize)

\* The kernel maps all pages: the block is taken from the last header's, or
\* from one of its own behind it.
malloc_grows(bytes) ==
  LET n   == Sized(bytes)
      end == heapEnd + Expand(n)
  IN  /\ bytes # 0
      /\ Fitting(n) = {} /\ MayGrow(n)
      /\ PagesFrom(heapEnd, Expand(n) \div PageSize) \subseteq Pages
      /\ mapped' = mapped \cup PagesFrom(heapEnd, Expand(n) \div PageSize)
      /\ heapEnd' = end
      /\ IF header[LastHeader].status = FREE
           THEN Answer(Taken(header, LastHeader, n, end), LastHeader, n)
           ELSE Answer(Taken(Appended, heapEnd, n, end), heapEnd, n)

\* It does not: the answer is NULL, and the pages before stay mapped.
malloc_out_of_memory(bytes) ==
  LET n == Sized(bytes)
      W == PagesFrom(heapEnd, Expand(n) \div PageSize)
  IN  /\ bytes # 0
      /\ Fitting(n) = {} /\ MayGrow(n)
      /\ \E p \in W \ mapped : mapped' = mapped \cup {q \in W \cap Pages : q < p}
      /\ UNCHANGED <<header, heapEnd, live, faulted>>

-----------------------------------------------------------------------------
(* free.                                                                   *)

\* A slip: the block before is merged although it is in use.
MergesPrevious_in_use(h) == header[h].prev # NULL
MergesPrevious(h) == header[h].prev # NULL /\ header[header[h].prev].status = FREE

\* A slip: the block behind is not looked at once the one before is merged.
MergesNext_once(h) ==
  ~MergesPrevious(h) /\ header[h].next # NULL /\ header[header[h].next].status = FREE

MergesNext(h) == header[h].next # NULL /\ header[header[h].next].status = FREE

Base(h)   == IF MergesPrevious(h) THEN header[h].prev ELSE h

Behind(h) == IF MergesNext(h) THEN header[header[h].next].next ELSE header[h].next

Absorbed(h) ==
  {g \in {h} : MergesPrevious(h)} \cup {g \in {header[h].next} : MergesNext(h)}

free(a) ==
  LET h == a - HeaderSize
  IN  /\ a \in DOMAIN live
      /\ header' = [g \in Headers \ Absorbed(h) |->
           CASE g = Base(h)   -> [header[g] EXCEPT !.status = FREE, !.next = Behind(h)]
             [] g = Behind(h) -> [header[g] EXCEPT !.prev = Base(h)]
             [] OTHER         -> header[g]]
      /\ live' = [b \in DOMAIN live \ {a} |-> live[b]]
      /\ UNCHANGED <<heapEnd, mapped, faulted>>

-----------------------------------------------------------------------------

Next ==
  /\ ~faulted
  /\ \/ \E bytes \in Requests : \/ malloc(bytes)
                                \/ malloc_grows(bytes)
                                \/ malloc_out_of_memory(bytes)
     \/ \E a \in DOMAIN live : free(a)

Spec == Init /\ [][Next]_vars

-----------------------------------------------------------------------------
(* Properties.                                                             *)

\* Every variable has its type.
TypeOK ==
  /\ header \in [Headers -> [status : {FREE, USED}, prev : Headers \cup {NULL},
                             next : Headers \cup {NULL}]]
  /\ Headers \subseteq HeapStart .. heapEnd
  /\ heapEnd \in 0 .. Modulus - 1
  /\ mapped \subseteq Pages
  /\ faulted \in BOOLEAN

\* The list is whole, across every split, merge and growth: it starts at
\* HeapStart, each header leads to the nearest one above, with room for a
\* block in between, prev is the inverse of next, and the last leads nowhere.
ListIsSound ==
  /\ HeapStart \in Headers /\ header[HeapStart].prev = NULL
  /\ \A h \in Headers :
       /\ SlotSize(h) >= MinBlock
       /\ header[h].next = NULL => \A g \in Headers : g <= h
       /\ header[h].next # NULL =>
            /\ header[header[h].next].prev = h
            /\ \A g \in Headers : ~(h < g /\ g < header[h].next)

Bytes(a, n) == a .. a + n - 1

\* No byte belongs to two blocks, nor to a block and a header, nor lies
\* behind the end of the heap.
NothingOverlaps ==
  \A a \in DOMAIN live :
    /\ \A b \in DOMAIN live \ {a} : Bytes(a, live[a]) \cap Bytes(b, live[b]) = {}
    /\ \A h \in Headers : Bytes(a, live[a]) \cap Bytes(h, HeaderSize) = {}
    /\ a + live[a] <= heapEnd

\* The heap is sound: a whole list whose blocks are apart.
HeapInv == TypeOK /\ ListIsSound /\ NothingOverlaps

\* Every byte handed out, and every header, lies in a page that is mapped.
HandedOutIsMapped ==
  /\ \A a \in DOMAIN live : \A x \in Bytes(a, live[a]) : Page(x) \in mapped
  /\ \A h \in Headers : HeaderPages(h) \subseteq mapped

\* When every block has been given back, the heap, grown as it is, is one
\* free block.
FreedHeapIsWhole == DOMAIN live = {} => Headers = {HeapStart}

\* The heap implements the arena of HeapArena.
Arena == INSTANCE HeapArena WITH Lo <- HeapStart, Hi <- Modulus

ImplementsHeapArena == Arena!Spec

=============================================================================
