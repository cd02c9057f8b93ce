---------------------------- MODULE MallocProofs ----------------------------
(***************************************************************************)
(* Theorems about the heap of a user program, for every start, header      *)
(* size, smallest block, page size, memory and set of requests.  malloc    *)
(* builds its new list in several ways (cutting a block, growing the last, *)
(* appending one); each is an operation on a list and the end of its heap, *)
(* so soundness is stated, and kept, for any list and end.                 *)
(***************************************************************************)
EXTENDS Malloc, ArithLemmas

\* A request that does not wrap around when it is rounded up to words and,
\* with its header, to pages.  malloc does not test this: with 2^32 - 1 bytes
\* asked for, ALIGN_DWORD makes 0 of the request, and a block of no bytes is
\* handed out.
RequestsFit ==
  \A r \in Requests \cup {MinBlock} : r + DWord + HeaderSize + PageSize < Modulus

TopOf(list, h, end) == IF list[h].next = NULL THEN end ELSE list[h].next

Record(D) == [status : {FREE, USED}, prev : D \cup {NULL}, next : D \cup {NULL}]

ListType(list, end) ==
  /\ end \in Nat
  /\ DOMAIN list \subseteq HeapStart .. end
  /\ list \in [DOMAIN list -> Record(DOMAIN list)]

\* The list starts at HeapStart and has a last header.
Ends(list) ==
  /\ HeapStart \in DOMAIN list /\ list[HeapStart].prev = NULL
  /\ \E h \in DOMAIN list : list[h].next = NULL

\* Each block has room, reaches to the next header above or to the end, and
\* the header behind points back.
Forward(list, end) ==
  \A h \in DOMAIN list :
    /\ TopOf(list, h, end) >= h + HeaderSize + MinBlock
    /\ \A g \in DOMAIN list : g <= h \/ TopOf(list, h, end) <= g
    /\ list[h].next # NULL => list[list[h].next].prev = h

Backward(list) ==
  \A h \in DOMAIN list \ {HeapStart} :
    list[h].prev \in DOMAIN list /\ list[list[h].prev].next = h

\* No two neighbouring blocks are both free.
Coalesced(list) ==
  \A h \in DOMAIN list :
    list[h].status = FREE /\ list[h].next # NULL => list[list[h].next].status = USED

Sound(list, end) ==
  ListType(list, end) /\ Ends(list) /\ Forward(list, end) /\ Backward(list) /\ Coalesced(list)

\* Each block the program owns has a used header and lies within its block;
\* each used header is that of a block the program owns.
Owned(list, own, end) ==
  /\ \A a \in DOMAIN own :
       /\ a \in Nat /\ own[a] \in Nat
       /\ a - HeaderSize \in DOMAIN list
       /\ list[a - HeaderSize].status = USED
       /\ own[a] >= MinBlock
       /\ a + own[a] <= TopOf(list, a - HeaderSize, end)
  /\ \A h \in DOMAIN list : list[h].status = USED => h + HeaderSize \in DOMAIN own

StateType ==
  heapEnd \in 0 .. Modulus - 1 /\ mapped \subseteq Pages /\ faulted \in BOOLEAN

\* The inductive invariant.
HeapIInv ==
  Sound(header, heapEnd) /\ Owned(header, live, heapEnd) /\ StateType

\* With the heap's start at a page boundary: the heap is whole pages, all of
\* them mapped.
HeapIsMapped ==
  /\ heapEnd \in Nat /\ HeapStart < heapEnd /\ heapEnd % PageSize = 0
  /\ Page(HeapStart) .. Page(heapEnd - 1) \subseteq mapped

-----------------------------------------------------------------------------
(* The list.                                                               *)

LEMMA ConstantTypes ==
  /\ HeapStart \in Nat \ {0} /\ Modulus \in Nat
  /\ DWord \in Nat \ {0} /\ HeaderSize \in Nat \ {0}
  /\ MinBlock \in Nat \ {0} /\ PageSize \in Nat \ {0}
  /\ HeaderSize + MinBlock <= PageSize
  /\ HeapStart + PageSize < Modulus
BY MallocAssumption

\* What the proofs use of a sound list.
LEMMA ListFacts ==
  ASSUME NEW list, NEW end, Sound(list, end), NEW h \in DOMAIN list
  PROVE  /\ h \in Nat /\ h # 0 /\ HeapStart <= h /\ end \in Nat
         /\ TopOf(list, h, end) \in Nat /\ TopOf(list, h, end) <= end
         /\ TopOf(list, h, end) >= h + HeaderSize + MinBlock
         /\ \A g \in DOMAIN list : g <= h \/ TopOf(list, h, end) <= g
         /\ list[h].next # NULL =>
              /\ list[h].next \in DOMAIN list /\ list[h].next \in Nat
              /\ TopOf(list, h, end) = list[h].next
              /\ list[list[h].next].prev = h
         /\ list[h].next = NULL => TopOf(list, h, end) = end
         /\ list[h].status \in {FREE, USED}
         /\ list[h].prev \in DOMAIN list \cup {NULL}
         /\ list[h].next \in DOMAIN list \cup {NULL}
<1>1. /\ end \in Nat /\ DOMAIN list \subseteq HeapStart .. end
      /\ list[h] \in Record(DOMAIN list)
  BY DEF Sound, ListType
<1>2. h \in Nat /\ h # 0 /\ HeapStart <= h
  BY <1>1, ConstantTypes
<1>3. /\ list[h].status \in {FREE, USED}
      /\ list[h].prev \in DOMAIN list \cup {NULL}
      /\ list[h].next \in DOMAIN list \cup {NULL}
  BY <1>1 DEF Record
<1>4. /\ TopOf(list, h, end) >= h + HeaderSize + MinBlock
      /\ \A g \in DOMAIN list : g <= h \/ TopOf(list, h, end) <= g
      /\ list[h].next # NULL => list[list[h].next].prev = h
  BY DEF Sound, Forward
<1>5. /\ list[h].next = NULL => TopOf(list, h, end) = end
      /\ list[h].next # NULL => TopOf(list, h, end) = list[h].next
  BY DEF TopOf
<1>6. list[h].next # NULL => list[h].next \in DOMAIN list /\ list[h].next \in HeapStart .. end
  BY <1>1, <1>3
<1>7. TopOf(list, h, end) \in Nat /\ TopOf(list, h, end) <= end
  BY <1>1, <1>5, <1>6, ConstantTypes
<1> QED BY <1>1, <1>2, <1>3, <1>4, <1>5, <1>6, <1>7, ConstantTypes

\* The last header is the highest, and the only one that leads nowhere.
LEMMA LastIsHighest ==
  ASSUME NEW list, NEW end, Sound(list, end),
         NEW h \in DOMAIN list, list[h].next = NULL
  PROVE  /\ \A g \in DOMAIN list : g <= h
         /\ \A g \in DOMAIN list : list[g].next = NULL => g = h
<1>1. ASSUME NEW g \in DOMAIN list, NEW f \in DOMAIN list, list[f].next = NULL
      PROVE  g <= f
  <2>1. g <= f \/ end <= g
    BY <1>1, ListFacts
  <2>2. TopOf(list, g, end) >= g + HeaderSize + MinBlock /\ TopOf(list, g, end) <= end
        /\ g \in Nat /\ end \in Nat /\ TopOf(list, g, end) \in Nat
    BY ListFacts
  <2>3. ~(end <= g)
    BY <2>2, ConstantTypes
  <2> QED BY <2>1, <2>3
<1>2. \A g \in DOMAIN list : g \in Nat
  BY ListFacts
<1> QED BY <1>1, <1>2

LEMMA LastHeaderIsLast ==
  ASSUME NEW end, Sound(header, end)
  PROVE  /\ LastHeader \in Headers /\ header[LastHeader].next = NULL
         /\ \A g \in Headers : g <= LastHeader
         /\ \A g \in Headers : header[g].next = NULL => g = LastHeader
<1>1. \E h \in Headers : header[h].next = NULL
  BY DEF Sound, Ends, Headers
<1>2. LastHeader \in Headers /\ header[LastHeader].next = NULL
  BY <1>1 DEF LastHeader
<1> QED BY <1>2, LastIsHighest DEF Headers

\* A request is served from a free header with room for it.
LEMMA FittingHeader ==
  ASSUME Sound(header, heapEnd), NEW n \in Nat, Fitting(n) # {}
  PROVE  /\ Min(Fitting(n)) \in DOMAIN header
         /\ header[Min(Fitting(n))].status = FREE
         /\ TopOf(header, Min(Fitting(n)), heapEnd) >= Min(Fitting(n)) + HeaderSize + n
<1>1. Fitting(n) \subseteq Nat
  BY ListFacts DEF Fitting, Headers
<1>2. Min(Fitting(n)) \in Fitting(n)
  BY <1>1, MinIsLeast
<1> DEFINE h == Min(Fitting(n))
<1>3. h \in DOMAIN header /\ header[h].status = FREE /\ SlotSize(h) >= n
  BY <1>2 DEF Fitting, Headers
<1> HIDE DEF h
<1>4. SlotSize(h) = TopOf(header, h, heapEnd) - h - HeaderSize
  BY DEF SlotSize, Top, TopOf
<1>5. h \in Nat /\ TopOf(header, h, heapEnd) \in Nat
  BY <1>3, ListFacts
<1>6. TopOf(header, h, heapEnd) >= h + HeaderSize + n
  BY <1>3, <1>4, <1>5, ConstantTypes
<1> QED BY <1>3, <1>6 DEF h

\* What Taken does to the fields of the headers when nothing is left over ...
LEMMA TakenWhole ==
  ASSUME NEW list, NEW end, Sound(list, end), NEW h \in DOMAIN list, NEW n \in Nat,
         ~HasRest(list, h, n, end)
  PROVE  LET r == Taken(list, h, n, end)
         IN  /\ DOMAIN r = DOMAIN list
             /\ r \in [DOMAIN list -> Record(DOMAIN list)]
             /\ r[h].status = USED
             /\ \A g \in DOMAIN list \ {h} : r[g].status = list[g].status
             /\ \A g \in DOMAIN list : r[g].prev = list[g].prev /\ r[g].next = list[g].next
<1> DEFINE r == Taken(list, h, n, end)
<1>1. r = [list EXCEPT ![h].status = USED]
  BY DEF Taken
<1>2. list \in [DOMAIN list -> Record(DOMAIN list)]
  BY DEF Sound, ListType
<1> HIDE DEF r
<1>3. DOMAIN r = DOMAIN list
  BY <1>1, <1>2
<1>4. r[h] = [list[h] EXCEPT !.status = USED] /\ \A g \in DOMAIN list \ {h} : r[g] = list[g]
  BY <1>1, <1>2
<1>5. list[h] \in Record(DOMAIN list)
  BY <1>2
<1>6. r[h] \in Record(DOMAIN list)
  BY <1>4, <1>5 DEF Record
<1>7. r[h].status = USED /\ r[h].prev = list[h].prev /\ r[h].next = list[h].next
  BY <1>4, <1>5 DEF Record
<1>8. r \in [DOMAIN list -> Record(DOMAIN list)]
  <2>1. r = [g \in DOMAIN list |-> r[g]]
    BY <1>1, <1>2
  <2>2. \A g \in DOMAIN list : r[g] \in Record(DOMAIN list)
    BY <1>2, <1>4, <1>6
  <2> HIDE DEF Record
  <2> QED BY <2>1, <2>2
<1> QED BY <1>3, <1>4, <1>7, <1>8 DEF r

\* ... and when a header is written behind the block.
Split(list, h, n, end, r) ==
  LET new == h + HeaderSize + n
      x   == list[h].next
  IN  /\ new \in Nat /\ new > h /\ new >= h + HeaderSize + MinBlock
      /\ new + HeaderSize + MinBlock <= TopOf(list, h, end)
      /\ new \notin DOMAIN list /\ new # 0
      /\ DOMAIN r = DOMAIN list \cup {new}
      /\ r \in [DOMAIN list \cup {new} -> Record(DOMAIN list \cup {new})]
      /\ r[h].status = USED /\ r[h].prev = list[h].prev /\ r[h].next = new
      /\ r[new].status = FREE /\ r[new].prev = h /\ r[new].next = x
      /\ x # NULL => /\ r[x].prev = new /\ r[x].status = list[x].status
                     /\ r[x].next = list[x].next
      /\ \A g \in DOMAIN list \ {h, x} : r[g] = list[g]

LEMMA TakenSplit ==
  ASSUME NEW list, NEW end, Sound(list, end), NEW h \in DOMAIN list, NEW n \in Nat,
         n >= MinBlock,
         HasRest(list, h, n, end)
  PROVE  Split(list, h, n, end, Taken(list, h, n, end))
<1> DEFINE r   == Taken(list, h, n, end)
           new == h + HeaderSize + n
           x   == list[h].next
           D   == DOMAIN list
<1>1. /\ h \in Nat /\ h # 0 /\ TopOf(list, h, end) \in Nat
      /\ \A g \in D : g <= h \/ TopOf(list, h, end) <= g
      /\ x # NULL => x \in D /\ x \in Nat /\ TopOf(list, h, end) = x
      /\ x \in D \cup {NULL}
  BY ListFacts
<1>2. new \in Nat /\ new > h /\ new >= h + HeaderSize + MinBlock /\ new # 0
  BY <1>1, ConstantTypes
<1>3. new + HeaderSize + MinBlock <= TopOf(list, h, end)
  <2> HIDE DEF new
  <2>1. TopOf(list, h, end) - new >= HeaderSize + MinBlock
    BY DEF HasRest, TopOf, new
  <2> QED BY <1>1, <1>2, <2>1, ConstantTypes
<1>4. new \notin D
  <2> HIDE DEF new
  <2> QED BY <1>1, <1>2, <1>3, ConstantTypes
<1>5. x # h /\ x # new
  <2> HIDE DEF new, x, D
  <2> QED BY <1>1, <1>2, <1>3, <1>4, ConstantTypes DEF NULL
<1>6. r = [g \in D \cup {new} |->
             CASE g = h   -> [list[h] EXCEPT !.status = USED, !.next = new]
               [] g = new -> [status |-> FREE, prev |-> h, next |-> x]
               [] g = x   -> [list[g] EXCEPT !.prev = new]
               [] OTHER   -> list[g]]
  BY DEF Taken
<1>7. \A g \in D : list[g] \in Record(D)
  BY DEF Sound, ListType
<1> HIDE DEF r, new, x, D
<1>8. h \in D /\ h # new
  BY <1>2, <1>1 DEF D
<1>9. /\ r[h] = [list[h] EXCEPT !.status = USED, !.next = new]
      /\ r[new] = [status |-> FREE, prev |-> h, next |-> x]
      /\ \A g \in D \ {h, x} : r[g] = list[g]
      /\ DOMAIN r = D \cup {new}
      /\ r = [g \in D \cup {new} |-> r[g]]
  BY <1>4, <1>5, <1>6, <1>8
<1>10. x # NULL => r[x] = [list[x] EXCEPT !.prev = new]
  BY <1>1, <1>4, <1>5, <1>6, <1>8
<1>11. r[h].status = USED /\ r[h].prev = list[h].prev /\ r[h].next = new
  BY <1>7, <1>8, <1>9 DEF Record
<1>12. r[new].status = FREE /\ r[new].prev = h /\ r[new].next = x
  BY <1>9
<1>13. x # NULL => r[x].prev = new /\ r[x].status = list[x].status /\ r[x].next = list[x].next
  BY <1>1, <1>7, <1>10 DEF Record
<1>14. \A g \in D \cup {new} : r[g] \in Record(D \cup {new})
  <2>1. r[h] \in Record(D \cup {new})
    BY <1>7, <1>8, <1>9 DEF Record
  <2>2. r[new] \in Record(D \cup {new})
    BY <1>1, <1>8, <1>9 DEF Record
  <2>3. x # NULL => r[x] \in Record(D \cup {new})
    BY <1>1, <1>7, <1>10 DEF Record
  <2>4. ASSUME NEW g \in D \ {h, x} PROVE r[g] \in Record(D \cup {new})
    BY <1>7, <1>9 DEF Record
  <2>5. NULL \notin D
    BY ListFacts DEF D, NULL
  <2> QED BY <1>1, <2>1, <2>2, <2>3, <2>4, <2>5
<1>15. r \in [D \cup {new} -> Record(D \cup {new})]
  BY <1>9, <1>14
<1> QED BY <1>2, <1>3, <1>4, <1>9, <1>11, <1>12, <1>13, <1>15 DEF Split, r, new, x, D

\* The block of h is taken, and those of the other headers are as they were.
Serves(list, h, n, end, r) ==
  /\ Sound(r, end)
  /\ DOMAIN list \subseteq DOMAIN r
  /\ r[h].status = USED
  /\ TopOf(r, h, end) >= h + HeaderSize + n
  /\ \A g \in DOMAIN list \ {h} : /\ r[g].status = list[g].status
                                  /\ TopOf(r, g, end) = TopOf(list, g, end)
  /\ \A g \in DOMAIN r \ DOMAIN list : r[g].status = FREE

\* Taking n bytes of a free block keeps the list sound, takes the block, and
\* leaves status and extent of every other block alone.
LEMMA TakenIsSound ==
  ASSUME NEW list, NEW end, Sound(list, end),
         NEW h \in DOMAIN list, list[h].status = FREE,
         NEW n \in Nat, n >= MinBlock,
         TopOf(list, h, end) >= h + HeaderSize + n
  PROVE  Serves(list, h, n, end, Taken(list, h, n, end))
<1> DEFINE r   == Taken(list, h, n, end)
           new == h + HeaderSize + n
           x   == list[h].next
           D   == DOMAIN list
<1>1. CASE ~HasRest(list, h, n, end)
  <2>1. /\ DOMAIN r = D /\ r \in [D -> Record(D)]
        /\ r[h].status = USED
        /\ \A g \in D \ {h} : r[g].status = list[g].status
        /\ \A g \in D : r[g].prev = list[g].prev /\ r[g].next = list[g].next
    BY <1>1, TakenWhole
  <2> HIDE DEF r, D
  <2>2. \A g \in D : TopOf(r, g, end) = TopOf(list, g, end)
    BY <2>1 DEF TopOf
  <2>3. \A g \in D : list[g].next # NULL => list[g].next \in D
    BY ListFacts DEF D
  <2>4. ListType(r, end)
    BY <2>1 DEF Sound, ListType, D
  <2>5. Ends(r)
    BY <2>1 DEF Sound, Ends, D
  <2>6. Forward(r, end)
    BY <2>1, <2>2, <2>3 DEF Sound, Forward, D
  <2>7. Backward(r)
    BY <2>1 DEF Sound, Backward, D
  <2>8. Coalesced(r)
    <3> SUFFICES ASSUME NEW g \in D, r[g].status = FREE, r[g].next # NULL
                 PROVE  r[r[g].next].status = USED
      BY <2>1 DEF Coalesced
    <3>1. list[g].status = FREE /\ list[g].next # NULL /\ r[g].next = list[g].next
      BY <2>1 DEF FREE, USED
    <3>2. list[list[g].next].status = USED
      BY <3>1 DEF Sound, Coalesced, D
    <3> QED BY <2>1, <2>3, <3>1, <3>2
  <2>9. Sound(r, end)
    BY <2>4, <2>5, <2>6, <2>7, <2>8 DEF Sound
  <2> QED BY <2>1, <2>2, <2>9 DEF Serves, r, D
<1>2. CASE HasRest(list, h, n, end)
  <2>1. /\ new \in Nat /\ new > h /\ new >= h + HeaderSize + MinBlock
        /\ new + HeaderSize + MinBlock <= TopOf(list, h, end)
        /\ new \notin D /\ new # 0
        /\ DOMAIN r = D \cup {new}
        /\ r \in [D \cup {new} -> Record(D \cup {new})]
        /\ r[h].status = USED /\ r[h].prev = list[h].prev /\ r[h].next = new
        /\ r[new].status = FREE /\ r[new].prev = h /\ r[new].next = x
        /\ x # NULL => r[x].prev = new /\ r[x].status = list[x].status /\ r[x].next = list[x].next
        /\ \A g \in D \ {h, x} : r[g] = list[g]
    <3>1. Split(list, h, n, end, r)
      BY <1>2, TakenSplit
    <3> QED BY <3>1 DEF Split
  <2>2. /\ h \in Nat /\ h # 0 /\ HeapStart <= h /\ end \in Nat
        /\ TopOf(list, h, end) \in Nat /\ TopOf(list, h, end) <= end
        /\ \A g \in D : g <= h \/ TopOf(list, h, end) <= g
        /\ x # NULL => x \in D /\ x \in Nat /\ TopOf(list, h, end) = x /\ list[x].prev = h
        /\ x = NULL => TopOf(list, h, end) = end
        /\ x \in D \cup {NULL}
    BY ListFacts
  <2>3. x # NULL => list[x].status = USED
    BY DEF Sound, Coalesced
  <2>4. NULL \notin D
    BY ListFacts DEF NULL
  <2> HIDE DEF r, new, x, D
  <2>5. h \in D
    BY DEF D
  <2>6. x # h /\ x # new
    BY <2>1, <2>2, ConstantTypes DEF NULL
  <2>7. TopOf(r, h, end) = new /\ TopOf(r, new, end) = TopOf(list, h, end)
    BY <2>1, <2>2 DEF TopOf, x, NULL
  <2>8. \A g \in D \ {h} : /\ r[g].status = list[g].status
                           /\ r[g].next = list[g].next
                           /\ TopOf(r, g, end) = TopOf(list, g, end)
    <3>1. \A g \in D \ {h} : r[g].status = list[g].status /\ r[g].next = list[g].next
      BY <2>1, <2>4
    <3> QED BY <3>1 DEF TopOf
  <2>9. ListType(r, end)
    <3>1. new \in HeapStart .. end
      BY <2>1, <2>2, ConstantTypes
    <3>2. D \subseteq HeapStart .. end
      BY DEF D, Sound, ListType
    <3> QED BY <2>1, <2>2, <3>1, <3>2 DEF ListType
  <2>10. Ends(r)
    <3>1. HeapStart \in D /\ list[HeapStart].prev = NULL
      BY DEF Sound, Ends, D
    <3>2. HeapStart # x \/ x = NULL
      BY <2>2, <2>5, <3>1 DEF NULL
    <3>3. HeapStart # x
      BY <3>1, <3>2, <2>4
    <3>4. r[HeapStart].prev = NULL
      BY <2>1, <3>1, <3>3
    <3>5. PICK g \in D : list[g].next = NULL
      BY DEF Sound, Ends, D
    <3>6. \E f \in DOMAIN r : r[f].next = NULL
      BY <2>1, <2>8, <3>5 DEF x
    <3> QED BY <2>1, <3>1, <3>4, <3>6 DEF Ends
  <2>11. Forward(r, end)
    <3> SUFFICES ASSUME NEW g \in D \cup {new}
                 PROVE  /\ TopOf(r, g, end) >= g + HeaderSize + MinBlock
                        /\ \A f \in D \cup {new} : f <= g \/ TopOf(r, g, end) <= f
                        /\ r[g].next # NULL => r[r[g].next].prev = g
      BY <2>1 DEF Forward
    <3>0. \A f \in D : f \in Nat
      BY ListFacts DEF D
    <3>1. CASE g = h
      <4>1. \A f \in D : f <= h \/ new <= f
        BY <3>0, <2>1, <2>2, ConstantTypes
      <4> QED BY <2>1, <2>2, <2>7, <3>1, <4>1
    <3>2. CASE g = new
      <4>1. \A f \in D : f <= new \/ TopOf(list, h, end) <= f
        BY <3>0, <2>1, <2>2
      <4> QED BY <2>1, <2>2, <2>7, <3>2, <4>1
    <3>3. CASE g # h /\ g # new
      <4>1. g \in D
        BY <3>3
      <4>2. /\ g \in Nat /\ TopOf(list, g, end) \in Nat /\ TopOf(list, g, end) <= end
            /\ TopOf(list, g, end) >= g + HeaderSize + MinBlock
            /\ \A f \in D : f <= g \/ TopOf(list, g, end) <= f
            /\ list[g].next # NULL => /\ list[g].next \in D
                                      /\ TopOf(list, g, end) = list[g].next
                                      /\ list[list[g].next].prev = g
        BY <4>1, ListFacts DEF D
      <4>3. new <= g \/ TopOf(list, g, end) <= new
        BY <2>1, <2>2, <2>5, <3>3, <4>1, <4>2, ConstantTypes
      <4>4. list[g].next # NULL => list[g].next # x /\ list[g].next # new
        BY <2>1, <2>2, <3>3, <4>2
      <4>5. list[g].next # NULL => r[list[g].next].prev = g
        BY <2>1, <2>5, <4>2, <4>4
      <4> QED BY <2>8, <3>3, <4>1, <4>2, <4>3, <4>5
    <3> QED BY <3>1, <3>2, <3>3
  <2>12. Backward(r)
    <3> SUFFICES ASSUME NEW g \in (D \cup {new}) \ {HeapStart}
                 PROVE  r[g].prev \in D \cup {new} /\ r[r[g].prev].next = g
      BY <2>1 DEF Backward
    <3>1. CASE g = new
      BY <2>1, <2>5, <3>1
    <3>2. CASE g # new /\ g = x
      <4>1. x # NULL
        BY <2>4, <3>2
      <4> QED BY <2>1, <3>2, <4>1
    <3>3. CASE g # new /\ g # x
      <4>1. list[g].prev \in D /\ list[list[g].prev].next = g
        BY <3>3 DEF Sound, Backward, D
      <4>2. list[g].prev # h
        BY <3>3, <4>1 DEF x
      <4>3. r[g].prev = list[g].prev
        BY <2>1, <3>3
      <4>4. r[list[g].prev].next = g
        BY <2>8, <4>1, <4>2
      <4> QED BY <4>1, <4>3, <4>4
    <3> QED BY <3>1, <3>2, <3>3
  <2>13. Coalesced(r)
    <3> SUFFICES ASSUME NEW g \in D \cup {new}, r[g].status = FREE, r[g].next # NULL
                 PROVE  r[r[g].next].status = USED
      BY <2>1 DEF Coalesced
    <3>1. g # h
      BY <2>1 DEF FREE, USED
    <3>2. CASE g = new
      BY <2>1, <2>3, <3>2
    <3>3. CASE g # new
      <4>1. g \in D \ {h}
        BY <3>1, <3>3
      <4>2. list[g].status = FREE /\ list[g].next # NULL /\ r[g].next = list[g].next
        BY <2>8, <4>1
      <4>3. list[list[g].next].status = USED
        BY <4>1, <4>2 DEF Sound, Coalesced, D
      <4>4. list[g].next \in D
        BY <4>1, <4>2, ListFacts DEF D
      <4> QED BY <2>1, <2>8, <4>2, <4>3, <4>4
    <3> QED BY <3>2, <3>3
  <2>14. Sound(r, end)
    BY <2>9, <2>10, <2>11, <2>12, <2>13 DEF Sound
  <2>15. \A g \in DOMAIN r \ D : r[g].status = FREE
    BY <2>1
  <2>16. TopOf(r, h, end) >= new
    BY <2>1, <2>7
  <2> QED BY <2>1, <2>8, <2>14, <2>15, <2>16 DEF Serves, r, D, new
<1> QED BY <1>1, <1>2

\* A heap that grows: the last block does, the others stay as they are.
LEMMA GrownIsSound ==
  ASSUME NEW list, NEW old, Sound(list, old), NEW end \in Nat, old <= end
  PROVE  /\ Sound(list, end)
         /\ \A g \in DOMAIN list : TopOf(list, g, old) <= TopOf(list, g, end)
<1> USE DEF TopOf
<1>1. old \in Nat /\ DOMAIN list \subseteq HeapStart .. old
  BY DEF Sound, ListType
<1>2. \A g \in DOMAIN list : TopOf(list, g, old) <= TopOf(list, g, end)
  BY <1>1, ListFacts
<1>3. ListType(list, end)
  BY <1>1, ConstantTypes DEF Sound, ListType
<1>4. Forward(list, end)
  <2> SUFFICES ASSUME NEW h \in DOMAIN list
               PROVE  /\ TopOf(list, h, end) >= h + HeaderSize + MinBlock
                      /\ \A g \in DOMAIN list : g <= h \/ TopOf(list, h, end) <= g
                      /\ list[h].next # NULL => list[list[h].next].prev = h
    BY DEF Forward
  <2>1. /\ TopOf(list, h, old) >= h + HeaderSize + MinBlock
        /\ \A g \in DOMAIN list : g <= h \/ TopOf(list, h, old) <= g
        /\ list[h].next # NULL => list[list[h].next].prev = h
        /\ h \in Nat
    BY ListFacts
  <2>2. list[h].next = NULL => \A g \in DOMAIN list : g <= h
    BY LastIsHighest
  <2>3. TopOf(list, h, end) >= h + HeaderSize + MinBlock
    BY <1>1, <2>1, ConstantTypes
  <2> QED BY <2>1, <2>2, <2>3
<1> QED BY <1>2, <1>3, <1>4 DEF Sound

\* A header for what was appended to a heap whose last block is in use.
LEMMA AppendedIsSound ==
  ASSUME Sound(header, heapEnd), header[LastHeader].status = USED,
         NEW end \in Nat, end >= heapEnd + HeaderSize + MinBlock
  PROVE  /\ Sound(Appended, end)
         /\ DOMAIN Appended = Headers \cup {heapEnd} /\ heapEnd \notin Headers
         /\ Appended[heapEnd].status = FREE
         /\ TopOf(Appended, heapEnd, end) = end
         /\ \A g \in Headers : /\ Appended[g].status = header[g].status
                               /\ TopOf(Appended, g, end) = TopOf(header, g, heapEnd)
<1> DEFINE r == Appended
           e == heapEnd
           l == LastHeader
           D == Headers
<1>1. /\ l \in D /\ header[l].next = NULL
      /\ \A g \in D : g <= l
      /\ \A g \in D : header[g].next = NULL => g = l
  BY LastHeaderIsLast
<1>2. \A g \in D : header[g] \in Record(D)
  BY DEF Sound, ListType, Headers
<1>3. D = DOMAIN header
  BY DEF Headers
<1>4. e \in Nat /\ D \subseteq HeapStart .. e
  BY DEF Sound, ListType, Headers
<1>5. ASSUME NEW g \in D
      PROVE  /\ g \in Nat /\ g # 0 /\ g + HeaderSize + MinBlock <= e /\ g < e
             /\ TopOf(header, g, e) >= g + HeaderSize + MinBlock
             /\ TopOf(header, g, e) \in Nat /\ TopOf(header, g, e) <= e
             /\ \A f \in D : f <= g \/ TopOf(header, g, e) <= f
             /\ header[g].next # NULL =>
                  /\ header[g].next \in D /\ header[g].next \in Nat
                  /\ header[header[g].next].prev = g
             /\ header[g].next \in D \cup {NULL} /\ header[g].prev \in D \cup {NULL}
  <2>1. /\ g \in Nat /\ g # 0
        /\ TopOf(header, g, e) >= g + HeaderSize + MinBlock
        /\ TopOf(header, g, e) \in Nat /\ TopOf(header, g, e) <= e
        /\ \A f \in D : f <= g \/ TopOf(header, g, e) <= f
        /\ header[g].next # NULL =>
             /\ header[g].next \in D /\ header[g].next \in Nat
             /\ header[header[g].next].prev = g
        /\ header[g].next \in D \cup {NULL} /\ header[g].prev \in D \cup {NULL}
    BY <1>3, ListFacts
  <2>2. g + HeaderSize + MinBlock <= e /\ g < e
    BY <1>4, <2>1, ConstantTypes
  <2> QED BY <2>1, <2>2
<1>6. e \notin D /\ e # NULL /\ NULL \notin D /\ HeapStart \in D
  BY <1>1, <1>3, <1>4, <1>5 DEF NULL, Sound, Ends
<1>7. r = [g \in D \cup {e} |->
            CASE g = e -> [status |-> FREE, prev |-> l, next |-> NULL]
              [] g = l -> [header[g] EXCEPT !.next = e]
              [] OTHER -> header[g]]
  BY DEF Appended
<1> HIDE DEF r, e, l, D
<1>8. /\ DOMAIN r = D \cup {e} /\ r = [g \in D \cup {e} |-> r[g]]
      /\ r[e] = [status |-> FREE, prev |-> l, next |-> NULL]
      /\ r[l] = [header[l] EXCEPT !.next = e]
      /\ \A g \in D \ {l} : r[g] = header[g]
  BY <1>1, <1>6, <1>7
<1>9. /\ r[e].status = FREE /\ r[e].prev = l /\ r[e].next = NULL
      /\ r[l].next = e
      /\ \A g \in D : r[g].status = header[g].status /\ r[g].prev = header[g].prev
      /\ \A g \in D \ {l} : r[g].next = header[g].next
  BY <1>1, <1>2, <1>8 DEF Record
<1>10. TopOf(r, e, end) = end
  BY <1>9 DEF TopOf
<1>11. \A g \in D : TopOf(r, g, end) = TopOf(header, g, e)
  <2>1. TopOf(r, l, end) = e /\ TopOf(header, l, e) = e
    BY <1>1, <1>6, <1>9 DEF TopOf
  <2>2. ASSUME NEW g \in D \ {l} PROVE TopOf(r, g, end) = TopOf(header, g, e)
    <3>1. header[g].next # NULL /\ r[g].next = header[g].next
      BY <1>1, <1>9
    <3> QED BY <3>1 DEF TopOf
  <2> QED BY <2>1, <2>2
<1>12. ListType(r, end)
  <2>1. \A g \in D \cup {e} : r[g] \in Record(D \cup {e})
    <3>1. r[e] \in Record(D \cup {e})
      BY <1>1, <1>8 DEF Record
    <3>2. r[l] \in Record(D \cup {e})
      BY <1>1, <1>2, <1>8 DEF Record
    <3>3. \A g \in D \ {l} : r[g] \in Record(D \cup {e})
      BY <1>2, <1>8 DEF Record
    <3> QED BY <3>1, <3>2, <3>3
  <2>2. D \cup {e} \subseteq HeapStart .. end
    <3>1. HeapStart <= e
      BY <1>4, <1>5, <1>6, ConstantTypes
    <3> QED BY <1>4, <1>5, <3>1, ConstantTypes DEF e
  <2>3. r \in [D \cup {e} -> Record(D \cup {e})]
    BY <1>8, <2>1
  <2> QED BY <1>8, <2>2, <2>3 DEF ListType
<1>13. Ends(r)
  <2>1. header[HeapStart].prev = NULL
    BY DEF Sound, Ends
  <2> QED BY <1>6, <1>8, <1>9, <2>1 DEF Ends
<1>14. Forward(r, end)
  <2> SUFFICES ASSUME NEW h \in D \cup {e}
               PROVE  /\ TopOf(r, h, end) >= h + HeaderSize + MinBlock
                      /\ \A g \in D \cup {e} : g <= h \/ TopOf(r, h, end) <= g
                      /\ r[h].next # NULL => r[r[h].next].prev = h
    BY <1>8 DEF Forward
  <2>1. CASE h = e
    BY <1>4, <1>5, <1>9, <1>10, <2>1 DEF e
  <2>2. CASE h = l
    BY <1>1, <1>5, <1>9, <1>11, <2>2
  <2>3. CASE h \in D \ {l}
    BY <1>1, <1>5, <1>9, <1>11, <2>3
  <2> QED BY <2>1, <2>2, <2>3
<1>15. Backward(r)
  <2> SUFFICES ASSUME NEW h \in (D \cup {e}) \ {HeapStart}
               PROVE  r[h].prev \in D \cup {e} /\ r[r[h].prev].next = h
    BY <1>8 DEF Backward
  <2>1. CASE h = e
    BY <1>1, <1>9, <2>1
  <2>2. CASE h \in D
    <3>1. header[h].prev \in D /\ header[header[h].prev].next = h
      BY <1>3, <2>2 DEF Sound, Backward
    <3>2. header[h].prev # l
      BY <1>1, <1>6, <2>2, <3>1
    <3> QED BY <1>9, <2>2, <3>1, <3>2
  <2> QED BY <2>1, <2>2
<1>16. Coalesced(r)
  <2> SUFFICES ASSUME NEW h \in D \cup {e}, r[h].status = FREE, r[h].next # NULL
               PROVE  r[r[h].next].status = USED
    BY <1>8 DEF Coalesced
  <2>1. h # e /\ h # l
    BY <1>1, <1>9 DEF FREE, USED, l
  <2>2. header[h].status = FREE /\ header[h].next # NULL /\ r[h].next = header[h].next
    BY <1>9, <2>1
  <2>3. header[header[h].next].status = USED
    BY <1>3, <2>1, <2>2 DEF Sound, Coalesced
  <2> QED BY <1>5, <1>9, <2>1, <2>2, <2>3
<1>17. Sound(r, end)
  BY <1>12, <1>13, <1>14, <1>15, <1>16 DEF Sound
<1> QED BY <1>6, <1>8, <1>9, <1>10, <1>11, <1>17 DEF r, e, D

\* The list that free leaves behind when h's block is given back.
FreedList(h) ==
  [g \in Headers \ Absorbed(h) |->
     CASE g = Base(h)   -> [header[g] EXCEPT !.status = FREE, !.next = Behind(h)]
       [] g = Behind(h) -> [header[g] EXCEPT !.prev = Base(h)]
       [] OTHER         -> header[g]]

\* The merged block: where it starts and ends, and what it swallows.
LEMMA MergedBlock ==
  ASSUME Sound(header, heapEnd), NEW h \in Headers, header[h].status = USED
  PROVE  LET b   == Base(h)
             t   == Behind(h)
             A   == Absorbed(h)
             top == IF t = NULL THEN heapEnd ELSE t
         IN  /\ b \in Headers /\ t \in Headers \cup {NULL}
             /\ b \in Nat /\ top \in Nat /\ top <= heapEnd
             /\ top >= b + HeaderSize + MinBlock
             /\ t # NULL => header[t].status = USED
             /\ A \subseteq Headers /\ b \notin A /\ t \notin A
             /\ \A g \in Headers \ A : g <= b \/ top <= g
             /\ \A g \in A : b < g /\ g < top
             /\ \A g \in A : g = h \/ header[g].status = FREE
             /\ h \in A \/ h = b
             /\ b # h => b = header[h].prev /\ header[b].status = FREE
             /\ header[h].prev # NULL /\ header[header[h].prev].status = FREE => b # h
<1> DEFINE p   == header[h].prev
           n   == header[h].next
           b   == Base(h)
           t   == Behind(h)
           A   == Absorbed(h)
           e   == heapEnd
           T(g) == TopOf(header, g, e)
           top == IF t = NULL THEN e ELSE t
           D   == Headers
<1>0. D = DOMAIN header
  BY DEF Headers
<1>1. \A g \in D : /\ g \in Nat /\ g # 0 /\ T(g) \in Nat /\ T(g) <= e
                   /\ T(g) >= g + HeaderSize + MinBlock
                   /\ \A f \in D : f <= g \/ T(g) <= f
                   /\ header[g].next \in D \cup {NULL}
                   /\ header[g].next # NULL => T(g) = header[g].next
                   /\ header[g].next = NULL => T(g) = e
                   /\ header[g].status \in {FREE, USED}
  BY <1>0, ListFacts
<1>2. p # NULL => p \in D /\ header[p].next = h
  <2>1. header[HeapStart].prev = NULL
    BY DEF Sound, Ends
  <2> QED BY <1>0, <2>1 DEF Sound, Backward
<1>3. p # NULL => p \in D /\ p \in Nat /\ p < h /\ T(p) = h
  <2> HIDE DEF p, D, T
  <2> SUFFICES ASSUME p # NULL PROVE p \in D /\ p \in Nat /\ p < h /\ T(p) = h
    OBVIOUS
  <2>1. p \in D /\ header[p].next = h /\ h \in D /\ h # NULL
    BY <1>1, <1>2 DEF D, NULL
  <2>2. T(p) = h /\ p \in Nat /\ h \in Nat /\ T(p) >= p + HeaderSize + MinBlock
    BY <1>1, <2>1
  <2> QED BY <2>1, <2>2, ConstantTypes
<1>4. n \in D \cup {NULL}
  BY <1>1
<1>5. n # NULL /\ header[n].status = FREE /\ header[n].next # NULL =>
        header[header[n].next].status = USED
  BY <1>0, <1>4 DEF Sound, Coalesced
<1>6. MergesNext(h) <=> n # NULL /\ header[n].status = FREE
  BY DEF MergesNext
<1>7. MergesPrevious(h) <=> p # NULL /\ header[p].status = FREE
  BY DEF MergesPrevious
<1>8. /\ A = (IF MergesPrevious(h) THEN {h} ELSE {}) \cup (IF MergesNext(h) THEN {n} ELSE {})
      /\ b = (IF MergesPrevious(h) THEN p ELSE h)
      /\ t = (IF MergesNext(h) THEN header[n].next ELSE n)
  BY DEF Absorbed, Base, Behind
<1>9. h \in D /\ e \in Nat /\ header[h].next = n
  BY DEF Sound, ListType
<1>10. top = (IF MergesNext(h) THEN T(n) ELSE T(h))
  <2> HIDE DEF p, n, b, t, A, e, T, D
  <2> QED BY <1>1, <1>4, <1>6, <1>8, <1>9
<1>11. n # NULL => n \in D /\ n \in Nat /\ T(h) = n
  <2> HIDE DEF p, n, b, t, A, e, T, D, top
  <2> QED BY <1>1, <1>4, <1>9
<1> DEFINE Goal ==
             /\ b \in D /\ t \in D \cup {NULL}
             /\ b \in Nat /\ top \in Nat /\ top <= e
             /\ top >= b + HeaderSize + MinBlock
             /\ t # NULL => header[t].status = USED
             /\ A \subseteq D /\ b \notin A /\ t \notin A
             /\ \A g \in D \ A : g <= b \/ top <= g
             /\ \A g \in A : b < g /\ g < top
             /\ \A g \in A : g = h \/ header[g].status = FREE
             /\ h \in A \/ h = b
             /\ b # h => b = p /\ header[b].status = FREE
             /\ p # NULL /\ header[p].status = FREE => b # h
<1>12. Goal
  <2> HIDE DEF p, n, b, t, A, e, T, D, top
  <2>0. header[h].status = USED /\ FREE # USED
    BY DEF FREE, USED
  <2>1. CASE MergesPrevious(h) /\ MergesNext(h)
    <3>1. /\ b = p /\ t = header[n].next /\ A = {h, n} /\ top = T(n)
          /\ p # NULL /\ header[p].status = FREE /\ n # NULL /\ header[n].status = FREE
      BY <1>6, <1>7, <1>8, <1>10, <2>1
    <3>2. b \in D /\ t \in D \cup {NULL} /\ b \in Nat /\ top \in Nat /\ top <= e
          /\ A \subseteq D
      BY <1>1, <1>3, <1>9, <1>11, <3>1
    <3>3. p < h /\ h < n /\ n < T(n) /\ T(n) >= n + HeaderSize + MinBlock /\ h \in Nat
      BY <1>1, <1>3, <1>9, <1>11, <3>1, ConstantTypes
    <3>4. top >= b + HeaderSize + MinBlock
      BY <1>1, <1>3, <1>11, <3>1, <3>3, ConstantTypes
    <3>5. t # NULL => header[t].status = USED /\ t = T(n)
      BY <1>1, <1>5, <1>11, <3>1
    <3>6. b \notin A /\ t \notin A
      BY <1>1, <1>3, <1>9, <1>11, <3>1, <3>3, <3>5 DEF NULL
    <3>7. \A g \in D \ A : g <= b \/ top <= g
      BY <1>1, <1>3, <1>9, <1>11, <3>1, <3>3
    <3>8. \A g \in A : b < g /\ g < top
      BY <1>1, <1>3, <1>9, <1>11, <3>1, <3>3
    <3> QED BY <3>1, <3>2, <3>3, <3>4, <3>5, <3>6, <3>7, <3>8, <1>3
  <2>2. CASE MergesPrevious(h) /\ ~MergesNext(h)
    <3>1. /\ b = p /\ t = n /\ A = {h} /\ top = T(h)
          /\ p # NULL /\ header[p].status = FREE
          /\ n # NULL => header[n].status = USED
      BY <1>1, <1>6, <1>7, <1>8, <1>10, <1>11, <2>2
    <3>2. b \in D /\ t \in D \cup {NULL} /\ b \in Nat /\ top \in Nat /\ top <= e
          /\ A \subseteq D
      BY <1>1, <1>3, <1>4, <1>9, <3>1
    <3>3. p < h /\ h < T(h) /\ T(h) >= h + HeaderSize + MinBlock /\ h \in Nat
      BY <1>1, <1>3, <1>9, <3>1, ConstantTypes
    <3>4. top >= b + HeaderSize + MinBlock
      BY <1>1, <1>3, <1>9, <3>1, <3>3, ConstantTypes
    <3>6. b \notin A /\ t \notin A
      BY <1>1, <1>3, <1>9, <1>11, <3>1, <3>3 DEF NULL
    <3>7. \A g \in D \ A : g <= b \/ top <= g
      BY <1>1, <1>3, <1>9, <3>1, <3>3
    <3>8. \A g \in A : b < g /\ g < top
      BY <1>1, <1>3, <1>9, <3>1, <3>3
    <3> QED BY <3>1, <3>2, <3>3, <3>4, <3>6, <3>7, <3>8, <1>3
  <2>3. CASE ~MergesPrevious(h) /\ MergesNext(h)
    <3>1. /\ b = h /\ t = header[n].next /\ A = {n} /\ top = T(n)
          /\ ~(p # NULL /\ header[p].status = FREE) /\ n # NULL /\ header[n].status = FREE
      BY <1>6, <1>7, <1>8, <1>10, <2>3
    <3>2. b \in D /\ t \in D \cup {NULL} /\ b \in Nat /\ top \in Nat /\ top <= e
          /\ A \subseteq D
      BY <1>1, <1>9, <1>11, <3>1
    <3>3. h < n /\ n < T(n) /\ T(n) >= n + HeaderSize + MinBlock /\ h \in Nat
      BY <1>1, <1>9, <1>11, <3>1, ConstantTypes
    <3>4. top >= b + HeaderSize + MinBlock
      BY <1>1, <1>11, <3>1, <3>3, ConstantTypes
    <3>5. t # NULL => header[t].status = USED /\ t = T(n)
      BY <1>1, <1>5, <1>11, <3>1
    <3>6. b \notin A /\ t \notin A
      BY <1>1, <1>9, <1>11, <3>1, <3>3, <3>5 DEF NULL
    <3>7. \A g \in D \ A : g <= b \/ top <= g
      BY <1>1, <1>9, <1>11, <3>1, <3>3
    <3>8. \A g \in A : b < g /\ g < top
      BY <1>1, <1>9, <1>11, <3>1, <3>3
    <3> QED BY <3>1, <3>2, <3>3, <3>4, <3>5, <3>6, <3>7, <3>8
  <2>4. CASE ~MergesPrevious(h) /\ ~MergesNext(h)
    <3>1. /\ b = h /\ t = n /\ A = {} /\ top = T(h)
          /\ ~(p # NULL /\ header[p].status = FREE)
          /\ n # NULL => header[n].status = USED
      BY <1>1, <1>6, <1>7, <1>8, <1>10, <1>11, <2>4
    <3>2. b \in D /\ t \in D \cup {NULL} /\ b \in Nat /\ top \in Nat /\ top <= e
      BY <1>1, <1>4, <1>9, <3>1
    <3>3. top >= b + HeaderSize + MinBlock
      BY <1>1, <1>9, <3>1
    <3>4. \A g \in D \ A : g <= b \/ top <= g
      BY <1>1, <1>9, <3>1
    <3> QED BY <3>1, <3>2, <3>3, <3>4
  <2> QED BY <2>1, <2>2, <2>3, <2>4
<1> QED BY <1>12, Zenon

\* Giving the block of h back keeps the list sound; no other used header
\* changes status or extent, and no header becomes used.
LEMMA FreedIsSound ==
  ASSUME Sound(header, heapEnd), NEW h \in Headers, header[h].status = USED
  PROVE  LET r == FreedList(h)
         IN  /\ Sound(r, heapEnd)
             /\ DOMAIN r \subseteq Headers
             /\ \A g \in Headers \ {h} : header[g].status = USED =>
                  /\ g \in DOMAIN r /\ r[g].status = USED
                  /\ TopOf(r, g, heapEnd) = TopOf(header, g, heapEnd)
             /\ \A g \in DOMAIN r : r[g].status = USED => g # h /\ header[g].status = USED
<1> DEFINE r   == FreedList(h)
           b   == Base(h)
           t   == Behind(h)
           A   == Absorbed(h)
           e   == heapEnd
           top == IF t = NULL THEN e ELSE t
           D   == Headers
           K   == D \ A
<1>1. /\ b \in D /\ t \in D \cup {NULL}
      /\ b \in Nat /\ top \in Nat /\ top <= e
      /\ top >= b + HeaderSize + MinBlock
      /\ t # NULL => header[t].status = USED
      /\ A \subseteq D /\ b \notin A /\ t \notin A
      /\ \A g \in K : g <= b \/ top <= g
      /\ \A g \in A : b < g /\ g < top
      /\ \A g \in A : g = h \/ header[g].status = FREE
      /\ h \in A \/ h = b
      /\ b # h => b = header[h].prev /\ header[b].status = FREE
      /\ header[h].prev # NULL /\ header[header[h].prev].status = FREE => b # h
  BY MergedBlock, Zenon
<1>2. D = DOMAIN header
  BY DEF Headers
<1>3. \A g \in D : /\ g \in Nat /\ g # NULL /\ HeapStart <= g
                   /\ TopOf(header, g, e) \in Nat /\ TopOf(header, g, e) <= e
                   /\ TopOf(header, g, e) >= g + HeaderSize + MinBlock
                   /\ \A f \in D : f <= g \/ TopOf(header, g, e) <= f
                   /\ header[g].next # NULL =>
                        /\ header[g].next \in D /\ TopOf(header, g, e) = header[g].next
                        /\ header[header[g].next].prev = g
  BY <1>2, ListFacts DEF NULL
<1>4. \A g \in D : header[g] \in Record(D)
  BY <1>2 DEF Sound, ListType
<1>5. r = [g \in K |->
            CASE g = b -> [header[g] EXCEPT !.status = FREE, !.next = t]
              [] g = t -> [header[g] EXCEPT !.prev = b]
              [] OTHER -> header[g]]
  BY DEF FreedList
<1>6. e \in Nat /\ D \subseteq HeapStart .. e
  BY <1>2 DEF Sound, ListType
<1>7. t # NULL => t = top
  OBVIOUS
<1>8. t = NULL => top = e
  OBVIOUS
<1> HIDE DEF r, b, t, A, e, top, D
<1>9. b \in K /\ (t # NULL => t \in K) /\ b < top /\ b # t
  <2>1. b < top
    BY <1>1, ConstantTypes
  <2> QED BY <1>1, <1>3, <1>7, <2>1
<1>10. /\ DOMAIN r = K /\ r = [g \in K |-> r[g]]
       /\ r[b] = [header[b] EXCEPT !.status = FREE, !.next = t]
       /\ t # NULL => r[t] = [header[t] EXCEPT !.prev = b]
       /\ \A g \in K \ {b, t} : r[g] = header[g]
  BY <1>5, <1>9
<1>11. /\ r[b].status = FREE /\ r[b].prev = header[b].prev /\ r[b].next = t
       /\ t # NULL => r[t].prev = b
       /\ \A g \in K \ {b} : r[g].status = header[g].status /\ r[g].next = header[g].next
       /\ \A g \in K \ {t} : r[g].prev = header[g].prev
  <2>1. r[b].status = FREE /\ r[b].prev = header[b].prev /\ r[b].next = t
    BY <1>1, <1>4, <1>10 DEF Record
  <2>2. t # NULL => /\ r[t].prev = b /\ r[t].status = header[t].status
                    /\ r[t].next = header[t].next
    BY <1>1, <1>4, <1>10 DEF Record
  <2>3. \A g \in K : g # NULL
    BY <1>3
  <2> QED BY <1>10, <2>1, <2>2, <2>3
<1>12. TopOf(r, b, e) = top /\ \A g \in K \ {b} : TopOf(r, g, e) = TopOf(header, g, e)
  BY <1>7, <1>8, <1>11 DEF TopOf
(* next of another header that stays leads to a header that stays, not to t. *)
<1>13. ASSUME NEW g \in K \ {b}, header[g].next # NULL
       PROVE  header[g].next \in K /\ header[g].next # t
  <2> DEFINE n == header[g].next
  <2>1. /\ g \in Nat /\ n \in D /\ n \in Nat /\ n > g
        /\ \A f \in D : f <= g \/ n <= f
    <3>1. /\ g \in D /\ g \in Nat /\ n \in D /\ TopOf(header, g, e) = n
          /\ n >= g + HeaderSize + MinBlock
          /\ \A f \in D : f <= g \/ n <= f
      BY <1>3, <1>13
    <3>2. n \in Nat
      BY <1>3, <3>1
    <3> HIDE DEF n
    <3> QED BY <3>1, <3>2, ConstantTypes
  <2> HIDE DEF n
  <2>2. CASE g <= b
    <3>1. n <= b
      BY <1>1, <2>1, <2>2
    <3> QED BY <1>1, <1>7, <1>9, <1>13, <2>1, <3>1 DEF n
  <2>3. CASE top <= g
    BY <1>1, <1>7, <1>9, <1>13, <2>1, <2>3 DEF n
  <2> QED BY <1>1, <2>2, <2>3
(* prev of a header that stays, but t, is another header that stays. *)
<1>14. ASSUME NEW g \in K \ {HeapStart}, g # t
       PROVE  /\ header[g].prev \in K \ {b}
              /\ header[header[g].prev].next = g
  <2> DEFINE q == header[g].prev
  <2>1. q \in D /\ header[q].next = g
    BY <1>2 DEF Sound, Backward
  <2> HIDE DEF q
  <2>2. g \in D /\ g \in Nat /\ g # NULL /\ q \in Nat /\ g < e + 1
    BY <1>3, <1>6, <2>1
  <2>3. TopOf(header, q, e) = g /\ q < g /\ \A f \in D : f <= q \/ g <= f
    BY <1>3, <2>1, <2>2, ConstantTypes
  <2>4. g + HeaderSize + MinBlock <= e
    <3>1. /\ TopOf(header, g, e) \in Nat /\ TopOf(header, g, e) <= e
          /\ TopOf(header, g, e) >= g + HeaderSize + MinBlock
      BY <1>3, <2>2
    <3> QED BY <1>6, <2>2, <3>1, ConstantTypes
  <2>5. ~(b <= q /\ q < top)
    <3> SUFFICES ASSUME b <= q, q < top PROVE FALSE
      OBVIOUS
    <3>1. top <= g
      BY <1>1, <2>2, <2>3
    <3>2. CASE t = NULL
      BY <1>6, <1>8, <2>2, <2>4, <3>1, <3>2, ConstantTypes
    <3>3. CASE t # NULL
      <4>1. t \in D /\ t = top
        BY <1>1, <1>7, <3>3
      <4>2. g <= t
        BY <1>1, <2>2, <2>3, <4>1
      <4> QED BY <1>1, <1>14, <2>2, <3>1, <4>1, <4>2
    <3> QED BY <3>2, <3>3
  <2>6. q # b /\ q \notin A
    BY <1>1, <1>9, <2>2, <2>5
  <2> QED BY <2>1, <2>6 DEF q
<1>15. HeapStart \in K /\ HeapStart # t /\ header[HeapStart].prev = NULL
  <2>1. HeapStart \in D /\ header[HeapStart].prev = NULL
    BY <1>2 DEF Sound, Ends
  <2>2. HeapStart <= b /\ HeapStart \in Nat /\ HeapStart # NULL
    BY <1>1, <1>3, ConstantTypes DEF NULL
  <2> QED BY <1>1, <1>7, <1>9, <2>1, <2>2
<1>16. ListType(r, e)
  <2>1. \A g \in K : r[g] \in Record(K)
    <3> SUFFICES ASSUME NEW g \in K PROVE r[g] \in Record(K)
      OBVIOUS
    <3>1. g # t => header[g].prev \in K \cup {NULL}
      BY <1>14, <1>15
    <3>2. g # b => header[g].next \in K \cup {NULL}
      BY <1>13
    <3>3. t \in K \cup {NULL} /\ b \in K
      BY <1>9
    <3>4. header[g] \in Record(D)
      BY <1>4
    <3>5. CASE g = b
      BY <1>9, <1>10, <3>1, <3>3, <3>4, <3>5 DEF Record
    <3>6. CASE g = t
      <4>1. t # NULL
        BY <1>3, <3>6
      <4> QED BY <1>9, <1>10, <3>2, <3>3, <3>4, <3>6, <4>1 DEF Record
    <3>7. CASE g # b /\ g # t
      BY <1>10, <3>1, <3>2, <3>4, <3>7 DEF Record
    <3> QED BY <3>5, <3>6, <3>7
  <2>2. r \in [K -> Record(K)]
    BY <1>10, <2>1
  <2> QED BY <1>6, <1>10, <2>2 DEF ListType
<1>17. Ends(r)
  <2>1. r[HeapStart].prev = NULL
    BY <1>11, <1>15
  <2>2. PICK g \in D : header[g].next = NULL
    BY <1>2 DEF Sound, Ends
  <2>3. \E f \in K : r[f].next = NULL
    <3>1. CASE g \in K \ {b}
      BY <1>11, <2>2, <3>1
    <3>2. CASE g \in A \/ g = b
      <4>1. TopOf(header, g, e) = e
        BY <2>2 DEF TopOf
      <4>2. \A f \in D : f <= g
        BY <1>2, <2>2, LastIsHighest
      <4>3. t = NULL
        BY <1>1, <1>3, <1>7, <1>9, <3>2, <4>2
      <4> QED BY <1>9, <1>11, <4>3
    <3> QED BY <3>1, <3>2
  <2> QED BY <1>10, <1>15, <2>1, <2>3 DEF Ends
<1>18. Forward(r, e)
  <2> SUFFICES ASSUME NEW g \in K
               PROVE  /\ TopOf(r, g, e) >= g + HeaderSize + MinBlock
                      /\ \A f \in K : f <= g \/ TopOf(r, g, e) <= f
                      /\ r[g].next # NULL => r[r[g].next].prev = g
    BY <1>10 DEF Forward
  <2>1. CASE g = b
    BY <1>1, <1>11, <1>12, <2>1
  <2>2. CASE g # b
    <3>1. TopOf(r, g, e) >= g + HeaderSize + MinBlock
      BY <1>3, <1>12, <2>2
    <3>2. \A f \in K : f <= g \/ TopOf(r, g, e) <= f
      BY <1>3, <1>12, <2>2
    <3>3. r[g].next # NULL => r[r[g].next].prev = g
      BY <1>3, <1>11, <1>13, <2>2
    <3> QED BY <3>1, <3>2, <3>3
  <2> QED BY <2>1, <2>2
<1>19. Backward(r)
  <2> SUFFICES ASSUME NEW g \in K \ {HeapStart}
               PROVE  r[g].prev \in K /\ r[r[g].prev].next = g
    BY <1>10 DEF Backward
  <2>1. CASE g = t
    <3>1. t # NULL
      BY <1>3, <2>1
    <3> QED BY <1>9, <1>11, <2>1, <3>1
  <2>2. CASE g # t
    BY <1>11, <1>14, <2>2
  <2> QED BY <2>1, <2>2
<1>20. FREE # USED
  BY DEF FREE, USED
<1>21. ASSUME NEW g \in D \ {h}, header[g].status = USED
       PROVE  /\ g \in K /\ r[g].status = USED
              /\ TopOf(r, g, e) = TopOf(header, g, e)
  <2>1. g \notin A /\ g # b
    BY <1>1, <1>20, <1>21
  <2> QED BY <1>11, <1>12, <1>21, <2>1
<1>22. ASSUME NEW g \in K, r[g].status = USED
       PROVE  g # h /\ header[g].status = USED
  BY <1>1, <1>11, <1>20, <1>22
<1>23. Coalesced(r)
  <2> SUFFICES ASSUME NEW g \in K, r[g].status = FREE, r[g].next # NULL
               PROVE  r[r[g].next].status = USED
    BY <1>10 DEF Coalesced
  <2>1. CASE g = b
    BY <1>1, <1>9, <1>11, <2>1
  <2>2. CASE g # b
    <3>1. header[g].status = FREE /\ header[g].next # NULL /\ r[g].next = header[g].next
      BY <1>11, <2>2
    <3>2. header[header[g].next].status = USED
      BY <1>2, <3>1 DEF Sound, Coalesced
    <3>3. header[g].next \in D /\ header[header[g].next].prev = g /\ g # NULL
      BY <1>3, <3>1
    <3>4. header[g].next # h
      BY <1>1, <2>2, <3>1, <3>3
    <3> QED BY <1>21, <3>1, <3>2, <3>3, <3>4
  <2> QED BY <2>1, <2>2
<1>24. Sound(r, e)
  BY <1>16, <1>17, <1>18, <1>19, <1>23 DEF Sound
<1>25. DOMAIN r \subseteq D
  BY <1>10
<1> QED BY <1>10, <1>21, <1>22, <1>24, <1>25 DEF r, e, D

-----------------------------------------------------------------------------
(* Sizes.                                                                  *)

LEMMA RoundUpFacts ==
  ASSUME NEW x \in Nat, NEW unit \in Nat \ {0}, x + unit < Modulus
  PROVE  /\ RoundUp(x, unit) \in Nat
         /\ RoundUp(x, unit) >= x /\ RoundUp(x, unit) <= x + unit
         /\ RoundUp(x, unit) % unit = 0
<1>1. CASE x % unit = 0
  BY <1>1 DEF RoundUp
<1>2. CASE x % unit # 0
  <2> DEFINE y == x + unit
             q == y \div unit
             s == y % unit
             z == y - s
  <2>1. y \in Nat /\ y % Modulus = y
    <3>1. y \in 0 .. Modulus - 1 /\ Modulus \in Nat \ {0}
      BY ConstantTypes
    <3> HIDE DEF y
    <3> QED BY <3>1, ModSmall
  <2>2. q \in Int /\ s \in 0 .. unit - 1 /\ y = unit * q + s
    BY <2>1, Division
  <2>3. RoundUp(x, unit) = z
    BY <1>2, <2>1 DEF RoundUp
  <2>4. z = unit * q /\ z \in Int
    <3> HIDE DEF y, q, s
    <3>1. unit * q \in Int
      BY <2>2, SMTT(30)
    <3> QED BY <2>1, <2>2, <3>1
  <2>5. z > x /\ z <= x + unit
    <3> HIDE DEF q, s
    <3> QED BY <2>2
  <2> HIDE DEF y, q, s, z
  <2>6. z % unit = 0
    BY <2>2, <2>4, ModMultiple
  <2> QED BY <2>3, <2>4, <2>5, <2>6
<1> QED BY <1>1, <1>2

LEMMA SizedFacts ==
  ASSUME RequestsFit, NEW bytes \in Requests
  PROVE  /\ bytes \in Nat
         /\ Sized(bytes) \in Nat
         /\ Sized(bytes) >= bytes /\ Sized(bytes) >= MinBlock
         /\ Sized(bytes) + HeaderSize + PageSize < Modulus
<1> DEFINE x == IF bytes < MinBlock THEN MinBlock ELSE bytes
<1>1. bytes \in Nat
  BY MallocAssumption
<1>2. /\ x \in Nat /\ x >= bytes /\ x >= MinBlock
      /\ x + DWord + HeaderSize + PageSize < Modulus
  BY <1>1, ConstantTypes DEF RequestsFit
<1> HIDE DEF x
<1>3. x + DWord < Modulus
  BY <1>2, ConstantTypes
<1>4. /\ RoundUp(x, DWord) \in Nat
      /\ RoundUp(x, DWord) >= x /\ RoundUp(x, DWord) <= x + DWord
  BY <1>2, <1>3, ConstantTypes, RoundUpFacts
<1>5. Sized(bytes) = RoundUp(x, DWord)
  BY DEF Sized, x
<1> QED BY <1>1, <1>2, <1>4, <1>5, ConstantTypes

LEMMA ExpandFacts ==
  ASSUME NEW n \in Nat, n + HeaderSize + PageSize < Modulus
  PROVE  /\ Expand(n) \in Nat
         /\ Expand(n) >= n + HeaderSize
         /\ Expand(n) \div PageSize \in Nat \ {0}
         /\ Expand(n) = PageSize * (Expand(n) \div PageSize)
<1> DEFINE x == n + HeaderSize
<1>1. x \in Nat \ {0} /\ x + PageSize < Modulus
  BY ConstantTypes
<1>2. x % Modulus = x
  <2>1. Modulus \in Nat \ {0} /\ x \in 0 .. Modulus - 1
    BY <1>1, ConstantTypes
  <2> HIDE DEF x
  <2> QED BY <2>1, ModSmall
<1>3. Expand(n) = RoundUp(x, PageSize)
  BY <1>2 DEF Expand
<1> HIDE DEF x
<1> DEFINE y == Expand(n)
<1>4. y \in Nat /\ y >= x /\ y % PageSize = 0
  BY <1>1, <1>3, ConstantTypes, RoundUpFacts
<1> HIDE DEF y
<1>5. y \div PageSize \in Int /\ y = PageSize * (y \div PageSize) + (y % PageSize)
  BY <1>4, ConstantTypes, Division
<1>6. y = PageSize * (y \div PageSize)
  <2> DEFINE z == PageSize * (y \div PageSize)
  <2>1. z \in Int
    BY <1>5, ConstantTypes, ModMultiple
  <2>2. y = z + (y % PageSize)
    BY <1>5
  <2> HIDE DEF z
  <2>3. y = z
    BY <1>4, <2>1, <2>2
  <2> QED BY <2>3 DEF z
<1>7. y \div PageSize \in Nat \ {0}
  <2> DEFINE k == y \div PageSize
  <2>1. k \in Int /\ y = PageSize * k /\ y > 0 /\ PageSize \in Nat \ {0}
    BY <1>1, <1>4, <1>5, <1>6, ConstantTypes
  <2> HIDE DEF k
  <2>2. CASE k <= 0
    <3>1. PageSize * k <= 0
      BY <2>1, <2>2, SMTT(30)
    <3> QED BY <2>1, <3>1, <1>4
  <2>3. CASE k > 0
    BY <2>1, <2>3 DEF k
  <2> QED BY <2>1, <2>2, <2>3
<1> QED BY <1>4, <1>6, <1>7 DEF x, y

\* The pages of an address, and of the one behind so many pages.
LEMMA PageFacts ==
  ASSUME NEW a \in Nat
  PROVE  /\ Page(a) \in Nat
         /\ PageSize * Page(a) <= a
         /\ a < PageSize * Page(a) + PageSize
<1> DEFINE q == a \div PageSize
           r == a % PageSize
<1>1. q \in Int /\ r \in 0 .. PageSize - 1 /\ a = PageSize * q + r
  BY ConstantTypes, Division
<1> HIDE DEF q, r
<1>2. PageSize \in Nat \ {0}
  BY ConstantTypes
<1>3. q >= 0
  <2>1. CASE q <= -1
    <3>1. PageSize * q <= -PageSize
      BY <1>1, <1>2, <2>1, SMTT(30)
    <3>2. PageSize * q \in Int
      BY <1>1, <1>2, SMTT(30)
    <3> QED BY <1>1, <1>2, <3>1, <3>2
  <2> QED BY <1>1, <2>1
<1>4. PageSize * q \in Int
  BY <1>1, <1>2, SMTT(30)
<1>5. PageSize * q <= a /\ a < PageSize * q + PageSize
  BY <1>1, <1>2, <1>4
<1> QED BY <1>1, <1>3, <1>5 DEF q, Page

-----------------------------------------------------------------------------
(* Who owns which block.                                                   *)

Handed(own, a, n) == [b \in DOMAIN own \cup {a} |-> IF b = a THEN n ELSE own[b]]

\* What an owned block is.
LEMMA BlockFacts ==
  ASSUME NEW list, NEW end, NEW own, Sound(list, end), Owned(list, own, end),
         NEW a \in DOMAIN own
  PROVE  /\ a \in Nat /\ own[a] \in Nat /\ own[a] >= MinBlock
         /\ a - HeaderSize \in DOMAIN list /\ a - HeaderSize \in Nat
         /\ HeapStart <= a - HeaderSize
         /\ list[a - HeaderSize].status = USED
         /\ TopOf(list, a - HeaderSize, end) \in Nat
         /\ TopOf(list, a - HeaderSize, end) <= end /\ end \in Nat
         /\ a + own[a] <= TopOf(list, a - HeaderSize, end)
<1>1. /\ a \in Nat /\ own[a] \in Nat /\ own[a] >= MinBlock
      /\ a - HeaderSize \in DOMAIN list
      /\ list[a - HeaderSize].status = USED
      /\ a + own[a] <= TopOf(list, a - HeaderSize, end)
  BY DEF Owned
<1> QED BY <1>1, ListFacts

\* An owned block lies behind its header and before the next one.
LEMMA BlockAndHeader ==
  ASSUME NEW list, NEW end, NEW own, Sound(list, end), Owned(list, own, end),
         NEW a \in DOMAIN own, NEW g \in DOMAIN list
  PROVE  g + HeaderSize <= a \/ a + own[a] <= g
<1> DEFINE h == a - HeaderSize
<1>1. /\ a \in Nat /\ own[a] \in Nat /\ h \in DOMAIN list /\ h \in Nat
      /\ TopOf(list, h, end) \in Nat
      /\ a + own[a] <= TopOf(list, h, end)
  BY BlockFacts
<1> HIDE DEF h
<1>2. \A f \in DOMAIN list : f <= h \/ TopOf(list, h, end) <= f
  BY <1>1, ListFacts
<1>3. g \in Nat
  BY ListFacts
<1> QED BY <1>1, <1>2, <1>3, ConstantTypes DEF h

\* Two owned blocks share no byte.
LEMMA BlocksApart ==
  ASSUME NEW list, NEW end, NEW own, Sound(list, end), Owned(list, own, end),
         NEW a \in DOMAIN own, NEW b \in DOMAIN own, a # b
  PROVE  a + own[a] <= b \/ b + own[b] <= a
<1>1. ASSUME NEW x \in DOMAIN own, NEW y \in DOMAIN own, x < y
      PROVE  x + own[x] <= y
  <2>1. /\ x \in Nat /\ own[x] \in Nat /\ y \in Nat
        /\ y - HeaderSize \in DOMAIN list /\ y - HeaderSize \in Nat
    BY BlockFacts
  <2>2. y <= x \/ x + own[x] <= y - HeaderSize
    <3>1. y - HeaderSize + HeaderSize <= x \/ x + own[x] <= y - HeaderSize
      BY <2>1, BlockAndHeader
    <3> QED BY <2>1, <3>1, ConstantTypes
  <2> QED BY <1>1, <2>1, <2>2, ConstantTypes
<1>2. a \in Nat /\ b \in Nat
  BY BlockFacts
<1>3. a < b \/ b < a
  BY <1>2
<1> QED BY <1>1, <1>3

\* The program gets n bytes of a free block: the list stays sound and owned.
LEMMA HandedOut ==
  ASSUME NEW list, NEW end, NEW own, Sound(list, end), Owned(list, own, end),
         NEW h \in DOMAIN list, list[h].status = FREE,
         NEW n \in Nat, n >= MinBlock,
         TopOf(list, h, end) >= h + HeaderSize + n
  PROVE  /\ Sound(Taken(list, h, n, end), end)
         /\ Owned(Taken(list, h, n, end), Handed(own, h + HeaderSize, n), end)
         /\ h + HeaderSize \notin DOMAIN own
<1> DEFINE r == Taken(list, h, n, end)
           a == h + HeaderSize
           o == Handed(own, a, n)
<1>1. /\ Sound(r, end)
      /\ DOMAIN list \subseteq DOMAIN r
      /\ r[h].status = USED
      /\ TopOf(r, h, end) >= h + HeaderSize + n
      /\ \A g \in DOMAIN list \ {h} : /\ r[g].status = list[g].status
                                      /\ TopOf(r, g, end) = TopOf(list, g, end)
      /\ \A g \in DOMAIN r \ DOMAIN list : r[g].status = FREE
  <2>1. Serves(list, h, n, end, r)
    BY TakenIsSound
  <2> QED BY <2>1 DEF Serves
<1>2. h \in Nat /\ a \in Nat /\ a - HeaderSize = h
  BY ListFacts, ConstantTypes
<1>3. FREE # USED
  BY DEF FREE, USED
<1>4. \A b \in DOMAIN own : /\ b \in Nat /\ own[b] \in Nat /\ own[b] >= MinBlock
                            /\ b - HeaderSize \in DOMAIN list
                            /\ list[b - HeaderSize].status = USED
                            /\ b + own[b] <= TopOf(list, b - HeaderSize, end)
  BY BlockFacts
<1>5. a \notin DOMAIN own
  BY <1>2, <1>3, <1>4
<1> HIDE DEF r, a
<1>6. DOMAIN o = DOMAIN own \cup {a} /\ o[a] = n /\ \A b \in DOMAIN own : o[b] = own[b]
  BY <1>5 DEF Handed
<1> HIDE DEF o
<1>7. ASSUME NEW b \in DOMAIN o
      PROVE  /\ b \in Nat /\ o[b] \in Nat
             /\ b - HeaderSize \in DOMAIN r
             /\ r[b - HeaderSize].status = USED
             /\ o[b] >= MinBlock
             /\ b + o[b] <= TopOf(r, b - HeaderSize, end)
  <2>1. CASE b = a
    <3>1. a + n <= TopOf(r, h, end)
      BY <1>1 DEF a
    <3> QED BY <1>1, <1>2, <1>6, <2>1, <3>1
  <2>2. CASE b # a
    <3>1. b \in DOMAIN own
      BY <1>6, <2>2
    <3>2. b - HeaderSize # h
      BY <1>3, <1>4, <3>1
    <3> QED BY <1>1, <1>4, <1>6, <3>1, <3>2
  <2> QED BY <2>1, <2>2
<1>8. ASSUME NEW g \in DOMAIN r, r[g].status = USED
      PROVE  g + HeaderSize \in DOMAIN o
  <2>1. CASE g = h
    BY <1>6, <2>1 DEF a
  <2>2. CASE g # h
    <3>1. g \in DOMAIN list /\ list[g].status = USED
      BY <1>1, <1>3, <1>8, <2>2
    <3> QED BY <1>6, <3>1 DEF Owned
  <2> QED BY <2>1, <2>2
<1>9. Owned(r, o, end)
  BY <1>7, <1>8 DEF Owned
<1> QED BY <1>1, <1>5, <1>9 DEF r, o, a

\* The blocks of a heap that grows stay its own.
LEMMA GrownIsOwned ==
  ASSUME NEW list, NEW own, NEW old, Sound(list, old), Owned(list, own, old),
         NEW end \in Nat, old <= end
  PROVE  Owned(list, own, end)
<1>1. ASSUME NEW a \in DOMAIN own
      PROVE  a + own[a] <= TopOf(list, a - HeaderSize, end)
  <2>1. /\ a \in Nat /\ own[a] \in Nat
        /\ a - HeaderSize \in DOMAIN list
        /\ TopOf(list, a - HeaderSize, old) \in Nat
        /\ a + own[a] <= TopOf(list, a - HeaderSize, old)
    BY BlockFacts
  <2>2. TopOf(list, a - HeaderSize, old) <= TopOf(list, a - HeaderSize, end)
    BY <2>1, GrownIsSound
  <2>3. TopOf(list, a - HeaderSize, end) \in Nat
    BY <2>1, GrownIsSound, ListFacts
  <2> QED BY <2>1, <2>2, <2>3
<1> QED BY <1>1 DEF Owned

-----------------------------------------------------------------------------
(* The invariant.                                                          *)

LEMMA InitialHeap == Init => HeapIInv
<1> SUFFICES ASSUME Init PROVE HeapIInv
  OBVIOUS
<1> USE ConstantTypes DEF FREE, USED, NULL
<1>1. /\ DOMAIN header = {HeapStart}
      /\ header[HeapStart] = [status |-> FREE, prev |-> NULL, next |-> NULL]
      /\ header \in [{HeapStart} -> Record({HeapStart})]
      /\ heapEnd = HeapStart + PageSize /\ heapEnd \in Nat
  BY DEF Init, Record
<1>2. TopOf(header, HeapStart, heapEnd) = heapEnd
  BY <1>1 DEF TopOf
<1>3. Sound(header, heapEnd)
  BY <1>1, <1>2 DEF Sound, ListType, Ends, Forward, Backward, Coalesced
<1>4. Owned(header, live, heapEnd)
  <2>1. DOMAIN live = {}
    BY DEF Init
  <2> QED BY <1>1, <2>1 DEF Owned
<1>5. heapEnd \in 0 .. Modulus - 1
  BY <1>1
<1>6. mapped \subseteq Pages /\ faulted \in BOOLEAN
  BY PagesAssumption, Zenon DEF Init, Page
<1> QED BY <1>3, <1>4, <1>5, <1>6 DEF HeapIInv, StateType

\* Either the new list is written and the block handed out, or the program
\* faults with the list as it was, in a heap that may have grown.
LEMMA AnswerKeeps ==
  ASSUME HeapIInv,
         NEW list, NEW end \in 0 .. Modulus - 1, heapEnd <= end, heapEnd' = end,
         mapped' \subseteq Pages,
         Sound(list, end), Owned(list, live, end),
         NEW h \in DOMAIN list, list[h].status = FREE,
         NEW n \in Nat, n >= MinBlock,
         TopOf(list, h, end) >= h + HeaderSize + n,
         Answer(Taken(list, h, n, end), h, n)
  PROVE  /\ HeapIInv'
         /\ \/ UNCHANGED live
            \/ live' = Handed(live, h + HeaderSize, n) /\ h + HeaderSize \notin DOMAIN live
<1> DEFINE r == Taken(list, h, n, end)
           a == h + HeaderSize
<1>1. \/ /\ header' = r /\ live' = Handed(live, a, n) /\ faulted' = faulted
      \/ header' = header /\ live' = live /\ faulted' = TRUE
  BY Zenon DEF Answer, Handed
<1>2. Sound(r, end) /\ Owned(r, Handed(live, a, n), end) /\ a \notin DOMAIN live
  BY HandedOut
<1> HIDE DEF r
<1>3. faulted \in BOOLEAN /\ heapEnd \in 0 .. Modulus - 1
  BY DEF HeapIInv, StateType
<1>4. faulted' \in BOOLEAN
  BY <1>1, <1>3, Zenon
<1>5. StateType'
  BY <1>4, Zenon DEF StateType
<1>6. CASE /\ header' = r /\ live' = Handed(live, a, n)
  <2>1. Sound(header', heapEnd') /\ Owned(header', live', heapEnd')
    BY <1>2, <1>6
  <2> QED BY <1>2, <1>5, <1>6, <2>1 DEF HeapIInv
<1>7. CASE header' = header /\ live' = live
  <2>1. Sound(header, end) /\ Owned(header, live, end)
    <3>1. Sound(header, heapEnd) /\ Owned(header, live, heapEnd) /\ end \in Nat
      BY ConstantTypes DEF HeapIInv
    <3> QED BY <3>1, GrownIsSound, GrownIsOwned
  <2>2. Sound(header', heapEnd') /\ Owned(header', live', heapEnd')
    BY <1>7, <2>1
  <2> QED BY <1>5, <1>7, <2>2 DEF HeapIInv
<1> QED BY <1>1, <1>6, <1>7

LEMMA MallocKeeps ==
  ASSUME RequestsFit, HeapIInv, NEW bytes \in Requests, malloc(bytes)
  PROVE  /\ HeapIInv'
         /\ UNCHANGED <<heapEnd, mapped>>
         /\ \/ UNCHANGED live
            \/ \E h \in Nat, n \in Nat :
                 live' = Handed(live, h, n) /\ h \notin DOMAIN live
<1> DEFINE n == Sized(bytes)
           h == Min(Fitting(n))
<1>1. /\ bytes \in Nat /\ n \in Nat /\ n >= bytes /\ n >= MinBlock
  BY SizedFacts
<1>2. /\ Fitting(n) # {} /\ heapEnd' = heapEnd /\ mapped' = mapped
      /\ Answer(Taken(header, h, n, heapEnd), h, n)
  BY DEF malloc
<1> HIDE DEF n
<1>3. Sound(header, heapEnd) /\ Owned(header, live, heapEnd)
      /\ heapEnd \in 0 .. Modulus - 1 /\ mapped \subseteq Pages
  BY DEF HeapIInv, StateType
<1>4. /\ h \in DOMAIN header /\ header[h].status = FREE
      /\ TopOf(header, h, heapEnd) >= h + HeaderSize + n
  BY <1>1, <1>2, <1>3, FittingHeader
<1> HIDE DEF h
<1>5. heapEnd <= heapEnd /\ mapped' \subseteq Pages
  BY <1>2, <1>3, ConstantTypes
<1>6. /\ HeapIInv'
      /\ \/ UNCHANGED live
         \/ live' = Handed(live, h + HeaderSize, n) /\ h + HeaderSize \notin DOMAIN live
  BY <1>1, <1>2, <1>3, <1>4, <1>5, AnswerKeeps
<1>7. h + HeaderSize \in Nat
  BY <1>3, <1>4, ListFacts, ConstantTypes
<1> QED BY <1>1, <1>2, <1>6, <1>7

\* The heap does not grow out of the address space.
LEMMA EndFits ==
  ASSUME NEW e \in Nat, NEW k \in Nat \ {0}, PagesFrom(e, k) \subseteq Pages
  PROVE  e + PageSize * k \in 0 .. Modulus - 1
<1> DEFINE q == Page(e)
           p == q + k - 1
<1>1. q \in Nat /\ PageSize * q <= e /\ e < PageSize * q + PageSize
  BY PageFacts
<1> HIDE DEF q
<1>2. p \in Pages
  <2>1. p \in q .. q + k - 1
    BY <1>1
  <2> QED BY <2>1 DEF PagesFrom, q
<1>3. (p + 2) * PageSize <= Modulus
  BY <1>2, PagesAssumption
<1>4. PageSize \in Nat \ {0} /\ Modulus \in Nat
  BY ConstantTypes
<1>5. (p + 2) * PageSize = PageSize * q + PageSize * k + PageSize
  BY <1>1, <1>4, SMTT(30)
<1>6. PageSize * q \in Nat /\ PageSize * k \in Nat
  BY <1>1, <1>4, SMTT(30)
<1> HIDE DEF p
<1> QED BY <1>1, <1>3, <1>4, <1>5, <1>6

LEMMA GrowsKeeps ==
  ASSUME RequestsFit, HeapIInv, NEW bytes \in Requests, malloc_grows(bytes)
  PROVE  /\ HeapIInv'
         /\ \/ UNCHANGED live
            \/ \E h \in Nat, n \in Nat :
                 live' = Handed(live, h, n) /\ h \notin DOMAIN live
<1> DEFINE n   == Sized(bytes)
           x   == Expand(n)
           k   == x \div PageSize
           end == heapEnd + x
           l   == LastHeader
<1>1. /\ bytes \in Nat /\ n \in Nat /\ n >= bytes /\ n >= MinBlock
      /\ n + HeaderSize + PageSize < Modulus
  BY SizedFacts
<1>2. x \in Nat /\ x >= n + HeaderSize /\ k \in Nat \ {0} /\ x = PageSize * k
  BY <1>1, ExpandFacts
<1>3. /\ PagesFrom(heapEnd, k) \subseteq Pages
      /\ mapped' = mapped \cup PagesFrom(heapEnd, k)
      /\ heapEnd' = end
      /\ IF header[l].status = FREE
           THEN Answer(Taken(header, l, n, end), l, n)
           ELSE Answer(Taken(Appended, heapEnd, n, end), heapEnd, n)
  BY DEF malloc_grows
<1> HIDE DEF n, x, k, l
<1>4. /\ Sound(header, heapEnd) /\ Owned(header, live, heapEnd)
      /\ heapEnd \in Nat /\ mapped \subseteq Pages
  BY ConstantTypes DEF HeapIInv, StateType
<1>5. end \in 0 .. Modulus - 1 /\ heapEnd <= end /\ end \in Nat
      /\ end >= heapEnd + n + HeaderSize
  <2>1. end \in 0 .. Modulus - 1
    BY <1>2, <1>3, <1>4, EndFits
  <2> QED BY <1>1, <1>2, <1>4, <2>1, ConstantTypes
<1> HIDE DEF end
<1>6. mapped' \subseteq Pages
  BY <1>3, <1>4
<1>7. /\ Sound(header, end) /\ Owned(header, live, end)
      /\ \A g \in DOMAIN header : TopOf(header, g, heapEnd) <= TopOf(header, g, end)
  BY <1>4, <1>5, GrownIsSound, GrownIsOwned
<1>8. l \in DOMAIN header /\ header[l].next = NULL
  BY <1>4, LastHeaderIsLast DEF l, Headers
<1>9. CASE header[l].status = FREE
  <2>1. TopOf(header, l, end) >= l + HeaderSize + n
    <3>1. TopOf(header, l, end) = end /\ TopOf(header, l, heapEnd) = heapEnd
      BY <1>8 DEF TopOf
    <3>2. heapEnd >= l + HeaderSize + MinBlock /\ l \in Nat
      BY <1>4, <1>8, <3>1, ListFacts
    <3> QED BY <1>1, <1>4, <1>5, <3>1, <3>2, ConstantTypes
  <2>2. Answer(Taken(header, l, n, end), l, n)
    BY <1>3, <1>9
  <2>3. /\ HeapIInv'
        /\ \/ UNCHANGED live
           \/ live' = Handed(live, l + HeaderSize, n) /\ l + HeaderSize \notin DOMAIN live
    BY <1>1, <1>3, <1>5, <1>6, <1>7, <1>8, <1>9, <2>1, <2>2, AnswerKeeps
  <2>4. l + HeaderSize \in Nat
    BY <1>4, <1>8, ListFacts, ConstantTypes
  <2> QED BY <1>1, <2>3, <2>4
<1>10. CASE header[l].status # FREE
  <2>1. header[l].status = USED
    BY <1>4, <1>8, <1>10, ListFacts
  <2>2. end >= heapEnd + HeaderSize + MinBlock
    BY <1>1, <1>4, <1>5, ConstantTypes
  <2>3. /\ Sound(Appended, end)
        /\ DOMAIN Appended = Headers \cup {heapEnd} /\ heapEnd \notin Headers
        /\ Appended[heapEnd].status = FREE
        /\ TopOf(Appended, heapEnd, end) = end
        /\ \A g \in Headers : /\ Appended[g].status = header[g].status
                              /\ TopOf(Appended, g, end) = TopOf(header, g, heapEnd)
    BY <1>4, <1>5, <2>1, <2>2, AppendedIsSound DEF l
  <2>4. Owned(Appended, live, end)
    <3>1. ASSUME NEW a \in DOMAIN live
          PROVE  /\ a \in Nat /\ live[a] \in Nat /\ live[a] >= MinBlock
                 /\ a - HeaderSize \in DOMAIN Appended
                 /\ Appended[a - HeaderSize].status = USED
                 /\ a + live[a] <= TopOf(Appended, a - HeaderSize, end)
      <4>1. /\ a \in Nat /\ live[a] \in Nat /\ live[a] >= MinBlock
            /\ a - HeaderSize \in Headers
            /\ header[a - HeaderSize].status = USED
            /\ a + live[a] <= TopOf(header, a - HeaderSize, heapEnd)
        BY <1>4, BlockFacts DEF Headers
      <4> QED BY <2>3, <4>1
    <3>2. ASSUME NEW h \in DOMAIN Appended, Appended[h].status = USED
          PROVE  h + HeaderSize \in DOMAIN live
      <4>1. h \in Headers /\ header[h].status = USED
        BY <2>3, <3>2 DEF FREE, USED
      <4> QED BY <1>4, <4>1 DEF Owned, Headers
    <3> QED BY <3>1, <3>2 DEF Owned
  <2>5. TopOf(Appended, heapEnd, end) >= heapEnd + HeaderSize + n
    BY <1>1, <1>4, <1>5, <2>3, ConstantTypes
  <2>6. Answer(Taken(Appended, heapEnd, n, end), heapEnd, n)
    BY <1>3, <1>10
  <2>7. heapEnd \in DOMAIN Appended /\ Appended[heapEnd].status = FREE
    BY <2>3
  <2>8. /\ HeapIInv'
        /\ \/ UNCHANGED live
           \/ live' = Handed(live, heapEnd + HeaderSize, n) /\ heapEnd + HeaderSize \notin DOMAIN live
    BY <1>1, <1>3, <1>5, <1>6, <2>3, <2>4, <2>5, <2>6, <2>7, AnswerKeeps
  <2>9. heapEnd + HeaderSize \in Nat
    BY <1>4, ConstantTypes
  <2> QED BY <1>1, <2>8, <2>9
<1> QED BY <1>9, <1>10

LEMMA FreeKeeps ==
  ASSUME HeapIInv, NEW a \in DOMAIN live, free(a)
  PROVE  HeapIInv'
<1> DEFINE h == a - HeaderSize
           r == FreedList(h)
<1>1. /\ Sound(header, heapEnd) /\ Owned(header, live, heapEnd) /\ StateType
  BY DEF HeapIInv
<1>2. h \in Headers /\ header[h].status = USED /\ h \in Nat /\ a \in Nat
  BY <1>1, BlockFacts DEF Headers
<1>3. header' = r
  BY DEF free, FreedList
<1>4. /\ live' = [b \in DOMAIN live \ {a} |-> live[b]]
      /\ heapEnd' = heapEnd /\ mapped' = mapped /\ faulted' = faulted
  BY DEF free
<1> HIDE DEF h
<1>5. /\ Sound(r, heapEnd)
      /\ DOMAIN r \subseteq Headers
      /\ \A g \in Headers \ {h} : header[g].status = USED =>
           /\ g \in DOMAIN r /\ r[g].status = USED
           /\ TopOf(r, g, heapEnd) = TopOf(header, g, heapEnd)
      /\ \A g \in DOMAIN r : r[g].status = USED => g # h /\ header[g].status = USED
  BY <1>1, <1>2, FreedIsSound, Zenon
<1> HIDE DEF r
<1>6. ASSUME NEW b \in DOMAIN live'
      PROVE  /\ b \in Nat /\ live'[b] \in Nat /\ live'[b] >= MinBlock
             /\ b - HeaderSize \in DOMAIN r
             /\ r[b - HeaderSize].status = USED
             /\ b + live'[b] <= TopOf(r, b - HeaderSize, heapEnd)
  <2>1. b \in DOMAIN live /\ b # a /\ live'[b] = live[b]
    BY <1>4, <1>6
  <2>2. /\ b \in Nat /\ live[b] \in Nat /\ live[b] >= MinBlock
        /\ b - HeaderSize \in Headers
        /\ header[b - HeaderSize].status = USED
        /\ b + live[b] <= TopOf(header, b - HeaderSize, heapEnd)
    BY <1>1, <2>1, BlockFacts DEF Headers
  <2>3. b - HeaderSize # h
    BY <1>2, <2>1, <2>2, ConstantTypes DEF h
  <2> QED BY <1>5, <2>1, <2>2, <2>3
<1>7. ASSUME NEW g \in DOMAIN r, r[g].status = USED
      PROVE  g + HeaderSize \in DOMAIN live'
  <2>1. g \in Headers /\ g # h /\ header[g].status = USED
    BY <1>5, <1>7
  <2>2. g + HeaderSize \in DOMAIN live /\ g \in Nat
    BY <1>1, <2>1, ListFacts DEF Owned, Headers
  <2>3. g + HeaderSize # a
    BY <1>2, <2>1, <2>2, ConstantTypes DEF h
  <2> QED BY <1>4, <2>2, <2>3
<1>8. Owned(r, live', heapEnd)
  BY <1>6, <1>7 DEF Owned
<1>9. Sound(header', heapEnd') /\ Owned(header', live', heapEnd')
  BY <1>3, <1>4, <1>5, <1>8
<1>10. StateType'
  BY <1>1, <1>4, Zenon DEF StateType
<1> QED BY <1>9, <1>10 DEF HeapIInv

\* The list stays whole and owned through every call.
THEOREM HeapInvariant == RequestsFit => (Spec => []HeapIInv)
<1> SUFFICES ASSUME RequestsFit PROVE Spec => []HeapIInv
  OBVIOUS
<1>1. Init => HeapIInv
  BY InitialHeap
<1>2. HeapIInv /\ [Next]_vars => HeapIInv'
  <2> SUFFICES ASSUME HeapIInv, [Next]_vars PROVE HeapIInv'
    OBVIOUS
  <2>1. CASE UNCHANGED vars
    BY <2>1 DEF vars, HeapIInv, StateType
  <2>2. ASSUME NEW bytes \in Requests, malloc(bytes) PROVE HeapIInv'
    BY <2>2, MallocKeeps
  <2>3. ASSUME NEW bytes \in Requests, malloc_grows(bytes) PROVE HeapIInv'
    BY <2>3, GrowsKeeps
  <2>4. ASSUME NEW bytes \in Requests, malloc_out_of_memory(bytes) PROVE HeapIInv'
    <3>1. UNCHANGED <<header, heapEnd, live, faulted>>
      BY <2>4 DEF malloc_out_of_memory
    <3>2. mapped' \subseteq Pages
      BY <2>4 DEF malloc_out_of_memory, HeapIInv, StateType
    <3>3. StateType'
      BY <3>1, <3>2, Zenon DEF HeapIInv, StateType
    <3>4. Sound(header', heapEnd') /\ Owned(header', live', heapEnd')
      BY <3>1 DEF HeapIInv
    <3> QED BY <3>3, <3>4 DEF HeapIInv
  <2>5. ASSUME NEW a \in DOMAIN live, free(a) PROVE HeapIInv'
    BY <2>5, FreeKeeps
  <2> QED BY <2>1, <2>2, <2>3, <2>4, <2>5 DEF Next
<1> QED BY <1>1, <1>2, PTL DEF Spec

-----------------------------------------------------------------------------
(* What the invariant gives.                                               *)

\* The heap is sound: HeapInv.
LEMMA InvariantGivesHeapInv ==
  ASSUME HeapIInv
  PROVE  HeapInv
<1>1. /\ Sound(header, heapEnd) /\ Owned(header, live, heapEnd) /\ StateType
      /\ heapEnd \in Nat
  BY ConstantTypes DEF HeapIInv, StateType
<1>2. Headers = DOMAIN header
  BY DEF Headers
<1>3. TypeOK
  <2>1. header \in [Headers -> [status : {FREE, USED}, prev : Headers \cup {NULL},
                             next : Headers \cup {NULL}]]
    BY <1>1, <1>2 DEF Sound, ListType, Record
  <2>2. Headers \subseteq HeapStart .. heapEnd
    BY <1>1, <1>2 DEF Sound, ListType
  <2> QED BY <1>1, <2>1, <2>2, Zenon DEF TypeOK, StateType
<1>4. ListIsSound
  <2>1. HeapStart \in Headers /\ header[HeapStart].prev = NULL
    BY <1>1, <1>2 DEF Sound, Ends
  <2>2. ASSUME NEW h \in Headers
        PROVE  /\ SlotSize(h) >= MinBlock
               /\ header[h].next = NULL => \A g \in Headers : g <= h
               /\ header[h].next # NULL =>
                    /\ header[header[h].next].prev = h
                    /\ \A g \in Headers : ~(h < g /\ g < header[h].next)
    <3>1. /\ h \in Nat /\ TopOf(header, h, heapEnd) \in Nat
          /\ TopOf(header, h, heapEnd) >= h + HeaderSize + MinBlock
          /\ \A g \in Headers : g <= h \/ TopOf(header, h, heapEnd) <= g
          /\ header[h].next # NULL =>
               /\ TopOf(header, h, heapEnd) = header[h].next
               /\ header[header[h].next].prev = h
      BY <1>1, <1>2, ListFacts
    <3>2. SlotSize(h) = TopOf(header, h, heapEnd) - h - HeaderSize
      BY DEF SlotSize, Top, TopOf
    <3>3. SlotSize(h) >= MinBlock
      BY <3>1, <3>2, ConstantTypes
    <3>4. header[h].next = NULL => \A g \in Headers : g <= h
      BY <1>1, <1>2, LastIsHighest
    <3>5. \A g \in Headers : g \in Nat
      BY <1>1, <1>2, ListFacts
    <3>6. header[h].next # NULL => \A g \in Headers : ~(h < g /\ g < header[h].next)
      BY <3>1, <3>5
    <3> QED BY <3>1, <3>3, <3>4, <3>6
  <2> QED BY <2>1, <2>2 DEF ListIsSound
<1>5. NothingOverlaps
  <2> SUFFICES ASSUME NEW a \in DOMAIN live
               PROVE  /\ \A b \in DOMAIN live \ {a} : Bytes(a, live[a]) \cap Bytes(b, live[b]) = {}
                      /\ \A h \in Headers : Bytes(a, live[a]) \cap Bytes(h, HeaderSize) = {}
                      /\ a + live[a] <= heapEnd
    BY DEF NothingOverlaps
  <2>1. \A b \in DOMAIN live : b \in Nat /\ live[b] \in Nat
    BY <1>1, BlockFacts
  <2>2. ASSUME NEW b \in DOMAIN live \ {a}
        PROVE  Bytes(a, live[a]) \cap Bytes(b, live[b]) = {}
    <3>1. a + live[a] <= b \/ b + live[b] <= a
      BY <1>1, BlocksApart
    <3> QED BY <2>1, <3>1 DEF Bytes
  <2>3. ASSUME NEW h \in Headers
        PROVE  Bytes(a, live[a]) \cap Bytes(h, HeaderSize) = {}
    <3>1. h + HeaderSize <= a \/ a + live[a] <= h
      BY <1>1, <1>2, BlockAndHeader
    <3>2. h \in Nat
      BY <1>1, <1>2, ListFacts
    <3> QED BY <2>1, <3>1, <3>2, ConstantTypes DEF Bytes
  <2>4. a + live[a] <= heapEnd
    <3>1. /\ a + live[a] <= TopOf(header, a - HeaderSize, heapEnd)
          /\ TopOf(header, a - HeaderSize, heapEnd) <= heapEnd
          /\ TopOf(header, a - HeaderSize, heapEnd) \in Nat
      BY <1>1, BlockFacts
    <3> QED BY <1>1, <2>1, <3>1
  <2> QED BY <2>2, <2>3, <2>4
<1> QED BY <1>3, <1>4, <1>5 DEF HeapInv

\* The list stays whole, and no byte gets a second owner, through every
\* split, merge and growth, aligned or not, and also when the program faults.
THEOREM HeapIsAlwaysSound == RequestsFit => (Spec => []HeapInv)
<1>1. HeapIInv => HeapInv
  BY InvariantGivesHeapInv
<1> QED BY <1>1, HeapInvariant, PTL

\* A heap whose blocks have all been given back is one free block.
THEOREM FreedHeapIsAlwaysWhole == RequestsFit => (Spec => []FreedHeapIsWhole)
<1>1. HeapIInv => FreedHeapIsWhole
  <2> SUFFICES ASSUME HeapIInv, DOMAIN live = {} PROVE Headers = {HeapStart}
    BY DEF FreedHeapIsWhole
  <2>1. Sound(header, heapEnd) /\ Owned(header, live, heapEnd)
    BY DEF HeapIInv
  <2>2. \A h \in Headers : header[h].status = FREE
    BY <2>1, ListFacts DEF Owned, Headers
  <2>3. HeapStart \in Headers
    BY <2>1 DEF Sound, Ends, Headers
  <2>4. header[HeapStart].next = NULL
    <3> SUFFICES ASSUME header[HeapStart].next # NULL PROVE FALSE
      OBVIOUS
    <3>1. header[HeapStart].next \in Headers
      BY <2>1, <2>3, ListFacts DEF Headers
    <3>2. header[header[HeapStart].next].status = USED
      BY <2>1, <2>2, <2>3 DEF Sound, Coalesced, Headers
    <3> QED BY <2>2, <3>1, <3>2 DEF FREE, USED
  <2>5. \A h \in Headers : h <= HeapStart
    BY <2>1, <2>3, <2>4, LastIsHighest DEF Headers
  <2>6. \A h \in Headers : h \in Nat /\ HeapStart <= h
    BY <2>1, ListFacts DEF Headers
  <2>7. \A h \in Headers : h = HeapStart
    BY <2>5, <2>6, ConstantTypes
  <2> QED BY <2>3, <2>7
<1> QED BY <1>1, HeapInvariant, PTL

-----------------------------------------------------------------------------
(* The arena.                                                              *)

\* A block handed out is one the arena can hand out.
LEMMA HandingOutIsAlloc ==
  ASSUME HeapIInv', NEW a \in Nat, NEW n \in Nat,
         live' = Handed(live, a, n), a \notin DOMAIN live
  PROVE  Arena!Next
<1>1. /\ Sound(header', heapEnd') /\ Owned(header', live', heapEnd')
      /\ heapEnd' \in 0 .. Modulus - 1
  BY DEF HeapIInv, StateType
<1>2. /\ DOMAIN live' = DOMAIN live \cup {a} /\ live'[a] = n
      /\ \A b \in DOMAIN live : live'[b] = live[b] /\ b # a
  BY DEF Handed
<1>3. /\ n >= MinBlock /\ HeapStart <= a - HeaderSize /\ a + n <= heapEnd'
  <2>1. /\ live'[a] >= MinBlock /\ HeapStart <= a - HeaderSize
        /\ TopOf(header', a - HeaderSize, heapEnd') \in Nat
        /\ TopOf(header', a - HeaderSize, heapEnd') <= heapEnd'
        /\ a + live'[a] <= TopOf(header', a - HeaderSize, heapEnd')
    BY <1>1, <1>2, BlockFacts
  <2> QED BY <1>1, <1>2, <2>1, ConstantTypes
<1>4. a \in HeapStart .. Modulus /\ n \in 1 .. Modulus - HeapStart
      /\ HeapStart <= a /\ a + n <= Modulus
  BY <1>1, <1>3, ConstantTypes
<1>5. \A b \in DOMAIN live : a + n <= b \/ b + live[b] <= a
  BY <1>1, <1>2, BlocksApart
<1>6. Arena!Alloc(a, n)
  BY <1>4, <1>5 DEF Arena!Alloc, Arena!Blocks, Arena!Apart, Handed
<1> QED BY <1>4, <1>6 DEF Arena!Next

\* Every run of the heap is a run of the arena: what malloc hands out lies
\* between the program's end and the end of the address space and shares no
\* byte with what is still out, however the heap has grown.
THEOREM Refinement == RequestsFit => (Spec => ImplementsHeapArena)
<1> SUFFICES ASSUME RequestsFit PROVE Spec => ImplementsHeapArena
  OBVIOUS
<1>1. Init => Arena!Init
  BY DEF Init, Arena!Init
<1>2. HeapIInv /\ HeapIInv' /\ [Next]_vars => [Arena!Next]_live
  <2> SUFFICES ASSUME HeapIInv, HeapIInv', [Next]_vars PROVE [Arena!Next]_live
    OBVIOUS
  <2>1. CASE UNCHANGED vars
    BY <2>1 DEF vars
  <2>2. ASSUME NEW bytes \in Requests, malloc(bytes) \/ malloc_grows(bytes)
        PROVE  [Arena!Next]_live
    <3>1. \/ UNCHANGED live
          \/ \E a \in Nat, n \in Nat : live' = Handed(live, a, n) /\ a \notin DOMAIN live
      BY <2>2, MallocKeeps, GrowsKeeps
    <3> QED BY <3>1, HandingOutIsAlloc
  <2>3. ASSUME NEW bytes \in Requests, malloc_out_of_memory(bytes)
        PROVE  live' = live
    BY <2>3 DEF malloc_out_of_memory
  <2>4. ASSUME NEW a \in DOMAIN live, free(a)
        PROVE  Arena!Next
    <3>1. /\ Sound(header, heapEnd) /\ Owned(header, live, heapEnd)
          /\ heapEnd \in 0 .. Modulus - 1
      BY DEF HeapIInv, StateType
    <3>2. /\ a \in Nat /\ live[a] \in Nat /\ HeapStart <= a - HeaderSize
          /\ a + live[a] <= TopOf(header, a - HeaderSize, heapEnd)
          /\ TopOf(header, a - HeaderSize, heapEnd) \in Nat
          /\ TopOf(header, a - HeaderSize, heapEnd) <= heapEnd
      BY <3>1, BlockFacts
    <3>3. a \in HeapStart .. Modulus
      BY <3>1, <3>2, ConstantTypes
    <3>4. Arena!Free(a)
      BY <2>4 DEF free, Arena!Free, Arena!Blocks
    <3> QED BY <3>3, <3>4 DEF Arena!Next
  <2> QED BY <2>1, <2>2, <2>3, <2>4 DEF Next
<1> QED BY <1>1, <1>2, HeapInvariant, PTL DEF Spec, ImplementsHeapArena, Arena!Spec

-----------------------------------------------------------------------------
(* Pages.                                                                  *)

\* A later byte does not lie in an earlier page.
LEMMA PageMonotone ==
  ASSUME NEW a \in Nat, NEW b \in Nat, a <= b
  PROVE  Page(a) <= Page(b)
<1> DEFINE p == Page(a)
           q == Page(b)
<1>1. p \in Nat /\ PageSize * p <= a
  BY PageFacts
<1>2. q \in Nat /\ b < PageSize * q + PageSize
  BY PageFacts
<1> HIDE DEF p, q
<1>3. PageSize \in Nat \ {0}
  BY ConstantTypes
<1>4. ASSUME p >= q + 1 PROVE FALSE
  <2>1. PageSize * p >= PageSize * q + PageSize
    BY <1>1, <1>2, <1>3, <1>4, SMTT(30)
  <2>2. PageSize * p \in Nat /\ PageSize * q \in Nat
    BY <1>1, <1>2, <1>3, SMTT(30)
  <2> QED BY <1>1, <1>2, <1>3, <2>1, <2>2
<1>5. p <= q
  BY <1>1, <1>2, <1>4
<1> QED BY <1>5, Zenon DEF p, q

\* The last byte before a page boundary lies in the page before.
LEMMA PageBefore ==
  ASSUME NEW q \in Nat \ {0}
  PROVE  PageSize * q \in Nat \ {0} /\ Page(PageSize * q) = q /\ Page(PageSize * q - 1) = q - 1
<1>1. PageSize \in Nat \ {0}
  BY ConstantTypes
<1>2. PageSize * q \in Nat \ {0} /\ PageSize * (q - 1) = PageSize * q - PageSize
  BY <1>1, SMTT(30)
<1>3. Page(PageSize * q) = q
  BY <1>1, ModMultiple DEF Page
<1> DEFINE e == PageSize * q
           p == Page(e - 1)
<1>4. p \in Nat /\ PageSize * p <= e - 1 /\ e - 1 < PageSize * p + PageSize
  BY <1>2, PageFacts
<1> HIDE DEF p
<1>5. p = q - 1
  <2>1. CASE p >= q
    <3>1. PageSize * p >= PageSize * q
      BY <1>1, <1>4, <2>1, SMTT(30)
    <3>2. PageSize * p \in Nat
      BY <1>1, <1>4, SMTT(30)
    <3> HIDE DEF e
    <3> QED BY <1>2, <1>4, <3>1, <3>2 DEF e
  <2>2. CASE p <= q - 2
    <3>1. PageSize * p + PageSize <= PageSize * q - PageSize
      BY <1>1, <1>4, <2>2, SMTT(30)
    <3>2. PageSize * p \in Nat
      BY <1>1, <1>4, SMTT(30)
    <3> QED BY <1>1, <1>2, <1>4, <3>1, <3>2
  <2> QED BY <1>4, <2>1, <2>2
<1> QED BY <1>2, <1>3, <1>5 DEF e, p

LEMMA GrowingMaps ==
  ASSUME HeapIsMapped, NEW k \in Nat \ {0},
         heapEnd' = heapEnd + PageSize * k,
         mapped' = mapped \cup PagesFrom(heapEnd, k)
  PROVE  HeapIsMapped'
<1> DEFINE q == heapEnd \div PageSize
<1>1. /\ heapEnd \in Nat /\ HeapStart < heapEnd /\ heapEnd % PageSize = 0
      /\ Page(HeapStart) .. Page(heapEnd - 1) \subseteq mapped
  BY DEF HeapIsMapped
<1>2. PageSize \in Nat \ {0} /\ HeapStart \in Nat \ {0}
  BY ConstantTypes
<1>3. q \in Nat /\ q = Page(heapEnd)
  BY <1>1, PageFacts DEF Page
<1>4. heapEnd = PageSize * q
  <2>1. heapEnd = PageSize * q + (heapEnd % PageSize)
    BY <1>1, <1>2, Division
  <2>2. PageSize * q \in Int
    BY <1>2, <1>3, ModMultiple
  <2> DEFINE z == PageSize * q
  <2> HIDE DEF z
  <2> QED BY <1>1, <2>1, <2>2 DEF z
<1> HIDE DEF q
<1>5. q # 0
  BY <1>1, <1>2, <1>4
<1>6. heapEnd' = PageSize * (q + k)
  BY <1>2, <1>3, <1>4, SMTT(30)
<1>7. /\ Page(heapEnd - 1) = q - 1 /\ Page(heapEnd' - 1) = q + k - 1
      /\ heapEnd' \in Nat /\ heapEnd' % PageSize = 0
  <2>1. q + k \in Nat \ {0} /\ q \in Nat \ {0}
    BY <1>3, <1>5
  <2>2. Page(PageSize * q - 1) = q - 1
    BY <2>1, PageBefore
  <2>3. Page(PageSize * (q + k) - 1) = q + k - 1 /\ PageSize * (q + k) \in Nat \ {0}
    BY <2>1, PageBefore
  <2>4. (PageSize * (q + k)) % PageSize = 0
    BY <1>2, <2>1, ModMultiple
  <2> QED BY <1>4, <1>6, <2>2, <2>3, <2>4
<1>8. HeapStart < heapEnd'
  <2>1. PageSize * k \in Nat
    BY <1>2, SMTT(30)
  <2> QED BY <1>1, <1>2, <2>1
<1>9. Page(HeapStart) .. q + k - 1 \subseteq mapped'
  <2>1. Page(HeapStart) \in Nat
    BY <1>2, PageFacts
  <2>2. Page(HeapStart) .. q - 1 \subseteq mapped /\ q .. q + k - 1 \subseteq mapped'
        /\ mapped \subseteq mapped'
    BY <1>1, <1>3, <1>7 DEF PagesFrom
  <2> QED BY <1>3, <2>1, <2>2
<1>10. heapEnd' > HeapStart /\ Page(HeapStart)' = Page(HeapStart)
  BY <1>2, <1>7, <1>8 DEF Page
<1> QED BY <1>7, <1>8, <1>9, <1>10 DEF HeapIsMapped

LEMMA MappedGivesHandedOutIsMapped ==
  ASSUME HeapIInv, HeapIsMapped
  PROVE  HandedOutIsMapped
<1>1. /\ Sound(header, heapEnd) /\ Owned(header, live, heapEnd)
      /\ heapEnd \in Nat /\ HeapStart < heapEnd
      /\ Page(HeapStart) .. Page(heapEnd - 1) \subseteq mapped
  BY DEF HeapIInv, HeapIsMapped
<1>2. ASSUME NEW x \in Nat, HeapStart <= x, x <= heapEnd - 1
      PROVE  /\ Page(x) \in Nat /\ Page(HeapStart) <= Page(x) /\ Page(x) <= Page(heapEnd - 1)
             /\ Page(HeapStart) \in Nat /\ Page(heapEnd - 1) \in Nat
  <2>1. HeapStart \in Nat /\ heapEnd - 1 \in Nat
    BY <1>1, <1>2, ConstantTypes
  <2> QED BY <1>2, <2>1, PageFacts, PageMonotone
<1>3. ASSUME NEW a \in DOMAIN live, NEW x \in Bytes(a, live[a])
      PROVE  Page(x) \in mapped
  <2>1. /\ a \in Nat /\ live[a] \in Nat /\ HeapStart <= a - HeaderSize
        /\ a + live[a] <= TopOf(header, a - HeaderSize, heapEnd)
        /\ TopOf(header, a - HeaderSize, heapEnd) \in Nat
        /\ TopOf(header, a - HeaderSize, heapEnd) <= heapEnd
    BY <1>1, BlockFacts
  <2>2. x \in Nat /\ HeapStart <= x /\ x <= heapEnd - 1
    BY <1>1, <1>3, <2>1, ConstantTypes DEF Bytes
  <2> QED BY <1>1, <1>2, <2>2
<1>4. ASSUME NEW h \in Headers
      PROVE  HeaderPages(h) \subseteq mapped
  <2>1. /\ h \in Nat /\ HeapStart <= h
        /\ TopOf(header, h, heapEnd) \in Nat /\ TopOf(header, h, heapEnd) <= heapEnd
        /\ TopOf(header, h, heapEnd) >= h + HeaderSize + MinBlock
    BY <1>1, ListFacts DEF Headers
  <2>2. /\ h <= heapEnd - 1 /\ h + HeaderSize - 1 \in Nat
        /\ HeapStart <= h + HeaderSize - 1 /\ h + HeaderSize - 1 <= heapEnd - 1
    BY <1>1, <2>1, ConstantTypes
  <2>3. /\ Page(HeapStart) <= Page(h) /\ Page(h + HeaderSize - 1) <= Page(heapEnd - 1)
        /\ Page(h) \in Nat /\ Page(h + HeaderSize - 1) \in Nat
        /\ Page(HeapStart) \in Nat /\ Page(heapEnd - 1) \in Nat
    BY <1>2, <2>1, <2>2
  <2> QED BY <1>1, <2>3 DEF HeaderPages
<1> QED BY <1>3, <1>4 DEF HandedOutIsMapped

\* A heap that starts at a page boundary hands out, and writes its headers
\* to, mapped memory only.  The linker script does not put it there: from any
\* other start the pages asked for end before the heap does.
THEOREM HandedOutIsAlwaysMapped ==
  RequestsFit /\ HeapStart % PageSize = 0 => (Spec => []HandedOutIsMapped)
<1> SUFFICES ASSUME RequestsFit, HeapStart % PageSize = 0
             PROVE  Spec => []HandedOutIsMapped
  OBVIOUS
<1>1. Init => HeapIsMapped
  <2> SUFFICES ASSUME Init PROVE HeapIsMapped
    OBVIOUS
  <2>1. /\ heapEnd = HeapStart + PageSize
        /\ mapped = Page(HeapStart) .. Page(HeapStart + PageSize - 1)
    BY DEF Init
  <2>2. HeapStart \in Nat \ {0} /\ PageSize \in Nat \ {0}
    BY ConstantTypes
  <2>3. heapEnd \in Nat /\ HeapStart < heapEnd
    BY <2>1, <2>2
  <2>4. heapEnd % PageSize = 0
    <3> DEFINE q == HeapStart \div PageSize
    <3>1. q \in Int /\ HeapStart = PageSize * q + (HeapStart % PageSize)
      BY <2>2, Division
    <3> HIDE DEF q
    <3>2. HeapStart = PageSize * q /\ q + 1 \in Int
      BY <2>2, <3>1, ModMultiple
    <3>3. heapEnd = PageSize * (q + 1)
      BY <2>1, <2>2, <3>1, <3>2, SMTT(30)
    <3> QED BY <2>2, <3>2, <3>3, ModMultiple
  <2>5. Page(HeapStart) .. Page(heapEnd - 1) \subseteq mapped
    <3>1. heapEnd - 1 = HeapStart + PageSize - 1
      BY <2>1, <2>2
    <3>2. Page(heapEnd - 1) = Page(HeapStart + PageSize - 1)
      BY <3>1
    <3> QED BY <2>1, <3>2
  <2> QED BY <2>3, <2>4, <2>5 DEF HeapIsMapped
<1>2. HeapIInv /\ HeapIsMapped /\ [Next]_vars => HeapIsMapped'
  <2> SUFFICES ASSUME HeapIInv, HeapIsMapped, [Next]_vars PROVE HeapIsMapped'
    OBVIOUS
  <2>1. CASE UNCHANGED <<heapEnd, mapped>>
    BY <2>1 DEF HeapIsMapped, Page
  <2>2. ASSUME NEW bytes \in Requests, malloc_grows(bytes) PROVE HeapIsMapped'
    <3> DEFINE n == Sized(bytes)
               x == Expand(n)
               k == x \div PageSize
    <3>1. n \in Nat /\ n + HeaderSize + PageSize < Modulus
      BY SizedFacts
    <3>2. k \in Nat \ {0} /\ x = PageSize * k
      BY <3>1, ExpandFacts
    <3>3. heapEnd' = heapEnd + x /\ mapped' = mapped \cup PagesFrom(heapEnd, k)
      BY <2>2 DEF malloc_grows
    <3> HIDE DEF n, x, k
    <3> QED BY <3>2, <3>3, GrowingMaps
  <2>3. ASSUME NEW bytes \in Requests, malloc_out_of_memory(bytes) PROVE HeapIsMapped'
    <3>1. heapEnd' = heapEnd /\ mapped \subseteq mapped'
      BY <2>3 DEF malloc_out_of_memory
    <3> QED BY <3>1 DEF HeapIsMapped, Page
  <2>4. ASSUME NEW bytes \in Requests, malloc(bytes) PROVE HeapIsMapped'
    BY <2>1, <2>4 DEF malloc
  <2>5. ASSUME NEW a \in DOMAIN live, free(a) PROVE HeapIsMapped'
    BY <2>1, <2>5 DEF free
  <2>6. CASE UNCHANGED vars
    BY <2>1, <2>6 DEF vars
  <2> QED BY <2>2, <2>3, <2>4, <2>5, <2>6 DEF Next
<1>3. HeapIInv /\ HeapIsMapped => HandedOutIsMapped
  BY MappedGivesHandedOutIsMapped
<1> QED BY <1>1, <1>2, <1>3, HeapInvariant, PTL DEF Spec

=============================================================================
