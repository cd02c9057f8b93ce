--------------------------- MODULE KmallocProofs ---------------------------
(***************************************************************************)
(* Theorems about the kernel heap, for every arena, header size, smallest  *)
(* block, page size and set of requests.  The list operations of kmalloc   *)
(* and kfree are first described by what each field of each header is      *)
(* afterwards; the inductive invariant then follows from those facts.      *)
(***************************************************************************)
EXTENDS Kmalloc, ArithLemmas

LEMMA LastType ==
  /\ HeapStart \in Nat \ {0}
  /\ HeaderSize \in Nat \ {0}
  /\ MinBlock \in Nat \ {0}
  /\ Last \in Nat \ {0}
  /\ HeapStart + HeaderSize + MinBlock <= Last
  /\ HeapEnd = Last + HeaderSize
BY HeapAssumption DEF Last

LEMMA PageType ==
  ASSUME NEW a \in Nat
  PROVE  Page(a) \in Nat
<1>1. PageSize \in Nat \ {0}
  BY HeapAssumption
<1> QED BY <1>1, SMTT(30) DEF Page

LEMMA InitialHeap == Init => HeapInv
<1> SUFFICES ASSUME Init PROVE HeapInv
  OBVIOUS
<1> USE LastType DEF FREE, USED, Headers
<1>1. /\ DOMAIN header = {HeapStart, Last} /\ Headers = {HeapStart, Last}
      /\ header[HeapStart] = [status |-> FREE, prev |-> 0, next |-> Last]
      /\ header[Last] = [status |-> USED, prev |-> HeapStart, next |-> Last]
      /\ live = [a \in {} |-> 0] /\ lost = {} /\ faulted = FALSE
  BY DEF Init
<1>2. DOMAIN live = {}
  BY <1>1
<1>3. TypeOK
  <2>1. header \in [Headers -> [status : {FREE, USED}, prev : Headers \cup {0}, next : Headers]]
    BY <1>1 DEF Init
  <2>2. mapped \subseteq Nat
    <3>1. HeapEnd - PageSize \in Nat
      <4>1. HeapEnd = PageSize * (HeapEnd \div PageSize) /\ HeapEnd \div PageSize \in Int
        <5>1. HeapEnd \in Int /\ PageSize \in Nat \ {0} /\ HeapEnd % PageSize = 0
          BY HeapAssumption
        <5>2. /\ HeapEnd \div PageSize \in Int
              /\ HeapEnd = PageSize * (HeapEnd \div PageSize) + (HeapEnd % PageSize)
          BY <5>1, Division
        <5> QED BY <5>1, <5>2
      <4> DEFINE q == HeapEnd \div PageSize
      <4>2. q \in Int /\ PageSize * q = HeapEnd /\ HeapEnd > 0 /\ PageSize \in Nat \ {0}
        BY <4>1, HeapAssumption
      <4> HIDE DEF q
      <4>3. q >= 1
        <5>1. CASE q <= 0
          <6>1. PageSize * q <= 0
            BY <4>2, <5>1
          <6> QED BY <6>1, <4>2
        <5> QED BY <5>1, <4>2
      <4>4. PageSize * q >= PageSize
        BY <4>2, <4>3
      <4> QED BY <4>2, <4>4
    <3> QED BY <3>1, PageType, HeapAssumption DEF Init
  <2>3. live \in [DOMAIN live -> Nat]
    BY <1>1
  <2>4. Headers \subseteq HeapStart .. Last
    BY <1>1
  <2>5. faulted \in BOOLEAN
    BY <1>1, Zenon
  <2>6. DOMAIN live \subseteq Nat /\ lost \subseteq Nat
    BY <1>1, <1>2
  <2> QED BY <2>1, <2>2, <2>3, <2>4, <2>5, <2>6, Zenon DEF TypeOK
<1>4. ListIsSound
  BY <1>1 DEF ListIsSound
<1>5. NoFreeNeighbours
  BY <1>1 DEF NoFreeNeighbours
<1>6. HeadersAreOwned
  BY <1>1, <1>2 DEF HeadersAreOwned
<1> QED BY <1>3, <1>4, <1>5, <1>6 DEF HeapInv

-----------------------------------------------------------------------------
(* The list operations.                                                    *)

HeaderType ==
  /\ Headers \subseteq HeapStart .. Last
  /\ header \in [Headers -> [status : {FREE, USED}, prev : Headers \cup {0}, next : Headers]]

ListInv == HeaderType /\ ListIsSound /\ NoFreeNeighbours

LEMMA HeaderIsAddress ==
  ASSUME HeaderType, NEW h \in Headers
  PROVE  h \in Nat /\ h # 0 /\ HeapStart <= h /\ h <= Last
<1>1. h \in HeapStart .. Last
  BY DEF HeaderType
<1> QED BY <1>1, LastType

LEMMA FieldTypes ==
  ASSUME HeaderType, NEW h \in Headers
  PROVE  /\ header[h].status \in {FREE, USED}
         /\ header[h].prev \in Headers \cup {0}
         /\ header[h].next \in Headers
BY DEF HeaderType

\* What the proofs use of a sound list.
LEMMA ListFacts ==
  ASSUME ListInv, NEW h \in Headers \ {Last}
  PROVE  /\ h \in Nat /\ h # 0
         /\ header[h].next \in Headers /\ header[h].next \in Nat
         /\ header[h].next # h
         /\ header[h].next - h >= HeaderSize + MinBlock
         /\ header[header[h].next].prev = h
         /\ \A g \in Headers : ~(h < g /\ g < header[h].next)
         /\ header[h].prev \in Headers \cup {0}
         /\ header[h].status \in {FREE, USED}
         /\ header[h].status = FREE => header[header[h].next].status = USED
<1>1. h \in Nat /\ h # 0
  BY HeaderIsAddress DEF ListInv
<1>2. header[h].next \in Headers
  BY FieldTypes DEF ListInv
<1>3. header[h].next \in Nat
  BY <1>2, HeaderIsAddress DEF ListInv
<1>4. /\ header[h].next - h >= HeaderSize + MinBlock
      /\ header[header[h].next].prev = h
      /\ \A g \in Headers : ~(h < g /\ g < header[h].next)
  BY DEF ListInv, ListIsSound
<1>5. header[h].next # h
  BY <1>1, <1>3, <1>4, LastType
<1>6. header[h].prev \in Headers \cup {0} /\ header[h].status \in {FREE, USED}
  BY FieldTypes DEF ListInv
<1>7. header[h].status = FREE => header[header[h].next].status = USED
  BY DEF ListInv, NoFreeNeighbours
<1> QED BY <1>1, <1>2, <1>3, <1>4, <1>5, <1>6, <1>7

\* A request is served from a free header with room for it.
LEMMA FittingHeader ==
  ASSUME ListInv, NEW n \in Nat, Fitting(n) # {}
  PROVE  /\ Min(Fitting(n)) \in Headers \ {Last}
         /\ header[Min(Fitting(n))].status = FREE
         /\ header[Min(Fitting(n))].next - Min(Fitting(n)) >= HeaderSize + n
<1>1. Fitting(n) \subseteq Nat
  BY HeaderIsAddress DEF ListInv, Fitting
<1>2. Min(Fitting(n)) \in Fitting(n)
  BY <1>1, MinIsLeast
<1> QED BY <1>2 DEF Fitting

\* Serving a request of n bytes from the free header h keeps the list sound,
\* takes h, and leaves status and next of every other header alone.
LEMMA TakeKeepsList ==
  ASSUME ListInv,
         NEW h \in Headers \ {Last}, header[h].status = FREE,
         NEW n \in Nat, n >= MinBlock,
         header[h].next - h >= HeaderSize + n,
         Take(h, n)
  PROVE  /\ ListInv'
         /\ Headers \subseteq Headers'
         /\ header'[h].status = USED
         /\ header'[h].next >= h + HeaderSize + n
         /\ \A g \in Headers \ {h} : /\ header'[g].status = header[g].status
                                     /\ header'[g].next = header[g].next
         /\ \A g \in Headers' \ Headers : header'[g].status = FREE
<1> DEFINE t == header[h].next
           p == h + HeaderSize + n
<1>1. /\ h \in Nat /\ h # 0 /\ t \in Headers /\ t \in Nat /\ t # h
      /\ t - h >= HeaderSize + MinBlock
      /\ header[t].prev = h
      /\ \A g \in Headers : ~(h < g /\ g < t)
      /\ header[t].status = USED
  BY ListFacts
<1>2. CASE ~HasRest(h, n)
  <2>1. TakeWhole(h)
    BY <1>2 DEF Take
  <2>2. /\ Headers' = Headers
        /\ header' \in [Headers -> [status : {FREE, USED}, prev : Headers \cup {0}, next : Headers]]
        /\ \A g \in Headers : /\ header'[g].status = IF g = h THEN USED ELSE header[g].status
                              /\ header'[g].prev = header[g].prev
                              /\ header'[g].next = header[g].next
    <3>1. header \in [Headers -> [status : {FREE, USED}, prev : Headers \cup {0}, next : Headers]]
      BY DEF ListInv, HeaderType
    <3>2. header' = [header EXCEPT ![h].status = USED, ![t].prev = h]
      BY <2>1 DEF TakeWhole
    <3> HIDE DEF t
    <3>3. Headers' = Headers
      BY <3>1, <3>2 DEF Headers
    <3>4. \A g \in Headers : header[g] \in [status : {FREE, USED}, prev : Headers \cup {0}, next : Headers]
      BY <3>1
    <3>5. /\ header'[h] = [header[h] EXCEPT !.status = USED]
          /\ header'[t] = [header[t] EXCEPT !.prev = h]
          /\ \A g \in Headers \ {h, t} : header'[g] = header[g]
      BY <1>1, <3>1, <3>2
    <3>6. \A g \in Headers : header'[g] \in [status : {FREE, USED}, prev : Headers \cup {0}, next : Headers]
      BY <1>1, <3>4, <3>5
    <3>7. header' \in [Headers -> [status : {FREE, USED}, prev : Headers \cup {0}, next : Headers]]
      BY <3>1, <3>2, <3>6
    <3>8. \A g \in Headers : /\ header'[g].status = IF g = h THEN USED ELSE header[g].status
                             /\ header'[g].prev = header[g].prev
                             /\ header'[g].next = header[g].next
      BY <1>1, <3>4, <3>5
    <3> QED BY <3>3, <3>7, <3>8
  <2>3. HeaderType'
    BY <2>2 DEF ListInv, HeaderType
  <2>4. ListIsSound'
    <3> DEFINE Same(g) == /\ header'[g].prev = header[g].prev
                          /\ header'[g].next = header[g].next
    <3>1. \A g \in Headers : Same(g) /\ header[g].next \in Headers
      BY <2>2, FieldTypes
    <3>2. /\ HeapStart \in Headers' /\ header'[HeapStart].prev = 0
          /\ Last \in Headers' /\ header'[Last].status = USED /\ header'[Last].next = Last
      BY <2>2 DEF ListInv, ListIsSound
    <3>3. ASSUME NEW g \in Headers' \ {Last}
          PROVE  /\ header'[g].next - g >= HeaderSize + MinBlock
                 /\ header'[header'[g].next].prev = g
                 /\ \A f \in Headers' : ~(g < f /\ f < header'[g].next)
      BY <2>2, <3>1, <3>3 DEF ListInv, ListIsSound
    <3>4. ASSUME NEW g \in Headers' \ {HeapStart}
          PROVE  header'[g].prev \in Headers' \ {Last} /\ header'[header'[g].prev].next = g
      BY <2>2, <3>1, <3>4 DEF ListInv, ListIsSound
    <3> HIDE DEF Same
    <3> QED BY <3>2, <3>3, <3>4 DEF ListIsSound
  <2>5. NoFreeNeighbours'
    <3> SUFFICES ASSUME NEW g \in Headers, header'[g].status = FREE
                 PROVE  header'[header[g].next].status = USED
      BY <2>2 DEF NoFreeNeighbours
    <3>1. header[g].status = FREE
      BY <2>2 DEF FREE, USED
    <3>2. header[header[g].next].status = USED /\ header[g].next \in Headers
      BY <3>1, FieldTypes DEF ListInv, NoFreeNeighbours
    <3> QED BY <2>2, <3>2
  <2>6. header'[h].next >= h + HeaderSize + n
    BY <1>1, <2>2, LastType
  <2> QED BY <2>2, <2>3, <2>4, <2>5, <2>6 DEF ListInv
<1>3. CASE HasRest(h, n)
  <2>1. Split(h, p)
    BY <1>3 DEF Take
  <2>2. /\ p \in Nat /\ h < p /\ p < t /\ p - h >= HeaderSize + MinBlock
        /\ t - p >= HeaderSize + MinBlock
        /\ p \notin Headers
    <3>1. p \in Nat /\ h < p /\ p - h >= HeaderSize + MinBlock
      BY <1>1, LastType
    <3>2. t - p >= HeaderSize + MinBlock /\ p < t
      BY <1>1, <1>3, <3>1, LastType DEF HasRest
    <3> QED BY <1>1, <3>1, <3>2
  <2>3. p \in HeapStart .. Last
    <3>1. HeapStart <= h /\ t <= Last
      BY <1>1, HeaderIsAddress DEF ListInv
    <3> QED BY <1>1, <2>2, <3>1, LastType
  <2> HIDE DEF p, t
  <2>4. Headers' = Headers \cup {p}
    BY <2>1 DEF Split, Headers
  <2>5. /\ header'[h] = [header[h] EXCEPT !.status = USED, !.next = p]
        /\ header'[p] = [status |-> FREE, prev |-> h, next |-> t]
        /\ header'[t] = [header[t] EXCEPT !.prev = p]
        /\ \A g \in Headers \ {h, t} : header'[g] = header[g]
    BY <1>1, <2>1, <2>2 DEF Split, t
  <2>6. \A g \in Headers : header[g] \in [status : {FREE, USED}, prev : Headers \cup {0}, next : Headers]
    BY DEF ListInv, HeaderType
  <2>7. /\ header'[h].status = USED /\ header'[h].prev = header[h].prev /\ header'[h].next = p
        /\ header'[p].status = FREE /\ header'[p].prev = h /\ header'[p].next = t
        /\ header'[t].status = USED /\ header'[t].prev = p /\ header'[t].next = header[t].next
    BY <1>1, <2>5, <2>6 DEF t
  <2>8. HeaderType'
    <3>1. \A g \in Headers' : header'[g] \in [status : {FREE, USED}, prev : Headers' \cup {0}, next : Headers']
      <4>1. header'[h] \in [status : {FREE, USED}, prev : Headers' \cup {0}, next : Headers']
        BY <2>4, <2>5, <2>6
      <4>2. header'[t] \in [status : {FREE, USED}, prev : Headers' \cup {0}, next : Headers']
        BY <1>1, <2>4, <2>5, <2>6
      <4>3. header'[p] \in [status : {FREE, USED}, prev : Headers' \cup {0}, next : Headers']
        BY <1>1, <2>4, <2>5
      <4>4. \A g \in Headers \ {h, t} :
              header'[g] \in [status : {FREE, USED}, prev : Headers' \cup {0}, next : Headers']
        BY <2>4, <2>5, <2>6
      <4> QED BY <2>4, <4>1, <4>2, <4>3, <4>4
    <3>2. header' = [g \in Headers' |-> header'[g]]
      BY <2>1, <2>4 DEF Split, Headers
    <3>3. Headers' \subseteq HeapStart .. Last
      BY <2>3, <2>4 DEF ListInv, HeaderType
    <3> QED BY <3>1, <3>2, <3>3 DEF HeaderType
  <2>9. ListIsSound'
    <3> USE DEF ListInv
    <3>1. /\ HeapStart \in Headers' /\ header'[HeapStart].prev = 0
      <4>1. HeapStart \in Headers /\ header[HeapStart].prev = 0
        BY DEF ListIsSound
      <4>2. HeapStart # t
        BY <1>1, <4>1 DEF t
      <4> QED BY <2>4, <2>5, <2>7, <4>1, <4>2
    <3>2. Last \in Headers' /\ header'[Last].status = USED /\ header'[Last].next = Last
      <4>1. Last \in Headers /\ header[Last].status = USED /\ header[Last].next = Last
        BY DEF ListIsSound
      <4>2. CASE Last = t
        BY <2>4, <2>7, <4>1, <4>2
      <4>3. CASE Last # t
        <5>1. Last # h
          BY <1>1, <4>1 DEF FREE, USED
        <5> QED BY <2>4, <2>5, <4>1, <4>3, <5>1
      <4> QED BY <4>2, <4>3
    <3>3. ASSUME NEW g \in Headers' \ {Last}
          PROVE  LET m == header'[g].next
                 IN  /\ m - g >= HeaderSize + MinBlock
                     /\ header'[m].prev = g
                     /\ \A f \in Headers' : ~(g < f /\ f < m)
      <4>1. CASE g = h
        BY <1>1, <2>2, <2>4, <2>7, <4>1
      <4>2. CASE g = p
        BY <1>1, <2>2, <2>4, <2>7, <4>2
      <4>3. CASE g # h /\ g # p
        <5>1. g \in Headers \ {Last} /\ header'[g].next = header[g].next
          BY <2>4, <2>5, <2>7, <4>3
        <5>2. /\ g \in Nat
              /\ header[g].next \in Headers /\ header[g].next \in Nat
              /\ header[g].next - g >= HeaderSize + MinBlock
              /\ header[header[g].next].prev = g
              /\ \A f \in Headers : ~(g < f /\ f < header[g].next)
          BY <5>1, ListFacts
        <5>3. header[g].next # t /\ header[g].next # p
          BY <1>1, <2>2, <4>3, <5>2
        <5>4. header'[header[g].next].prev = g
          BY <2>5, <2>7, <5>2, <5>3
        <5>5. ~(g < p /\ p < header[g].next)
          BY <1>1, <2>2, <4>3, <5>2
        <5> QED BY <2>4, <5>1, <5>2, <5>4, <5>5
      <4> QED BY <4>1, <4>2, <4>3
    <3>4. ASSUME NEW g \in Headers' \ {HeapStart}
          PROVE  header'[g].prev \in Headers' \ {Last} /\ header'[header'[g].prev].next = g
      <4>1. CASE g = p
        BY <1>1, <2>4, <2>7, <4>1
      <4>2. CASE g = t
        <5>1. p # Last
          BY <2>2 DEF ListIsSound
        <5> QED BY <1>1, <2>4, <2>7, <4>2, <5>1
      <4>3. CASE g # p /\ g # t
        <5>1. /\ g \in Headers \ {HeapStart}
              /\ header'[g].prev = header[g].prev
          BY <2>4, <2>5, <2>7, <4>3
        <5>2. header[g].prev \in Headers \ {Last} /\ header[header[g].prev].next = g
          BY <5>1 DEF ListIsSound
        <5>3. header[g].prev # h
          BY <5>2, <4>3 DEF t
        <5>4. header'[header[g].prev].next = g
          BY <2>5, <2>7, <5>2, <5>3
        <5> QED BY <2>4, <5>1, <5>2, <5>4
      <4> QED BY <4>1, <4>2, <4>3
    <3> QED BY <3>1, <3>2, <3>3, <3>4 DEF ListIsSound
  <2>10. NoFreeNeighbours'
    <3> SUFFICES ASSUME NEW g \in Headers', header'[g].status = FREE
                 PROVE  header'[header'[g].next].status = USED
      BY DEF NoFreeNeighbours
    <3>1. g # h /\ g # t
      BY <2>7 DEF FREE, USED
    <3>2. CASE g = p
      BY <2>7, <3>2
    <3>3. CASE g # p
      <4>1. g \in Headers /\ header'[g] = header[g]
        BY <2>4, <2>5, <3>1, <3>3
      <4>2. header[header[g].next].status = USED /\ header[g].next \in Headers
        BY <4>1 DEF ListInv, NoFreeNeighbours, HeaderType
      <4>3. header'[header[g].next].status = USED
        BY <2>5, <2>7, <4>2
      <4> QED BY <4>1, <4>3
    <3> QED BY <3>2, <3>3
  <2>11. \A g \in Headers \ {h} : /\ header'[g].status = header[g].status
                                  /\ header'[g].next = header[g].next
    BY <1>1, <2>5, <2>7 DEF t
  <2>12. header'[h].next >= h + HeaderSize + n
    BY <1>1, <2>2, <2>7 DEF p
  <2> QED BY <2>4, <2>7, <2>8, <2>9, <2>10, <2>11, <2>12 DEF ListInv
<1> QED BY <1>2, <1>3

\* Giving the block of h back keeps the list sound; headers it absorbs were
\* free or are h itself, and no other used header changes status or next.
LEMMA FreeKeepsList ==
  ASSUME ListInv,
         NEW h \in Headers \ {Last}, header[h].status = USED,
         Coalesce(h)
  PROVE  /\ ListInv'
         /\ Headers' \subseteq Headers
         /\ \A g \in Headers \ {h} : header[g].status = USED =>
              /\ g \in Headers'
              /\ header'[g].status = USED
              /\ header'[g].next = header[g].next
         /\ \A g \in Headers' : header'[g].status = USED =>
              g # h /\ header[g].status = USED
<1> DEFINE p == header[h].prev
           n == header[h].next
           b == Base(h)
           t == Top(h)
           A == Absorbed(h)
<1>1. /\ h \in Nat /\ h # 0 /\ n \in Headers /\ n \in Nat /\ n # h
      /\ n - h >= HeaderSize + MinBlock
      /\ header[n].prev = h
      /\ \A g \in Headers : ~(h < g /\ g < n)
  BY ListFacts
<1>2. ASSUME p # 0
      PROVE  /\ p \in Headers \ {Last} /\ p \in Nat /\ p < h
             /\ header[p].next = h
             /\ \A g \in Headers : ~(p < g /\ g < h)
             /\ h # HeapStart
  <2>1. h # HeapStart
    BY <1>2 DEF ListInv, ListIsSound
  <2>2. p \in Headers \ {Last} /\ header[p].next = h
    BY <2>1 DEF ListInv, ListIsSound
  <2>3. /\ p \in Nat /\ h - p >= HeaderSize + MinBlock
        /\ \A g \in Headers : ~(p < g /\ g < h)
    <3> HIDE DEF p
    <3> QED BY <2>2, ListFacts
  <2>4. p < h
    <3> HIDE DEF p
    <3> QED BY <1>1, <2>3, LastType
  <2> QED BY <2>1, <2>2, <2>3, <2>4
<1>3. ASSUME header[n].status = FREE
      PROVE  /\ n \in Headers \ {Last}
             /\ header[n].next \in Headers /\ header[n].next \in Nat
             /\ header[n].next - n >= HeaderSize + MinBlock
             /\ header[header[n].next].prev = n
             /\ \A g \in Headers : ~(n < g /\ g < header[n].next)
             /\ header[header[n].next].status = USED
  <2>1. n \in Headers \ {Last}
    <3>1. header[Last].status = USED
      BY DEF ListInv, ListIsSound
    <3> HIDE DEF n
    <3> QED BY <1>1, <1>3, <3>1 DEF FREE, USED
  <2> HIDE DEF n
  <2> QED BY <1>3, <2>1, ListFacts
(* The merged block: where it starts and ends, and what it swallows. *)
<1>4. /\ b \in Headers \ {Last} /\ b \in Nat /\ b <= h
      /\ t \in Headers /\ t \in Nat /\ t - b >= HeaderSize + MinBlock
      /\ header[t].status = USED
      /\ b \notin A /\ t \notin A /\ A \subseteq Headers
      /\ \A g \in Headers \ A : ~(b < g /\ g < t)
      /\ \A g \in A : g = h \/ (g = n /\ header[n].status = FREE)
      /\ \A g \in A : b < g /\ g < t
      /\ h \in A \/ h = b
      /\ b # h => header[b].status = FREE
  <2>1. header[n].status \in {FREE, USED}
    BY <1>1, FieldTypes DEF ListInv
  <2>2. CASE MergesPrevious(h) /\ MergesNext(h)
    <3>1. b = p /\ t = header[n].next /\ A = {h, n}
      BY <2>2 DEF Base, Top, Absorbed
    <3>2. p # 0 /\ header[p].status = FREE /\ header[n].status = FREE
      BY <2>1, <2>2 DEF MergesPrevious, MergesNext
    <3> HIDE DEF p, n, b, t, A
    <3>3. b \in Nat /\ b <= h /\ t \in Nat /\ h < t /\ t - b >= HeaderSize + MinBlock
      BY <1>1, <1>2, <1>3, <3>1, <3>2, LastType
    <3>4. \A g \in Headers \ A : ~(b < g /\ g < t)
      BY <1>1, <1>2, <1>3, <3>1, <3>2, <3>3, HeaderIsAddress DEF ListInv
    <3>5. b \in Headers \ {Last} /\ t \in Headers /\ header[t].status = USED
      BY <1>1, <1>2, <1>3, <3>1, <3>2
    <3>6. b \notin A /\ t \notin A /\ A \subseteq Headers
      BY <1>1, <1>2, <1>3, <3>1, <3>2, <3>3, LastType
    <3>7. /\ \A g \in A : g = h \/ (g = n /\ header[n].status = FREE)
          /\ h \in A \/ h = b
          /\ b # h => header[b].status = FREE
      BY <3>1, <3>2
    <3>8. \A g \in A : b < g /\ g < t
      BY <1>1, <1>2, <1>3, <3>1, <3>2, <3>3, LastType
    <3> QED BY <3>3, <3>4, <3>5, <3>6, <3>7, <3>8
  <2>3. CASE MergesPrevious(h) /\ ~MergesNext(h)
    <3>1. b = p /\ t = n /\ A = {h}
      BY <2>3 DEF Base, Top, Absorbed
    <3>2. p # 0 /\ header[p].status = FREE /\ header[n].status = USED
      BY <2>1, <2>3 DEF MergesPrevious, MergesNext
    <3> HIDE DEF p, n, b, t, A
    <3>3. b \in Nat /\ b <= h /\ t \in Nat /\ h < t /\ t - b >= HeaderSize + MinBlock
      BY <1>1, <1>2, <3>1, <3>2, LastType
    <3>4. \A g \in Headers \ A : ~(b < g /\ g < t)
      BY <1>1, <1>2, <3>1, <3>2, <3>3, HeaderIsAddress DEF ListInv
    <3>5. b \in Headers \ {Last} /\ t \in Headers /\ header[t].status = USED
      BY <1>1, <1>2, <3>1, <3>2
    <3>6. b \notin A /\ t \notin A /\ A \subseteq Headers
      BY <1>1, <1>2, <3>1, <3>2, <3>3, LastType
    <3>7. /\ \A g \in A : g = h \/ (g = n /\ header[n].status = FREE)
          /\ h \in A \/ h = b
          /\ b # h => header[b].status = FREE
      BY <3>1, <3>2
    <3>8. \A g \in A : b < g /\ g < t
      BY <1>1, <1>2, <3>1, <3>2, <3>3, LastType
    <3> QED BY <3>3, <3>4, <3>5, <3>6, <3>7, <3>8
  <2>4. CASE ~MergesPrevious(h) /\ MergesNext(h)
    <3>1. b = h /\ t = header[n].next /\ A = {n}
      BY <2>4 DEF Base, Top, Absorbed
    <3>2. header[n].status = FREE
      BY <2>1, <2>4 DEF MergesPrevious, MergesNext
    <3> HIDE DEF p, n, b, t, A
    <3>3. b \in Nat /\ b <= h /\ t \in Nat /\ h < t /\ t - b >= HeaderSize + MinBlock
      BY <1>1, <1>3, <3>1, <3>2, LastType
    <3>4. \A g \in Headers \ A : ~(b < g /\ g < t)
      BY <1>1, <1>3, <3>1, <3>2, <3>3, HeaderIsAddress DEF ListInv
    <3>5. b \in Headers \ {Last} /\ t \in Headers /\ header[t].status = USED
      BY <1>1, <1>3, <3>1, <3>2
    <3>6. b \notin A /\ t \notin A /\ A \subseteq Headers
      BY <1>1, <1>3, <3>1, <3>2, <3>3, LastType
    <3>7. /\ \A g \in A : g = h \/ (g = n /\ header[n].status = FREE)
          /\ h \in A \/ h = b
          /\ b # h => header[b].status = FREE
      BY <3>1, <3>2
    <3>8. \A g \in A : b < g /\ g < t
      BY <1>1, <1>3, <3>1, <3>2, <3>3, LastType
    <3> QED BY <3>3, <3>4, <3>5, <3>6, <3>7, <3>8
  <2>5. CASE ~MergesPrevious(h) /\ ~MergesNext(h)
    <3>1. b = h /\ t = n /\ A = {}
      BY <2>5 DEF Base, Top, Absorbed
    <3>2. header[n].status = USED
      BY <2>1, <2>5 DEF MergesPrevious, MergesNext
    <3> HIDE DEF p, n, b, t, A
    <3>3. b \in Nat /\ b <= h /\ t \in Nat /\ h < t /\ t - b >= HeaderSize + MinBlock
      BY <1>1, <3>1, <3>2, LastType
    <3>4. \A g \in Headers \ A : ~(b < g /\ g < t)
      BY <1>1, <3>1, <3>2, <3>3, HeaderIsAddress DEF ListInv
    <3>5. b \in Headers \ {Last} /\ t \in Headers /\ header[t].status = USED
      BY <1>1, <3>1, <3>2
    <3>6. b \notin A /\ t \notin A /\ A \subseteq Headers
      BY <1>1, <3>1, <3>2, <3>3, LastType
    <3>7. /\ \A g \in A : g = h \/ (g = n /\ header[n].status = FREE)
          /\ h \in A \/ h = b
          /\ b # h => header[b].status = FREE
      BY <3>1, <3>2
    <3>8. \A g \in A : b < g /\ g < t
      BY <1>1, <3>1, <3>2, <3>3, LastType
    <3> QED BY <3>3, <3>4, <3>5, <3>6, <3>7, <3>8
  <2> QED BY <2>2, <2>3, <2>4, <2>5
<1>5. /\ Headers' = Headers \ A
      /\ header' = [g \in Headers' |-> header'[g]]
      /\ header'[b] = [header[b] EXCEPT !.status = FREE, !.next = t]
      /\ header'[t] = [header[t] EXCEPT !.prev = b]
      /\ \A g \in Headers' \ {b, t} : header'[g] = header[g]
      /\ b # t
  <2>1. b # t
    <3> HIDE DEF b, t
    <3> QED BY <1>4, LastType
  <2>2. Headers' = Headers \ A
    BY DEF Coalesce, Headers
  <2>3. header' = [g \in Headers \ A |->
           CASE g = b -> [header[g] EXCEPT !.status = FREE, !.next = t]
             [] g = t -> [header[g] EXCEPT !.prev = b]
             [] OTHER -> header[g]]
    BY DEF Coalesce
  <2>4. /\ header'[b] = [header[b] EXCEPT !.status = FREE, !.next = t]
        /\ header'[t] = [header[t] EXCEPT !.prev = b]
        /\ \A g \in Headers' \ {b, t} : header'[g] = header[g]
        /\ header' = [g \in Headers' |-> header'[g]]
    <3> HIDE DEF b, t, A
    <3> QED BY <1>4, <2>1, <2>2, <2>3
  <2> QED BY <2>1, <2>2, <2>3, <2>4
(* next of a header that stays leads to a header that stays, and only b's  *)
(* leads to t.                                                             *)
<1>6. ASSUME NEW g \in Headers \ {Last}, g \notin A, g # b
      PROVE  /\ header[g].next \in Headers \ A
             /\ header[g].next # t
             /\ g < b \/ t <= g
  <2>1. /\ g \in Nat /\ header[g].next \in Headers /\ header[g].next \in Nat
        /\ header[g].next - g >= HeaderSize + MinBlock
        /\ header[header[g].next].prev = g
        /\ \A f \in Headers : ~(g < f /\ f < header[g].next)
    BY ListFacts
  <2> HIDE DEF p, n, b, t, A
  <2>2. g < b \/ t <= g
    BY <1>4, <1>6, <2>1
  <2>3. CASE g < b
    <3>1. header[g].next <= b
      BY <1>4, <2>1, <2>3
    <3>2. header[g].next < t
      BY <1>4, <2>1, <3>1, LastType
    <3>3. header[g].next \notin A
      <4>1. CASE header[g].next = b
        BY <4>1, <1>4
      <4>2. CASE header[g].next < b
        BY <4>2, <1>1, <1>4, <2>1
      <4> QED BY <3>1, <4>1, <4>2, <1>4, <2>1
    <3> QED BY <2>1, <2>2, <3>2, <3>3, <1>4
  <2>4. CASE t <= g
    <3>1. header[g].next > t
      BY <1>4, <2>1, <2>4, LastType
    <3>2. \A f \in A : f < t
      BY <1>4
    <3> QED BY <2>1, <2>2, <3>1, <3>2, <1>4
  <2> QED BY <2>2, <2>3, <2>4
<1> HIDE DEF p, n, b, t, A
<1>7. \A g \in Headers : header[g] \in [status : {FREE, USED}, prev : Headers \cup {0}, next : Headers]
  BY DEF ListInv, HeaderType
<1>8. /\ header'[b].status = FREE /\ header'[b].prev = header[b].prev /\ header'[b].next = t
      /\ header'[t].status = USED /\ header'[t].prev = b /\ header'[t].next = header[t].next
  BY <1>4, <1>5, <1>7
(* prev of a header that stays is a header that stays. *)
<1>9. ASSUME NEW g \in Headers' \ {HeapStart}, g # t
      PROVE  /\ header[g].prev \in Headers \ {Last}
             /\ header[g].prev \notin A /\ header[g].prev # b
             /\ header[header[g].prev].next = g
  <2> DEFINE q == header[g].prev
  <2>1. g \in Headers /\ g \notin A /\ g \in Nat
    BY <1>5, HeaderIsAddress DEF ListInv
  <2>2. q \in Headers \ {Last} /\ header[q].next = g
    BY <2>1, <1>9 DEF ListInv, ListIsSound
  <2> HIDE DEF q
  <2>3. q \in Nat /\ q < g /\ \A f \in Headers : ~(q < f /\ f < g)
    <3>1. /\ q \in Nat /\ g - q >= HeaderSize + MinBlock
          /\ \A f \in Headers : ~(q < f /\ f < g)
      BY <2>2, ListFacts
    <3> QED BY <3>1, <2>1, LastType
  <2>4. ~(b <= q /\ q < t)
    BY <1>4, <1>9, <2>1, <2>3
  <2>5. b < t
    BY <1>4, LastType
  <2>6. q # b
    BY <1>4, <2>4, <2>5
  <2>7. q \notin A
    <3> SUFFICES ASSUME q \in A PROVE FALSE
      OBVIOUS
    <3>1. b < q /\ q < t
      BY <1>4
    <3> QED BY <1>4, <2>3, <2>4, <3>1
  <2> QED BY <2>2, <2>6, <2>7 DEF q
<1>10. HeaderType'
  <2>1. \A g \in Headers' : header'[g] \in [status : {FREE, USED}, prev : Headers' \cup {0}, next : Headers']
    <3> SUFFICES ASSUME NEW g \in Headers'
                 PROVE  header'[g] \in [status : {FREE, USED}, prev : Headers' \cup {0}, next : Headers']
      OBVIOUS
    <3>1. g \in Headers \ A /\ b \in Headers' /\ t \in Headers'
      BY <1>4, <1>5
    <3>2. g # t => header[g].prev \in Headers' \cup {0}
      <4>1. header[HeapStart].prev = 0
        BY DEF ListInv, ListIsSound
      <4> QED BY <1>5, <1>9, <4>1
    <3>3. g # b => header[g].next \in Headers'
      <4>1. header[Last].next = Last /\ Last \in Headers
        BY DEF ListInv, ListIsSound
      <4> QED BY <1>5, <1>6, <3>1, <4>1
    <3>4. CASE g = b
      BY <1>4, <1>5, <1>7, <3>1, <3>2, <3>4
    <3>5. CASE g = t
      BY <1>4, <1>5, <1>7, <3>1, <3>3, <3>5
    <3>6. CASE g # b /\ g # t
      BY <1>5, <1>7, <3>1, <3>2, <3>3, <3>6
    <3> QED BY <3>4, <3>5, <3>6
  <2>2. Headers' \subseteq HeapStart .. Last
    BY <1>5 DEF ListInv, HeaderType
  <2> QED BY <1>5, <2>1, <2>2 DEF HeaderType
<1>11. ListIsSound'
  <2>1. HeapStart \in Headers' /\ header'[HeapStart].prev = 0
    <3>1. HeapStart \in Headers /\ header[HeapStart].prev = 0
      BY DEF ListInv, ListIsSound
    <3>2. HeapStart <= b
      BY <1>4, HeaderIsAddress DEF ListInv
    <3>3. HeapStart \notin A /\ HeapStart # t
      BY <1>4, <3>2, LastType
    <3> QED BY <1>5, <1>8, <3>1, <3>3
  <2>2. Last \in Headers' /\ header'[Last].status = USED /\ header'[Last].next = Last
    <3>1. Last \in Headers /\ header[Last].status = USED /\ header[Last].next = Last
      BY DEF ListInv, ListIsSound
    <3>2. Last # b /\ t <= Last
      BY <1>4, HeaderIsAddress DEF ListInv
    <3>3. Last \notin A
      BY <1>4, <3>2, LastType
    <3> QED BY <1>5, <1>8, <3>1, <3>2, <3>3
  <2>3. ASSUME NEW g \in Headers' \ {Last}
        PROVE  LET m == header'[g].next
               IN  /\ m - g >= HeaderSize + MinBlock
                   /\ header'[m].prev = g
                   /\ \A f \in Headers' : ~(g < f /\ f < m)
    <3>1. CASE g = b
      BY <1>4, <1>5, <1>8, <3>1
    <3>2. CASE g # b
      <4>1. g \in Headers \ {Last} /\ g \notin A
        BY <1>5
      <4>2. /\ header[g].next - g >= HeaderSize + MinBlock
            /\ header[header[g].next].prev = g
            /\ \A f \in Headers : ~(g < f /\ f < header[g].next)
        BY <4>1, ListFacts
      <4>3. header'[g].next = header[g].next
        BY <1>5, <1>8, <3>2
      <4>4. header[g].next \in Headers' /\ header[g].next # t
        BY <1>5, <1>6, <3>2, <4>1
      <4>5. header'[header[g].next].prev = header[header[g].next].prev
        BY <1>5, <1>8, <4>4
      <4> QED BY <1>5, <4>2, <4>3, <4>5
    <3> QED BY <3>1, <3>2
  <2>4. ASSUME NEW g \in Headers' \ {HeapStart}
        PROVE  header'[g].prev \in Headers' \ {Last} /\ header'[header'[g].prev].next = g
    <3>1. CASE g = t
      BY <1>4, <1>5, <1>8, <3>1
    <3>2. CASE g # t
      <4>1. header'[g].prev = header[g].prev
        BY <1>5, <1>8, <3>2
      <4>2. /\ header[g].prev \in Headers' \ {Last} /\ header[g].prev # b
            /\ header[header[g].prev].next = g
        BY <1>5, <1>9, <3>2
      <4>3. header'[header[g].prev].next = header[header[g].prev].next
        BY <1>5, <1>8, <4>2
      <4> QED BY <4>1, <4>2, <4>3
    <3> QED BY <3>1, <3>2
  <2> QED BY <2>1, <2>2, <2>3, <2>4 DEF ListIsSound
(* A used header other than h stays, with its status and next. *)
<1>12. ASSUME NEW g \in Headers \ {h}, header[g].status = USED
       PROVE  /\ g \in Headers' /\ g # b
              /\ header'[g].status = USED
              /\ header'[g].next = header[g].next
  <2>1. g \notin A /\ g # b
    BY <1>4, <1>12 DEF FREE, USED
  <2> QED BY <1>5, <1>8, <1>12, <2>1
<1>13. \A g \in Headers' : header'[g].status = USED => g # h /\ header[g].status = USED
  <2> SUFFICES ASSUME NEW g \in Headers', header'[g].status = USED
               PROVE  g # h /\ header[g].status = USED
    OBVIOUS
  <2>1. g # b
    BY <1>8 DEF FREE, USED
  <2>2. g # h
    BY <1>4, <1>5, <2>1
  <2> QED BY <1>4, <1>5, <2>1, <2>2
<1>14. NoFreeNeighbours'
  <2> SUFFICES ASSUME NEW g \in Headers', header'[g].status = FREE
               PROVE  header'[header'[g].next].status = USED
    BY DEF NoFreeNeighbours
  <2>1. CASE g = b
    BY <1>8, <2>1
  <2>2. CASE g # b
    <3>0. FREE # USED
      BY DEF FREE, USED
    <3>1. g \in Headers \ A /\ g # t /\ header'[g] = header[g]
      <4>1. g # t
        BY <1>8, <3>0
      <4> QED BY <1>5, <2>2, <4>1
    <3>2. g # Last
      BY <3>1 DEF ListInv, ListIsSound, FREE, USED
    <3>3. header[g].next \in Headers \ A /\ header[header[g].next].status = USED
      BY <1>6, <2>2, <3>1, <3>2, ListFacts
    <3>4. header[g].next # h
      <4> SUFFICES ASSUME header[g].next = h PROVE FALSE
        OBVIOUS
      <4>1. header[h].prev = g /\ g # 0
        BY <3>1, <3>2, ListFacts
      <4>2. MergesPrevious(h)
        BY <3>1, <4>1 DEF MergesPrevious
      <4>3. b = g
        BY <4>1, <4>2 DEF b, Base
      <4> QED BY <2>2, <4>3
    <3>5. header'[header[g].next].status = USED
      BY <1>12, <3>3, <3>4
    <3> QED BY <3>1, <3>5
  <2> QED BY <2>1, <2>2
<1> QED BY <1>5, <1>10, <1>11, <1>12, <1>13, <1>14 DEF ListInv

-----------------------------------------------------------------------------
(* Who owns which header.                                                  *)

LEMMA SizedType ==
  ASSUME NEW bytes \in Requests
  PROVE  Sized(bytes) \in Nat /\ Sized(bytes) >= MinBlock
BY HeapAssumption DEF Sized

LEMMA HeapIsList ==
  ASSUME HeapInv
  PROVE  ListInv
BY DEF HeapInv, TypeOK, ListInv, HeaderType

\* What a live block is, with the types of its parts.
LEMMA BlockFacts ==
  ASSUME HeapInv, NEW a \in DOMAIN live
  PROVE  /\ a \in Nat /\ live[a] \in Nat /\ live[a] >= MinBlock
         /\ a - HeaderSize \in Headers \ (lost \cup {Last})
         /\ a - HeaderSize \in Nat
         /\ header[a - HeaderSize].status = USED
         /\ a + live[a] <= header[a - HeaderSize].next
<1>1. a \in Nat /\ live[a] \in Nat
  BY DEF HeapInv, TypeOK
<1>2. /\ a - HeaderSize \in Headers \ (lost \cup {Last})
      /\ header[a - HeaderSize].status = USED
      /\ live[a] >= MinBlock
      /\ a + live[a] <= header[a - HeaderSize].next
  BY DEF HeapInv, HeadersAreOwned
<1>3. a - HeaderSize \in Nat
  BY <1>2, HeapIsList, HeaderIsAddress DEF ListInv
<1> QED BY <1>1, <1>2, <1>3

\* Serving a request takes a header nobody owns and leaves the owners of the
\* others what they own.
LEMMA TakeKeepsOwners ==
  ASSUME HeapInv, NEW n \in Nat, n >= MinBlock,
         NEW h, h = Min(Fitting(n)), Fitting(n) # {}, Take(h, n)
  PROVE  /\ ListInv'
         /\ h \in Headers' \ (lost \cup {Last}) /\ h \in Nat
         /\ header'[h].status = USED
         /\ header'[h].next >= h + HeaderSize + n
         /\ \A b \in DOMAIN live :
              /\ b - HeaderSize \in Headers' \ (lost \cup {h, Last})
              /\ header'[b - HeaderSize].status = USED
              /\ live[b] >= MinBlock
              /\ b + live[b] <= header'[b - HeaderSize].next
         /\ \A g \in Headers' \ {Last} : header'[g].status = USED =>
              g = h \/ g + HeaderSize \in DOMAIN live \/ g \in lost
         /\ \A g \in lost : g \in Headers' \ {Last} /\ header'[g].status = USED
<1>1. ListInv
  BY HeapIsList
<1>2. /\ h \in Headers \ {Last} /\ header[h].status = FREE
      /\ header[h].next - h >= HeaderSize + n
  BY <1>1, FittingHeader
<1>3. /\ ListInv'
      /\ Headers \subseteq Headers'
      /\ header'[h].status = USED
      /\ header'[h].next >= h + HeaderSize + n
      /\ \A g \in Headers \ {h} : /\ header'[g].status = header[g].status
                                  /\ header'[g].next = header[g].next
      /\ \A g \in Headers' \ Headers : header'[g].status = FREE
  BY <1>1, <1>2, TakeKeepsList
<1>4. FREE # USED
  BY DEF FREE, USED
<1>5. \A g \in lost : g \in Headers \ {h, Last} /\ header[g].status = USED
  BY <1>2, <1>4 DEF HeapInv, HeadersAreOwned
<1>6. h \in Nat
  BY <1>1, <1>2, HeaderIsAddress DEF ListInv
<1>7. ASSUME NEW b \in DOMAIN live
      PROVE  /\ b - HeaderSize \in Headers' \ (lost \cup {h, Last})
             /\ header'[b - HeaderSize].status = USED
             /\ live[b] >= MinBlock
             /\ b + live[b] <= header'[b - HeaderSize].next
  <2>1. b - HeaderSize # h
    BY <1>2, <1>4, BlockFacts
  <2> QED BY <1>3, <2>1, BlockFacts
<1>8. ASSUME NEW g \in Headers' \ {Last}, header'[g].status = USED, g # h
      PROVE  g + HeaderSize \in DOMAIN live \/ g \in lost
  <2>1. g \in Headers /\ header[g].status = USED
    BY <1>3, <1>4, <1>8
  <2> QED BY <1>8, <2>1 DEF HeapInv, HeadersAreOwned
<1> QED BY <1>2, <1>3, <1>5, <1>6, <1>7, <1>8

\* The pages of an area are page numbers.
LEMMA AreaType ==
  ASSUME NEW a \in Nat, NEW n \in Nat
  PROVE  Area(a, n) \subseteq Nat
<1>1. Page(a) \in Nat /\ Page(a + n) \in Nat
  BY PageType
<1> QED BY <1>1 DEF Area

LEMMA KmallocStep ==
  ASSUME HeapInv, NEW bytes \in Requests, kmalloc(bytes)
  PROVE  HeapInv'
<1> DEFINE n == Sized(bytes)
           h == Min(Fitting(n))
           a == h + HeaderSize
<1>1. n \in Nat /\ n >= MinBlock
  BY SizedType
<1>2. /\ Fitting(n) # {} /\ Take(h, n) /\ mapped' = mapped \cup Area(a, n)
      /\ live' = [b \in DOMAIN live \cup {a} |-> IF b = a THEN n ELSE live[b]]
      /\ lost' = lost /\ faulted' = faulted
  BY DEF kmalloc, MapArea
<1> HIDE DEF n
<1>3. /\ ListInv'
      /\ h \in Headers' \ (lost \cup {Last}) /\ h \in Nat
      /\ header'[h].status = USED
      /\ header'[h].next >= h + HeaderSize + n
      /\ \A b \in DOMAIN live :
           /\ b - HeaderSize \in Headers' \ (lost \cup {h, Last})
           /\ header'[b - HeaderSize].status = USED
           /\ live[b] >= MinBlock
           /\ b + live[b] <= header'[b - HeaderSize].next
      /\ \A g \in Headers' \ {Last} : header'[g].status = USED =>
           g = h \/ g + HeaderSize \in DOMAIN live \/ g \in lost
      /\ \A g \in lost : g \in Headers' \ {Last} /\ header'[g].status = USED
  BY <1>1, <1>2, TakeKeepsOwners
<1> HIDE DEF h
<1>4. a \in Nat /\ a - HeaderSize = h /\ h + HeaderSize = a
  BY <1>3, LastType
<1> HIDE DEF a
<1>5. /\ DOMAIN live' = DOMAIN live \cup {a}
      /\ live'[a] = n
      /\ \A b \in DOMAIN live \ {a} : live'[b] = live[b]
  BY <1>2
<1>6. HeadersAreOwned'
  <2>1. ASSUME NEW b \in DOMAIN live'
        PROVE  /\ b - HeaderSize \in Headers' \ (lost' \cup {Last})
               /\ header'[b - HeaderSize].status = USED
               /\ live'[b] >= MinBlock
               /\ b + live'[b] <= header'[b - HeaderSize].next
    <3>1. CASE b = a
      BY <1>1, <1>2, <1>3, <1>4, <1>5, <3>1
    <3>2. CASE b # a
      BY <1>2, <1>3, <1>5, <2>1, <3>2
    <3> QED BY <3>1, <3>2
  <2>2. \A g \in Headers' \ {Last} :
          header'[g].status = USED => g + HeaderSize \in DOMAIN live' \/ g \in lost'
    BY <1>2, <1>3, <1>4, <1>5
  <2>3. \A g \in lost' : g \in Headers' \ {Last} /\ header'[g].status = USED
    BY <1>2, <1>3
  <2> QED BY <2>1, <2>2, <2>3 DEF HeadersAreOwned
<1>7. TypeOK'
  <2>1. mapped' \subseteq Nat
    BY <1>1, <1>2, <1>4, AreaType DEF HeapInv, TypeOK
  <2>2. DOMAIN live' \subseteq Nat /\ live' \in [DOMAIN live' -> Nat]
    <3>1. DOMAIN live \subseteq Nat /\ \A b \in DOMAIN live : live[b] \in Nat
      BY DEF HeapInv, TypeOK
    <3> QED BY <1>1, <1>2, <1>4, <1>5, <3>1
  <2>3. lost' \subseteq Nat /\ faulted' \in BOOLEAN
    BY <1>2, Zenon DEF HeapInv, TypeOK
  <2> QED BY <1>3, <2>1, <2>2, <2>3, Zenon DEF TypeOK, ListInv, HeaderType
<1> QED BY <1>3, <1>6, <1>7 DEF HeapInv, ListInv

LEMMA UnmappedStep ==
  ASSUME HeapInv, NEW bytes \in Requests, kmalloc_unmapped(bytes)
  PROVE  HeapInv'
<1> DEFINE n == Sized(bytes)
           h == Min(Fitting(n))
<1>1. n \in Nat /\ n >= MinBlock
  BY SizedType
<1>2. /\ Fitting(n) # {} /\ Take(h, n)
      /\ MapAreaFails(Area(h + HeaderSize, n))
      /\ lost' = lost \cup {h} /\ live' = live /\ faulted' = faulted
  BY DEF kmalloc_unmapped
<1> HIDE DEF n
<1>3. /\ ListInv'
      /\ h \in Headers' \ (lost \cup {Last}) /\ h \in Nat
      /\ header'[h].status = USED
      /\ header'[h].next >= h + HeaderSize + n
      /\ \A b \in DOMAIN live :
           /\ b - HeaderSize \in Headers' \ (lost \cup {h, Last})
           /\ header'[b - HeaderSize].status = USED
           /\ live[b] >= MinBlock
           /\ b + live[b] <= header'[b - HeaderSize].next
      /\ \A g \in Headers' \ {Last} : header'[g].status = USED =>
           g = h \/ g + HeaderSize \in DOMAIN live \/ g \in lost
      /\ \A g \in lost : g \in Headers' \ {Last} /\ header'[g].status = USED
  BY <1>1, <1>2, TakeKeepsOwners
<1> HIDE DEF h
<1>4. HeadersAreOwned'
  BY <1>2, <1>3 DEF HeadersAreOwned
<1>5. mapped' \subseteq Nat
  <2>1. h + HeaderSize \in Nat
    BY <1>3, LastType
  <2> QED BY <1>1, <1>2, <2>1, AreaType DEF MapAreaFails, HeapInv, TypeOK
<1>6. TypeOK'
  <2>1. DOMAIN live' \subseteq Nat /\ live' \in [DOMAIN live' -> Nat]
    BY <1>2 DEF HeapInv, TypeOK
  <2>2. lost' \subseteq Nat /\ faulted' \in BOOLEAN
    BY <1>2, <1>3, Zenon DEF HeapInv, TypeOK
  <2> QED BY <1>3, <1>5, <2>1, <2>2, Zenon DEF TypeOK, ListInv, HeaderType
<1> QED BY <1>3, <1>4, <1>6 DEF HeapInv, ListInv

LEMMA RefusedStep ==
  ASSUME HeapInv, NEW bytes \in Requests, kmalloc_refused(bytes)
  PROVE  HeapInv'
<1>1. header' = header /\ live' = live /\ lost' = lost /\ faulted' = faulted
  BY DEF kmalloc_refused
<1>2. mapped' \subseteq Nat
  <2>1. Area(0, Sized(bytes)) \subseteq Nat
    BY SizedType, AreaType
  <2> QED BY <2>1 DEF kmalloc_refused, MapArea, MapAreaFails, HeapInv, TypeOK
<1>3. Headers' = Headers
  BY <1>1 DEF Headers
<1>4. TypeOK'
  BY <1>1, <1>2, <1>3, Zenon DEF HeapInv, TypeOK
<1> QED BY <1>1, <1>3, <1>4
    DEF HeapInv, ListIsSound, NoFreeNeighbours, HeadersAreOwned

LEMMA FaultStep ==
  ASSUME HeapInv, NEW bytes \in Requests, kmalloc_faults(bytes)
  PROVE  HeapInv'
<1>1. /\ header' = header /\ mapped' = mapped /\ live' = live /\ lost' = lost
      /\ faulted' \in BOOLEAN
  BY DEF kmalloc_faults
<1>2. Headers' = Headers
  BY <1>1 DEF Headers
<1>3. TypeOK'
  BY <1>1, <1>2, Zenon DEF HeapInv, TypeOK
<1> QED BY <1>1, <1>2, <1>3
    DEF HeapInv, ListIsSound, NoFreeNeighbours, HeadersAreOwned

LEMMA KfreeStep ==
  ASSUME HeapInv, NEW a \in DOMAIN live, kfree(a)
  PROVE  HeapInv'
<1> DEFINE h == a - HeaderSize
<1>1. /\ Coalesce(h)
      /\ live' = [b \in DOMAIN live \ {a} |-> live[b]]
      /\ mapped' = mapped /\ lost' = lost /\ faulted' = faulted
  BY DEF kfree
<1>2. /\ a \in Nat /\ h \in Headers \ (lost \cup {Last}) /\ h \in Nat
      /\ header[h].status = USED
      /\ ListInv
  BY BlockFacts, HeapIsList
<1>3. /\ ListInv'
      /\ Headers' \subseteq Headers
      /\ \A g \in Headers \ {h} : header[g].status = USED =>
           /\ g \in Headers'
           /\ header'[g].status = USED
           /\ header'[g].next = header[g].next
      /\ \A g \in Headers' : header'[g].status = USED =>
           g # h /\ header[g].status = USED
  <2> HIDE DEF h
  <2> QED BY <1>1, <1>2, FreeKeepsList
<1>4. /\ DOMAIN live' = DOMAIN live \ {a}
      /\ \A b \in DOMAIN live \ {a} : live'[b] = live[b]
  BY <1>1
<1>5. HeadersAreOwned'
  <2>1. ASSUME NEW b \in DOMAIN live'
        PROVE  /\ b - HeaderSize \in Headers' \ (lost' \cup {Last})
               /\ header'[b - HeaderSize].status = USED
               /\ live'[b] >= MinBlock
               /\ b + live'[b] <= header'[b - HeaderSize].next
    <3>1. b \in DOMAIN live /\ b # a /\ live'[b] = live[b]
      BY <1>4
    <3>2. b - HeaderSize # h
      BY <1>2, <3>1, BlockFacts, LastType
    <3> HIDE DEF h
    <3> QED BY <1>1, <1>3, <3>1, <3>2, BlockFacts
  <2>2. ASSUME NEW g \in Headers' \ {Last}, header'[g].status = USED
        PROVE  g + HeaderSize \in DOMAIN live' \/ g \in lost'
    <3>1. g \in Headers \ {Last} /\ g # h /\ header[g].status = USED
      BY <1>3, <2>2
    <3>2. g + HeaderSize \in DOMAIN live \/ g \in lost
      BY <3>1 DEF HeapInv, HeadersAreOwned
    <3>3. g + HeaderSize # a
      BY <1>2, <3>1, LastType, HeaderIsAddress DEF ListInv
    <3> QED BY <1>1, <1>4, <3>2, <3>3
  <2>3. \A g \in lost' : g \in Headers' \ {Last} /\ header'[g].status = USED
    <3>1. \A g \in lost : g \in Headers \ {Last} /\ header[g].status = USED /\ g # h
      BY <1>2 DEF HeapInv, HeadersAreOwned
    <3> HIDE DEF h
    <3> QED BY <1>1, <1>3, <3>1
  <2> QED BY <2>1, <2>2, <2>3 DEF HeadersAreOwned
<1>6. TypeOK'
  <2>1. mapped' \subseteq Nat /\ lost' \subseteq Nat /\ faulted' \in BOOLEAN
    BY <1>1, Zenon DEF HeapInv, TypeOK
  <2>2. DOMAIN live' \subseteq Nat /\ live' \in [DOMAIN live' -> Nat]
    BY <1>1, <1>4 DEF HeapInv, TypeOK
  <2> QED BY <1>3, <2>1, <2>2, Zenon DEF TypeOK, ListInv, HeaderType
<1> QED BY <1>3, <1>5, <1>6 DEF HeapInv, ListInv

LEMMA HeapStep ==
  ASSUME HeapInv, [Next]_vars
  PROVE  HeapInv'
<1>1. CASE UNCHANGED vars
  <2>1. /\ header' = header /\ mapped' = mapped /\ live' = live /\ lost' = lost
        /\ faulted' = faulted
    BY <1>1 DEF vars
  <2> QED BY <2>1, Zenon
      DEF HeapInv, TypeOK, ListIsSound, NoFreeNeighbours, HeadersAreOwned, Headers
<1>2. ASSUME NEW bytes \in Requests, kmalloc(bytes) PROVE HeapInv'
  BY <1>2, KmallocStep
<1>3. ASSUME NEW bytes \in Requests, kmalloc_unmapped(bytes) PROVE HeapInv'
  BY <1>3, UnmappedStep
<1>4. ASSUME NEW bytes \in Requests, kmalloc_refused(bytes) PROVE HeapInv'
  BY <1>4, RefusedStep
<1>5. ASSUME NEW bytes \in Requests, kmalloc_faults(bytes) PROVE HeapInv'
  BY <1>5, FaultStep
<1>6. ASSUME NEW a \in DOMAIN live, kfree(a) PROVE HeapInv'
  BY <1>6, KfreeStep
<1> QED BY <1>1, <1>2, <1>3, <1>4, <1>5, <1>6 DEF Next

THEOREM HeapInvariant == Spec => []HeapInv
<1>1. Init => HeapInv
  BY InitialHeap
<1>2. HeapInv /\ [Next]_vars => HeapInv'
  BY HeapStep
<1> QED BY <1>1, <1>2, PTL DEF Spec

\* In every state of every run of the heap, each variable has its type.
THEOREM TypeCorrect == Spec => []TypeOK
<1>1. HeapInv => TypeOK
  BY DEF HeapInv
<1> QED BY <1>1, HeapInvariant, PTL

\* Splitting and coalescing never break the doubly linked list of headers.
THEOREM ListIsAlwaysSound == Spec => []ListIsSound
<1>1. HeapInv => ListIsSound
  BY DEF HeapInv
<1> QED BY <1>1, HeapInvariant, PTL

\* kfree never leaves two free blocks side by side.
THEOREM AlwaysCoalesced == Spec => []NoFreeNeighbours
<1>1. HeapInv => NoFreeNeighbours
  BY DEF HeapInv
<1> QED BY <1>1, HeapInvariant, PTL

\* Used headers and blocks in use stay one to one.
THEOREM HeadersAreAlwaysOwned == Spec => []HeadersAreOwned
<1>1. HeapInv => HeadersAreOwned
  BY DEF HeapInv
<1> QED BY <1>1, HeapInvariant, PTL

-----------------------------------------------------------------------------
(* What the invariant means for the callers.                               *)

\* A block ends before the header of every block behind it, and no header
\* lies inside a block.
LEMMA BlockAndHeader ==
  ASSUME HeapInv, NEW a \in DOMAIN live, NEW g \in Headers
  PROVE  g + HeaderSize <= a \/ a + live[a] <= g
<1> DEFINE h == a - HeaderSize
<1>1. /\ a \in Nat /\ live[a] \in Nat /\ h \in Headers \ {Last} /\ h \in Nat
      /\ a + live[a] <= header[h].next /\ h + HeaderSize = a
  BY BlockFacts, LastType
<1>2. g \in Nat
  BY HeapIsList, HeaderIsAddress DEF ListInv
<1> HIDE DEF h
<1>3. header[h].next \in Nat /\ ~(h < g /\ g < header[h].next)
  BY <1>1, HeapIsList, ListFacts
<1>4. CASE g <= h
  BY <1>1, <1>2, <1>4, LastType
<1>5. CASE header[h].next <= g
  BY <1>1, <1>2, <1>3, <1>5
<1> QED BY <1>1, <1>2, <1>3, <1>4, <1>5

\* No byte is in two blocks, nor in a block and a header.
THEOREM NothingEverOverlaps == Spec => []NothingOverlaps
<1>1. HeapInv => NothingOverlaps
  <2> SUFFICES ASSUME HeapInv, NEW a \in DOMAIN live
               PROVE  /\ \A b \in DOMAIN live \ {a} :
                           Bytes(a, live[a]) \cap Bytes(b, live[b]) = {}
                      /\ \A h \in Headers : Bytes(a, live[a]) \cap Bytes(h, HeaderSize) = {}
    BY DEF NothingOverlaps
  <2>1. a \in Nat /\ live[a] \in Nat /\ a - HeaderSize \in Headers
    BY BlockFacts
  <2>2. ASSUME NEW b \in DOMAIN live \ {a}
        PROVE  Bytes(a, live[a]) \cap Bytes(b, live[b]) = {}
    <3>1. b \in Nat /\ live[b] \in Nat /\ b - HeaderSize \in Headers
      BY BlockFacts
    <3>2. b <= a \/ a + live[a] <= b - HeaderSize
      BY <2>1, <3>1, BlockAndHeader, LastType
    <3>3. a <= b \/ b + live[b] <= a - HeaderSize
      BY <2>1, <3>1, BlockAndHeader, LastType
    <3>4. a + live[a] <= b \/ b + live[b] <= a
      BY <2>1, <3>1, <3>2, <3>3, LastType
    <3> QED BY <2>1, <3>1, <3>4 DEF Bytes
  <2>3. ASSUME NEW h \in Headers
        PROVE  Bytes(a, live[a]) \cap Bytes(h, HeaderSize) = {}
    <3>1. h + HeaderSize <= a \/ a + live[a] <= h
      BY BlockAndHeader
    <3>2. h \in Nat
      BY HeapIsList, HeaderIsAddress DEF ListInv
    <3> QED BY <2>1, <3>1, <3>2, LastType DEF Bytes
  <2> QED BY <2>2, <2>3
<1> QED BY <1>1, HeapInvariant, PTL

\* Once all blocks are back, the heap is the single block it started as.
THEOREM FreedHeapIsAlwaysWhole == Spec => []FreedHeapIsWhole
<1>1. HeapInv => FreedHeapIsWhole
  <2> SUFFICES ASSUME HeapInv, DOMAIN live = {}, lost = {}
               PROVE  Headers = {HeapStart, Last}
    BY DEF FreedHeapIsWhole
  <2>1. ListInv /\ HeapStart \in Headers \ {Last} /\ Last \in Headers
    BY HeapIsList, LastType DEF ListInv, ListIsSound
  <2>2. \A h \in Headers \ {Last} : header[h].status = FREE
    <3> SUFFICES ASSUME NEW h \in Headers \ {Last} PROVE header[h].status = FREE
      OBVIOUS
    <3>1. header[h].status # USED
      BY DEF HeapInv, HeadersAreOwned
    <3> QED BY <2>1, <3>1, ListFacts
  <2>3. header[HeapStart].next = Last
    BY <2>1, <2>2, ListFacts DEF FREE, USED
  <2>4. \A g \in Headers : ~(HeapStart < g /\ g < Last)
    BY <2>1, <2>3, ListFacts
  <2>5. \A g \in Headers : HeapStart <= g /\ g <= Last /\ g \in Nat
    BY <2>1, HeaderIsAddress DEF ListInv
  <2>6. \A g \in Headers : g = HeapStart \/ g = Last
    BY <2>4, <2>5, LastType
  <2> QED BY <2>1, <2>6, Zenon
<1> QED BY <1>1, HeapInvariant, PTL

-----------------------------------------------------------------------------
(* Pages.                                                                  *)

LEMMA PageOf ==
  ASSUME NEW q \in Nat, NEW x \in Nat, PageSize * q <= x, x < PageSize * q + PageSize
  PROVE  Page(x) = q
<1> DEFINE p == Page(x)
<1>1. PageSize \in Nat \ {0}
  BY HeapAssumption
<1>2. p \in Int /\ x % PageSize \in 0 .. PageSize - 1 /\ x = PageSize * p + (x % PageSize)
  BY <1>1, Division DEF Page
<1> HIDE DEF p
<1>3. CASE p >= q + 1
  <2>1. PageSize * p >= PageSize * q + PageSize
    BY <1>1, <1>2, <1>3, SMTT(30)
  <2> QED BY <1>1, <1>2, <2>1
<1>4. CASE p <= q - 1
  <2>1. PageSize * p <= PageSize * q - PageSize
    BY <1>1, <1>2, <1>4, SMTT(30)
  <2> QED BY <1>1, <1>2, <2>1
<1> QED BY <1>2, <1>3, <1>4 DEF p

LEMMA PageMonotone ==
  ASSUME NEW x \in Nat, NEW y \in Nat, x <= y
  PROVE  Page(x) <= Page(y)
<1> DEFINE p == Page(x)
           q == Page(y)
<1>1. PageSize \in Nat \ {0}
  BY HeapAssumption
<1>2. p \in Int /\ x % PageSize \in 0 .. PageSize - 1 /\ x = PageSize * p + (x % PageSize)
  BY <1>1, Division DEF Page
<1>3. q \in Int /\ y % PageSize \in 0 .. PageSize - 1 /\ y = PageSize * q + (y % PageSize)
  BY <1>1, Division DEF Page
<1> HIDE DEF p, q
<1>4. CASE q <= p - 1
  <2>1. PageSize * q <= PageSize * p - PageSize
    BY <1>1, <1>2, <1>3, <1>4, SMTT(30)
  <2> QED BY <1>1, <1>2, <1>3, <2>1
<1> QED BY <1>2, <1>3, <1>4 DEF p, q

\* The first and the last header lie in the two pages kmalloc_init maps.
LEMMA InitialPages == Init => HandedOutIsMapped
<1> SUFFICES ASSUME Init PROVE HandedOutIsMapped
  OBVIOUS
<1>1. /\ PageSize \in Nat \ {0} /\ HeaderSize <= PageSize
      /\ HeapStart % PageSize = 0 /\ HeapEnd % PageSize = 0
      /\ HeapEnd \in Nat /\ HeapStart \in Nat
  BY HeapAssumption
<1>2. /\ Headers = {HeapStart, Last} /\ DOMAIN live = {}
      /\ Page(HeapStart) \in mapped /\ Page(HeapEnd - PageSize) \in mapped
  BY DEF Init, Headers
<1>3. HeaderPages(HeapStart) \subseteq mapped
  <2> DEFINE q == HeapStart \div PageSize
  <2>1. q \in Int /\ HeapStart = PageSize * q
    BY <1>1, Division
  <2>2. q = Page(HeapStart)
    BY DEF Page
  <2> HIDE DEF q
  <2>3. q \in Nat
    BY <1>1, <2>2, PageType
  <2>4. Page(HeapStart + HeaderSize - 1) = q
    BY <1>1, <2>1, <2>3, PageOf, LastType
  <2> QED BY <1>2, <2>2, <2>3, <2>4 DEF HeaderPages
<1>4. HeaderPages(Last) \subseteq mapped
  <2> DEFINE e == HeapEnd \div PageSize
             q == e - 1
  <2>1. e \in Int /\ HeapEnd = PageSize * e
    BY <1>1, Division
  <2> HIDE DEF e
  <2>2. e >= 1
    <3>1. CASE e <= 0
      <4>1. PageSize * e <= 0
        BY <1>1, <2>1, <3>1, SMTT(30)
      <4> QED BY <2>1, <4>1, LastType
    <3> QED BY <2>1, <3>1
  <2>3. q \in Nat
    BY <2>1, <2>2
  <2>4. PageSize * q = HeapEnd - PageSize
    BY <1>1, <2>1, SMTT(30)
  <2> HIDE DEF q
  <2>5. PageSize * q \in Nat
    BY <1>1, <2>3, SMTT(30)
  <2>6. /\ HeapEnd - PageSize \in Nat /\ Page(HeapEnd - PageSize) = q
        /\ Page(Last) = q
        /\ Page(Last + HeaderSize - 1) = q
    <3> DEFINE m == PageSize * q
    <3>1. m = HeapEnd - PageSize /\ m \in Nat
      BY <2>4, <2>5
    <3> HIDE DEF m
    <3>2. \A x \in Nat : m <= x /\ x < m + PageSize => Page(x) = q
      BY <2>3, PageOf DEF m
    <3>3. Last \in Nat /\ m <= Last /\ Last < m + PageSize
      BY <1>1, <3>1, LastType
    <3>4. /\ Last + HeaderSize - 1 \in Nat /\ m <= Last + HeaderSize - 1
          /\ Last + HeaderSize - 1 < m + PageSize
      BY <1>1, <3>1, LastType
    <3>5. HeapEnd - PageSize \in Nat /\ m <= HeapEnd - PageSize /\ HeapEnd - PageSize < m + PageSize
      BY <1>1, <3>1
    <3> QED BY <3>2, <3>3, <3>4, <3>5
  <2> QED BY <1>2, <2>3, <2>6 DEF HeaderPages
<1> QED BY <1>2, <1>3, <1>4 DEF HandedOutIsMapped

\* The only header a request can add is the one behind its block.
LEMMA NewHeader ==
  ASSUME ListInv, NEW h, NEW n, Take(h, n)
  PROVE  \A g \in Headers' : g \in Headers \/ (HasRest(h, n) /\ g = h + HeaderSize + n)
<1>1. CASE TakeWhole(h)
  BY <1>1 DEF TakeWhole, Headers
<1>2. CASE HasRest(h, n) /\ Split(h, h + HeaderSize + n)
  <2>1. Headers' = Headers \cup {h + HeaderSize + n}
    BY <1>2 DEF Split, Headers
  <2> QED BY <1>2, <2>1
<1> QED BY <1>1, <1>2 DEF Take

\* No caller is handed a byte of a page that is not present, and the list
\* can be walked without a page fault.
THEOREM HandedOutIsAlwaysMapped == Spec => []HandedOutIsMapped
<1>1. Init => HandedOutIsMapped
  BY InitialPages
<1>2. HeapInv /\ HandedOutIsMapped /\ [Next]_vars => HandedOutIsMapped'
  <2> SUFFICES ASSUME HeapInv, HandedOutIsMapped, [Next]_vars PROVE HandedOutIsMapped'
    OBVIOUS
  <2>1. CASE UNCHANGED vars
    BY <2>1 DEF vars, HandedOutIsMapped, Headers
  <2>2. ASSUME NEW bytes \in Requests, kmalloc(bytes)
        PROVE  HandedOutIsMapped'
    <3> DEFINE n == Sized(bytes)
               h == Min(Fitting(n))
               a == h + HeaderSize
    <3>1. n \in Nat /\ n >= MinBlock
      BY SizedType
    <3>2. /\ Fitting(n) # {} /\ ~Faults(h, n) /\ Take(h, n)
          /\ mapped' = mapped \cup Area(a, n)
          /\ live' = [b \in DOMAIN live \cup {a} |-> IF b = a THEN n ELSE live[b]]
      BY <2>2 DEF kmalloc, MapArea
    <3> HIDE DEF n
    <3>3. h \in Nat
      BY <3>1, <3>2, HeapIsList, FittingHeader, HeaderIsAddress DEF ListInv
    <3> HIDE DEF h
    <3>4. a \in Nat
      BY <3>3, LastType
    <3>5. ASSUME NEW x \in Bytes(a, n) PROVE Page(x) \in mapped'
      <4>1. x \in Nat /\ a <= x /\ x <= a + n
        BY <3>1, <3>4, <3>5 DEF Bytes
      <4>2. Page(a) <= Page(x) /\ Page(x) <= Page(a + n)
        BY <3>1, <3>4, <4>1, PageMonotone
      <4>3. Page(a) \in Nat /\ Page(x) \in Nat /\ Page(a + n) \in Nat
        BY <3>1, <3>4, <4>1, PageType
      <4> QED BY <3>2, <4>2, <4>3 DEF Area
    <3>6. ASSUME NEW b \in DOMAIN live', NEW x \in Bytes(b, live'[b]) PROVE Page(x) \in mapped'
      BY <3>2, <3>5, <3>6 DEF HandedOutIsMapped
    <3>7. ASSUME NEW g \in Headers' PROVE HeaderPages(g) \subseteq mapped'
      <4>1. g \in Headers \/ (HasRest(h, n) /\ g = h + HeaderSize + n)
        BY <3>2, HeapIsList, NewHeader
      <4>2. CASE g \in Headers
        BY <3>2, <4>2 DEF HandedOutIsMapped
      <4>3. CASE HasRest(h, n) /\ g = h + HeaderSize + n
        BY <3>2, <4>3 DEF Faults
      <4> QED BY <4>1, <4>2, <4>3
    <3> QED BY <3>6, <3>7 DEF HandedOutIsMapped
  <2>3. ASSUME NEW bytes \in Requests, kmalloc_unmapped(bytes)
        PROVE  HandedOutIsMapped'
    <3> DEFINE n == Sized(bytes)
               h == Min(Fitting(n))
    <3>1. /\ ~Faults(h, n) /\ Take(h, n) /\ mapped \subseteq mapped' /\ live' = live
      BY <2>3 DEF kmalloc_unmapped, MapAreaFails
    <3> HIDE DEF n, h
    <3>2. ASSUME NEW g \in Headers' PROVE HeaderPages(g) \subseteq mapped'
      <4>1. g \in Headers \/ (HasRest(h, n) /\ g = h + HeaderSize + n)
        BY <3>1, HeapIsList, NewHeader
      <4>2. CASE g \in Headers
        BY <3>1, <4>2 DEF HandedOutIsMapped
      <4>3. CASE HasRest(h, n) /\ g = h + HeaderSize + n
        BY <3>1, <4>3 DEF Faults
      <4> QED BY <4>1, <4>2, <4>3
    <3> QED BY <3>1, <3>2 DEF HandedOutIsMapped
  <2>4. ASSUME NEW bytes \in Requests, kmalloc_refused(bytes) \/ kmalloc_faults(bytes)
        PROVE  HandedOutIsMapped'
    <3>1. header' = header /\ live' = live /\ mapped \subseteq mapped'
      BY <2>4 DEF kmalloc_refused, kmalloc_faults, MapArea, MapAreaFails
    <3> QED BY <3>1 DEF HandedOutIsMapped, Headers
  <2>5. ASSUME NEW a \in DOMAIN live, kfree(a)
        PROVE  HandedOutIsMapped'
    <3> DEFINE h == a - HeaderSize
    <3>1. /\ Coalesce(h) /\ live' = [b \in DOMAIN live \ {a} |-> live[b]] /\ mapped' = mapped
      BY <2>5 DEF kfree
    <3>2. h \in Headers \ {Last} /\ header[h].status = USED /\ ListInv
      BY BlockFacts, HeapIsList
    <3> HIDE DEF h
    <3>3. Headers' \subseteq Headers
      BY <3>1, <3>2, FreeKeepsList
    <3> QED BY <3>1, <3>3 DEF HandedOutIsMapped
  <2> QED BY <2>1, <2>2, <2>3, <2>4, <2>5 DEF Next
<1> QED BY <1>1, <1>2, HeapInvariant, PTL DEF Spec

\* Every run of the heap is a run of the arena: a request is answered with
\* bytes of the heap that no live block has, whatever was taken before.
THEOREM Refinement == Spec => ImplementsHeapArena
<1>1. Init => Arena!Init
  BY DEF Init, Arena!Init
<1>2. HeapInv /\ [Next]_vars => [Arena!Next]_live
  <2> SUFFICES ASSUME HeapInv, [Next]_vars PROVE [Arena!Next]_live
    OBVIOUS
  <2>1. CASE UNCHANGED vars
    BY <2>1 DEF vars
  <2>2. ASSUME NEW bytes \in Requests, kmalloc(bytes)
        PROVE  Arena!Next
    <3> DEFINE n == Sized(bytes)
               h == Min(Fitting(n))
               a == h + HeaderSize
    <3>1. n \in Nat /\ n >= MinBlock
      BY SizedType
    <3>2. /\ Fitting(n) # {}
          /\ live' = [b \in DOMAIN live \cup {a} |-> IF b = a THEN n ELSE live[b]]
      BY <2>2 DEF kmalloc
    <3> HIDE DEF n
    <3>3. /\ h \in Headers \ {Last} /\ header[h].status = FREE
          /\ header[h].next - h >= HeaderSize + n
      BY <3>1, <3>2, HeapIsList, FittingHeader
    <3> HIDE DEF h
    <3>4. /\ HeapStart <= h /\ h \in Nat /\ header[h].next <= Last /\ header[h].next \in Nat
          /\ \A g \in Headers : ~(h < g /\ g < header[h].next)
      BY <3>3, HeapIsList, HeaderIsAddress, ListFacts DEF ListInv
    <3>5. /\ a \in Nat /\ HeapStart <= a /\ a + n <= HeapEnd /\ a + n <= header[h].next
          /\ a \in HeapStart .. HeapEnd /\ n \in 1 .. HeapEnd - HeapStart
      BY <3>1, <3>3, <3>4, LastType
    <3>6. ASSUME NEW b \in DOMAIN live
          PROVE  a + n <= b \/ b + live[b] <= a
      <4>1. /\ b \in Nat /\ live[b] \in Nat
            /\ b - HeaderSize \in Headers /\ b - HeaderSize \in Nat
            /\ b - HeaderSize # h
        BY <3>3, BlockFacts DEF FREE, USED
      <4>2. h + HeaderSize <= b \/ b + live[b] <= h
        BY <3>3, BlockAndHeader
      <4>3. CASE b + live[b] <= h
        BY <3>4, <4>1, <4>3, LastType
      <4>4. CASE h + HeaderSize <= b
        <5>1. h < b - HeaderSize
          BY <3>4, <4>1, <4>4, LastType
        <5>2. header[h].next <= b - HeaderSize
          BY <3>4, <4>1, <5>1
        <5> QED BY <3>1, <3>4, <3>5, <4>1, <5>2, LastType
      <4> QED BY <4>2, <4>3, <4>4
    <3> HIDE DEF a
    <3>7. Arena!Alloc(a, n)
      BY <3>2, <3>5, <3>6 DEF Arena!Alloc, Arena!Blocks, Arena!Apart
    <3> QED BY <3>5, <3>7 DEF Arena!Next
  <2>3. ASSUME NEW bytes \in Requests,
               kmalloc_unmapped(bytes) \/ kmalloc_refused(bytes) \/ kmalloc_faults(bytes)
        PROVE  live' = live
    BY <2>3 DEF kmalloc_unmapped, kmalloc_refused, kmalloc_faults
  <2>4. ASSUME NEW a \in DOMAIN live, kfree(a)
        PROVE  Arena!Next
    <3>1. a \in HeapStart .. HeapEnd
      <4>1. a \in Nat /\ a - HeaderSize \in Headers
        BY BlockFacts
      <4>2. HeapStart <= a - HeaderSize /\ a - HeaderSize <= Last
        BY <4>1, HeapIsList, HeaderIsAddress DEF ListInv
      <4> QED BY <4>1, <4>2, LastType
    <3>2. Arena!Free(a)
      BY <2>4 DEF kfree, Arena!Free, Arena!Blocks
    <3> QED BY <3>1, <3>2 DEF Arena!Next
  <2> QED BY <2>1, <2>2, <2>3, <2>4 DEF Next
<1> QED BY <1>1, <1>2, HeapInvariant, PTL DEF Spec, ImplementsHeapArena, Arena!Spec

=============================================================================
