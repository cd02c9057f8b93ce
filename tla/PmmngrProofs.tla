---------------------------- MODULE PmmngrProofs ----------------------------
(***************************************************************************)
(* Theorems about the physical memory manager, for every size of the map,  *)
(* of its words and of the counter, and every set of region calls; then    *)
(* about the boot that sets it up, for every memory map and layout; and    *)
(* about the boot loader, for every disk and BIOS.  What is said of the    *)
(* memory manager alone, runs of blocks included, uses no assumptions but   *)
(* those of Pmmngr and PmmngrRuns.                                         *)
(***************************************************************************)
EXTENDS Boot, PmmngrRuns, ArithLemmas, SequenceTheorems

\* The words a scan covers lie inside the mapped bitmap.
LEMMA ScannedIsMapped ==
  /\ Scanned \subseteq Bits
  /\ Scanned \subseteq 0 .. MaxBlocks - 1
  /\ 0 \in Bits
<1>1. WholeWords * WordBits <= MaxBlocks /\ WholeWords * WordBits \in Int
  <2>1. /\ MaxBlocks \div WordBits \in Int
        /\ MaxBlocks % WordBits \in 0 .. WordBits - 1
        /\ MaxBlocks = WordBits * (MaxBlocks \div WordBits) + (MaxBlocks % WordBits)
    BY Division, SizesAssumption
  <2>2. /\ WholeWords \in Int
        /\ MaxBlocks % WordBits >= 0
        /\ WordBits * WholeWords = MaxBlocks - (MaxBlocks % WordBits)
    BY <2>1, SizesAssumption DEF WholeWords
  <2>3. WordBits * WholeWords = WholeWords * WordBits
    BY <2>2, SizesAssumption
  <2> QED BY <2>1, <2>2, <2>3, SizesAssumption
<1> QED BY <1>1, SizesAssumption DEF Scanned, Bits

\* A block that the scan answers is one of the scanned ones and is clear.
LEMMA FirstFreeIsClear ==
  ASSUME mmap_first_free # 0
  PROVE  mmap_first_free \in Scanned \ mmngrMemoryMap
<1>1. Scanned \ mmngrMemoryMap # {}
  BY DEF mmap_first_free
<1>2. Scanned \ mmngrMemoryMap \subseteq Nat
  BY DEF Scanned
<1> QED BY <1>1, <1>2, MinIsLeast DEF mmap_first_free

\* The scan for runs finds free ones only.
LEMMA FreeRunIsFree ==
  ASSUME NEW p \in Nat, NEW amount \in Nat \ {0}
  PROVE  /\ FreeRun(p, amount) \in 0 .. amount
         /\ FreeRun(p, amount) = amount =>
              \A b \in Run(p, amount) : b \notin mmngrMemoryMap /\ b <= MaxBlocks
<1> DEFINE taken == {j \in 0 .. amount - 1 : mmap_test(p + j)}
<1>1. FreeRun(p, amount) = IF taken = {} THEN amount ELSE Min(taken)
  BY DEF FreeRun
<1>2. taken # {} => Min(taken) \in 0 .. amount - 1
  <2>1. taken \in SUBSET Nat
    OBVIOUS
  <2>2. taken # {} => Min(taken) \in taken
    BY <2>1, MinIsLeast
  <2> QED BY <2>2
<1>3. ASSUME taken = {}, NEW b \in Run(p, amount)
      PROVE  b \notin mmngrMemoryMap /\ b <= MaxBlocks
  <2>1. b \in Nat /\ b - p \in 0 .. amount - 1 /\ p + (b - p) = b
    BY DEF Run
  <2>2. ~mmap_test(b)
    BY <1>3, <2>1
  <2> QED BY <2>1, <2>2, SizesAssumption DEF mmap_test
<1> HIDE DEF taken
<1> QED BY <1>1, <1>2, <1>3

\* It only goes forward.
LEMMA ScanMovesOn ==
  ASSUME NEW p \in Nat, NEW amount \in Nat \ {0}
  PROVE  NextPosition(p, amount) \in Nat /\ NextPosition(p, amount) > p
<1> DEFINE w == WordBits
           i == p \div w
           k == p % w
           r == FreeRun(p, amount)
           q == (k + r) \div w
<1>1. w \in Nat \ {0} /\ r \in Nat
  BY SizesAssumption, FreeRunIsFree
<1>2. i \in Int /\ k \in 0 .. w - 1 /\ p = w * i + k
  <2>1. p \in Int
    OBVIOUS
  <2> HIDE DEF w
  <2> QED BY <1>1, <2>1, Division
<1>3. q \in Int /\ (k + r >= w => q >= 0)
  <2> HIDE DEF i, k, r, w
  <2>1. k + r \in Nat /\ k + r \in Int
    BY <1>1, <1>2
  <2>2. q \in Int /\ (k + r) % w \in 0 .. w - 1 /\ k + r = w * q + ((k + r) % w)
    <3> PICK c \in Int : c = k + r
      BY <2>1
    <3>1. c \div w \in Int /\ c % w \in 0 .. w - 1 /\ c = w * (c \div w) + (c % w)
      BY <1>1, Division
    <3> QED BY <3>1
  <2> DEFINE d == (k + r) % w
  <2> HIDE DEF q, d
  <2>3. ~(q <= -1)
    <3>1. ASSUME q <= -1  PROVE w * q <= -w
      BY <1>1, <2>2, <3>1, SMTT(30)
    <3> QED BY <1>1, <2>1, <2>2, <3>1 DEF d
  <2> QED BY <2>2, <2>3
<1>4. NextPosition(p, amount) =
        IF k = 0 /\ WordIsFull(i) THEN (i + 1) * w
        ELSE IF k + r >= w THEN (i + q + 1) * w
        ELSE p + r + 1
  BY DEF NextPosition
<1> HIDE DEF w, i, k, r, q
<1>5. (i + 1) * w = w * i + w
  BY <1>1, <1>2
<1>6. k + r >= w => (i + q + 1) * w >= w * i + w
  <2> SUFFICES ASSUME k + r >= w PROVE (i + q + 1) * w >= w * i + w
    OBVIOUS
  <2>1. (i + q + 1) * w = w * i + w + q * w
    BY <1>1, <1>2, <1>3, SMTT(30)
  <2>2. q * w >= 0 /\ q * w \in Int /\ w * i \in Int
    BY <1>1, <1>2, <1>3, SMTT(30)
  <2> QED BY <1>1, <2>1, <2>2
<1>7. (i + q + 1) * w \in Int /\ w * i \in Int /\ w * i + w > p
  BY <1>1, <1>2, <1>3
<1> QED BY <1>1, <1>4, <1>5, <1>6, <1>7

\* What the scan answers, if it is not 0, is where a free run begins.  The
\* walk is a recursive function: that it exists, and that each of its values
\* is such an answer, is shown from the end of the map downwards, by the
\* least position from which it holds.
LEMMA ScanAnswers ==
  ASSUME NEW amount \in Nat \ {0}
  PROVE  LET b == mmap_first_free_s(amount)
         IN  b = 0 \/ (b \in Scanned /\ FreeRun(b, amount) = amount)
<1> DEFINE end == WholeWords * WordBits
           found(p) == FreeRun(p, amount) = amount
           onward(p) == NextPosition(p, amount)
           body(f, p) == IF p \notin Scanned THEN 0 ELSE IF found(p) THEN p ELSE f[onward(p)]
           From(m) == {p \in Nat : m <= p}
           scan == CHOOSE f : f = [p \in Nat |-> body(f, p)]
<1>1. mmap_first_free_s(amount) = scan[0]
  BY DEF mmap_first_free_s, ScanFrom
<1>2. end \in Nat /\ \A p \in Nat : p \in Scanned <=> p < end
  <2>1. end \in Nat
    BY Division, SizesAssumption DEF WholeWords
  <2> QED BY <2>1 DEF Scanned
<1>3. \A p \in Nat : onward(p) \in Nat /\ onward(p) > p
  BY ScanMovesOn
<1> HIDE DEF end, found, onward
<1>4. \E f : f = [p \in Nat |-> body(f, p)]
  <2> DEFINE Is(f, m) == f = [p \in From(m) |-> body(f, p)]
             S == {m \in Nat : \E f : Is(f, m)}
  <2>1. end \in S
    <3> DEFINE f == [p \in From(end) |-> 0]
    <3>1. \A p \in From(end) : p \notin Scanned
      BY <1>2
    <3>2. Is(f, end)
      BY <3>1
    <3> HIDE DEF Is
    <3> QED BY <1>2, <3>2
  <2>2. PICK m \in S : \A n \in S : m <= n
    <3> HIDE DEF S
    <3>1. S \in SUBSET Nat /\ S # {}
      BY <2>1 DEF S
    <3> QED BY <3>1, MinIsLeast
  <2>3. m = 0
    <3> SUFFICES ASSUME m # 0 PROVE FALSE
      OBVIOUS
    <3>1. PICK f : Is(f, m)
      OBVIOUS
    <3> DEFINE n == m - 1
               g == [p \in From(n) |-> IF p = n THEN body(f, n) ELSE f[p]]
    <3>2. n \in Nat /\ n < m /\ From(n) = From(m) \cup {n} /\ n \notin From(m)
      OBVIOUS
    <3>3. \A p \in From(n) : onward(p) \in From(m)
      BY <1>3
    <3>4. ASSUME NEW p \in From(n)  PROVE g[p] = body(g, p)
      <4>1. g[onward(p)] = f[onward(p)]
        BY <3>2, <3>3
      <4>2. body(g, p) = body(f, p)
        BY <4>1
      <4>3. p # n => f[p] = body(f, p)
        BY <3>1, <3>2
      <4> QED BY <4>2, <4>3
    <3>5. Is(g, n)
      BY <3>4
    <3> HIDE DEF Is, g
    <3>6. n \in S
      BY <3>2, <3>5
    <3> QED BY <2>2, <3>2, <3>6
  <2>4. From(0) = Nat
    OBVIOUS
  <2>5. PICK f : Is(f, 0)
    BY <2>3
  <2>6. f = [p \in Nat |-> body(f, p)]
    BY <2>4, <2>5
  <2> QED BY <2>6
<1>5. scan = [p \in Nat |-> body(scan, p)]
  BY <1>4
<1> HIDE DEF scan
<1>6. \A p \in Nat : scan[p] = body(scan, p)
  BY <1>5
<1> DEFINE Sound(p) == scan[p] = 0 \/ (scan[p] \in Scanned /\ found(scan[p]))
<1>7. \A p \in Nat : Sound(p)
  <2> DEFINE S == {m \in Nat : \A p \in From(m) : Sound(p)}
  <2>1. end \in S
    BY <1>2, <1>6
  <2>2. PICK m \in S : \A n \in S : m <= n
    <3> HIDE DEF S
    <3>1. S \in SUBSET Nat /\ S # {}
      BY <2>1 DEF S
    <3> QED BY <3>1, MinIsLeast
  <2>3. m = 0
    <3> SUFFICES ASSUME m # 0 PROVE FALSE
      OBVIOUS
    <3> DEFINE n == m - 1
    <3>1. n \in Nat /\ n < m /\ From(n) = From(m) \cup {n}
      OBVIOUS
    <3>2. onward(n) \in From(m)
      BY <1>3, <3>1
    <3>3. Sound(n)
      BY <1>6, <3>1, <3>2
    <3>4. n \in S
      BY <3>1, <3>3
    <3> QED BY <2>2, <3>1, <3>4
  <2> QED BY <2>3
<1> QED BY <1>1, <1>7 DEF found

\* A region call stays within the mapped bitmap and counts a natural number
\* of blocks.
LEMMA RegionBlocks ==
  ASSUME NEW r \in Regions
  PROVE  /\ InitBlocks(r[1], r[2]) \subseteq Bits
         /\ DeinitBlocks(r[1], r[2]) \subseteq Bits
         /\ Cardinality(InitBlocks(r[1], r[2])) \in Nat
         /\ Cardinality(DeinitBlocks(r[1], r[2])) \in Nat
<1>1. InitBlocks(r[1], r[2]) \subseteq Bits /\ DeinitBlocks(r[1], r[2]) \subseteq Bits
  BY RegionsAssumption
<1>2. IsFiniteSet(Bits)
  BY FS_Interval, SizesAssumption DEF Bits
<1> QED BY <1>1, <1>2, FS_Subset, FS_CardinalityType

\* The counter stays in its type whatever is added or subtracted.
LEMMA CounterType ==
  ASSUME TypeOK, NEW n \in Nat
  PROVE  Plus(n) \in 0 .. Modulus - 1 /\ Minus(n) \in 0 .. Modulus - 1
<1>1. mmngrUsedBlocks + n \in Int /\ mmngrUsedBlocks - n \in Int
  BY DEF TypeOK
<1>2. Modulus \in Nat \ {0}
  BY SizesAssumption
<1> QED BY <1>1, <1>2, Division DEF Plus, Minus

\* The run of n blocks from b on has n blocks.
LEMMA RunIsCounted ==
  ASSUME NEW n \in Nat \ {0}, NEW b \in Nat
  PROVE  IsFiniteSet(Run(b, n)) /\ Cardinality(Run(b, n)) = n
<1>1. PICK e \in Int : e = b + n - 1
  OBVIOUS
<1>2. b \in Int /\ ~(b > e) /\ e - b + 1 = n
  BY <1>1
<1>3. Run(b, n) = b .. e
  BY <1>1 DEF Run
<1> QED BY <1>2, <1>3, FS_Interval

\* A run that is handed out has as many blocks as asked for, none of them is
\* in use, and all of them are in the map.
LEMMA RunIsClear ==
  ASSUME NEW a \in Amounts, mmap_first_free_s(a) # 0
  PROVE  LET R == Run(mmap_first_free_s(a), a)
         IN  /\ R \subseteq 0 .. MaxBlocks /\ R \subseteq Bits /\ R \cap mmngrMemoryMap = {}
             /\ IsFiniteSet(R) /\ Cardinality(R) = a
<1> DEFINE b == mmap_first_free_s(a)
           R == Run(b, a)
<1>1. a \in Nat \ {0}
  BY AmountsAssumption
<1>2. b \in Scanned /\ FreeRun(b, a) = a
  BY <1>1, ScanAnswers
<1>3. b \in Nat
  BY <1>2 DEF Scanned
<1> HIDE DEF b
<1>4. \A c \in R : c \notin mmngrMemoryMap /\ c <= MaxBlocks
  BY <1>1, <1>2, <1>3, FreeRunIsFree
<1>5. R \subseteq Nat
  BY <1>1, <1>3 DEF Run
<1>6. R \subseteq 0 .. MaxBlocks /\ R \subseteq Bits /\ R \cap mmngrMemoryMap = {}
  <2> HIDE DEF R
  <2>1. \A c \in R : c \in 0 .. MaxBlocks
    BY <1>4, <1>5, SizesAssumption
  <2>2. \A c \in R : c \in Bits
    BY <2>1, SizesAssumption DEF Bits
  <2> QED BY <1>4, <2>1, <2>2
<1>7. IsFiniteSet(R) /\ Cardinality(R) = a
  BY <1>1, <1>3, RunIsCounted
<1> QED BY <1>6, <1>7 DEF b

LEMMA GivenRun ==
  ASSUME NEW a \in Amounts, NEW b \in Bits
  PROVE  a \in Nat /\ IsFiniteSet(Run(b, a)) /\ Cardinality(Run(b, a)) = a
<1>1. a \in Nat \ {0} /\ b \in Nat
  BY AmountsAssumption DEF Bits
<1> QED BY <1>1, RunIsCounted

-----------------------------------------------------------------------------
(* Single blocks and runs in any order.                                    *)

\* pmmngr.c keeps its variables in their types.
THEOREM TypeCorrect == RunsSpec => []TypeOK
<1>1. Init => TypeOK
  BY ScannedIsMapped, SizesAssumption DEF Init, TypeOK, Bits
<1>2. TypeOK /\ [RunsNext]_vars => TypeOK'
  <2> SUFFICES ASSUME TypeOK, [RunsNext]_vars PROVE TypeOK'
    OBVIOUS
  <2>1. ASSUME NEW r \in Regions, pmmngr_init_region(r[1], r[2])
        PROVE  TypeOK'
    BY <2>1, RegionBlocks, CounterType, ScannedIsMapped DEF pmmngr_init_region, TypeOK
  <2>2. ASSUME NEW r \in Regions, pmmngr_deinit_region(r[1], r[2])
        PROVE  TypeOK'
    BY <2>2, RegionBlocks, CounterType DEF pmmngr_deinit_region, TypeOK
  <2>3. CASE pmmngr_alloc_block
    <3>1. mmap_first_free \in Bits
      BY <2>3, FirstFreeIsClear, ScannedIsMapped DEF pmmngr_alloc_block, AllocFails
    <3> QED BY <2>3, <3>1, CounterType DEF pmmngr_alloc_block, TypeOK
  <2>4. ASSUME NEW b \in Bits, pmmngr_free_block(b)
        PROVE  TypeOK'
    BY <2>4, CounterType DEF pmmngr_free_block, TypeOK
  <2>5. ASSUME NEW a \in Amounts, pmmngr_alloc_blocks(a)
        PROVE  TypeOK'
    <3>1. Run(mmap_first_free_s(a), a) \subseteq Bits /\ a \in Nat
      BY <2>5, RunIsClear, AmountsAssumption DEF pmmngr_alloc_blocks, RunFails
    <3> QED BY <2>5, <3>1, CounterType DEF pmmngr_alloc_blocks, TypeOK
  <2>6. ASSUME NEW a \in Amounts, NEW b \in Bits, pmmngr_free_blocks(b, a)
        PROVE  TypeOK'
    BY <2>6, GivenRun, CounterType DEF pmmngr_free_blocks, TypeOK
  <2>7. CASE UNCHANGED vars
    BY <2>7 DEF vars, TypeOK
  <2> QED BY <2>1, <2>2, <2>3, <2>4, <2>5, <2>6, <2>7 DEF RunsNext, Next, RegionCall
<1> QED BY <1>1, <1>2, PTL DEF RunsSpec

-----------------------------------------------------------------------------
(* The inductive invariant: bitmap and ghost ledger agree wherever a scan  *)
(* can look, whatever is held was usable there, and block 0 is not usable. *)

LedgerInv == MapIsLedger /\ HeldIsUsable /\ 0 \notin usable

\* A scan's answer is usable and nobody's.
LEMMA FirstFreeIsFresh ==
  ASSUME LedgerInv, ~AllocFails
  PROVE  /\ mmap_first_free \in Scanned
         /\ mmap_first_free # 0
         /\ mmap_first_free \in usable \ held
BY FirstFreeIsClear DEF AllocFails, LedgerInv, MapIsLedger

LEMMA LedgerInitially == Init => LedgerInv
BY DEF Init, LedgerInv, MapIsLedger, HeldIsUsable

\* A region call that makes blocks usable, wherever the region is.
LEMMA InitKeepsLedger ==
  ASSUME LedgerInv, NEW base, NEW size, pmmngr_init_region(base, size)
  PROVE  LedgerInv'
<1> DEFINE S == InitBlocks(base, size)
<1>1. /\ S \cap held = {}
      /\ mmngrMemoryMap' = (mmngrMemoryMap \ S) \cup {0}
      /\ usable' = (usable \cup S) \ {0}
      /\ held' = held
  BY DEF pmmngr_init_region
<1> HIDE DEF S
<1>2. MapIsLedger' /\ HeldIsUsable' /\ 0 \notin usable'
  BY <1>1 DEF LedgerInv, MapIsLedger, HeldIsUsable, Scanned, WholeWords
<1> QED BY <1>2 DEF LedgerInv

\* A region call that reserves blocks.
LEMMA DeinitKeepsLedger ==
  ASSUME LedgerInv, NEW base, NEW size, pmmngr_deinit_region(base, size)
  PROVE  LedgerInv'
<1> DEFINE S == DeinitBlocks(base, size)
<1>1. /\ S \cap held = {}
      /\ mmngrMemoryMap' = mmngrMemoryMap \cup S
      /\ usable' = usable \ S
      /\ held' = held
  BY DEF pmmngr_deinit_region
<1> HIDE DEF S
<1>2. MapIsLedger' /\ HeldIsUsable' /\ 0 \notin usable'
  BY <1>1 DEF LedgerInv, MapIsLedger, HeldIsUsable, Scanned, WholeWords
<1> QED BY <1>2 DEF LedgerInv

\* A block that is handed out.
LEMMA AllocKeepsLedger ==
  ASSUME LedgerInv, pmmngr_alloc_block
  PROVE  LedgerInv'
<1> DEFINE f == mmap_first_free
<1>1. f \in Scanned /\ f # 0 /\ f \in usable \ held
  BY FirstFreeIsFresh DEF pmmngr_alloc_block
<1>2. /\ mmngrMemoryMap' = mmngrMemoryMap \cup {f}
      /\ held' = held \cup {f}
      /\ usable' = usable
  BY DEF pmmngr_alloc_block
<1> HIDE DEF f
<1>3. MapIsLedger' /\ HeldIsUsable' /\ 0 \notin usable'
  BY <1>1, <1>2 DEF LedgerInv, MapIsLedger, HeldIsUsable, Scanned, WholeWords
<1> QED BY <1>3 DEF LedgerInv

\* A block that is given back.
LEMMA FreeKeepsLedger ==
  ASSUME LedgerInv, NEW b \in Bits, pmmngr_free_block(b)
  PROVE  LedgerInv'
BY DEF LedgerInv, MapIsLedger, HeldIsUsable, Scanned, WholeWords, pmmngr_free_block

LEMMA UnchangedKeepsLedger ==
  ASSUME LedgerInv, UNCHANGED vars
  PROVE  LedgerInv'
BY DEF LedgerInv, MapIsLedger, HeldIsUsable, Scanned, WholeWords, vars

LEMMA LedgerStep == LedgerInv /\ [Next]_vars => LedgerInv'
BY InitKeepsLedger, DeinitKeepsLedger, AllocKeepsLedger, FreeKeepsLedger,
   UnchangedKeepsLedger DEF Next, RegionCall

LEMMA LedgerAlways == Spec => []LedgerInv
BY LedgerInitially, LedgerStep, PTL DEF Spec

\* With runs, whose blocks may lie behind the last whole word, less is true of
\* what is held: it is marked, and where a scan looks it is usable.
RunsLedger ==
  /\ MapIsLedger
  /\ held \subseteq mmngrMemoryMap
  /\ held \cap Scanned \subseteq usable
  /\ 0 \notin usable

LEMMA RunsLedgerStep ==
  ASSUME RunsLedger, [RunsNext]_vars
  PROVE  RunsLedger'
<1>1. ASSUME NEW r \in Regions, pmmngr_init_region(r[1], r[2])
      PROVE  RunsLedger'
  <2> PICK S : S = InitBlocks(r[1], r[2])
    OBVIOUS
  <2>1. /\ S \cap held = {} /\ mmngrMemoryMap' = (mmngrMemoryMap \ S) \cup {0}
        /\ usable' = (usable \cup S) \ {0} /\ held' = held
    BY <1>1 DEF pmmngr_init_region
  <2> QED BY <2>1 DEF RunsLedger, MapIsLedger, Scanned, WholeWords
<1>2. ASSUME NEW r \in Regions, pmmngr_deinit_region(r[1], r[2])
      PROVE  RunsLedger'
  <2> PICK S : S = DeinitBlocks(r[1], r[2])
    OBVIOUS
  <2>1. /\ S \cap held = {} /\ mmngrMemoryMap' = mmngrMemoryMap \cup S
        /\ usable' = usable \ S /\ held' = held
    BY <1>2 DEF pmmngr_deinit_region
  <2> QED BY <2>1 DEF RunsLedger, MapIsLedger, Scanned, WholeWords
<1>3. ASSUME NEW R, R \cap mmngrMemoryMap = {},
             mmngrMemoryMap' = mmngrMemoryMap \cup R, held' = held \cup R, usable' = usable
      PROVE  RunsLedger'
  BY <1>3 DEF RunsLedger, MapIsLedger, Scanned, WholeWords
<1>4. ASSUME NEW R, R \subseteq held,
             mmngrMemoryMap' = mmngrMemoryMap \ R, held' = held \ R, usable' = usable
      PROVE  RunsLedger'
  BY <1>4 DEF RunsLedger, MapIsLedger, Scanned, WholeWords
<1>5. CASE pmmngr_alloc_block
  <2>1. {mmap_first_free} \cap mmngrMemoryMap = {}
    BY <1>5, FirstFreeIsClear DEF pmmngr_alloc_block, AllocFails
  <2> QED BY <1>3, <1>5, <2>1 DEF pmmngr_alloc_block
<1>6. ASSUME NEW b \in Bits, pmmngr_free_block(b)  PROVE RunsLedger'
  BY <1>4, <1>6 DEF pmmngr_free_block
<1>7. ASSUME NEW a \in Amounts, pmmngr_alloc_blocks(a)  PROVE RunsLedger'
  <2>1. Run(mmap_first_free_s(a), a) \cap mmngrMemoryMap = {}
    BY <1>7, RunIsClear DEF pmmngr_alloc_blocks, RunFails
  <2> QED BY <1>3, <1>7, <2>1 DEF pmmngr_alloc_blocks
<1>8. ASSUME NEW a \in Amounts, NEW b \in Bits, pmmngr_free_blocks(b, a)
      PROVE  RunsLedger'
  BY <1>4, <1>8 DEF pmmngr_free_blocks
<1>9. CASE UNCHANGED vars
  BY <1>9 DEF RunsLedger, MapIsLedger, Scanned, WholeWords, vars
<1> QED BY <1>1, <1>2, <1>5, <1>6, <1>7, <1>8, <1>9 DEF RunsNext, Next, RegionCall

LEMMA RunsLedgerAlways == RunsSpec => []RunsLedger
<1>1. Init => RunsLedger
  BY DEF Init, RunsLedger, MapIsLedger
<1> QED BY <1>1, RunsLedgerStep, PTL DEF RunsSpec

\* The bitmap is an exact ledger of the scanned blocks.
THEOREM MapIsAlwaysLedger == RunsSpec => []MapIsLedger
<1>1. RunsLedger => MapIsLedger
  BY DEF RunsLedger
<1> QED BY <1>1, RunsLedgerAlways, PTL

\* What is handed out, a block or a run, is all clear and nobody's.
THEOREM RunsAreAlwaysFresh == RunsSpec => RunIsFresh
<1> DEFINE Fresh(S) == S \cap (held \cup mmngrMemoryMap) = {}
           A == /\ pmmngr_alloc_block => Fresh({mmap_first_free})
                /\ \A a \in Amounts :
                     pmmngr_alloc_blocks(a) => Fresh(Run(mmap_first_free_s(a), a))
<1>1. RunsLedger => A
  <2> SUFFICES ASSUME RunsLedger PROVE A
    OBVIOUS
  <2>1. pmmngr_alloc_block => mmap_first_free \notin mmngrMemoryMap
    BY FirstFreeIsClear DEF pmmngr_alloc_block, AllocFails
  <2>2. ASSUME NEW a \in Amounts, pmmngr_alloc_blocks(a)
        PROVE  Run(mmap_first_free_s(a), a) \cap mmngrMemoryMap = {}
    BY <2>2, RunIsClear DEF pmmngr_alloc_blocks, RunFails
  <2> QED BY <2>1, <2>2 DEF RunsLedger
<1>2. RunsLedger /\ [RunsNext]_vars => [A]_vars
  BY <1>1
<1> QED BY <1>2, RunsLedgerAlways, PTL DEF RunsSpec, RunIsFresh

\* Without runs, only usable blocks are held, and never block 0.
THEOREM HeldIsAlwaysUsable == Spec => []HeldIsUsable
<1>1. LedgerInv => HeldIsUsable
  BY DEF LedgerInv
<1> QED BY <1>1, LedgerAlways, PTL

-----------------------------------------------------------------------------
(* Counter against bitmap.                                                 *)

LEMMA MapIsFinite ==
  ASSUME TypeOK
  PROVE  IsFiniteSet(mmngrMemoryMap)
<1>1. IsFiniteSet(Bits)
  BY FS_Interval, SizesAssumption DEF Bits
<1>2. mmngrMemoryMap \in SUBSET Bits
  BY DEF TypeOK
<1> QED BY <1>1, <1>2, FS_Subset

\* Adding to the counter what is added to the map, or taking as much from
\* both, leaves their difference modulo 2^32 alone.
LEMMA DriftAfterSet ==
  ASSUME TypeOK, NEW n \in Nat, NEW R, R \cap mmngrMemoryMap = {},
         IsFiniteSet(R), Cardinality(R) = n,
         mmngrMemoryMap' = mmngrMemoryMap \cup R, mmngrUsedBlocks' = Plus(n)
  PROVE  Drift' = Drift
<1> DEFINE c == Cardinality(mmngrMemoryMap)
<1>1. IsFiniteSet(mmngrMemoryMap)
  BY MapIsFinite
<1>2. c \in Nat /\ Cardinality(mmngrMemoryMap') = c + n
  <2>1. mmngrMemoryMap \cap R = {} /\ Cardinality({}) = 0
    BY FS_EmptySet
  <2>2. c \in Nat
    BY <1>1, FS_CardinalityType
  <2>3. Cardinality(mmngrMemoryMap \cup R)
          = Cardinality(mmngrMemoryMap) + Cardinality(R) - Cardinality(mmngrMemoryMap \cap R)
    BY <1>1, FS_Union
  <2> HIDE DEF c
  <2>4. Cardinality(mmngrMemoryMap \cup R) = c + n - 0
    BY <2>1, <2>3 DEF c
  <2> QED BY <2>2, <2>4
<1>3. mmngrUsedBlocks \in Int /\ Modulus \in Nat \ {0}
  BY SizesAssumption DEF TypeOK
<1> HIDE DEF c
<1>4. Drift' = (((mmngrUsedBlocks + n) % Modulus) - (c + n)) % Modulus
  BY <1>2 DEF Drift, Plus
<1>5. Drift' = ((mmngrUsedBlocks + n) - (c + n)) % Modulus
  <2>1. mmngrUsedBlocks + n \in Int /\ c + n \in Int
    BY <1>2, <1>3
  <2> QED BY <2>1, <1>3, <1>4, ModDifference
<1>6. (mmngrUsedBlocks + n) - (c + n) = mmngrUsedBlocks - c
  BY <1>2, <1>3
<1> QED BY <1>5, <1>6 DEF Drift, c

LEMMA DriftAfterUnset ==
  ASSUME TypeOK, NEW n \in Nat, NEW R, R \subseteq mmngrMemoryMap,
         IsFiniteSet(R), Cardinality(R) = n,
         mmngrMemoryMap' = mmngrMemoryMap \ R, mmngrUsedBlocks' = Minus(n)
  PROVE  Drift' = Drift
<1> DEFINE c == Cardinality(mmngrMemoryMap)
<1>1. IsFiniteSet(mmngrMemoryMap)
  BY MapIsFinite
<1>2. c \in Nat /\ Cardinality(mmngrMemoryMap') = c - n
  <2>1. mmngrMemoryMap \cap R = R
    OBVIOUS
  <2> QED BY <1>1, <2>1, FS_Difference, FS_CardinalityType
<1>3. mmngrUsedBlocks \in Int /\ Modulus \in Nat \ {0}
  BY SizesAssumption DEF TypeOK
<1> HIDE DEF c
<1>4. Drift' = (((mmngrUsedBlocks - n) % Modulus) - (c - n)) % Modulus
  BY <1>2 DEF Drift, Minus
<1>5. Drift' = ((mmngrUsedBlocks - n) - (c - n)) % Modulus
  <2>1. mmngrUsedBlocks - n \in Int /\ c - n \in Int
    BY <1>2, <1>3
  <2> QED BY <2>1, <1>3, <1>4, ModDifference
<1>6. (mmngrUsedBlocks - n) - (c - n) = mmngrUsedBlocks - c
  BY <1>2, <1>3
<1> QED BY <1>5, <1>6 DEF Drift, c

\* At run time the counter and the bitmap move together.
THEOREM RuntimeNeverDrifts == RunsSpec => RuntimeKeepsDrift
<1>1. TypeOK /\ RunsLedger /\ [RunsNext]_vars => [RegionCall \/ Drift' = Drift]_vars
  <2> SUFFICES ASSUME TypeOK, RunsLedger, RunsNext, ~RegionCall
               PROVE  Drift' = Drift
    OBVIOUS
  <2>1. \A b : IsFiniteSet({b}) /\ Cardinality({b}) = 1
    BY FS_Singleton
  <2>2. CASE pmmngr_alloc_block
    <3> PICK f : f = mmap_first_free
      OBVIOUS
    <3>1. {f} \cap mmngrMemoryMap = {}
      BY <2>2, FirstFreeIsClear DEF pmmngr_alloc_block, AllocFails
    <3>2. mmngrMemoryMap' = mmngrMemoryMap \cup {f} /\ mmngrUsedBlocks' = Plus(1)
      BY <2>2 DEF pmmngr_alloc_block
    <3> QED BY <2>1, <3>1, <3>2, DriftAfterSet
  <2>3. ASSUME NEW b \in Bits, pmmngr_free_block(b)
        PROVE  Drift' = Drift
    <3>1. {b} \subseteq mmngrMemoryMap
      BY <2>3 DEF pmmngr_free_block, RunsLedger
    <3>2. mmngrMemoryMap' = mmngrMemoryMap \ {b} /\ mmngrUsedBlocks' = Minus(1)
      BY <2>3 DEF pmmngr_free_block
    <3> QED BY <2>1, <3>1, <3>2, DriftAfterUnset
  <2>4. ASSUME NEW a \in Amounts, pmmngr_alloc_blocks(a)
        PROVE  Drift' = Drift
    <3> PICK R : R = Run(mmap_first_free_s(a), a)
      OBVIOUS
    <3>1. a \in Nat /\ R \cap mmngrMemoryMap = {} /\ IsFiniteSet(R) /\ Cardinality(R) = a
      BY <2>4, RunIsClear, AmountsAssumption DEF pmmngr_alloc_blocks, RunFails
    <3>2. mmngrMemoryMap' = mmngrMemoryMap \cup R /\ mmngrUsedBlocks' = Plus(a)
      BY <2>4 DEF pmmngr_alloc_blocks
    <3> QED BY <3>1, <3>2, DriftAfterSet
  <2>5. ASSUME NEW a \in Amounts, NEW b \in Bits, pmmngr_free_blocks(b, a)
        PROVE  Drift' = Drift
    <3> PICK R : R = Run(b, a)
      OBVIOUS
    <3>1. a \in Nat /\ R \subseteq mmngrMemoryMap /\ IsFiniteSet(R) /\ Cardinality(R) = a
      BY <2>5, GivenRun DEF pmmngr_free_blocks, RunsLedger
    <3>2. mmngrMemoryMap' = mmngrMemoryMap \ R /\ mmngrUsedBlocks' = Minus(a)
      BY <2>5 DEF pmmngr_free_blocks
    <3> QED BY <3>1, <3>2, DriftAfterUnset
  <2> QED BY <2>2, <2>3, <2>4, <2>5 DEF RunsNext, Next
<1> QED BY <1>1, TypeCorrect, RunsLedgerAlways, PTL DEF RunsSpec, RuntimeKeepsDrift

\* Where the counter does not run ahead of the bitmap, a refusal means that
\* every usable block is held.
THEOREM RefusalsAreJust == RunsSpec => []RefusedOnlyWhenFull
<1>1. TypeOK /\ RunsLedger => RefusedOnlyWhenFull
  <2> SUFFICES ASSUME TypeOK, RunsLedger,
                      mmngrUsedBlocks <= Cardinality(mmngrMemoryMap \cap (0 .. MaxBlocks - 1)),
                      AllocFails
               PROVE  usable \cap Scanned \subseteq held
    BY DEF RefusedOnlyWhenFull
  <2> DEFINE B == 0 .. MaxBlocks - 1
             M == mmngrMemoryMap \cap B
  <2>1. IsFiniteSet(B) /\ Cardinality(B) = MaxBlocks
    BY FS_Interval, SizesAssumption
  <2>2. CASE pmmngr_get_free_block_count = 0
    <3>1. MaxBlocks - mmngrUsedBlocks = 0
      <4>1. /\ MaxBlocks - mmngrUsedBlocks \in -Modulus + 1 .. Modulus - 1
            /\ (MaxBlocks - mmngrUsedBlocks) % Modulus = 0
        BY <2>2, SizesAssumption DEF TypeOK, pmmngr_get_free_block_count
      <4> DEFINE d == (MaxBlocks - mmngrUsedBlocks) \div Modulus
      <4>2. /\ d \in Int
            /\ MaxBlocks - mmngrUsedBlocks = Modulus * d
        <5>1. MaxBlocks - mmngrUsedBlocks \in Int /\ Modulus \in Nat \ {0}
          BY SizesAssumption DEF TypeOK
        <5>2. /\ d \in Int
              /\ MaxBlocks - mmngrUsedBlocks
                   = Modulus * d + ((MaxBlocks - mmngrUsedBlocks) % Modulus)
          BY <5>1, Division
        <5> HIDE DEF d
        <5> QED BY <4>1, <5>1, <5>2
      <4> HIDE DEF d
      <4>3. d = 0
        <5>1. CASE d >= 1
          <6>1. Modulus * d >= Modulus
            BY <5>1, <4>2, SizesAssumption
          <6> QED BY <6>1, <4>1, <4>2, SizesAssumption
        <5>2. CASE d <= -1
          <6>1. Modulus * d <= -Modulus
            BY <5>2, <4>2, SizesAssumption
          <6> QED BY <6>1, <4>1, <4>2, SizesAssumption
        <5> QED BY <5>1, <5>2, <4>2
      <4> QED BY <4>2, <4>3, SizesAssumption
    <3>2. M \subseteq B /\ Cardinality(M) <= MaxBlocks /\ Cardinality(M) \in Nat
      <4>1. M \in SUBSET B
        OBVIOUS
      <4>2. Cardinality(M) <= Cardinality(B) /\ IsFiniteSet(M)
        BY <4>1, <2>1, FS_Subset
      <4> QED BY <4>1, <4>2, <2>1, FS_CardinalityType
    <3>3. Cardinality(M) = MaxBlocks
      BY <3>1, <3>2, SizesAssumption DEF TypeOK
    <3>4. M = B
      BY <3>2, <3>3, <2>1, FS_Subset
    <3> QED BY <3>4, ScannedIsMapped DEF RunsLedger, MapIsLedger
  <2>3. CASE mmap_first_free = 0
    <3> DEFINE C == Scanned \ mmngrMemoryMap
    <3>1. CASE C = {}
      BY <3>1 DEF RunsLedger, MapIsLedger
    <3>2. CASE C # {}
      <4>1. C \subseteq Nat
        BY DEF Scanned
      <4>2. Min(C) = 0
        BY <2>3, <3>2 DEF mmap_first_free
      <4>3. 0 \in C
        BY <4>1, <4>2, <3>2, MinIsLeast
      <4>4. 0 \in usable
        BY <4>3 DEF RunsLedger, MapIsLedger
      <4> QED BY <4>4 DEF RunsLedger
    <3> QED BY <3>1, <3>2
  <2> QED BY <2>2, <2>3 DEF AllocFails
<1> QED BY <1>1, TypeCorrect, RunsLedgerAlways, PTL

-----------------------------------------------------------------------------
(* The ledger of FrameAllocator.                                           *)

\* Every block pmmngr_alloc_block answers is a fresh one of the ledger.
THEOREM AnswersAreFresh == Spec => EveryAnswerIsFresh
<1>1. LedgerInv /\ [Next]_vars
        => [pmmngr_alloc_block => mmap_first_free \notin held
                                    /\ Ledger!Alloc({mmap_first_free})]_vars
  BY FirstFreeIsFresh DEF pmmngr_alloc_block, Ledger!Alloc
<1> QED BY <1>1, LedgerAlways, PTL DEF Spec, EveryAnswerIsFresh

\* The bitmap, the counter and the scan implement the ledger: every step is
\* a ledger step or leaves the ledger alone.
THEOREM Refinement == RunsSpec => ImplementsFrameAllocator
<1>1. Init => Ledger!Init
  BY DEF Init, Ledger!Init
<1>2. RunsLedger /\ [RunsNext]_vars => [Ledger!Next]_(Ledger!vars)
  <2> SUFFICES ASSUME RunsLedger, [RunsNext]_vars
               PROVE  [Ledger!Next]_(Ledger!vars)
    OBVIOUS
  <2>1. ASSUME NEW r \in Regions, pmmngr_init_region(r[1], r[2])
        PROVE  Ledger!Next
    <3> DEFINE S == InitBlocks(r[1], r[2])
    <3>1. S \cap held = {} /\ usable' = (usable \cup S) \ {0} /\ held' = held
      BY <2>1 DEF pmmngr_init_region
    <3> HIDE DEF S
    <3>2. Ledger!Donate(S \cap Scanned)
      BY <3>1 DEF Ledger!Donate
    <3> QED BY <3>2 DEF Ledger!Next
  <2>2. ASSUME NEW r \in Regions, pmmngr_deinit_region(r[1], r[2])
        PROVE  Ledger!Next
    <3> DEFINE S == DeinitBlocks(r[1], r[2])
    <3>1. S \cap held = {} /\ usable' = usable \ S /\ held' = held
      BY <2>2 DEF pmmngr_deinit_region
    <3> HIDE DEF S
    <3>2. Ledger!Reserve(S \cap Scanned)
      BY <3>1 DEF Ledger!Reserve
    <3> QED BY <3>2 DEF Ledger!Next
  <2>3. ASSUME NEW R, R \cap mmngrMemoryMap = {}, held' = held \cup R, usable' = usable
        PROVE  Ledger!Next
    <3>1. Ledger!Alloc(R \cap Scanned)
      BY <2>3 DEF Ledger!Alloc, RunsLedger, MapIsLedger
    <3> QED BY <3>1 DEF Ledger!Next
  <2>4. ASSUME NEW R, R \subseteq held, held' = held \ R, usable' = usable
        PROVE  Ledger!Next
    <3>1. Ledger!Release(R \cap Scanned)
      BY <2>4 DEF Ledger!Release
    <3> QED BY <3>1 DEF Ledger!Next
  <2>5. CASE pmmngr_alloc_block
    <3>1. {mmap_first_free} \cap mmngrMemoryMap = {}
      BY <2>5, FirstFreeIsClear DEF pmmngr_alloc_block, AllocFails
    <3> QED BY <2>3, <2>5, <3>1 DEF pmmngr_alloc_block
  <2>6. ASSUME NEW b \in Bits, pmmngr_free_block(b)
        PROVE  Ledger!Next
    BY <2>4, <2>6 DEF pmmngr_free_block
  <2>7. ASSUME NEW a \in Amounts, pmmngr_alloc_blocks(a)
        PROVE  Ledger!Next
    <3>1. Run(mmap_first_free_s(a), a) \cap mmngrMemoryMap = {}
      BY <2>7, RunIsClear DEF pmmngr_alloc_blocks, RunFails
    <3> QED BY <2>3, <2>7, <3>1 DEF pmmngr_alloc_blocks
  <2>8. ASSUME NEW a \in Amounts, NEW b \in Bits, pmmngr_free_blocks(b, a)
        PROVE  Ledger!Next
    BY <2>4, <2>8 DEF pmmngr_free_blocks
  <2>9. CASE UNCHANGED vars
    BY <2>9 DEF vars, Ledger!vars
  <2> QED BY <2>1, <2>2, <2>5, <2>6, <2>7, <2>8, <2>9 DEF RunsNext, Next, RegionCall
<1> QED BY <1>1, <1>2, RunsLedgerAlways, PTL DEF RunsSpec, ImplementsFrameAllocator, Ledger!Spec

-----------------------------------------------------------------------------
(* The boot: what initialise_memory leaves behind, for every memory map of *)
(* the BIOS.  N calls declare memory usable, M reserve what is in use.     *)

N == Len(BiosMap)
M == Len(UsedBefore) + 1 + Len(UsedAfter)

Base(k) == DeinitCalls[k].base
Size(k) == DeinitCalls[k].size

LEMMA EntryType ==
  /\ N \in Nat /\ DOMAIN BiosMap = 1 .. N
  /\ \A i \in DOMAIN BiosMap : BiosMap[i] \in [high : Nat, base : Nat, length : Nat, type : Nat]
<1>1. BiosMap \in Seq([high : Nat, base : Nat, length : Nat, type : Nat])
  BY MapAssumption
<1> QED BY <1>1, LenProperties, ElementOfSeq DEF N

LEMMA EbdaIsBelowRom ==
  ASSUME ebda \in EbdaBases
  PROVE  EbdaBase \in 0 .. RomBase
BY EbdaAssumption DEF EbdaBase

\* What stands where in two sequences put together.
IsJoined(s, t, u) ==
  /\ Len(s) \in Nat /\ Len(t) \in Nat /\ Len(u) = Len(s) + Len(t)
  /\ \A i \in 1 .. Len(s) : u[i] = s[i]
  /\ \A i \in 1 .. Len(t) : u[Len(s) + i] = t[i]

LEMMA Joined ==
  ASSUME NEW S, NEW s \in Seq(S), NEW t \in Seq(S)
  PROVE  s \o t \in Seq(S) /\ IsJoined(s, t, s \o t)
<1>1. Len(s) \in Nat /\ Len(t) \in Nat
  BY LenProperties
<1>2. /\ s \o t \in Seq(S) /\ Len(s \o t) = Len(s) + Len(t)
      /\ \A i \in 1 .. Len(s) + Len(t) : (s \o t)[i] = IF i <= Len(s) THEN s[i] ELSE t[i - Len(s)]
  BY ConcatProperties
<1>3. ASSUME NEW i \in 1 .. Len(s)  PROVE (s \o t)[i] = s[i]
  BY <1>1, <1>2
<1>4. ASSUME NEW i \in 1 .. Len(t)  PROVE (s \o t)[Len(s) + i] = t[i]
  <2>1. Len(s) + i \in 1 .. Len(s) + Len(t) /\ ~(Len(s) + i <= Len(s)) /\ (Len(s) + i) - Len(s) = i
    BY <1>1
  <2> QED BY <1>2, <2>1
<1> QED BY <1>1, <1>2, <1>3, <1>4 DEF IsJoined

\* The regions that are reserved begin or end at a block.
LEMMA ReservedRegions ==
  ASSUME ebda \in EbdaBases
  PROVE  /\ DOMAIN DeinitCalls = 1 .. M /\ Len(DeinitCalls) = M /\ M \in Nat
         /\ \A k \in 1 .. M :
              /\ DeinitCalls[k] = [op |-> "deinit", base |-> Base(k), size |-> Size(k)]
              /\ Base(k) \in Nat /\ Size(k) \in Nat
              /\ Base(k) % BlockSize = 0 \/ (Base(k) + Size(k)) % BlockSize = 0
         /\ \E k \in 1 .. M : Base(k) = EbdaBase /\ Size(k) = RomBase - EbdaBase
         /\ \A i \in DOMAIN UsedBefore :
              \E k \in 1 .. M : Base(k) = UsedBefore[i][1] /\ Size(k) = UsedBefore[i][2]
         /\ \A i \in DOMAIN UsedAfter :
              \E k \in 1 .. M : Base(k) = UsedAfter[i][1] /\ Size(k) = UsedAfter[i][2]
<1> DEFINE region == <<EbdaBase, RomBase - EbdaBase>>
           Fits(r) == r \in Nat \X Nat
                      /\ (r[1] % BlockSize = 0 \/ (r[1] + r[2]) % BlockSize = 0)
           p == Len(UsedBefore)
           q == Len(UsedAfter)
           first == UsedBefore \o <<region>>
           used == first \o UsedAfter
<1>1. Fits(region)
  <2>1. EbdaBase \in 0 .. RomBase /\ RomBase \in Nat /\ RomBase % BlockSize = 0
    BY EbdaIsBelowRom, LayoutAssumption
  <2>2. region \in Nat \X Nat /\ region[1] + region[2] = RomBase
    BY <2>1
  <2> QED BY <2>1, <2>2
<1>2. /\ UsedBefore \in Seq(Nat \X Nat) /\ UsedAfter \in Seq(Nat \X Nat)
      /\ \A i \in 1 .. p : Fits(UsedBefore[i])
      /\ \A i \in 1 .. q : Fits(UsedAfter[i])
  <2>1. ASSUME NEW u \in {UsedBefore, UsedAfter}, NEW i \in 1 .. Len(u)  PROVE Fits(u[i])
    <3>1. u \in Seq(Nat \X Nat)
          /\ \A j \in DOMAIN u : u[j][1] % BlockSize = 0 \/ (u[j][1] + u[j][2]) % BlockSize = 0
      BY LayoutAssumption
    <3>2. i \in DOMAIN u /\ u[i] \in Nat \X Nat
      BY <3>1
    <3> QED BY <3>1, <3>2
  <2> QED BY <2>1, LayoutAssumption
<1>3. /\ p \in Nat /\ first \in Seq(Nat \X Nat) /\ Len(first) = p + 1
      /\ \A i \in 1 .. p : first[i] = UsedBefore[i]
      /\ first[p + 1] = region
  <2>1. <<region>> \in Seq(Nat \X Nat) /\ Len(<<region>>) = 1 /\ <<region>>[1] = region
    BY <1>1
  <2> HIDE DEF Fits, region, p
  <2>2. first \in Seq(Nat \X Nat) /\ IsJoined(UsedBefore, <<region>>, first)
    BY <1>2, <2>1, Joined
  <2> HIDE DEF first
  <2> QED BY <2>1, <2>2 DEF IsJoined, p
<1>4. /\ q \in Nat /\ used \in Seq(Nat \X Nat) /\ Len(used) = p + 1 + q
      /\ \A i \in 1 .. p + 1 : used[i] = first[i]
      /\ \A i \in 1 .. q : used[p + 1 + i] = UsedAfter[i]
  <2> HIDE DEF Fits, first, p
  <2>1. used \in Seq(Nat \X Nat) /\ IsJoined(first, UsedAfter, used)
    BY <1>2, <1>3, Joined
  <2> HIDE DEF used
  <2> QED BY <1>3, <2>1 DEF IsJoined, q
<1>5. DeinitCalls = [i \in DOMAIN used |-> [op |-> "deinit", base |-> used[i][1], size |-> used[i][2]]]
  BY DEF DeinitCalls
<1>6. M = p + 1 + q
  BY DEF M
<1> HIDE DEF used, first, p, q
<1>11. \E k \in 1 .. M : Base(k) = EbdaBase /\ Size(k) = RomBase - EbdaBase
  <2>1. p + 1 \in 1 .. M /\ p + 1 \in DOMAIN used /\ used[p + 1] = region
    BY <1>3, <1>4, <1>6
  <2>2. Base(p + 1) = EbdaBase /\ Size(p + 1) = RomBase - EbdaBase
    BY <1>5, <2>1 DEF Base, Size
  <2> QED BY <2>1, <2>2
<1>12. ASSUME NEW i \in DOMAIN UsedBefore
       PROVE  \E k \in 1 .. M : Base(k) = UsedBefore[i][1] /\ Size(k) = UsedBefore[i][2]
  <2>1. i \in 1 .. p
    BY <1>2 DEF p
  <2>2. i \in 1 .. M /\ i \in DOMAIN used /\ used[i] = UsedBefore[i]
    BY <1>3, <1>4, <1>6, <2>1
  <2>3. Base(i) = UsedBefore[i][1] /\ Size(i) = UsedBefore[i][2]
    BY <1>5, <2>2 DEF Base, Size
  <2> QED BY <2>2, <2>3
<1>13. ASSUME NEW i \in DOMAIN UsedAfter
       PROVE  \E k \in 1 .. M : Base(k) = UsedAfter[i][1] /\ Size(k) = UsedAfter[i][2]
  <2> DEFINE k == p + 1 + i
  <2>1. i \in 1 .. q
    BY <1>2 DEF q
  <2>2. used[k] = UsedAfter[i]
    BY <1>4, <2>1
  <2>4. k \in 1 .. M /\ k \in DOMAIN used
    <3>0. p \in Nat /\ q \in Nat
      BY <1>3, <1>4
    <3>1. k \in 1 .. p + 1 + q
      BY <3>0, <2>1
    <3>2. DOMAIN used = 1 .. p + 1 + q
      BY <1>4, LenProperties
    <3> QED BY <1>6, <3>1, <3>2
  <2> HIDE DEF k
  <2>3. Base(k) = UsedAfter[i][1] /\ Size(k) = UsedAfter[i][2]
    BY <1>5, <2>2, <2>4 DEF Base, Size
  <2> QED BY <2>3, <2>4
<1> HIDE DEF region
<1>7. DOMAIN used = 1 .. M /\ M \in Nat
  BY <1>3, <1>4, <1>6
<1>8. \A k \in 1 .. M : Fits(used[k])
  <2> HIDE DEF Fits
  <2> TAKE k \in 1 .. M
  <2>1. CASE k <= p
    BY <1>2, <1>3, <1>4, <1>6, <2>1
  <2>2. CASE k = p + 1
    BY <1>1, <1>3, <1>4, <1>6, <2>2
  <2>3. CASE k > p + 1
    <3> DEFINE j == k - (p + 1)
    <3>1. j \in 1 .. q /\ k = p + 1 + j
      BY <1>3, <1>4, <1>6, <2>3
    <3> HIDE DEF j
    <3> QED BY <1>2, <1>4, <3>1
  <2> QED BY <1>3, <2>1, <2>2, <2>3
<1>9. DOMAIN DeinitCalls = 1 .. M /\ Len(DeinitCalls) = M
  BY <1>5, <1>7
<1>10. ASSUME NEW k \in 1 .. M
       PROVE  /\ DeinitCalls[k] = [op |-> "deinit", base |-> Base(k), size |-> Size(k)]
              /\ Base(k) \in Nat /\ Size(k) \in Nat
              /\ Base(k) % BlockSize = 0 \/ (Base(k) + Size(k)) % BlockSize = 0
  <2>1. DeinitCalls[k] = [op |-> "deinit", base |-> used[k][1], size |-> used[k][2]]
    BY <1>5, <1>7
  <2>2. Base(k) = used[k][1] /\ Size(k) = used[k][2]
    BY <2>1 DEF Base, Size
  <2> QED BY <1>8, <2>1, <2>2
<1> QED BY <1>7, <1>9, <1>10, <1>11, <1>12, <1>13

\* The boot code's calls, one after the other.
LEMMA CallsInOrder ==
  ASSUME ebda \in EbdaBases
  PROVE  /\ N \in Nat /\ M \in Nat /\ Len(Calls) = N + M + 2
         /\ \A k \in 1 .. N : Calls[k] = InitCalls[k]
         /\ \A k \in 1 .. M : Calls[N + k] = DeinitCalls[k]
         /\ Calls[N + M + 1].op = "alloc"
         /\ Calls[N + M + 2] = [op |-> "init", base |-> OldPageTable[1], size |-> OldPageTable[2]]
<1> DEFINE Call == [op : {"init", "skip", "deinit", "alloc"}, base : Nat, size : Nat]
           A == InitCalls \o DeinitCalls
           B == A \o MapVideoMemory
<1>1. InitCalls \in Seq(Call) /\ Len(InitCalls) = N
  <2>1. /\ N \in Nat /\ DOMAIN BiosMap = 1 .. N
        /\ \A i \in 1 .. N : BiosMap[i] \in [high : Nat, base : Nat, length : Nat, type : Nat]
    BY EntryType
  <2>2. InitCalls = [i \in 1 .. N |-> InitCalls[i]] /\ \A i \in 1 .. N : InitCalls[i] \in Call
    BY <2>1 DEF InitCalls
  <2> HIDE DEF Call
  <2> QED BY <2>1, <2>2, SeqDef, LenProperties
<1>2. DeinitCalls \in Seq(Call) /\ Len(DeinitCalls) = M
  <2>1. \A i \in 1 .. M : DeinitCalls[i] \in Call
    BY ReservedRegions
  <2>2. DeinitCalls = [i \in 1 .. M |-> DeinitCalls[i]]
    BY ReservedRegions DEF DeinitCalls
  <2> HIDE DEF Call
  <2> QED BY <2>1, <2>2, ReservedRegions, SeqDef
<1>3. MapVideoMemory \in Seq(Call) /\ Len(MapVideoMemory) = 1 /\ MapVideoMemory[1].op = "alloc"
  BY DEF MapVideoMemory
<1>4. FreeOldPageTable \in Seq(Call) /\ Len(FreeOldPageTable) = 1
      /\ FreeOldPageTable[1] = [op |-> "init", base |-> OldPageTable[1], size |-> OldPageTable[2]]
  BY LayoutAssumption DEF FreeOldPageTable
<1> HIDE DEF Call
<1>5. /\ N \in Nat /\ M \in Nat /\ A \in Seq(Call) /\ Len(A) = N + M
      /\ \A i \in 1 .. N : A[i] = InitCalls[i]
      /\ \A i \in 1 .. M : A[N + i] = DeinitCalls[i]
  <2>1. A \in Seq(Call) /\ IsJoined(InitCalls, DeinitCalls, A)
    BY <1>1, <1>2, Joined
  <2> HIDE DEF A
  <2> QED BY <1>1, <1>2, <2>1 DEF IsJoined
<1> HIDE DEF A
<1>6. /\ B \in Seq(Call) /\ Len(B) = N + M + 1
      /\ \A i \in 1 .. N + M : B[i] = A[i]
      /\ B[N + M + 1] = MapVideoMemory[1]
  <2>1. B \in Seq(Call) /\ IsJoined(A, MapVideoMemory, B)
    BY <1>3, <1>5, Joined
  <2> HIDE DEF B
  <2> QED BY <1>3, <1>5, <2>1 DEF IsJoined
<1>7. Calls = B \o FreeOldPageTable
  BY DEF Calls, A
<1> HIDE DEF B
<1>8. /\ Len(Calls) = N + M + 2
      /\ \A i \in 1 .. N + M + 1 : Calls[i] = B[i]
      /\ Calls[N + M + 2] = FreeOldPageTable[1]
  <2>1. IsJoined(B, FreeOldPageTable, Calls)
    BY <1>4, <1>6, <1>7, Joined
  <2>2. N + M + 1 + 1 = N + M + 2
    BY <1>5
  <2> QED BY <1>4, <1>5, <1>6, <2>1, <2>2 DEF IsJoined
<1>9. \A k \in 1 .. N : Calls[k] = InitCalls[k]
  BY <1>5, <1>6, <1>8
<1>10. \A k \in 1 .. M : Calls[N + k] = DeinitCalls[k]
  <2> TAKE k \in 1 .. M
  <2>1. N + k \in 1 .. N + M /\ N + k \in 1 .. N + M + 1
    BY <1>5
  <2> QED BY <1>5, <1>6, <1>8, <2>1
<1>11. Calls[N + M + 1] = MapVideoMemory[1]
  BY <1>5, <1>6, <1>8
<1> QED BY <1>3, <1>4, <1>5, <1>8, <1>9, <1>10, <1>11

LEMMA LessFactor ==
  ASSUME NEW d \in Nat \ {0}, NEW m \in Int, NEW n \in Int, d * m < d * n
  PROVE  m < n
<1>1. CASE m >= n
  <2>1. d * m >= d * n
    BY <1>1, SMTT(30)
  <2> QED BY <2>1
<1> QED BY <1>1

LEMMA CeilDivCovers ==
  ASSUME NEW n \in Nat, NEW d \in Nat \ {0}
  PROVE  /\ CeilDiv(n, d) \in Nat
         /\ n <= d * CeilDiv(n, d) /\ d * CeilDiv(n, d) < n + d
         /\ n % d = 0 => d * CeilDiv(n, d) = n /\ CeilDiv(n, d) = n \div d
<1> DEFINE q == n \div d
           r == n % d
<1>1. q \in Int /\ r \in 0 .. d - 1 /\ n = d * q + r
  BY Division
<1>2. CeilDiv(n, d) = IF r = 0 THEN q ELSE q + 1
  BY DEF CeilDiv
<1> HIDE DEF q, r
<1>3. q >= 0
  <2>1. CASE q <= -1
    <3>1. d * q <= -d
      BY <1>1, <2>1, SMTT(30)
    <3> QED BY <1>1, <3>1
  <2> QED BY <1>1, <2>1
<1>4. d * (q + 1) = d * q + d
  BY <1>1
<1> QED BY <1>1, <1>2, <1>3, <1>4

\* A block that has a byte of a region in it is reserved with the region, if
\* the region begins or ends at a block.
LEMMA RoundingCovers ==
  ASSUME NEW base \in Nat, NEW size \in Nat,
         base % BlockSize = 0 \/ (base + size) % BlockSize = 0,
         NEW b \in Nat, NEW a \in BytesOf(b), a \in base .. base + size - 1
  PROVE  b \in DeinitBlocks(base, size)
<1> DEFINE B == BlockSize
           q == base \div B
           c == CeilDiv(size, B)
           e == (base + size) \div B
<1>1. B \in Nat \ {0}
  BY SizesAssumption
<1>2. q \in Int /\ base % B \in 0 .. B - 1 /\ base = B * q + (base % B)
  BY <1>1, Division
<1>3. c \in Nat /\ size <= B * c
  BY <1>1, CeilDivCovers
<1>4. e \in Int /\ (base + size) % B \in 0 .. B - 1 /\ base + size = B * e + ((base + size) % B)
  <2>1. base + size \in Int
    OBVIOUS
  <2> QED BY <1>1, <2>1, Division
<1>5. b * B <= a /\ a <= (b + 1) * B - 1 /\ base <= a /\ a <= base + size - 1 /\ a \in Int
  <2>1. b * B \in Int /\ (b + 1) * B \in Int
    BY <1>1
  <2> QED BY <2>1 DEF BytesOf
<1>6. base % B = 0 \/ (base + size) % B = 0
  OBVIOUS
<1>7. DeinitBlocks(base, size) = q .. q + c - 1
  BY DEF DeinitBlocks
<1> DEFINE r == base % B
           s == (base + size) % B
<1> HIDE DEF q, c, e, B, r, s
<1>8. q <= b
  <2>1. B * q < B * (b + 1)
    BY <1>1, <1>2, <1>5, SMTT(30) DEF r
  <2> QED BY <1>1, <1>2, <2>1, LessFactor
<1>9. b < q + c
  <2>1. CASE r = 0
    <3>1. B * b < B * q + B * c
      BY <1>1, <1>2, <1>3, <1>5, <2>1, SMTT(30) DEF r
    <3>2. B * q + B * c = B * (q + c)
      BY <1>1, <1>2, <1>3
    <3> QED BY <1>1, <1>2, <1>3, <3>1, <3>2, LessFactor
  <2>2. CASE s = 0
    <3>1. B * b < B * e
      BY <1>1, <1>4, <1>5, <2>2, SMTT(30) DEF s
    <3>2. b < e
      BY <1>1, <1>4, <3>1, LessFactor
    <3>3. B * e < B * (q + 1) + B * c
      BY <1>1, <1>2, <1>3, <1>4, <2>2, SMTT(30) DEF s
    <3>4. B * (q + 1) + B * c = B * (q + 1 + c)
      BY <1>1, <1>2, <1>3
    <3>5. e < q + 1 + c
      BY <1>1, <1>2, <1>3, <1>4, <3>3, <3>4, LessFactor
    <3> QED BY <1>2, <1>3, <1>4, <3>2, <3>5
  <2> QED BY <1>6, <2>1, <2>2 DEF r, s
<1> QED BY <1>2, <1>3, <1>7, <1>8, <1>9

\* The blocks of the old page table lie in it.
LEMMA OldBlocksLieInside ==
  ASSUME NEW b \in InitBlocks(OldPageTable[1], OldPageTable[2])
  PROVE  BytesOf(b) \subseteq OldPageTable[1] .. OldPageTable[1] + OldPageTable[2] - 1
<1> DEFINE B == BlockSize
           base == OldPageTable[1]
           size == OldPageTable[2]
           q == base \div B
           c == size \div B
<1>1. B \in Nat \ {0} /\ base \in Nat /\ size \in Nat /\ base % B = 0 /\ size % B = 0
  BY SizesAssumption, LayoutAssumption
<1>2. q \in Int /\ c \in Int /\ base = B * q /\ size = B * c
  <2>0. base \in Int /\ size \in Int
    BY <1>1
  <2>1. q \in Int /\ base = B * q + (base % B)
    BY <1>1, <2>0, Division, Zenon
  <2>2. c \in Int /\ size = B * c + (size % B)
    BY <1>1, <2>0, Division, Zenon
  <2> HIDE DEF B, base, size, q, c
  <2> QED BY <1>1, <2>1, <2>2
<1>3. InitBlocks(base, size) = q .. q + c - 1
  BY <1>1 DEF InitBlocks, CeilDiv
<1> SUFFICES ASSUME NEW a \in BytesOf(b)  PROVE a \in base .. base + size - 1
  OBVIOUS
<1> HIDE DEF B, base, size, q, c
<1>4. b \in Int /\ q <= b /\ b + 1 <= q + c
  BY <1>2, <1>3 DEF base, size
<1>5. a \in Int /\ b * B <= a /\ a <= (b + 1) * B - 1
  <2>1. b * B \in Int /\ (b + 1) * B \in Int
    BY <1>1, <1>4
  <2> QED BY <2>1 DEF BytesOf, B
<1>6. B * q <= B * b /\ B * (b + 1) <= B * (q + c)
  BY <1>1, <1>2, <1>4, SMTT(30)
<1>7. B * (q + c) = base + size /\ b * B = B * b /\ (b + 1) * B = B * (b + 1)
  BY <1>1, <1>2, <1>4
<1>8. base <= a
  BY <1>1, <1>2, <1>4, <1>5, <1>6, <1>7
<1>9. a <= base + size - 1
  BY <1>1, <1>2, <1>4, <1>5, <1>6, <1>7
<1> QED BY <1>1, <1>5, <1>8, <1>9

\* What is reserved once step calls have been made is no longer usable, until
\* the old page table is given back, and nothing is held before.
ReservedInv ==
  /\ LedgerInv
  /\ ebda \in EbdaBases
  /\ step \in 0 .. N + M + 2
  /\ step <= N + M => held = {}
  /\ \A k \in 1 .. M : N + k <= step =>
       DeinitBlocks(Base(k), Size(k)) \cap usable
         \subseteq IF Booted THEN InitBlocks(OldPageTable[1], OldPageTable[2]) ELSE {}

\* What the next call does.
LEMMA BootStepCases ==
  ASSUME ReservedInv, BootStep
  PROVE  /\ N \in Nat /\ M \in Nat /\ step' = step + 1 /\ ebda' = ebda /\ ~Booted
         /\ \/ /\ step + 1 \in 1 .. N
               /\ \/ BiosMap[step + 1].type \notin {1, 3} /\ UNCHANGED vars
                  \/ /\ BiosMap[step + 1].type \in {1, 3}
                     /\ pmmngr_init_region(BiosMap[step + 1].base, BiosMap[step + 1].length)
            \/ \E k \in 1 .. M :
                 step + 1 = N + k /\ pmmngr_deinit_region(Base(k), Size(k))
            \/ step = N + M /\ (pmmngr_alloc_block \/ UNCHANGED vars)
            \/ step = N + M + 1 /\ pmmngr_init_region(OldPageTable[1], OldPageTable[2])
<1>1. /\ N \in Nat /\ M \in Nat /\ Len(Calls) = N + M + 2
      /\ \A k \in 1 .. N : Calls[k] = InitCalls[k]
      /\ \A k \in 1 .. M : Calls[N + k] = DeinitCalls[k]
      /\ Calls[N + M + 1].op = "alloc"
      /\ Calls[N + M + 2] = [op |-> "init", base |-> OldPageTable[1], size |-> OldPageTable[2]]
  BY CallsInOrder DEF ReservedInv
<1> DEFINE c == Calls[step + 1]
<1>2. /\ step' = step + 1 /\ ebda' = ebda /\ ~Booted
      /\ \/ c.op = "skip" /\ UNCHANGED vars
         \/ c.op = "init" /\ pmmngr_init_region(c.base, c.size)
         \/ c.op = "deinit" /\ pmmngr_deinit_region(c.base, c.size)
         \/ c.op = "alloc" /\ pmmngr_alloc_block
         \/ c.op = "alloc" /\ UNCHANGED vars
  BY DEF BootStep
<1>3. step \in 0 .. N + M + 1
  BY <1>1, <1>2 DEF ReservedInv, Booted
<1> HIDE DEF c
<1>4. CASE step + 1 \in 1 .. N
  <2>1. /\ c.op = IF BiosMap[step + 1].type \in {1, 3} THEN "init" ELSE "skip"
        /\ c.base = BiosMap[step + 1].base /\ c.size = BiosMap[step + 1].length
    <3>1. step + 1 \in DOMAIN BiosMap
      BY <1>4, MapAssumption, LenProperties DEF N
    <3>2. c = InitCalls[step + 1]
      BY <1>1, <1>4 DEF c
    <3>3. InitCalls[step + 1] = [op   |-> IF BiosMap[step + 1].type \in {1, 3} THEN "init" ELSE "skip",
                                 base |-> BiosMap[step + 1].base,
                                 size |-> BiosMap[step + 1].length]
      BY <3>1 DEF InitCalls
    <3> QED BY <3>2, <3>3
  <2> QED BY <1>1, <1>2, <1>4, <2>1
<1>5. CASE \E k \in 1 .. M : step + 1 = N + k
  <2>1. PICK k \in 1 .. M : step + 1 = N + k
    BY <1>5
  <2>2. c.op = "deinit" /\ c.base = Base(k) /\ c.size = Size(k)
    <3>1. c = DeinitCalls[k]
      BY <1>1, <2>1 DEF c
    <3>2. DeinitCalls[k] = [op |-> "deinit", base |-> Base(k), size |-> Size(k)]
      BY ReservedRegions DEF ReservedInv
    <3> QED BY <3>1, <3>2
  <2> QED BY <1>1, <1>2, <2>1, <2>2
<1>6. CASE step = N + M
  BY <1>1, <1>2, <1>6 DEF c
<1>7. CASE step = N + M + 1
  <2>1. step + 1 = N + M + 2
    BY <1>1, <1>7
  <2> QED BY <1>1, <1>2, <1>7, <2>1 DEF c
<1>8. step + 1 \in 1 .. N \/ (\E k \in 1 .. M : step + 1 = N + k) \/ step = N + M \/ step = N + M + 1
  <2>1. CASE step + 1 > N /\ step + 1 <= N + M
    <3>1. step + 1 - N \in 1 .. M /\ step + 1 = N + (step + 1 - N)
      BY <1>1, <1>3, <2>1
    <3> QED BY <3>1
  <2> QED BY <1>1, <1>3, <2>1
<1> QED BY <1>4, <1>5, <1>6, <1>7, <1>8

LEMMA BootedAtEnd ==
  ASSUME ebda \in EbdaBases
  PROVE  Booted <=> step = N + M + 2
BY CallsInOrder DEF Booted

\* Which region is reserved in which call does not change.
LEMMA RegionsStay ==
  ASSUME ebda' = ebda
  PROVE  /\ \A k \in 1 .. M : Base(k)' = Base(k) /\ Size(k)' = Size(k)
         /\ Calls' = Calls /\ DeinitCalls' = DeinitCalls
<1>1. DeinitCalls' = DeinitCalls
  BY DEF DeinitCalls, EbdaBase
<1>2. Calls' = Calls
  BY <1>1 DEF Calls, InitCalls, MapVideoMemory, FreeOldPageTable
<1> QED BY <1>1, <1>2 DEF Base, Size

LEMMA ReservedInitially == BootInit => ReservedInv
<1> SUFFICES ASSUME BootInit PROVE ReservedInv
  OBVIOUS
<1>1. LedgerInv /\ ebda \in EbdaBases /\ step = 0 /\ held = {} /\ usable = {}
  BY LedgerInitially DEF BootInit, Init
<1>2. N \in Nat /\ M \in Nat
  BY <1>1, CallsInOrder
<1> QED BY <1>1, <1>2 DEF ReservedInv

LEMMA ReservedAtBoot ==
  ASSUME ReservedInv, BootStep
  PROVE  ReservedInv'
<1> DEFINE Old == InitBlocks(OldPageTable[1], OldPageTable[2])
           D(k) == DeinitBlocks(Base(k), Size(k))
<1>1. /\ LedgerInv /\ ebda \in EbdaBases
      /\ step <= N + M => held = {}
      /\ \A k \in 1 .. M : N + k <= step => D(k) \cap usable \subseteq IF Booted THEN Old ELSE {}
      /\ N \in Nat /\ M \in Nat /\ step' = step + 1 /\ ebda' = ebda /\ ~Booted
      /\ step \in 0 .. N + M + 1
  BY BootStepCases, BootedAtEnd DEF ReservedInv
<1>2. /\ \A k \in 1 .. M : D(k)' = D(k)
      /\ (Booted' <=> step' = N + M + 2)
  <2>1. \A k \in 1 .. M : Base(k)' = Base(k) /\ Size(k)' = Size(k)
    BY <1>1, RegionsStay
  <2>2. Booted' <=> step' = N + M + 2
    BY <1>1, BootedAtEnd, RegionsStay, CallsInOrder DEF Booted
  <2> QED BY <2>1, <2>2
<1> HIDE DEF D, Old
<1>3. ASSUME LedgerInv', step' <= N + M => held' = {},
             \A k \in 1 .. M : N + k <= step + 1 =>
               D(k) \cap usable' \subseteq IF step + 1 = N + M + 2 THEN Old ELSE {}
      PROVE  ReservedInv'
  <2>1. \A k \in 1 .. M : N + k <= step' =>
          D(k)' \cap usable' \subseteq IF Booted' THEN Old ELSE {}
    BY <1>1, <1>2, <1>3
  <2> QED BY <1>1, <1>3, <2>1 DEF ReservedInv, D, Old
<1>4. CASE step + 1 \in 1 .. N
  <2>1. UNCHANGED vars \/ pmmngr_init_region(BiosMap[step + 1].base, BiosMap[step + 1].length)
    BY <1>1, <1>4, BootStepCases
  <2>2. LedgerInv' /\ held' = held
    BY <1>1, <2>1, InitKeepsLedger, UnchangedKeepsLedger DEF vars, pmmngr_init_region
  <2> QED BY <1>1, <1>3, <1>4, <2>2
<1>5. ASSUME NEW k \in 1 .. M, step + 1 = N + k, pmmngr_deinit_region(Base(k), Size(k))
      PROVE  ReservedInv'
  <2>1. LedgerInv'
    BY <1>1, <1>5, DeinitKeepsLedger
  <2>2. held' = held /\ usable' = usable \ D(k)
    BY <1>5 DEF pmmngr_deinit_region, D
  <2>3. ASSUME NEW j \in 1 .. M, N + j <= step + 1
        PROVE  D(j) \cap usable' = {}
    <3>1. CASE j = k
      BY <2>2, <3>1
    <3>2. CASE j # k
      <4>1. N + j <= step
        BY <1>1, <1>5, <2>3, <3>2
      <4> QED BY <1>1, <2>2, <4>1
    <3> QED BY <3>1, <3>2
  <2> QED BY <1>1, <1>3, <1>5, <2>1, <2>2, <2>3
<1>6. CASE step = N + M
  <2>1. pmmngr_alloc_block \/ UNCHANGED vars
    BY <1>1, <1>6, BootStepCases
  <2>2. LedgerInv' /\ usable' = usable
    BY <1>1, <2>1, AllocKeepsLedger, UnchangedKeepsLedger DEF vars, pmmngr_alloc_block
  <2> QED BY <1>1, <1>3, <1>6, <2>2
<1>7. CASE step = N + M + 1
  <2>1. pmmngr_init_region(OldPageTable[1], OldPageTable[2])
    BY <1>1, <1>7, BootStepCases
  <2>2. LedgerInv' /\ usable' \subseteq usable \cup Old
    BY <1>1, <2>1, InitKeepsLedger DEF pmmngr_init_region, Old
  <2>3. \A k \in 1 .. M : D(k) \cap usable = {}
    BY <1>1, <1>7
  <2> QED BY <1>1, <1>3, <1>7, <2>2, <2>3
<1> QED BY <1>4, <1>5, <1>6, <1>7, BootStepCases

LEMMA ReservedAtRunTime ==
  ASSUME ReservedInv, RunTime \/ UNCHANGED bootVars
  PROVE  ReservedInv'
<1> DEFINE Old == InitBlocks(OldPageTable[1], OldPageTable[2])
           D(k) == DeinitBlocks(Base(k), Size(k))
<1>1. /\ LedgerInv /\ ebda \in EbdaBases /\ step \in 0 .. N + M + 2
      /\ step <= N + M => held = {}
      /\ \A k \in 1 .. M : N + k <= step => D(k) \cap usable \subseteq IF Booted THEN Old ELSE {}
  BY DEF ReservedInv
<1>2. /\ N \in Nat /\ M \in Nat /\ ebda' = ebda /\ step' = step
      /\ (Booted' <=> Booted) /\ (Booted => step = N + M + 2)
  <2>1. ebda' = ebda /\ step' = step
    BY DEF RunTime, bootVars
  <2>2. Calls' = Calls
    BY <2>1, RegionsStay
  <2>3. Booted' <=> Booted
    BY <2>1, <2>2 DEF Booted
  <2> QED BY <1>1, <2>1, <2>3, BootedAtEnd, CallsInOrder
<1>3. \A k \in 1 .. M : D(k)' = D(k)
  BY <1>2, RegionsStay
<1> HIDE DEF D, Old
<1>4. usable' = usable /\ LedgerInv' /\ (step <= N + M => held' = {})
  <2>1. CASE RunTime
    <3>1. Booted
      BY <2>1 DEF RunTime
    <3>2. CASE pmmngr_alloc_block
      BY <1>1, <1>2, <3>1, <3>2, AllocKeepsLedger DEF pmmngr_alloc_block
    <3>3. ASSUME NEW b \in Bits, pmmngr_free_block(b)
          PROVE  usable' = usable /\ LedgerInv' /\ (step <= N + M => held' = {})
      BY <1>1, <1>2, <3>1, <3>3, FreeKeepsLedger DEF pmmngr_free_block
    <3> QED BY <2>1, <3>2, <3>3 DEF RunTime
  <2>2. CASE UNCHANGED bootVars
    BY <1>1, <2>2, UnchangedKeepsLedger DEF bootVars, vars
  <2> QED BY <2>1, <2>2
<1>5. \A k \in 1 .. M : N + k <= step' =>
        D(k)' \cap usable' \subseteq IF Booted' THEN Old ELSE {}
  BY <1>1, <1>2, <1>3, <1>4
<1> QED BY <1>1, <1>2, <1>4, <1>5 DEF ReservedInv, D, Old

LEMMA ReservedAlways == WholeSpec => []ReservedInv
<1>1. WholeInit => ReservedInv
  BY ReservedInitially DEF WholeInit
<1>2. ReservedInv /\ [WholeNext]_<<bootVars, loaderVars>> => ReservedInv'
  BY ReservedAtBoot, ReservedAtRunTime DEF WholeNext, BootNext
<1> QED BY <1>1, <1>2, PTL DEF WholeSpec

\* Nobody is ever handed a block with a byte in it of anything that is in use,
\* whatever the memory map of the BIOS says, however large its entries are and
\* wherever the EBDA begins: the rounding of the regions initialise_memory
\* reserves for them covers them, and no request comes before that.
THEOREM UsedIsNeverHeld == WholeSpec => []UsedNeverHeld
<1>1. ReservedInv => UsedNeverHeld
  <2> SUFFICES ASSUME ReservedInv, NEW b \in held, NEW place \in PlacesInUse,
                      NEW a \in BytesOf(b), a \in Bytes(place)
               PROVE  FALSE
    BY DEF UsedNeverHeld
  <2> DEFINE Region(k) == Base(k) .. Base(k) + Size(k) - 1
             OldBytes == OldPageTable[1] .. OldPageTable[1] + OldPageTable[2] - 1
             D(k) == DeinitBlocks(Base(k), Size(k))
             Old == InitBlocks(OldPageTable[1], OldPageTable[2])
  <2>1. /\ LedgerInv /\ ebda \in EbdaBases /\ step \in 0 .. N + M + 2
        /\ step <= N + M => held = {}
        /\ \A k \in 1 .. M : N + k <= step => D(k) \cap usable \subseteq IF Booted THEN Old ELSE {}
    BY DEF ReservedInv
  <2>2. /\ M \in Nat /\ N \in Nat
        /\ \A k \in 1 .. M :
             /\ Base(k) \in Nat /\ Size(k) \in Nat
             /\ Base(k) % BlockSize = 0 \/ (Base(k) + Size(k)) % BlockSize = 0
        /\ \E k \in 1 .. M : Base(k) = EbdaBase /\ Size(k) = RomBase - EbdaBase
        /\ \A used \in {UsedBefore, UsedAfter} : \A i \in DOMAIN used :
             \E k \in 1 .. M : Base(k) = used[i][1] /\ Size(k) = used[i][2]
    BY <2>1, ReservedRegions, CallsInOrder
  <2>3. /\ \E k \in 1 .. M : a \in Region(k)
        /\ Booted => a \notin OldBytes
    <3>1. CASE place \in InUse
      <4>1. PICK used \in {UsedBefore, UsedAfter} : \E i \in DOMAIN used :
              Bytes(place) \subseteq Bytes(used[i])
        BY <3>1, InUseAssumption
      <4>2. PICK i \in DOMAIN used : Bytes(place) \subseteq Bytes(used[i])
        BY <4>1
      <4>3. a \in Bytes(used[i]) /\ a \notin Bytes(OldPageTable)
        BY <3>1, <4>2, InUseAssumption
      <4>4. PICK k \in 1 .. M : Base(k) = used[i][1] /\ Size(k) = used[i][2]
        BY <2>2
      <4>5. a \in Region(k) /\ a \notin OldBytes
        BY <4>3, <4>4 DEF Bytes
      <4> QED BY <4>5
    <3>2. CASE place = <<ebda, RomBase - ebda>>
      <4>1. /\ ebda \in Nat /\ RomBase \in Nat /\ OldPageTable \in Nat \X Nat
            /\ OldPageTable[1] + OldPageTable[2] <= ebda
        BY <2>1, EbdaAssumption, LayoutAssumption
      <4>2. place[1] = ebda /\ place[2] = RomBase - ebda
        BY <3>2
      <4>3. a \in Int /\ ebda <= a /\ a <= RomBase - 1
        BY <4>1, <4>2 DEF Bytes
      <4>4. EbdaBase = ebda
        BY <4>1, <4>3 DEF EbdaBase, EbdaBaseOf
      <4>5. PICK k \in 1 .. M : Base(k) = EbdaBase /\ Size(k) = RomBase - EbdaBase
        BY <2>2
      <4>6. a \in Region(k) /\ a \notin OldBytes
        BY <4>1, <4>3, <4>4, <4>5
      <4> QED BY <4>6
    <3>3. CASE ~Booted /\ place = OldPageTable
      <4>1. PICK i \in DOMAIN UsedAfter :
              /\ UsedAfter[i][1] <= OldPageTable[1]
              /\ OldPageTable[1] + OldPageTable[2] <= UsedAfter[i][1] + UsedAfter[i][2]
        BY LayoutAssumption
      <4>2. PICK k \in 1 .. M : Base(k) = UsedAfter[i][1] /\ Size(k) = UsedAfter[i][2]
        BY <2>2
      <4>3. Base(k) \in Nat /\ Size(k) \in Nat /\ OldPageTable \in Nat \X Nat
        BY <2>2, LayoutAssumption
      <4>4. a \in Region(k)
        BY <3>3, <4>1, <4>2, <4>3 DEF Bytes
      <4> QED BY <3>3, <4>4
    <3> QED BY <3>1, <3>2, <3>3 DEF PlacesInUse
  <2>4. PICK k \in 1 .. M : a \in Region(k)
    BY <2>3
  <2>5. b \in usable /\ b \in Nat
    BY <2>1 DEF LedgerInv, HeldIsUsable, Scanned
  <2>6. b \in D(k)
    BY <2>2, <2>4, <2>5, RoundingCovers
  <2>7. step > N + M
    BY <2>1, <2>2
  <2> HIDE DEF D, Old, Region, OldBytes
  <2>8. Booted /\ b \in Old
    BY <2>1, <2>2, <2>5, <2>6, <2>7
  <2>9. a \in OldBytes
    BY <2>8, OldBlocksLieInside DEF Old, OldBytes
  <2> QED BY <2>3, <2>8, <2>9
<1> QED BY <1>1, ReservedAlways, PTL

-----------------------------------------------------------------------------
(* Rounding at the ends of what the BIOS reports.                          *)

IsFree(i) == BiosMap[i].type \in {1, 3}

Touched(i) == InitBlocks(BiosMap[i].base, BiosMap[i].length)

\* A memory map as PCs report it: what is free is below 4 GiB and begins at a
\* block; it ends at one, or, as low memory does, in the EBDA.  The old page
\* table lies in memory.
MapIsRegular ==
  /\ \A i \in DOMAIN BiosMap : IsFree(i) =>
       LET end == BiosMap[i].base + BiosMap[i].length
       IN  /\ BiosMap[i].high = 0
           /\ BiosMap[i].base % BlockSize = 0
           /\ \/ BiosMap[i].length % BlockSize = 0
              \/ \A e \in EbdaBases : end \in EbdaBaseOf(e) .. RomBase - 1
  /\ \A a \in OldPageTable[1] .. OldPageTable[1] + OldPageTable[2] - 1 : IsRam(a)

\* What is usable was in a free entry, or is the old page table.
IsTouched(b) == \E i \in DOMAIN BiosMap : IsFree(i) /\ b \in Touched(i)

TouchedInv ==
  \A b \in usable :
    IsTouched(b) \/ (Booted /\ b \in InitBlocks(OldPageTable[1], OldPageTable[2]))

LEMMA TouchedStep ==
  ASSUME ReservedInv, TouchedInv, [WholeNext]_<<bootVars, loaderVars>>
  PROVE  TouchedInv'
<1> DEFINE Old == InitBlocks(OldPageTable[1], OldPageTable[2])
<1>1. ebda \in EbdaBases /\ step \in 0 .. N + M + 2
      /\ \A b \in usable : IsTouched(b) \/ (Booted /\ b \in Old)
  BY DEF ReservedInv, TouchedInv
<1>2. ASSUME BootStep  PROVE TouchedInv'
  <2>1. /\ N \in Nat /\ M \in Nat /\ step' = step + 1 /\ ebda' = ebda /\ ~Booted
        /\ DOMAIN BiosMap = 1 .. N
    BY <1>2, BootStepCases, MapAssumption, LenProperties DEF N
  <2>2. Booted' <=> step' = N + M + 2
    BY <1>1, <2>1, RegionsStay, CallsInOrder DEF Booted
  <2>3. ASSUME \A b \in usable' : IsTouched(b) \/ b \in usable
        PROVE  TouchedInv'
    BY <1>1, <2>1, <2>3 DEF TouchedInv, IsTouched
  <2>4. CASE step + 1 \in 1 .. N
    <3>1. CASE UNCHANGED vars
      BY <2>3, <3>1 DEF vars
    <3>2. CASE /\ IsFree(step + 1)
               /\ pmmngr_init_region(BiosMap[step + 1].base, BiosMap[step + 1].length)
      <4>1. usable' \subseteq usable \cup Touched(step + 1)
        BY <3>2 DEF pmmngr_init_region, Touched
      <4>2. step + 1 \in DOMAIN BiosMap
        BY <2>1, <2>4
      <4>3. \A b \in Touched(step + 1) : IsTouched(b)
        BY <3>2, <4>2 DEF IsTouched
      <4> QED BY <2>3, <4>1, <4>3
    <3> QED BY <1>2, <2>1, <2>4, <3>1, <3>2, BootStepCases DEF IsFree
  <2>5. ASSUME NEW k \in 1 .. M, pmmngr_deinit_region(Base(k), Size(k))
        PROVE  TouchedInv'
    BY <2>3, <2>5 DEF pmmngr_deinit_region
  <2>6. CASE pmmngr_alloc_block \/ UNCHANGED vars
    BY <2>3, <2>6 DEF pmmngr_alloc_block, vars
  <2>7. CASE step = N + M + 1 /\ pmmngr_init_region(OldPageTable[1], OldPageTable[2])
    <3>1. usable' \subseteq usable \cup Old
      BY <2>7 DEF pmmngr_init_region
    <3>2. Booted'
      BY <2>1, <2>2, <2>7
    <3> QED BY <1>1, <3>1, <3>2 DEF TouchedInv, IsTouched
  <2> QED BY <1>2, <2>4, <2>5, <2>6, <2>7, BootStepCases
<1>3. ASSUME RunTime \/ UNCHANGED bootVars  PROVE TouchedInv'
  <2>1. usable' = usable /\ step' = step /\ ebda' = ebda
    BY <1>3 DEF RunTime, pmmngr_alloc_block, pmmngr_free_block, bootVars, vars
  <2>2. Booted' <=> Booted
    BY <2>1, RegionsStay DEF Booted
  <2> QED BY <1>1, <2>1, <2>2 DEF TouchedInv, IsTouched
<1> QED BY <1>2, <1>3 DEF WholeNext, BootNext

\* What is touched and is not memory throughout is reserved.
LEMMA TouchedIsRam ==
  ASSUME MapIsRegular, ebda \in EbdaBases, NEW b \in Nat, IsTouched(b),
         NEW a \in BytesOf(b), ~IsRam(a)
  PROVE  \E k \in 1 .. M : b \in DeinitBlocks(Base(k), Size(k))
<1>1. PICK i \in DOMAIN BiosMap : IsFree(i) /\ b \in Touched(i)
  BY DEF IsTouched
<1> DEFINE B == BlockSize
           base == BiosMap[i].base
           size == BiosMap[i].length
           end == base + size
           q == base \div B
           c == CeilDiv(size, B)
<1>2. B \in Nat \ {0} /\ base \in Nat /\ size \in Nat
  <2>1. BiosMap[i] \in [high : Nat, base : Nat, length : Nat, type : Nat]
    BY EntryType
  <2> QED BY <2>1, SizesAssumption
<1>3. BiosMap[i].high = 0 /\ base % B = 0 /\ (size % B = 0 \/ end \in EbdaBase .. RomBase - 1)
  BY <1>1 DEF MapIsRegular, EbdaBase
<1>4. a \notin base .. base + size - 1
  BY <1>1, <1>3 DEF IsRam, IsFree
<1>5. q \in Nat /\ base = B * q /\ CeilDiv(base, B) = q
  <2> HIDE DEF B, base
  <2>1. CeilDiv(base, B) \in Nat /\ B * CeilDiv(base, B) = base /\ CeilDiv(base, B) = q
    BY <1>2, <1>3, CeilDivCovers
  <2> HIDE DEF q
  <2> QED BY <2>1
<1>6. c \in Nat /\ size <= B * c /\ B * c < size + B /\ (size % B = 0 => B * c = size)
  BY <1>2, CeilDivCovers
<1>7. b \in q .. q + c - 1
  BY <1>1, <1>5 DEF Touched, InitBlocks
<1>8. a \in Int /\ B * b <= a /\ a < B * (b + 1)
  <2>1. b * B \in Int /\ (b + 1) * B \in Int /\ b * B = B * b /\ (b + 1) * B = B * (b + 1)
    BY <1>2
  <2>2. a \in b * B .. (b + 1) * B - 1
    BY DEF BytesOf
  <2> HIDE DEF B
  <2> QED BY <2>1, <2>2
<1> HIDE DEF base, size, q, c, B
<1>9. base <= a /\ a < base + B * c /\ B * b <= base + (B * c - B)
  <2>1. B * q <= B * b /\ B * (b + 1) <= B * (q + c) /\ B * b <= B * (q + c - 1)
    BY <1>2, <1>5, <1>6, <1>7, SMTT(30)
  <2>2. B * (q + c) = B * q + B * c /\ B * (q + c - 1) = B * q + (B * c - B)
        /\ B * q \in Int /\ B * c \in Int /\ B * b \in Int /\ B * (b + 1) \in Int
    BY <1>2, <1>5, <1>6, <1>7
  <2> QED BY <1>5, <1>8, <2>1, <2>2
<1>10. end <= a /\ B * b < end /\ size % B # 0
  <2>1. B * c \in Int /\ B * b \in Int /\ a \in Int
    BY <1>2, <1>6, <1>8
  <2> QED BY <1>2, <1>4, <1>6, <1>9, <2>1
<1>11. end \in BytesOf(b) /\ end \in EbdaBase .. RomBase - 1
  <2>1. end \in EbdaBase .. RomBase - 1
    BY <1>3, <1>10
  <2>2. end \in b * B .. (b + 1) * B - 1
    <3>1. b * B \in Int /\ (b + 1) * B \in Int /\ b * B = B * b /\ (b + 1) * B = B * (b + 1)
      BY <1>2
    <3> QED BY <1>2, <1>8, <1>10, <3>1
  <2> QED BY <2>1, <2>2 DEF BytesOf, B
<1> HIDE DEF end
<1>12. PICK k \in 1 .. M : Base(k) = EbdaBase /\ Size(k) = RomBase - EbdaBase
  BY ReservedRegions
<1>13. end \in Base(k) .. Base(k) + Size(k) - 1
  BY <1>11, <1>12, EbdaIsBelowRom, LayoutAssumption
<1>14. /\ Base(k) \in Nat /\ Size(k) \in Nat
       /\ Base(k) % BlockSize = 0 \/ (Base(k) + Size(k)) % BlockSize = 0
  BY ReservedRegions
<1> QED BY <1>11, <1>13, <1>14, RoundingCovers

\* On a machine whose BIOS reports memory regularly, what is handed out is RAM
\* from its first to its last byte, although regions are rounded to blocks.
THEOREM HeldIsAlwaysFreeRam == MapIsRegular => (WholeSpec => []HeldIsFreeRam)
<1> SUFFICES ASSUME MapIsRegular PROVE WholeSpec => []HeldIsFreeRam
  OBVIOUS
<1>1. WholeInit => TouchedInv
  BY DEF WholeInit, BootInit, Init, TouchedInv
<1>2. ReservedInv /\ TouchedInv /\ [WholeNext]_<<bootVars, loaderVars>> => TouchedInv'
  BY TouchedStep
<1>3. ReservedInv /\ TouchedInv => HeldIsRam
  <2> SUFFICES ASSUME ReservedInv, TouchedInv, NEW b \in held, NEW a \in BytesOf(b), ~IsRam(a)
               PROVE  FALSE
    BY DEF HeldIsRam
  <2> DEFINE D(k) == DeinitBlocks(Base(k), Size(k))
             Old == InitBlocks(OldPageTable[1], OldPageTable[2])
  <2>1. /\ LedgerInv /\ ebda \in EbdaBases /\ step \in 0 .. N + M + 2
        /\ step <= N + M => held = {}
        /\ \A k \in 1 .. M : N + k <= step => D(k) \cap usable \subseteq IF Booted THEN Old ELSE {}
    BY DEF ReservedInv
  <2>2. b \in usable /\ b \in Nat
    BY <2>1 DEF LedgerInv, HeldIsUsable, Scanned
  <2>3. IsTouched(b) \/ (Booted /\ b \in Old)
    BY <2>2 DEF TouchedInv
  <2>4. b \notin Old
    BY OldBlocksLieInside DEF MapIsRegular
  <2>5. PICK k \in 1 .. M : b \in D(k)
    BY <2>1, <2>2, <2>3, <2>4, TouchedIsRam
  <2>6. N \in Nat /\ M \in Nat
    BY <2>1, CallsInOrder
  <2> HIDE DEF D, Old
  <2> QED BY <2>1, <2>2, <2>4, <2>5, <2>6
<1> QED BY <1>1, <1>2, <1>3, ReservedAlways, UsedIsNeverHeld, PTL DEF WholeSpec, HeldIsFreeRam

-----------------------------------------------------------------------------
(* The count of free blocks after the boot.                                *)

\* The blocks the first s entries declare usable.
Declared(s) == UNION {Touched(i) : i \in {j \in 1 .. s : IsFree(j)}}

\* The entries do not overlap, even rounded to blocks, and lie in the bitmap.
EntriesAreApart ==
  \A i \in DOMAIN BiosMap : IsFree(i) =>
    /\ Touched(i) \subseteq Bits
    /\ \A j \in DOMAIN BiosMap : IsFree(j) /\ j # i => Touched(i) \cap Touched(j) = {}

Reserved(k) == DeinitBlocks(Base(k), Size(k))

\* sum[k] blocks are counted by the first k reservations, and in all no more
\* than there are.
Counts(sum) ==
  /\ sum \in [0 .. M -> Nat] /\ sum[0] = 0
  /\ \A k \in 1 .. M :
       /\ sum[k] = sum[k - 1] + Cardinality(Reserved(k))
       /\ sum[k] <= Cardinality(Declared(N))

\* The BIOS declares at least as many blocks free as are reserved afterwards.
MemorySuffices == \E sum \in [0 .. M -> Nat] : Counts(sum)

\* Block 0, which requests never get, counts as long as it is not reserved.
Zero(k) == {b \in {0} : \A j \in 1 .. k : b \notin Reserved(j)}

Free == pmmngr_get_free_block_count

\* The count follows the set of usable blocks through the calls: upwards by
\* what is declared, downwards by what is reserved, known or not, and never
\* below 0.  In the end it is not above the number of clear bits.
CountInv(sum) ==
  /\ Counts(sum)
  /\ mmngrUsedBlocks \in Int
  /\ usable \cap mmngrMemoryMap \subseteq held
  /\ step <= N => usable = Declared(step) \ {0} /\ Free = Cardinality(Declared(step))
  /\ N <= step /\ step <= N + M =>
       /\ usable \subseteq Bits
       /\ Free = Cardinality(Declared(N)) - sum[step - N]
       /\ Free <= Cardinality(usable \cup Zero(step - N))
  /\ ~Booted => \A k \in 1 .. M : N + k <= step => Reserved(k) \subseteq mmngrMemoryMap
  /\ N + M <= step => Free <= Cardinality(Bits \ mmngrMemoryMap)

\* The count is a number below 2^32, and moves by what is added to or taken
\* from the counter, as long as it does not wrap around.
LEMMA FreeMoves ==
  ASSUME mmngrUsedBlocks \in Int, NEW n \in Nat
  PROVE  /\ Free \in 0 .. Modulus - 1
         /\ mmngrUsedBlocks' = Minus(n) /\ Free + n < Modulus =>
              mmngrUsedBlocks' \in Int /\ Free' = Free + n
         /\ mmngrUsedBlocks' = Plus(n) /\ n <= Free =>
              mmngrUsedBlocks' \in Int /\ Free' = Free - n
<1> DEFINE d == MaxBlocks - mmngrUsedBlocks
           f == d % Modulus
<1>1. Modulus \in Nat \ {0} /\ MaxBlocks \in Int /\ d \in Int
  BY SizesAssumption
<1>2. f \in 0 .. Modulus - 1 /\ Free = f
  BY <1>1, Division DEF Free, pmmngr_get_free_block_count
<1>3. \A c \in Int : (f - c) % Modulus = (d - c) % Modulus
  BY <1>1, ModDifference
<1>4. ASSUME NEW c \in Int, mmngrUsedBlocks' = (mmngrUsedBlocks + c) % Modulus, f - c \in 0 .. Modulus - 1
      PROVE  mmngrUsedBlocks' \in Int /\ Free' = f - c
  <2> DEFINE x == mmngrUsedBlocks + c
  <2>1. x \in Int /\ MaxBlocks - x = d - c
    BY <1>1
  <2>2. mmngrUsedBlocks' = x % Modulus
    BY <1>4
  <2> HIDE DEF x, d, f
  <2>3. mmngrUsedBlocks' \in Int
    BY <1>1, <2>1, <2>2, Division
  <2>4. Free' = (MaxBlocks - x) % Modulus
    BY <1>1, <2>1, <2>2, ModSubtract DEF Free, pmmngr_get_free_block_count
  <2>5. Free' = (f - c) % Modulus
    BY <1>3, <2>1, <2>4
  <2>6. (f - c) % Modulus = f - c
    BY <1>1, <1>4, ModSmall
  <2> QED BY <2>3, <2>5, <2>6
<1>5. ASSUME mmngrUsedBlocks' = Minus(n), Free + n < Modulus
      PROVE  mmngrUsedBlocks' \in Int /\ Free' = Free + n
  <2> DEFINE c == -n
  <2>1. c \in Int /\ mmngrUsedBlocks - n = mmngrUsedBlocks + c
    OBVIOUS
  <2>2. mmngrUsedBlocks' = (mmngrUsedBlocks + c) % Modulus
    BY <1>5, <2>1 DEF Minus
  <2> HIDE DEF f
  <2>3. f - c \in 0 .. Modulus - 1 /\ f - c = Free + n
    BY <1>1, <1>2, <1>5
  <2> HIDE DEF c
  <2> QED BY <1>4, <2>1, <2>2, <2>3
<1>6. ASSUME mmngrUsedBlocks' = Plus(n), n <= Free
      PROVE  mmngrUsedBlocks' \in Int /\ Free' = Free - n
  <2> HIDE DEF f
  <2>1. f - n \in 0 .. Modulus - 1 /\ f - n = Free - n /\ n \in Int
    BY <1>1, <1>2, <1>6
  <2> QED BY <1>4, <1>6, <2>1 DEF Plus
<1> QED BY <1>2, <1>5, <1>6

LEMMA BitsAreCounted ==
  /\ IsFiniteSet(Bits) /\ Cardinality(Bits) = MapBits /\ MapBits \in Nat /\ MapBits < Modulus
  /\ \A S : S \subseteq Bits => /\ IsFiniteSet(S)
                                /\ Cardinality(S) \in Nat /\ Cardinality(S) <= MapBits
<1>1. IsFiniteSet(Bits) /\ Cardinality(Bits) = MapBits
  BY FS_Interval, SizesAssumption DEF Bits
<1>2. ASSUME NEW S, S \subseteq Bits
      PROVE  IsFiniteSet(S) /\ Cardinality(S) \in Nat /\ Cardinality(S) <= MapBits
  <2>1. S \in SUBSET Bits
    BY <1>2
  <2> QED BY <1>1, <2>1, FS_Subset, FS_CardinalityType
<1> QED BY <1>1, <1>2, SizesAssumption

\* What is declared, entry by entry.
LEMMA DeclaredGrows ==
  ASSUME EntriesAreApart
  PROVE  /\ Declared(0) = {}
         /\ \A s \in 0 .. N : Declared(s) \subseteq Bits
         /\ \A s \in 0 .. N - 1 :
              /\ ~IsFree(s + 1) => Declared(s + 1) = Declared(s)
              /\ IsFree(s + 1) =>
                   /\ Declared(s + 1) = Declared(s) \cup Touched(s + 1)
                   /\ Cardinality(Touched(s + 1)) \in Nat
                   /\ Cardinality(Declared(s + 1))
                        = Cardinality(Declared(s)) + Cardinality(Touched(s + 1))
<1>1. N \in Nat /\ DOMAIN BiosMap = 1 .. N
  BY EntryType
<1>2. Declared(0) = {}
  BY DEF Declared
<1>3. ASSUME NEW s \in 0 .. N  PROVE Declared(s) \subseteq Bits
  <2>1. \A i \in 1 .. s : IsFree(i) => Touched(i) \subseteq Bits
    BY <1>1 DEF EntriesAreApart
  <2> QED BY <2>1 DEF Declared
<1>4. ASSUME NEW s \in 0 .. N - 1
      PROVE  Declared(s + 1) = Declared(s) \cup (IF IsFree(s + 1) THEN Touched(s + 1) ELSE {})
  <2>1. 1 .. s + 1 = (1 .. s) \cup {s + 1}
    BY <1>1
  <2>2. {j \in 1 .. s + 1 : IsFree(j)}
          = {j \in 1 .. s : IsFree(j)} \cup (IF IsFree(s + 1) THEN {s + 1} ELSE {})
    BY <2>1
  <2> QED BY <2>2 DEF Declared
<1>5. ASSUME NEW s \in 0 .. N - 1, IsFree(s + 1)
      PROVE  /\ Cardinality(Touched(s + 1)) \in Nat
             /\ Cardinality(Declared(s + 1)) = Cardinality(Declared(s)) + Cardinality(Touched(s + 1))
  <2>1. s + 1 \in DOMAIN BiosMap /\ s \in 0 .. N
    BY <1>1
  <2>2. Touched(s + 1) \subseteq Bits
    BY <1>5, <2>1 DEF EntriesAreApart
  <2>3. Declared(s) \cap Touched(s + 1) = {}
    <3>1. ASSUME NEW i \in 1 .. s, IsFree(i)  PROVE Touched(s + 1) \cap Touched(i) = {}
      <4>1. i \in DOMAIN BiosMap /\ i # s + 1
        BY <1>1
      <4> QED BY <1>5, <2>1, <3>1, <4>1 DEF EntriesAreApart
    <3> QED BY <3>1 DEF Declared
  <2>4. /\ IsFiniteSet(Declared(s)) /\ IsFiniteSet(Touched(s + 1))
        /\ Cardinality(Declared(s)) \in Nat /\ Cardinality(Touched(s + 1)) \in Nat
    BY <1>3, <2>1, <2>2, BitsAreCounted
  <2>5. Cardinality(Declared(s) \cup Touched(s + 1))
          = Cardinality(Declared(s)) + Cardinality(Touched(s + 1)) - Cardinality({})
    BY <2>3, <2>4, FS_Union
  <2> QED BY <1>4, <1>5, <2>4, <2>5, FS_EmptySet
<1> QED BY <1>2, <1>3, <1>4, <1>5

\* Block 0 is reserved, and so is the old page table, which is made of blocks
\* of the bitmap.
LEMMA ReservedIsCounted ==
  ASSUME ebda \in EbdaBases
  PROVE  /\ M \in Nat \ {0} /\ N \in Nat
         /\ \A k \in 1 .. M : IsFiniteSet(Reserved(k)) /\ Cardinality(Reserved(k)) \in Nat
         /\ \E k \in 1 .. M : 0 \in Reserved(k)
         /\ \E k \in 1 .. M : InitBlocks(OldPageTable[1], OldPageTable[2]) \subseteq Reserved(k)
         /\ InitBlocks(OldPageTable[1], OldPageTable[2]) \subseteq Bits \ {0}
<1> DEFINE B == BlockSize
           Old == InitBlocks(OldPageTable[1], OldPageTable[2])
           first == OldPageTable[1]
           size == OldPageTable[2]
<1>1. B \in Nat \ {0} /\ MapBits \in Nat /\ first \in Nat /\ size \in Nat
      /\ first > 0 /\ first + size <= MapBits * B
  BY SizesAssumption, LayoutAssumption
<1>2. /\ M \in Nat /\ N \in Nat
      /\ \A k \in 1 .. M :
           /\ Base(k) \in Nat /\ Size(k) \in Nat
           /\ Base(k) % BlockSize = 0 \/ (Base(k) + Size(k)) % BlockSize = 0
      /\ \A i \in DOMAIN UsedBefore :
           \E k \in 1 .. M : Base(k) = UsedBefore[i][1] /\ Size(k) = UsedBefore[i][2]
      /\ \A i \in DOMAIN UsedAfter :
           \E k \in 1 .. M : Base(k) = UsedAfter[i][1] /\ Size(k) = UsedAfter[i][2]
  BY ReservedRegions, CallsInOrder
<1>3. ASSUME NEW k \in 1 .. M
      PROVE  IsFiniteSet(Reserved(k)) /\ Cardinality(Reserved(k)) \in Nat
  <2> DEFINE q == Base(k) \div B
             c == CeilDiv(Size(k), B)
  <2>1. q \in Int
    BY <1>1, <1>2, Division
  <2>2. c \in Nat
    BY <1>1, <1>2, CeilDivCovers
  <2>3. Reserved(k) = q .. q + c - 1
    BY DEF Reserved, DeinitBlocks
  <2> HIDE DEF q, c
  <2>4. q + c - 1 \in Int
    BY <2>1, <2>2
  <2>5. IsFiniteSet(Reserved(k))
    BY <2>1, <2>3, <2>4, FS_Interval
  <2> QED BY <2>5, FS_CardinalityType
<1>4. \E k \in 1 .. M : 0 \in Reserved(k)
  <2>1. PICK i \in DOMAIN UsedBefore : UsedBefore[i][1] = 0 /\ UsedBefore[i][2] > 0
    BY LayoutAssumption
  <2>2. PICK k \in 1 .. M : Base(k) = 0 /\ Size(k) > 0
    BY <1>2, <2>1
  <2>3. 0 \in BytesOf(0)
    BY <1>1 DEF BytesOf
  <2>4. 0 \in Base(k) .. Base(k) + Size(k) - 1
    BY <1>2, <2>2
  <2> QED BY <1>2, <2>3, <2>4, RoundingCovers DEF Reserved
<1>5. ASSUME NEW b \in Old
      PROVE  /\ b \in Nat \ {0} /\ b < MapBits
             /\ \E a \in BytesOf(b) : a \in first .. first + size - 1
  <2>1. BytesOf(b) \subseteq first .. first + size - 1
    BY OldBlocksLieInside
  <2>2. b \in Int
    BY <1>1, Division, CeilDivCovers DEF InitBlocks
  <2>3. B * b \in BytesOf(b)
    <3>1. b * B = B * b /\ (b + 1) * B = B * b + B /\ B * b \in Int
      BY <1>1, <2>2
    <3>2. BytesOf(b) = b * B .. (b + 1) * B - 1
      BY DEF BytesOf
    <3> DEFINE x == B * b
    <3> HIDE DEF B
    <3>3. BytesOf(b) = x .. (x + B) - 1 /\ x \in Int
      BY <3>1, <3>2, Zenon
    <3> HIDE DEF x
    <3>4. x \in BytesOf(b)
      BY <1>1, <3>3
    <3> QED BY <3>4 DEF x
  <2>4. B * b \in Int /\ first <= B * b /\ B * b <= first + size - 1
    BY <2>1, <2>2, <2>3, <1>1
  <2> HIDE DEF B, first, size
  <2>5. B * 0 < B * b /\ B * b < B * MapBits
    <3>1. MapBits * B = B * MapBits /\ B * MapBits \in Int /\ B * 0 = 0
      BY <1>1
    <3> QED BY <1>1, <2>4, <3>1
  <2>6. 0 < b /\ b < MapBits
    BY <1>1, <2>2, <2>5, LessFactor
  <2> QED BY <2>1, <2>2, <2>3, <2>6
<1>6. \E k \in 1 .. M : Old \subseteq Reserved(k)
  <2>1. PICK i \in DOMAIN UsedAfter :
          UsedAfter[i][1] <= first /\ first + size <= UsedAfter[i][1] + UsedAfter[i][2]
    BY LayoutAssumption
  <2>2. PICK k \in 1 .. M : Base(k) <= first /\ first + size <= Base(k) + Size(k)
    BY <1>2, <2>1
  <2>3. Base(k) \in Nat /\ Size(k) \in Nat
        /\ (Base(k) % BlockSize = 0 \/ (Base(k) + Size(k)) % BlockSize = 0)
    BY <1>2
  <2> HIDE DEF Old, first, size
  <2>4. ASSUME NEW b \in Old  PROVE b \in Reserved(k)
    <3>1. PICK a \in BytesOf(b) : a \in first .. first + size - 1
      BY <1>5, <2>4
    <3>2. a \in Base(k) .. Base(k) + Size(k) - 1
      BY <1>1, <2>2, <2>3, <3>1
    <3>3. b \in Nat
      BY <1>5, <2>4
    <3> QED BY <2>3, <3>1, <3>2, <3>3, RoundingCovers DEF Reserved
  <2> QED BY <2>4
<1>7. Old \subseteq Bits \ {0}
  <2> HIDE DEF Old
  <2> QED BY <1>1, <1>5 DEF Bits
<1>8. M # 0
  BY <1>2, <1>4
<1> QED BY <1>2, <1>3, <1>4, <1>6, <1>7, <1>8

\* One block fewer is clear after an allocation, one more after a release.
LEMMA RequestsAreCounted ==
  ASSUME LedgerInv, mmngrUsedBlocks \in Int,
         usable \cap mmngrMemoryMap \subseteq held,
         Free <= Cardinality(Bits \ mmngrMemoryMap),
         pmmngr_alloc_block \/ \E b \in Bits : pmmngr_free_block(b)
  PROVE  /\ mmngrUsedBlocks' \in Int
         /\ usable' \cap mmngrMemoryMap' \subseteq held'
         /\ Free' <= Cardinality(Bits \ mmngrMemoryMap')
<1> DEFINE clear == Bits \ mmngrMemoryMap
<1>1. /\ IsFiniteSet(clear) /\ Cardinality(clear) \in Nat /\ Cardinality(clear) <= MapBits
      /\ MapBits \in Nat /\ MapBits < Modulus
  BY BitsAreCounted
<1>2. Free \in 0 .. Modulus - 1
  BY FreeMoves
<1>3. CASE pmmngr_alloc_block
  <2> DEFINE f == mmap_first_free
  <2>1. f \in clear /\ Free # 0
    BY <1>3, FirstFreeIsClear, ScannedIsMapped DEF pmmngr_alloc_block, AllocFails, Free
  <2>2. mmngrMemoryMap' = mmngrMemoryMap \cup {f} /\ held' = held \cup {f} /\ usable' = usable
    BY <1>3 DEF pmmngr_alloc_block
  <2>3. mmngrUsedBlocks' = Plus(1)
    BY <1>3 DEF pmmngr_alloc_block
  <2> HIDE DEF f
  <2>4. mmngrUsedBlocks' \in Int /\ Free' = Free - 1
    BY <1>2, <2>1, <2>3, FreeMoves
  <2>5. Bits \ mmngrMemoryMap' = clear \ {f}
    BY <2>2
  <2> HIDE DEF clear
  <2>6. Cardinality(clear \ {f}) = Cardinality(clear) - 1
    BY <1>1, <2>1, FS_RemoveElement
  <2>7. Free <= Cardinality(clear)
    BY DEF clear
  <2>8. Free - 1 <= Cardinality(clear) - 1
    BY <1>1, <1>2, <2>7
  <2> QED BY <2>2, <2>4, <2>5, <2>6, <2>8
<1>4. ASSUME NEW b \in Bits, pmmngr_free_block(b)
      PROVE  /\ mmngrUsedBlocks' \in Int
             /\ usable' \cap mmngrMemoryMap' \subseteq held'
             /\ Free' <= Cardinality(Bits \ mmngrMemoryMap')
  <2>1. b \in mmngrMemoryMap
    BY <1>4 DEF pmmngr_free_block, LedgerInv, MapIsLedger, HeldIsUsable
  <2>2. mmngrMemoryMap' = mmngrMemoryMap \ {b} /\ held' = held \ {b} /\ usable' = usable
    BY <1>4 DEF pmmngr_free_block
  <2>3. mmngrUsedBlocks' = Minus(1)
    BY <1>4 DEF pmmngr_free_block
  <2>4. Bits \ mmngrMemoryMap' = clear \cup {b} /\ b \notin clear
    BY <1>4, <2>1, <2>2
  <2>5. Cardinality(clear \cup {b}) \in Nat /\ Cardinality(clear \cup {b}) <= MapBits
    BY <1>4, BitsAreCounted
  <2>6. Free <= Cardinality(clear)
    OBVIOUS
  <2> HIDE DEF clear
  <2>7. Cardinality(clear \cup {b}) = Cardinality(clear) + 1
    BY <1>1, <2>4, FS_AddElement
  <2>8. Free + 1 < Modulus /\ Free + 1 <= Cardinality(clear \cup {b})
    BY <1>1, <1>2, <2>5, <2>6, <2>7, SizesAssumption
  <2>9. mmngrUsedBlocks' \in Int /\ Free' = Free + 1
    BY <2>3, <2>8, FreeMoves
  <2> QED BY <2>2, <2>4, <2>8, <2>9
<1> QED BY <1>3, <1>4

LEMMA CountInitially ==
  ASSUME BootInit, NEW sum, Counts(sum)
  PROVE  CountInv(sum)
<1>1. /\ usable = {} /\ mmngrUsedBlocks = MaxBlocks /\ step = 0 /\ ebda \in EbdaBases
  BY DEF BootInit, Init
<1>2. M \in Nat \ {0} /\ N \in Nat
  BY <1>1, ReservedIsCounted
<1>3. Declared(0) = {} /\ Cardinality(Declared(0)) = 0
  <2>1. Declared(0) = {}
    BY DEF Declared
  <2> QED BY <2>1, FS_EmptySet
<1>4. Free = 0
  <2>1. MaxBlocks - mmngrUsedBlocks = 0 /\ 0 \in 0 .. Modulus - 1
    BY <1>1, SizesAssumption
  <2>2. Free = 0 % Modulus
    BY <2>1 DEF Free, pmmngr_get_free_block_count
  <2> QED BY <2>1, <2>2, ModSmall, SizesAssumption
<1>5. sum[0] = 0
  BY DEF Counts
<1>6. Cardinality(usable \cup Zero(0)) \in Nat
  <2>1. usable \cup Zero(0) \subseteq Bits
    BY <1>1, ScannedIsMapped DEF Zero
  <2> QED BY <2>1, BitsAreCounted
<1>7. N <= 0 => step - N = 0 /\ Declared(N) = Declared(0)
  BY <1>1, <1>2
<1>8. ~(N + M <= 0) /\ \A k \in 1 .. M : ~(N + k <= 0)
  BY <1>2
<1>9. usable = Declared(0) \ {0} /\ Free = Cardinality(Declared(0))
  BY <1>1, <1>3, <1>4
<1>10. MaxBlocks \in Int
  BY SizesAssumption
<1>11. N <= step /\ step <= N + M =>
       /\ usable \subseteq Bits
       /\ Free = Cardinality(Declared(N)) - sum[step - N]
       /\ Free <= Cardinality(usable \cup Zero(step - N))
  BY <1>1, <1>3, <1>4, <1>5, <1>6, <1>7
<1> QED BY <1>1, <1>8, <1>9, <1>10, <1>11 DEF CountInv

\* The reservations stay the same.
LEMMA CountsStay ==
  ASSUME ebda' = ebda, NEW sum
  PROVE  /\ \A k \in 1 .. M : Reserved(k)' = Reserved(k)
         /\ M \in Nat => \A k \in 0 .. M : Zero(k)' = Zero(k)
         /\ M \in Nat /\ Counts(sum) => Counts(sum)'
<1>1. ASSUME NEW k \in 1 .. M  PROVE Reserved(k)' = Reserved(k)
  BY RegionsStay DEF Reserved
<1>2. ASSUME M \in Nat, NEW k \in 0 .. M  PROVE Zero(k)' = Zero(k)
  <2>1. \A j \in 1 .. k : Reserved(j)' = Reserved(j)
    BY <1>1, <1>2
  <2> QED BY <2>1 DEF Zero
<1>3. ASSUME M \in Nat, Counts(sum)  PROVE Counts(sum)'
  BY <1>1, <1>3 DEF Counts
<1> QED BY <1>1, <1>2, <1>3

\* An entry of the memory map.
LEMMA CountWhileDeclaring ==
  ASSUME EntriesAreApart, ReservedInv, NEW sum, CountInv(sum), BootStep, step + 1 \in 1 .. N
  PROVE  CountInv(sum)'
<1> DEFINE s == step
           T == Touched(s + 1)
<1>1. /\ N \in Nat /\ M \in Nat \ {0} /\ step' = s + 1 /\ ebda' = ebda
      /\ s \in 0 .. N - 1
  BY BootStepCases, ReservedIsCounted DEF ReservedInv
<1>2. /\ Counts(sum) /\ mmngrUsedBlocks \in Int /\ usable \cap mmngrMemoryMap \subseteq held
      /\ usable = Declared(s) \ {0} /\ Free = Cardinality(Declared(s))
  BY <1>1 DEF CountInv
<1>3. /\ mmngrUsedBlocks' \in Int /\ usable' \cap mmngrMemoryMap' \subseteq held'
      /\ usable' = Declared(s + 1) \ {0} /\ Free' = Cardinality(Declared(s + 1))
  <2>1. CASE ~IsFree(s + 1) /\ UNCHANGED vars
    <3>1. Free' = Free
      BY <2>1 DEF vars, Free, pmmngr_get_free_block_count
    <3>2. Declared(s + 1) = Declared(s)
      BY <1>1, <2>1, DeclaredGrows
    <3> QED BY <1>2, <2>1, <3>1, <3>2 DEF vars
  <2>2. CASE IsFree(s + 1) /\ pmmngr_init_region(BiosMap[s + 1].base, BiosMap[s + 1].length)
    <3>1. /\ mmngrMemoryMap' = (mmngrMemoryMap \ T) \cup {0}
          /\ usable' = (usable \cup T) \ {0} /\ held' = held
          /\ mmngrUsedBlocks' = Minus(Cardinality(T))
      BY <2>2 DEF pmmngr_init_region, Touched
    <3>2. /\ Declared(s + 1) = Declared(s) \cup T /\ Cardinality(T) \in Nat
          /\ Cardinality(Declared(s + 1)) = Cardinality(Declared(s)) + Cardinality(T)
          /\ Declared(s + 1) \subseteq Bits
      <4>1. s + 1 \in 0 .. N
        BY <1>1
      <4> QED BY <1>1, <2>2, <4>1, DeclaredGrows
    <3>3. Free + Cardinality(T) < Modulus
      BY <1>2, <3>2, BitsAreCounted, SizesAssumption
    <3>4. mmngrUsedBlocks' \in Int /\ Free' = Free + Cardinality(T)
      BY <1>2, <3>1, <3>2, <3>3, FreeMoves
    <3> HIDE DEF T
    <3> QED BY <1>2, <3>1, <3>2, <3>4
  <2>3. \/ ~IsFree(s + 1) /\ UNCHANGED vars
        \/ IsFree(s + 1) /\ pmmngr_init_region(BiosMap[s + 1].base, BiosMap[s + 1].length)
    BY <1>1, BootStepCases DEF IsFree
  <2> QED BY <2>1, <2>2, <2>3
<1>4. CASE s + 1 = N
  <2>1. Declared(N) \subseteq Bits /\ Zero(0)' = {0} /\ 0 \in Bits /\ sum[0] = 0
    BY <1>1, <1>2, DeclaredGrows, ScannedIsMapped DEF Zero, Counts
  <2>2. IsFiniteSet(usable' \cup {0}) /\ Cardinality(usable' \cup {0}) \in Nat
        /\ Cardinality(Declared(N)) \in Nat
    <3>1. usable' \cup {0} \subseteq Bits
      BY <1>3, <1>4, <2>1
    <3> QED BY <2>1, <3>1, BitsAreCounted
  <2>3. Cardinality(Declared(N)) <= Cardinality(usable' \cup {0})
    <3>1. Declared(N) \in SUBSET (usable' \cup {0})
      BY <1>3, <1>4
    <3> QED BY <2>2, <3>1, FS_Subset
  <2>4. /\ usable' \subseteq Bits
        /\ Free' = Cardinality(Declared(N)) - sum[0]
        /\ Free' <= Cardinality(usable' \cup Zero(0)')
    <3>1. Free' = Cardinality(Declared(N)) /\ usable' = Declared(N) \ {0}
      BY <1>3, <1>4
    <3>2. Free' = Cardinality(Declared(N)) - sum[0]
      BY <2>1, <2>2, <3>1
    <3>3. Free' <= Cardinality(usable' \cup {0})
      BY <2>3, <3>1
    <3> QED BY <2>1, <3>1, <3>2, <3>3
  <2>5. step' = N /\ step' - N = 0 /\ ~(N + M <= step') /\ \A k \in 1 .. M : ~(N + k <= step')
    BY <1>1, <1>4
  <2> QED BY <1>1, <1>2, <1>3, <1>4, <2>4, <2>5, CountsStay DEF CountInv
<1>5. CASE s + 1 # N
  <2>1. step' < N /\ ~(N + M <= step') /\ \A k \in 1 .. M : ~(N + k <= step')
    BY <1>1, <1>5
  <2> QED BY <1>1, <1>2, <1>3, <2>1, CountsStay DEF CountInv
<1> QED BY <1>4, <1>5

\* A region that is in use: some of its blocks were free, all are counted.
LEMMA CountWhileReserving ==
  ASSUME EntriesAreApart, ReservedInv, NEW sum, CountInv(sum), BootStep,
         NEW k \in 1 .. M, step + 1 = N + k
  PROVE  CountInv(sum)'
<1> DEFINE S == Reserved(k)
           A == usable \cup Zero(k - 1)
           Z == usable' \cup Zero(k)
<1>1. /\ N \in Nat /\ M \in Nat \ {0} /\ step' = N + k /\ ebda' = ebda /\ ~Booted
      /\ held = {} /\ step - N = k - 1 /\ k \in 1 .. M /\ step <= N + M /\ N <= step
      /\ ebda \in EbdaBases /\ step \in Int
  BY BootStepCases, ReservedIsCounted DEF ReservedInv
<1>2. pmmngr_deinit_region(Base(k), Size(k))
  <2>1. ~(step + 1 \in 1 .. N) /\ step # N + M /\ step # N + M + 1
    BY <1>1
  <2>2. \A j \in 1 .. M : step + 1 = N + j => j = k
    BY <1>1
  <2> QED BY <2>1, <2>2, BootStepCases
<1>3. /\ mmngrMemoryMap' = mmngrMemoryMap \cup S /\ held' = {} /\ usable' = usable \ S
      /\ mmngrUsedBlocks' = Plus(Cardinality(S))
  BY <1>1, <1>2 DEF pmmngr_deinit_region, Reserved
<1>4. /\ Counts(sum) /\ mmngrUsedBlocks \in Int /\ usable \cap mmngrMemoryMap \subseteq held
      /\ usable \subseteq Bits
      /\ Free = Cardinality(Declared(N)) - sum[k - 1]
      /\ Free <= Cardinality(A)
      /\ \A j \in 1 .. M : N + j <= step => Reserved(j) \subseteq mmngrMemoryMap
  BY <1>1 DEF CountInv
<1>5. /\ sum[k] \in Nat /\ sum[k - 1] \in Nat /\ sum[k] = sum[k - 1] + Cardinality(S)
      /\ sum[k] <= Cardinality(Declared(N))
      /\ Cardinality(Declared(N)) \in Nat
  <2>1. Declared(N) \subseteq Bits
    BY <1>1, DeclaredGrows
  <2>2. k \in 0 .. M /\ k - 1 \in 0 .. M
    BY <1>1
  <2> QED BY <1>4, <2>1, <2>2, BitsAreCounted DEF Counts
<1>6. IsFiniteSet(S) /\ Cardinality(S) \in Nat
  BY <1>1, ReservedIsCounted
<1>7. mmngrUsedBlocks' \in Int /\ Free' = Free - Cardinality(S)
  <2>1. Cardinality(S) <= Free
    BY <1>4, <1>5, <1>6
  <2> QED BY <1>3, <1>4, <1>6, <2>1, FreeMoves
<1>8. IsFiniteSet(A) /\ Cardinality(A) \in Nat /\ IsFiniteSet(Z) /\ Cardinality(Z) \in Nat
      /\ usable' \subseteq Bits
  <2>1. A \subseteq Bits /\ Z \subseteq Bits
    BY <1>3, <1>4, ScannedIsMapped DEF Zero
  <2> QED BY <1>3, <1>4, <2>1, BitsAreCounted
<1>9. A \ S \in SUBSET Z
  <2>1. ASSUME NEW b \in Zero(k - 1), b \notin S  PROVE b \in Zero(k)
    <3>1. \A j \in 1 .. k : j = k \/ j \in 1 .. k - 1
      BY <1>1
    <3> QED BY <2>1, <3>1 DEF Zero
  <2> HIDE DEF S
  <2> QED BY <1>3, <2>1
<1> HIDE DEF S, A, Z
<1>10. Free' <= Cardinality(Z)
  <2>1. IsFiniteSet(A \ S) /\ Cardinality(A \ S) = Cardinality(A) - Cardinality(A \cap S)
    BY <1>8, FS_Difference
  <2>2. Cardinality(A \cap S) \in Nat /\ Cardinality(A \cap S) <= Cardinality(S)
    <3>1. A \cap S \in SUBSET S
      OBVIOUS
    <3> QED BY <1>6, <3>1, FS_Subset, FS_CardinalityType
  <2>3. Cardinality(A \ S) <= Cardinality(Z)
    BY <1>8, <1>9, FS_Subset
  <2>4. Free \in Int
    BY <1>4, <1>5
  <2> QED BY <1>4, <1>6, <1>7, <1>8, <2>1, <2>2, <2>3, <2>4
<1>11. Free' = Cardinality(Declared(N)) - sum[k]
  BY <1>4, <1>5, <1>6, <1>7
<1>12. usable' \cap mmngrMemoryMap' \subseteq held'
  BY <1>1, <1>3, <1>4
<1>13. \A j \in 1 .. M : N + j <= N + k => Reserved(j) \subseteq mmngrMemoryMap'
  <2> TAKE j \in 1 .. M
  <2>1. CASE j = k
    BY <1>3, <2>1 DEF S
  <2>2. CASE j < k
    <3>1. N + j <= step
      BY <1>1, <2>2
    <3> QED BY <1>3, <1>4, <3>1
  <2>3. j = k \/ j < k \/ ~(N + j <= N + k)
    BY <1>1
  <2> QED BY <2>1, <2>2, <2>3
<1>14. ASSUME k = M  PROVE Free' <= Cardinality(Bits \ mmngrMemoryMap')
  <2>1. Zero(M) = {}
    <3>1. PICK j \in 1 .. M : 0 \in Reserved(j)
      BY <1>1, ReservedIsCounted
    <3> QED BY <3>1 DEF Zero
  <2>2. Z \in SUBSET (Bits \ mmngrMemoryMap')
    BY <1>3, <1>8, <1>12, <1>14, <2>1 DEF Z
  <2>3. IsFiniteSet(Bits \ mmngrMemoryMap') /\ Cardinality(Bits \ mmngrMemoryMap') \in Nat
    BY BitsAreCounted
  <2>4. Cardinality(Z) <= Cardinality(Bits \ mmngrMemoryMap')
    BY <2>2, <2>3, FS_Subset
  <2>5. Free' \in Int
    BY <1>5, <1>11
  <2> QED BY <1>8, <1>10, <2>3, <2>4, <2>5
<1>15. N + M <= step' => Free' <= Cardinality(Bits \ mmngrMemoryMap')
  <2>1. k # M => ~(N + M <= step')
    BY <1>1
  <2> QED BY <1>14, <2>1
<1>16. step' - N = k /\ k \in 0 .. M /\ Zero(k)' = Zero(k) /\ N <= step' /\ step' <= N + M
  <2>1. step' - N = k /\ k \in 0 .. M /\ N <= step' /\ step' <= N + M
    BY <1>1
  <2> QED BY <1>1, <2>1, CountsStay
<1>17. Counts(sum)' /\ \A j \in 1 .. M : Reserved(j)' = Reserved(j)
  BY <1>1, <1>4, CountsStay
<1>18. ~(step' <= N)
  BY <1>1
<1>19. Free' <= Cardinality(usable' \cup Zero(k)')
  BY <1>10, <1>16 DEF Z
<1>20. \A j \in 1 .. M : N + j <= step' => Reserved(j)' \subseteq mmngrMemoryMap'
  BY <1>1, <1>13, <1>17
<1> QED BY <1>7, <1>8, <1>11, <1>12, <1>15, <1>16, <1>17, <1>18, <1>19, <1>20 DEF CountInv

\* After the reservations the count is compared with the clear bits alone.
LEMMA CountAfterwards ==
  ASSUME ReservedInv, NEW sum, CountInv(sum), ebda' = ebda,
         step' \in Int, N + M < step',
         mmngrUsedBlocks' \in Int,
         usable' \cap mmngrMemoryMap' \subseteq held',
         Free' <= Cardinality(Bits \ mmngrMemoryMap'),
         Booted' \/ \A j \in 1 .. M : Reserved(j) \subseteq mmngrMemoryMap'
  PROVE  CountInv(sum)'
<1>1. N \in Nat /\ M \in Nat \ {0}
  BY ReservedIsCounted DEF ReservedInv
<1>2. Counts(sum)' /\ \A j \in 1 .. M : Reserved(j)' = Reserved(j)
  BY <1>1, CountsStay DEF CountInv
<1>3. ~(step' <= N) /\ ~(step' <= N + M)
  BY <1>1
<1>4. ~Booted' => \A j \in 1 .. M : N + j <= step' => Reserved(j)' \subseteq mmngrMemoryMap'
  BY <1>2
<1> QED BY <1>2, <1>3, <1>4 DEF CountInv

LEMMA CountUnchanged ==
  ASSUME ReservedInv, NEW sum, CountInv(sum), UNCHANGED bootVars
  PROVE  CountInv(sum)'
<1>1. /\ mmngrMemoryMap' = mmngrMemoryMap /\ mmngrUsedBlocks' = mmngrUsedBlocks
      /\ usable' = usable /\ held' = held /\ step' = step /\ ebda' = ebda
  BY DEF bootVars, vars
<1>2. N \in Nat /\ M \in Nat /\ step \in Int
  BY ReservedIsCounted DEF ReservedInv
<1>3. /\ Counts(sum)' /\ \A j \in 1 .. M : Reserved(j)' = Reserved(j)
      /\ N <= step /\ step <= N + M => Zero(step - N)' = Zero(step - N)
  <2>1. N <= step /\ step <= N + M => step - N \in 0 .. M
    BY <1>2
  <2>2. \A k \in 0 .. M : Zero(k)' = Zero(k)
    BY <1>1, <1>2, CountsStay
  <2>3. step' - N = step - N
    BY <1>1
  <2> QED BY <1>1, <1>2, <2>1, <2>2, <2>3, CountsStay DEF CountInv
<1>4. Free' = Free /\ (Booted' <=> Booted)
  BY <1>1, RegionsStay DEF Free, pmmngr_get_free_block_count, Booted
<1> QED BY <1>1, <1>2, <1>3, <1>4 DEF CountInv

\* The page table for the video memory, the release of the old one, and the
\* requests that follow.
LEMMA CountAtEnd ==
  ASSUME ReservedInv, NEW sum, CountInv(sum), BootStep \/ RunTime, N + M <= step
  PROVE  CountInv(sum)'
<1> DEFINE Old == InitBlocks(OldPageTable[1], OldPageTable[2])
           clear == Bits \ mmngrMemoryMap
<1>1. /\ N \in Nat /\ M \in Nat \ {0} /\ step \in Int /\ ebda \in EbdaBases /\ LedgerInv
      /\ ebda' = ebda /\ step' \in Int
      /\ mmngrUsedBlocks \in Int /\ usable \cap mmngrMemoryMap \subseteq held
      /\ Free <= Cardinality(clear)
      /\ Booted \/ \A j \in 1 .. M : Reserved(j) \subseteq mmngrMemoryMap
  <2>1. N \in Nat /\ M \in Nat \ {0} /\ step \in Int /\ ebda \in EbdaBases /\ LedgerInv
    BY ReservedIsCounted DEF ReservedInv
  <2>2. ebda' = ebda /\ step' \in Int
    BY <2>1 DEF BootStep, RunTime
  <2>3. \A j \in 1 .. M : N + j <= step
    BY <2>1
  <2> QED BY <2>1, <2>2, <2>3 DEF CountInv
<1>2. CASE RunTime
  <2>1. /\ pmmngr_alloc_block \/ \E b \in Bits : pmmngr_free_block(b)
        /\ step' = step /\ Booted
    BY <1>2 DEF RunTime
  <2>2. Booted' /\ step = N + M + 2
    BY <1>1, <2>1, BootedAtEnd, RegionsStay DEF Booted
  <2>3. /\ mmngrUsedBlocks' \in Int /\ usable' \cap mmngrMemoryMap' \subseteq held'
        /\ Free' <= Cardinality(Bits \ mmngrMemoryMap')
    BY <1>1, <2>1, RequestsAreCounted
  <2>4. N + M < step'
    BY <1>1, <2>1, <2>2
  <2> QED BY <1>1, <2>2, <2>3, <2>4, CountAfterwards
<1>3. ASSUME BootStep, step = N + M  PROVE CountInv(sum)'
  <2>1. step' = N + M + 1 /\ ~Booted /\ (pmmngr_alloc_block \/ UNCHANGED vars)
    <3>1. ~(step + 1 \in 1 .. N) /\ step # N + M + 1 /\ \A k \in 1 .. M : step + 1 # N + k
      BY <1>1, <1>3
    <3> QED BY <1>1, <1>3, <3>1, BootStepCases
  <2>2. /\ mmngrUsedBlocks' \in Int /\ usable' \cap mmngrMemoryMap' \subseteq held'
        /\ Free' <= Cardinality(Bits \ mmngrMemoryMap')
    <3>1. CASE pmmngr_alloc_block
      BY <1>1, <3>1, RequestsAreCounted
    <3>2. CASE UNCHANGED vars
      <4>1. Free' = Free
        BY <3>2 DEF vars, Free, pmmngr_get_free_block_count
      <4> QED BY <1>1, <3>2, <4>1 DEF vars
    <3> QED BY <2>1, <3>1, <3>2
  <2>3. \A j \in 1 .. M : Reserved(j) \subseteq mmngrMemoryMap'
    BY <1>1, <2>1 DEF pmmngr_alloc_block, vars
  <2>4. N + M < step'
    BY <1>1, <2>1
  <2> QED BY <1>1, <2>2, <2>3, <2>4, CountAfterwards
<1>4. ASSUME BootStep, step = N + M + 1  PROVE CountInv(sum)'
  <2>1. step' = N + M + 2 /\ ~Booted /\ pmmngr_init_region(OldPageTable[1], OldPageTable[2])
    <3>1. ~(step + 1 \in 1 .. N) /\ step # N + M /\ \A k \in 1 .. M : step + 1 # N + k
      BY <1>1, <1>4
    <3> QED BY <1>1, <1>4, <3>1, BootStepCases
  <2>2. /\ mmngrMemoryMap' = (mmngrMemoryMap \ Old) \cup {0}
        /\ usable' = (usable \cup Old) \ {0} /\ held' = held
        /\ mmngrUsedBlocks' = Minus(Cardinality(Old))
    BY <2>1 DEF pmmngr_init_region
  <2>3. Old \subseteq Bits \ {0} /\ Old \cap clear = {} /\ 0 \notin clear
    BY <1>1, <2>1, ReservedIsCounted
  <2> HIDE DEF Old
  <2>4. Bits \ mmngrMemoryMap' = clear \cup Old
    BY <2>2, <2>3
  <2>5. /\ IsFiniteSet(clear) /\ IsFiniteSet(Old) /\ Cardinality(clear) \in Nat /\ Cardinality(Old) \in Nat
        /\ Cardinality(clear \cup Old) <= MapBits /\ MapBits \in Nat /\ MapBits < Modulus
    BY <2>3, BitsAreCounted
  <2>6. Cardinality(clear \cup Old) = Cardinality(clear) + Cardinality(Old)
    <3> HIDE DEF clear
    <3>1. Cardinality(clear \cup Old) = Cardinality(clear) + Cardinality(Old) - Cardinality({})
      BY <2>3, <2>5, FS_Union
    <3> QED BY <2>5, <3>1, FS_EmptySet
  <2>7. Free \in 0 .. Modulus - 1
    BY <1>1, FreeMoves
  <2> HIDE DEF clear
  <2>8. Free + Cardinality(Old) < Modulus /\ Free + Cardinality(Old) <= Cardinality(clear \cup Old)
    BY <1>1, <2>5, <2>6, <2>7, SizesAssumption
  <2>9. mmngrUsedBlocks' \in Int /\ Free' = Free + Cardinality(Old)
    BY <1>1, <2>2, <2>5, <2>8, FreeMoves
  <2>10. usable' \cap mmngrMemoryMap' \subseteq held'
    BY <1>1, <2>2
  <2>11. Booted' /\ N + M < step'
    BY <1>1, <2>1, RegionsStay, CallsInOrder DEF Booted
  <2> QED BY <1>1, <2>4, <2>8, <2>9, <2>10, <2>11, CountAfterwards
<1>5. BootStep => step = N + M \/ step = N + M + 1
  <2>1. ASSUME BootStep  PROVE step # N + M + 2
    BY <1>1, <2>1, BootedAtEnd DEF BootStep
  <2> QED BY <1>1, <2>1 DEF ReservedInv
<1> QED BY <1>2, <1>3, <1>4, <1>5

LEMMA CountStep ==
  ASSUME EntriesAreApart, ReservedInv, NEW sum, CountInv(sum),
         [WholeNext]_<<bootVars, loaderVars>>
  PROVE  CountInv(sum)'
<1>1. N \in Nat /\ M \in Nat /\ step \in Int /\ ebda \in EbdaBases
  BY ReservedIsCounted DEF ReservedInv
<1>2. CASE BootStep
  <2>1. ASSUME NEW k \in 1 .. M, step + 1 = N + k  PROVE CountInv(sum)'
    BY <1>2, <2>1, CountWhileReserving
  <2>2. \/ step + 1 \in 1 .. N \/ N + M <= step
        \/ \E k \in 1 .. M : step + 1 = N + k
    <3>1. step + 1 > N /\ step < N + M =>
            step + 1 - N \in 1 .. M /\ step + 1 = N + (step + 1 - N)
      BY <1>1
    <3> QED BY <1>1, <3>1 DEF ReservedInv
  <2> QED BY <1>2, <2>1, <2>2, CountWhileDeclaring, CountAtEnd
<1>3. CASE RunTime
  <2>1. N + M <= step
    BY <1>1, <1>3, BootedAtEnd DEF RunTime
  <2> QED BY <1>3, <2>1, CountAtEnd
<1>4. CASE UNCHANGED bootVars
  BY <1>4, CountUnchanged
<1> QED BY <1>2, <1>3, <1>4 DEF WholeNext, BootNext

\* On a machine whose BIOS reports entries that do not overlap, with more
\* memory than initialise_memory reserves, the kernel's count of free blocks
\* never promises a block that the bitmap does not have, although reserving
\* counts blocks that were never free and the counter may wrap around.
THEOREM FreeCountIsAlwaysBacked ==
  EntriesAreApart => (WholeSpec /\ MemorySuffices => []FreeCountIsBacked)
<1> SUFFICES ASSUME EntriesAreApart
             PROVE  WholeSpec /\ MemorySuffices => []FreeCountIsBacked
  OBVIOUS
<1> DEFINE Inv == \E sum \in [0 .. M -> Nat] : CountInv(sum)
<1>1. WholeInit /\ MemorySuffices => Inv
  BY CountInitially DEF WholeInit, MemorySuffices
<1>2. ReservedInv /\ Inv /\ [WholeNext]_<<bootVars, loaderVars>> => Inv'
  <2> SUFFICES ASSUME ReservedInv, Inv, [WholeNext]_<<bootVars, loaderVars>>
               PROVE  Inv'
    OBVIOUS
  <2>1. PICK sum \in [0 .. M -> Nat] : CountInv(sum)
    OBVIOUS
  <2>2. CountInv(sum)'
    BY <2>1, CountStep
  <2> QED BY <2>2
<1>3. ReservedInv /\ Inv => FreeCountIsBacked
  <2> SUFFICES ASSUME ReservedInv, NEW sum, CountInv(sum), Booted
               PROVE  Free <= Cardinality(Bits \ mmngrMemoryMap)
    BY DEF FreeCountIsBacked, Free
  <2>1. N \in Nat /\ M \in Nat /\ step = N + M + 2
    BY BootedAtEnd, ReservedIsCounted DEF ReservedInv
  <2>2. N + M <= step
    BY <2>1
  <2> QED BY <2>2 DEF CountInv
<1> HIDE DEF Inv
<1> QED BY <1>1, <1>2, <1>3, ReservedAlways, PTL DEF WholeSpec

-----------------------------------------------------------------------------
(* The memory map that is handed over.                                     *)

\* The memory map.
Entry == [high : Nat, base : Nat, length : Nat, type : Nat]

\* What has been kept of the replies up to the i-th.
KeptTo(i) == Meant(bios.report) \cap (1 .. i)

\* The entries stored so far are those kept so far, each at its place; how
\* many the BIOS has been asked for in each phase.
MapInv ==
  /\ bios \in Bioses
  /\ asked \in 0 .. Len(bios.report)
  /\ mmap \in Seq(Entry) /\ Len(mmap) = Cardinality(KeptTo(asked))
  /\ \A i \in Meant(bios.report) :
       i <= asked => mmap[Cardinality(KeptTo(i))] = bios.report[i].entry
  /\ phase = "memory_map" /\ ~bios.carry => asked = 0 \/ asked < Len(bios.report)
  /\ phase \in {"copy", "entered"} =>
       asked = Len(bios.report) /\ Len(bios.report) > (IF bios.carry THEN 0 ELSE 1)
  /\ phase \notin {"memory_map", "copy", "entered", "halted"} => asked = 0

LEMMA ReportIsFinite ==
  ASSUME bios \in Bioses
  PROVE  /\ bios.carry \in BOOLEAN /\ Len(bios.report) \in Nat
         /\ DOMAIN bios.report = 1 .. Len(bios.report)
         /\ \A i \in 1 .. Len(bios.report) :
              bios.report[i] \in [size : Nat, ignore : BOOLEAN, entry : Entry]
         /\ Meant(bios.report) \subseteq 1 .. Len(bios.report)
         /\ \A i \in Nat : IsFiniteSet(KeptTo(i)) /\ Cardinality(KeptTo(i)) \in Nat
<1> DEFINE Reply == [size : Nat, ignore : BOOLEAN, entry : Entry]
<1>1. bios.carry \in BOOLEAN /\ bios.report \in Seq(Reply)
  BY BiosAssumption DEF Entry
<1> HIDE DEF Reply
<1>2. /\ Len(bios.report) \in Nat /\ DOMAIN bios.report = 1 .. Len(bios.report)
      /\ \A i \in 1 .. Len(bios.report) : bios.report[i] \in Reply
  BY <1>1, LenProperties, ElementOfSeq
<1>3. Meant(bios.report) \subseteq 1 .. Len(bios.report)
  BY <1>2 DEF Meant
<1>4. ASSUME NEW i \in Nat  PROVE IsFiniteSet(KeptTo(i)) /\ Cardinality(KeptTo(i)) \in Nat
  <2>1. IsFiniteSet(1 .. i) /\ KeptTo(i) \in SUBSET (1 .. i)
    BY FS_Interval DEF KeptTo
  <2> QED BY <2>1, FS_Subset, FS_CardinalityType
<1> QED BY <1>1, <1>2, <1>3, <1>4 DEF Reply

LEMMA EntryKeepsMap ==
  ASSUME MapInv, e820_entry
  PROVE  MapInv'
<1> DEFINE n == Len(bios.report)
           k == asked + 1
           reply == bios.report[k]
           K == Meant(bios.report)
<1>1. /\ bios \in Bioses /\ asked \in 0 .. n /\ mmap \in Seq(Entry)
      /\ Len(mmap) = Cardinality(KeptTo(asked))
      /\ \A i \in K : i <= asked => mmap[Cardinality(KeptTo(i))] = bios.report[i].entry
  BY DEF MapInv
<1>2. /\ phase = "memory_map" /\ asked < n /\ (asked > 0 \/ ~EbxIsZero)
      /\ mmap' = IF Stored(reply) THEN Append(mmap, reply.entry) ELSE mmap
      /\ asked' = k /\ phase' = (IF EbxIsZero THEN "copy" ELSE "memory_map") /\ bios' = bios
  BY DEF e820_entry, HasEntry
<1>3. /\ bios.carry \in BOOLEAN /\ n \in Nat /\ k \in 1 .. n /\ k \in DOMAIN bios.report
      /\ reply \in [size : Nat, ignore : BOOLEAN, entry : Entry]
      /\ K \subseteq 1 .. n
      /\ \A i \in Nat : IsFiniteSet(KeptTo(i)) /\ Cardinality(KeptTo(i)) \in Nat
  <2>1. /\ bios.carry \in BOOLEAN /\ n \in Nat /\ DOMAIN bios.report = 1 .. n
        /\ \A i \in 1 .. n : bios.report[i] \in [size : Nat, ignore : BOOLEAN, entry : Entry]
        /\ K \subseteq 1 .. n
        /\ \A i \in Nat : IsFiniteSet(KeptTo(i)) /\ Cardinality(KeptTo(i)) \in Nat
    BY <1>1, ReportIsFinite
  <2> HIDE DEF n, K
  <2>2. k \in 1 .. n
    BY <1>1, <1>2, <2>1
  <2> HIDE DEF k
  <2> QED BY <2>1, <2>2
<1>4. Stored(reply) <=> k \in K
  <2>1. Stored(reply) <=> (reply.size > 0 /\ reply.entry.length > 0
                           /\ (reply.size <= 20 \/ ~reply.ignore))
    <3> HIDE DEF reply
    <3>1. reply.size \in Nat /\ reply.entry.length \in Nat /\ reply.ignore \in BOOLEAN
      BY <1>3 DEF Entry
    <3> QED BY <3>1 DEF Stored
  <2> HIDE DEF k
  <2> QED BY <1>3, <2>1 DEF Meant
<1>5. EbxIsZero <=> ~bios.carry /\ k = n
  BY DEF EbxIsZero
<1>6. \A i : KeptTo(i)' = KeptTo(i)
  BY <1>2 DEF KeptTo
<1> HIDE DEF n, reply, K
<1>7. /\ mmap' \in Seq(Entry) /\ Len(mmap') = Cardinality(KeptTo(k))
      /\ \A i \in K : i <= k => mmap'[Cardinality(KeptTo(i))] = bios.report[i].entry
  <2>1. KeptTo(k) = IF k \in K THEN KeptTo(asked) \cup {k} ELSE KeptTo(asked)
    BY <1>1, <1>3 DEF KeptTo, K
  <2>2. k \notin KeptTo(asked)
    BY <1>1 DEF KeptTo
  <2>3. CASE k \notin K
    <3>1. \A i \in K : i <= k => i <= asked
      BY <1>1, <1>3, <2>3
    <3> QED BY <1>1, <1>2, <1>4, <2>1, <2>3, <3>1
  <2>4. CASE k \in K
    <3>1. mmap' = Append(mmap, reply.entry) /\ reply.entry \in Entry
      BY <1>2, <1>3, <1>4, <2>4
    <3>2. /\ mmap' \in Seq(Entry) /\ Len(mmap') = Len(mmap) + 1
          /\ \A i \in 1 .. Len(mmap) : mmap'[i] = mmap[i]
          /\ mmap'[Len(mmap) + 1] = reply.entry
      BY <1>1, <3>1, AppendProperties
    <3>3. Cardinality(KeptTo(k)) = Len(mmap) + 1
      <4>1. asked \in Nat
        BY <1>1
      <4>2. Cardinality(KeptTo(asked) \cup {k}) = Cardinality(KeptTo(asked)) + 1
        BY <1>3, <2>2, <4>1, FS_AddElement
      <4> QED BY <1>1, <2>1, <2>4, <4>2
    <3>4. ASSUME NEW i \in K, i <= asked
          PROVE  Cardinality(KeptTo(i)) \in 1 .. Len(mmap)
      <4>1. i \in Nat /\ asked \in Nat /\ i \in KeptTo(i) /\ KeptTo(i) \in SUBSET KeptTo(asked)
        BY <1>1, <1>3, <3>4 DEF KeptTo, K
      <4>2. Cardinality(KeptTo(i)) <= Len(mmap)
        BY <1>1, <1>3, <4>1, FS_Subset
      <4>3. Cardinality(KeptTo(i)) # 0
        BY <1>3, <4>1, FS_EmptySet
      <4> QED BY <1>1, <1>3, <4>1, <4>2, <4>3
    <3>5. \A i \in K : i <= k => i <= asked \/ i = k
      BY <1>1, <1>3
    <3> QED BY <1>1, <3>2, <3>3, <3>4, <3>5 DEF reply
  <2> QED BY <2>3, <2>4
<1>8. asked' \in 0 .. n
  BY <1>2, <1>3
<1>9. phase' = "memory_map" /\ ~bios.carry => asked' < n
  BY <1>1, <1>2, <1>3, <1>5
<1>10. phase' \in {"copy", "entered"} => asked' = n /\ n > (IF bios.carry THEN 0 ELSE 1)
  BY <1>1, <1>2, <1>3, <1>5
<1> QED BY <1>1, <1>2, <1>6, <1>7, <1>8, <1>9, <1>10 DEF MapInv, n, K

LEMMA MapStays ==
  ASSUME MapInv, UNCHANGED <<bios, asked, mmap>>,
         phase' = "memory_map" => phase = "memory_map" \/ asked = 0,
         phase' \in {"copy", "entered"} =>
           asked = Len(bios.report) /\ Len(bios.report) > (IF bios.carry THEN 0 ELSE 1),
         phase' \notin {"memory_map", "copy", "entered", "halted"} => asked = 0
  PROVE  MapInv'
<1>1. \A i : KeptTo(i)' = KeptTo(i)
  BY DEF KeptTo
<1> QED BY <1>1 DEF MapInv

LEMMA MapStep ==
  ASSUME MapInv, [WholeNext]_<<bootVars, loaderVars>>
  PROVE  MapInv'
<1>1. ASSUME Halts  PROVE MapInv'
  BY <1>1, MapStays DEF Halts
<1>2. CASE load_root_dir \/ load_fat
  <2>1. asked = 0 /\ UNCHANGED <<bios, asked, mmap>> /\ phase' \in {"FAT", "find_stage2"}
    BY <1>2 DEF load_root_dir, load_fat, NextFile, Find, MapInv
  <2> QED BY <2>1, MapStays
<1>3. ASSUME NEW f \in Files, find_file(f) \/ no_file(f) \/ load_cluster(f)
      PROVE  MapInv'
  <2>1. Files = {"stage2", "kernel"} /\ Find[f] \in {"find_stage2", "find_kernel"}
        /\ NextFile[f] \in {"find_kernel", "memory_map"}
    BY DEF Files, Find, NextFile
  <2>2. CASE no_file(f)
    BY <2>2, <1>1 DEF no_file
  <2>3. CASE find_file(f) \/ load_cluster(f)
    <3>1. phase \in {f, Find[f]} /\ phase' \in {f, NextFile[f]}
          /\ UNCHANGED <<bios, asked, mmap>>
      BY <2>3 DEF find_file, load_cluster
    <3>2. asked = 0
      BY <2>1, <3>1 DEF MapInv
    <3> QED BY <2>1, <3>1, <3>2, MapStays
  <2> QED BY <1>3, <2>2, <2>3
<1>4. CASE e820_carry
  <2>1. asked = Len(bios.report) /\ asked > 0 /\ bios.carry
    <3>1. bios.carry \in BOOLEAN /\ Len(bios.report) \in Nat /\ asked \in 0 .. Len(bios.report)
      BY ReportIsFinite DEF MapInv
    <3> QED BY <1>4, <3>1 DEF e820_carry, HasEntry, MapInv
  <2> QED BY <1>4, <2>1, MapStays DEF e820_carry
<1>5. CASE copy_kernel
  BY <1>5, MapStays DEF copy_kernel, MapInv
<1>6. CASE UNCHANGED loaderVars
  BY <1>6, MapStays DEF loaderVars, MapInv
<1>7. CASE e820_failed
  BY <1>7, MapStays DEF e820_failed
<1>8. CASE LoaderNext
  BY <1>1, <1>2, <1>3, <1>4, <1>5, <1>7, <1>8, EntryKeepsMap DEF LoaderNext, load_sector_error
<1> QED BY <1>6, <1>8 DEF WholeNext

\* What is kept is what the BIOS means to report.
LEMMA KeptIsMeant ==
  ASSUME MapInv, phase = "entered"
  PROVE  MapIsHandedOn
<1> DEFINE S == Meant(bios.report)
           n == Len(bios.report)
<1>1. /\ n \in Nat /\ S \subseteq 1 .. n /\ IsFiniteSet(S)
      /\ asked = n /\ n > (IF bios.carry THEN 0 ELSE 1)
      /\ mmap \in Seq(Entry) /\ Len(mmap) = Cardinality(KeptTo(n))
      /\ \A i \in S : i <= n => mmap[Cardinality(KeptTo(i))] = bios.report[i].entry
      /\ bios \in Bioses
  <2>1. bios \in Bioses /\ n \in Nat /\ S \subseteq 1 .. n
    BY ReportIsFinite DEF MapInv
  <2>2. IsFiniteSet(S)
    <3> HIDE DEF S, n
    <3>1. IsFiniteSet(1 .. n) /\ S \in SUBSET (1 .. n)
      BY <2>1, FS_Interval
    <3> QED BY <3>1, FS_Subset
  <2>3. asked = n /\ n > (IF bios.carry THEN 0 ELSE 1)
    BY DEF MapInv
  <2>4. /\ mmap \in Seq(Entry) /\ Len(mmap) = Cardinality(KeptTo(n))
        /\ \A i \in S : i <= n => mmap[Cardinality(KeptTo(i))] = bios.report[i].entry
    BY <2>3, Zenon DEF MapInv
  <2> QED BY <2>1, <2>2, <2>3, <2>4
<1>2. /\ Len(BiosMap) = Cardinality(S)
      /\ \A i \in S : BiosMap[Cardinality(S \cap (1 .. i))] = bios.report[i].entry
  BY <1>1, ReportAssumption
<1> HIDE DEF S, n
<1>3. \A i \in S : KeptTo(i) = S \cap (1 .. i)
  BY DEF KeptTo, S
<1>4. KeptTo(n) = S
  BY <1>1 DEF KeptTo, S
<1>5. Len(mmap) \in Nat /\ Len(mmap) = Len(BiosMap) /\ Len(mmap) = Cardinality(S)
  BY <1>1, <1>2, <1>4, LenProperties
<1>6. ASSUME NEW j \in 1 .. Len(mmap)  PROVE mmap[j] = BiosMap[j]
  <2>1. S \in SUBSET Int
    BY <1>1
  <2>2. PICK i \in S : Place(S, i) = j
    BY <1>1, <1>5, <2>1, EveryPlaceTaken
  <2>3. i \in 1 .. n /\ i <= n
    BY <1>1
  <2>3a. {c \in S : c <= i} = S \cap (1 .. i)
    <3>1. i \in Nat /\ \A c \in S : c <= i <=> c \in 1 .. i
      BY <1>1
    <3> QED BY <3>1, Zenon
  <2>4. Cardinality(S \cap (1 .. i)) = j
    BY <2>2, <2>3a DEF Place
  <2> QED BY <1>1, <1>2, <1>3, <2>3, <2>4
<1>7. BiosMap \in Seq([high : Nat, base : Nat, length : Nat, type : Nat])
  BY MapAssumption
<1>8. mmap = BiosMap
  <2> DEFINE E == [high : Nat, base : Nat, length : Nat, type : Nat]
  <2>1. mmap \in Seq(E) /\ BiosMap \in Seq(E)
    BY <1>1, <1>7 DEF Entry
  <2> HIDE DEF E
  <2> QED BY <1>5, <1>6, <2>1, SeqEqual
<1> QED BY <1>8 DEF MapIsHandedOn

LEMMA MapAlways == WholeSpec => []MapInv
<1>1. WholeInit => MapInv
  <2> SUFFICES ASSUME WholeInit PROVE MapInv
    OBVIOUS
  <2>1. bios \in Bioses /\ asked = 0 /\ mmap = <<>> /\ phase = "root_dir"
    BY DEF WholeInit, LoaderInit
  <2>2. Len(bios.report) \in Nat /\ Meant(bios.report) \subseteq 1 .. Len(bios.report)
    BY <2>1, ReportIsFinite
  <2>3. KeptTo(0) = {} /\ Cardinality({}) = 0
    BY FS_EmptySet DEF KeptTo
  <2>4. mmap \in Seq(Entry) /\ Len(mmap) = 0
    BY <2>1, EmptySeq
  <2>5. \A i \in Meant(bios.report) : ~(i <= asked)
    BY <2>1, <2>2
  <2>6. asked \in 0 .. Len(bios.report) /\ KeptTo(asked) = {}
    BY <2>1, <2>2, <2>3
  <2>7. Len(mmap) = Cardinality(KeptTo(asked))
    BY <2>3, <2>4, <2>6
  <2> QED BY <2>1, <2>4, <2>5, <2>6, <2>7 DEF MapInv
<1>2. MapInv /\ [WholeNext]_<<bootVars, loaderVars>> => MapInv'
  BY MapStep
<1> QED BY <1>1, <1>2, PTL DEF WholeSpec

\* For every list of replies, the loop of stage 2 hands the kernel the entries
\* that are meant, each once and in their order, whether the BIOS ends the
\* list by carry or by EBX = 0.
THEOREM MapIsAlwaysHandedOn == WholeSpec => []MapIsHandedOn
<1>1. MapInv => MapIsHandedOn
  BY KeptIsMeant DEF MapIsHandedOn
<1> QED BY <1>1, MapAlways, PTL

\* No more entries are stored than the BIOS has.
LEMMA MapFits ==
  ASSUME MapInv
  PROVE  /\ bios \in Bioses /\ Len(mmap) \in Nat /\ Len(bios.report) \in Nat
         /\ Len(mmap) <= Len(bios.report)
<1>1. /\ bios \in Bioses /\ asked \in 0 .. Len(bios.report)
      /\ Len(mmap) = Cardinality(KeptTo(asked))
  BY DEF MapInv
<1>2. Len(bios.report) \in Nat /\ \A i \in Nat : Cardinality(KeptTo(i)) \in Nat
  BY <1>1, ReportIsFinite
<1>3. IsFiniteSet(1 .. asked) /\ Cardinality(1 .. asked) = asked
  BY <1>1, <1>2, FS_Interval
<1>4. KeptTo(asked) \in SUBSET (1 .. asked)
  BY DEF KeptTo
<1>5. Cardinality(KeptTo(asked)) <= asked
  BY <1>3, <1>4, FS_Subset
<1> QED BY <1>1, <1>2, <1>5

-----------------------------------------------------------------------------
(* The boot loader.                                                        *)

LEMMA ClusterNumbers == \A c \in Clusters : c \in Int /\ 2 <= c /\ c <= 4095
<1>1. (bpbSectorsPerFAT * bpbBytesPerSector) \div 2 = 4096
  BY SMT DEF bpbSectorsPerFAT, bpbBytesPerSector
<1> QED BY <1>1, SMT DEF Clusters

\* What the 16-bit arithmetic of the boot sector amounts to on this volume.
LEMMA VolumeNumbers ==
  /\ FirstRootSector = 17 /\ RootDirSectors = 1 /\ RootDirStart = 17
  /\ datasector = 18 /\ DataStart = 18 /\ SegmentStep = 256
  /\ \A c \in Clusters : SectorOf(c) = DataStart + (c - 2) * bpbSectorsPerCluster
<1>1. FirstRootSector = 17
  BY DEF FirstRootSector, AsWord, Word, bpbNumberOfFATS, bpbRootDirectoryEntries,
         bpbSectorsPerFAT, bpbReservedSectors
<1>2. RootDirSectors = 1 /\ RootDirStart = 17 /\ DataStart = 18
  BY DEF RootDirSectors, RootDirStart, DataStart, bpbRootDirectoryEntries, bpbBytesPerSector,
         bpbReservedSectors, bpbNumberOfFATS, bpbSectorsPerFAT
<1>3. datasector = 18
  BY <1>1 DEF datasector, bpbRootDirectoryEntries, bpbBytesPerSector, Word
<1>4. SegmentStep = 256
  BY DEF SegmentStep, AsWord, bpbSectorsPerCluster, bpbReservedSectors, bpbBytesPerSector, Word
<1>5. ASSUME NEW c \in Clusters
      PROVE  SectorOf(c) = DataStart + (c - 2) * bpbSectorsPerCluster
  <2> DEFINE s == (c - 2) * 8 + 18
           m == 65536
  <2>1. s \in Int /\ 0 <= s /\ s <= 65535
    BY ClusterNumbers, SMT
  <2>2. m \in Nat \ {0} /\ m - 1 = 65535
    OBVIOUS
  <2> HIDE DEF s, m
  <2>3. s % m = s
    BY <2>1, <2>2, ModSmall
  <2>4. SectorOf(c) = s % m
    BY <1>3 DEF SectorOf, bpbSectorsPerCluster, Word, s, m
  <2> QED BY <1>2, <2>3, <2>4, ClusterNumbers DEF bpbSectorsPerCluster, s
<1> QED BY <1>1, <1>2, <1>3, <1>4, <1>5

\* What is written leaves the pieces alone that it does not reach.
LEMMA OverwrittenKeeps ==
  ASSUME NEW a \in Int, NEW n \in Int, n > 0,
         NEW x \in Int, NEW r, NEW m \in Nat, m > 0, Holds(x, r, m),
         x + m * bpbBytesPerSector <= a \/ a + n <= x
  PROVE  /\ x \in DOMAIN Overwritten(a, n) /\ Overwritten(a, n)[x] = Piece(r, m)
         /\ x # a
<1>1. x \in DOMAIN memory /\ memory[x] = Piece(r, m) /\ memory[x].size = m * bpbBytesPerSector
  BY DEF Holds, Piece
<1>2. m * bpbBytesPerSector \in Int /\ m * bpbBytesPerSector > 0
  BY DEF bpbBytesPerSector
<1>3. x < a \/ a + n <= x
  BY <1>2
<1>4. ~(x < a /\ a < x + memory[x].size) /\ x # a
  BY <1>1, <1>2
<1> QED BY <1>1, <1>3, <1>4 DEF Overwritten

\* A load puts a piece in its place.
LEMMA LoadedHolds ==
  ASSUME NEW a \in Int, NEW s, NEW n \in Nat, memory' = Loaded(a, s, n)
  PROVE  /\ Holds(a, s, n)'
         /\ DOMAIN memory \subseteq Int => DOMAIN memory' \subseteq Int
<1> DEFINE left == Overwritten(a, n * bpbBytesPerSector)
<1>1. memory' = [x \in DOMAIN left \cup {a} |-> IF x = a THEN Piece(s, n) ELSE left[x]]
  BY DEF Loaded
<1>2. DOMAIN left \subseteq DOMAIN memory
  BY DEF Overwritten
<1> HIDE DEF left
<1>3. a \in DOMAIN memory' /\ memory'[a] = Piece(s, n)
  BY <1>1
<1>4. Holds(a, s, n)'
  BY <1>3 DEF Holds, Piece
<1> QED BY <1>1, <1>2, <1>4

\* It leaves the pieces alone that it does not reach.
LEMMA LoadedKeeps ==
  ASSUME NEW a \in Int, NEW s, NEW n \in Nat, n > 0, memory' = Loaded(a, s, n),
         NEW x \in Int, NEW r, NEW m \in Nat, m > 0, Holds(x, r, m),
         x + m * bpbBytesPerSector <= a \/ a + n * bpbBytesPerSector <= x
  PROVE  Holds(x, r, m)'
<1> PICK k : k = n * bpbBytesPerSector
  OBVIOUS
<1>1. k \in Int /\ k > 0
  BY DEF bpbBytesPerSector
<1> DEFINE left == Overwritten(a, k)
<1>2. memory' = [y \in DOMAIN left \cup {a} |-> IF y = a THEN Piece(s, n) ELSE left[y]]
  BY DEF Loaded
<1>3. x \in DOMAIN left /\ left[x] = Piece(r, m) /\ x # a
  BY <1>1, OverwrittenKeeps
<1> HIDE DEF left
<1>4. x \in DOMAIN memory' /\ memory'[x] = Piece(r, m)
  BY <1>2, <1>3
<1> QED BY <1>4 DEF Holds, Piece

Sector(c) == DataStart + (c - 2) * bpbSectorsPerCluster

\* The first n clusters of the kernel lie one behind the other from a on.
KernelIsAt(n, a) ==
  \A j \in 1 .. n : Holds(a + (j - 1) * 4096, Sector(disk.kernel[j]), bpbSectorsPerCluster)

\* The kernel has no more clusters than are copied: the next one would be
\* loaded over the FAT.
KernelFits == \A d \in Disks : Len(d.kernel) * 4096 <= KernelMax

FatIsHeld == Holds(FatAddress, bpbReservedSectors, bpbSectorsPerFAT)

Stage2IsHeld == Holds(Stage2Address, Sector(disk.start.stage2), bpbSectorsPerCluster)

\* The cluster is whole up to some byte behind the end of stage 2.
Stage2Begins ==
  /\ Stage2Address \in DOMAIN memory
  /\ \E left \in Int :
       /\ left >= Stage2Length
       /\ memory[Stage2Address] =
            [size |-> left, sector |-> Sector(disk.start.stage2), count |-> bpbSectorsPerCluster]

\* The kernel is loaded up to the cluster before the next one.
KernelComes ==
  \E i \in 1 .. Len(disk.kernel) :
    /\ cluster = disk.kernel[i] /\ segment = (i - 1) * 256
    /\ KernelIsAt(i - 1, RootDirBuffer)

KernelIsLoaded == KernelIsAt(Len(disk.kernel), RootDirBuffer)

KernelIsCopied == KernelIsAt(Len(disk.kernel), NewKernelAddress)

\* Which pieces are in place in each phase.
LoaderInv ==
  /\ disk \in Disks /\ bios \in Bioses
  /\ DOMAIN memory \subseteq Int
  /\ phase \in {"root_dir", "FAT", "find_stage2", "stage2", "find_kernel", "kernel"} =>
       Holds(BootSector, 0, 1)
  /\ phase \in {"find_stage2", "stage2", "find_kernel", "kernel"} => FatIsHeld
  /\ phase = "stage2" => cluster = disk.start.stage2 /\ segment = 0
  /\ phase \in {"find_kernel", "kernel"} => Stage2IsHeld
  /\ phase \in {"memory_map", "copy", "entered"} => Stage2Begins
  /\ phase = "kernel" => KernelComes
  /\ phase \in {"memory_map", "copy"} => KernelIsLoaded
  /\ phase = "entered" => KernelIsCopied

LEMMA DiskIsSound ==
  ASSUME KernelFits, NEW d \in Disks
  PROVE  /\ Len(d.kernel) \in Nat /\ 1 <= Len(d.kernel) /\ Len(d.kernel) <= 100
         /\ \A i \in 1 .. Len(d.kernel) :
              /\ d.kernel[i] \in Clusters /\ d.kernel[i] \in DOMAIN d.fat
              /\ i = Len(d.kernel) => EndsChain(d.fat[d.kernel[i]])
              /\ i # Len(d.kernel) => d.fat[d.kernel[i]] = d.kernel[i + 1]
         /\ d.start.kernel = d.kernel[1] /\ d.start.stage2 \in Clusters
         /\ d.start.stage2 \in DOMAIN d.fat /\ EndsChain(d.fat[d.start.stage2])
<1> DEFINE n == Len(d.kernel)
<1>1. /\ d.kernel \in Seq(Clusters) /\ d.kernel # <<>>
      /\ d.start.kernel = d.kernel[1] /\ d.start.stage2 \in Clusters
      /\ d.start.stage2 \in DOMAIN d.fat /\ EndsChain(d.fat[d.start.stage2])
      /\ \A i \in DOMAIN d.kernel :
           /\ d.kernel[i] \in DOMAIN d.fat
           /\ IF i = n THEN EndsChain(d.fat[d.kernel[i]])
                       ELSE d.fat[d.kernel[i]] = d.kernel[i + 1]
  BY VolumeAssumption
<1>2. n \in Nat /\ n # 0 /\ DOMAIN d.kernel = 1 .. n
  BY <1>1, EmptySeq, LenProperties
<1>3. n * 4096 <= 409600
  BY DEF KernelFits, KernelMax
<1>4. \A i \in 1 .. n : d.kernel[i] \in Clusters
  BY <1>1, <1>2, ElementOfSeq
<1> HIDE DEF n
<1>5. 1 <= n /\ n <= 100
  BY <1>2, <1>3, SMT
<1> QED BY <1>1, <1>2, <1>4, <1>5 DEF n

LEMMA LoaderInitially == LoaderInit => LoaderInv
<1> SUFFICES ASSUME LoaderInit PROVE LoaderInv
  OBVIOUS
<1>1. /\ disk \in Disks /\ bios \in Bioses /\ phase = "root_dir"
      /\ memory = [x \in {BootSector} |-> Piece(0, 1)]
  BY DEF LoaderInit
<1>2. Holds(BootSector, 0, 1)
  BY <1>1 DEF Holds
<1>3. DOMAIN memory \subseteq Int
  BY <1>1 DEF BootSector
<1> QED BY <1>1, <1>2, <1>3 DEF LoaderInv

\* Nothing is loaded.
LEMMA MemoryStays ==
  ASSUME memory' = memory, disk' = disk
  PROVE  /\ Holds(BootSector, 0, 1)' <=> Holds(BootSector, 0, 1)
         /\ FatIsHeld' <=> FatIsHeld
         /\ Stage2IsHeld' <=> Stage2IsHeld
         /\ Stage2Begins' <=> Stage2Begins
         /\ KernelIsLoaded' <=> KernelIsLoaded
         /\ KernelIsCopied' <=> KernelIsCopied
         /\ cluster' = cluster /\ segment' = segment => (KernelComes' <=> KernelComes)
<1>1. ASSUME NEW x, NEW s, NEW n  PROVE Holds(x, s, n)' <=> Holds(x, s, n)
  BY DEF Holds, Piece
<1>2. ASSUME NEW n, NEW a  PROVE KernelIsAt(n, a)' <=> KernelIsAt(n, a)
  BY <1>1 DEF KernelIsAt, Sector
<1>3. (Holds(BootSector, 0, 1)' <=> Holds(BootSector, 0, 1)) /\ (FatIsHeld' <=> FatIsHeld)
  BY <1>1 DEF FatIsHeld
<1>4. (Stage2IsHeld' <=> Stage2IsHeld) /\ (Stage2Begins' <=> Stage2Begins)
  <2>1. disk' = disk
    OBVIOUS
  <2> QED BY <1>1, <2>1 DEF Stage2IsHeld, Stage2Begins, Sector
<1>5. (KernelIsLoaded' <=> KernelIsLoaded) /\ (KernelIsCopied' <=> KernelIsCopied)
  BY <1>2 DEF KernelIsLoaded, KernelIsCopied
<1>6. cluster' = cluster /\ segment' = segment => (KernelComes' <=> KernelComes)
  BY <1>2 DEF KernelComes
<1> QED BY <1>3, <1>4, <1>5, <1>6

LEMMA LoaderKeeps ==
  ASSUME LoaderInv, disk' = disk, bios' = bios,
         \/ phase' = "halted" /\ DOMAIN memory' \subseteq Int
         \/ memory' = memory /\ phase' = phase /\ cluster' = cluster /\ segment' = segment
  PROVE  LoaderInv'
<1>1. CASE phase' = "halted" /\ DOMAIN memory' \subseteq Int
  BY <1>1, SMT DEF LoaderInv
<1>2. CASE memory' = memory /\ phase' = phase /\ cluster' = cluster /\ segment' = segment
  BY <1>2, MemoryStays DEF LoaderInv
<1> QED BY <1>1, <1>2

\* Where the pieces lie.
LEMMA Addresses ==
  /\ BootSector \in Int /\ RootDirBuffer \in Int /\ Stage2Address \in Int /\ FatAddress \in Int
  /\ Stage2Address + 4096 <= BootSector /\ BootSector + 512 <= RootDirBuffer
  /\ RootDirBuffer + 409600 = FatAddress
  /\ bpbSectorsPerCluster * bpbBytesPerSector = 4096
  /\ bpbBytesPerSector = 512 /\ bpbSectorsPerCluster = 8 /\ bpbSectorsPerFAT = 16
  /\ bpbReservedSectors = 1
  /\ MemMapAddress \in Int /\ EntrySize = 24 /\ Stage2Length \in Int /\ 0 < Stage2Length
  /\ Stage2Address + Stage2Length <= MemMapAddress /\ Stage2Length <= 4096
BY Stage2Assumption, SMT DEF MemMapAddress, EntrySize, BootSector, RootDirBuffer, Stage2Address, FatAddress, bpbBytesPerSector,
           bpbSectorsPerCluster, bpbSectorsPerFAT, bpbReservedSectors

LEMMA LoadsBeforeFiles ==
  ASSUME LoaderInv, load_root_dir \/ load_fat
  PROVE  LoaderInv'
<1>1. /\ disk \in Disks /\ bios \in Bioses /\ DOMAIN memory \subseteq Int /\ Holds(BootSector, 0, 1)
  BY DEF LoaderInv, load_root_dir, load_fat
<1>2. CASE load_root_dir
  <2>1. /\ phase' = "FAT" /\ disk' = disk /\ bios' = bios
        /\ memory' = Loaded(RootDirBuffer, 17, 1)
    BY <1>2, VolumeNumbers DEF load_root_dir
  <2>2. DOMAIN memory' \subseteq Int /\ Holds(BootSector, 0, 1)'
    BY <1>1, <2>1, LoadedHolds, LoadedKeeps, Addresses
  <2> QED BY <1>1, <2>1, <2>2 DEF LoaderInv
<1>3. CASE load_fat
  <2>1. /\ phase' = "find_stage2" /\ disk' = disk /\ bios' = bios
        /\ memory' = Loaded(FatAddress, bpbReservedSectors, bpbSectorsPerFAT)
    BY <1>3 DEF load_fat, NextFile, Find
  <2>2. DOMAIN memory' \subseteq Int /\ Holds(BootSector, 0, 1)'
    BY <1>1, <2>1, LoadedHolds, LoadedKeeps, Addresses
  <2>3. FatIsHeld'
    BY <2>1, LoadedHolds, LoadedKeeps, Addresses DEF FatIsHeld
  <2> QED BY <1>1, <2>1, <2>2, <2>3 DEF LoaderInv
<1> QED BY <1>2, <1>3

LEMMA FindKeeps ==
  ASSUME KernelFits, LoaderInv, NEW f \in Files, find_file(f)
  PROVE  LoaderInv'
<1>1. /\ memory' = memory /\ disk' = disk /\ bios' = bios /\ phase = Find[f] /\ phase' = f
      /\ cluster' = disk.start[f] /\ segment' = 0
  BY DEF find_file
<1>2. CASE f = "stage2"
  <2>1. phase = "find_stage2" /\ phase' = "stage2" /\ cluster' = disk.start.stage2
    BY <1>1, <1>2 DEF Find
  <2> QED BY <1>1, <2>1, MemoryStays DEF LoaderInv
<1>3. CASE f = "kernel"
  <2>1. phase = "find_kernel" /\ phase' = "kernel" /\ cluster' = disk.start.kernel
    BY <1>1, <1>3 DEF Find
  <2>2. /\ Len(disk.kernel) \in Nat /\ 1 <= Len(disk.kernel)
        /\ disk.start.kernel = disk.kernel[1]
    BY DiskIsSound DEF LoaderInv
  <2>3. KernelComes'
    <3>1. 1 \in 1 .. Len(disk.kernel') /\ cluster' = disk.kernel[1]' /\ segment' = (1 - 1) * 256
      BY <1>1, <2>1, <2>2
    <3>2. KernelIsAt(1 - 1, RootDirBuffer)'
      BY DEF KernelIsAt
    <3> QED BY <3>1, <3>2 DEF KernelComes
  <2> QED BY <1>1, <2>1, <2>3, MemoryStays DEF LoaderInv
<1> QED BY <1>2, <1>3 DEF Files

\* The FAT is read where it was loaded.
LEMMA FatIsRead ==
  ASSUME FatIsHeld', NEW c \in DOMAIN disk.fat
  PROVE  FatEntries(c) = {disk.fat[c]}
BY DEF FatEntries, FatIsHeld

LEMMA Stage2Loads ==
  ASSUME KernelFits, LoaderInv, load_cluster("stage2")
  PROVE  LoaderInv'
<1>1. /\ phase = "stage2" /\ disk' = disk /\ bios' = bios
      /\ memory' = Loaded(segment * 16 + Stage2Address, SectorOf(cluster), bpbSectorsPerCluster)
      /\ \E entry \in FatEntries(cluster) :
           \/ EndsChain(entry) /\ phase' = NextFile["stage2"]
           \/ ~EndsChain(entry)
  BY DEF load_cluster, BufferOffset
<1>2. /\ disk \in Disks /\ bios \in Bioses /\ DOMAIN memory \subseteq Int
      /\ Holds(BootSector, 0, 1) /\ FatIsHeld /\ cluster = disk.start.stage2 /\ segment = 0
  BY <1>1 DEF LoaderInv
<1>3. /\ disk.start.stage2 \in Clusters /\ disk.start.stage2 \in DOMAIN disk.fat
      /\ EndsChain(disk.fat[disk.start.stage2])
  BY <1>2, DiskIsSound
<1> PICK s : s = Sector(disk.start.stage2)
  OBVIOUS
<1>4. memory' = Loaded(Stage2Address, s, bpbSectorsPerCluster)
  <2>1. segment * 16 + Stage2Address = Stage2Address
    BY <1>2, Addresses, SMT
  <2>2. SectorOf(cluster) = s
    BY <1>2, <1>3, VolumeNumbers DEF Sector
  <2> QED BY <1>1, <2>1, <2>2
<1>5. DOMAIN memory' \subseteq Int /\ Holds(Stage2Address, s, bpbSectorsPerCluster)'
  BY <1>2, <1>4, LoadedHolds, LoadedKeeps, Addresses, SMT
<1>6. Stage2IsHeld'
  BY <1>1, <1>5 DEF Stage2IsHeld, Sector
<1>7. Holds(BootSector, 0, 1)'
  BY <1>2, <1>4, LoadedHolds, LoadedKeeps, Addresses, SMT
<1>8. FatIsHeld'
  BY <1>2, <1>4, LoadedHolds, LoadedKeeps, Addresses, SMT DEF FatIsHeld
<1>9. phase' = "find_kernel"
  BY <1>1, <1>2, <1>3, <1>8, FatIsRead DEF NextFile, Find
<1> QED BY <1>1, <1>2, <1>5, <1>6, <1>7, <1>8, <1>9 DEF LoaderInv

\* The next cluster of the kernel goes behind the last one, below the FAT.
LEMMA KernelLoads ==
  ASSUME KernelFits, LoaderInv, load_cluster("kernel")
  PROVE  LoaderInv'
<1>1. /\ phase = "kernel" /\ disk' = disk /\ bios' = bios
      /\ memory' = Loaded(segment * 16 + RootDirBuffer, SectorOf(cluster), bpbSectorsPerCluster)
      /\ \E entry \in FatEntries(cluster) :
           \/ EndsChain(entry) /\ phase' = NextFile["kernel"]
           \/ /\ ~EndsChain(entry)
              /\ cluster' = entry /\ segment' = (segment + SegmentStep) % Word /\ phase' = phase
  BY DEF load_cluster, BufferOffset
<1>2. /\ disk \in Disks /\ bios \in Bioses /\ DOMAIN memory \subseteq Int
      /\ Holds(BootSector, 0, 1) /\ FatIsHeld /\ Stage2IsHeld
  BY <1>1 DEF LoaderInv
<1> DEFINE n == Len(disk.kernel)
<1>3. PICK i \in 1 .. n : /\ cluster = disk.kernel[i] /\ segment = (i - 1) * 256
                          /\ KernelIsAt(i - 1, RootDirBuffer)
  BY <1>1 DEF LoaderInv, KernelComes
<1>4. /\ n \in Nat /\ n <= 100 /\ i \in Int /\ 1 <= i /\ i <= n
      /\ cluster \in Clusters /\ cluster \in DOMAIN disk.fat
      /\ i = n => EndsChain(disk.fat[cluster])
      /\ i # n => disk.fat[cluster] = disk.kernel[i + 1] /\ disk.kernel[i + 1] \in Clusters
  <2>1. n \in Nat /\ n <= 100
    BY <1>2, DiskIsSound
  <2>2. i \in 1 .. n /\ (i # n => i + 1 \in 1 .. n)
    BY <2>1
  <2> QED BY <1>2, <1>3, <2>1, <2>2, DiskIsSound
<1> HIDE DEF n
<1> PICK a : a = RootDirBuffer + (i - 1) * 4096
  OBVIOUS
<1> PICK s : s = Sector(disk.kernel[i])
  OBVIOUS
<1>5. /\ a \in Int /\ BootSector + 512 <= a /\ a + 4096 <= FatAddress
      /\ \A j \in 1 .. i - 1 : RootDirBuffer + (j - 1) * 4096 + 4096 <= a
                               /\ RootDirBuffer + (j - 1) * 4096 \in Int
  BY <1>4, Addresses, SMT
<1>6. memory' = Loaded(a, s, bpbSectorsPerCluster)
  <2>1. segment * 16 + RootDirBuffer = a
    BY <1>3, <1>4, Addresses, SMT
  <2>2. SectorOf(cluster) = s
    BY <1>3, <1>4, VolumeNumbers DEF Sector
  <2> QED BY <1>1, <2>1, <2>2
<1>7. /\ DOMAIN memory' \subseteq Int /\ Holds(a, s, bpbSectorsPerCluster)'
      /\ Holds(BootSector, 0, 1)' /\ FatIsHeld'
  BY <1>2, <1>5, <1>6, LoadedHolds, LoadedKeeps, Addresses, SMT DEF FatIsHeld
<1>8. Stage2IsHeld'
  <2> PICK r : r = Sector(disk.start.stage2)
    OBVIOUS
  <2>1. Holds(Stage2Address, r, bpbSectorsPerCluster)
    BY <1>2 DEF Stage2IsHeld
  <2>2. /\ Stage2Address + bpbSectorsPerCluster * bpbBytesPerSector <= a
        /\ Stage2Address \in Int /\ bpbSectorsPerCluster \in Nat /\ bpbSectorsPerCluster > 0
    BY <1>5, Addresses, SMT
  <2>3. PICK x, m : x = Stage2Address /\ m = bpbSectorsPerCluster
    OBVIOUS
  <2>4. Holds(x, r, m)'
    BY <1>5, <1>6, <2>1, <2>2, <2>3, LoadedKeeps
  <2> QED BY <1>1, <2>3, <2>4 DEF Stage2IsHeld, Sector
<1>9. KernelIsAt(i, RootDirBuffer)'
  <2> SUFFICES ASSUME NEW j \in 1 .. i
               PROVE  Holds(RootDirBuffer + (j - 1) * 4096, Sector(disk.kernel[j]), bpbSectorsPerCluster)'
    BY DEF KernelIsAt
  <2> PICK x : x = RootDirBuffer + (j - 1) * 4096
    OBVIOUS
  <2> PICK r : r = Sector(disk.kernel[j])
    OBVIOUS
  <2>1. Holds(x, r, bpbSectorsPerCluster)'
    <3>1. CASE j = i
      BY <1>7, <3>1
    <3>2. CASE j # i
      <4>1. j \in 1 .. i - 1
        BY <1>4, <3>2
      <4>2. Holds(x, r, bpbSectorsPerCluster)
        BY <1>3, <4>1 DEF KernelIsAt
      <4>3. x \in Int /\ x + 4096 <= a
        BY <1>5, <4>1
      <4>4. x + bpbSectorsPerCluster * bpbBytesPerSector <= a
        BY <4>3, Addresses
      <4>5. bpbSectorsPerCluster \in Nat /\ bpbSectorsPerCluster > 0
        BY Addresses
      <4> QED BY <1>5, <1>6, <4>2, <4>3, <4>4, <4>5, LoadedKeeps
    <3> QED BY <3>1, <3>2
  <2> QED BY <1>1, <2>1
<1>10. FatEntries(cluster) = {disk.fat[cluster]}
  BY <1>4, <1>7, FatIsRead
<1>11. CASE i = n
  <2>1. phase' = "memory_map"
    BY <1>1, <1>4, <1>10, <1>11 DEF NextFile
  <2>2. KernelIsLoaded'
    BY <1>1, <1>9, <1>11 DEF KernelIsLoaded, n
  <2>3. Stage2Begins'
    <3>1. disk' = disk /\ bpbSectorsPerCluster * bpbBytesPerSector = 4096
      BY <1>1, Addresses
    <3>2. /\ Stage2Address \in DOMAIN memory'
          /\ memory'[Stage2Address] = [size |-> 4096, sector |-> Sector(disk.start.stage2),
                                       count |-> bpbSectorsPerCluster]
      BY <1>8, <3>1 DEF Stage2IsHeld, Holds, Piece, Sector
    <3> QED BY <3>1, <3>2, Addresses DEF Stage2Begins, Sector
  <2> QED BY <1>1, <1>2, <1>7, <2>1, <2>2, <2>3 DEF LoaderInv
<1>12. CASE i # n
  <2>1. ~EndsChain(disk.fat[cluster])
    BY <1>4, <1>12, ClusterNumbers, SMT DEF EndsChain
  <2>2. /\ phase' = "kernel" /\ cluster' = disk.kernel[i + 1]
        /\ segment' = (segment + SegmentStep) % Word
    BY <1>1, <1>4, <1>10, <1>12, <2>1
  <2>3. segment' = ((i + 1) - 1) * 256
    <3> DEFINE y == (i - 1) * 256 + 256
               m == 65536
    <3>1. y \in Int /\ 0 <= y /\ y <= 65535 /\ y = ((i + 1) - 1) * 256
      BY <1>4, SMT
    <3>2. m \in Nat \ {0} /\ m - 1 = 65535
      BY SMT
    <3>3. segment' = y % m
      BY <1>3, <2>2, VolumeNumbers DEF Word
    <3> HIDE DEF y, m
    <3>4. y \in 0 .. m - 1
      BY <3>1, <3>2
    <3>5. y % m = y
      BY ONLY <3>2, <3>4, ModSmall
    <3> QED BY <3>1, <3>3, <3>5
  <2>4. KernelComes'
    <3>1. i + 1 \in 1 .. Len(disk'.kernel)
      BY <1>1, <1>4, <1>12 DEF n
    <3>2. (i + 1) - 1 = i
      BY <1>4
    <3>3. KernelIsAt((i + 1) - 1, RootDirBuffer)'
      BY <1>9, <3>2
    <3> QED BY <1>1, <2>2, <2>3, <3>1, <3>3 DEF KernelComes
  <2> QED BY <1>1, <1>2, <1>7, <1>8, <2>2, <2>4 DEF LoaderInv
<1> QED BY <1>11, <1>12

\* Each cluster of the kernel is moved; nothing below is touched.
LEMMA CopyKeeps ==
  ASSUME KernelFits, LoaderInv, copy_kernel
  PROVE  LoaderInv'
<1> DEFINE copied == {x \in DOMAIN memory :
                        RootDirBuffer <= x /\ x + memory[x].size <= RootDirBuffer + KernelMax}
           moved == {x - RootDirBuffer + NewKernelAddress : x \in copied}
           n == Len(disk.kernel)
<1>1. /\ phase = "copy" /\ phase' = "entered" /\ disk' = disk /\ bios' = bios
      /\ memory' = [x \in DOMAIN memory \cup moved |->
                      IF x \in moved THEN memory[x - NewKernelAddress + RootDirBuffer]
                      ELSE memory[x]]
  BY DEF copy_kernel
<1>2. /\ disk \in Disks /\ bios \in Bioses /\ DOMAIN memory \subseteq Int
      /\ Stage2Begins /\ KernelIsAt(n, RootDirBuffer)
  BY <1>1 DEF LoaderInv, KernelIsLoaded
<1>3. n \in Nat /\ n <= 100
  BY <1>2, DiskIsSound
<1>4. NewKernelAddress \in Int /\ RootDirBuffer \in Int /\ RootDirBuffer < NewKernelAddress
      /\ KernelMax = 409600
  BY SMT DEF NewKernelAddress, RootDirBuffer, KernelMax
<1>5. \A y \in moved : y \in Int /\ NewKernelAddress <= y
  BY <1>2, <1>4
<1>8. Stage2Begins'
  <2>1. Stage2Address \in DOMAIN memory /\ Stage2Address \notin moved
    BY <1>2, <1>4, <1>5, Addresses DEF Stage2Begins
  <2> HIDE DEF moved
  <2>2. Stage2Address \in DOMAIN memory' /\ memory'[Stage2Address] = memory[Stage2Address]
    BY <1>1, <2>1
  <2> QED BY <1>1, <1>2, <2>2 DEF Stage2Begins, Sector
<1>9. ASSUME NEW j \in 1 .. n
      PROVE  Holds(NewKernelAddress + (j - 1) * 4096, Sector(disk.kernel[j]), bpbSectorsPerCluster)'
  <2> PICK x : x = RootDirBuffer + (j - 1) * 4096
    OBVIOUS
  <2> PICK y : y = NewKernelAddress + (j - 1) * 4096
    OBVIOUS
  <2> PICK r : r = Sector(disk.kernel[j])
    OBVIOUS
  <2>1. x \in DOMAIN memory /\ memory[x] = Piece(r, bpbSectorsPerCluster)
    BY <1>2 DEF KernelIsAt, Holds
  <2>2. memory[x].size = 4096
    BY <2>1, Addresses DEF Piece
  <2> HIDE DEF n
  <2>3. /\ x \in Int /\ y \in Int /\ RootDirBuffer <= x /\ x + 4096 <= RootDirBuffer + KernelMax
        /\ x - RootDirBuffer + NewKernelAddress = y /\ y - NewKernelAddress + RootDirBuffer = x
    BY <1>3, <1>4, SMT
  <2>4. y \in moved
    BY <2>1, <2>2, <2>3
  <2> HIDE DEF moved
  <2>5. y \in DOMAIN memory' /\ memory'[y] = Piece(r, bpbSectorsPerCluster)
    BY <1>1, <2>1, <2>3, <2>4
  <2>6. Holds(y, r, bpbSectorsPerCluster)'
    BY <2>5 DEF Holds, Piece
  <2> QED BY <1>1, <2>6
<1>10. DOMAIN memory' \subseteq Int
  <2> HIDE DEF moved
  <2> QED BY <1>1, <1>2, <1>5
<1>11. KernelIsCopied'
  BY <1>1, <1>9 DEF KernelIsCopied, KernelIsAt
<1> QED BY <1>1, <1>2, <1>8, <1>10, <1>11 DEF LoaderInv

\* The list of the BIOS lies between stage 2 and the kernel.
LEMMA AskingKeeps ==
  ASSUME KernelFits, LoaderInv, MapInv, phase = "memory_map", memory' = Asking,
         phase' \in {"memory_map", "copy", "halted"}, disk' = disk, bios' = bios
  PROVE  LoaderInv'
<1> PICK a : a = MemMapAddress + EntrySize * Len(mmap)
  OBVIOUS
<1>1. /\ a \in Int /\ MemMapAddress <= a /\ a + 24 <= RootDirBuffer
  <2>1. PICK k, n : k = Len(mmap) /\ n = Len(bios.report)
    OBVIOUS
  <2>2. k \in Nat /\ n \in Nat /\ k <= n /\ MemMapAddress + EntrySize * (n + 1) <= RootDirBuffer
    BY <2>1, MapFits, ReportFits
  <2> QED BY <2>1, <2>2, Addresses
<1>2. memory' = Overwritten(a, 24)
  BY Addresses DEF Asking
<1>3. /\ disk \in Disks /\ bios \in Bioses /\ DOMAIN memory \subseteq Int
      /\ Stage2Begins /\ KernelIsLoaded
  BY DEF LoaderInv
<1>4. DOMAIN memory' \subseteq Int
  BY <1>2, <1>3 DEF Overwritten
<1>5. Stage2Begins'
  <2> PICK r : r = Sector(disk.start.stage2)
    OBVIOUS
  <2>1. PICK left \in Int :
          /\ left >= Stage2Length
          /\ memory[Stage2Address] = [size |-> left, sector |-> r, count |-> bpbSectorsPerCluster]
    BY <1>3 DEF Stage2Begins
  <2> DEFINE now == IF a < Stage2Address + left THEN a - Stage2Address ELSE left
  <2>2. now \in Int /\ now >= Stage2Length /\ Stage2Address < a
    BY <1>1, <2>1, Addresses
  <2>3. Stage2Address \in DOMAIN memory
    BY <1>3 DEF Stage2Begins
  <2>4. /\ Stage2Address \in DOMAIN memory'
        /\ memory'[Stage2Address] = [size |-> now, sector |-> r, count |-> bpbSectorsPerCluster]
    BY <1>2, <2>1, <2>2, <2>3 DEF Overwritten
  <2> HIDE DEF now
  <2> QED BY <2>2, <2>4 DEF Stage2Begins, Sector
<1>6. KernelIsLoaded'
  <2> DEFINE n == Len(disk.kernel)
  <2>1. n \in Nat /\ n <= 100
    BY <1>3, DiskIsSound
  <2>2. KernelIsAt(n, RootDirBuffer)
    BY <1>3 DEF KernelIsLoaded
  <2> HIDE DEF n
  <2>3. ASSUME NEW j \in 1 .. n
        PROVE  Holds(RootDirBuffer + (j - 1) * 4096, Sector(disk.kernel[j]), bpbSectorsPerCluster)'
    <3> PICK x : x = RootDirBuffer + (j - 1) * 4096
      OBVIOUS
    <3> PICK r : r = Sector(disk.kernel[j])
      OBVIOUS
    <3>1. Holds(x, r, bpbSectorsPerCluster)
      BY <2>2 DEF KernelIsAt
    <3>2. x \in Int /\ a + 24 <= x
      BY <1>1, <2>1, Addresses
    <3>3. bpbSectorsPerCluster \in Nat /\ bpbSectorsPerCluster > 0
      BY Addresses
    <3>4. x \in DOMAIN memory' /\ memory'[x] = Piece(r, bpbSectorsPerCluster)
      BY <1>1, <1>2, <3>1, <3>2, <3>3, OverwrittenKeeps
    <3> QED BY <3>4 DEF Holds, Piece, Sector
  <2>4. n = Len(disk'.kernel) /\ disk' = disk
    BY DEF n
  <2> QED BY <2>3, <2>4 DEF KernelIsLoaded, KernelIsAt, Sector
<1> QED BY <1>3, <1>4, <1>5, <1>6 DEF LoaderInv

LEMMA LoaderStep ==
  ASSUME KernelFits, LoaderInv, MapInv, [WholeNext]_<<bootVars, loaderVars>>
  PROVE  LoaderInv'
<1>1. CASE load_root_dir \/ load_fat
  BY <1>1, LoadsBeforeFiles
<1>2. ASSUME NEW f \in Files, find_file(f)  PROVE LoaderInv'
  BY <1>2, FindKeeps
<1>3. ASSUME NEW f \in Files, load_cluster(f)  PROVE LoaderInv'
  BY <1>3, Stage2Loads, KernelLoads DEF Files
<1>4. ASSUME (\E f \in Files : no_file(f)) \/ load_sector_error
      PROVE  LoaderInv'
  <2>1. phase' = "halted" /\ memory' = memory /\ disk' = disk /\ bios' = bios
    BY <1>4 DEF no_file, load_sector_error, Halts
  <2> QED BY <2>1, LoaderKeeps DEF LoaderInv
<1>5. CASE e820_failed \/ e820_entry \/ e820_carry
  <2>1. /\ phase = "memory_map" /\ phase' \in {"memory_map", "copy", "halted"}
        /\ memory' = Asking /\ disk' = disk /\ bios' = bios
    BY <1>5 DEF e820_failed, e820_entry, e820_carry
  <2> QED BY <2>1, AskingKeeps
<1>6. CASE copy_kernel
  BY <1>6, CopyKeeps
<1>7. CASE UNCHANGED loaderVars
  BY <1>7, LoaderKeeps DEF loaderVars
<1> QED BY <1>1, <1>2, <1>3, <1>4, <1>5, <1>6, <1>7 DEF WholeNext, LoaderNext

\* On every volume whose kernel has at most the 100 clusters that are copied,
\* each piece of code is in place when it runs: the boot sector while it
\* loads, stage 2, and the kernel, cluster by cluster at its linked address.
THEOREM CodeIsAlwaysInPlace == KernelFits => (WholeSpec => []CodeIsInPlace)
<1> SUFFICES ASSUME KernelFits PROVE WholeSpec => []CodeIsInPlace
  OBVIOUS
<1>1. WholeInit => LoaderInv
  BY LoaderInitially DEF WholeInit
<1>2. LoaderInv /\ MapInv /\ [WholeNext]_<<bootVars, loaderVars>> => LoaderInv'
  BY LoaderStep
<1>3. LoaderInv => CodeIsInPlace
  <2> SUFFICES ASSUME LoaderInv PROVE CodeIsInPlace
    OBVIOUS
  <2>1. phase \in Loading => Holds(BootSector, 0, 1)
    BY DEF LoaderInv, Loading, Find, Files
  <2>2. phase \in {"memory_map", "copy", "entered"} =>
          Begins(Stage2Address, DataStart + (disk.start.stage2 - 2) * bpbSectorsPerCluster,
                 bpbSectorsPerCluster, Stage2Length)
    <3> SUFFICES ASSUME Stage2Begins
                 PROVE  Begins(Stage2Address, Sector(disk.start.stage2), bpbSectorsPerCluster,
                               Stage2Length)
      BY DEF LoaderInv, Sector
    <3>1. PICK left \in Int :
            /\ left >= Stage2Length
            /\ memory[Stage2Address] = [size |-> left, sector |-> Sector(disk.start.stage2),
                                       count |-> bpbSectorsPerCluster]
      BY DEF Stage2Begins
    <3> PICK piece : piece = memory[Stage2Address]
      OBVIOUS
    <3>2. /\ piece.size >= Stage2Length /\ piece.sector = Sector(disk.start.stage2)
          /\ piece.count = bpbSectorsPerCluster
      BY <3>1
    <3>3. Stage2Address \in DOMAIN memory
      BY DEF Stage2Begins
    <3> QED BY <3>2, <3>3 DEF Begins
  <2>3. ASSUME phase = "entered", NEW i \in DOMAIN disk.kernel
        PROVE  Holds(Translate(KernelPage + i - 1),
                     DataStart + (disk.kernel[i] - 2) * bpbSectorsPerCluster, bpbSectorsPerCluster)
    <3> DEFINE n == Len(disk.kernel)
    <3>1. /\ n \in Nat /\ n <= 100 /\ i \in 1 .. n
          /\ KernelIsAt(n, NewKernelAddress)
      <4>1. disk \in Disks /\ KernelIsAt(n, NewKernelAddress)
        BY <2>3 DEF LoaderInv, KernelIsCopied
      <4>2. disk.kernel \in Seq(Clusters)
        BY <4>1, VolumeAssumption
      <4> QED BY <4>1, <4>2, DiskIsSound, LenProperties
    <3> HIDE DEF n
    <3>2. Translate(KernelPage + i - 1) = NewKernelAddress + (i - 1) * 4096
      <4>1. (KernelPage + i - 1) \div 1024 = 768 /\ (KernelPage + i - 1) % 1024 = i - 1
        BY <3>1, SMT DEF KernelPage
      <4>2. PageDirectory(768) = [j \in 0 .. 1023 |-> NewKernelAddress + j * PageSize]
        BY DEF PageDirectory
      <4>3. i - 1 \in 0 .. 1023
        BY <3>1, SMT
      <4> QED BY <4>1, <4>2, <4>3 DEF Translate, PageSize
    <3> QED BY <3>1, <3>2 DEF KernelIsAt, Sector
  <2> QED BY <2>1, <2>2, <2>3 DEF CodeIsInPlace
<1> QED BY <1>1, <1>2, <1>3, MapAlways, PTL DEF WholeSpec

=============================================================================
