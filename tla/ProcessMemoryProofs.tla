------------------------ MODULE ProcessMemoryProofs ------------------------
(***************************************************************************)
(* Proofs about ProcessMemory, for any processes, images, page tables and  *)
(* amount of memory: each process stands on blocks of its own, and every   *)
(* block is accounted for.                                                 *)
(*                                                                         *)
(* process_destroy takes addresses for page indices, and clears the bit of *)
(* whatever block that leads to (Stray).  The theorems hold for any        *)
(* machine, up to and including the first exit that hits a block in use,   *)
(* where the model ends, and say that no other block can be hit.           *)
(***************************************************************************)
EXTENDS ProcessMemory, ArithLemmas, SequenceTheorems

\* setup_process finds zeros in the entries of segs that are not assigned.
LeftoverIsEmpty == \A seg \in Leftover : seg.sizeInFile = 0 /\ seg.sizeInMemory = 0

\* What is behind the slots of p.
Mapped(p) == {space[p][s] : s \in DOMAIN space[p]}

\* The blocks that p keeps from others, now or after its exit.
Stands(p) ==
  IF state[p] = "none" THEN {} ELSE IF state[p] = "gone" THEN Kept(p) ELSE Holdings(p)

States == {"none", "added", "set up", "gone"}

\* TypeOK, with the ranges of the variables that it does not mention.
Types ==
  /\ TypeOK
  /\ DOMAIN space = Users
  /\ DOMAIN regions = Users
  /\ DOMAIN stack = Users
  /\ \A p \in Users : regions[p] \subseteq {b * PageSize : b \in Usable}

\* What is behind the pages of p's stack.
StackBlocks(p) == {space[p][<<"page", v>>] : v \in PagesIn(StackPages)}

\* A slot has a block of its own, other than the directory's; of a process that
\* was set up, the stack is mapped, and its blocks are the ones recorded.
Regular(p) ==
  /\ state[p] \in {"set up", "gone"} =>
       /\ \A v \in PagesIn(StackPages) : <<"page", v>> \in DOMAIN space[p]
       /\ stack[p] = StackBlocks(p)
  /\ state[p] \in {"added", "set up"} =>
       /\ pdPhysical[p] \in Usable \ Mapped(p)
       /\ \A s, t \in DOMAIN space[p] : space[p][s] = space[p][t] => s = t
  /\ state[p] = "none" => DOMAIN space[p] = {}

OneByOne == \A p \in Users : Regular(p)

\* Of two processes, only a stray block that one of them has left marked at its
\* exit can have become the other's.
Disjoint ==
  \A p, q \in Users : p # q =>
    /\ Stands(p) \cap Stands(q) \subseteq Stray
    /\ p \in Alive /\ q \in Alive => Stands(p) \cap Stands(q) = {}

\* What is set, and what must be.
Accounted ==
  /\ used \subseteq Reserved \cup UNION {Stands(p) : p \in Users}
  /\ (Reserved \cup UNION {Stands(p) : p \in Users}) \ Stray \subseteq used

Inv == Types /\ OneByOne /\ Disjoint /\ Accounted

\* What a process was added with, and what has become of it.
LoadInv ==
  /\ state \in [Users -> States] /\ DOMAIN binary = Users
  /\ DOMAIN space = Users /\ DOMAIN memory = Users
  /\ \A p \in Users : state[p] # "none" => binary[p] \in Binaries
  /\ \A p \in Users : state[p] = "set up" => PartsAreLoaded(p)

-----------------------------------------------------------------------------
(* What is free.                                                           *)

LEMMA ConstantTypes ==
  /\ Idle \notin Users
  /\ PageSize \in Nat \ {0} /\ TableSize \in Nat \ {0}
  /\ MaxBlocks \in Nat \ {0} /\ Blocks \in Nat /\ MaxBlocks <= Blocks
  /\ Usable \subseteq 1 .. MaxBlocks - 1
  /\ StackPages \in Nat \X Nat /\ Requests \subseteq Nat \X Nat
BY MemoryAssumption, RunsAssumption

LEMMA BlockNumbers ==
  /\ 0 \notin Usable
  /\ Usable \subseteq 1 .. MaxBlocks - 1
  /\ 1 .. MaxBlocks - 1 \subseteq 0 .. MaxBlocks - 1
  /\ \A b \in 0 .. MaxBlocks - 1 : b # 0 => b \in 1 .. MaxBlocks - 1
<1>1. MaxBlocks \in Nat /\ Usable \subseteq 1 .. MaxBlocks - 1
  BY ConstantTypes
<1>2. \A b \in 1 .. MaxBlocks - 1 : b # 0 /\ b \in 0 .. MaxBlocks - 1
  BY <1>1
<1>3. \A b \in 0 .. MaxBlocks - 1 : b # 0 => b \in 1 .. MaxBlocks - 1
  BY <1>1
<1> QED BY <1>1, <1>2, <1>3

\* The allocator's answers are clear blocks, never 0, and never one twice.
LEMMA AnswersAreFree ==
  /\ Available \in Seq((0 .. MaxBlocks - 1) \ used) /\ Len(Available) \in Nat
  /\ \A i \in 1 .. Len(Available) : Available[i] \in (0 .. MaxBlocks - 1) \ used
  /\ \A i, j \in 1 .. Len(Available) : Available[i] = Available[j] => i = j
<1> DEFINE clear == (0 .. MaxBlocks - 1) \ used
           n == Cardinality(clear)
           free == [i \in 1 .. n |-> CHOOSE b \in clear : Place(clear, b) = i]
<1>1. IsFiniteSet(clear) /\ n \in Nat /\ clear \in SUBSET Int
  <2>1. MaxBlocks - 1 \in Int /\ 0 \in Int
    BY ConstantTypes
  <2>2. IsFiniteSet(0 .. MaxBlocks - 1)
    BY <2>1, FS_Interval
  <2>3. IsFiniteSet(clear)
    BY <2>2, FS_Difference
  <2>4. clear \in SUBSET Int
    BY <2>1
  <2> HIDE DEF clear
  <2> QED BY <2>3, <2>4, FS_CardinalityType
<1>2. Available = free
  BY DEF Available, Place
<1>3. ASSUME NEW i \in 1 .. n  PROVE Available[i] \in clear /\ Place(clear, Available[i]) = i
  <2>1. \E b \in clear : Place(clear, b) = i
    BY <1>1, EveryPlaceTaken
  <2> QED BY <1>2, <2>1
<1>4. Available \in Seq(clear) /\ Len(Available) = n
  <2>1. free \in [1 .. n -> clear]
    BY <1>2, <1>3
  <2> HIDE DEF free, clear, n
  <2>2. free \in Seq(clear) /\ DOMAIN free = 1 .. n
    BY <1>1, <2>1, SeqDef
  <2>3. Len(free) \in Nat /\ DOMAIN free = 1 .. Len(free)
    BY <2>2, LenProperties
  <2> QED BY <1>1, <1>2, <2>2, <2>3
<1> HIDE DEF free
<1>5. \A i, j \in 1 .. n : Available[i] = Available[j] => i = j
  BY <1>3
<1> HIDE DEF clear, n
<1>6. \A i \in 1 .. n : Available[i] \in clear
  BY <1>3
<1> QED BY <1>1, <1>4, <1>5, <1>6 DEF clear

-----------------------------------------------------------------------------
(* What vmmngr_alloc_page maps.                                            *)

Runs == Seq(Nat \X Nat)

LEMMA LooksAreFinite ==
  ASSUME NEW runs \in Runs
  PROVE  IsFiniteSet(Looks(runs)) /\ Looks(runs) \subseteq (DOMAIN runs) \X Nat
<1> DEFINE L(i) == {i} \X (0 .. 2 * runs[i][2] - 1)
           LS == {L(i) : i \in DOMAIN runs}
           f == [i \in DOMAIN runs |-> L(i)]
<1>1. DOMAIN runs = 1 .. Len(runs) /\ Len(runs) \in Nat
  BY DEF Runs
<1>2. ASSUME NEW i \in DOMAIN runs
      PROVE  runs[i][2] \in Nat /\ IsFiniteSet(L(i)) /\ L(i) \subseteq (DOMAIN runs) \X Nat
  <2>1. runs[i] \in Nat \X Nat
    BY <1>1 DEF Runs
  <2>2. 2 * runs[i][2] - 1 \in Int
    BY <2>1
  <2>3. IsFiniteSet(0 .. 2 * runs[i][2] - 1)
    BY <2>2, FS_Interval
  <2>7. IsFiniteSet({i})
    BY FS_Singleton
  <2>4. IsFiniteSet(L(i))
    BY <2>3, <2>7, FS_Product
  <2>5. 0 .. 2 * runs[i][2] - 1 \subseteq Nat
    BY <2>2
  <2>6. L(i) \subseteq (DOMAIN runs) \X Nat
    BY <2>5
  <2> QED BY <2>1, <2>4, <2>6
<1>3. IsFiniteSet(DOMAIN runs)
  BY <1>1, FS_Interval
<1>4. f \in Surjection(DOMAIN runs, LS)
  BY DEF Surjection
<1>5. IsFiniteSet(LS)
  BY <1>3, <1>4, FS_Surjection
<1>6. IsFiniteSet(UNION LS)
  BY <1>2, <1>5, FS_UNION
<1>7. UNION LS = Looks(runs)
  BY DEF Looks
<1>8. UNION LS \subseteq (DOMAIN runs) \X Nat
  BY <1>2
<1> QED BY <1>6, <1>7, <1>8

\* A look comes before another, or after it.
LEMMA LooksAreOrdered ==
  ASSUME NEW runs \in Runs, NEW u \in Looks(runs), NEW w \in Looks(runs)
  PROVE  /\ u # w => Before(u, w) \/ Before(w, u)
         /\ Before(u, w) => ~Before(w, u)
         /\ \A x \in Looks(runs) : Before(u, w) /\ Before(w, x) => Before(u, x)
<1>1. \A x \in Looks(runs) : x[1] \in Nat /\ x[2] \in Nat /\ x = <<x[1], x[2]>>
  <2>1. DOMAIN runs \subseteq Nat
    BY DEF Runs
  <2>2. \A x \in Nat \X Nat : x[1] \in Nat /\ x[2] \in Nat /\ x = <<x[1], x[2]>>
    OBVIOUS
  <2> QED BY <2>1, <2>2, LooksAreFinite
<1>2. u # w => u[1] # w[1] \/ u[2] # w[2]
  BY <1>1
<1> QED BY <1>1, <1>2 DEF Before

\* Looks that take blocks have ranks of their own.
LEMMA RanksDiffer ==
  ASSUME NEW runs \in Runs, NEW need \in SUBSET Looks(runs), NEW u \in need
  PROVE  /\ Rank(need, u) \in 1 .. Cardinality(need)
         /\ Cardinality(need) \in Nat
         /\ \A w \in need : Rank(need, u) = Rank(need, w) => u = w
<1> DEFINE upTo(w) == {x \in need : ~Before(w, x)}
<1>1. IsFiniteSet(need) /\ Cardinality(need) \in Nat
  BY LooksAreFinite, FS_Subset, FS_CardinalityType
<1>2. ASSUME NEW w \in need
      PROVE  /\ IsFiniteSet(upTo(w)) /\ Cardinality(upTo(w)) \in Nat
             /\ Cardinality(upTo(w)) <= Cardinality(need)
  BY <1>1, FS_Subset, FS_CardinalityType
<1>3. u \in upTo(u)
  BY LooksAreOrdered
<1>4. Cardinality(upTo(u)) # 0
  BY <1>2, <1>3, FS_EmptySet
<1>5. ASSUME NEW v \in need, NEW w \in need, Before(v, w)
      PROVE  Cardinality(upTo(v)) # Cardinality(upTo(w))
  <2>1. upTo(v) \in SUBSET upTo(w)
    <3>1. ASSUME NEW x \in need, ~Before(v, x), Before(w, x)  PROVE FALSE
      BY <1>5, <3>1, LooksAreOrdered
    <3> QED BY <3>1
  <2>2. w \in upTo(w)
    BY LooksAreOrdered
  <2>3. w \notin upTo(v)
    BY <1>5
  <2>4. upTo(v) # upTo(w)
    BY <2>2, <2>3
  <2>5. IsFiniteSet(upTo(w))
    BY <1>2
  <2> HIDE DEF upTo
  <2> QED BY <2>1, <2>4, <2>5, FS_Subset
<1>6. \A w \in need : Rank(need, w) = Cardinality(upTo(w))
  BY DEF Rank
<1>7. ASSUME NEW w \in need, Rank(need, u) = Rank(need, w)  PROVE u = w
  <2>1. CASE Before(u, w)
    BY <2>1, <1>5, <1>6, <1>7
  <2>2. CASE Before(w, u)
    BY <2>2, <1>5, <1>6, <1>7
  <2> QED BY <2>1, <2>2, LooksAreOrdered
<1> HIDE DEF upTo
<1> QED BY <1>1, <1>2, <1>4, <1>6, <1>7

\* Of the looks at one slot, one is the first.
LEMMA FirstLook ==
  ASSUME NEW runs \in Runs, NEW w \in Looks(runs)
  PROVE  \E u \in Looks(runs) :
           /\ SlotAt(runs, u) = SlotAt(runs, w)
           /\ \A x \in Looks(runs) : Before(x, u) => SlotAt(runs, x) # SlotAt(runs, u)
<1> DEFINE same == {u \in Looks(runs) : SlotAt(runs, u) = SlotAt(runs, w)}
           firsts == {u[1] : u \in same}
<1>1. \A x \in Looks(runs) : x[1] \in Nat /\ x[2] \in Nat /\ x = <<x[1], x[2]>>
  <2>1. DOMAIN runs \subseteq Nat
    BY DEF Runs
  <2>2. \A x \in Nat \X Nat : x[1] \in Nat /\ x[2] \in Nat /\ x = <<x[1], x[2]>>
    OBVIOUS
  <2> QED BY <2>1, <2>2, LooksAreFinite
<1>2. w \in same
  OBVIOUS
<1>3. firsts \in SUBSET Nat /\ firsts # {}
  BY <1>1, <1>2
<1>4. PICK i \in firsts : \A y \in firsts : i <= y
  BY <1>3, MinIsLeast
<1> DEFINE seconds == {u[2] : u \in {x \in same : x[1] = i}}
<1>5. seconds \in SUBSET Nat /\ seconds # {}
  BY <1>1, <1>4
<1>6. PICK j \in seconds : \A y \in seconds : j <= y
  BY <1>5, MinIsLeast
<1>7. PICK u \in same : u[1] = i /\ u[2] = j
  BY <1>6
<1>8. ASSUME NEW x \in same, Before(x, u)  PROVE FALSE
  <2>1. x[1] \in Nat /\ x[2] \in Nat /\ i \in Nat /\ j \in Nat
    BY <1>1, <1>7
  <2>2. i <= x[1]
    BY <1>4
  <2>3. x[1] = i /\ x[2] < j
    BY <1>7, <1>8, <2>1, <2>2 DEF Before
  <2>4. j <= x[2]
    BY <1>6, <2>3
  <2> QED BY <2>1, <2>3, <2>4
<1>9. SlotAt(runs, u) = SlotAt(runs, w) /\ u \in Looks(runs)
  BY <1>7
<1>10. \A x \in Looks(runs) : Before(x, u) => SlotAt(runs, x) # SlotAt(runs, u)
  BY <1>8, <1>9
<1> QED BY <1>9, <1>10

\* What was mapped stays; what is new has clear blocks, one each; and with
\* enough of them, every slot looked at is mapped.
LEMMA MappingTakesFreeBlocks ==
  ASSUME NEW p, NEW runs \in Runs
  PROVE  LET m == Mapping(p, runs)
         IN  /\ DOMAIN space[p] \subseteq DOMAIN m
             /\ \A s \in DOMAIN space[p] : m[s] = space[p][s]
             /\ \A s \in DOMAIN m \ DOMAIN space[p] :
                  /\ m[s] \in (0 .. MaxBlocks - 1) \ used
                  /\ \A t \in DOMAIN m \ DOMAIN space[p] : m[s] = m[t] => s = t
             /\ Suffices(p, runs) => \A w \in Looks(runs) : SlotAt(runs, w) \in DOMAIN m
<1> DEFINE need == Needed(p, runs)
           free == Available
           got == {w \in need : Rank(need, w) <= Len(free)}
           new == {SlotAt(runs, w) : w \in got}
           look(s) == CHOOSE w \in got : SlotAt(runs, w) = s
           old == DOMAIN space[p]
           m == [s \in old \cup new |-> IF s \in new THEN free[Rank(need, look(s))] ELSE space[p][s]]
<1>1. Mapping(p, runs) = m
  BY DEF Mapping
<1>2. need \in SUBSET Looks(runs) /\ \A w \in need : SlotAt(runs, w) \notin old
  BY DEF Needed
<1>3. ASSUME NEW s \in new  PROVE look(s) \in got /\ SlotAt(runs, look(s)) = s
  OBVIOUS
<1>4. new \cap old = {}
  BY <1>2
<1>5. ASSUME NEW w \in got  PROVE Rank(need, w) \in 1 .. Len(free)
  <2> HIDE DEF need
  <2>1. Rank(need, w) \in 1 .. Cardinality(need) /\ Cardinality(need) \in Nat
    BY <1>2, RanksDiffer
  <2>2. Len(free) \in Nat
    BY AnswersAreFree
  <2> HIDE DEF free
  <2> QED BY <2>1, <2>2
<1> HIDE DEF need, free, look
<1>6. ASSUME NEW s \in new  PROVE m[s] \in (0 .. MaxBlocks - 1) \ used
  BY <1>3, <1>5, AnswersAreFree DEF free
<1>7. ASSUME NEW s \in new, NEW t \in new, m[s] = m[t]  PROVE s = t
  <2>1. free[Rank(need, look(s))] = free[Rank(need, look(t))]
    BY <1>7
  <2>2. Rank(need, look(s)) = Rank(need, look(t))
    BY <1>3, <1>5, <2>1, AnswersAreFree DEF free
  <2>3. look(s) = look(t)
    BY <1>2, <1>3, <2>2, RanksDiffer
  <2> QED BY <1>3, <2>3
<1>8. ASSUME Suffices(p, runs), NEW w \in Looks(runs)  PROVE SlotAt(runs, w) \in old \cup new
  <2>1. CASE SlotAt(runs, w) \in old
    BY <2>1
  <2>2. CASE SlotAt(runs, w) \notin old
    <3>1. PICK u \in Looks(runs) :
             /\ SlotAt(runs, u) = SlotAt(runs, w)
             /\ \A x \in Looks(runs) : Before(x, u) => SlotAt(runs, x) # SlotAt(runs, u)
      BY FirstLook
    <3>2. u \in need
      BY <2>2, <3>1 DEF need, Needed
    <3>3. Rank(need, u) \in 1 .. Cardinality(need) /\ Cardinality(need) \in Nat
      BY <1>2, <3>2, RanksDiffer
    <3>4. Cardinality(need) <= Len(free) /\ Len(free) \in Nat
      BY <1>8, AnswersAreFree DEF Suffices, need, free
    <3>5. u \in got
      BY <3>2, <3>3, <3>4
    <3> QED BY <3>1, <3>5
  <2> QED BY <2>1, <2>2
<1>9. DOMAIN m = old \cup new /\ DOMAIN m \ old = new
  BY <1>4
<1>10. \A s \in old : m[s] = space[p][s]
  BY <1>4
<1> HIDE DEF m, new
<1> QED BY <1>1, <1>6, <1>7, <1>8, <1>9, <1>10

\* The pages of a run are looked at.
LEMMA PagesAreLookedAt ==
  ASSUME NEW runs \in Runs, NEW i \in DOMAIN runs, NEW v \in PagesIn(runs[i])
  PROVE  \E w \in Looks(runs) : SlotAt(runs, w) = <<"page", v>>
<1> DEFINE w == <<i, 2 * (v - runs[i][1]) + 1>>
<1>1. runs[i][1] \in Nat /\ runs[i][2] \in Nat /\ i \in Nat
  <2>1. runs[i] \in Nat \X Nat /\ i \in Nat
    BY DEF Runs
  <2> QED BY <2>1
<1>2. v \in Int /\ runs[i][1] <= v /\ v <= runs[i][1] + runs[i][2] - 1
  BY <1>1 DEF PagesIn
<1>3. w[2] \in 0 .. 2 * runs[i][2] - 1 /\ w[2] \div 2 = v - runs[i][1] /\ w[2] % 2 = 1
  BY <1>1, <1>2
<1>4. w \in Looks(runs)
  BY <1>3 DEF Looks
<1>5. SlotAt(runs, w) = <<"page", v>>
  BY <1>1, <1>2, <1>3 DEF SlotAt
<1> QED BY <1>4, <1>5

\* The runs that are mapped are runs of natural numbers.
LEMMA SetupRunsAreRuns ==
  ASSUME NEW image \in Binaries, NEW segs \in elf32_parse(image)
  PROVE  /\ SetupRuns(segs) \in Runs
         /\ \A i \in DOMAIN segs : i \in DOMAIN SetupRuns(segs) /\ SetupRuns(segs)[i] = PagesOf(segs[i])
         /\ \E i \in DOMAIN SetupRuns(segs) : SetupRuns(segs)[i] = StackPages
<1> DEFINE headers == image.headers
           parts == [i \in DOMAIN segs |-> PagesOf(segs[i])]
<1>1. headers \in Seq(Headers)
  BY BinariesAssumption
<1>2. DOMAIN headers = 1 .. Len(headers) /\ Len(headers) \in Nat
      /\ \A i \in DOMAIN headers : headers[i] \in Headers
  BY <1>1, LenProperties, ElementOfSeq
<1>3. ASSUME NEW h \in Headers  PROVE Segment(h) \in Segments
  BY DEF Headers, Segments, Segment
<1>4. DOMAIN segs = DOMAIN headers /\ \A i \in DOMAIN segs : segs[i] \in Segments
  <2> DEFINE load == {i \in DOMAIN headers : headers[i].type = PT_LOAD}
  <2>1. PICK rest \in [DOMAIN headers \ load -> Leftover] :
           segs = [i \in DOMAIN headers |-> IF i \in load THEN Segment(headers[i]) ELSE rest[i]]
    BY DEF elf32_parse
  <2> HIDE DEF load, headers
  <2> QED BY <1>2, <1>3, <2>1, LeftoverAssumption
<1>5. ASSUME NEW seg \in Segments  PROVE PagesOf(seg) \in Nat \X Nat
  <2>1. seg.addressInMemory \in Nat /\ seg.sizeInMemory \in Nat
    BY DEF Segments
  <2>2. PageSize \in Nat \ {0} /\ seg.sizeInMemory + 2 * PageSize - 1 \in Nat
    BY <2>1, ConstantTypes
  <2>3. \A a \in Nat : a \div PageSize \in Nat
    BY <2>2, SMTT(30)
  <2> QED BY <2>1, <2>2, <2>3 DEF PagesOf
<1> HIDE DEF headers
<1>6. parts \in Runs /\ Len(parts) = Len(headers)
  <2>1. parts \in [1 .. Len(headers) -> Nat \X Nat]
    BY <1>2, <1>4, <1>5
  <2> HIDE DEF parts
  <2>2. parts \in Seq(Nat \X Nat) /\ DOMAIN parts = 1 .. Len(headers)
    BY <1>2, <2>1, SeqDef
  <2>3. Len(parts) \in Nat /\ DOMAIN parts = 1 .. Len(parts)
    BY <2>2, LenProperties
  <2> QED BY <1>2, <2>2, <2>3 DEF Runs
<1>7. DOMAIN parts = DOMAIN segs /\ \A i \in DOMAIN segs : parts[i] = PagesOf(segs[i])
  OBVIOUS
<1>8. SetupRuns(segs) = Append(parts, StackPages)
  BY DEF SetupRuns
<1> HIDE DEF parts
<1>9. /\ SetupRuns(segs) \in Runs
      /\ Len(SetupRuns(segs)) = Len(parts) + 1
      /\ \A i \in 1 .. Len(parts) : SetupRuns(segs)[i] = parts[i]
      /\ SetupRuns(segs)[Len(parts) + 1] = StackPages
  BY <1>6, <1>8, ConstantTypes, AppendProperties DEF Runs
<1>10. DOMAIN SetupRuns(segs) = 1 .. Len(parts) + 1 /\ Len(parts) \in Nat
       /\ DOMAIN parts = 1 .. Len(parts)
  BY <1>6, <1>9, LenProperties DEF Runs
<1> QED BY <1>7, <1>9, <1>10

-----------------------------------------------------------------------------
(* Steps that take blocks, and the step that gives them back.              *)

LEMMA StandsOfAlive ==
  ASSUME NEW p \in Alive
  PROVE  p \in Users /\ state[p] \in {"added", "set up"} /\ Stands(p) = Holdings(p)
BY DEF Alive, Stands

\* As long as no block in use has been hit, clear blocks are usable, no process
\* that goes on stands on them, and if they are not stray, nobody does.
LEMMA ClearIsUnused ==
  ASSUME Accounted, ~Struck, NEW b \in (0 .. MaxBlocks - 1) \ used
  PROVE  /\ b \in Usable
         /\ \A q \in Alive : b \notin Stands(q)
         /\ b \notin Stray => \A q \in Users : b \notin Stands(q)
<1>1. Reserved \cup UNION {Holdings(q) : q \in Alive} \subseteq used
  BY Zenon DEF Struck
<1>2. b \notin Reserved /\ \A q \in Alive : b \notin Holdings(q)
  BY <1>1
<1>3. \A q \in Alive : b \notin Stands(q)
  BY <1>2, StandsOfAlive
<1>4. b \notin Stray => \A q \in Users : b \notin Stands(q)
  BY DEF Accounted
<1> QED BY <1>2, <1>3, <1>4 DEF Reserved

\* p adds clear blocks to its own.
LEMMA Grown ==
  ASSUME Disjoint, Accounted, ~Struck,
         NEW p \in Users, NEW G \in SUBSET ((0 .. MaxBlocks - 1) \ used),
         Stands(p)' = Stands(p) \cup G,
         p \in Alive \/ Stands(p) = {},
         Alive' \subseteq Alive \cup {p},
         \A q \in Users \ {p} : Stands(q)' = Stands(q),
         used' = used \cup Stands(p)'
  PROVE  Disjoint' /\ Accounted'
<1>1. /\ \A q \in Alive : G \cap Stands(q) = {}
      /\ \A q \in Users : G \cap Stands(q) \subseteq Stray
  BY ClearIsUnused
<1>2. Stands(p) \subseteq used
  <2>1. CASE p \in Alive
    <3>1. Holdings(p) \subseteq used
      BY <2>1, Zenon DEF Struck
    <3> QED BY <2>1, <3>1, StandsOfAlive
  <2>2. CASE Stands(p) = {}
    BY <2>2
  <2> QED BY <2>1, <2>2
<1>3. Disjoint'
  <2> SUFFICES ASSUME NEW q \in Users, NEW r \in Users, q # r
               PROVE  /\ Stands(q)' \cap Stands(r)' \subseteq Stray
                      /\ q \in Alive' /\ r \in Alive' => Stands(q)' \cap Stands(r)' = {}
    BY DEF Disjoint, Stray
  <2>1. /\ Stands(q) \cap Stands(r) \subseteq Stray
        /\ q \in Alive /\ r \in Alive => Stands(q) \cap Stands(r) = {}
    BY DEF Disjoint
  <2>2. CASE q = p
    <3>1. r # p /\ Stands(r)' = Stands(r) /\ Stands(q)' = Stands(p) \cup G
      BY <2>2
    <3>2. q \in Alive' /\ r \in Alive' => r \in Alive /\ (q \in Alive \/ Stands(p) = {})
      BY <2>2, <3>1
    <3> QED BY <1>1, <2>1, <2>2, <3>1, <3>2
  <2>3. CASE r = p
    <3>1. q # p /\ Stands(q)' = Stands(q) /\ Stands(r)' = Stands(p) \cup G
      BY <2>3
    <3>2. q \in Alive' /\ r \in Alive' => q \in Alive /\ (r \in Alive \/ Stands(p) = {})
      BY <2>3, <3>1
    <3> QED BY <1>1, <2>1, <2>3, <3>1, <3>2
  <2>4. CASE q # p /\ r # p
    BY <2>1, <2>4
  <2> QED BY <2>2, <2>3, <2>4
<1>4. UNION {Stands(q)' : q \in Users} = (UNION {Stands(q) : q \in Users}) \cup G
  OBVIOUS
<1>5. used' = used \cup G
  BY <1>2
<1>6. Accounted' <=>
        /\ used' \subseteq Reserved \cup (UNION {Stands(q)' : q \in Users})
        /\ (Reserved \cup (UNION {Stands(q)' : q \in Users})) \ Stray \subseteq used'
  BY DEF Accounted, Reserved, Stray
<1> DEFINE U == UNION {Stands(q) : q \in Users}
           V == UNION {Stands(q)' : q \in Users}
<1>7. used \subseteq Reserved \cup U /\ (Reserved \cup U) \ Stray \subseteq used
  BY DEF Accounted
<1>8. V = U \cup G
  BY <1>4
<1> HIDE DEF U, V
<1>9. used' \subseteq Reserved \cup V /\ (Reserved \cup V) \ Stray \subseteq used'
  BY <1>5, <1>7, <1>8
<1> QED BY <1>3, <1>6, <1>9 DEF V

\* p gives back what it stands on, but for what it keeps, and clears stray bits.
LEMMA Shrunk ==
  ASSUME Disjoint, Accounted, NEW p \in Users, NEW X,
         Stands(p)' \subseteq Stands(p),
         \A q \in Users \ {p} : Stands(q)' = Stands(q),
         Alive' \subseteq Alive,
         used' = used \ X,
         Stands(p) \ Stands(p)' \subseteq X,
         X \subseteq (Stands(p) \ Stands(p)') \cup Stray,
         \A q \in Users : Stands(q) \subseteq Usable
  PROVE  Disjoint' /\ Accounted'
<1>1. Disjoint'
  <2> SUFFICES ASSUME NEW q \in Users, NEW r \in Users, q # r
               PROVE  /\ Stands(q)' \cap Stands(r)' \subseteq Stray
                      /\ q \in Alive' /\ r \in Alive' => Stands(q)' \cap Stands(r)' = {}
    BY DEF Disjoint, Stray
  <2>1. /\ Stands(q) \cap Stands(r) \subseteq Stray
        /\ q \in Alive /\ r \in Alive => Stands(q) \cap Stands(r) = {}
    BY DEF Disjoint
  <2>2. Stands(q)' \subseteq Stands(q) /\ Stands(r)' \subseteq Stands(r)
    OBVIOUS
  <2> QED BY <2>1, <2>2
<1>2. ASSUME NEW b \in used'
      PROVE  b \in Reserved \cup (UNION {Stands(q)' : q \in Users})
  <2>1. b \in used /\ b \notin X
    OBVIOUS
  <2>2. b \in Reserved \/ \E q \in Users : b \in Stands(q)
    BY <2>1 DEF Accounted
  <2>3. ASSUME NEW q \in Users, b \in Stands(q)  PROVE b \in Stands(q)'
    BY <2>1, <2>3
  <2> QED BY <2>2, <2>3
<1>3. ASSUME NEW b \in (Reserved \cup (UNION {Stands(q)' : q \in Users})) \ Stray
      PROVE  b \in used'
  <2>1. b \in Reserved \/ \E q \in Users : b \in Stands(q)'
    OBVIOUS
  <2>2. b \in used
    BY <2>1 DEF Accounted
  <2>3. ASSUME b \in X  PROVE FALSE
    <3>1. b \in Stands(p) /\ b \notin Stands(p)'
      BY <2>3
    <3>2. b \notin Reserved
      BY <3>1 DEF Reserved
    <3>3. PICK q \in Users : b \in Stands(q)' /\ q # p
      BY <2>1, <3>1, <3>2
    <3>4. b \in Stands(q) /\ b \in Stands(p) /\ b \notin Stray
      BY <3>1, <3>3
    <3> QED BY <3>3, <3>4 DEF Disjoint
  <2> QED BY <2>2, <2>3
<1>4. Accounted' <=>
        /\ used' \subseteq Reserved \cup (UNION {Stands(q)' : q \in Users})
        /\ (Reserved \cup (UNION {Stands(q)' : q \in Users})) \ Stray \subseteq used'
  BY DEF Accounted, Reserved, Stray
<1> QED BY <1>1, <1>2, <1>3, <1>4

LEMMA StandsOnUsable ==
  ASSUME Types, OneByOne, NEW q \in Users
  PROVE  Stands(q) \subseteq Usable /\ Mapped(q) \subseteq Usable
<1>1. \A s \in DOMAIN space[q] : space[q][s] \in Usable
  BY DEF Types, TypeOK
<1>2. state[q] \in States
  BY DEF Types, TypeOK, States
<1>3. state[q] \in {"added", "set up"} => pdPhysical[q] \in Usable
  BY DEF OneByOne, Regular
<1> QED BY <1>1, <1>2, <1>3 DEF Stands, Mapped, Kept, Owed, Holdings, States

\* Pages mapped for p change nothing for the others, and are new.
LEMMA PagesAreTaken ==
  ASSUME Inv, ~Struck, NEW p \in Users, NEW runs \in Runs, Takes(p, runs),
         state[p] \in {"added", "set up"}, state'[p] \in {"added", "set up"},
         pdPhysical' = pdPhysical,
         \A q \in Users \ {p} : state'[q] = state[q] /\ stack'[q] = stack[q]
  PROVE  /\ DOMAIN space' = Users /\ used' \subseteq 0 .. MaxBlocks - 1
         /\ \A q \in Users \ {p} : space'[q] = space[q]
         /\ \A s \in DOMAIN space[p] : s \in DOMAIN space'[p] /\ space'[p][s] = space[p][s]
         /\ Mapped(p)' \subseteq Usable
         /\ pdPhysical[p] \notin Mapped(p)'
         /\ \A s, t \in DOMAIN space'[p] : space'[p][s] = space'[p][t] => s = t
         /\ Disjoint' /\ Accounted'
         /\ Suffices(p, runs) =>
              \A i \in DOMAIN runs : \A v \in PagesIn(runs[i]) : <<"page", v>> \in DOMAIN space'[p]
<1> DEFINE m == Mapping(p, runs)
           old == DOMAIN space[p]
           fresh == (0 .. MaxBlocks - 1) \ used
<1>1. DOMAIN space = Users /\ Types /\ OneByOne /\ Disjoint /\ Accounted
  BY DEF Inv, Types
<1>2. space'[p] = m /\ DOMAIN space' = Users /\ \A q \in Users \ {p} : space'[q] = space[q]
  BY <1>1 DEF Takes
<1>3. /\ old \subseteq DOMAIN m
      /\ \A s \in old : m[s] = space[p][s]
      /\ \A s \in DOMAIN m \ old :
           /\ m[s] \in fresh
           /\ \A t \in DOMAIN m \ old : m[s] = m[t] => s = t
      /\ Suffices(p, runs) => \A w \in Looks(runs) : SlotAt(runs, w) \in DOMAIN m
  BY MappingTakesFreeBlocks
<1> DEFINE G == {m[s] : s \in DOMAIN m \ old}
<1>4. Mapped(p)' = Mapped(p) \cup G
  <2> HIDE DEF m
  <2>1. Mapped(p)' = {m[s] : s \in DOMAIN m}
    BY <1>2 DEF Mapped
  <2>2. Mapped(p) = {m[s] : s \in old}
    <3>1. \A s \in old : m[s] = space[p][s]
      BY <1>3
    <3>2. \A b : (\E s \in old : b = m[s]) <=> (\E s \in old : b = space[p][s])
      BY <3>1
    <3> QED BY <3>2, Zenon DEF Mapped
  <2>3. DOMAIN m = old \cup (DOMAIN m \ old)
    BY <1>3
  <2>4. {m[s] : s \in DOMAIN m} = {m[s] : s \in old} \cup {m[s] : s \in DOMAIN m \ old}
    BY <2>3, Zenon
  <2> QED BY <2>1, <2>2, <2>4, Zenon
<1>5. G \subseteq fresh
  BY <1>3
<1>6. Stands(p) = {pdPhysical[p]} \cup Mapped(p) /\ Stands(p)' = {pdPhysical[p]} \cup Mapped(p)'
  BY DEF Stands, Holdings, Mapped
<1>7. Stands(p)' = Stands(p) \cup G
  BY <1>4, <1>6
<1>8. \A q \in Users \ {p} : Stands(q)' = Stands(q)
  <2> TAKE q \in Users \ {p}
  <2>1. state'[q] = state[q] /\ stack'[q] = stack[q] /\ space'[q] = space[q] /\ pdPhysical'[q] = pdPhysical[q]
    BY <1>2
  <2>2. Kept(q)' = Kept(q) /\ Holdings(q)' = Holdings(q)
    BY <2>1 DEF Kept, Owed, Holdings
  <2> QED BY <2>1, <2>2 DEF Stands
<1>9. Stands(p) \subseteq used
  <2>1. p \in Alive
    BY DEF Alive
  <2>2. Holdings(p) \subseteq used
    BY <2>1, Zenon DEF Struck
  <2> QED BY <2>1, <2>2, StandsOfAlive
<1>10. used' = used \cup Stands(p)'
  <2>1. used' = used \cup Mapped(p)'
    BY DEF Takes, Mapped
  <2>2. pdPhysical[p] \in used
    BY <1>6, <1>9
  <2> QED BY <1>6, <2>1, <2>2
<1>11. Disjoint' /\ Accounted'
  <2> HIDE DEF G
  <2>1. p \in Alive /\ Alive' \subseteq Alive \cup {p}
    BY DEF Alive
  <2> QED BY <1>1, <1>5, <1>7, <1>8, <1>10, <2>1, Grown
<1>12. G \subseteq Usable /\ Mapped(p) \subseteq Usable
  BY <1>1, <1>5, ClearIsUnused, StandsOnUsable
<1>13. pdPhysical[p] \notin Mapped(p)'
  <2>1. pdPhysical[p] \notin Mapped(p)
    BY <1>1 DEF OneByOne, Regular
  <2>2. pdPhysical[p] \notin G
    BY <1>5, <1>6, <1>9
  <2> QED BY <1>4, <2>1, <2>2
<1>14. ASSUME NEW s \in DOMAIN m, NEW t \in DOMAIN m, m[s] = m[t]  PROVE s = t
  <2>1. \A x \in old : m[x] \in used
    BY <1>3, <1>6, <1>9 DEF Mapped
  <2>2. CASE s \in old /\ t \in old
    BY <1>1, <1>3, <1>14, <2>2 DEF OneByOne, Regular
  <2>3. CASE s \notin old /\ t \notin old
    BY <1>3, <1>14, <2>3
  <2>4. CASE (s \in old /\ t \notin old) \/ (s \notin old /\ t \in old)
    BY <1>3, <1>14, <2>1, <2>4
  <2> QED BY <2>2, <2>3, <2>4
<1>15. used' \subseteq 0 .. MaxBlocks - 1
  <2>1. used \subseteq 0 .. MaxBlocks - 1
    BY <1>1 DEF Types, TypeOK
  <2>2. fresh \subseteq 0 .. MaxBlocks - 1
    OBVIOUS
  <2> HIDE DEF G
  <2> QED BY <1>5, <1>7, <1>9, <1>10, <2>1, <2>2
<1>16. ASSUME Suffices(p, runs), NEW i \in DOMAIN runs, NEW v \in PagesIn(runs[i])
       PROVE  <<"page", v>> \in DOMAIN m
  <2>1. PICK w \in Looks(runs) : SlotAt(runs, w) = <<"page", v>>
    BY PagesAreLookedAt
  <2> HIDE DEF m
  <2> QED BY <1>3, <1>16, <2>1
<1>17. \A s \in DOMAIN space[p] : s \in DOMAIN space'[p] /\ space'[p][s] = space[p][s]
  BY <1>2, <1>3
<1> HIDE DEF m, G
<1> QED BY <1>17, <1>2, <1>4, <1>11, <1>12, <1>13, <1>14, <1>15, <1>16

-----------------------------------------------------------------------------
(* The invariant, action by action.                                        *)

LEMMA InvInit ==
  ASSUME Init
  PROVE  Inv
<1>1. \A p \in Users : state[p] = "none" /\ pdPhysical[p] = 0 /\ space[p] = <<>>
                       /\ regions[p] = {} /\ stack[p] = {}
  BY DEF Init
<1>2. DOMAIN <<>> = {}
  OBVIOUS
<1>3. TypeOK
  <2>1. used \subseteq 0 .. MaxBlocks - 1
    BY DEF Init, Reserved
  <2>2. state \in [Users -> {"none", "added", "set up", "gone"}]
    BY DEF Init
  <2>3. pdPhysical \in [Users -> {0} \cup Usable]
    BY DEF Init
  <2> QED BY <1>1, <1>2, <2>1, <2>2, <2>3 DEF TypeOK, Init
<1>4. Types
  BY <1>1, <1>3 DEF Types, Init
<1>5. OneByOne
  BY <1>1, <1>2 DEF OneByOne, Regular
<1>6. \A p \in Users : Stands(p) = {}
  BY <1>1 DEF Stands
<1>7. Disjoint
  BY <1>6 DEF Disjoint
<1>8. UNION {Stands(p) : p \in Users} = {}
  BY <1>6
<1>9. Accounted
  BY <1>8 DEF Accounted, Init
<1> QED BY <1>4, <1>5, <1>7, <1>9 DEF Inv

\* A process that a step leaves alone, or that only goes, stays regular, and
\* what it has mapped stays the same.
LEMMA RegularKept ==
  ASSUME OneByOne, NEW q \in Users,
         space'[q] = space[q], pdPhysical'[q] = pdPhysical[q], stack'[q] = stack[q],
         state'[q] = state[q] \/ (state[q] = "set up" /\ state'[q] = "gone")
  PROVE  Regular(q)'
<1>1. Regular(q)
  BY DEF OneByOne
<1>2. Mapped(q)' = Mapped(q) /\ StackBlocks(q)' = StackBlocks(q)
  BY Zenon DEF Mapped, StackBlocks
<1>3. Regular(q)' <=>
        /\ state'[q] \in {"set up", "gone"} =>
             /\ \A v \in PagesIn(StackPages) : <<"page", v>> \in DOMAIN space'[q]
             /\ stack'[q] = StackBlocks(q)'
        /\ state'[q] \in {"added", "set up"} =>
             /\ pdPhysical'[q] \in Usable \ Mapped(q)'
             /\ \A s, t \in DOMAIN space'[q] : space'[q][s] = space'[q][t] => s = t
        /\ state'[q] = "none" => DOMAIN space'[q] = {}
  BY Zenon DEF Regular
<1>4. CASE state'[q] = state[q]
  BY <1>1, <1>2, <1>3, <1>4, Zenon DEF Regular
<1>5. CASE state[q] = "set up" /\ state'[q] = "gone"
  <2>1. /\ \A v \in PagesIn(StackPages) : <<"page", v>> \in DOMAIN space[q]
        /\ stack[q] = StackBlocks(q)
    BY <1>1, <1>5 DEF Regular
  <2>2. state'[q] \notin {"added", "set up"} /\ state'[q] # "none"
    BY <1>5
  <2> QED BY <1>2, <1>3, <2>1, <2>2, Zenon
<1> QED BY <1>4, <1>5

LEMMA InvAdd ==
  ASSUME Inv, ~Struck, NEW p \in Users, NEW image \in Binaries, add_process(p, image)
  PROVE  Inv'
<1> DEFINE d == Head(Available)
<1>1. /\ state[p] = "none" /\ used' = used \cup {d}
      /\ pdPhysical' = [pdPhysical EXCEPT ![p] = d]
      /\ state' = [state EXCEPT ![p] = "added"]
      /\ current' = current /\ space' = space /\ regions' = regions /\ stack' = stack
      /\ panicked' = panicked
  BY DEF add_process
<1>2. Types /\ TypeOK /\ OneByOne /\ Disjoint /\ Accounted
  BY DEF Inv, Types
<1>3. d \in (0 .. MaxBlocks - 1) \ used
  <2>1. Available \in Seq((0 .. MaxBlocks - 1) \ used) /\ Available # <<>>
    BY AnswersAreFree DEF add_process
  <2>2. 1 \in 1 .. Len(Available) /\ d = Available[1]
    BY <2>1
  <2> QED BY <2>2, AnswersAreFree
<1> HIDE DEF d
<1>4. d \in Usable
  BY <1>2, <1>3, ClearIsUnused
<1>5. state'[p] = "added" /\ pdPhysical'[p] = d
      /\ \A q \in Users \ {p} : state'[q] = state[q] /\ pdPhysical'[q] = pdPhysical[q]
  BY <1>1, <1>2 DEF TypeOK
<1>6. DOMAIN space[p] = {} /\ Mapped(p)' = {} /\ Mapped(p) = {}
  BY <1>1, <1>2 DEF OneByOne, Regular, Mapped
<1>7. Stands(p) = {} /\ Stands(p)' = {d}
  BY <1>1, <1>5, <1>6 DEF Stands, Holdings
<1>8. \A q \in Users \ {p} : Stands(q)' = Stands(q)
  <2> TAKE q \in Users \ {p}
  <2>1. Kept(q)' = Kept(q) /\ Holdings(q)' = Holdings(q)
    BY <1>1, <1>5 DEF Kept, Owed, Holdings
  <2> QED BY <1>5, <2>1 DEF Stands
<1>9. Disjoint' /\ Accounted'
  <2>1. Alive' \subseteq Alive \cup {p}
    BY <1>5 DEF Alive
  <2>2. {d} \in SUBSET ((0 .. MaxBlocks - 1) \ used)
    BY <1>3
  <2>3. Stands(p)' = Stands(p) \cup {d} /\ used' = used \cup Stands(p)'
    BY <1>1, <1>7
  <2> QED BY <1>2, <1>7, <1>8, <2>1, <2>2, <2>3, Grown
<1>10. Types'
  <2>1. used' \subseteq 0 .. MaxBlocks - 1
    BY <1>1, <1>2, <1>3 DEF TypeOK
  <2>2. state' \in [Users -> {"none", "added", "set up", "gone"}]
        /\ pdPhysical' \in [Users -> {0} \cup Usable]
    BY <1>1, <1>2, <1>4 DEF TypeOK
  <2>3. Alive \subseteq Alive'
    BY <1>5, <1>1 DEF Alive
  <2>4. current' \in Alive' \cup {Idle}
    BY <1>1, <1>2, <2>3 DEF TypeOK
  <2>5. TypeOK'
    BY <1>1, <1>2, <2>1, <2>2, <2>4 DEF TypeOK
  <2> QED BY <1>1, <1>2, <2>5 DEF Types
<1>11. OneByOne'
  <2>1. ASSUME NEW q \in Users \ {p}  PROVE Regular(q)'
    BY <1>1, <1>2, <1>5, RegularKept
  <2>2. Regular(p)'
    <3>1. pdPhysical'[p] \in Usable \ Mapped(p)'
      BY <1>4, <1>5, <1>6
    <3>2. \A s, t \in DOMAIN space'[p] : space'[p][s] = space'[p][t] => s = t
      BY <1>1, <1>6
    <3>3. state'[p] # "none" /\ state'[p] \notin {"set up", "gone"}
      BY <1>5
    <3> QED BY <3>1, <3>2, <3>3, Zenon DEF Regular
  <2> QED BY <2>1, <2>2 DEF OneByOne
<1> QED BY <1>9, <1>10, <1>11 DEF Inv

\* Pages mapped for the current process, however much else is recorded of it.
LEMMA InvTakes ==
  ASSUME Inv, ~Struck, NEW p \in Users, NEW runs \in Runs, Takes(p, runs),
         state[p] \in {"added", "set up"}, state'[p] \in {"added", "set up"},
         pdPhysical' = pdPhysical, current' = current, panicked' \in BOOLEAN,
         state' \in [Users -> States], DOMAIN regions' = Users, DOMAIN stack' = Users,
         state'[p] = "set up" =>
           /\ \A v \in PagesIn(StackPages) : <<"page", v>> \in DOMAIN space'[p]
           /\ stack'[p] = StackBlocks(p)',
         regions'[p] \subseteq {b * PageSize : b \in Usable},
         \A q \in Users \ {p} :
           state'[q] = state[q] /\ stack'[q] = stack[q] /\ regions'[q] = regions[q]
  PROVE  Inv'
<1>1. Types /\ TypeOK /\ OneByOne
  BY DEF Inv, Types
<1>2. /\ DOMAIN space' = Users /\ used' \subseteq 0 .. MaxBlocks - 1
      /\ \A q \in Users \ {p} : space'[q] = space[q]
      /\ Mapped(p)' \subseteq Usable
      /\ pdPhysical[p] \notin Mapped(p)'
      /\ \A s, t \in DOMAIN space'[p] : space'[p][s] = space'[p][t] => s = t
      /\ Disjoint' /\ Accounted'
  BY PagesAreTaken
<1>3. TypeOK'
  <2>1. Alive' = Alive
    BY DEF Alive
  <2>2. ASSUME NEW q \in Users, NEW s \in DOMAIN space'[q]  PROVE space'[q][s] \in Usable
    <3>1. CASE q = p
      BY <1>2, <2>2, <3>1 DEF Mapped
    <3>2. CASE q # p
      BY <1>1, <1>2, <2>2, <3>2 DEF TypeOK
    <3> QED BY <3>1, <3>2
  <2>3. state' \in [Users -> {"none", "added", "set up", "gone"}]
    BY DEF States
  <2>4. pdPhysical' \in [Users -> {0} \cup Usable] /\ current' \in Alive' \cup {Idle}
    BY <1>1, <2>1 DEF TypeOK
  <2> QED BY <1>2, <2>2, <2>3, <2>4 DEF TypeOK
<1>4. \A q \in Users : regions'[q] \subseteq {b * PageSize : b \in Usable}
  BY <1>1 DEF Types
<1>5. Types'
  BY <1>2, <1>3, <1>4 DEF Types
<1>6. OneByOne'
  <2>1. ASSUME NEW q \in Users \ {p}  PROVE Regular(q)'
    BY <1>1, <1>2, RegularKept
  <2>2. Regular(p)'
    <3>1. pdPhysical'[p] \in Usable \ Mapped(p)'
      BY <1>1, <1>2 DEF OneByOne, Regular
    <3>2. state'[p] # "gone" /\ state'[p] # "none"
      OBVIOUS
    <3>3. state'[p] \in {"set up", "gone"} =>
            /\ \A v \in PagesIn(StackPages) : <<"page", v>> \in DOMAIN space'[p]
            /\ stack'[p] = StackBlocks(p)'
      BY <3>2
    <3> QED BY <1>2, <3>1, <3>2, <3>3, Zenon DEF Regular
  <2> QED BY <2>1, <2>2 DEF OneByOne
<1> QED BY <1>2, <1>5, <1>6 DEF Inv

\* The blocks of a run that is mapped.
LEMMA PagesOfRunAreMapped ==
  ASSUME NEW p \in Users, NEW run,
         \A v \in PagesIn(run) : <<"page", v>> \in DOMAIN space'[p]
  PROVE  PageBlocks(p, run) \subseteq Mapped(p)'
BY DEF PageBlocks, Mapped

LEMMA InvSetup ==
  ASSUME Inv, ~Struck, NEW p \in Users, NEW image \in Binaries, NEW segs \in elf32_parse(image),
         setup_process(p, segs)
  PROVE  Inv'
<1> DEFINE runs == SetupRuns(segs)
<1>1. Types /\ TypeOK /\ OneByOne
  BY DEF Inv, Types
<1>2. /\ runs \in Runs
      /\ \A i \in DOMAIN segs : i \in DOMAIN runs /\ runs[i] = PagesOf(segs[i])
      /\ \E i \in DOMAIN runs : runs[i] = StackPages
  BY SetupRunsAreRuns
<1>3. state[p] = "added" /\ Takes(p, runs) /\ pdPhysical' = pdPhysical /\ current' = current
  BY DEF setup_process
<1> HIDE DEF runs
<1>4. CASE ~Suffices(p, runs)
  <2>1. panicked' = TRUE /\ state' = state /\ regions' = regions /\ stack' = stack
    BY <1>4 DEF setup_process, runs
  <2>2. state' \in [Users -> States]
    BY <1>1, <2>1 DEF TypeOK, States
  <2>3. state'[p] # "set up" /\ state'[p] \in {"added", "set up"}
    BY <1>3, <2>1
  <2>4. DOMAIN regions' = Users /\ DOMAIN stack' = Users
        /\ regions'[p] \subseteq {b * PageSize : b \in Usable}
    BY <1>1, <2>1 DEF Types
  <2> QED BY <1>2, <1>3, <2>1, <2>2, <2>3, <2>4, InvTakes
<1>5. CASE Suffices(p, runs)
  <2>1. /\ process_add_pmem_region(p, segs) /\ thread_add_pmem_region(p)
        /\ state' = [state EXCEPT ![p] = "set up"] /\ panicked' = panicked
    BY <1>5 DEF setup_process, runs
  <2>2. state' \in [Users -> States] /\ state'[p] = "set up"
        /\ \A q \in Users \ {p} : state'[q] = state[q]
    BY <1>1, <2>1 DEF TypeOK, States
  <2>3. DOMAIN regions' = Users /\ DOMAIN stack' = Users
        /\ \A q \in Users \ {p} : regions'[q] = regions[q] /\ stack'[q] = stack[q]
    BY <1>1, <2>1 DEF Types, process_add_pmem_region, thread_add_pmem_region
  <2>4. /\ Mapped(p)' \subseteq Usable
        /\ \A i \in DOMAIN runs : \A v \in PagesIn(runs[i]) : <<"page", v>> \in DOMAIN space'[p]
    BY <1>2, <1>3, <1>5, <2>2, <2>3, PagesAreTaken
  <2>5. /\ \A v \in PagesIn(StackPages) : <<"page", v>> \in DOMAIN space'[p]
        /\ stack'[p] = StackBlocks(p)'
    <3>1. stack'[p] = PageBlocks(p, StackPages)
      BY <1>1, <2>1 DEF Types, thread_add_pmem_region
    <3>2. StackBlocks(p)' = PageBlocks(p, StackPages)
      BY DEF StackBlocks, PageBlocks
    <3> QED BY <1>2, <2>4, <3>1, <3>2
  <2>6. regions'[p] \subseteq {b * PageSize : b \in Usable}
    <3> DEFINE B == UNION {PageBlocks(p, PagesOf(segs[i])) : i \in DOMAIN segs}
    <3>1. regions'[p] = {b * PageSize : b \in B}
      BY <1>1, <2>1 DEF Types, process_add_pmem_region
    <3>2. ASSUME NEW i \in DOMAIN segs  PROVE PageBlocks(p, PagesOf(segs[i])) \subseteq Mapped(p)'
      BY <1>2, <2>4, PagesOfRunAreMapped
    <3>3. B \subseteq Usable
      BY <2>4, <3>2
    <3> HIDE DEF B
    <3> QED BY <3>1, <3>3
  <2>7. panicked' \in BOOLEAN
    BY <1>1, <2>1 DEF TypeOK
  <2> QED BY <1>2, <1>3, <2>2, <2>3, <2>5, <2>6, <2>7, InvTakes
<1> QED BY <1>4, <1>5

LEMMA InvAlloc ==
  ASSUME Inv, ~Struck, NEW p \in Users, NEW run \in Requests, virtual_alloc(p, run)
  PROVE  Inv'
<1>1. Types /\ TypeOK /\ OneByOne
  BY DEF Inv, Types
<1>2. <<run>> \in Runs
  <2>1. run \in Nat \X Nat
    BY ConstantTypes
  <2> QED BY <2>1 DEF Runs
<1>3. /\ state[p] = "set up" /\ Takes(p, <<run>>) /\ pdPhysical' = pdPhysical /\ current' = current
      /\ panicked' = panicked /\ state' = state /\ regions' = regions /\ stack' = stack
  BY DEF virtual_alloc
<1>4. state' \in [Users -> States]
  BY <1>1, <1>3 DEF TypeOK, States
<1>5. \A s \in DOMAIN space[p] : s \in DOMAIN space'[p] /\ space'[p][s] = space[p][s]
  BY <1>2, <1>3, PagesAreTaken
<1>6. /\ \A v \in PagesIn(StackPages) : <<"page", v>> \in DOMAIN space'[p]
      /\ stack'[p] = StackBlocks(p)'
  <2>1. /\ \A v \in PagesIn(StackPages) : <<"page", v>> \in DOMAIN space[p]
        /\ stack[p] = StackBlocks(p)
    BY <1>1, <1>3 DEF OneByOne, Regular
  <2>2. \A v \in PagesIn(StackPages) : space'[p][<<"page", v>>] = space[p][<<"page", v>>]
    BY <1>5, <2>1
  <2>3. StackBlocks(p)' = StackBlocks(p)
    BY <2>2 DEF StackBlocks
  <2> QED BY <1>3, <1>5, <2>1, <2>3
<1>7. DOMAIN regions' = Users /\ DOMAIN stack' = Users
      /\ regions'[p] \subseteq {b * PageSize : b \in Usable} /\ panicked' \in BOOLEAN
  BY <1>1, <1>3 DEF Types, TypeOK
<1> QED BY <1>2, <1>3, <1>4, <1>6, <1>7, InvTakes

LEMMA InvExit ==
  ASSUME Inv, NEW p \in Users, NEW q \in Users \cup {Idle},
         scheduler_remove_current_process(p, q)
  PROVE  Inv'
<1> DEFINE X == {Freed(i) : i \in stack[p] \cup regions[p]} \cup {pdPhysical[p]}
<1>1. Types /\ TypeOK /\ OneByOne /\ Disjoint /\ Accounted
  BY DEF Inv, Types
<1>2. /\ state[p] = "set up" /\ current' = q /\ used' = used \ X
      /\ state' = [state EXCEPT ![p] = "gone"] /\ q \in (Alive \ {p}) \cup {Idle}
      /\ pdPhysical' = pdPhysical /\ space' = space /\ regions' = regions /\ stack' = stack
      /\ panicked' = panicked
  BY DEF scheduler_remove_current_process, process_destroy
<1>3. state'[p] = "gone" /\ \A r \in Users \ {p} : state'[r] = state[r]
  BY <1>1, <1>2 DEF TypeOK
<1>4. /\ pdPhysical[p] \in Usable \ Mapped(p) /\ Mapped(p) \subseteq Usable
      /\ stack[p] = StackBlocks(p)
      /\ \A v \in PagesIn(StackPages) : <<"page", v>> \in DOMAIN space[p]
  BY <1>1, <1>2, StandsOnUsable DEF OneByOne, Regular
<1>5. stack[p] \subseteq Mapped(p)
  BY <1>4 DEF StackBlocks, Mapped
<1>6. Stands(p) = {pdPhysical[p]} \cup Mapped(p)
      /\ Stands(p)' = ({pdPhysical[p]} \cup Mapped(p)) \ ({pdPhysical[p]} \cup stack[p])
  <2>1. Stands(p) = Holdings(p)
    BY <1>2 DEF Stands
  <2>2. Stands(p)' = Kept(p)'
    BY <1>3 DEF Stands
  <2>3. Kept(p)' = Kept(p)
    BY <1>2 DEF Kept, Owed, Holdings
  <2>4. Owed(p) = {pdPhysical[p]} \cup stack[p]
    BY <1>4 DEF Owed, StackBlocks
  <2>5. Holdings(p) = {pdPhysical[p]} \cup Mapped(p)
    BY DEF Holdings, Mapped
  <2> QED BY <2>1, <2>2, <2>3, <2>4, <2>5 DEF Kept
<1>7. ASSUME NEW i \in stack[p]  PROVE Freed(i) = i
  <2>1. i \in 1 .. MaxBlocks - 1
    BY <1>4, <1>5, BlockNumbers
  <2>2. Blocks \in Nat \ {0} /\ i \in 0 .. Blocks - 1
    BY <2>1, ConstantTypes
  <2> QED BY <2>2, ModSmall DEF Freed
<1>8. ASSUME NEW i \in regions[p]  PROVE Freed(i) \in Stray
  <2>1. PICK b \in Usable : i = b * PageSize
    BY <1>1 DEF Types
  <2> QED BY <2>1 DEF Stray
<1>9. /\ Stands(p) \ Stands(p)' \subseteq X
      /\ X \subseteq (Stands(p) \ Stands(p)') \cup Stray
  <2>1. X \subseteq stack[p] \cup {pdPhysical[p]} \cup Stray
    BY <1>7, <1>8
  <2>2. stack[p] \cup {pdPhysical[p]} \subseteq X
    BY <1>7
  <2> HIDE DEF X
  <2> QED BY <1>5, <1>6, <2>1, <2>2
<1> HIDE DEF X
<1>10. \A r \in Users \ {p} : Stands(r)' = Stands(r)
  <2> TAKE r \in Users \ {p}
  <2>1. Kept(r)' = Kept(r) /\ Holdings(r)' = Holdings(r)
    BY <1>2 DEF Kept, Owed, Holdings
  <2> QED BY <1>3, <2>1 DEF Stands
<1>11. Disjoint' /\ Accounted'
  <2>1. Stands(p)' \subseteq Stands(p)
    BY <1>6
  <2>2. \A r \in Users : Stands(r) \subseteq Usable
    BY <1>1, StandsOnUsable
  <2>3. Alive' \subseteq Alive
    BY <1>3 DEF Alive
  <2> QED BY <1>1, <1>2, <1>9, <1>10, <2>1, <2>2, <2>3, Shrunk
<1>12. Types'
  <2>1. Alive \ {p} \subseteq Alive'
    BY <1>3 DEF Alive
  <2>2. current' \in Alive' \cup {Idle}
    BY <1>2, <2>1
  <2>3. state' \in [Users -> {"none", "added", "set up", "gone"}]
    BY <1>1, <1>2 DEF TypeOK
  <2>4. TypeOK'
    BY <1>1, <1>2, <2>2, <2>3 DEF TypeOK
  <2> QED BY <1>1, <1>2, <2>4 DEF Types
<1>13. OneByOne'
  <2>1. ASSUME NEW r \in Users  PROVE Regular(r)'
    <3>1. state'[r] = state[r] \/ (state[r] = "set up" /\ state'[r] = "gone")
      BY <1>2, <1>3
    <3>2. space'[r] = space[r] /\ pdPhysical'[r] = pdPhysical[r] /\ stack'[r] = stack[r]
      BY <1>2
    <3> QED BY <1>1, <3>1, <3>2, RegularKept
  <2> QED BY <2>1 DEF OneByOne
<1> QED BY <1>11, <1>12, <1>13 DEF Inv

\* Nothing but the turn and the end of the machine.
LEMMA InvElsewhere ==
  ASSUME Inv, current' \in Alive \cup {Idle}, panicked' \in BOOLEAN,
         UNCHANGED <<used, state, pdPhysical, space, regions, stack>>
  PROVE  Inv'
<1>1. Types /\ TypeOK /\ OneByOne /\ Disjoint /\ Accounted
  BY DEF Inv, Types
<1>2. \A q \in Users : Kept(q)' = Kept(q) /\ Holdings(q)' = Holdings(q)
  BY DEF Kept, Owed, Holdings
<1>3. \A q \in Users : Stands(q)' = Stands(q)
  BY <1>2 DEF Stands
<1>4. Alive' = Alive
  BY DEF Alive
<1>5. Types'
  BY <1>1, <1>4 DEF Types, TypeOK
<1>6. OneByOne'
  BY <1>1, RegularKept DEF OneByOne
<1>7. Disjoint'
  BY <1>1, <1>3, <1>4 DEF Disjoint, Stray
<1>8. UNION {Stands(q)' : q \in Users} = UNION {Stands(q) : q \in Users}
  BY <1>3
<1>9. Accounted' <=>
        /\ used' \subseteq Reserved \cup (UNION {Stands(q)' : q \in Users})
        /\ (Reserved \cup (UNION {Stands(q)' : q \in Users})) \ Stray \subseteq used'
  BY DEF Accounted, Reserved, Stray
<1>10. Accounted'
  BY <1>1, <1>8, <1>9 DEF Accounted
<1> QED BY <1>5, <1>6, <1>7, <1>10 DEF Inv

LEMMA InvNext ==
  ASSUME Inv, [Next]_vars
  PROVE  Inv'
<1>1. TypeOK
  BY DEF Inv, Types
<1>2. CASE UNCHANGED vars
  BY <1>1, <1>2, InvElsewhere DEF vars, TypeOK
<1>3. CASE Next
  <2>1. ~Struck
    BY <1>3 DEF Next
  <2>2. ASSUME NEW p \in Users, NEW image \in Binaries, add_process(p, image)  PROVE Inv'
    BY <2>1, <2>2, InvAdd
  <2>3. ASSUME NEW p \in Users, setup_refused(p)  PROVE Inv'
    BY <1>1, <2>3, InvElsewhere DEF setup_refused, TypeOK
  <2>4. ASSUME NEW p \in Users, NEW segs \in UNION {elf32_parse(image) : image \in Binaries},
               setup_process(p, segs)
        PROVE  Inv'
    BY <2>1, <2>4, InvSetup
  <2>5. ASSUME NEW p \in Users, NEW run \in Requests, virtual_alloc(p, run)  PROVE Inv'
    BY <2>1, <2>5, InvAlloc
  <2>6. ASSUME NEW p \in Users, NEW q \in Users \cup {Idle}, scheduler_remove_current_process(p, q)
        PROVE  Inv'
    BY <2>6, InvExit
  <2>7. CASE Switch
    BY <1>1, <2>7, InvElsewhere DEF Switch, TypeOK
  <2> QED BY <1>3, <2>2, <2>3, <2>4, <2>5, <2>6, <2>7 DEF Next
<1> QED BY <1>2, <1>3

-----------------------------------------------------------------------------
(* The theorems.                                                           *)

\* The invariant.
THEOREM MemoryInvariant == Spec => []Inv
<1>1. Inv /\ [Next]_vars => Inv'
  BY InvNext
<1> QED BY <1>1, InvInit, PTL DEF Spec

LEMMA InvGivesOwned ==
  ASSUME Inv
  PROVE  BlocksAreOwned
<1>1. Types /\ TypeOK /\ OneByOne /\ Disjoint /\ Accounted
  BY DEF Inv, Types
<1>2. ASSUME NEW p \in Alive  PROVE Holdings(p) \subseteq Usable
  BY <1>1, StandsOfAlive, StandsOnUsable
<1>3. HoldingsStayMarked
  <2> SUFFICES ASSUME NEW p \in Alive  PROVE Holdings(p) \ Stray \subseteq used
    BY DEF HoldingsStayMarked
  <2> QED BY <1>1, StandsOfAlive DEF Accounted
<1>4. BlocksAreExclusive
  <2> SUFFICES ASSUME NEW p \in Alive
               PROVE  /\ \A q \in Alive \ {p} : Holdings(p) \cap Holdings(q) = {}
                      /\ \A s, t \in DOMAIN space[p] : space[p][s] = space[p][t] => s = t
                      /\ \A s \in DOMAIN space[p] : space[p][s] # pdPhysical[p]
                      /\ Holdings(p) \cap Reserved = {}
    BY DEF BlocksAreExclusive
  <2>1. \A q \in Alive \ {p} : Holdings(p) \cap Holdings(q) = {}
    BY <1>1, StandsOfAlive DEF Disjoint
  <2>2. Holdings(p) \cap Reserved = {}
    BY <1>2 DEF Reserved
  <2>3. Regular(p) /\ state[p] \in {"added", "set up"}
    BY <1>1, StandsOfAlive DEF OneByOne
  <2> QED BY <2>1, <2>2, <2>3 DEF Regular, Mapped
<1> QED BY <1>1, <1>3, <1>4 DEF BlocksAreOwned

\* On any machine, up to and including the first exit that hits a block in use:
\* no block serves two processes, or two slots of one, or is reserved, and no
\* exit clears the bit of a block that a process goes on with, unless it is one
\* of those that an address taken for a page index leads to.
THEOREM BlocksAreAlwaysOwned == Spec => []BlocksAreOwned
BY MemoryInvariant, InvGivesOwned, PTL

LEMMA InvGivesAccounted ==
  ASSUME Inv
  PROVE  BlocksAreAccounted
<1> DEFINE Gone == {q \in Users : state[q] = "gone"}
<1>1. TypeOK /\ Accounted
  BY DEF Inv, Types
<1>2. \A p \in Users : Stands(p) = IF p \in Alive THEN Holdings(p) ELSE IF p \in Gone THEN Kept(p) ELSE {}
  <2> TAKE p \in Users
  <2>1. state[p] \in {"none", "added", "set up", "gone"}
    BY <1>1 DEF TypeOK
  <2> QED BY <2>1 DEF Stands, Alive
<1>3. Alive \subseteq Users /\ Gone \subseteq Users /\ Alive \cap Gone = {}
  BY DEF Alive
<1> HIDE DEF Gone
<1>4. UNION {Stands(p) : p \in Users}
        = (UNION {Holdings(p) : p \in Alive}) \cup (UNION {Kept(p) : p \in Gone})
  <2>1. ASSUME NEW b
        PROVE  (\E p \in Users : b \in Stands(p))
                 <=> (\E p \in Alive : b \in Holdings(p)) \/ (\E p \in Gone : b \in Kept(p))
    BY <1>2, <1>3
  <2> QED BY <2>1
<1>5. Accounts = Reserved \cup (UNION {Stands(p) : p \in Users})
  BY <1>4 DEF Accounts, Gone
<1> QED BY <1>1, <1>5 DEF Accounted, BlocksAreAccounted

\* On any machine, up to and including the first exit that hits a block in use:
\* a bit is set only for what is reserved, in use, or left marked by an exit, so
\* that the directory and the stack of a process that has gone are free again;
\* and it is clear for none of these but what an address taken for a page index
\* leads to.
THEOREM BlocksAreAlwaysAccounted == Spec => []BlocksAreAccounted
BY MemoryInvariant, InvGivesAccounted, PTL

\* When pages divide the space of 32 bits, one block in PageSize can be hit by
\* mistake, and no other: with pages of 4 KiB, block 0, block 4096 at 16 MiB,
\* where the kernel starts, and so on.
THEOREM StrayIsSparse ==
  ASSUME NEW k \in Nat \ {0}, Blocks = PageSize * k
  PROVE  Stray \subseteq {PageSize * j : j \in 0 .. k - 1}
<1> SUFFICES ASSUME NEW b \in Usable
             PROVE  \E j \in 0 .. k - 1 : Freed(b * PageSize) = PageSize * j
  BY DEF Stray
<1> PICK P \in Nat \ {0} : P = PageSize
  BY ConstantTypes
<1>1. b \in Int
  BY ConstantTypes
<1> PICK q \in Int, r \in 0 .. k - 1 : b = k * q + r
  BY <1>1, Division
<1>2. b * P = P * (k * q) + P * r /\ P * (k * q) = (P * k) * q /\ P * r \in Int /\ (P * k) * q \in Int
  BY SMTT(30)
<1>3. P * r \in 0 .. P * k - 1 /\ P * k \in Nat \ {0}
  <2>1. r \in Nat /\ k - 1 \in Nat /\ r <= k - 1
    OBVIOUS
  <2>2. P * r \in Nat /\ P * r <= P * (k - 1)
    BY <2>1, ProductGrows
  <2>3. P * (k - 1) = P * k - P /\ P * k \in Nat /\ P * k # 0
    BY SMTT(30)
  <2> QED BY <2>2, <2>3
<1>4. (P * r + (P * k) * q) % (P * k) = (P * r) % (P * k)
  BY <1>2, <1>3, ModShift
<1>5. (P * r) % (P * k) = P * r
  BY <1>3, ModSmall
<1>6. b * P = P * r + (P * k) * q
  BY <1>2
<1> QED BY <1>4, <1>5, <1>6 DEF Freed

-----------------------------------------------------------------------------
(* Images in memory.                                                       *)

\* setup_process maps every page that a segment reaches into.
LEMMA PageIsMapped ==
  ASSUME NEW a \in Nat, NEW m \in Nat, NEW x \in a .. a + m - 1
  PROVE  x \div PageSize \in PagesIn(<<a \div PageSize, (m + 2 * PageSize - 1) \div PageSize>>)
<1> DEFINE n == (m + 2 * PageSize - 1) \div PageSize
           k == (m + 2 * PageSize - 1) % PageSize
           q == a \div PageSize
           r == a % PageSize
           v == x \div PageSize
           o == x % PageSize
<1>1. PageSize \in Nat \ {0} /\ x \in Nat /\ m + 2 * PageSize - 1 \in Int /\ a <= x /\ x <= a + m - 1
  BY ConstantTypes
<1>2. n \in Int /\ k \in 0 .. PageSize - 1 /\ m + 2 * PageSize - 1 = PageSize * n + k
  BY <1>1, Division
<1>3. q \in Int /\ r \in 0 .. PageSize - 1 /\ a = PageSize * q + r
  BY <1>1, Division
<1>4. v \in Int /\ o \in 0 .. PageSize - 1 /\ x = PageSize * v + o
  BY <1>1, Division
<1> HIDE DEF n, k, q, r, v, o
<1>5. q <= v
  <2>1. ASSUME v <= q - 1  PROVE FALSE
    <3>1. PageSize * v <= PageSize * (q - 1)
      BY <1>1, <1>3, <1>4, <2>1, SMTT(30)
    <3>2. PageSize * (q - 1) = PageSize * q - PageSize
      BY <1>1, <1>3, SMTT(30)
    <3>3. PageSize * v \in Int /\ PageSize * q \in Int
      BY <1>1, <1>3, <1>4, SMTT(30)
    <3> HIDE DEF v
    <3> QED BY <1>1, <1>3, <1>4, <3>1, <3>2, <3>3
  <2> QED BY <1>3, <1>4, <2>1
<1>6. v <= q + n - 1
  <2>1. ASSUME v >= q + n  PROVE FALSE
    <3>1. PageSize * v >= PageSize * (q + n)
      BY <1>1, <1>2, <1>3, <1>4, <2>1, SMTT(30)
    <3>2. PageSize * (q + n) = PageSize * q + PageSize * n
      BY <1>1, <1>2, <1>3, SMTT(30)
    <3>3. PageSize * v \in Int /\ PageSize * q \in Int /\ PageSize * n \in Int
      BY <1>1, <1>2, <1>3, <1>4, SMTT(30)
    <3> QED BY <1>1, <1>2, <1>3, <1>4, <3>1, <3>2, <3>3
  <2> QED BY <1>2, <1>3, <1>4, <2>1
<1>7. PagesIn(<<q, n>>) = q .. q + n - 1
  BY DEF PagesIn
<1>8. v \in PagesIn(<<q, n>>)
  BY <1>2, <1>3, <1>4, <1>5, <1>6, <1>7
<1> QED BY <1>8 DEF v, q, n

\* The list of segments puts an image where its headers say, and the rest nowhere.
LEMMA ImageIsCopied ==
  ASSUME LeftoverIsEmpty, NEW image \in Binaries, NEW segs \in elf32_parse(image),
         NEW i \in Loadable(image), NEW x \in Occupied(image.headers[i])
  PROVE  /\ i \in DOMAIN segs
         /\ x \div PageSize \in PagesIn(PagesOf(segs[i]))
         /\ Copied(segs)[x] = IF x - image.headers[i].vAddr < image.headers[i].fileSize
                              THEN <<"file", image.headers[i].offset + x - image.headers[i].vAddr>>
                              ELSE <<"zero">>
<1> DEFINE headers == image.headers
           h == headers[i]
           load == {j \in DOMAIN headers : headers[j].type = PT_LOAD}
<1>1. headers \in Seq(Headers) /\ load = Loadable(image)
  BY BinariesAssumption DEF Loadable
<1>2. \A j \in DOMAIN headers : headers[j] \in Headers
  BY <1>1
<1>3. PICK rest \in [DOMAIN headers \ load -> Leftover] :
         segs = [j \in DOMAIN headers |-> IF j \in load THEN Segment(headers[j]) ELSE rest[j]]
  BY DEF elf32_parse
<1>4. i \in load /\ load \subseteq DOMAIN headers
  BY <1>1
<1>5. /\ \A j \in load : headers[j].fileSize <= headers[j].memSize
      /\ \A j \in load \ {i} : Occupied(headers[i]) \cap Occupied(headers[j]) = {}
  BY <1>1, <1>4, BinariesAssumption
<1> HIDE DEF headers, load
<1>6. /\ DOMAIN segs = DOMAIN headers
      /\ \A j \in load : segs[j] = Segment(headers[j])
      /\ \A j \in DOMAIN segs \ load : segs[j] \in Leftover
  BY <1>3, <1>4
<1>7. ASSUME NEW j \in load  PROVE Written(segs[j]) = Occupied(headers[j])
  <2> DEFINE g == headers[j]
  <2>1. g \in Headers /\ g.fileSize <= g.memSize /\ segs[j] = Segment(g)
    BY <1>2, <1>4, <1>5, <1>6
  <2> HIDE DEF g
  <2>2. g.vAddr \in Nat /\ g.fileSize \in Nat /\ g.memSize \in Nat
    BY <2>1 DEF Headers
  <2>3. Written(segs[j]) = (g.vAddr .. (g.vAddr + g.fileSize) - 1)
                             \cup (g.vAddr + g.fileSize .. g.vAddr + g.memSize - 1)
    <3>1. /\ segs[j].addressInMemory = g.vAddr /\ segs[j].sizeInFile = g.fileSize
          /\ segs[j].sizeInMemory = g.memSize
      BY <2>1 DEF Segment
    <3> QED BY <3>1, Zenon DEF Written
  <2>4. Occupied(g) = g.vAddr .. g.vAddr + g.memSize - 1
    BY DEF Occupied
  <2>5. Written(segs[j]) = Occupied(g)
    BY <2>1, <2>2, <2>3, <2>4
  <2> QED BY <2>5 DEF g
<1>8. ASSUME NEW j \in DOMAIN segs \ load  PROVE Written(segs[j]) = {}
  <2> DEFINE g == segs[j]
  <2>1. g \in Leftover
    BY <1>6
  <2> HIDE DEF g
  <2>4. g \in Segments /\ g.sizeInFile = 0 /\ g.sizeInMemory = 0
    <3>1. Leftover \subseteq Segments
      BY LeftoverAssumption
    <3> QED BY <2>1, <3>1 DEF LeftoverIsEmpty
  <2>2. g.addressInMemory \in Nat
    BY <2>4 DEF Segments
  <2>3. Written(g) = {}
    BY <2>2, <2>4 DEF Written
  <2> QED BY <2>3 DEF g
<1>9. x \in Occupied(h)
  BY DEF headers
<1>10. {j \in DOMAIN segs : x \in Written(segs[j])} = {i}
  <2>1. \A j \in DOMAIN segs : x \in Written(segs[j]) <=> j = i
    BY <1>4, <1>5, <1>6, <1>7, <1>8, <1>9
  <2> QED BY <1>4, <1>6, <2>1
<1>11. Max({i}) = i
  <2>1. i \in Nat
    BY <1>1, <1>4
  <2> QED BY <2>1 DEF Max
<1>12. h \in Headers /\ segs[i] = Segment(h)
  BY <1>2, <1>4, <1>6
<1> HIDE DEF h
<1>13. Copied(segs)[x] = ByteOf(Segment(h), x)
  <2>1. x \in UNION {Written(segs[j]) : j \in DOMAIN segs}
    BY <1>4, <1>6, <1>7, <1>9 DEF h
  <2>2. Copied(segs)[x] = ByteOf(segs[Max({j \in DOMAIN segs : x \in Written(segs[j])})], x)
    BY <2>1 DEF Copied
  <2> QED BY <1>10, <1>11, <1>12, <2>2
<1>14. x \div PageSize \in PagesIn(PagesOf(segs[i]))
  <2>1. h.vAddr \in Nat /\ h.memSize \in Nat
    BY <1>12 DEF Headers
  <2>2. x \in h.vAddr .. h.vAddr + h.memSize - 1
    BY <1>9 DEF Occupied
  <2>3. PagesOf(segs[i]) = <<h.vAddr \div PageSize, (h.memSize + 2 * PageSize - 1) \div PageSize>>
    BY <1>12 DEF PagesOf, Segment
  <2> QED BY <2>1, <2>2, <2>3, PageIsMapped
<1>15. ByteOf(Segment(h), x) = IF x - h.vAddr < h.fileSize
                                THEN <<"file", h.offset + x - h.vAddr>> ELSE <<"zero">>
  BY DEF ByteOf, Segment
<1> QED BY <1>4, <1>6, <1>13, <1>14, <1>15 DEF h, headers

LEMMA LoadInit ==
  ASSUME Init
  PROVE  LoadInv
BY DEF Init, LoadInv, States

\* Processes that a step does not touch stay loaded.
LEMMA LoadKept ==
  ASSUME LoadInv, NEW p \in Users,
         state'[p] = state[p], binary'[p] = binary[p], memory'[p] = memory[p],
         DOMAIN space[p] \subseteq DOMAIN space'[p]
  PROVE  /\ state'[p] # "none" => binary'[p] \in Binaries
         /\ state'[p] = "set up" => PartsAreLoaded(p)'
<1>1. state'[p] # "none" => binary'[p] \in Binaries
  BY DEF LoadInv
<1>2. ASSUME state[p] = "set up"  PROVE PartsAreLoaded(p)'
  <2> SUFFICES ASSUME NEW i \in Loadable(binary'[p]), NEW x \in Occupied(binary'[p].headers[i])
               PROVE  /\ <<"page", x \div PageSize>> \in DOMAIN space'[p]
                      /\ memory'[p][x] =
                           IF x - binary'[p].headers[i].vAddr < binary'[p].headers[i].fileSize
                           THEN <<"file", binary'[p].headers[i].offset + x - binary'[p].headers[i].vAddr>>
                           ELSE <<"zero">>
    BY Zenon DEF PartsAreLoaded
  <2>1. PartsAreLoaded(p)
    BY <1>2 DEF LoadInv
  <2>2. i \in Loadable(binary[p]) /\ x \in Occupied(binary[p].headers[i])
    OBVIOUS
  <2>3. /\ <<"page", x \div PageSize>> \in DOMAIN space[p]
        /\ memory[p][x] =
             IF x - binary[p].headers[i].vAddr < binary[p].headers[i].fileSize
             THEN <<"file", binary[p].headers[i].offset + x - binary[p].headers[i].vAddr>>
             ELSE <<"zero">>
    BY <2>1, <2>2, Zenon DEF PartsAreLoaded
  <2> QED BY <2>3
<1> QED BY <1>1, <1>2

LEMMA LoadStep ==
  ASSUME LoadInv, NEW p \in Users, state' \in [Users -> States],
         DOMAIN binary' = Users, DOMAIN memory' = Users, DOMAIN space' = Users,
         \A q \in Users \ {p} :
           /\ state'[q] = state[q] /\ binary'[q] = binary[q] /\ memory'[q] = memory[q]
           /\ space'[q] = space[q],
         state'[p] # "none" => binary'[p] \in Binaries,
         state'[p] = "set up" => PartsAreLoaded(p)'
  PROVE  LoadInv'
<1>1. ASSUME NEW q \in Users
      PROVE  /\ state'[q] # "none" => binary'[q] \in Binaries
             /\ state'[q] = "set up" => PartsAreLoaded(q)'
  <2>1. CASE q = p
    BY <2>1
  <2>2. CASE q # p
    BY <2>2, LoadKept
  <2> QED BY <2>1, <2>2
<1> QED BY <1>1 DEF LoadInv

LEMMA TakesExtends ==
  ASSUME LoadInv, NEW p \in Users, NEW runs \in Runs, Takes(p, runs)
  PROVE  /\ DOMAIN space' = Users /\ \A q \in Users \ {p} : space'[q] = space[q]
         /\ DOMAIN space[p] \subseteq DOMAIN space'[p]
         /\ Suffices(p, runs) =>
              \A i \in DOMAIN runs : \A v \in PagesIn(runs[i]) : <<"page", v>> \in DOMAIN space'[p]
<1> DEFINE m == Mapping(p, runs)
<1>1. space'[p] = m /\ DOMAIN space' = Users /\ \A q \in Users \ {p} : space'[q] = space[q]
  BY DEF Takes, LoadInv
<1>2. DOMAIN space[p] \subseteq DOMAIN m
      /\ (Suffices(p, runs) => \A w \in Looks(runs) : SlotAt(runs, w) \in DOMAIN m)
  BY MappingTakesFreeBlocks
<1>3. ASSUME Suffices(p, runs), NEW i \in DOMAIN runs, NEW v \in PagesIn(runs[i])
      PROVE  <<"page", v>> \in DOMAIN m
  <2>1. PICK w \in Looks(runs) : SlotAt(runs, w) = <<"page", v>>
    BY PagesAreLookedAt
  <2> HIDE DEF m
  <2> QED BY <1>2, <1>3, <2>1
<1> HIDE DEF m
<1> QED BY <1>1, <1>2, <1>3

LEMMA LoadSetup ==
  ASSUME LeftoverIsEmpty, LoadInv, NEW p \in Users, NEW segs, setup_process(p, segs)
  PROVE  LoadInv'
<1> DEFINE runs == SetupRuns(segs)
           image == binary[p]
<1>1. /\ state[p] = "added" /\ segs \in elf32_parse(image) /\ Takes(p, runs) /\ binary' = binary
  BY DEF setup_process
<1>2. image \in Binaries /\ DOMAIN memory = Users /\ state \in [Users -> States] /\ DOMAIN binary = Users
  BY <1>1 DEF LoadInv
<1> HIDE DEF image, runs
<1>3. /\ runs \in Runs
      /\ \A i \in DOMAIN segs : i \in DOMAIN runs /\ runs[i] = PagesOf(segs[i])
  BY <1>1, <1>2, SetupRunsAreRuns DEF runs
<1>4. /\ DOMAIN space' = Users /\ \A q \in Users \ {p} : space'[q] = space[q]
      /\ DOMAIN space[p] \subseteq DOMAIN space'[p]
      /\ Suffices(p, runs) =>
           \A i \in DOMAIN runs : \A v \in PagesIn(runs[i]) : <<"page", v>> \in DOMAIN space'[p]
  BY <1>1, <1>3, TakesExtends
<1>5. CASE ~Suffices(p, runs)
  <2>1. state' = state /\ memory' = memory
    BY <1>5 DEF setup_process, runs
  <2>2. state'[p] # "set up" /\ (state'[p] # "none" => binary'[p] \in Binaries)
    BY <1>1, <1>2, <2>1 DEF image
  <2> QED BY <1>1, <1>2, <1>4, <2>1, <2>2, LoadStep
<1>6. CASE Suffices(p, runs)
  <2>1. state' = [state EXCEPT ![p] = "set up"] /\ memory' = [memory EXCEPT ![p] = Copied(segs)]
    BY <1>6 DEF setup_process, runs
  <2>2. /\ state' \in [Users -> States] /\ DOMAIN memory' = Users /\ memory'[p] = Copied(segs)
        /\ \A q \in Users \ {p} : state'[q] = state[q] /\ memory'[q] = memory[q]
    BY <1>2, <2>1 DEF States
  <2>3. PartsAreLoaded(p)'
    <3> SUFFICES ASSUME NEW i \in Loadable(binary'[p]), NEW x \in Occupied(binary'[p].headers[i])
                 PROVE  /\ <<"page", x \div PageSize>> \in DOMAIN space'[p]
                        /\ memory'[p][x] =
                             IF x - binary'[p].headers[i].vAddr < binary'[p].headers[i].fileSize
                             THEN <<"file", binary'[p].headers[i].offset + x - binary'[p].headers[i].vAddr>>
                             ELSE <<"zero">>
      BY Zenon DEF PartsAreLoaded
    <3>1. binary'[p] = image
      BY <1>1 DEF image
    <3>2. i \in Loadable(image) /\ x \in Occupied(image.headers[i])
      BY <3>1
    <3>3. /\ i \in DOMAIN segs /\ x \div PageSize \in PagesIn(PagesOf(segs[i]))
          /\ Copied(segs)[x] = IF x - image.headers[i].vAddr < image.headers[i].fileSize
                               THEN <<"file", image.headers[i].offset + x - image.headers[i].vAddr>>
                               ELSE <<"zero">>
      <4>1. image \in Binaries /\ segs \in elf32_parse(image)
        BY <1>1, <1>2
      <4> QED BY <4>1, <3>2, ImageIsCopied
    <3>4. <<"page", x \div PageSize>> \in DOMAIN space'[p]
      BY <1>3, <1>4, <1>6, <3>3
    <3>5. memory'[p][x] = Copied(segs)[x]
      BY <2>2, Zenon
    <3> QED BY <3>1, <3>3, <3>4, <3>5, Zenon
  <2>4. binary'[p] \in Binaries
    BY <1>1, <1>2 DEF image
  <2> QED BY <1>1, <1>2, <1>4, <2>2, <2>3, <2>4, LoadStep
<1> QED BY <1>5, <1>6

LEMMA LoadNext ==
  ASSUME LeftoverIsEmpty, LoadInv, [Next]_vars
  PROVE  LoadInv'
<1>1. state \in [Users -> States] /\ DOMAIN binary = Users /\ DOMAIN memory = Users /\ DOMAIN space = Users
  BY DEF LoadInv
<1>2. ASSUME NEW p \in Users, NEW image \in Binaries, add_process(p, image)  PROVE LoadInv'
  <2>1. /\ state' = [state EXCEPT ![p] = "added"] /\ binary' = [binary EXCEPT ![p] = image]
        /\ memory' = memory /\ space' = space
    BY <1>2 DEF add_process
  <2>2. /\ state' \in [Users -> States] /\ state'[p] = "added" /\ binary'[p] = image
        /\ DOMAIN binary' = Users /\ DOMAIN memory' = Users /\ DOMAIN space' = Users
        /\ \A q \in Users \ {p} :
             /\ state'[q] = state[q] /\ binary'[q] = binary[q] /\ memory'[q] = memory[q]
             /\ space'[q] = space[q]
    BY <1>1, <2>1 DEF States
  <2> QED BY <2>2, LoadStep
<1>3. ASSUME NEW p \in Users, NEW segs, setup_process(p, segs)  PROVE LoadInv'
  BY <1>3, LoadSetup
<1>4. ASSUME NEW p \in Users, NEW run \in Requests, virtual_alloc(p, run)  PROVE LoadInv'
  <2>1. Takes(p, <<run>>) /\ state' = state /\ binary' = binary /\ memory' = memory
    BY <1>4 DEF virtual_alloc
  <2>2. <<run>> \in Runs
    <3>1. run \in Nat \X Nat
      BY ConstantTypes
    <3> QED BY <3>1 DEF Runs
  <2>3. /\ DOMAIN space' = Users /\ \A q \in Users \ {p} : space'[q] = space[q]
        /\ DOMAIN space[p] \subseteq DOMAIN space'[p]
    BY <2>1, <2>2, TakesExtends
  <2>4. /\ state'[p] # "none" => binary'[p] \in Binaries
        /\ state'[p] = "set up" => PartsAreLoaded(p)'
    BY <2>1, <2>3, LoadKept
  <2> QED BY <1>1, <2>1, <2>3, <2>4, LoadStep
<1>5. ASSUME NEW p \in Users, NEW q, scheduler_remove_current_process(p, q)  PROVE LoadInv'
  <2>1. /\ state' = [state EXCEPT ![p] = "gone"] /\ state[p] = "set up"
        /\ binary' = binary /\ memory' = memory /\ space' = space
    BY <1>5 DEF scheduler_remove_current_process
  <2>2. /\ state' \in [Users -> States] /\ state'[p] = "gone"
        /\ \A r \in Users \ {p} : state'[r] = state[r]
    BY <1>1, <2>1 DEF States
  <2>3. binary'[p] \in Binaries
    BY <2>1 DEF LoadInv
  <2> QED BY <1>1, <2>1, <2>2, <2>3, LoadStep
<1>6. ASSUME UNCHANGED <<state, binary, memory, space>>  PROVE LoadInv'
  <2>1. ASSUME NEW p \in Users
        PROVE  /\ state'[p] # "none" => binary'[p] \in Binaries
               /\ state'[p] = "set up" => PartsAreLoaded(p)'
    BY <1>6, LoadKept
  <2> QED BY <1>1, <1>6, <2>1 DEF LoadInv
<1>7. ASSUME NEW p \in Users, setup_refused(p)  PROVE LoadInv'
  BY <1>6, <1>7 DEF setup_refused
<1>8. CASE Switch
  BY <1>6, <1>8 DEF Switch
<1>9. CASE UNCHANGED vars
  BY <1>6, <1>9 DEF vars
<1> QED BY <1>2, <1>3, <1>4, <1>5, <1>7, <1>8, <1>9 DEF Next

\* Every loadable part of the image of a process that is set up is mapped and in
\* memory, if entries of segs that setup_process does not assign hold zeros.
THEOREM SegmentsAreAlwaysLoaded == LeftoverIsEmpty => (Spec => []SegmentsAreLoaded)
<1> SUFFICES ASSUME LeftoverIsEmpty  PROVE Spec => []SegmentsAreLoaded
  OBVIOUS
<1>1. LoadInv /\ [Next]_vars => LoadInv'
  BY LoadNext
<1>2. LoadInv => SegmentsAreLoaded
  BY DEF LoadInv, SegmentsAreLoaded, Alive
<1> QED BY <1>1, <1>2, LoadInit, PTL DEF Spec

=============================================================================
