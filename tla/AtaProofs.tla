----------------------------- MODULE AtaProofs -----------------------------
(***************************************************************************)
(* Proofs about Ata, for every sector size, timeout, width of the tick     *)
(* counter and set of requests of whole sectors from drive 0.              *)
(*                                                                         *)
(* What makes a read right is spread over the places of the driver: while  *)
(* it polls or delays, the looks at the status that are left are at least  *)
(* those after which the drive shows that it is busy; while it copies, the *)
(* drive's word and sector are those of the loops.                         *)
(***************************************************************************)
EXTENDS Ata, ArithLemmas, SequenceTheorems

\* The requests the theorem about reads is for.  A count of 0 means 256 to
\* the drive and nothing to the driver's loop, an LBA has 28 bits, and
\* ata_select_drive selects drive 0 whatever it is asked for.
Addresses == {l \in Nat : l \div 65536 < 4096}

WholeReads == Reads \subseteq [lba : Addresses, count : 1 .. 255, drive : {0}]

Modes == {"idle", "busy", "stuck", "data", "error"}

Words == {<<"nothing">>} \cup ({0, 1} \X Int \X Nat)

Drives == [mode : Modes, unit : {0, 1}, lba : Int, left : Nat, word : Nat,
           stale : 0 .. StatusDelay, failed : BOOLEAN]

Places == {"idle", "sleep", "wait", "poll", "busy", "data", "delay", "done"}

Results == {"none", "TRUE", "FALSE", "slept"}

\* The clocks and the place of the driver.
ClockTypeOK ==
  /\ timer_ticks \in 0 .. Modulus - 1 /\ deadline \in Nat /\ elapsed \in Nat
  /\ pc \in Places
  /\ result \in Results
  /\ pc # "idle" => result = "none"

\* The loops, the buffer and the drive.
ReadTypeOK ==
  /\ pc \in Places /\ n \in Nat /\ sector \in Nat
  /\ dest \in Seq(Words)
  /\ pc # "idle" => result = "none"
  /\ drive \in Drives
  /\ drive.mode = "data" => drive.left > 0

\* Where a command has been given and its sectors are not all read.
Transfer == {"poll", "busy", "data", "delay", "done"}

\* The word a read delivers at position i.
WordAt(r, i) == <<r.drive, r.lba + (i - 1) \div WordsPerSector, (i - 1) % WordsPerSector>>

\* The words that have been copied so far.
Copied == sector * WordsPerSector + (IF pc = "data" THEN n ELSE 0)

DestIsPrefix ==
  /\ Len(dest) = Copied
  /\ \A i \in 1 .. Copied : dest[i] = WordAt(request, i)

\* The drive has the sectors that are left, the next one first.
DriveIsOnTime ==
  /\ drive.unit = 0
  /\ sector + drive.left = request.count
  /\ drive.left > 0 => drive.lba = request.lba + sector
  /\ drive.mode = (IF drive.left = 0 THEN "idle" ELSE IF drive.mode = "data" THEN "data" ELSE "busy")
  /\ drive.mode # "busy" => drive.stale = 0
  /\ drive.mode = "data" /\ pc # "data" => drive.word = 0

\* What the place of the driver says of the drive.
PlaceIsRight ==
  /\ pc = "poll" => sector = 0
  /\ pc \in {"poll", "delay"} => n < StatusDelay /\ drive.stale + n <= StatusDelay
  /\ pc = "busy" => drive.stale = 0
  /\ pc = "data" => drive.mode = "data" /\ drive.word = n /\ n < WordsPerSector
  /\ pc = "done" => drive.left = 0

TransferInv ==
  /\ pc \notin {"idle", "sleep"} => request \in Reads
  /\ pc = "wait" => sector = 0 /\ dest = <<>>
  /\ pc \in Transfer /\ ~drive.failed => DestIsPrefix /\ DriveIsOnTime /\ PlaceIsRight
  /\ ReadIsRight

ReadInv == ReadTypeOK /\ TransferInv

\* The wait of ticks that began when the ghost clock was set to 0: while the
\* deadline does not wrap, the counter has not run ahead of the clock.
InTime(ticks) ==
  deadline >= ticks /\ elapsed < MaxElapsed => timer_ticks <= (deadline - ticks) + elapsed

WaitInv ==
  /\ ClockTypeOK
  /\ pc = "wait" => InTime(Timeout)
  /\ pc = "sleep" => request.ticks \in Sleeps /\ InTime(request.ticks)
  /\ pc = "idle" /\ result = "slept" => request.ticks \in Sleeps
  /\ WaitIsWhole

-----------------------------------------------------------------------------
(* Waits.                                                                  *)

\* Reducing a natural number never makes it larger.
LEMMA ModBounds ==
  ASSUME NEW a \in Nat
  PROVE  (a % Modulus) \in Nat /\ (a % Modulus) <= a /\ (a % Modulus) < Modulus
<1> DEFINE q == a \div Modulus
           r == a % Modulus
<1>1. q \in Int /\ r \in 0 .. Modulus - 1 /\ a = Modulus * q + r
  BY TimerAssumption, Division
<1> HIDE DEF q, r
<1>2. q >= 0
  <2> SUFFICES ASSUME q <= -1 PROVE FALSE
    BY <1>1
  <2>1. Modulus * q <= -Modulus
    BY <1>1, TimerAssumption, SMTT(30)
  <2> QED BY <2>1, <1>1, TimerAssumption
<1>3. Modulus * q >= 0
  BY <1>1, <1>2, TimerAssumption, SMTT(30)
<1>4. r \in Nat /\ r <= a /\ r < Modulus
  BY <1>1, <1>3, TimerAssumption
<1> QED BY <1>4 DEF r

\* A wait starts with the clock and the counter together.
LEMMA WaitStarts ==
  ASSUME WaitInv, NEW ticks \in Nat,
         deadline' = (timer_ticks + ticks) % Modulus, timer_ticks' = timer_ticks, elapsed' = 0
  PROVE  deadline' \in Nat /\ InTime(ticks)'
<1> DEFINE a == timer_ticks + ticks
           q == a \div Modulus
<1>1. timer_ticks \in 0 .. Modulus - 1
  BY DEF WaitInv, ClockTypeOK
<1>2. a \in Nat
  BY <1>1
<1>3. q \in Int /\ deadline' \in Nat /\ deadline' < Modulus /\ a = Modulus * q + deadline'
  <2>1. deadline' = a % Modulus
    OBVIOUS
  <2> HIDE DEF a
  <2>2. q \in Int /\ a = Modulus * q + (a % Modulus)
    <3>1. Modulus \in Nat \ {0} /\ a \in Int
      BY <1>2, TimerAssumption
    <3> QED BY <3>1, Division
  <2>3. (a % Modulus) \in Nat /\ (a % Modulus) < Modulus
    BY <1>2, ModBounds
  <2> HIDE DEF q
  <2> QED BY <2>1, <2>2, <2>3
<1>4. deadline' >= ticks => timer_ticks <= deadline' - ticks
  <2> SUFFICES ASSUME deadline' >= ticks, timer_ticks > deadline' - ticks PROVE FALSE
    BY <1>1, <1>3
  <2>1. a > deadline' /\ a - deadline' < Modulus
    <3>1. deadline' \in Nat /\ Modulus \in Nat
      BY <1>3, TimerAssumption
    <3> QED BY <3>1, <1>1
  <2>2. 0 < Modulus * q /\ Modulus * q < Modulus
    <3> HIDE DEF a, q
    <3> QED BY <2>1, <1>2, <1>3, TimerAssumption
  <2> HIDE DEF a, q
  <2>3. CASE q >= 1
    BY <2>2, <2>3, <1>3, TimerAssumption, SMTT(30)
  <2>4. CASE q <= 0
    BY <2>2, <2>4, <1>3, TimerAssumption, SMTT(30)
  <2> QED BY <2>3, <2>4, <1>3
<1> QED BY <1>1, <1>3, <1>4 DEF InTime

LEMMA WaitInitial == Init => WaitInv
BY TimerAssumption DEF Init, WaitInv, ClockTypeOK, WaitIsWhole, Places, Results

\* The steps after a wait: they touch no clock and give no wait its result.
LEMMA OtherStepsKeepWaits ==
  ASSUME WaitInv, UNCHANGED timer,
         pc' \in Transfer, result' = result, pc \in Transfer
  PROVE  WaitInv'
BY DEF WaitInv, ClockTypeOK, WaitIsWhole, timer, Transfer, Places

LEMMA WaitStep == WaitInv /\ [Next]_vars => WaitInv'
<1> SUFFICES ASSUME WaitInv, [Next]_vars PROVE WaitInv'
  OBVIOUS
<1>0. ClockTypeOK /\ WaitIsWhole /\ (pc = "wait" => InTime(Timeout))
      /\ (pc = "sleep" => request.ticks \in Sleeps /\ InTime(request.ticks))
      /\ (pc = "idle" /\ result = "slept" => request.ticks \in Sleeps)
      /\ \A t \in Sleeps : t \in Nat /\ t <= MaxElapsed
  BY ClockAssumption DEF WaitInv
<1>1. CASE timer_handler
  <2>1. /\ timer_ticks' \in 0 .. Modulus - 1 /\ timer_ticks' <= timer_ticks + TickStep
        /\ UNCHANGED <<deadline, pc, request, result>>
        /\ elapsed' = (IF elapsed >= MaxElapsed THEN elapsed ELSE elapsed + TickStep)
    <3>1. timer_ticks + TickStep \in Nat
      BY <1>0, TimerAssumption DEF ClockTypeOK
    <3> QED BY <3>1, <1>1, ModBounds, TimerAssumption DEF timer_handler
  <2>2. ClockTypeOK'
    BY <1>0, <2>1, TimerAssumption DEF ClockTypeOK
  <2>3. ASSUME NEW ticks \in Nat, InTime(ticks) PROVE InTime(ticks)'
    BY <2>1, <2>3, <1>0, TimerAssumption, ClockAssumption DEF InTime, ClockTypeOK
  <2>4. elapsed' >= elapsed /\ elapsed \in Nat /\ elapsed' \in Nat
    BY <2>1, <1>0, TimerAssumption DEF ClockTypeOK
  <2>5. WaitIsWhole'
    <3>1. pc = "idle" /\ result = "slept" => request.ticks \in Nat
      BY <1>0
    <3> QED BY <2>1, <2>4, <1>0, <3>1, TimerAssumption DEF WaitIsWhole
  <2>6. Timeout \in Nat /\ Sleeps \subseteq Nat
    BY TimerAssumption, ClockAssumption
  <2>7. pc' = "wait" => InTime(Timeout)'
    BY <2>1, <2>3, <2>6, <1>0
  <2>8. pc' = "sleep" => request'.ticks \in Sleeps /\ InTime(request.ticks)'
    BY <2>1, <2>3, <2>6, <1>0
  <2>9. pc' = "idle" /\ result' = "slept" => request'.ticks \in Sleeps
    BY <2>1, <1>0
  <2> QED BY <2>2, <2>5, <2>7, <2>8, <2>9 DEF WaitInv
<1>2. CASE DriveReady \/ DriveFails \/ UNCHANGED vars
  BY <1>2 DEF DriveReady, DriveFails, vars, timer, call, WaitInv, ClockTypeOK, WaitIsWhole, InTime
<1>3. ASSUME NEW t \in Sleeps, timer_wait(t) PROVE WaitInv'
  <2>1. t \in Nat
    BY ClockAssumption
  <2>2. deadline' \in Nat /\ InTime(t)'
    BY <2>1, <1>3, WaitStarts DEF timer_wait
  <2>3. pc' = "sleep" /\ result' = "none" /\ request'.ticks = t /\ request' = [ticks |-> t]
        /\ timer_ticks' = timer_ticks /\ elapsed' = 0
    BY <1>3 DEF timer_wait
  <2>4. request'.ticks \in Sleeps /\ InTime(request.ticks)'
    BY <2>2, <2>3 DEF InTime
  <2>5. timer_ticks \in 0 .. Modulus - 1
    BY <1>0 DEF ClockTypeOK
  <2>6. ClockTypeOK'
    BY <2>2, <2>3, <2>5 DEF ClockTypeOK, Places, Results
  <2>7. WaitIsWhole'
    BY <2>3 DEF WaitIsWhole
  <2> QED BY <2>3, <2>4, <2>6, <2>7 DEF WaitInv
<1>4. ASSUME NEW r \in Reads, ata_read_lba28(r) PROVE WaitInv'
  <2>2. deadline' \in Nat /\ InTime(Timeout)'
    BY <1>4, WaitStarts, TimerAssumption DEF ata_read_lba28
  <2>3. pc' = "wait" /\ result' = "none" /\ timer_ticks' = timer_ticks /\ elapsed' = 0
    BY <1>4 DEF ata_read_lba28
  <2> QED BY <2>2, <2>3, <1>0 DEF WaitInv, ClockTypeOK, WaitIsWhole, Places, Results
<1>5. CASE ata_wait_until_not_busy
  <2>1. CASE pc' = "wait"
    BY <2>1, <1>5, <1>0 DEF ata_wait_until_not_busy, timer, WaitInv, ClockTypeOK, WaitIsWhole, InTime, Return
  <2>2. CASE pc' = "idle"
    <3>1. /\ pc = "wait" /\ result' = "FALSE" /\ timer_ticks > deadline /\ UNCHANGED timer
          /\ UNCHANGED request
      BY <2>2, <1>5 DEF ata_wait_until_not_busy, Return, Expired
    <3>2. elapsed > Timeout \/ ~(deadline >= Timeout)
      BY <3>1, <1>0, ClockAssumption, TimerAssumption DEF InTime, ClockTypeOK
    <3> QED BY <2>2, <3>1, <3>2, <1>0 DEF timer, WaitInv, ClockTypeOK, WaitIsWhole, Places, Results
  <2>3. CASE pc' = "poll"
    BY <2>3, <1>5, <1>0 DEF ata_wait_until_not_busy, timer, WaitInv, ClockTypeOK, WaitIsWhole, InTime, Return, Places
  <2> QED BY <1>5, <2>1, <2>2, <2>3 DEF ata_wait_until_not_busy, Return
<1>6. CASE poll \/ busy \/ data \/ delay
  <2>1. UNCHANGED timer /\ pc' \in Transfer /\ result' = result /\ pc \in Transfer
    BY <1>6 DEF poll, busy, data, delay, NextSector, Transfer
  <2> QED BY <2>1, OtherStepsKeepWaits
<1>7. CASE done
  BY <1>7, <1>0 DEF done, Return, timer, WaitInv, ClockTypeOK, WaitIsWhole, Places, Results
<1>8. CASE sleep
  <2>0. UNCHANGED <<timer_ticks, deadline, elapsed, request>> /\ pc = "sleep"
    BY <1>8 DEF sleep, timer, Return
  <2>1. CASE pc' = "sleep"
    <3>1. result' = result
      BY <2>1, <1>8 DEF sleep, Return
    <3> QED BY <2>0, <2>1, <3>1, <1>0 DEF WaitInv, ClockTypeOK, WaitIsWhole, InTime
  <2>2. CASE pc' = "idle" /\ result' = "slept" /\ timer_ticks >= deadline
    <3>1. request.ticks \in Nat /\ request.ticks <= MaxElapsed
      BY <2>0, <1>0
    <3>2. deadline >= request.ticks => elapsed >= request.ticks
      BY <2>0, <2>2, <3>1, <1>0, ClockAssumption DEF InTime, ClockTypeOK
    <3> QED BY <2>0, <2>2, <3>2, <1>0 DEF WaitInv, ClockTypeOK, WaitIsWhole, Places, Results
  <2> QED BY <1>8, <2>1, <2>2 DEF sleep, Return
<1> QED BY <1>1, <1>2, <1>3, <1>4, <1>5, <1>6, <1>7, <1>8 DEF Next, Driver

\* No wait is cut short, for any reads, timeout and width of the counter:
\* a read gives up and timer_wait returns only after their time.
THEOREM WaitsAreAlwaysWhole == FairSpec => []WaitIsWhole
<1>1. WaitInv => WaitIsWhole
  BY DEF WaitInv
<1> QED BY WaitInitial, WaitStep, <1>1, PTL DEF FairSpec

-----------------------------------------------------------------------------
(* Reads.                                                                  *)

\* The four registers hold the whole of an LBA.
LEMMA RegistersHoldLba ==
  ASSUME NEW l \in Addresses
  PROVE  (l % 256) + 256 * (((l \div 256) % 256)
           + 256 * (((l \div 65536) % 256) + 256 * (((l \div 65536) \div 256) % 16))) = l
BY SMTT(30) DEF Addresses

\* Where sector s ends and how its words are counted.
LEMMA SectorArithmetic ==
  ASSUME NEW s \in Nat, NEW j \in 0 .. WordsPerSector - 1
  PROVE  /\ s * WordsPerSector \in Nat
         /\ (s + 1) * WordsPerSector = s * WordsPerSector + WordsPerSector
         /\ (s * WordsPerSector + j) \div WordsPerSector = s
         /\ (s * WordsPerSector + j) % WordsPerSector = j
<1> DEFINE W == WordsPerSector
           a == s * W + j
           q == a \div W
           r == a % W
<1>1. W \in Nat \ {0}
  BY SectorAssumption
<1> HIDE DEF W
<1>2. s * W \in Nat /\ (s + 1) * W = s * W + W /\ W * s = s * W
  BY <1>1, SMTT(30)
<1>3. j \in 0 .. W - 1 /\ a \in Int
  BY <1>1, <1>2 DEF W
<1>4. q \in Int /\ r \in 0 .. W - 1 /\ a = W * q + r
  <2> HIDE DEF a
  <2> QED BY <1>1, <1>3, Division
<1>5. W * q + r = W * s + j
  BY <1>2, <1>4
<1> HIDE DEF q, r
<1>6. r = j
  BY <1>1, <1>3, <1>4, <1>5, DivisionUnique
<1>7. W * (q - s) = 0
  BY <1>1, <1>3, <1>4, <1>5, <1>6, SMTT(30)
<1>8. q = s
  BY <1>1, <1>4, <1>7, SMTT(30)
<1> QED BY <1>2, <1>6, <1>8 DEF q, r, W

LEMMA StatusFacts ==
  ASSUME drive \in Drives
  PROVE  /\ "BSY" \in Status <=> drive.stale = 0 /\ drive.mode = "busy"
         /\ "DRQ" \in Status <=> drive.stale = 0 /\ drive.mode \in {"data", "stuck"}
<1>1. drive.stale \in 0 .. 4 /\ drive.mode \in Modes
  BY DEF Drives, StatusDelay
<1>2. CASE drive.stale > 0
  BY <1>1, <1>2 DEF Status
<1>3. CASE drive.stale = 0
  <2>1. ~(drive.stale > 0)
    BY <1>3
  <2>2. CASE drive.mode = "busy"
    BY <1>3, <2>1, <2>2 DEF Status
  <2>3. CASE drive.mode \in {"data", "stuck"}
    BY <1>3, <2>1, <2>3 DEF Status
  <2>4. CASE drive.mode = "error"
    BY <1>3, <2>1, <2>4 DEF Status
  <2>5. CASE drive.mode = "idle"
    BY <1>3, <2>1, <2>5 DEF Status
  <2> QED BY <1>1, <2>2, <2>3, <2>4, <2>5 DEF Modes
<1> QED BY <1>1, <1>2, <1>3

\* A read of the status only lets the delay pass.
LEMMA StatusReadFacts ==
  ASSUME drive \in Drives, StatusRead
  PROVE  /\ drive' \in Drives
         /\ drive'.stale = (IF drive.stale > 0 THEN drive.stale - 1 ELSE 0)
         /\ drive'.mode = drive.mode /\ drive'.unit = drive.unit /\ drive'.lba = drive.lba
         /\ drive'.left = drive.left /\ drive'.word = drive.word /\ drive'.failed = drive.failed
BY DEF Drives, StatusRead, StatusDelay

LEMMA ReadInitial == Init => ReadInv
<1> SUFFICES ASSUME Init PROVE ReadInv
  OBVIOUS
<1>1. PICK m \in Unready : drive = [Idle EXCEPT !.mode = m]
  BY DEF Init
<1>2. m \in {"idle", "busy", "stuck"}
  BY TimerAssumption
<1>3. drive = [mode |-> m, unit |-> 0, lba |-> 0, left |-> 0, word |-> 0, stale |-> 0, failed |-> FALSE]
  BY <1>1 DEF Idle
<1>4. drive \in Drives /\ drive.mode # "data"
  BY <1>2, <1>3 DEF Drives, Modes, StatusDelay
<1>5. dest \in Seq(Words)
  BY DEF Init
<1> QED BY <1>4, <1>5 DEF Init, ReadInv, ReadTypeOK, TransferInv, Transfer, ReadIsRight, Places

\* The drive is ready with the next sector, or has failed.
LEMMA DriveKeepsReads ==
  ASSUME ReadInv, DriveReady \/ DriveFails
  PROVE  ReadInv'
<1>0. ReadTypeOK /\ TransferInv
  BY DEF ReadInv
<1>1. UNCHANGED <<pc, request, n, sector, dest, result>> /\ drive.mode = "busy"
  BY DEF DriveReady, DriveFails, call
<1>2. drive \in Drives
  BY <1>0 DEF ReadTypeOK
<1>3. CASE DriveFails
  <2>1. drive' \in Drives /\ drive'.mode = "error" /\ drive'.failed
    <3>1. drive' = [drive EXCEPT !.stale = 0, !.mode = "error", !.failed = TRUE]
      BY <1>3 DEF DriveFails
    <3>2. "error" \in Modes /\ 0 \in 0 .. StatusDelay
      BY DEF Modes, StatusDelay
    <3> QED BY <1>2, <3>1, <3>2, Zenon DEF Drives
  <2> QED BY <1>0, <1>1, <2>1 DEF ReadInv, ReadTypeOK, TransferInv, ReadIsRight
<1>4. CASE DriveReady
  <2>1. /\ drive' \in Drives /\ drive'.stale = 0 /\ drive'.word = 0
        /\ drive'.mode = (IF drive.left = 0 THEN "idle" ELSE "data")
        /\ drive'.unit = drive.unit /\ drive'.lba = drive.lba
        /\ drive'.left = drive.left /\ drive'.failed = drive.failed /\ drive.left \in Nat
    <3> DEFINE m == IF drive.left = 0 THEN "idle" ELSE "data"
    <3>1. drive' = [drive EXCEPT !.stale = 0, !.mode = m, !.word = 0]
      BY <1>4 DEF DriveReady
    <3>2. m \in Modes /\ 0 \in 0 .. StatusDelay /\ 0 \in Nat
      BY DEF Modes, StatusDelay
    <3> HIDE DEF m
    <3>3. drive' \in Drives
      BY <1>2, <3>1, <3>2, Zenon DEF Drives
    <3>4. /\ drive'.stale = 0 /\ drive'.word = 0 /\ drive'.mode = m
          /\ drive'.unit = drive.unit /\ drive'.lba = drive.lba
          /\ drive'.left = drive.left /\ drive'.failed = drive.failed /\ drive.left \in Nat
      BY <1>2, <3>1 DEF Drives
    <3> QED BY <3>3, <3>4 DEF m
  <2>2. ReadTypeOK'
    BY <1>0, <1>1, <2>1 DEF ReadTypeOK
  <2>3. ReadIsRight'
    BY <1>0, <1>1, <2>1 DEF TransferInv, ReadIsRight
  <2>4. ASSUME pc \in Transfer, ~drive.failed
        PROVE  DestIsPrefix' /\ DriveIsOnTime' /\ PlaceIsRight'
    <3>1. DestIsPrefix /\ DriveIsOnTime /\ PlaceIsRight
      BY <2>4, <1>0 DEF TransferInv
    <3>2. DestIsPrefix'
      BY <3>1, <1>1 DEF DestIsPrefix, Copied
    <3>3. drive.left # 0
      BY <3>1, <1>1 DEF DriveIsOnTime
    <3>4. DriveIsOnTime'
      BY <3>1, <3>3, <1>1, <2>1 DEF DriveIsOnTime
    <3>5. n \in Nat
      BY <1>0 DEF ReadTypeOK
    <3>6. PlaceIsRight'
      BY <3>1, <3>3, <3>5, <1>1, <2>1 DEF PlaceIsRight, StatusDelay
    <3> QED BY <3>2, <3>4, <3>6
  <2> QED BY <2>2, <2>3, <2>4, <1>0, <1>1, <2>1 DEF ReadInv, TransferInv
<1> QED BY <1>3, <1>4

\* A look at the status that changes nothing else keeps the words and the
\* drive in step.
LEMMA LookKeepsTransfer ==
  ASSUME ReadTypeOK, StatusRead, UNCHANGED <<request, sector, dest>>,
         DestIsPrefix, DriveIsOnTime, Copied' = Copied, pc # "data",
         pc' = "data" => drive.mode = "data"
  PROVE  DestIsPrefix' /\ DriveIsOnTime'
<1>1. drive \in Drives
  BY DEF ReadTypeOK
<1>2. DestIsPrefix'
  BY DEF DestIsPrefix
<1>3. DriveIsOnTime'
  BY <1>1, StatusReadFacts DEF DriveIsOnTime
<1> QED BY <1>2, <1>3

\* From poll the driver gets on with a sector that is there, or, after the
\* last look, with a drive that shows what it does.
LEMMA PollKeepsReads ==
  ASSUME WholeReads, ReadInv, poll
  PROVE  ReadInv'
<1>0. ReadTypeOK /\ TransferInv
  BY DEF ReadInv
<1>1. /\ pc = "poll" /\ StatusRead /\ UNCHANGED <<request, sector, dest, result>>
      /\ n \in Nat /\ drive \in Drives /\ request \in Reads
  BY <1>0 DEF poll, ReadTypeOK, TransferInv
<1>2. request.count \in 1 .. 255
  BY <1>1 DEF WholeReads
<1>3. drive' \in Drives /\ drive'.failed = drive.failed
      /\ drive'.mode = drive.mode /\ drive'.left = drive.left
  BY <1>1, StatusReadFacts
<1>4. pc' \in {"poll", "busy", "data", "done"} /\ n' \in Nat
  BY <1>1 DEF poll, NextSector, StatusDelay
<1>5. ReadTypeOK'
  BY <1>0, <1>1, <1>3, <1>4 DEF ReadTypeOK, Places
<1>6. ASSUME ~drive.failed PROVE DestIsPrefix' /\ DriveIsOnTime' /\ PlaceIsRight'
  <2>1. DestIsPrefix /\ DriveIsOnTime /\ sector = 0 /\ n < StatusDelay /\ drive.stale + n <= StatusDelay
    BY <1>0, <1>1, <1>6 DEF TransferInv, PlaceIsRight, Transfer
  <2>2. CASE "BSY" \notin Status /\ "DRQ" \in Status
    <3>1. drive.stale = 0 /\ drive.mode = "data"
      BY <1>1, <2>1, <2>2, StatusFacts DEF DriveIsOnTime
    <3>2. pc' = "data" /\ n' = 0
      BY <1>1, <1>2, <2>1, <2>2 DEF poll, NextSector
    <3>3. Copied' = Copied
      BY <1>1, <2>1, <3>2, SectorAssumption DEF Copied
    <3>4. DestIsPrefix' /\ DriveIsOnTime'
      BY <1>0, <1>1, <2>1, <3>1, <3>3, LookKeepsTransfer
    <3>5. drive'.mode = "data" /\ drive'.word = 0
      BY <1>1, <2>1, <3>1, StatusReadFacts DEF DriveIsOnTime
    <3>6. PlaceIsRight'
      BY <3>2, <3>5, SectorAssumption DEF PlaceIsRight
    <3> QED BY <3>4, <3>6
  <2>3. CASE ~("BSY" \notin Status /\ "DRQ" \in Status)
    <3>1. pc' = (IF n = StatusDelay - 1 THEN "busy" ELSE "poll") /\ n' = (n + 1) % StatusDelay
      BY <1>1, <2>3 DEF poll
    <3>2. Copied' = Copied
      BY <1>1, <3>1 DEF Copied
    <3>3. DestIsPrefix' /\ DriveIsOnTime'
      BY <1>0, <1>1, <2>1, <3>1, <3>2, LookKeepsTransfer
    <3>4. drive'.stale = (IF drive.stale > 0 THEN drive.stale - 1 ELSE 0) /\ drive.stale \in 0 .. 4
      BY <1>1, StatusReadFacts DEF Drives, StatusDelay
    <3>5. PlaceIsRight'
      BY <1>1, <2>1, <3>1, <3>4 DEF PlaceIsRight, StatusDelay
    <3> QED BY <3>3, <3>5
  <2> QED BY <2>2, <2>3
<1>7. ReadIsRight' /\ request' \in Reads
  BY <1>1, <1>4 DEF ReadIsRight
<1> QED BY <1>3, <1>4, <1>5, <1>6, <1>7 DEF ReadInv, TransferInv

\* The loop ends with a sector to read or with the last one read.
LEMMA BusyKeepsReads ==
  ASSUME WholeReads, ReadInv, busy
  PROVE  ReadInv'
<1>0. ReadTypeOK /\ TransferInv
  BY DEF ReadInv
<1>1. /\ pc = "busy" /\ StatusRead /\ UNCHANGED <<request, sector, dest, result>> /\ n' = 0
      /\ sector \in Nat /\ drive \in Drives /\ request \in Reads
      /\ pc' = (IF "BSY" \in Status THEN "busy" ELSE NextSector(sector))
  BY <1>0 DEF busy, ReadTypeOK, TransferInv
<1>2. request.count \in 1 .. 255
  BY <1>1 DEF WholeReads
<1>3. drive' \in Drives /\ drive'.failed = drive.failed
      /\ drive'.mode = drive.mode /\ drive'.left = drive.left
  BY <1>1, StatusReadFacts
<1>4. pc' \in {"busy", "data", "done"}
  BY <1>1 DEF NextSector
<1>5. ReadTypeOK'
  BY <1>0, <1>1, <1>3, <1>4 DEF ReadTypeOK, Places
<1>6. ASSUME ~drive.failed PROVE DestIsPrefix' /\ DriveIsOnTime' /\ PlaceIsRight'
  <2>1. DestIsPrefix /\ DriveIsOnTime /\ drive.stale = 0 /\ drive.left \in Nat
    BY <1>0, <1>1, <1>6 DEF TransferInv, PlaceIsRight, Transfer, Drives
  <2>2. pc' = "data" => drive.mode = "data"
    BY <1>1, <1>2, <2>1, StatusFacts DEF DriveIsOnTime, NextSector
  <2>3. pc' = "done" => drive.left = 0
    BY <1>1, <1>2, <2>1 DEF DriveIsOnTime, NextSector
  <2>4. Copied' = Copied
    <3>1. sector * WordsPerSector \in Nat
      BY <1>1, SectorAssumption, SMTT(30)
    <3> QED BY <1>1, <1>4, <3>1 DEF Copied
  <2>5. DestIsPrefix' /\ DriveIsOnTime'
    BY <1>0, <1>1, <2>1, <2>2, <2>4, LookKeepsTransfer
  <2>6. drive'.stale = 0 /\ drive'.word = drive.word
    BY <1>1, <2>1, StatusReadFacts
  <2>7. PlaceIsRight'
    BY <1>1, <1>3, <1>4, <2>1, <2>2, <2>3, <2>6, SectorAssumption DEF PlaceIsRight, DriveIsOnTime
  <2> QED BY <2>5, <2>7
<1>7. ReadIsRight' /\ request' \in Reads
  BY <1>1, <1>4 DEF ReadIsRight
<1> QED BY <1>3, <1>4, <1>5, <1>6, <1>7 DEF ReadInv, TransferInv

\* Four reads of the status are as long as the drive may take to be busy.
LEMMA DelayKeepsReads ==
  ASSUME WholeReads, ReadInv, delay
  PROVE  ReadInv'
<1>0. ReadTypeOK /\ TransferInv
  BY DEF ReadInv
<1>1. /\ pc = "delay" /\ StatusRead /\ UNCHANGED <<request, sector, dest, result>>
      /\ n \in Nat /\ drive \in Drives /\ request \in Reads
      /\ pc' = (IF n = StatusDelay - 1 THEN "busy" ELSE "delay") /\ n' = (n + 1) % StatusDelay
  BY <1>0 DEF delay, ReadTypeOK, TransferInv
<1>2. n' \in Nat
  BY <1>1 DEF StatusDelay
<1>3. drive' \in Drives /\ drive'.failed = drive.failed
      /\ drive'.mode = drive.mode /\ drive'.left = drive.left
  BY <1>1, StatusReadFacts
<1>5. ReadTypeOK'
  BY <1>0, <1>1, <1>2, <1>3 DEF ReadTypeOK, Places
<1>6. ASSUME ~drive.failed PROVE DestIsPrefix' /\ DriveIsOnTime' /\ PlaceIsRight'
  <2>1. DestIsPrefix /\ DriveIsOnTime /\ n < StatusDelay /\ drive.stale + n <= StatusDelay
    BY <1>0, <1>1, <1>6 DEF TransferInv, PlaceIsRight, Transfer
  <2>2. Copied' = Copied
    BY <1>1 DEF Copied
  <2>3. DestIsPrefix' /\ DriveIsOnTime'
    BY <1>0, <1>1, <2>1, <2>2, LookKeepsTransfer
  <2>4. drive'.stale = (IF drive.stale > 0 THEN drive.stale - 1 ELSE 0) /\ drive.stale \in 0 .. 4
    BY <1>1, StatusReadFacts DEF Drives, StatusDelay
  <2>5. PlaceIsRight'
    BY <1>1, <2>1, <2>4 DEF PlaceIsRight, StatusDelay
  <2> QED BY <2>3, <2>5
<1>7. ReadIsRight' /\ request' \in Reads
  BY <1>1 DEF ReadIsRight
<1> QED BY <1>1, <1>3, <1>5, <1>6, <1>7 DEF ReadInv, TransferInv

\* What reading the data register does to a drive that has a sector.
LEMMA DataReadFacts ==
  ASSUME drive \in Drives, drive.mode = "data", drive.left > 0, DataRead
  PROVE  /\ drive' \in Drives
         /\ drive'.unit = drive.unit /\ drive'.failed = drive.failed
         /\ drive.word + 1 < WordsPerSector =>
              /\ drive'.word = drive.word + 1 /\ drive'.mode = "data" /\ drive'.stale = drive.stale
              /\ drive'.lba = drive.lba /\ drive'.left = drive.left
         /\ ~(drive.word + 1 < WordsPerSector) =>
              /\ drive'.left = drive.left - 1
              /\ drive.left > 1 => drive'.mode = "busy" /\ drive'.lba = drive.lba + 1
              /\ drive.left = 1 => drive'.mode = "idle" /\ drive'.stale = drive.stale
<1>0. drive.left \in Nat /\ drive.word \in Nat /\ drive.lba \in Int /\ "busy" \in Modes /\ "idle" \in Modes
  BY DEF Drives, Modes
<1>1. CASE drive.word + 1 < WordsPerSector
  <2>1. drive' = [drive EXCEPT !.word = drive.word + 1]
    BY <1>1 DEF DataRead
  <2>2. drive.word + 1 \in Nat
    BY <1>0
  <2>3. drive' \in Drives
    BY <2>1, <2>2, Zenon DEF Drives
  <2> QED BY <1>0, <1>1, <2>1, <2>3 DEF Drives
<1>2. CASE ~(drive.word + 1 < WordsPerSector) /\ drive.left = 1
  <2>1. drive' = [drive EXCEPT !.mode = "idle", !.left = 0] /\ 0 \in Nat
    BY <1>2 DEF DataRead
  <2>2. drive' \in Drives
    BY <1>0, <2>1, Zenon DEF Drives
  <2>3. /\ drive'.unit = drive.unit /\ drive'.failed = drive.failed /\ drive'.left = 0
        /\ drive'.mode = "idle" /\ drive'.stale = drive.stale
    BY <2>1 DEF Drives
  <2> QED BY <1>0, <1>2, <2>2, <2>3
<1>3. CASE ~(drive.word + 1 < WordsPerSector) /\ drive.left # 1
  <2>1. PICK stale \in 0 .. StatusDelay :
          drive' = [drive EXCEPT !.mode = "busy", !.left = drive.left - 1, !.lba = drive.lba + 1, !.stale = stale]
    BY <1>3 DEF DataRead
  <2>2. drive.left - 1 \in Nat /\ drive.lba + 1 \in Int
    BY <1>0
  <2>3. drive' \in Drives
    BY <1>0, <2>1, <2>2, Zenon DEF Drives
  <2>4. /\ drive'.unit = drive.unit /\ drive'.failed = drive.failed /\ drive'.left = drive.left - 1
        /\ drive'.mode = "busy" /\ drive'.lba = drive.lba + 1
    BY <2>1 DEF Drives
  <2> QED BY <1>0, <1>3, <2>3, <2>4
<1> QED BY <1>1, <1>2, <1>3

\* The next word is the next one that was asked for, and the loops and the
\* drive come to the end of a sector together.
LEMMA DataKeepsReads ==
  ASSUME WholeReads, ReadInv, data
  PROVE  ReadInv'
<1>0. ReadTypeOK /\ TransferInv
  BY DEF ReadInv
<1>1. /\ pc = "data" /\ DataRead /\ dest' = Append(dest, DataWord)
      /\ UNCHANGED <<request, result>>
      /\ n' = (n + 1) % WordsPerSector
      /\ pc' = (IF n = WordsPerSector - 1 THEN "delay" ELSE "data")
      /\ sector' = (IF n = WordsPerSector - 1 THEN sector + 1 ELSE sector)
  BY DEF data
<1>2. /\ n \in Nat /\ sector \in Nat /\ drive \in Drives /\ dest \in Seq(Words)
      /\ drive.left \in Nat /\ drive.word \in Nat /\ (drive.mode = "data" => drive.left > 0)
  BY <1>0 DEF ReadTypeOK, Drives
<1>3. WordsPerSector \in Nat \ {0}
  BY SectorAssumption
<1>4. DataWord \in Words
  <2>1. drive.unit \in {0, 1} /\ drive.lba \in Int /\ drive.word \in Nat
    BY <1>2 DEF Drives
  <2> QED BY <2>1 DEF DataWord, Words
<1>5. dest' \in Seq(Words) /\ Len(dest') = Len(dest) + 1 /\ dest'[Len(dest) + 1] = DataWord
      /\ \A i \in 1 .. Len(dest) : dest'[i] = dest[i]
  BY <1>1, <1>2, <1>4, AppendProperties
<1>6. drive' \in Drives /\ drive'.failed = drive.failed /\ (drive'.mode = "data" => drive'.left > 0)
  <2>1. CASE drive.mode = "data"
    <3>1. drive.left > 0
      BY <1>2, <2>1
    <3> QED BY <1>1, <1>2, <2>1, <3>1, <1>3, DataReadFacts
  <2>2. CASE drive.mode # "data"
    BY <1>1, <1>2, <2>2 DEF DataRead
  <2> QED BY <2>1, <2>2
<1>7. n' \in Nat /\ sector' \in Nat
  <2>1. (n + 1) % WordsPerSector \in 0 .. WordsPerSector - 1
    BY <1>2, <1>3, Division
  <2> QED BY <2>1, <1>1, <1>2, <1>3
<1>8. ReadTypeOK'
  BY <1>0, <1>1, <1>5, <1>6, <1>7 DEF ReadTypeOK, Places
<1>9. ASSUME ~drive.failed PROVE DestIsPrefix' /\ DriveIsOnTime' /\ PlaceIsRight'
  <2>1. DestIsPrefix /\ DriveIsOnTime /\ drive.mode = "data" /\ drive.word = n /\ n < WordsPerSector
    BY <1>0, <1>1, <1>9 DEF TransferInv, PlaceIsRight, Transfer
  <2>2. drive.left > 0 /\ drive.stale = 0 /\ drive.unit = 0 /\ drive.lba = request.lba + sector
        /\ sector + drive.left = request.count
    BY <1>2, <2>1 DEF DriveIsOnTime
  <2> DEFINE k == sector * WordsPerSector + n
  <2>3. n \in 0 .. WordsPerSector - 1
    BY <1>2, <1>3, <2>1
  <2>4. /\ k \in Nat /\ (k \div WordsPerSector) = sector /\ (k % WordsPerSector) = n
        /\ (sector + 1) * WordsPerSector = sector * WordsPerSector + WordsPerSector
        /\ sector * WordsPerSector \in Nat
    <3>1. /\ sector * WordsPerSector \in Nat
          /\ (sector + 1) * WordsPerSector = sector * WordsPerSector + WordsPerSector
          /\ (k \div WordsPerSector) = sector /\ (k % WordsPerSector) = n
      BY <1>2, <2>3, SectorArithmetic
    <3> QED BY <3>1, <1>2
  <2>5. Copied = k /\ Len(dest) = k
    BY <1>1, <2>1 DEF Copied, DestIsPrefix
  <2>6. n' = (IF n = WordsPerSector - 1 THEN 0 ELSE n + 1)
    <3>1. CASE n = WordsPerSector - 1
      <4>1. n + 1 = WordsPerSector /\ (WordsPerSector % WordsPerSector) = 0
        <5>1. 0 \in 0 .. WordsPerSector - 1 /\ 1 \in Nat
          BY <1>3
        <5>2. ((0 + 1) * WordsPerSector = 0 * WordsPerSector + WordsPerSector)
              /\ ((1 * WordsPerSector + 0) % WordsPerSector) = 0
          BY <5>1, SectorArithmetic
        <5>3. 1 * WordsPerSector + 0 = WordsPerSector
          BY <1>3
        <5> QED BY <5>2, <5>3, <3>1, <1>2, <1>3
      <4> QED BY <4>1, <1>1, <3>1
    <3>2. CASE n # WordsPerSector - 1
      <4>1. n + 1 \in 0 .. WordsPerSector - 1 /\ 0 \in Nat
        BY <2>3, <3>2, <1>3
      <4>2. ((0 * WordsPerSector + (n + 1)) % WordsPerSector) = n + 1
        BY <4>1, SectorArithmetic
      <4>3. 0 * WordsPerSector + (n + 1) = n + 1
        BY <1>2, <1>3
      <4> QED BY <4>2, <4>3, <1>1, <3>2
    <3> QED BY <3>1, <3>2
  <2>7. Copied' = k + 1
    <3>1. CASE n = WordsPerSector - 1
      <4>1. Copied' = (sector + 1) * WordsPerSector + 0
        BY <1>1, <3>1 DEF Copied
      <4> HIDE DEF k
      <4>2. k = sector * WordsPerSector + n
        BY DEF k
      <4> QED BY <4>1, <4>2, <2>4, <3>1, <1>2, <1>3
    <3>2. CASE n # WordsPerSector - 1
      <4>1. Copied' = sector * WordsPerSector + (n + 1)
        BY <1>1, <2>6, <3>2 DEF Copied
      <4> QED BY <4>1, <2>4, <1>2
    <3> QED BY <3>1, <3>2
  <2>8. DataWord = WordAt(request, k + 1)
    <3>1. request.drive = 0
      BY <1>0, <1>1 DEF WholeReads, TransferInv
    <3>2. k + 1 - 1 = k
      BY <2>4
    <3>3. DataWord = <<0, request.lba + sector, n>>
      BY <2>1, <2>2 DEF DataWord
    <3> HIDE DEF k
    <3> QED BY <3>1, <3>2, <3>3, <2>4 DEF WordAt
  <2>9. DestIsPrefix'
    <3> HIDE DEF k
    <3>1. Len(dest') = Copied'
      BY <1>5, <2>5, <2>7
    <3>2. ASSUME NEW i \in 1 .. k + 1 PROVE dest'[i] = WordAt(request', i)
      <4>1. CASE i \in 1 .. k
        BY <4>1, <1>1, <1>5, <2>1, <2>5 DEF DestIsPrefix, WordAt
      <4>2. CASE i = k + 1
        BY <4>2, <1>1, <1>5, <2>5, <2>8 DEF WordAt
      <4> QED BY <4>1, <4>2, <2>4
    <3> QED BY <3>1, <3>2, <2>7 DEF DestIsPrefix
  <2>10. DriveIsOnTime' /\ PlaceIsRight'
    <3> HIDE DEF k
    <3>1. CASE n = WordsPerSector - 1
      <4>1. ~(drive.word + 1 < WordsPerSector)
        BY <2>1, <3>1, <1>3
      <4>2. drive'.unit = 0 /\ drive'.left = drive.left - 1
            /\ (drive.left > 1 => drive'.mode = "busy" /\ drive'.lba = drive.lba + 1)
            /\ (drive.left = 1 => drive'.mode = "idle" /\ drive'.stale = drive.stale)
        BY <1>1, <1>2, <2>1, <2>2, <4>1, DataReadFacts
      <4>3. pc' = "delay" /\ n' = 0 /\ sector' = sector + 1 /\ request' = request
        BY <1>1, <2>6, <3>1
      <4>4. request.lba \in Int /\ request.count \in Nat /\ drive'.stale \in 0 .. 4
        <5>1. request \in Reads
          BY <1>0, <1>1 DEF TransferInv
        <5>2. request.lba \in Nat /\ request.count \in 1 .. 255
          BY <5>1 DEF WholeReads, Addresses
        <5>3. drive'.stale \in 0 .. 4
          BY <1>6 DEF Drives, StatusDelay
        <5> QED BY <5>2, <5>3
      <4>5. DriveIsOnTime'
        BY <1>2, <2>2, <4>2, <4>3, <4>4 DEF DriveIsOnTime
      <4>6. PlaceIsRight'
        BY <4>3, <4>4 DEF PlaceIsRight, StatusDelay
      <4> QED BY <4>5, <4>6
    <3>2. CASE n # WordsPerSector - 1
      <4>1. drive.word + 1 < WordsPerSector
        BY <2>1, <2>3, <3>2, <1>3
      <4>2. drive'.unit = 0 /\ drive'.left = drive.left /\ drive'.word = n + 1
            /\ drive'.mode = "data" /\ drive'.stale = 0 /\ drive'.lba = drive.lba
        BY <1>1, <1>2, <2>1, <2>2, <4>1, DataReadFacts
      <4>3. pc' = "data" /\ n' = n + 1 /\ sector' = sector /\ request' = request
        BY <1>1, <2>6, <3>2
      <4>4. DriveIsOnTime'
        BY <1>2, <2>2, <4>2, <4>3 DEF DriveIsOnTime
      <4>5. PlaceIsRight'
        BY <2>1, <4>1, <4>2, <4>3 DEF PlaceIsRight
      <4> QED BY <4>4, <4>5
    <3> QED BY <3>1, <3>2
  <2> QED BY <2>9, <2>10
<1>10. ReadIsRight' /\ request' \in Reads
  BY <1>0, <1>1 DEF ReadIsRight, TransferInv
<1> QED BY <1>1, <1>6, <1>8, <1>9, <1>10 DEF ReadInv, TransferInv

\* The command asks the drive for what the caller wants, whatever state the
\* drive was left in.
LEMMA CommandKeepsReads ==
  ASSUME WholeReads, ReadInv, ata_wait_until_not_busy
  PROVE  ReadInv'
<1>0. /\ ReadTypeOK /\ TransferInv /\ pc = "wait" /\ request \in Reads /\ result = "none"
      /\ n \in Nat /\ sector \in Nat /\ drive \in Drives
  BY DEF ReadInv, ReadTypeOK, TransferInv, ata_wait_until_not_busy
<1>1. request.lba \in Addresses /\ request.lba \in Nat /\ request.count \in 1 .. 255 /\ request.drive = 0
  BY <1>0 DEF WholeReads, Addresses
<1>2. CASE pc' \in {"wait", "idle"}
  <2>1. StatusRead /\ UNCHANGED <<request, sector, dest>> /\ n' \in {0, 1}
        /\ (pc' = "idle" => result' = "FALSE") /\ (pc' = "wait" => result' = "none")
    BY <1>0, <1>2 DEF ata_wait_until_not_busy, Return
  <2>2. drive' \in Drives /\ drive'.mode = drive.mode /\ drive'.left = drive.left
    BY <1>0, <2>1, StatusReadFacts
  <2>3. ReadTypeOK'
    BY <1>0, <1>2, <2>1, <2>2 DEF ReadTypeOK, Places
  <2>4. TransferInv'
    BY <1>0, <1>2, <2>1 DEF TransferInv, Transfer, ReadIsRight
  <2> QED BY <2>3, <2>4 DEF ReadInv
<1>3. CASE pc' \notin {"wait", "idle"}
  <2>1. /\ SetRegisters /\ Command /\ pc' = "poll" /\ n' = 0
        /\ UNCHANGED <<request, sector, dest, result>>
    BY <1>0, <1>3 DEF ata_wait_until_not_busy, Return
  <2>2. 6 \in HeadBits(0) /\ 4 \notin HeadBits(0)
    BY DEF HeadBits, ata_set_mode_lba, ata_select_drive
  <2> DEFINE lba == port'.low + 256 * (port'.mid + 256 * (port'.high + 256 * port'.head))
  <2>3. /\ port'.count = request.count /\ port'.bits = HeadBits(0)
        /\ port'.low = request.lba % 256 /\ port'.mid = (request.lba \div 256) % 256
        /\ port'.high = (request.lba \div 65536) % 256
        /\ port'.head = ((request.lba \div 65536) \div 256) % 16
    BY <2>1, <1>1 DEF SetRegisters
  <2>4. lba = request.lba
    BY <2>3, <1>1, RegistersHoldLba
  <2>5. PICK stale \in 0 .. StatusDelay :
          drive' = [mode |-> "busy", unit |-> 0, lba |-> request.lba, left |-> request.count,
                    word |-> 0, stale |-> stale, failed |-> FALSE]
    <3> HIDE DEF lba
    <3>1. PICK stale \in 0 .. StatusDelay :
            drive' = [mode   |-> "busy",
                      unit   |-> IF 4 \in port'.bits THEN 1 ELSE 0,
                      lba    |-> IF 6 \in port'.bits THEN lba ELSE -1,
                      left   |-> IF port'.count = 0 THEN 256 ELSE port'.count,
                      word   |-> 0, stale |-> stale, failed |-> FALSE]
      BY <2>1 DEF Command, lba
    <3>2. ~(port'.count = 0)
      BY <2>3, <1>1
    <3>3. /\ (IF 4 \in port'.bits THEN 1 ELSE 0) = 0
          /\ (IF 6 \in port'.bits THEN lba ELSE -1) = request.lba
          /\ (IF port'.count = 0 THEN 256 ELSE port'.count) = request.count
      BY <2>2, <2>3, <2>4, <3>2
    <3> QED BY <3>1, <3>3
  <2>6. "busy" \in Modes /\ 0 \in {0, 1} /\ request.lba \in Int /\ request.count \in Nat /\ 0 \in Nat
    BY <1>1 DEF Modes
  <2>7. drive' \in Drives
    BY <2>5, <2>6, Zenon DEF Drives
  <2>8. /\ drive'.mode = "busy" /\ drive'.unit = 0 /\ drive'.lba = request.lba
        /\ drive'.left = request.count /\ drive'.stale \in 0 .. StatusDelay
    BY <2>5
  <2>9. ReadTypeOK'
    BY <1>0, <2>1, <2>7, <2>8 DEF ReadTypeOK, Places
  <2>10. sector = 0 /\ dest = <<>>
    BY <1>0 DEF TransferInv
  <2>11. Copied' = 0
    BY <2>1, <2>10, SectorAssumption DEF Copied
  <2>12. DestIsPrefix'
    BY <2>1, <2>10, <2>11 DEF DestIsPrefix
  <2>13. DriveIsOnTime' /\ PlaceIsRight'
    <3>1. 0 + request.count = request.count /\ request.lba + 0 = request.lba /\ request.count # 0
      BY <1>1
    <3>2. sector' = 0 /\ request' = request
      BY <2>1, <2>10
    <3>3. DriveIsOnTime'
      BY <2>8, <3>1, <3>2 DEF DriveIsOnTime
    <3>4. drive'.stale + 0 <= StatusDelay /\ 0 < StatusDelay
      BY <2>8 DEF StatusDelay
    <3>5. PlaceIsRight'
      BY <2>1, <3>2, <3>4 DEF PlaceIsRight
    <3> QED BY <3>3, <3>5
  <2>14. TransferInv'
    BY <1>0, <2>1, <2>12, <2>13 DEF TransferInv, ReadIsRight
  <2> QED BY <2>9, <2>14 DEF ReadInv
<1> QED BY <1>2, <1>3

\* What a call that succeeds has delivered.
LEMMA DoneKeepsReads ==
  ASSUME WholeReads, ReadInv, done
  PROVE  ReadInv'
<1>0. /\ ReadTypeOK /\ TransferInv /\ pc = "done" /\ request \in Reads
      /\ sector \in Nat /\ dest \in Seq(Words) /\ drive \in Drives
  BY DEF ReadInv, ReadTypeOK, TransferInv, done
<1>1. /\ pc' = "idle" /\ result' = "TRUE" /\ n' = 0
      /\ UNCHANGED <<request, sector, dest, drive>>
  BY DEF done, Return
<1>2. ReadTypeOK'
  BY <1>0, <1>1 DEF ReadTypeOK, Places
<1>3. ASSUME ~drive.failed PROVE dest = Wanted(request) /\ drive.mode = "idle"
  <2>1. DestIsPrefix /\ drive.mode = "idle" /\ drive.left = 0 /\ sector + drive.left = request.count
    BY <1>0, <1>3 DEF TransferInv, PlaceIsRight, DriveIsOnTime, Transfer
  <2>2. sector = request.count
    BY <1>0, <2>1
  <2>3. Copied = request.count * WordsPerSector /\ Copied \in Nat
    <3>1. sector * WordsPerSector \in Nat
      BY <1>0, SectorAssumption, SMTT(30)
    <3> QED BY <1>0, <2>2, <3>1 DEF Copied
  <2> DEFINE k == request.count * WordsPerSector
  <2>4. Wanted(request) = [i \in 1 .. k |-> WordAt(request, i)]
    BY DEF Wanted, WordAt
  <2>5. dest = [i \in 1 .. k |-> dest[i]] /\ \A i \in 1 .. k : dest[i] = WordAt(request, i)
    <3> HIDE DEF k
    <3>1. k = Copied
      BY <2>3 DEF k
    <3>2. dest = [i \in 1 .. Len(dest) |-> dest[i]]
      BY <1>0
    <3> QED BY <2>1, <3>1, <3>2 DEF DestIsPrefix
  <2>6. [i \in 1 .. k |-> dest[i]] = [i \in 1 .. k |-> WordAt(request, i)]
    <3> HIDE DEF k
    <3> QED BY <2>5
  <2> QED BY <2>1, <2>4, <2>5, <2>6
<1>4. ReadIsRight'
  <2>1. Wanted(request)' = Wanted(request)
    BY <1>1 DEF Wanted
  <2> QED BY <1>1, <1>3, <2>1 DEF ReadIsRight
<1>5. TransferInv'
  BY <1>1, <1>4 DEF TransferInv, Transfer
<1> QED BY <1>2, <1>5 DEF ReadInv

LEMMA ReadStep == WholeReads /\ ReadInv /\ [Next]_vars => ReadInv'
<1> SUFFICES ASSUME WholeReads, ReadInv, [Next]_vars PROVE ReadInv'
  OBVIOUS
<1>0. ReadTypeOK /\ TransferInv
  BY DEF ReadInv
<1>1. ASSUME UNCHANGED <<pc, request, sector, dest, result, drive>>, n' \in Nat,
             pc \in Transfer => n' = n
      PROVE  ReadInv'
  BY <1>0, <1>1 DEF ReadInv, ReadTypeOK, TransferInv, ReadIsRight, DestIsPrefix, Copied, WordAt,
     DriveIsOnTime, PlaceIsRight, Transfer, Wanted
<1>2. CASE timer_handler
  BY <1>0, <1>1, <1>2 DEF timer_handler, ReadTypeOK, Transfer
<1>3. CASE UNCHANGED vars
  BY <1>0, <1>1, <1>3 DEF vars, call, ReadTypeOK
<1>4. CASE DriveReady \/ DriveFails
  BY <1>4, DriveKeepsReads
<1>5. ASSUME NEW t \in Sleeps, timer_wait(t) PROVE ReadInv'
  BY <1>0, <1>5 DEF timer_wait, ReadInv, ReadTypeOK, TransferInv, ReadIsRight, Transfer, Places
<1>6. ASSUME NEW r \in Reads, ata_read_lba28(r) PROVE ReadInv'
  <2>1. dest' \in Seq(Words)
    BY <1>6 DEF ata_read_lba28
  <2> QED BY <1>0, <1>6, <2>1 DEF ata_read_lba28, ReadInv, ReadTypeOK, TransferInv, ReadIsRight, Transfer, Places
<1>7. CASE ata_wait_until_not_busy
  BY <1>7, CommandKeepsReads
<1>8. CASE poll \/ busy \/ data \/ delay \/ done
  BY <1>8, PollKeepsReads, BusyKeepsReads, DataKeepsReads, DelayKeepsReads, DoneKeepsReads
<1>9. CASE sleep
  <2>1. CASE pc' = "sleep"
    BY <1>0, <1>1, <1>9, <2>1 DEF sleep, Return, Transfer
  <2>2. CASE pc' # "sleep"
    BY <1>0, <1>9, <2>2 DEF sleep, Return, ReadInv, ReadTypeOK, TransferInv, ReadIsRight, Transfer, Places
  <2> QED BY <2>1, <2>2
<1> QED BY <1>2, <1>3, <1>4, <1>5, <1>6, <1>7, <1>8, <1>9 DEF Next, Driver

\* A read that succeeds on a drive without errors delivers each word of the
\* sectors asked for, once and in order, and leaves the drive idle: for any
\* number of words in a sector, any requests of whole sectors, and whatever
\* state the drive was in before.
THEOREM ReadsAreAlwaysRight == WholeReads => (FairSpec => []ReadIsRight)
<1>1. ReadInv => ReadIsRight
  BY DEF ReadInv, TransferInv
<1>2. ASSUME WholeReads PROVE ReadInv /\ [Next]_vars => ReadInv'
  BY <1>2, ReadStep
<1>3. ASSUME WholeReads PROVE FairSpec => []ReadIsRight
  BY <1>2, <1>3, ReadInitial, <1>1, PTL DEF FairSpec
<1> QED BY <1>3

=============================================================================
