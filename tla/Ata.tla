-------------------------------- MODULE Ata --------------------------------
(***************************************************************************)
(* The ATA driver, kernel/drivers/ata.c, against a drive that works at its *)
(* own pace, and the tick counter of kernel/hardware/timer.c that its      *)
(* timeout is measured with, beside timer_wait.  Each read of a port is a  *)
(* step, because the drive and the timer interrupt move between them.      *)
(*                                                                         *)
(* The drive is the environment, as ata.c relies on it: it shows BSY at    *)
(* the latest when its status has been read StatusDelay times (400 ns)     *)
(* after a command or a sector, then DRQ with a sector, or an error.       *)
(* Nothing in the kernel calls ata_read_lba28 or timer_wait yet.           *)
(***************************************************************************)
EXTENDS Integers, Sequences

CONSTANTS
  Reads,        \* [lba, count, drive]: the reads that callers may ask for
  Sleeps,       \* the ticks that callers may wait for
  WordsPerSector, \* 256
  Timeout,      \* 1000 ms
  TickStep,     \* what an interrupt adds to timer_ticks (5)
  Modulus,      \* timer_ticks is a uint32_t: 2^32
  FirstTicks,   \* values of timer_ticks to start from
  Unready,      \* states the drive may be left in by what ran before
  MaxElapsed    \* bound of the ghost clock

ASSUME TimerAssumption ==
  /\ TickStep \in Nat \ {0} /\ Modulus \in Nat \ {0} /\ Timeout \in Nat
  /\ FirstTicks \subseteq 0 .. Modulus - 1
  /\ Unready \subseteq {"idle", "busy", "stuck"}

\* The ghost clock stops only when every wait is over.
ASSUME ClockAssumption ==
  /\ MaxElapsed \in Nat /\ MaxElapsed > Timeout
  /\ Sleeps \subseteq 0 .. MaxElapsed

ASSUME SectorAssumption == WordsPerSector \in Nat \ {0}

VARIABLES
  timer_ticks,
  deadline,     \* startTick + timeout_ms, or eticks
  elapsed,      \* ghost: ticks since the wait began
  pc,           \* where the driver is
  request,      \* arguments of the read in progress
  n,            \* the loop counter at pc
  sector,       \* sectors read so far
  dest,         \* the words written to the caller's buffer
  result,       \* what the last call has returned
  port,         \* the registers: count, low, mid, high, head, bits
  drive         \* the drive: mode, unit, lba, left, word, stale, failed

timer == <<timer_ticks, deadline, elapsed>>
call  == <<pc, request, n, sector, dest, result>>
vars  == <<timer, call, port, drive>>

-----------------------------------------------------------------------------
(* The drive.                                                              *)

StatusDelay == 4

Idle == [mode |-> "idle", unit |-> 0, lba |-> 0, left |-> 0, word |-> 0,
         stale |-> 0, failed |-> FALSE]

\* What a read of the status register shows.  While stale counts down, the
\* status is still that of before the command or of the end of a sector.
Status ==
  IF drive.stale > 0 THEN {}
  ELSE CASE drive.mode = "busy"              -> {"BSY"}
         [] drive.mode \in {"data", "stuck"} -> {"DRQ"}
         [] drive.mode = "error"             -> {"ERR"}
         [] drive.mode = "idle"              -> {}

\* A read of the status brings the moment nearer at which it is true.
StatusRead == drive' = [drive EXCEPT !.stale = IF @ > 0 THEN @ - 1 ELSE 0]

\* A command starts a transfer of count sectors, 256 if that is 0, from the
\* unit and the LBA in the registers; without the LBA bit that means
\* something else.
Command ==
  \E stale \in 0 .. StatusDelay :
    drive' = [mode   |-> "busy",
              unit   |-> IF 4 \in port'.bits THEN 1 ELSE 0,
              lba    |-> IF 6 \in port'.bits
                         THEN port'.low + 256 * (port'.mid + 256 * (port'.high + 256 * port'.head))
                         ELSE -1,
              left   |-> IF port'.count = 0 THEN 256 ELSE port'.count,
              word   |-> 0, stale |-> stale, failed |-> FALSE]

\* The next sector is there, or cannot be read.
DriveReady ==
  /\ drive.mode = "busy"
  /\ drive' = [drive EXCEPT !.stale = 0,
                            !.mode = IF drive.left = 0 THEN "idle" ELSE "data",
                            !.word = 0]
  /\ UNCHANGED <<timer, call, port>>

DriveFails ==
  /\ drive.mode = "busy" /\ drive.left > 0
  /\ drive' = [drive EXCEPT !.stale = 0, !.mode = "error", !.failed = TRUE]
  /\ UNCHANGED <<timer, call, port>>

\* A read of the data register: the next word, and BSY after the last one.
DataWord ==
  IF drive.mode = "data" THEN <<drive.unit, drive.lba, drive.word>> ELSE <<"nothing">>

DataRead ==
  IF drive.mode # "data" THEN UNCHANGED drive
  ELSE IF drive.word + 1 < WordsPerSector THEN drive' = [drive EXCEPT !.word = @ + 1]
  ELSE IF drive.left = 1 THEN drive' = [drive EXCEPT !.mode = "idle", !.left = 0]
  ELSE \E stale \in 0 .. StatusDelay :
         drive' = [drive EXCEPT !.mode = "busy", !.left = @ - 1, !.lba = @ + 1, !.stale = stale]

-----------------------------------------------------------------------------
(* The timer.                                                              *)

\* The ghost clock stands for the time a wait has taken; the timer interrupt
\* comes every 5 ms, so that a waiting loop looks at least once in between.
timer_handler ==
  /\ n = 1 \/ pc \notin {"wait", "sleep"}
  /\ timer_ticks' = (timer_ticks + TickStep) % Modulus
  /\ elapsed' = IF elapsed >= MaxElapsed THEN elapsed ELSE elapsed + TickStep
  /\ n' = IF pc \in {"wait", "sleep"} THEN 0 ELSE n
  /\ UNCHANGED <<deadline, pc, request, sector, dest, result, port, drive>>

Return(value) ==
  /\ pc' = "idle" /\ result' = value /\ n' = 0
  /\ UNCHANGED <<request, sector, dest, port>>

\* A slip: the time-out is counted anew from each look at the ticks.
Expired_renewed == timer_ticks > timer_ticks + Timeout

Expired == timer_ticks > deadline

timer_wait(ticks) ==
  /\ pc = "idle"
  /\ deadline' = (timer_ticks + ticks) % Modulus
  /\ elapsed' = 0 /\ n' = 0
  /\ request' = [ticks |-> ticks]
  /\ pc' = "sleep" /\ result' = "none"
  /\ UNCHANGED <<timer_ticks, sector, dest, port, drive>>

sleep ==
  /\ pc = "sleep"
  /\ \/ timer_ticks < deadline /\ n' = 1 /\ UNCHANGED <<pc, request, sector, dest, result, port>>
     \/ timer_ticks >= deadline /\ Return("slept")
  /\ UNCHANGED <<timer, drive>>

-----------------------------------------------------------------------------
(* ata_read_lba28.                                                         *)

\* A slip: the tick at which the wait begins is not taken again.
ata_read_lba28_old_start(r) ==
  /\ pc = "idle"
  /\ request' = r
  /\ elapsed' = 0 /\ n' = 0
  /\ pc' = "wait" /\ sector' = 0 /\ dest' = <<>> /\ result' = "none"
  /\ UNCHANGED <<timer_ticks, deadline, port, drive>>

ata_read_lba28(r) ==
  /\ pc = "idle"
  /\ request' = r
  /\ deadline' = (timer_ticks + Timeout) % Modulus
  /\ elapsed' = 0 /\ n' = 0
  /\ pc' = "wait" /\ sector' = 0 /\ dest' = <<>> /\ result' = "none"
  /\ UNCHANGED <<timer_ticks, port, drive>>

\* ata_select_drive and ata_set_mode_lba, on what the head register holds.
ata_select_drive(d, bits) == (IF d # 0 THEN bits \cup {4, 5, 7} ELSE bits) \ {4}

ata_set_mode_lba(bits) == bits \cup {6}

HeadBits(d) == ata_set_mode_lba(ata_select_drive(d, {}))

SetRegisters ==
  port' = [count |-> request.count,
           low   |-> request.lba % 256,
           mid   |-> (request.lba \div 256) % 256,
           high  |-> (request.lba \div 65536) % 256,
           head  |-> ((request.lba \div 65536) \div 256) % 16,
           bits  |-> HeadBits(request.drive)]

\* ata_wait_until_not_busy: BSY and DRQ must be clear.
ata_wait_until_not_busy ==
  /\ pc = "wait"
  /\ \/ /\ Status \cap {"BSY", "DRQ"} # {}
        /\ ~Expired
        /\ StatusRead
        /\ n' = 1
        /\ UNCHANGED <<pc, request, sector, dest, result, port>>
     \/ /\ Status \cap {"BSY", "DRQ"} # {}
        /\ Expired
        /\ StatusRead
        /\ Return("FALSE")
     \/ /\ Status \cap {"BSY", "DRQ"} = {}
        /\ SetRegisters
        /\ Command
        /\ pc' = "poll" /\ n' = 0
        /\ UNCHANGED <<request, sector, dest, result>>
  /\ UNCHANGED timer

\* Where the driver is when it has found the drive ready: with a sector to
\* read, or done.
NextSector(s) == IF s < request.count THEN "data" ELSE "done"

\* A slip: the status is believed from the first read on.
poll_believed ==
  /\ pc = "poll"
  /\ StatusRead
  /\ pc' = "busy" /\ n' = 0
  /\ UNCHANGED <<request, sector, dest, result, port, timer>>

\* Four looks at the status, of which only one with DRQ is believed.
poll ==
  /\ pc = "poll"
  /\ StatusRead
  /\ \/ /\ "BSY" \notin Status /\ "DRQ" \in Status
        /\ pc' = NextSector(sector) /\ n' = 0
     \/ /\ ~("BSY" \notin Status /\ "DRQ" \in Status)
        /\ pc' = (IF n = StatusDelay - 1 THEN "busy" ELSE "poll")
        /\ n' = (n + 1) % StatusDelay
  /\ UNCHANGED <<request, sector, dest, result, port, timer>>

\* A slip: the loop waits for data, also after the last sector.
busy_until_data ==
  /\ pc = "busy"
  /\ StatusRead
  /\ pc' = IF "DRQ" \in Status THEN NextSector(sector) ELSE "busy"
  /\ n' = 0
  /\ UNCHANGED <<request, sector, dest, result, port, timer>>

\* The loop that waits for BSY to clear; what stands behind its if, the tests
\* of ERR and DF, is never reached.
busy ==
  /\ pc = "busy"
  /\ StatusRead
  /\ pc' = IF "BSY" \in Status THEN "busy" ELSE NextSector(sector)
  /\ n' = 0
  /\ UNCHANGED <<request, sector, dest, result, port, timer>>

data ==
  /\ pc = "data"
  /\ dest' = Append(dest, DataWord)
  /\ DataRead
  /\ n' = (n + 1) % WordsPerSector
  /\ pc' = IF n = WordsPerSector - 1 THEN "delay" ELSE "data"
  /\ sector' = IF n = WordsPerSector - 1 THEN sector + 1 ELSE sector
  /\ UNCHANGED <<request, result, port, timer>>

delay ==
  /\ pc = "delay"
  /\ StatusRead
  /\ pc' = IF n = StatusDelay - 1 THEN "busy" ELSE "delay"
  /\ n' = (n + 1) % StatusDelay
  /\ UNCHANGED <<request, sector, dest, result, port, timer>>

done ==
  /\ pc = "done"
  /\ Return("TRUE")
  /\ UNCHANGED <<timer, drive>>

-----------------------------------------------------------------------------

Init ==
  /\ timer_ticks \in FirstTicks
  /\ deadline = 0 /\ elapsed = 0
  /\ pc = "idle" /\ n = 0 /\ sector = 0 /\ dest = <<>> /\ result = "none"
  /\ request = <<>>
  /\ port = <<>>
  /\ \E m \in Unready : drive = [Idle EXCEPT !.mode = m]

Driver ==
  \/ ata_wait_until_not_busy
  \/ poll
  \/ busy
  \/ data
  \/ delay
  \/ done
  \/ sleep

Next ==
  \/ timer_handler
  \/ DriveReady
  \/ DriveFails
  \/ \E t \in Sleeps : timer_wait(t)
  \/ \E r \in Reads : ata_read_lba28(r)
  \/ Driver

\* The processor goes on.  Whether ticks come and the drive answers is not the
\* driver's to say: a caller may have interrupts off, and a drive may hang.
FairSpec ==
  /\ Init /\ [][Next]_vars
  /\ WF_vars(Driver)

-----------------------------------------------------------------------------
(* Properties.                                                             *)

\* The words of the sectors that were asked for.
Wanted(r) ==
  [i \in 1 .. r.count * WordsPerSector |->
     <<r.drive, r.lba + (i - 1) \div WordsPerSector, (i - 1) % WordsPerSector>>]

\* A read that succeeds on a drive without errors has delivered the sectors
\* that were asked for, each word once and in order, however slow the drive
\* is to show that it is busy, and leaves the drive ready for the next read.
ReadIsRight ==
  pc = "idle" /\ result = "TRUE" /\ ~drive.failed
    => dest = Wanted(request) /\ drive.mode = "idle"

\* The deadline lies where the counter gets beyond it before it wraps.
DeadlineIsReached == deadline + TickStep < Modulus

\* No wait is cut short: while the deadline does not wrap, a read gives up
\* only after the timeout and timer_wait returns only after its ticks.
WaitIsWhole ==
  pc = "idle" =>
    /\ result = "FALSE" /\ deadline >= Timeout => elapsed > Timeout
    /\ result = "slept" /\ deadline >= request.ticks => elapsed >= request.ticks

\* Every wait with a time-out ends, whatever the drive does, for a caller that
\* has interrupts on: as long as ticks come, and can get past the deadline.
EveryWaitEnds ==
  WF_vars(timer_handler) =>
    ((pc \in {"wait", "sleep"} /\ DeadlineIsReached) ~> (pc \notin {"wait", "sleep"}))

\* Every transfer that is begun ends, with ticks or without, if the drive comes
\* to an answer for each sector; ata.c:88 and 122 wait for that without a limit.
EveryTransferEnds ==
  WF_vars(DriveReady) => ((pc \notin {"idle", "wait", "sleep"}) ~> (pc = "idle"))

=============================================================================
