------------------------------ MODULE MCBoot ------------------------------
(***************************************************************************)
(* The boot of a machine of seventeen blocks of four bytes laid out like a *)
(* PC: GDT in block 0, kernel stack in 3, page directory and tables in 4   *)
(* to 6, low memory ending inside block 8, where the EBDA begins, ROM area *)
(* in 9 and 10, bitmap in 11, kernel in 13, reserved firmware memory in 14 *)
(* and ACPI data in 15; and the real layout, for what is assumed of it.    *)
(***************************************************************************)
EXTENDS Boot

Entry(h, b, n, t) == [high |-> h, base |-> b, length |-> n, type |-> t]

PlainMap ==
  <<Entry(0, 0, 34, 1), Entry(0, 34, 2, 2), Entry(0, 40, 4, 2),
    Entry(0, 44, 12, 1), Entry(0, 56, 4, 4), Entry(0, 60, 4, 3),
    Entry(0, 64, 8, 1)>>

\* The report has an empty entry, one to be ignored and one of no size first,
\* between and just before the others.
PlainReport ==
  LET Reply(n, i, e) == [size |-> n, ignore |-> i, entry |-> e]
  IN  <<Reply(24, TRUE, Entry(0, 0, 8, 1)), Reply(20, TRUE, PlainMap[1]),
        Reply(24, FALSE, PlainMap[2]), Reply(20, FALSE, Entry(0, 40, 0, 1)),
        Reply(24, FALSE, PlainMap[3]), Reply(20, FALSE, PlainMap[4]),
        Reply(24, FALSE, PlainMap[5]), Reply(24, FALSE, PlainMap[6]),
        Reply(0, FALSE, Entry(0, 0, 4, 1)), Reply(24, FALSE, PlainMap[7])>>

MCBioses ==
  {[report |-> PlainReport, carry |-> FALSE], [report |-> PlainReport, carry |-> TRUE],
   [report |-> <<PlainReport[3]>>, carry |-> FALSE], [report |-> <<>>, carry |-> TRUE]}

MCUsedBefore == <<<<0, 4>>, <<12, 4>>>>
MCUsedAfter == <<<<36, 8>>, <<44, 4>>, <<16, 12>>, <<52, 4>>>>
MCOldPageTable == <<20, 4>>
MCInUse == {<<1, 2>>, <<12, 4>>, <<36, 4>>, <<44, 3>>, <<16, 4>>, <<24, 4>>, <<52, 3>>}

\* A machine with RAM from the bitmap on, of which stage 2 maps two blocks for
\* the kernel.
WindowMap == <<Entry(0, 0, 34, 1), Entry(0, 34, 10, 2), Entry(0, 44, 24, 1)>>
MCKernelWindow == <<52, 8>>

ReportOf(map) == {[report |-> [i \in DOMAIN map |-> [size |-> 24, ignore |-> FALSE, entry |-> map[i]]],
                   carry |-> TRUE]}
WindowBioses == ReportOf(WindowMap)

\* The regions of kernel_entry.c:171-177, in the order of the program, and
\* what is there: GDT (at 0x70B, five entries), stack, video memory and ROM,
\* bitmap, page directory, the tables for kernel and stack, and the image,
\* which is no longer than 400 KiB.
RealRegions ==
  {<<0, 4096>>, <<516096, 8192>>, <<655360, 393216>>, <<1048576, 262144>>,
   <<524288, 16384>>, <<16777216, 409600>>}
RealInUse ==
  {<<1803, 40>>, <<516096, 8192>>, <<655360, 393216>>, <<1048576, 262144>>,
   <<524288, 4096>>, <<532480, 8192>>, <<16777216, KernelMax>>}

Inside(place, region) ==
  region[1] <= place[1] /\ place[1] + place[2] <= region[1] + region[2]

ASSUME RealLayout ==
  \A place \in RealInUse :
    /\ \E region \in RealRegions : Inside(place, region)
    /\ place[1] + place[2] <= 528384 \/ 532480 <= place[1]


\* Disks whose files are the given chains of clusters.
Disk(files, kernel, end) ==
  [files  |-> files, kernel |-> kernel,
   start  |-> [stage2 |-> 2, kernel |-> kernel[1]],
   fat    |-> [c \in {2} \cup ToSet(kernel) |->
                 LET next == {i \in 2 .. Len(kernel) : kernel[i - 1] = c}
                 IN  IF next = {} THEN end ELSE kernel[CHOOSE i \in next : TRUE]]]

\* A kernel of one cluster, one in pieces at both ends of the disk, and one
\* of 400 KiB stored backwards; disks without one of the files.
MCDisks ==
  {Disk(Files, <<3>>, 65535),
   Disk(Files, <<7, 4094, 3>>, 65528),
   Disk(Files, [i \in 1 .. 100 |-> 203 - i], 65535),
   Disk({"kernel"}, <<3>>, 65535),
   Disk({"stage2"}, <<3>>, 65535)}

=============================================================================
