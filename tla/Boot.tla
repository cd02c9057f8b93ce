------------------------------- MODULE Boot -------------------------------
(***************************************************************************)
(* The whole boot: what the boot loader hands over, the kernel's entry     *)
(* code sets the physical memory manager up with.                          *)
(***************************************************************************)
EXTENDS BootMemory, BootLoader

\* The replies of a BIOS that mean an entry of its memory map.
Meant(report) ==
  {i \in DOMAIN report : /\ report[i].size > 0 /\ report[i].entry.length > 0
                         /\ report[i].size <= 20 \/ ~report[i].ignore}

\* The memory map is what a BIOS means to report, in the order of its replies,
\* if it gives more than one, or one and then an error.
ASSUME ReportAssumption ==
  \A b \in Bioses :
    LET meant == Meant(b.report)
    IN  Len(b.report) > (IF b.carry THEN 0 ELSE 1) =>
          /\ Len(BiosMap) = Cardinality(meant)
          /\ \A i \in meant :
               BiosMap[Cardinality(meant \cap (1 .. i))] = b.report[i].entry

WholeInit == BootInit /\ LoaderInit

WholeNext ==
  \/ LoaderNext /\ UNCHANGED bootVars
  \/ phase = "entered" /\ BootNext /\ UNCHANGED loaderVars

WholeSpec ==
  /\ WholeInit
  /\ [][WholeNext]_<<bootVars, loaderVars>>
  /\ WF_loaderVars(LoaderNext /\ UNCHANGED bootVars)

\* The kernel is told of all memory the BIOS reports, of no more than that,
\* and in the order of the report, however the BIOS ends its list.
MapIsHandedOn == phase = "entered" => mmap = BiosMap

=============================================================================
