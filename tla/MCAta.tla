------------------------------- MODULE MCAta -------------------------------
(* Reads of one and two sectors, one of them at an address that needs all  *)
(* four registers, and sleeps, beside a drive in any state.  Sectors have  *)
(* two words; the counter is 33 and, like 2^32, no multiple of the tick.   *)
EXTENDS Ata

MCReads ==
  {[lba |-> 5, count |-> 2, drive |-> 0], [lba |-> 19088743, count |-> 1, drive |-> 0]}
MCSleeps == {0, 7}
MCFirstTicks == {0, 15}
MCUnready == {"idle", "busy", "stuck"}
=============================================================================
