----------------------------- MODULE MCPmmngr -----------------------------
(***************************************************************************)
(* The physical memory manager on a map of words of three bits, of which   *)
(* MaxBlocks leaves the last one incomplete, with single blocks and runs.  *)
(***************************************************************************)
EXTENDS PmmngrRuns

\* Byte ranges over blocks of two bytes: all but block 0, starting and ending
\* inside blocks, covering block 0, and overlapping one another.
MCRegions == {<<2, 12>>, <<5, 5>>, <<0, 3>>}

=============================================================================
