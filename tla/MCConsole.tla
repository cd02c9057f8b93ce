----------------------------- MODULE MCConsole -----------------------------
(* The shell and a program with one printf, a keyboard, the timer and the  *)
(* slave controller's first line, on a screen of three rows of two cells.  *)
(* Ints have four bits, so that -8 and 7 are the limits, and the rooms     *)
(* printf asks for fit their longest texts as 12 and 10 fit those of 32    *)
(* bits.                                                                   *)
EXTENDS Console

MCRing == <<"idle", "shell", "program">>
MCShellText == <<",", "y", "nul">>
MCDelimiters == {","}
MCCalls ==
  {<<<<"p">>, <<"d", -8>>, <<"x", -1>>, <<"c", "q">>>>,
   <<<<"p">>, <<"p">>, <<"d", 0>>, <<"c", "q">>, <<"c", "q">>, <<"c", "s">>, <<"p">>, <<"i", 7>>,
     <<"p">>, <<"p">>, <<"u", 1>>>>}
MCFaults == {13}
MCSessions ==
  {[users |-> {"shell", "program"}, presses |-> 0], [users |-> {"shell"}, presses |-> 1],
   [users |-> {"program"}, presses |-> 1], [users |-> {}, presses |-> 3]}

ASSUME MCItoaAssumption == ItoaIsRight
=============================================================================
