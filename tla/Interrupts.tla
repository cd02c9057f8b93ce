----------------------------- MODULE Interrupts -----------------------------
(***************************************************************************)
(* How interrupts reach their handlers: kernel/cpu/interrupt.c, the stubs  *)
(* of interrupt_asm.asm, and the two interrupt controllers as irq_remap    *)
(* programs them: the slave at line 2 of the master, lines served in the   *)
(* order 0, 1, 8 to 15, 3 to 7, each until its end is acknowledged.        *)
(***************************************************************************)
EXTENDS Integers, Sequences, FiniteSets, SequencesExt

CONSTANT Lines       \* the lines that devices use

VARIABLES
  irr,         \* lines with a request
  inService,   \* lines 0 .. 15 being served; 2 stands for the slave
  enabled,     \* the processor takes interrupts
  frames       \* the handlers entered and not left, the innermost last

interrupts == <<irr, inService, enabled, frames>>

PAGE_FAULT == 14
SYSTEM_CALL == 34
LineOf(n) == n - 32

ASSUME LinesAssumption == Lines \subseteq (0 .. 15) \ {2}

InitInterrupts ==
  /\ irr = {} /\ inService = {} /\ enabled = TRUE /\ frames = <<>>

Master == inService \cap 0 .. 7
Slave  == inService \cap 8 .. 15

Free(line) ==
  IF line < 8 THEN \A m \in Master : line < m
  ELSE (\A m \in Master : 2 < m) /\ (\A s \in Slave : line < s)

\* Smaller comes first; the lines of the slave have the place of line 2.
Rank(line) == IF line < 8 THEN 8 * line ELSE 8 * 2 + line - 8

\* A slip: the gate is one that leaves interrupts on, and the stub has no cli.
Enters_trap(n, what) ==
  /\ frames' = Append(frames, [int |-> n, at |-> "handler", todo |-> what])
  /\ UNCHANGED enabled

\* An interrupt gate and its stub; what is what the handler is called for.
Enters(n, what) ==
  /\ frames' = Append(frames, [int |-> n, at |-> "handler", todo |-> what])
  /\ enabled' = FALSE

\* The processor takes the request that comes first.
Deliver ==
  /\ enabled
  /\ \E line \in irr :
       /\ Free(line)
       /\ \A other \in irr \ {line} : Free(other) => Rank(line) < Rank(other)
       /\ irr' = irr \ {line}
       /\ inService' = inService \cup {line} \cup (IF line < 8 THEN {} ELSE {2})
       /\ Enters(32 + line, <<>>)

\* The command 0x20 ends the service of the line that comes first.
EndOf(lines) == IF lines = {} THEN {} ELSE {CHOOSE l \in lines : \A m \in lines : l <= m}

\* A slip: the first line of the slave counts as one of the master.
Acknowledged_above_40(n) ==
  inService \ ((IF n > 40 THEN EndOf(Slave) ELSE {}) \cup EndOf(Master))

\* The end of irq_handler, and of fault_handler after a page fault.
Acknowledged(n) ==
  inService \ ((IF n >= 40 THEN EndOf(Slave) ELSE {}) \cup EndOf(Master))

Frame == Last(frames)
Goes(at, todo) == frames' = [frames EXCEPT ![Len(frames)] = [@ EXCEPT !.at = at, !.todo = todo]]

eoi ==
  /\ frames # <<>> /\ Frame.at = "eoi"
  /\ inService' = Acknowledged(Frame.int)
  /\ Goes("iret", <<>>)
  /\ UNCHANGED <<irr, enabled>>

\* Handlers are entered from threads, which run with interrupts on.
iret ==
  /\ frames # <<>> /\ Frame.at = "iret"
  /\ frames' = Front(frames)
  /\ enabled' = TRUE
  /\ UNCHANGED <<irr, inService>>

=============================================================================
