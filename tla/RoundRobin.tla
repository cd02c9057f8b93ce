---------------------------- MODULE RoundRobin ----------------------------
(***************************************************************************)
(* What the scheduler promises, whatever lists it keeps: the processes     *)
(* stand in one ring in the order they were admitted, the turn only ever   *)
(* passes to the next one, and a process that leaves hands its turn on.    *)
(***************************************************************************)
EXTENDS Sequences, Integers

CONSTANTS Members, None

VARIABLES
  ring,     \* the admitted processes, oldest first
  turn      \* whose turn it is; None before the first one

Positions == 1 .. Len(ring)

\* Where in the ring the turn is.
Place == CHOOSE i \in Positions : ring[i] = turn

\* The member whose turn comes next.
Successor == IF turn = None \/ turn = ring[Len(ring)] THEN ring[1] ELSE ring[Place + 1]

Init == ring = <<>> /\ turn = None

Admit(p) ==
  /\ \A i \in Positions : ring[i] # p
  /\ ring' = Append(ring, p)
  /\ UNCHANGED turn

Pass ==
  /\ ring # <<>>
  /\ turn' = Successor
  /\ UNCHANGED ring

\* The oldest member, the idle process, never leaves.
Leave ==
  /\ ring # <<>> /\ turn # None /\ turn # ring[1]
  /\ turn' = Successor
  /\ ring' = [i \in 1 .. Len(ring) - 1 |-> ring[IF i < Place THEN i ELSE i + 1]]

Next == Pass \/ Leave \/ \E p \in Members : Admit(p)

Spec == Init /\ [][Next]_<<ring, turn>>

=============================================================================
