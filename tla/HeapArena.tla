----------------------------- MODULE HeapArena -----------------------------
(***************************************************************************)
(* What a heap promises its callers, whatever book-keeping it does: each   *)
(* block handed out lies inside the arena and shares no byte with any      *)
(* other block that is still out.  A request may always be refused.        *)
(***************************************************************************)
EXTENDS Integers

CONSTANTS Lo, Hi      \* the arena is the bytes Lo .. Hi - 1

VARIABLE live         \* size of each block that is out, by its address

Blocks == DOMAIN live

Apart(a, m, b, n) == a + m <= b \/ b + n <= a

Init == live = [a \in {} |-> 0]

Alloc(a, n) ==
  /\ Lo <= a /\ a + n <= Hi
  /\ \A b \in Blocks : Apart(a, n, b, live[b])
  /\ live' = [b \in Blocks \cup {a} |-> IF b = a THEN n ELSE live[b]]

Free(a) ==
  /\ a \in Blocks
  /\ live' = [b \in Blocks \ {a} |-> live[b]]

Next == \E a \in Lo .. Hi : Free(a) \/ \E n \in 1 .. Hi - Lo : Alloc(a, n)

Spec == Init /\ [][Next]_live

=============================================================================
