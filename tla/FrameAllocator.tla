--------------------------- MODULE FrameAllocator ---------------------------
(***************************************************************************)
(* What the physical memory manager promises its callers, without bitmap,  *)
(* counter or search order: a ledger of the block frames that the kernel   *)
(* has declared usable and of those that some caller holds.  A frame is    *)
(* handed out only if it is usable and nobody holds it, frame 0 never is   *)
(* (address 0 is the answer that means "out of memory"), and the set of    *)
(* usable frames only changes under the boot code's region calls.          *)
(***************************************************************************)

CONSTANT Frame      \* all frame numbers

VARIABLES usable,   \* frames declared usable by pmmngr_init_region
          held      \* frames handed out and not given back yet

vars == <<usable, held>>

Init ==
  /\ usable = {}
  /\ held = {}

Donate(S) ==
  /\ S \cap held = {}
  /\ usable' = (usable \cup S) \ {0}
  /\ UNCHANGED held

Reserve(S) ==
  /\ S \cap held = {}
  /\ usable' = usable \ S
  /\ UNCHANGED held

Alloc(S) ==
  /\ S \subseteq usable \ held
  /\ held' = held \cup S
  /\ UNCHANGED usable

Release(S) ==
  /\ S \subseteq held
  /\ held' = held \ S
  /\ UNCHANGED usable

Next == \E S \in SUBSET Frame : Donate(S) \/ Reserve(S) \/ Alloc(S) \/ Release(S)

Spec == Init /\ [][Next]_vars

=============================================================================
