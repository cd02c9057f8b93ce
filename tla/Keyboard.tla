------------------------------ MODULE Keyboard ------------------------------
(***************************************************************************)
(* The keyboard handler, kernel/hardware/keyboard/keyboard.c, and the      *)
(* keyboard itself, which keeps the codes of the keys that go down and up  *)
(* until they are read.  Keys are named for what they are; the two tables  *)
(* are given for the kinds of keys there are.                              *)
(***************************************************************************)
EXTENDS Integers, Sequences, FiniteSets

CONSTANTS
  Keys,         \* the keys in use, of DOMAIN kbdus
  KeyBuffer     \* codes a keyboard keeps (16); later ones are lost

VARIABLES
  keyShift, capsLockOn,
  codes,        \* sent and not read yet, the first one in port 0x60
  down,         \* ghost: the keys held down
  presses,      \* bound: how many keys may still be pressed
  lost          \* ghost: a code has been lost

keyboard == <<keyShift, capsLockOn, codes, down, presses, lost>>

Letters == {"a"}

\* The characters 1, 2 and 3 stand for keys, 0 for those without any.
kbdus ==
  [a |-> "a", one |-> "1", enter |-> "newline", backspace |-> "backspace", esc |-> "esc",
   capslock |-> "1st", lshift |-> "2nd", rshift |-> "3rd", control |-> "0th"]

kbdusUppercase ==
  [kbdus EXCEPT !.a = "A", !.one = "!"]

ASSUME KeyboardAssumption == Keys \subseteq DOMAIN kbdus /\ KeyBuffer \in Nat \ {0}

InitKeyboard(n) ==
  /\ keyShift = FALSE /\ capsLockOn = FALSE
  /\ codes = <<>> /\ down = {} /\ presses = n /\ lost = FALSE

Sent(code) ==
  IF Len(codes) < KeyBuffer THEN codes' = Append(codes, code) /\ UNCHANGED lost
  ELSE lost' = TRUE /\ UNCHANGED codes

\* A key goes down, or repeats because it is held.
Press(k) ==
  /\ presses > 0
  /\ presses' = presses - 1
  /\ down' = down \cup {k}
  /\ Sent([key |-> k, up |-> FALSE])
  /\ UNCHANGED <<keyShift, capsLockOn>>

Release(k) ==
  /\ k \in down
  /\ down' = down \ {k}
  /\ Sent([key |-> k, up |-> TRUE])
  /\ UNCHANGED <<keyShift, capsLockOn, presses>>

\* The character of a key that goes down, as the modifiers are.
Keycode(k) ==
  IF keyShift \/ (capsLockOn /\ kbdus[k] \in Letters) THEN kbdusUppercase[k] ELSE kbdus[k]

\* A slip: the code of a key that goes up is looked up with its highest bit.
Released_with_bit(k) == "0th"

Released(k) == kbdus[k]

\* What the handler prints for the code in the port.
Printed ==
  LET c == Keycode(Head(codes).key)
  IN  IF Head(codes).up \/ c \in {"0th", "1st", "2nd"} THEN <<>> ELSE <<c>>

keyboard_handler ==
  LET k == Head(codes).key
      up == Head(codes).up
  IN  /\ keyShift' = (IF up THEN keyShift /\ Released(k) # "2nd"
                      ELSE keyShift \/ Keycode(k) = "2nd")
      /\ capsLockOn' = (capsLockOn # (~up /\ Keycode(k) = "1st"))
      /\ codes' = Tail(codes)
      /\ UNCHANGED <<down, presses, lost>>

=============================================================================
