--------------------------- MODULE ConsoleProofs ---------------------------
(***************************************************************************)
(* Proofs about Console, for any devices, keys, programs, texts and sizes: *)
(* the handlers run one at a time; keyShift follows the left shift key;    *)
(* itoa writes every int as its digits; screen and cursor show what        *)
(* keyboard and programs say, message after message; each printf says what *)
(* its format and arguments say; and the shell prints the words of its     *)
(* string, each once and on a row of its own.                              *)
(***************************************************************************)
EXTENDS Console, ArithLemmas, SequenceTheorems

\* What the controllers serve while the handler of interrupt n runs: its
\* line, and line 2 for those of the slave.
Serving(n) ==
  IF n < 32 \/ n = SYSTEM_CALL THEN {}
  ELSE IF n < 40 THEN {LineOf(n)} ELSE {LineOf(n), 2}

FrameOK ==
  /\ frames = <<[int |-> frames[1].int, at |-> frames[1].at, todo |-> frames[1].todo]>>
  /\ frames[1].int \in 0 .. 47
  /\ frames[1].at \in {"handler", "print", "eoi", "iret"}

\* At most one handler runs, with interrupts off; its line is served until
\* the end has been acknowledged, and no other.
AloneInv ==
  /\ irr \subseteq (0 .. 15) \ {2}
  /\ frames = <<>> \/ FrameOK
  /\ frames = <<>> => enabled = TRUE /\ inService = {}
  /\ frames # <<>> =>
       /\ enabled = FALSE
       /\ inService = (IF frames[1].at = "iret" THEN {} ELSE Serving(frames[1].int))

Codes == [key : Keys, up : BOOLEAN]

KeyboardTypeOK ==
  /\ codes \in Seq(Codes) /\ down \subseteq Keys
  /\ keyShift \in BOOLEAN /\ lost \in BOOLEAN

\* The interrupt of the keyboard stands for a code that waits in the port.
CodeIsThere ==
  /\ 1 \in irr => codes # <<>>
  /\ frames # <<>> /\ frames[1].at = "handler" /\ frames[1].int = 33
       => codes # <<>> /\ 1 \notin irr

\* What is known of the shift key is in the last of its codes that waits, or
\* else in keyShift.
Later(i) == (i + 1) .. Len(codes)
ShiftSoFar ==
  /\ (\A i \in 1 .. Len(codes) : codes[i].key # "lshift") => (keyShift <=> "lshift" \in down)
  /\ \A i \in 1 .. Len(codes) :
       codes[i].key = "lshift" /\ (\A j \in Later(i) : codes[j].key # "lshift")
         => (codes[i].up <=> "lshift" \notin down)

ShiftInv == KeyboardTypeOK /\ CodeIsThere /\ (~lost => ShiftSoFar)

Inv == AloneInv /\ ShiftInv

-----------------------------------------------------------------------------
(* What the steps do to the handlers.                                      *)

LEMMA FrameFacts ==
  ASSUME FrameOK
  PROVE  Len(frames) = 1 /\ frames # <<>> /\ Frame = frames[1]
<1>1. frames = <<[int |-> frames[1].int, at |-> frames[1].at, todo |-> frames[1].todo]>>
  BY DEF FrameOK
<1>2. Len(frames) = 1
  BY <1>1
<1> QED BY <1>2 DEF Frame, Last

\* A handler goes on to another place.
LEMMA GoesFacts ==
  ASSUME FrameOK, NEW place, NEW what, Goes(place, what)
  PROVE  frames' = <<[int |-> frames[1].int, at |-> place, todo |-> what]>>
<1> DEFINE f == frames[1]
<1>1. frames = <<[int |-> f.int, at |-> f.at, todo |-> f.todo]>>
  BY DEF FrameOK
<1>2. Len(frames) = 1 /\ f = [int |-> f.int, at |-> f.at, todo |-> f.todo]
  BY <1>1
<1>3. frames' = [frames EXCEPT ![1] = [f EXCEPT !.at = place, !.todo = what]]
  BY <1>2 DEF Goes
<1>4. [f EXCEPT !.at = place, !.todo = what] = [int |-> f.int, at |-> place, todo |-> what]
  <2> DEFINE a == f.int
             b == f.at
             c == f.todo
  <2>1. f = [int |-> a, at |-> b, todo |-> c]
    BY <1>2
  <2> HIDE DEF a, b, c, f
  <2>2. [f EXCEPT !.at = place, !.todo = what] = [int |-> a, at |-> place, todo |-> what]
    <3>1. [[int |-> a, at |-> b, todo |-> c] EXCEPT !.at = place] = [int |-> a, at |-> place, todo |-> c]
      OBVIOUS
    <3>2. [[int |-> a, at |-> place, todo |-> c] EXCEPT !.todo = what] = [int |-> a, at |-> place, todo |-> what]
      OBVIOUS
    <3> QED BY <2>1, <3>1, <3>2
  <2> QED BY <2>2 DEF a
<1> HIDE DEF f
<1> QED BY <1>1, <1>3, <1>4 DEF f

\* An exception or a call of a thread starts a handler that serves no line.
LEMMA EnterKeepsAlone ==
  ASSUME AloneInv, frames = <<>>, NEW n \in 0 .. 31 \cup {SYSTEM_CALL}, NEW what,
         Enters(n, what), UNCHANGED <<irr, inService>>
  PROVE  AloneInv' /\ frames' # <<>> /\ frames'[1].int = n
<1>1. frames' = <<[int |-> n, at |-> "handler", todo |-> what]>>
  BY DEF Enters
<1>2. n \in 0 .. 47 /\ Serving(n) = {}
  BY DEF Serving, SYSTEM_CALL
<1>3. inService = {} /\ enabled' = FALSE
  BY DEF AloneInv, Enters
<1>4. FrameOK'
  BY <1>1, <1>2 DEF FrameOK
<1> QED BY <1>1, <1>2, <1>3, <1>4 DEF AloneInv

\* A handler that goes on does not change what is served.
LEMMA GoesKeepsAlone ==
  ASSUME AloneInv, FrameOK, NEW place \in {"print", "eoi"}, NEW what, Goes(place, what),
         frames[1].at # "iret", irr' \subseteq (0 .. 15) \ {2}, UNCHANGED <<inService, enabled>>
  PROVE  AloneInv' /\ frames' # <<>> /\ frames'[1].at = place
<1>1. frames' = <<[int |-> frames[1].int, at |-> place, todo |-> what]>>
  BY GoesFacts
<1>2. FrameOK'
  BY <1>1 DEF FrameOK
<1> QED BY <1>1, <1>2, FrameFacts DEF AloneInv

\* The lowest line of a set of one.
LEMMA EndOfOne == \A l \in Nat : EndOf({l}) = {l}
BY DEF EndOf

\* The acknowledgement ends the service of the line the handler is for.
LEMMA AcknowledgedEnds ==
  ASSUME NEW n \in 0 .. 47, inService = Serving(n)
  PROVE  Acknowledged(n) = {}
<1>1. EndOf({}) = {} /\ EndOf({2}) = {2}
  BY EndOfOne DEF EndOf
<1>2. CASE n < 32 \/ n = SYSTEM_CALL
  BY <1>2 DEF Serving, Acknowledged
<1>3. CASE ~(n < 32 \/ n = SYSTEM_CALL) /\ n < 40
  <2>1. inService = {n - 32} /\ n - 32 \in 0 .. 7
    BY <1>3 DEF Serving, LineOf
  <2>2. Master = {n - 32} /\ Slave = {}
    <3>1. \A m : m \in Master <=> m = n - 32
      BY <2>1 DEF Master
    <3>2. \A m : m \notin Slave
      BY <2>1 DEF Slave
    <3> QED BY <3>1, <3>2
  <2>3. EndOf(Master) = {n - 32}
    BY <2>1, <2>2, EndOfOne
  <2> QED BY <1>1, <1>3, <2>1, <2>2, <2>3 DEF Acknowledged
<1>4. CASE ~(n < 32 \/ n = SYSTEM_CALL) /\ n >= 40
  <2> DEFINE l == n - 32
  <2>1. inService = {l, 2} /\ l \in 8 .. 15
    BY <1>4 DEF Serving, LineOf
  <2> HIDE DEF l
  <2>2. Master = {2} /\ Slave = {l}
    <3>1. \A m : m \in Master <=> m = 2
      BY <2>1 DEF Master
    <3>2. l \in Slave
      BY <2>1, Zenon DEF Slave
    <3>3. ASSUME NEW m \in Slave PROVE m = l
      BY <2>1, <3>3 DEF Slave
    <3> QED BY <3>1, <3>2, <3>3
  <2>3. EndOf(Slave) = {l}
    BY <2>1, <2>2, EndOfOne
  <2> QED BY <1>1, <1>4, <2>1, <2>2, <2>3 DEF Acknowledged
<1> QED BY <1>2, <1>3, <1>4

\* The processor takes a request: the handler serves its line.
LEMMA DeliverKeepsAlone ==
  ASSUME AloneInv, Deliver
  PROVE  \E line \in irr :
           /\ irr' = irr \ {line}
           /\ AloneInv' /\ frames' # <<>> /\ frames'[1].at = "handler" /\ frames'[1].int = 32 + line
<1>1. PICK line \in irr :
        /\ irr' = irr \ {line}
        /\ inService' = inService \cup {line} \cup (IF line < 8 THEN {} ELSE {2})
        /\ Enters(32 + line, <<>>)
  BY DEF Deliver
<1>2. enabled = TRUE
  BY DEF Deliver, AloneInv
<1>3. frames = <<>> /\ inService = {}
  BY <1>2 DEF AloneInv
<1>4. line \in 0 .. 15 /\ line # 2
  BY <1>1 DEF AloneInv
<1>5. frames' = <<[int |-> 32 + line, at |-> "handler", todo |-> <<>>]>> /\ enabled' = FALSE
  BY <1>1, <1>3 DEF Enters
<1>6. inService' = Serving(32 + line)
  <2> DEFINE n == 32 + line
  <2>1. n \in 32 .. 47 /\ n # 34 /\ n - 32 = line /\ (n < 40 <=> line < 8)
    BY <1>4
  <2>2. inService' = (IF line < 8 THEN {line} ELSE {line, 2})
    BY <1>1, <1>3
  <2> HIDE DEF n
  <2>3. Serving(n) = (IF line < 8 THEN {line} ELSE {line, 2})
    BY <2>1 DEF Serving, LineOf, SYSTEM_CALL
  <2> QED BY <2>2, <2>3 DEF n
<1>7. FrameOK'
  <2>1. 32 + line \in 0 .. 47
    BY <1>4
  <2> QED BY <1>5, <2>1 DEF FrameOK
<1>8. irr' \subseteq (0 .. 15) \ {2}
  BY <1>1 DEF AloneInv
<1> QED BY <1>1, <1>5, <1>6, <1>7, <1>8 DEF AloneInv

LEMMA EoiKeepsAlone ==
  ASSUME AloneInv, eoi
  PROVE  AloneInv' /\ UNCHANGED irr /\ frames' # <<>> /\ frames'[1].at = "iret"
<1>1. FrameOK /\ Frame = frames[1] /\ frames # <<>>
  BY FrameFacts DEF AloneInv, eoi
<1>2. frames[1].at = "eoi" /\ inService = Serving(frames[1].int) /\ frames[1].int \in 0 .. 47
  BY <1>1 DEF eoi, AloneInv, FrameOK
<1>3. frames' = <<[int |-> frames[1].int, at |-> "iret", todo |-> <<>>]>>
  BY <1>1, GoesFacts DEF eoi
<1>4. inService' = {}
  BY <1>1, <1>2, AcknowledgedEnds DEF eoi
<1>5. FrameOK'
  BY <1>2, <1>3 DEF FrameOK
<1> QED BY <1>1, <1>3, <1>4, <1>5 DEF AloneInv, eoi

LEMMA IretKeepsAlone ==
  ASSUME AloneInv, iret
  PROVE  AloneInv' /\ UNCHANGED irr /\ frames' = <<>>
<1>1. FrameOK /\ Frame = frames[1] /\ frames # <<>> /\ Len(frames) = 1
  BY FrameFacts DEF AloneInv, iret
<1>2. frames' = <<>>
  BY <1>1 DEF iret, Front, FrameOK
<1>3. inService = {} /\ enabled' = TRUE
  BY <1>1 DEF iret, AloneInv
<1> QED BY <1>2, <1>3 DEF AloneInv, iret

-----------------------------------------------------------------------------
(* What the steps do to the keyboard.                                      *)

\* Where neither keyboard nor requests change, only a handler that starts
\* could miss its code.
LEMMA OthersKeepShift ==
  ASSUME ShiftInv, UNCHANGED keyboard, irr' \subseteq irr \cup (Int \ {1}),
         frames' # <<>> /\ frames'[1].at = "handler" /\ frames'[1].int = 33
           => UNCHANGED <<frames, irr>> \/ (1 \in irr /\ 1 \notin irr')
  PROVE  ShiftInv'
<1>1. CodeIsThere'
  BY DEF ShiftInv, CodeIsThere, keyboard
<1> QED BY <1>1 DEF ShiftInv, KeyboardTypeOK, ShiftSoFar, Later, keyboard

\* The left shift key is the only one with the code of a shift.
LEMMA OnlyLeftShift ==
  ASSUME NEW k \in Keys
  PROVE  /\ kbdus[k] = "2nd" <=> k = "lshift"
         /\ Keycode(k) = "2nd" <=> k = "lshift"
<1>1. k \in {"a", "one", "enter", "backspace", "esc", "capslock", "lshift", "rshift", "control"}
  BY KeyboardAssumption DEF kbdus
<1>2. CASE k = "lshift"
  BY <1>2 DEF kbdus, kbdusUppercase, Keycode
<1>3. CASE k # "lshift"
  <2>1. kbdus[k] # "2nd" /\ kbdusUppercase[k] # "2nd"
    <3>1. kbdus[k] # "2nd"
      BY <1>1, <1>3 DEF kbdus
    <3> DEFINE step == [kbdus EXCEPT !.a = "A"]
    <3>2. step[k] = (IF k = "a" THEN "A" ELSE kbdus[k]) /\ DOMAIN step = DOMAIN kbdus
      BY KeyboardAssumption DEF kbdus
    <3>3. kbdusUppercase = [step EXCEPT !.one = "!"]
      BY DEF kbdusUppercase
    <3> HIDE DEF step
    <3>4. kbdusUppercase[k] = (IF k = "one" THEN "!" ELSE step[k])
      BY <3>2, <3>3, KeyboardAssumption
    <3> QED BY <3>1, <3>2, <3>4
  <2> QED BY <1>3, <2>1 DEF Keycode
<1> QED BY <1>2, <1>3

\* A code that is sent is the last one from then on.
LEMMA SendKeepsShift ==
  ASSUME KeyboardTypeOK, ShiftSoFar, NEW k \in Keys, NEW up \in BOOLEAN,
         codes' = Append(codes, [key |-> k, up |-> up]), keyShift' = keyShift,
         k = "lshift" => ("lshift" \in down' <=> ~up),
         k # "lshift" => ("lshift" \in down' <=> "lshift" \in down)
  PROVE  ShiftSoFar'
<1> DEFINE N == Len(codes)
           new == [key |-> k, up |-> up]
<1>1. codes \in Seq(Codes) /\ new \in Codes /\ N \in Nat
  BY DEF KeyboardTypeOK, Codes
<1>2. Len(codes') = N + 1 /\ codes'[N + 1] = new /\ \A i \in 1 .. N : codes'[i] = codes[i]
  BY <1>1, AppendProperties
<1>3. new.key = k /\ new.up = up
  OBVIOUS
<1> HIDE DEF N, new
<1>4. ASSUME \A i \in 1 .. Len(codes') : codes'[i].key # "lshift"
      PROVE  keyShift' <=> "lshift" \in down'
  <2>1. k # "lshift"
    BY <1>1, <1>2, <1>3, <1>4
  <2>2. \A i \in 1 .. N : codes[i].key # "lshift"
    BY <1>1, <1>2, <1>4
  <2> QED BY <2>1, <2>2 DEF ShiftSoFar, N
<1>5. ASSUME NEW i \in 1 .. Len(codes'), codes'[i].key = "lshift",
             \A j \in (i + 1) .. Len(codes') : codes'[j].key # "lshift"
      PROVE  codes'[i].up <=> "lshift" \notin down'
  <2>1. CASE i = N + 1
    BY <2>1, <1>2, <1>3, <1>5
  <2>2. CASE i \in 1 .. N
    <3>1. N + 1 \in (i + 1) .. Len(codes')
      BY <1>1, <1>2, <2>2
    <3>2. k # "lshift"
      BY <3>1, <1>2, <1>3, <1>5
    <3>3. codes[i].key = "lshift" /\ codes'[i] = codes[i]
      BY <1>2, <1>5, <2>2
    <3>4. \A j \in (i + 1) .. N : codes[j].key # "lshift"
      <4> SUFFICES ASSUME NEW j \in (i + 1) .. N PROVE codes[j].key # "lshift"
        OBVIOUS
      <4>1. j \in 1 .. N /\ j \in (i + 1) .. Len(codes')
        BY <1>1, <1>2, <2>2
      <4> QED BY <4>1, <1>2, <1>5
    <3>5. codes[i].up <=> "lshift" \notin down
      BY <3>3, <3>4, <2>2 DEF ShiftSoFar, Later, N
    <3> QED BY <3>2, <3>3, <3>5
  <2> QED BY <2>1, <2>2, <1>1, <1>2
<1> QED BY <1>4, <1>5 DEF ShiftSoFar, Later

LEMMA KeyEventKeepsShift ==
  ASSUME ShiftInv, KeyEvent
  PROVE  ShiftInv'
<1>1. KeyboardTypeOK /\ CodeIsThere /\ (~lost => ShiftSoFar) /\ codes \in Seq(Codes)
  BY DEF ShiftInv, KeyboardTypeOK
<1>2. frames' = frames /\ frames = <<>> /\ irr' = (IF codes = <<>> THEN irr \cup {1} ELSE irr)
  BY DEF KeyEvent
<1>3. PICK k \in Keys : Press(k) \/ Release(k)
  BY DEF KeyEvent
<1>4. PICK up \in BOOLEAN :
        /\ Sent([key |-> k, up |-> up]) /\ keyShift' = keyShift
        /\ down' = (IF up THEN down \ {k} ELSE down \cup {k})
  <2>1. CASE Press(k)
    <3>1. Sent([key |-> k, up |-> FALSE]) /\ keyShift' = keyShift /\ down' = down \cup {k}
      BY <2>1 DEF Press
    <3> QED BY <3>1
  <2>2. CASE Release(k)
    <3>1. Sent([key |-> k, up |-> TRUE]) /\ keyShift' = keyShift /\ down' = down \ {k}
      BY <2>2 DEF Release
    <3> QED BY <3>1
  <2> QED BY <1>3, <2>1, <2>2
<1> DEFINE new == [key |-> k, up |-> up]
<1>5. new \in Codes
  BY DEF Codes
<1>6. /\ Len(codes) < KeyBuffer => codes' = Append(codes, new) /\ lost' = lost
      /\ ~(Len(codes) < KeyBuffer) => lost' = TRUE /\ codes' = codes
  BY <1>4 DEF Sent
<1> HIDE DEF new
<1>7. codes' \in Seq(Codes) /\ codes' # <<>>
  <2>1. CASE Len(codes) < KeyBuffer
    BY <2>1, <1>1, <1>5, <1>6
  <2>2. CASE ~(Len(codes) < KeyBuffer)
    <3>1. codes # <<>>
      BY <2>2, KeyboardAssumption
    <3> QED BY <2>2, <3>1, <1>1, <1>6
  <2> QED BY <2>1, <2>2
<1>8. KeyboardTypeOK'
  BY <1>1, <1>4, <1>6, <1>7 DEF KeyboardTypeOK
<1>9. CodeIsThere'
  BY <1>2, <1>7 DEF CodeIsThere
<1>10. ASSUME ~lost' PROVE ShiftSoFar'
  <2>1. codes' = Append(codes, [key |-> k, up |-> up]) /\ ~lost
    BY <1>6, <1>10 DEF new
  <2>2. (k = "lshift" => ("lshift" \in down' <=> ~up))
        /\ (k # "lshift" => ("lshift" \in down' <=> "lshift" \in down))
    BY <1>4
  <2> QED BY <1>1, <1>4, <2>1, <2>2, SendKeepsShift
<1> QED BY <1>8, <1>9, <1>10 DEF ShiftInv

\* The code that is read moves from the first place in the line to keyShift.
LEMMA ReadKeepsShift ==
  ASSUME AloneInv, ShiftInv, KeyboardInterrupt
  PROVE  ShiftInv'
<1>1. /\ KeyboardTypeOK /\ CodeIsThere /\ (~lost => ShiftSoFar) /\ codes \in Seq(Codes)
      /\ keyShift \in BOOLEAN
  BY DEF ShiftInv, KeyboardTypeOK
<1>2. /\ FrameOK /\ frames # <<>> /\ frames[1].at = "handler" /\ frames[1].int = 33
      /\ keyboard_handler /\ Goes("print", Printed)
      /\ irr' = IF Tail(codes) # <<>> THEN irr \cup {1} ELSE irr
  BY FrameFacts DEF KeyboardInterrupt, Handles, AloneInv
<1>3. codes # <<>> /\ 1 \notin irr
  BY <1>1, <1>2 DEF CodeIsThere
<1> DEFINE k == Head(codes).key
           up == Head(codes).up
           N == Len(codes)
<1>4. /\ Head(codes) \in Codes /\ Head(codes) = codes[1] /\ N \in Nat /\ N > 0
      /\ Tail(codes) \in Seq(Codes) /\ Len(Tail(codes)) = N - 1
      /\ \A i \in 1 .. N - 1 : Tail(codes)[i] = codes[i + 1]
  BY <1>1, <1>3, HeadTailProperties
<1>5. k \in Keys /\ up \in BOOLEAN /\ k = codes[1].key /\ up = codes[1].up
  BY <1>4 DEF Codes
<1>6. /\ keyShift' = (IF up THEN keyShift /\ kbdus[k] # "2nd" ELSE keyShift \/ Keycode(k) = "2nd")
      /\ codes' = Tail(codes) /\ UNCHANGED <<down, lost>>
  BY <1>2 DEF keyboard_handler, Released
<1> HIDE DEF k, up, N
<1>7. keyShift' = (IF k = "lshift" THEN ~up ELSE keyShift)
  BY <1>1, <1>5, <1>6, OnlyLeftShift
<1>8. KeyboardTypeOK'
  BY <1>1, <1>4, <1>5, <1>6, <1>7 DEF KeyboardTypeOK
<1>9. CodeIsThere'
  <2>1. frames'[1].at = "print"
    BY <1>2, GoesFacts
  <2> QED BY <1>2, <1>3, <1>6, <2>1 DEF CodeIsThere
<1>10. ASSUME ~lost' PROVE ShiftSoFar'
  <2>1. ShiftSoFar
    BY <1>1, <1>6, <1>10
  <2>2. Len(codes') = N - 1 /\ \A i \in 1 .. N - 1 : codes'[i] = codes[i + 1] /\ i + 1 \in 1 .. N
    BY <1>4, <1>6
  <2>3. ASSUME \A i \in 1 .. Len(codes') : codes'[i].key # "lshift"
        PROVE  keyShift' <=> "lshift" \in down'
    <3>1. \A i \in 2 .. N : codes[i].key # "lshift"
      <4> SUFFICES ASSUME NEW i \in 2 .. N PROVE codes[i].key # "lshift"
        OBVIOUS
      <4>1. i - 1 \in 1 .. N - 1 /\ (i - 1) + 1 = i
        BY <1>4
      <4> QED BY <4>1, <2>2, <2>3
    <3>2. CASE k = "lshift"
      <4>1. 1 \in 1 .. N /\ Later(1) = 2 .. N
        BY <1>4 DEF Later, N
      <4>2. codes[1].up <=> "lshift" \notin down
        BY <1>5, <2>1, <3>1, <3>2, <4>1 DEF ShiftSoFar, N
      <4> QED BY <4>2, <1>5, <1>6, <1>7, <3>2
    <3>3. CASE k # "lshift"
      <4>1. \A i \in 1 .. N : codes[i].key # "lshift"
        BY <1>4, <1>5, <3>1, <3>3
      <4> QED BY <4>1, <2>1, <1>6, <1>7, <3>3 DEF ShiftSoFar, N
    <3> QED BY <3>2, <3>3
  <2>4. ASSUME NEW i \in 1 .. Len(codes'), codes'[i].key = "lshift",
               \A j \in (i + 1) .. Len(codes') : codes'[j].key # "lshift"
        PROVE  codes'[i].up <=> "lshift" \notin down'
    <3>1. i \in Nat /\ i + 1 \in 1 .. N /\ codes'[i] = codes[i + 1]
      BY <2>2
    <3>2. \A j \in Later(i + 1) : codes[j].key # "lshift"
      <4> SUFFICES ASSUME NEW j \in Later(i + 1) PROVE codes[j].key # "lshift"
        OBVIOUS
      <4>1. j - 1 \in (i + 1) .. Len(codes') /\ j - 1 \in 1 .. N - 1 /\ (j - 1) + 1 = j
        BY <1>4, <2>2, <3>1 DEF Later, N
      <4> QED BY <4>1, <2>2, <2>4
    <3>3. codes[i + 1].up <=> "lshift" \notin down
      BY <2>1, <2>4, <3>1, <3>2 DEF ShiftSoFar, N
    <3> QED BY <3>1, <3>3, <1>6
  <2> QED BY <2>3, <2>4 DEF ShiftSoFar, Later
<1> QED BY <1>8, <1>9, <1>10 DEF ShiftInv

-----------------------------------------------------------------------------
(* The steps.                                                              *)

LEMMA InitialState == Init => Inv
<1> SUFFICES ASSUME Init PROVE Inv
  OBVIOUS
<1>1. irr = {} /\ inService = {} /\ enabled = TRUE /\ frames = <<>>
  BY DEF Init, InitInterrupts
<1>2. codes = <<>> /\ down = {} /\ keyShift = FALSE /\ lost = FALSE
  BY DEF Init, InitKeyboard
<1>3. AloneInv
  BY <1>1 DEF AloneInv
<1>4. KeyboardTypeOK /\ CodeIsThere
  <2>1. <<>> \in Seq(Codes)
    OBVIOUS
  <2>2. codes \in Seq(Codes)
    BY <1>2, <2>1
  <2>3. KeyboardTypeOK
    BY <1>2, <2>2, Zenon DEF KeyboardTypeOK
  <2>4. CodeIsThere
    BY <1>1, Zenon DEF CodeIsThere
  <2> QED BY <2>3, <2>4
<1>5. ShiftSoFar
  BY <1>2 DEF ShiftSoFar
<1> QED BY <1>3, <1>4, <1>5 DEF Inv, ShiftInv

\* A thread that enters the kernel.
LEMMA CallingKeepsInv ==
  ASSUME Inv, frames = <<>>, NEW n \in 0 .. 31 \cup {SYSTEM_CALL}, NEW what, Calling(n, what)
  PROVE  Inv'
<1>1. AloneInv' /\ frames'[1].int = n
  BY EnterKeepsAlone DEF Inv, Calling
<1>2. n # 33
  BY DEF SYSTEM_CALL
<1>3. UNCHANGED keyboard /\ irr' = irr
  BY DEF Calling
<1>4. ShiftInv'
  <2>1. frames'[1].int # 33
    BY <1>1, <1>2
  <2> QED BY <1>3, <2>1, OthersKeepShift DEF Inv
<1> QED BY <1>1, <1>4 DEF Inv

LEMMA ThreadKeepsInv ==
  ASSUME Inv, NEW t \in Users, Thread(t) \/ Crash(t)
  PROVE  Inv'
<1>1. ASSUME Local PROVE Inv'
  BY <1>1 DEF Local, Inv, AloneInv, FrameOK, ShiftInv, KeyboardTypeOK, CodeIsThere, ShiftSoFar, Later,
     keyboard, interrupts
<1>2. SYSTEM_CALL \in 0 .. 31 \cup {SYSTEM_CALL} /\ PAGE_FAULT \in 0 .. 31 \cup {SYSTEM_CALL}
  BY DEF SYSTEM_CALL, PAGE_FAULT
<1>3. CASE Start(t)
  BY <1>2, <1>3, CallingKeepsInv DEF Start, Runs
<1>4. CASE Crash(t)
  <2>1. PICK n \in Faults : Calling(n, <<>>)
    BY <1>4 DEF Crash
  <2>2. n \in 0 .. 31 \cup {SYSTEM_CALL}
    BY FaultsAssumption
  <2> QED BY <1>4, <2>1, <2>2, CallingKeepsInv DEF Crash
<1>5. CASE main(t) \/ print_token(t) \/ other_main(t) \/ printf_returns(t)
  BY <1>1, <1>5 DEF main, print_token, other_main, printf_returns
<1>6. CASE printf(t)
  <2>1. frames = <<>> /\ ((\E what : Calling(SYSTEM_CALL, what)) \/ Local)
    BY <1>6 DEF printf, Runs
  <2>2. CASE Local
    BY <1>1, <2>2
  <2>3. CASE ~Local
    <3>1. PICK what : Calling(SYSTEM_CALL, what)
      BY <2>1, <2>3
    <3> QED BY <1>2, <2>1, <3>1, CallingKeepsInv
  <2> QED BY <2>2, <2>3
<1>7. CASE exit(t)
  BY <1>2, <1>7, CallingKeepsInv DEF exit, Runs
<1>8. CASE lios_startup(t)
  BY <1>1, <1>8 DEF lios_startup
<1> QED BY <1>3, <1>4, <1>5, <1>6, <1>7, <1>8 DEF Thread

LEMMA HandlerKeepsInv ==
  ASSUME Inv, Handler
  PROVE  Inv'
<1>0. AloneInv /\ ShiftInv
  BY DEF Inv
<1>1. ASSUME FrameOK, frames[1].at \in {"handler", "print"}, NEW place \in {"print", "eoi"}, NEW what,
             Goes(place, what), UNCHANGED <<keyboard, irr, inService, enabled>>
      PROVE  Inv'
  <2>1. irr' \subseteq (0 .. 15) \ {2}
    BY <1>0, <1>1 DEF AloneInv
  <2>2. AloneInv' /\ frames'[1].at = place
    BY <1>0, <1>1, <2>1, GoesKeepsAlone
  <2>3. ShiftInv'
    BY <1>0, <1>1, <2>2, OthersKeepShift
  <2> QED BY <2>2, <2>3 DEF Inv
<1>2. ASSUME NEW n, Handles(n) PROVE FrameOK /\ frames[1].at = "handler" /\ frames[1].int = n
  BY <1>0, <1>2, FrameFacts DEF Handles, AloneInv
<1>3. CASE timer_handler
  <2>1. FrameOK /\ frames[1].at = "handler"
    BY <1>2, <1>3 DEF timer_handler
  <2> QED BY <1>1, <1>3, <2>1 DEF timer_handler
<1>4. CASE KeyboardInterrupt
  <2>1. FrameOK /\ frames[1].at = "handler"
    BY <1>2, <1>4 DEF KeyboardInterrupt
  <2>2. irr' \subseteq (0 .. 15) \ {2}
    BY <1>0, <1>4 DEF KeyboardInterrupt, AloneInv
  <2>3. AloneInv'
    BY <1>0, <1>4, <2>1, <2>2, GoesKeepsAlone DEF KeyboardInterrupt
  <2> QED BY <1>0, <1>4, <2>3, ReadKeepsShift DEF Inv
<1>5. CASE call_handler_print
  <2>1. FrameOK /\ frames[1].at = "handler"
    BY <1>2, <1>5 DEF call_handler_print
  <2> QED BY <1>1, <1>5, <2>1 DEF call_handler_print
<1>6. CASE call_handler_exit
  <2>1. FrameOK /\ frames[1].at = "handler"
    BY <1>2, <1>6 DEF call_handler_exit
  <2> QED BY <1>1, <1>6, <2>1 DEF call_handler_exit
<1>7. CASE NoHandler
  <2>1. FrameOK /\ frames[1].at = "handler"
    BY <1>2, <1>7 DEF NoHandler
  <2> QED BY <1>1, <1>7, <2>1 DEF NoHandler
<1>8. CASE FirstFault
  <2>1. FrameOK /\ frames[1].at = "handler"
    BY <1>2, <1>8 DEF FirstFault
  <2> QED BY <1>1, <1>8, <2>1 DEF FirstFault
<1>9. CASE panic_display_message
  BY <1>9 DEF panic_display_message, Inv, AloneInv, FrameOK, ShiftInv, KeyboardTypeOK, CodeIsThere,
     ShiftSoFar, Later, keyboard, interrupts
<1>10. CASE PrintNext
  <2>1. FrameOK /\ frames[1].at = "print"
    BY <1>0, <1>10, FrameFacts DEF PrintNext, AloneInv
  <2>2. PICK place \in {"print", "eoi"} : \E what : Goes(place, what)
    BY <1>10 DEF PrintNext
  <2>3. PICK what : Goes(place, what)
    BY <2>2
  <2> QED BY <1>1, <1>10, <2>1, <2>3 DEF PrintNext
<1>11. CASE Leave /\ eoi
  <2>1. AloneInv' /\ irr' = irr /\ frames'[1].at = "iret"
    BY <1>0, <1>11, EoiKeepsAlone
  <2>2. ShiftInv'
    BY <1>0, <1>11, <2>1, OthersKeepShift DEF Leave
  <2> QED BY <2>1, <2>2 DEF Inv
<1>12. CASE Leave /\ iret
  <2>1. AloneInv' /\ irr' = irr /\ frames' = <<>>
    BY <1>0, <1>12, IretKeepsAlone
  <2>2. ShiftInv'
    BY <1>0, <1>12, <2>1, OthersKeepShift DEF Leave
  <2> QED BY <2>1, <2>2 DEF Inv
<1> QED BY <1>3, <1>4, <1>5, <1>6, <1>7, <1>8, <1>9, <1>10, <1>11, <1>12 DEF Handler, Leave

\* A device that raises its line.
LEMMA RaiseKeepsInv ==
  ASSUME Inv, NEW line \in Lines, line # 1, Raise(line)
  PROVE  Inv'
<1>1. line \in (0 .. 15) \ {2} /\ irr' = irr \cup {line} /\ UNCHANGED <<keyboard, inService, enabled, frames>>
      /\ frames = <<>>
  BY LinesAssumption DEF Raise
<1>2. AloneInv'
  BY <1>1 DEF Inv, AloneInv
<1>3. ShiftInv'
  <2>1. irr' \subseteq irr \cup (Int \ {1}) /\ frames' = <<>>
    BY <1>1
  <2> QED BY <1>1, <2>1, OthersKeepShift DEF Inv
<1> QED BY <1>2, <1>3 DEF Inv

LEMMA Step == Inv /\ [Next]_vars => Inv'
<1> SUFFICES ASSUME Inv, [Next]_vars PROVE Inv'
  OBVIOUS
<1>0. AloneInv /\ ShiftInv
  BY DEF Inv
<1>1. CASE KeyEvent
  <2>1. AloneInv'
    BY <1>0, <1>1 DEF KeyEvent, AloneInv
  <2> QED BY <1>0, <1>1, <2>1, KeyEventKeepsShift DEF Inv
<1>2. CASE Tick \/ OtherDevice
  <2>1. PICK line \in Lines : line # 1 /\ Raise(line)
    BY <1>2 DEF Tick, OtherDevice
  <2> QED BY <2>1, RaiseKeepsInv
<1>3. CASE Interrupt
  <2>1. Deliver /\ UNCHANGED keyboard
    BY <1>3 DEF Interrupt
  <2>2. PICK line \in irr : /\ irr' = irr \ {line} /\ AloneInv'
                           /\ frames'[1].int = 32 + line
    BY <1>0, <2>1, DeliverKeepsAlone
  <2>3. line \in 0 .. 15
    BY <1>0 DEF AloneInv
  <2>4. frames'[1].int = 33 => line = 1
    BY <2>2, <2>3
  <2>5. ShiftInv'
    BY <1>0, <2>1, <2>2, <2>4, OthersKeepShift
  <2> QED BY <2>2, <2>5 DEF Inv
<1>4. CASE Handler
  BY <1>4, HandlerKeepsInv
<1>5. CASE UserStep \/ (\E t \in Users : Crash(t))
  BY <1>5, ThreadKeepsInv DEF UserStep
<1>6. CASE UNCHANGED vars
  BY <1>6 DEF vars, Inv, AloneInv, FrameOK, ShiftInv, KeyboardTypeOK, CodeIsThere, ShiftSoFar, Later,
     keyboard, interrupts
<1> QED BY <1>1, <1>2, <1>3, <1>4, <1>5, <1>6 DEF Next

-----------------------------------------------------------------------------
(* Texts, and what is said on them.                                        *)

\* Any sequence, whatever its elements are.
IsText(x) == \E S : x \in Seq(S)

\* A text is a function from its positions.
LEMMA TextFacts ==
  ASSUME NEW x, IsText(x)
  PROVE  /\ Len(x) \in Nat /\ DOMAIN x = 1 .. Len(x)
         /\ x \in [1 .. Len(x) -> {x[i] : i \in 1 .. Len(x)}]
         /\ x \in Seq({x[i] : i \in 1 .. Len(x)})
<1>1. PICK S : x \in Seq(S)
  BY DEF IsText
<1>2. Len(x) \in Nat /\ DOMAIN x = 1 .. Len(x) /\ x \in [1 .. Len(x) -> S]
  BY <1>1, LenProperties
<1>3. x \in [1 .. Len(x) -> {x[i] : i \in 1 .. Len(x)}]
  BY <1>2
<1> QED BY <1>2, <1>3, SeqDef

\* A function on the first n positions is a text of length n.
LEMMA TextOf ==
  ASSUME NEW n \in Nat, NEW x, x = [i \in 1 .. n |-> x[i]]
  PROVE  IsText(x) /\ Len(x) = n
<1>1. x \in [1 .. n -> {x[i] : i \in 1 .. n}] /\ DOMAIN x = 1 .. n
  OBVIOUS
<1>2. x \in Seq({x[i] : i \in 1 .. n})
  BY <1>1, SeqDef
<1>3. Len(x) \in Nat /\ 1 .. Len(x) = 1 .. n
  BY <1>1, <1>2, LenProperties
<1>4. Len(x) = n
  <2> PICK m \in Nat : m = Len(x)
    BY <1>3
  <2>1. 1 .. m = 1 .. n
    BY <1>3
  <2>2. \A i \in Nat : i \in 1 .. m <=> i \in 1 .. n
    BY <2>1
  <2>3. m \in 1 .. m \/ m = 0
    OBVIOUS
  <2>4. n \in 1 .. n \/ n = 0
    OBVIOUS
  <2>5. m <= n /\ n <= m
    BY <2>2, <2>3, <2>4
  <2> QED BY <2>5
<1> QED BY <1>2, <1>4 DEF IsText

\* Texts are equal that are so place by place.
LEMMA SameText ==
  ASSUME NEW x, NEW y, IsText(x), IsText(y), Len(x) = Len(y),
         \A i \in 1 .. Len(x) : x[i] = y[i]
  PROVE  x = y
<1> DEFINE n == Len(x)
<1>1. DOMAIN x = 1 .. n /\ x \in [1 .. n -> {x[i] : i \in 1 .. n}]
  BY TextFacts
<1>2. DOMAIN y = 1 .. n /\ y \in [1 .. n -> {y[i] : i \in 1 .. n}]
  BY TextFacts
<1> HIDE DEF n
<1> QED BY <1>1, <1>2 DEF n

\* Two texts behind each other.
LEMMA Joined ==
  ASSUME NEW x, NEW y, IsText(x), IsText(y)
  PROVE  /\ IsText(x \o y) /\ Len(x \o y) = Len(x) + Len(y)
         /\ \A i \in 1 .. Len(x) : (x \o y)[i] = x[i]
         /\ \A i \in 1 .. Len(y) : (x \o y)[Len(x) + i] = y[i]
<1>1. PICK S : x \in Seq(S)
  BY DEF IsText
<1>2. PICK T : y \in Seq(T)
  BY DEF IsText
<1>3. x \in Seq(S \cup T) /\ y \in Seq(S \cup T)
  BY <1>1, <1>2, SeqMonotonic
<1>4. Len(x) \in Nat /\ Len(y) \in Nat
  BY TextFacts
<1>5. \A i \in 1 .. Len(x) + Len(y) : (x \o y)[i] = IF i <= Len(x) THEN x[i] ELSE y[i - Len(x)]
  BY <1>3, ConcatProperties
<1>6. IsText(x \o y) /\ Len(x \o y) = Len(x) + Len(y)
  BY <1>3, ConcatProperties DEF IsText
<1> QED
  <2> PICK n \in Nat, m \in Nat : n = Len(x) /\ m = Len(y)
    BY <1>4
  <2>1. \A i \in 1 .. n : i \in 1 .. n + m /\ i <= n
    OBVIOUS
  <2>2. \A i \in 1 .. m : n + i \in 1 .. n + m /\ ~ (n + i <= n) /\ (n + i) - n = i
    OBVIOUS
  <2> QED BY <1>5, <1>6, <2>1, <2>2

\* A text and one character more.
LEMMA Appended ==
  ASSUME NEW x, NEW c, IsText(x)
  PROVE  /\ IsText(Append(x, c)) /\ Len(Append(x, c)) = Len(x) + 1
         /\ \A i \in 1 .. Len(x) : Append(x, c)[i] = x[i]
         /\ Append(x, c)[Len(x) + 1] = c
<1>1. PICK S : x \in Seq(S)
  BY DEF IsText
<1>2. x \in Seq(S \cup {c})
  BY <1>1, SeqMonotonic
<1>3. Append(x, c) \in Seq(S \cup {c})
  BY <1>2
<1> QED BY <1>2, <1>3 DEF IsText

\* Copying downwards, memory is moved whole although the areas overlap.
Moved(mem, size, source, num) ==
  [i \in 0 .. size - 1 |-> IF i < num THEN mem[source + i] ELSE mem[i]]

\* Copied upwards, cells move down whole even where the areas overlap.
LEMMA MemcpyMoves ==
  ASSUME NEW size \in Nat, NEW S, NEW mem \in [0 .. size - 1 -> S],
         NEW source \in Nat \ {0}, NEW num \in Nat, source + num <= size
  PROVE  memcpy(mem, 0, source, num) = Moved(mem, size, source, num)
<1> DEFINE body(f, i) == IF i = 0 THEN mem
                         ELSE [f[i - 1] EXCEPT ![0 + i - 1] = f[i - 1][source + i - 1]]
           moved(n) == [i \in 0 .. size - 1 |-> IF i < n THEN mem[source + i] ELSE mem[i]]
           Is(f) == f = [i \in 0 .. num |-> body(f, i)]
<1>1. moved(0) = mem
  <2>1. \A i \in 0 .. size - 1 : ~ (i < 0)
    OBVIOUS
  <2> QED BY <2>1
<1>2. ASSUME NEW n \in 0 .. num, n < num
      PROVE  moved(n + 1) = [moved(n) EXCEPT ![0 + (n + 1) - 1] = moved(n)[source + (n + 1) - 1]]
  <2>1. 0 + (n + 1) - 1 = n /\ source + (n + 1) - 1 = source + n
    OBVIOUS
  <2>2. n \in 0 .. size - 1 /\ source + n \in 0 .. size - 1 /\ ~ (source + n < n) /\ n < n + 1
    BY <1>2
  <2>3. moved(n)[source + n] = mem[source + n]
    BY <2>2
  <2>4. \A i \in 0 .. size - 1 : i # n => (i < n + 1 <=> i < n)
    BY <1>2
  <2>5. moved(n + 1) = [moved(n) EXCEPT ![n] = mem[source + n]]
    BY <2>2, <2>4
  <2> QED BY <2>1, <2>3, <2>5
<1>3. \E f : Is(f)
  <2> DEFINE f == [i \in 0 .. num |-> moved(i)]
  <2> HIDE DEF moved
  <2>1. ASSUME NEW i \in 0 .. num PROVE f[i] = body(f, i)
    <3>1. CASE i = 0
      BY <1>1, <3>1
    <3>2. CASE i # 0
      <4>1. PICK n \in 0 .. num : n = i - 1 /\ n < num /\ i = n + 1
        BY <3>2
      <4>2. f[n] = moved(n) /\ f[i] = moved(n + 1)
        BY <4>1
      <4> QED BY <1>2, <3>2, <4>1, <4>2
    <3> QED BY <3>1, <3>2
  <2>2. f = [i \in 0 .. num |-> f[i]]
    OBVIOUS
  <2> HIDE DEF f, body
  <2>3. f = [i \in 0 .. num |-> body(f, i)]
    BY <2>1, <2>2
  <2> QED BY <2>3
<1>4. ASSUME NEW f, Is(f) PROVE f[num] = moved(num)
  <2> DEFINE P == {i \in 0 .. num : f[i] = moved(i)}
  <2>1. 0 \in P
    BY <1>1, <1>4
  <2>2. ASSUME NEW n \in 0 .. num, n < num, n \in P PROVE n + 1 \in P
    <3> HIDE DEF moved
    <3>1. n + 1 \in 0 .. num /\ n + 1 # 0 /\ (n + 1) - 1 = n
      BY <2>2
    <3>2. f[n + 1] = [f[n] EXCEPT ![0 + (n + 1) - 1] = f[n][source + (n + 1) - 1]]
      BY <1>4, <3>1
    <3> QED BY <1>2, <2>2, <3>1, <3>2
  <2>3. num \in 0 .. num
    OBVIOUS
  <2>4. \A i \in 0 .. num : i \in P
    <3> HIDE DEF P
    <3> QED BY <2>1, <2>2, UpTo
  <2> QED BY <2>3, <2>4
<1>5. memcpy(mem, 0, source, num) = (CHOOSE f : Is(f))[num]
  BY DEF memcpy
<1> HIDE DEF Is, moved
<1>6. memcpy(mem, 0, source, num) = moved(num)
  BY <1>3, <1>4, <1>5
<1> QED BY <1>6 DEF moved, Moved

\* A message of no characters.
LEMMA SaidNothing == \A t : Said(t, <<>>) = t
<1> SUFFICES ASSUME NEW t PROVE Said(t, <<>>) = t
  OBVIOUS
<1> DEFINE body(f, k) == IF k = 0 THEN t ELSE Typed(f[k - 1], << >>[k])
           Is(f) == f = [k \in 0 .. 0 |-> body(f, k)]
<1>1. Len(<<>>) = 0
  OBVIOUS
<1>2. Is([k \in 0 .. 0 |-> t])
  OBVIOUS
<1>3. Said(t, <<>>) = (CHOOSE f : Is(f))[0]
  BY <1>1 DEF Said
<1>4. \A f : Is(f) => f[0] = t
  OBVIOUS
<1> HIDE DEF Is
<1> QED BY <1>2, <1>3, <1>4

\* What is said is typed character by character: f[k] is the text after k.
SaidBy(f, t, m) ==
  /\ f[0] = t /\ Said(t, m) = f[Len(m)]
  /\ \A k \in 1 .. Len(m) : f[k] = Typed(f[k - 1], m[k])

\* Said's recursive function, one character after the other.
LEMMA SaidIs ==
  ASSUME NEW t, NEW m, IsText(m)
  PROVE  \E f : SaidBy(f, t, m)
<1> DEFINE N == Len(m)
           body(f, k) == IF k = 0 THEN t ELSE Typed(f[k - 1], m[k])
           Is(f, n) == f = [k \in 0 .. n |-> body(f, k)]
           P == {n \in 0 .. N : \E f : Is(f, n)}
<1>1. N \in Nat
  BY TextFacts
<1>2. Said(t, m) = (CHOOSE f : Is(f, N))[N]
  BY DEF Said
<1> HIDE DEF N
<1>3. 0 \in P
  <2>1. Is([k \in 0 .. 0 |-> t], 0)
    OBVIOUS
  <2> HIDE DEF Is
  <2> QED BY <1>1, <2>1
<1>4. ASSUME NEW n \in 0 .. N, n < N, n \in P PROVE n + 1 \in P
  <2>1. PICK f : Is(f, n)
    BY <1>4
  <2> DEFINE g == [k \in 0 .. n + 1 |-> IF k = n + 1 THEN Typed(f[n], m[n + 1]) ELSE f[k]]
  <2>2. ASSUME NEW k \in 0 .. n + 1 PROVE g[k] = body(g, k)
    <3>1. CASE k = n + 1
      <4>1. k # 0 /\ k - 1 = n /\ n # n + 1 /\ n \in 0 .. n + 1
        BY <3>1
      <4>2. g[n] = f[n]
        BY <4>1
      <4> QED BY <3>1, <4>1, <4>2
    <3>2. CASE k = 0
      <4>1. 0 # n + 1 /\ 0 \in 0 .. n /\ 0 \in 0 .. n + 1
        OBVIOUS
      <4>2. f[0] = t
        BY <2>1, <4>1
      <4> QED BY <3>2, <4>1, <4>2
    <3>3. CASE k # n + 1 /\ k # 0
      <4>1. k - 1 # n + 1 /\ k - 1 \in 0 .. n + 1 /\ k \in 0 .. n
        BY <3>3
      <4>2. g[k - 1] = f[k - 1] /\ g[k] = f[k]
        BY <3>3, <4>1
      <4>3. f[k] = Typed(f[k - 1], m[k])
        BY <2>1, <3>3, <4>1
      <4> QED BY <3>3, <4>2, <4>3
    <3> QED BY <3>1, <3>2, <3>3
  <2>3. g = [k \in 0 .. n + 1 |-> g[k]]
    OBVIOUS
  <2> HIDE DEF g, body
  <2>4. Is(g, n + 1)
    BY <2>2, <2>3
  <2>5. n + 1 \in 0 .. N
    BY <1>1, <1>4
  <2> HIDE DEF Is
  <2> QED BY <2>4, <2>5
<1>5. N \in P
  <2>1. \A k \in 0 .. N : k \in P
    <3> HIDE DEF P
    <3> QED BY <1>1, <1>3, <1>4, UpTo
  <2> QED BY <1>1, <2>1
<1> DEFINE F == CHOOSE f : Is(f, N)
<1>6. Is(F, N)
  <2> HIDE DEF Is
  <2> QED BY <1>5
<1>7. F[0] = t /\ \A k \in 1 .. N : F[k] = Typed(F[k - 1], m[k])
  <2> HIDE DEF F
  <2>1. \A k \in 1 .. N : k \in 0 .. N /\ k # 0
    OBVIOUS
  <2>2. 0 \in 0 .. N
    BY <1>1
  <2> QED BY <1>6, <2>1, <2>2
<1>8. Said(t, m) = F[N]
  BY <1>2
<1> HIDE DEF F
<1> QED BY <1>7, <1>8 DEF N, SaidBy

\* The first character is typed, then the rest is said.
LEMMA SaidNext ==
  ASSUME NEW t, NEW m, IsText(m), m # <<>>
  PROVE  /\ Said(t, m) = Said(Typed(t, Head(m)), Tail(m))
         /\ IsText(Tail(m))
<1>1. PICK S : m \in Seq(S)
  BY DEF IsText
<1>2. PICK n \in Nat : Len(m) = n + 1
  <2>1. Len(m) \in Nat /\ Len(m) # 0
    BY <1>1, EmptySeq
  <2>2. Len(m) - 1 \in Nat /\ Len(m) = (Len(m) - 1) + 1
    <3> PICK k \in Nat : k = Len(m)
      BY <2>1
    <3> QED BY <2>1
  <2> QED BY <2>2
<1>3. /\ Head(m) = m[1] /\ Tail(m) \in Seq(S) /\ Len(Tail(m)) = n
      /\ \A k \in 1 .. n : Tail(m)[k] = m[k + 1]
  <2>1. Tail(m) \in Seq(S) /\ Len(Tail(m)) = Len(m) - 1 /\ Head(m) = m[1]
    BY <1>1, HeadTailProperties
  <2>2. Len(Tail(m)) = n
    BY <1>2, <2>1
  <2> QED BY <1>1, <2>1, <2>2, HeadTailProperties
<1>4. IsText(Tail(m))
  BY <1>3 DEF IsText
<1>5. PICK f : SaidBy(f, t, m)
  BY SaidIs
<1>6. PICK g : SaidBy(g, Typed(t, Head(m)), Tail(m))
  BY <1>4, SaidIs
<1> DEFINE P == {k \in 0 .. n : g[k] = f[k + 1]}
<1>7. 0 \in P
  <2>1. 1 \in 1 .. n + 1 /\ 1 - 1 = 0 /\ 0 + 1 = 1 /\ 0 \in 0 .. n
    OBVIOUS
  <2>2. f[1] = Typed(t, m[1])
    BY <1>2, <1>5, <2>1 DEF SaidBy
  <2> QED BY <1>3, <1>6, <2>1, <2>2 DEF SaidBy
<1>8. ASSUME NEW k \in 0 .. n, k < n, k \in P PROVE k + 1 \in P
  <2> PICK j \in 0 .. n : j = k + 1
    BY <1>8
  <2>1. j \in 1 .. n /\ j - 1 = k /\ j + 1 \in 1 .. n + 1 /\ (j + 1) - 1 = j
    OBVIOUS
  <2>2. g[j] = Typed(g[k], m[j + 1])
    BY <1>3, <1>6, <2>1 DEF SaidBy
  <2>3. f[j + 1] = Typed(f[j], m[j + 1])
    BY <1>2, <1>5, <2>1 DEF SaidBy
  <2> QED BY <1>8, <2>2, <2>3
<1>9. \A k \in 0 .. n : k \in P
  <2> HIDE DEF P
  <2> QED BY <1>7, <1>8, UpTo
<1>10. g[n] = f[n + 1]
  <2>1. n \in 0 .. n
    OBVIOUS
  <2> QED BY <1>9, <2>1
<1> QED BY <1>2, <1>3, <1>4, <1>5, <1>6, <1>10 DEF SaidBy

-----------------------------------------------------------------------------
(* A character on the screen.                                              *)

Screens(s) == s = [mem |-> s.mem, curX |-> s.curX, curY |-> s.curY, cursor |-> s.cursor]

\* Screen s shows text t, but for a row it has still to scroll.
Follows(s, t) ==
  /\ Screens(s) /\ IsText(t)
  /\ s.curX \in 0 .. SCREEN_COLS - 1 /\ s.curY \in 0 .. SCREEN_ROWS
  /\ s.curY = SCREEN_ROWS => s.curX = 0
  /\ Len(t) = At(s) /\ s.mem = Window(t)

Shows(s, t) == Follows(s, t) /\ s.curY # SCREEN_ROWS

\* Cells in rows and columns.
LEMMA Grid ==
  ASSUME NEW x \in 0 .. SCREEN_COLS - 1, NEW y \in 0 .. SCREEN_ROWS - 1
  PROVE  /\ y * SCREEN_COLS \in Nat /\ Cells \in Nat /\ Cells = SCREEN_ROWS * SCREEN_COLS
         /\ (y + 1) * SCREEN_COLS = y * SCREEN_COLS + SCREEN_COLS
         /\ (y - 1) * SCREEN_COLS = y * SCREEN_COLS - SCREEN_COLS
         /\ y * SCREEN_COLS + SCREEN_COLS <= Cells
         /\ y # 0 => y * SCREEN_COLS >= SCREEN_COLS
         /\ y = 0 => y * SCREEN_COLS = 0
         /\ (y * SCREEN_COLS + x) % SCREEN_COLS = x
<1>1. SCREEN_COLS \in Nat \ {0} /\ SCREEN_ROWS \in Nat \ {0}
  BY ScreenAssumption
<1> PICK c \in Nat \ {0}, r \in Nat \ {0} : c = SCREEN_COLS /\ r = SCREEN_ROWS
  BY <1>1
<1>2. y * c \in Nat /\ c * r \in Nat /\ c * r = r * c
  BY SMTT(30)
<1>3. (y + 1) * c = y * c + c /\ (y - 1) * c = y * c - c
  BY SMTT(30)
<1>4. y * c + c <= c * r
  <2>1. (y + 1) * c <= r * c
    BY SMTT(30)
  <2> QED BY <1>2, <1>3, <2>1
<1>5. y # 0 => y * c >= c
  BY SMTT(30)
<1>6. y = 0 => y * c = 0
  BY SMTT(30)
<1>7. (y * c + x) % c = x
  <2>0. x \in Int /\ y \in Int /\ x \in 0 .. c - 1
    OBVIOUS
  <2>1. (x + c * y) % c = x % c
    BY <2>0, ModShift
  <2>2. x % c = x
    BY <2>0, ModSmall
  <2>3. y * c + x = x + c * y
    BY SMTT(30)
  <2> QED BY <2>1, <2>2, <2>3
<1> QED BY <1>2, <1>3, <1>4, <1>5, <1>6, <1>7 DEF Cells

\* Where the row below the last is reached, the rows move up.
LEMMA ScrolledShows ==
  ASSUME NEW s, NEW t, Follows(s, t)
  PROVE  Shows(Scrolled(s), Seen(t))
<1> DEFINE c == SCREEN_COLS
<1> DEFINE r == SCREEN_ROWS
<1>1. c \in Nat \ {0} /\ r \in Nat \ {0}
  BY ScreenAssumption
<1>0. PICK x \in 0 .. c - 1, y \in 0 .. r :
        \E m, w : s = [mem |-> m, curX |-> x, curY |-> y, cursor |-> w]
  BY DEF Follows, Screens
<1>2. PICK mem, z : s = [mem |-> mem, curX |-> x, curY |-> y, cursor |-> z]
  BY <1>0
<1>3. /\ IsText(t) /\ (y = r => x = 0) /\ Len(t) = y * c + x /\ mem = Window(t)
  BY <1>2 DEF Follows, At
<1>4. CASE y # r
  <2>1. y \in 0 .. r - 1
    BY <1>1, <1>4
  <2>2. Len(t) < Cells
    <3>1. y * c \in Nat /\ Cells \in Nat /\ y * c + c <= Cells
      BY <2>1, Grid
    <3> PICK a \in Nat : a = y * c
      BY <3>1
    <3> QED BY <1>1, <1>3, <3>1
  <2>3. Seen(t) = t /\ Scrolled(s) = s
    <3>1. Len(t) < SCREEN_COLS * SCREEN_ROWS
      BY <2>2 DEF Cells
    <3>2. s.curY # SCREEN_ROWS
      BY <1>2, <1>4
    <3> QED BY <3>1, <3>2 DEF Seen, Scrolled
  <2> QED BY <1>2, <1>4, <2>3 DEF Shows
<1>5. CASE y = r
  <2> DEFINE K == Cells
  <2> DEFINE last == K - c
  <2> DEFINE u == SubSeq(t, c + 1, Len(t))
  <2>1. r - 1 \in 0 .. r - 1 /\ 0 \in 0 .. c - 1 /\ (r - 1) + 1 = r
    BY <1>1
  <2>2. K \in Nat /\ K = r * c /\ (r - 1) * c = K - c /\ last \in Nat
    <3>1. K \in Nat /\ K = r * c /\ ((r - 1) + 1) * c = (r - 1) * c + c /\ (r - 1) * c \in Nat
      BY <2>1, Grid
    <3>2. r * c = (r - 1) * c + c
      BY <2>1, <3>1
    <3> PICK a \in Nat : a = (r - 1) * c
      BY <3>1
    <3>3. K = a + c
      BY <3>1, <3>2
    <3> HIDE DEF K, c
    <3> QED BY <1>1, <3>1, <3>3
  <2>3. x = 0 /\ Len(t) = K
    BY <1>3, <1>5, <2>2
  <2>4. Seen(t) = u
    <3>1. ~ (Len(t) < SCREEN_COLS * SCREEN_ROWS)
      BY <2>2, <2>3 DEF Cells
    <3> QED BY <3>1 DEF Seen
  <2>5. IsText(u) /\ Len(u) = last /\ \A i \in 1 .. last : u[i] = t[i + c]
    <3>1. PICK S : t \in Seq(S)
      BY <1>3 DEF IsText
    <3>2. \A i \in c + 1 .. K : i \in 1 .. K
      BY <1>1, <2>2
    <3>3. \A i \in c + 1 .. K : t[i] \in S
      BY <2>3, <3>1, <3>2, ElementOfSeq
    <3> HIDE DEF K, c
    <3>4. c + 1 \in Int /\ K \in Int /\ (K - (c + 1) + 1 = last) /\ (IF c + 1 <= K THEN K - (c + 1) + 1 ELSE 0) = last
          /\ \A i \in 1 .. last : c + 1 + i - 1 = i + c
      BY <1>1, <2>2
    <3>5. /\ SubSeq(t, c + 1, K) \in Seq(S)
          /\ Len(SubSeq(t, c + 1, K)) = IF c + 1 <= K THEN K - (c + 1) + 1 ELSE 0
          /\ \A i \in 1 .. K - (c + 1) + 1 : SubSeq(t, c + 1, K)[i] = t[c + 1 + i - 1]
      BY <3>3, <3>4, SubSeqProperties
    <3> QED BY <2>3, <3>4, <3>5 DEF IsText
  <2>6. mem = [i \in 0 .. K - 1 |-> t[i + 1]]
    <3>1. mem = [i \in 0 .. K - 1 |-> IF i < K THEN t[i + 1] ELSE Blank]
      BY <1>3, <2>3 DEF Window, Cells
    <3>2. \A i \in 0 .. K - 1 : i < K
      BY <2>2
    <3> QED BY <3>1, <3>2
  <2> DEFINE up == memcpy(mem, 0, c, last)
  <2>7. up = [i \in 0 .. K - 1 |-> IF i < last THEN mem[c + i] ELSE mem[i]]
    <3>1. c + last <= K /\ mem \in [0 .. K - 1 -> {mem[i] : i \in 0 .. K - 1}]
      BY <1>1, <2>2, <2>6
    <3> HIDE DEF K, c, last
    <3>2. K \in Nat /\ c \in Nat \ {0} /\ last \in Nat
      BY <1>1, <2>2
    <3>3. memcpy(mem, 0, c, last) = Moved(mem, K, c, last)
      BY <3>1, <3>2, MemcpyMoves
    <3> QED BY <3>3 DEF Moved, up
  <2>8. Scrolled(s) = [mem |-> [i \in DOMAIN up |-> IF i >= last THEN Blank ELSE up[i]],
                       curX |-> 0, curY |-> r - 1, cursor |-> z]
    <3>1. s.curY = SCREEN_ROWS /\ s.mem = mem
      BY <1>2, <1>5
    <3> QED BY <1>2, <1>5, <2>3, <3>1 DEF Scrolled
  <2>9. [i \in DOMAIN up |-> IF i >= last THEN Blank ELSE up[i]] = Window(u)
    <3>1. Window(u) = [i \in 0 .. K - 1 |-> IF i < last THEN u[i + 1] ELSE Blank]
      BY <2>5 DEF Window, Cells
    <3>2. ASSUME NEW i \in 0 .. K - 1
          PROVE  (IF i >= last THEN Blank ELSE up[i]) = IF i < last THEN u[i + 1] ELSE Blank
      <4> HIDE DEF K, c, last, u, up
      <4>1. CASE i < last
        <5>1. i + 1 \in 1 .. last /\ c + i \in 0 .. K - 1 /\ c + i + 1 = (i + 1) + c /\ ~ (i >= last)
          BY <1>1, <2>2, <4>1 DEF last
        <5>2. up[i] = t[c + i + 1]
          BY <2>6, <2>7, <4>1, <5>1
        <5> QED BY <2>5, <4>1, <5>1, <5>2
      <4>2. CASE ~ (i < last)
        BY <2>2, <4>2
      <4> QED BY <4>1, <4>2
    <3>3. DOMAIN up = 0 .. K - 1
      BY <2>7
    <3> HIDE DEF K, c, last, u, up
    <3> QED BY <3>1, <3>2, <3>3
  <2> HIDE DEF u, up
  <2>10. Len(u) = (r - 1) * c + 0
    BY <2>1, <2>2, <2>5
  <2>11. r - 1 # r /\ r - 1 \in 0 .. r
    BY <1>1
  <2>12. Scrolled(s) = [mem |-> Window(u), curX |-> 0, curY |-> r - 1, cursor |-> z]
    BY <2>8, <2>9
  <2> QED BY <2>1, <2>4, <2>5, <2>10, <2>11, <2>12 DEF Shows, Follows, Screens, At
<1> QED BY <1>4, <1>5

\* print_char types the character, whatever the screen shows and wherever
\* the place for it is.
LEMMA PrintShows ==
  ASSUME NEW s, NEW t, NEW ch, Shows(s, t)
  PROVE  Shows(print_char(ch, s), Typed(t, ch))
<1> DEFINE c == SCREEN_COLS
<1> DEFINE r == SCREEN_ROWS
<1> DEFINE K == Cells
<1> DEFINE n == Len(t)
<1>1. c \in Nat \ {0} /\ r \in Nat \ {0}
  BY ScreenAssumption
<1>0. PICK x \in 0 .. c - 1, y \in 0 .. r - 1 :
        \E m, w : s = [mem |-> m, curX |-> x, curY |-> y, cursor |-> w]
  <2>1. \A j \in 0 .. r : j # r => j \in 0 .. r - 1
    BY <1>1
  <2> QED BY <2>1 DEF Shows, Follows, Screens
<1>2. PICK mem, z : s = [mem |-> mem, curX |-> x, curY |-> y, cursor |-> z]
  BY <1>0
<1>3. IsText(t) /\ n = y * c + x /\ mem = Window(t) /\ At(s) = n
  BY <1>2 DEF Shows, Follows, At
<1>4. PICK a \in Nat : a = y * c
  BY <1>2, Grid
<1>5. /\ K \in Nat /\ (y + 1) * c = a + c /\ (y - 1) * c = a - c /\ a + c <= K
      /\ (y # 0 => a >= c) /\ (y = 0 => a = 0) /\ (a + x) % c = x
  BY <1>2, <1>4, Grid
<1>6. n = a + x /\ n \in Nat /\ n < K
  BY <1>1, <1>2, <1>3, <1>4, <1>5
<1>7. mem = [i \in 0 .. K - 1 |-> IF i < n THEN t[i + 1] ELSE Blank] /\ n \in 0 .. K - 1
  <2>1. mem = [i \in 0 .. K - 1 |-> IF i < n THEN t[i + 1] ELSE Blank]
    BY <1>3 DEF Window, Cells
  <2> HIDE DEF K, n
  <2> QED BY <1>5, <1>6, <2>1
<1> DEFINE State(m, p, q, w) == [mem |-> m, curX |-> p, curY |-> q, cursor |-> w]
<1> DEFINE Fits(u, m, p, q, w) ==
      /\ Wrapped(State(m, p, q, w)) = State(m, p, q, w)
      /\ Shows(Scrolled(State(m, p, q, w)), Seen(u))
      /\ q # r => Shows(Scrolled(State(m, p, q, w)), u)
<1>8. ASSUME NEW u, NEW m, NEW p \in 0 .. c - 1, NEW q \in 0 .. r, q = r => p = 0, NEW w,
             IsText(u), Len(u) = q * c + p, m = Window(u)
      PROVE  Fits(u, m, p, q, w)
  <2> DEFINE o == State(m, p, q, w)
  <2>1. Follows(o, u)
    BY <1>8 DEF Follows, Screens, At
  <2>2. Wrapped(o) = o
    <3>1. o.curX = p /\ ~ (p >= c)
      BY <1>1
    <3> QED BY <3>1 DEF Wrapped
  <2>3. q # r => Scrolled(o) = o /\ Shows(o, u)
    BY <2>1 DEF Scrolled, Shows
  <2> HIDE DEF o
  <2>4. Shows(Scrolled(o), Seen(u))
    BY <2>1, ScrolledShows
  <2> QED BY <2>2, <2>3, <2>4 DEF o
<1> HIDE DEF Fits
<1> HIDE DEF c, r, K, n
<1>9. CASE ch = Newline
  <2> DEFINE pad == [i \in 1 .. c - (n % c) |-> Blank]
  <2> DEFINE u == t \o pad
  <2>1. n % c = x
    BY <1>5, <1>6
  <2>2. pad = [i \in 1 .. c - x |-> Blank] /\ c - x \in Nat
    BY <1>1, <2>1
  <2>3. IsText(pad) /\ Len(pad) = c - x
    <3> HIDE DEF pad
    <3>1. pad = [i \in 1 .. c - x |-> pad[i]]
      BY <2>2
    <3> QED BY <2>2, <3>1, TextOf
  <2> HIDE DEF pad
  <2>4. /\ IsText(u) /\ Len(u) = n + (c - x) /\ \A i \in 1 .. n : u[i] = t[i]
        /\ \A i \in 1 .. c - x : u[n + i] = Blank
    <3>1. /\ IsText(t \o pad) /\ Len(t \o pad) = Len(t) + Len(pad)
          /\ \A i \in 1 .. Len(t) : (t \o pad)[i] = t[i]
          /\ \A i \in 1 .. Len(pad) : (t \o pad)[Len(t) + i] = pad[i]
      BY <1>3, <2>3, Joined
    <3>2. \A i \in 1 .. c - x : pad[i] = Blank
      BY <2>2
    <3> QED BY <2>3, <3>1, <3>2 DEF n
  <2>5. Len(u) = (y + 1) * c + 0
    BY <1>1, <1>5, <1>6, <2>4
  <2>6. Window(u) = mem
    <3>1. Window(u) = [i \in 0 .. K - 1 |-> IF i < n + (c - x) THEN u[i + 1] ELSE Blank]
      BY <2>4 DEF Window, K, Cells
    <3>2. ASSUME NEW i \in 0 .. K - 1
          PROVE  (IF i < n + (c - x) THEN u[i + 1] ELSE Blank) = IF i < n THEN t[i + 1] ELSE Blank
      <4> HIDE DEF u
      <4>1. CASE i < n
        <5>1. i + 1 \in 1 .. n /\ i < n + (c - x)
          BY <1>1, <1>6, <4>1
        <5> QED BY <2>4, <4>1, <5>1
      <4>2. CASE ~ (i < n) /\ i < n + (c - x)
        <5>1. i - n + 1 \in 1 .. c - x /\ n + (i - n + 1) = i + 1
          BY <1>1, <1>6, <4>2
        <5>2. u[i + 1] = Blank
          BY <2>4, <5>1
        <5> QED BY <4>2, <5>2
      <4>3. CASE ~ (i < n) /\ ~ (i < n + (c - x))
        BY <4>3
      <4> QED BY <4>1, <4>2, <4>3
    <3> HIDE DEF u
    <3> QED BY <1>7, <3>1, <3>2
  <2>7. Put(ch, s) = [mem |-> mem, curX |-> 0, curY |-> y + 1, cursor |-> z]
    BY <1>2, <1>9 DEF Put, Newline, Backspace, Esc
  <2>8. Typed(t, ch) = Seen(u)
    BY <1>9, <2>1 DEF Typed, Newline, Backspace, Esc, pad, n, c
  <2>9. y + 1 \in 0 .. r /\ 0 \in 0 .. c - 1
    BY <1>1
  <2> HIDE DEF u
  <2>10. Fits(u, mem, 0, y + 1, z)
    BY <1>8, <2>4, <2>5, <2>6, <2>9
  <2> QED BY <2>7, <2>8, <2>10 DEF print_char, Fits
<1>10. CASE ch = Backspace /\ n = 0
  <2>1. t = <<>>
    <3> PICK S : t \in Seq(S)
      BY <1>3 DEF IsText
    <3> QED BY <1>10, EmptySeq DEF n
  <2>2. Typed(t, ch) = t
    BY <1>10, <2>1 DEF Typed, Newline, Backspace, Esc
  <2>3. Put(ch, s) = s
    BY <1>3, <1>10 DEF Put, Newline, Backspace, Esc
  <2>4. y \in 0 .. r /\ y # r /\ Len(t) = y * c + x
    BY <1>1, <1>3 DEF n
  <2>5. Fits(t, mem, x, y, z)
    BY <1>3, <1>8, <2>4
  <2> QED BY <1>2, <2>2, <2>3, <2>4, <2>5 DEF print_char, Fits
<1>11. CASE ch = Backspace /\ n # 0
  <2> DEFINE u == SubSeq(t, 1, n - 1)
  <2> DEFINE m == [mem EXCEPT ![n - 1] = Blank]
  <2>1. t # <<>>
    BY <1>11 DEF n
  <2>2. IsText(u) /\ Len(u) = n - 1 /\ \A i \in 1 .. n - 1 : u[i] = t[i]
    <3>1. PICK S : t \in Seq(S)
      BY <1>3 DEF IsText
    <3>2. \A i \in 1 .. n - 1 : i \in 1 .. n
      BY <1>6
    <3>3. \A i \in 1 .. n - 1 : t[i] \in S
      BY <3>1, <3>2, ElementOfSeq DEF n
    <3>4. 1 \in Int /\ n - 1 \in Int /\ (n - 1) - 1 + 1 = n - 1 /\ (IF 1 <= n - 1 THEN (n - 1) - 1 + 1 ELSE 0) = n - 1
          /\ \A i \in 1 .. n - 1 : 1 + i - 1 = i
      BY <1>6, <1>11
    <3>5. /\ u \in Seq(S) /\ Len(u) = IF 1 <= n - 1 THEN (n - 1) - 1 + 1 ELSE 0
          /\ \A i \in 1 .. (n - 1) - 1 + 1 : u[i] = t[1 + i - 1]
      BY <3>3, <3>4, SubSeqProperties
    <3> HIDE DEF u
    <3> QED BY <3>4, <3>5 DEF IsText
  <2>3. Typed(t, ch) = u
    BY <1>11, <2>1 DEF Typed, Newline, Backspace, Esc, Front, n
  <2> HIDE DEF u
  <2>4. m = Window(u)
    <3>1. Window(u) = [i \in 0 .. K - 1 |-> IF i < n - 1 THEN u[i + 1] ELSE Blank]
      BY <2>2 DEF Window, K, Cells
    <3>2. m = [i \in 0 .. K - 1 |-> IF i = n - 1 THEN Blank ELSE mem[i]]
      BY <1>7
    <3>3. ASSUME NEW i \in 0 .. K - 1
          PROVE  (IF i = n - 1 THEN Blank ELSE mem[i]) = IF i < n - 1 THEN u[i + 1] ELSE Blank
      <4>1. CASE i < n - 1
        <5>1. i < n /\ i # n - 1 /\ i + 1 \in 1 .. n - 1
          BY <1>5, <1>6, <4>1
        <5> QED BY <1>7, <2>2, <4>1, <5>1
      <4>2. CASE i = n - 1
        BY <1>6, <4>2
      <4>3. CASE ~ (i < n - 1) /\ i # n - 1
        <5>1. ~ (i < n)
          BY <1>5, <1>6, <4>3
        <5> QED BY <1>7, <4>3, <5>1
      <4> QED BY <4>1, <4>2, <4>3
    <3> HIDE DEF m
    <3> QED BY <3>1, <3>2, <3>3
  <2>5. s.mem = mem /\ s.curX = x /\ s.curY = y /\ At(s) # 0 /\ At(s) - 1 = n - 1
    BY <1>2, <1>3, <1>11
  <2> HIDE DEF m
  <2>6. CASE x = 0
    <3>0. y # 0 /\ Len(u) = (a - c) + (c - 1)
      BY <1>1, <1>4, <1>5, <1>6, <1>11, <2>2, <2>6
    <3>1. y # 0 /\ Len(u) = (y - 1) * c + (c - 1) /\ y - 1 \in 0 .. r /\ y - 1 # r /\ c - 1 \in 0 .. c - 1
      BY <1>1, <1>5, <3>0
    <3>2. Put(ch, s) = [mem |-> m, curX |-> c - 1, curY |-> y - 1, cursor |-> z]
      BY <1>2, <1>11, <2>5, <2>6 DEF Put, Newline, Backspace, Esc, m, c
    <3>3. Fits(u, m, c - 1, y - 1, z)
      BY <1>8, <2>2, <2>4, <3>1
    <3> QED BY <2>3, <3>1, <3>2, <3>3 DEF print_char, Fits
  <2>7. CASE x # 0
    <3>1. Len(u) = y * c + (x - 1) /\ y \in 0 .. r /\ y # r /\ x - 1 \in 0 .. c - 1
      BY <1>1, <1>3, <1>4, <1>6, <2>2, <2>7
    <3>2. Put(ch, s) = [mem |-> m, curX |-> x - 1, curY |-> y, cursor |-> z]
      BY <1>2, <1>11, <2>5, <2>7 DEF Put, Newline, Backspace, Esc, m
    <3>3. Fits(u, m, x - 1, y, z)
      BY <1>8, <2>2, <2>4, <3>1
    <3> QED BY <2>3, <3>1, <3>2, <3>3 DEF print_char, Fits
  <2> QED BY <2>6, <2>7
<1>12. CASE ch = Esc
  <2>1. Typed(t, ch) = <<>>
    BY <1>12 DEF Typed, Newline, Backspace, Esc
  <2>2. IsText(<<>>) /\ Len(<<>>) = 0 * c + 0 /\ 0 \in 0 .. c - 1 /\ 0 \in 0 .. r /\ 0 # r
    <3>1. <<>> \in Seq({}) /\ Len(<<>>) = 0
      BY EmptySeq
    <3> QED BY <1>1, <3>1 DEF IsText
  <2> DEFINE b == [i \in 0 .. K - 1 |-> Blank]
  <2>3. b = Window(<<>>)
    <3>1. Window(<<>>) = [i \in 0 .. K - 1 |-> IF i < 0 THEN <<>>[i + 1] ELSE Blank]
      BY <2>2 DEF Window, K, Cells
    <3>2. \A i \in 0 .. K - 1 : ~ (i < 0)
      BY <1>5
    <3> QED BY <3>1, <3>2
  <2>4. PICK w : Put(ch, s) = [mem |-> b, curX |-> 0, curY |-> 0, cursor |-> w]
    <3>1. Put(ch, s) = clear_screen(s)
      BY <1>12 DEF Put, Newline, Backspace, Esc
    <3>2. BlankScreen(s) = [s EXCEPT !.mem = b]
      BY DEF BlankScreen, K
    <3> HIDE DEF b
    <3>3. BlankScreen(s) = [mem |-> b, curX |-> x, curY |-> y, cursor |-> z]
      BY <1>2, <3>2
    <3>4. [[mem |-> b, curX |-> x, curY |-> y, cursor |-> z] EXCEPT !.curX = 0]
            = [mem |-> b, curX |-> 0, curY |-> y, cursor |-> z]
      OBVIOUS
    <3>5. [[mem |-> b, curX |-> 0, curY |-> y, cursor |-> z] EXCEPT !.curY = 0]
            = [mem |-> b, curX |-> 0, curY |-> 0, cursor |-> z]
      OBVIOUS
    <3>6. [BlankScreen(s) EXCEPT !.curX = 0, !.curY = 0] = [mem |-> b, curX |-> 0, curY |-> 0, cursor |-> z]
      BY <3>3, <3>4, <3>5
    <3> QED BY <3>1, <3>6 DEF clear_screen, update_cursor_pos
  <2> HIDE DEF b
  <2>5. Fits(<<>>, b, 0, 0, w)
    BY <1>8, <2>2, <2>3
  <2> QED BY <2>1, <2>2, <2>4, <2>5 DEF print_char, Fits
<1>13. CASE ch \notin {Newline, Backspace, Esc}
  <2> DEFINE u == Append(t, ch)
  <2> DEFINE m == [mem EXCEPT ![n] = ch]
  <2>1. IsText(u) /\ Len(u) = n + 1 /\ u[n + 1] = ch /\ \A i \in 1 .. n : u[i] = t[i]
    BY <1>3, Appended DEF n
  <2>2. Typed(t, ch) = Seen(u)
    BY <1>13 DEF Typed, Newline, Backspace, Esc
  <2>3. Put(ch, s) = [mem |-> m, curX |-> x + 1, curY |-> y, cursor |-> z]
    BY <1>2, <1>3, <1>13 DEF Put, Newline, Backspace, Esc
  <2> HIDE DEF u
  <2>4. m = Window(u)
    <3>1. Window(u) = [i \in 0 .. K - 1 |-> IF i < n + 1 THEN u[i + 1] ELSE Blank]
      BY <2>1 DEF Window, K, Cells
    <3>2. m = [i \in 0 .. K - 1 |-> IF i = n THEN ch ELSE mem[i]]
      BY <1>7
    <3>3. ASSUME NEW i \in 0 .. K - 1
          PROVE  (IF i = n THEN ch ELSE mem[i]) = IF i < n + 1 THEN u[i + 1] ELSE Blank
      <4>1. CASE i < n
        <5>1. i < n + 1 /\ i # n /\ i + 1 \in 1 .. n
          BY <1>5, <1>6, <4>1
        <5> QED BY <1>7, <2>1, <4>1, <5>1
      <4>2. CASE i = n
        BY <1>6, <2>1, <4>2
      <4>3. CASE ~ (i < n) /\ i # n
        <5>1. ~ (i < n + 1)
          BY <1>5, <1>6, <4>3
        <5> QED BY <1>7, <4>3, <5>1
      <4> QED BY <4>1, <4>2, <4>3
    <3> HIDE DEF m
    <3> QED BY <3>1, <3>2, <3>3
  <2> HIDE DEF m
  <2>5. CASE x = c - 1
    <3>0. Len(u) = a + c
      BY <1>1, <1>4, <1>6, <2>1, <2>5
    <3>1. Len(u) = (y + 1) * c + 0 /\ y + 1 \in 0 .. r /\ 0 \in 0 .. c - 1
      BY <1>1, <1>4, <1>5, <3>0
    <3>2. Wrapped(Put(ch, s)) = [mem |-> m, curX |-> 0, curY |-> y + 1, cursor |-> z]
      <4>1. x + 1 >= c
        BY <1>1, <2>5
      <4>2. Put(ch, s).curX = x + 1 /\ Put(ch, s).curY = y
        BY <2>3
      <4>3. Wrapped(Put(ch, s)) = [Put(ch, s) EXCEPT !.curX = 0, !.curY = @ + 1]
        BY <4>1, <4>2 DEF Wrapped, c
      <4>4. [[mem |-> m, curX |-> x + 1, curY |-> y, cursor |-> z] EXCEPT !.curX = 0]
              = [mem |-> m, curX |-> 0, curY |-> y, cursor |-> z]
        OBVIOUS
      <4>5. [[mem |-> m, curX |-> 0, curY |-> y, cursor |-> z] EXCEPT !.curY = @ + 1]
              = [mem |-> m, curX |-> 0, curY |-> y + 1, cursor |-> z]
        OBVIOUS
      <4> QED BY <2>3, <4>3, <4>4, <4>5
    <3>3. Fits(u, m, 0, y + 1, z)
      BY <1>8, <2>1, <2>4, <3>1
    <3> QED BY <2>2, <3>2, <3>3 DEF print_char, Fits
  <2>6. CASE x # c - 1
    <3>1. Len(u) = y * c + (x + 1) /\ y \in 0 .. r /\ y # r /\ x + 1 \in 0 .. c - 1
      BY <1>1, <1>3, <1>4, <1>6, <2>1, <2>6
    <3>2. Fits(u, m, x + 1, y, z)
      BY <1>8, <2>1, <2>4, <3>1
    <3> QED BY <2>2, <2>3, <3>2 DEF print_char, Fits
  <2> QED BY <2>5, <2>6
<1> QED BY <1>9, <1>10, <1>11, <1>12, <1>13

-----------------------------------------------------------------------------
(* What is seen on the screen.                                             *)

\* Screen and cursor are where the text is; while a handler prints, what it
\* has still to print is what the screen lacks.
Printing == frames # <<>> /\ frames[1].at = "print"

TextInv ==
  /\ ~halted /\ ~Printing => Shows(screen, text) /\ screen.cursor = At(screen)
  /\ ~halted /\ Printing => \E t : Shows(screen, t) /\ text = Said(t, frames[1].todo)

\* A message is a sequence of characters.
MessageIsText == frames # <<>> => IsText(frames[1].todo)

\* The screen starts blank, and nothing is said.
LEMMA InitialText == Init => TextInv
<1> SUFFICES ASSUME Init PROVE TextInv
  OBVIOUS
<1>1. frames = <<>> /\ text = <<>> /\ screen = [mem |-> Window(<<>>), curX |-> 0, curY |-> 0, cursor |-> 0]
  BY DEF Init, InitInterrupts
<1>2. IsText(<<>>) /\ Len(<<>>) = 0
  <2>1. <<>> \in Seq({}) /\ Len(<<>>) = 0
    BY EmptySeq
  <2> QED BY <2>1 DEF IsText
<1>3. 0 \in 0 .. SCREEN_COLS - 1 /\ 0 \in 0 .. SCREEN_ROWS /\ 0 # SCREEN_ROWS /\ 0 * SCREEN_COLS + 0 = 0
  BY ScreenAssumption
<1>4. At(screen) = 0 /\ screen.cursor = 0
  BY <1>1, <1>3 DEF At
<1>5. Shows(screen, text)
  BY <1>1, <1>2, <1>3, <1>4 DEF Shows, Follows, Screens
<1> QED BY <1>1, <1>4, <1>5 DEF TextInv, Printing

\* A step that prints nothing and neither starts nor goes on with a message.
LEMMA OthersKeepText ==
  ASSUME TextInv, UNCHANGED <<screen, text>>, halted' = halted, ~Printing, ~Printing'
  PROVE  TextInv'
BY DEF TextInv, At

\* A handler has a message, which is said from then on.
LEMMA SayKeepsText ==
  ASSUME TextInv, ~Printing, FrameOK, NEW message, text' = Said(text, message),
         Goes("print", message), UNCHANGED <<screen, halted>>
  PROVE  TextInv'
<1>1. frames' = <<[int |-> frames[1].int, at |-> "print", todo |-> message]>>
  BY GoesFacts
<1>2. Printing' /\ frames'[1].todo = message
  BY <1>1 DEF Printing
<1> QED BY <1>2 DEF TextInv

\* It is printed character by character, and at last the cursor follows.
LEMMA PrintKeepsText ==
  ASSUME TextInv, FrameOK, MessageIsText, ~halted, PrintNext
  PROVE  TextInv'
<1>1. Frame = frames[1] /\ Printing
  BY FrameFacts DEF PrintNext, Printing
<1> DEFINE m == frames[1].todo
<1>2. PICK t : Shows(screen, t) /\ text = Said(t, m)
  BY <1>1 DEF TextInv
<1>3. IsText(m) /\ text' = text /\ halted' = halted
  BY <1>1 DEF MessageIsText, Printing, PrintNext
<1>4. CASE m = <<>>
  <2>1. screen' = update_cursor_pos(screen) /\ Goes("eoi", <<>>)
    BY <1>1, <1>4 DEF PrintNext
  <2>2. frames' = <<[int |-> frames[1].int, at |-> "eoi", todo |-> <<>>]>>
    BY <2>1, GoesFacts
  <2>3. text = t
    BY <1>2, <1>4, SaidNothing
  <2>4. screen = [mem |-> screen.mem, curX |-> screen.curX, curY |-> screen.curY, cursor |-> screen.cursor]
    BY <1>2 DEF Shows, Follows, Screens
  <2>5. screen' = [mem |-> screen.mem, curX |-> screen.curX, curY |-> screen.curY, cursor |-> At(screen)]
    BY <2>1, <2>4 DEF update_cursor_pos
  <2>6. At(screen') = At(screen) /\ screen'.cursor = At(screen)
    BY <2>5 DEF At
  <2>7. Shows(screen', text')
    BY <1>2, <1>3, <2>3, <2>5, <2>6 DEF Shows, Follows, Screens
  <2>8. ~Printing'
    BY <2>2 DEF Printing
  <2> QED BY <2>6, <2>7, <2>8 DEF TextInv, At
<1>5. CASE m # <<>>
  <2>1. screen' = print_char(Head(m), screen) /\ Goes("print", Tail(m))
    BY <1>1, <1>5 DEF PrintNext
  <2>2. frames' = <<[int |-> frames[1].int, at |-> "print", todo |-> Tail(m)]>>
    BY <2>1, GoesFacts
  <2>3. text' = Said(Typed(t, Head(m)), Tail(m))
    BY <1>2, <1>3, <1>5, SaidNext
  <2>4. Shows(screen', Typed(t, Head(m)))
    BY <1>2, <2>1, PrintShows
  <2>5. Printing' /\ frames'[1].todo = Tail(m)
    BY <2>2 DEF Printing
  <2> HIDE DEF m
  <2> QED BY <2>3, <2>4, <2>5 DEF TextInv
<1> QED BY <1>4, <1>5

\* Every step keeps screen and text together.
LEMMA TextStep ==
  ASSUME AloneInv, AloneInv', MessageIsText, TextInv, [Next]_vars
  PROVE  TextInv'
<1>1. CASE frames = <<>>
  <2>1. ~Printing
    BY <1>1 DEF Printing
  <2>2. ~Handler
    BY <1>1 DEF Handler, timer_handler, KeyboardInterrupt, call_handler_print, call_handler_exit, NoHandler,
       FirstFault, panic_display_message, PrintNext, Leave, eoi, iret, Handles
  <2>3. ASSUME NEW n, NEW what, Enters(n, what) PROVE ~Printing'
    <3>1. frames' = <<[int |-> n, at |-> "handler", todo |-> what]>>
      BY <1>1, <2>3 DEF Enters
    <3> QED BY <3>1 DEF Printing
  <2>4. /\ UNCHANGED <<screen, text, halted>>
        /\ frames' = frames \/ \E n, what : Enters(n, what)
    <3>1. CASE KeyEvent \/ Tick \/ OtherDevice
      BY <3>1 DEF KeyEvent, Tick, OtherDevice, Raise
    <3>2. CASE Interrupt
      <4>1. PICK line \in irr : Enters(32 + line, <<>>)
        BY <3>2 DEF Interrupt, Deliver
      <4> QED BY <3>2, <4>1 DEF Interrupt
    <3>3. ASSUME NEW n, NEW what, Calling(n, what)
          PROVE  UNCHANGED <<screen, text, halted>> /\ \E k, w : Enters(k, w)
      BY <3>3 DEF Calling
    <3>4. ASSUME NEW t \in Users, Thread(t) \/ Crash(t)
          PROVE  Local \/ \E n, what : Calling(n, what)
      <4>1. CASE Start(t)
        BY <4>1 DEF Start
      <4>2. CASE Crash(t)
        BY <4>2 DEF Crash
      <4>3. CASE main(t) \/ print_token(t) \/ other_main(t) \/ printf_returns(t)
        BY <4>3 DEF main, print_token, other_main, printf_returns
      <4>4. CASE printf(t)
        BY <4>4 DEF printf
      <4>5. CASE exit(t)
        BY <4>5 DEF exit
      <4>6. CASE lios_startup(t)
        BY <4>6 DEF lios_startup
      <4> QED BY <3>4, <4>1, <4>2, <4>3, <4>4, <4>5, <4>6 DEF Thread
    <3>5. CASE UserStep \/ \E t \in Users : Crash(t)
      <4>1. Local \/ \E n, what : Calling(n, what)
        BY <3>4, <3>5 DEF UserStep
      <4>2. CASE Local
        BY <4>2 DEF Local, interrupts
      <4> QED BY <3>3, <4>1, <4>2
    <3>6. CASE UNCHANGED vars
      BY <3>6 DEF vars, interrupts
    <3> QED BY <2>2, <3>1, <3>2, <3>5, <3>6 DEF Next
  <2>5. ~Printing'
    <3>1. frames' = frames => ~Printing'
      BY <2>1 DEF Printing
    <3> QED BY <2>3, <2>4, <3>1
  <2> QED BY <2>1, <2>4, <2>5, OthersKeepText
<1>2. CASE frames # <<>>
  <2>1. FrameOK /\ Frame = frames[1] /\ enabled = FALSE
    BY <1>2, FrameFacts DEF AloneInv
  <2>2. Handler \/ UNCHANGED vars
    <3>1. ~KeyEvent /\ ~Tick /\ ~OtherDevice
      BY <1>2 DEF KeyEvent, Tick, OtherDevice, Raise
    <3>2. ~Interrupt
      BY <2>1 DEF Interrupt, Deliver
    <3>3. ASSUME NEW t \in Users PROVE ~Thread(t) /\ ~Crash(t)
      BY <1>2 DEF Thread, Crash, Start, lios_startup, main, print_token, other_main, printf, printf_returns, exit, Runs
    <3> QED BY <3>1, <3>2, <3>3 DEF Next, UserStep
  <2>3. ASSUME NEW n, Handles(n) PROVE ~Printing /\ ~halted
    BY <2>1, <2>3 DEF Handles, Printing
  <2>4. ASSUME ~Printing, Goes("eoi", <<>>), UNCHANGED <<screen, text, halted>> PROVE TextInv'
    <3>1. frames' = <<[int |-> frames[1].int, at |-> "eoi", todo |-> <<>>]>>
      BY <2>1, <2>4, GoesFacts
    <3>2. ~Printing'
      BY <3>1 DEF Printing
    <3> QED BY <2>4, <3>2, OthersKeepText
  <2>5. CASE timer_handler \/ call_handler_exit \/ NoHandler \/ FirstFault
    <3>1. ~Printing /\ Goes("eoi", <<>>) /\ UNCHANGED <<screen, text, halted>>
      BY <2>3, <2>5 DEF timer_handler, call_handler_exit, NoHandler, FirstFault
    <3> QED BY <2>4, <3>1
  <2>6. CASE KeyboardInterrupt
    BY <2>1, <2>3, <2>6, SayKeepsText DEF KeyboardInterrupt
  <2>7. CASE call_handler_print
    BY <2>1, <2>3, <2>7, SayKeepsText DEF call_handler_print
  <2>8. CASE panic_display_message
    BY <2>8 DEF panic_display_message, TextInv
  <2>9. CASE PrintNext
    <3>1. CASE halted
      BY <2>9, <3>1 DEF PrintNext, TextInv
    <3>2. CASE ~halted
      BY <2>1, <2>9, <3>2, PrintKeepsText
    <3> QED BY <3>1, <3>2
  <2>10. CASE Leave
    <3>1. ~Printing /\ UNCHANGED <<screen, text, halted>>
      BY <2>1, <2>10 DEF Leave, eoi, iret, Printing
    <3>2. ~Printing'
      <4>1. CASE eoi
        <5>1. frames' = <<[int |-> frames[1].int, at |-> "iret", todo |-> <<>>]>>
          BY <2>1, <4>1, GoesFacts DEF eoi
        <5> QED BY <5>1 DEF Printing
      <4>2. CASE iret
        BY <4>2, IretKeepsAlone DEF Printing
      <4> QED BY <2>10, <4>1, <4>2 DEF Leave
    <3> QED BY <3>1, <3>2, OthersKeepText
  <2>11. CASE UNCHANGED vars
    BY <2>11 DEF vars, interrupts, TextInv, Printing
  <2> QED BY <2>2, <2>5, <2>6, <2>7, <2>8, <2>9, <2>10, <2>11 DEF Handler
<1> QED BY <1>1, <1>2

-----------------------------------------------------------------------------
(* What is joined from a sequence of texts, FlattenSeq.                    *)

\* The empty text is the only one of length 0.
LEMMA NothingIsText == IsText(<<>>) /\ Len(<<>>) = 0 /\ \A x : IsText(x) /\ Len(x) = 0 => x = <<>>
<1>1. <<>> \in Seq({}) /\ Len(<<>>) = 0
  BY EmptySeq
<1>2. IsText(<<>>)
  BY <1>1 DEF IsText
<1>3. ASSUME NEW x, IsText(x), Len(x) = 0 PROVE x = <<>>
  <2>1. \A i \in 1 .. Len(x) : x[i] = <<>>[i]
    BY <1>3
  <2> QED BY <1>1, <1>2, <1>3, <2>1, SameText
<1> QED BY <1>1, <1>2, <1>3

\* A character is a text.
LEMMA OneIsText == \A c : IsText(<<c>>) /\ Len(<<c>>) = 1
<1> SUFFICES ASSUME NEW c PROVE IsText(<<c>>) /\ Len(<<c>>) = 1
  OBVIOUS
<1>1. <<c>> \in Seq({c})
  OBVIOUS
<1> QED BY <1>1 DEF IsText

\* Nothing joined to a text.
LEMMA JoinedEmpty ==
  ASSUME NEW x, IsText(x)
  PROVE  x \o <<>> = x /\ <<>> \o x = x
<1>1. PICK S : x \in Seq(S)
  BY DEF IsText
<1> QED BY <1>1, ConcatEmptySeq

\* Append joins one character.
LEMMA AppendedIsJoined ==
  ASSUME NEW x, NEW c, IsText(x)
  PROVE  Append(x, c) = x \o <<c>>
<1>1. PICK S : x \in Seq(S)
  BY DEF IsText
<1>2. x \in Seq(S \cup {c})
  BY <1>1, SeqMonotonic
<1> QED BY <1>2, AppendIsConcat

\* Joining associates.
LEMMA JoinedAssociates ==
  ASSUME NEW x, NEW y, NEW z, IsText(x), IsText(y), IsText(z)
  PROVE  (x \o y) \o z = x \o (y \o z)
<1>1. PICK S : x \in Seq(S)
  BY DEF IsText
<1>2. PICK T : y \in Seq(T)
  BY DEF IsText
<1>3. PICK U : z \in Seq(U)
  BY DEF IsText
<1>4. x \in Seq(S \cup T \cup U) /\ y \in Seq(S \cup T \cup U) /\ z \in Seq(S \cup T \cup U)
  BY <1>1, <1>2, <1>3, SeqMonotonic
<1> QED BY <1>4, ConcatAssociative

\* What stands first moves to the end of what is before it.
LEMMA HeadMoves ==
  ASSUME NEW x, NEW y, IsText(x), IsText(y), y # <<>>
  PROVE  /\ IsText(Tail(y)) /\ y = <<Head(y)>> \o Tail(y)
         /\ (x \o <<Head(y)>>) \o Tail(y) = x \o y
<1>1. PICK S : y \in Seq(S)
  BY DEF IsText
<1>2. /\ Head(y) \in S /\ Head(y) = y[1] /\ Tail(y) \in Seq(S) /\ Len(Tail(y)) = Len(y) - 1
      /\ \A i \in 1 .. Len(Tail(y)) : Tail(y)[i] = y[i + 1]
  BY <1>1, HeadTailProperties
<1>3. IsText(Tail(y)) /\ IsText(<<Head(y)>>) /\ Len(<<Head(y)>>) = 1
  BY <1>2, OneIsText DEF IsText
<1> DEFINE h == <<Head(y)>>
           r == Tail(y)
<1>4. /\ IsText(h \o r) /\ Len(h \o r) = Len(h) + Len(r)
      /\ \A i \in 1 .. Len(h) : (h \o r)[i] = h[i]
      /\ \A i \in 1 .. Len(r) : (h \o r)[Len(h) + i] = r[i]
  BY <1>3, Joined
<1>5. h \o r = y
  <2>1. h[1] = y[1] /\ Len(h) = 1
    BY <1>2
  <2> PICK n \in Nat : n = Len(y)
    BY <1>1
  <2> HIDE DEF h, r
  <2>2. Len(r) = n - 1 /\ n - 1 \in Nat
    <3>1. Len(y) # 0
      BY <1>1, EmptySeq
    <3> QED BY <1>2, <3>1 DEF r
  <2>3. ASSUME NEW i \in 1 .. n PROVE (h \o r)[i] = y[i]
    <3>1. CASE i = 1
      BY <1>4, <2>1, <3>1
    <3>2. CASE i # 1
      <4>1. i - 1 \in 1 .. n - 1 /\ 1 + (i - 1) = i /\ (i - 1) + 1 = i
        BY <3>2
      <4>2. (h \o r)[1 + (i - 1)] = r[i - 1] /\ r[i - 1] = y[(i - 1) + 1]
        BY <1>2, <1>4, <2>1, <2>2, <4>1 DEF r
      <4> QED BY <4>1, <4>2
    <3> QED BY <3>1, <3>2
  <2>4. Len(h \o r) = n
    BY <1>4, <2>1, <2>2
  <2> QED BY <1>4, <2>3, <2>4, SameText
<1> QED BY <1>3, <1>5, JoinedAssociates

-----------------------------------------------------------------------------
\* A sequence of texts put together: f[k] is what the first k are.
FlatBy(f, s) ==
  /\ f[0] = <<>> /\ FlattenSeq(s) = f[Len(s)]
  /\ \A k \in 1 .. Len(s) : f[k] = f[k - 1] \o s[k]
  /\ \A k \in 0 .. Len(s) : IsText(f[k])

\* FlattenSeq joins the elements of a sequence one after the other.
LEMMA FlatIs ==
  ASSUME NEW s, IsText(s), \A k \in 1 .. Len(s) : IsText(s[k])
  PROVE  \E f : FlatBy(f, s)
<1> DEFINE N == Len(s)
           body(f, i) == IF i = 1 THEN s[i] ELSE f[i - 1] \o s[i]
           Is(f, n) == f = [i \in 1 .. n |-> body(f, i)]
           P == {n \in 0 .. N : \E f : Is(f, n)}
<1>1. N \in Nat
  BY TextFacts
<1>2. CASE N = 0
  <2>1. s = <<>> /\ FlattenSeq(s) = <<>>
    BY <1>2, NothingIsText DEF FlattenSeq
  <2> DEFINE f == [k \in {0} |-> <<>>]
  <2>2. f[0] = <<>>
    OBVIOUS
  <2> HIDE DEF f
  <2>3. \A k \in 0 .. 0 : k = 0
    OBVIOUS
  <2>4. FlatBy(f, s)
    BY <1>2, <2>1, <2>2, <2>3, NothingIsText DEF FlatBy
  <2> QED BY <2>4
<1>3. CASE N # 0
  <2>1. FlattenSeq(s) = (CHOOSE f : Is(f, N))[N]
    BY <1>3 DEF FlattenSeq
  <2> HIDE DEF N
  <2>2. 0 \in P
    <3>1. Is([i \in 1 .. 0 |-> 0], 0)
      OBVIOUS
    <3> HIDE DEF Is
    <3> QED BY <1>1, <3>1
  <2>3. ASSUME NEW n \in 0 .. N, n < N, n \in P PROVE n + 1 \in P
    <3>1. PICK f : Is(f, n)
      BY <2>3
    <3> DEFINE g == [k \in 1 .. n + 1 |-> IF k = n + 1 THEN body(f, n + 1) ELSE f[k]]
    <3>2. ASSUME NEW k \in 1 .. n + 1 PROVE g[k] = body(g, k)
      <4>1. CASE k = n + 1 /\ n = 0
        BY <4>1
      <4>2. CASE k = n + 1 /\ n # 0
        <5>1. k - 1 = n /\ k # 1 /\ n # n + 1 /\ n \in 1 .. n + 1
          BY <4>2
        <5>2. g[n] = f[n]
          BY <5>1
        <5> QED BY <4>2, <5>1, <5>2
      <4>3. CASE k # n + 1 /\ k = 1
        <5>1. 1 \in 1 .. n
          BY <4>3
        <5>2. f[1] = s[1]
          BY <3>1, <5>1
        <5> QED BY <4>3, <5>2
      <4>4. CASE k # n + 1 /\ k # 1
        <5>1. k - 1 # n + 1 /\ k - 1 \in 1 .. n + 1 /\ k \in 1 .. n
          BY <4>4
        <5>2. g[k - 1] = f[k - 1] /\ g[k] = f[k]
          BY <4>4, <5>1
        <5>3. f[k] = f[k - 1] \o s[k]
          BY <3>1, <4>4, <5>1
        <5> QED BY <4>4, <5>2, <5>3
      <4> QED BY <4>1, <4>2, <4>3, <4>4
    <3>3. g = [k \in 1 .. n + 1 |-> g[k]]
      OBVIOUS
    <3> HIDE DEF g, body
    <3>4. Is(g, n + 1)
      BY <3>2, <3>3
    <3>5. n + 1 \in 0 .. N
      BY <1>1, <2>3
    <3> HIDE DEF Is
    <3> QED BY <3>4, <3>5
  <2>4. N \in P
    <3>1. \A k \in 0 .. N : k \in P
      <4> HIDE DEF P
      <4> QED BY <1>1, <2>2, <2>3, UpTo
    <3>2. N \in 0 .. N
      BY <1>1
    <3> HIDE DEF P
    <3> QED BY <3>1, <3>2
  <2> DEFINE F == CHOOSE f : Is(f, N)
  <2>5. Is(F, N)
    <3> HIDE DEF Is
    <3> QED BY <2>4
  <2> DEFINE G == [k \in 0 .. N |-> IF k = 0 THEN <<>> ELSE F[k]]
  <2>6. 0 \in 0 .. N /\ N \in 0 .. N /\ \A k \in 1 .. N : k \in 0 .. N /\ k # 0 /\ k - 1 \in 0 .. N
    BY <1>1
  <2>7. G[0] = <<>> /\ G[N] = FlattenSeq(s)
    BY <1>3, <2>1, <2>6
  <2>8. \A k \in 1 .. N : F[k] = body(F, k)
    <3> HIDE DEF F, body
    <3> QED BY <2>5
  <2>9. ASSUME NEW k \in 1 .. N PROVE G[k] = G[k - 1] \o s[k]
    <3> HIDE DEF F
    <3>1. CASE k = 1
      <4>1. G[1] = s[1] /\ G[0] = <<>> /\ 1 - 1 = 0
        BY <2>6, <2>7, <2>8, <3>1
      <4> QED BY <3>1, <4>1, JoinedEmpty DEF N
    <3>2. CASE k # 1
      <4>1. k - 1 # 0
        BY <3>2
      <4>2. G[k] = F[k] /\ G[k - 1] = F[k - 1]
        BY <2>6, <4>1
      <4> QED BY <2>8, <3>2, <4>2
    <3> QED BY <3>1, <3>2
  <2> HIDE DEF G, F
  <2> DEFINE Q == {k \in 0 .. N : IsText(G[k])}
  <2>10. \A k \in 0 .. N : k \in Q
    <3>1. 0 \in Q
      BY <2>6, <2>7, NothingIsText
    <3>2. ASSUME NEW k \in 0 .. N, k < N, k \in Q PROVE k + 1 \in Q
      <4>1. k + 1 \in 1 .. N /\ k + 1 \in 0 .. N /\ (k + 1) - 1 = k
        BY <1>1, <3>2
      <4>2. G[k + 1] = G[k] \o s[k + 1]
        BY <2>9, <4>1
      <4>3. IsText(G[k]) /\ IsText(s[k + 1])
        BY <3>2, <4>1 DEF N
      <4>4. IsText(G[k] \o s[k + 1])
        BY <4>3, Joined
      <4> QED BY <4>1, <4>2, <4>4
    <3> HIDE DEF Q
    <3> QED BY <1>1, <3>1, <3>2, UpTo
  <2>11. FlatBy(G, s)
    BY <2>7, <2>9, <2>10 DEF FlatBy, N
  <2> QED BY <2>11
<1> QED BY <1>2, <1>3

\* The whole begins with what its first parts are.
LEMMA FlatBegins ==
  ASSUME NEW s, NEW f, IsText(s), FlatBy(f, s), \A k \in 1 .. Len(s) : IsText(s[k])
  PROVE  \A k \in 0 .. Len(s) : \E rest : IsText(rest) /\ f[Len(s)] = f[k] \o rest
<1> DEFINE N == Len(s)
           Q == {j \in 0 .. N : \E rest : IsText(rest) /\ f[N] = f[N - j] \o rest}
<1>1. N \in Nat
  BY TextFacts
<1>2. \A k \in 0 .. N : IsText(f[k])
  BY DEF FlatBy
<1>3. \A k \in 1 .. N : f[k] = f[k - 1] \o s[k] /\ IsText(s[k])
  BY DEF FlatBy
<1> HIDE DEF N
<1>4. 0 \in Q
  <2>1. N - 0 = N /\ N \in 0 .. N /\ 0 \in 0 .. N
    BY <1>1
  <2>2. f[N] = f[N] \o <<>>
    BY <1>2, <2>1, JoinedEmpty
  <2> QED BY <2>1, <2>2, NothingIsText
<1>5. ASSUME NEW j \in 0 .. N, j < N, j \in Q PROVE j + 1 \in Q
  <2>1. PICK rest : IsText(rest) /\ f[N] = f[N - j] \o rest
    BY <1>5
  <2> DEFINE k == N - j
  <2>2. k \in 1 .. N /\ k - 1 = N - (j + 1) /\ j + 1 \in 0 .. N /\ k - 1 \in 0 .. N
    BY <1>1, <1>5
  <2>3. f[k] = f[k - 1] \o s[k] /\ IsText(s[k]) /\ IsText(f[k - 1])
    BY <1>2, <1>3, <2>2
  <2>4. f[N] = f[k - 1] \o (s[k] \o rest)
    <3>1. f[N] = f[k] \o rest
      BY <2>1
    <3> HIDE DEF k
    <3>2. PICK x, y : x = f[k - 1] /\ y = s[k]
      OBVIOUS
    <3>3. IsText(x) /\ IsText(y) /\ IsText(rest)
      BY <2>1, <2>3, <3>2
    <3>4. (x \o y) \o rest = x \o (y \o rest)
      BY <3>3, JoinedAssociates
    <3> QED BY <2>3, <3>1, <3>2, <3>4
  <2>5. IsText(s[k] \o rest)
    BY <2>1, <2>3, Joined
  <2> HIDE DEF k
  <2> QED BY <2>2, <2>4, <2>5
<1>6. \A j \in 0 .. N : j \in Q
  <2> HIDE DEF Q
  <2> QED BY <1>1, <1>4, <1>5, UpTo
<1>7. ASSUME NEW k \in 0 .. N PROVE \E rest : IsText(rest) /\ f[N] = f[k] \o rest
  <2>1. N - k \in 0 .. N /\ N - (N - k) = k
    BY <1>1
  <2> QED BY <1>6, <2>1
<1> QED BY <1>7 DEF N

-----------------------------------------------------------------------------
(* The pieces of a call of printf.                                         *)

\* Where a part of the whole is found.
PartIs(s, f, k) ==
  /\ f[k + 1] = f[k] \o s[k + 1] /\ IsText(f[k]) /\ IsText(s[k + 1])
  /\ Len(f[k + 1]) = Len(f[k]) + Len(s[k + 1])
  /\ Len(f[k + 1]) <= Len(f[Len(s)])
  /\ \A i \in 1 .. Len(s[k + 1]) : f[Len(s)][Len(f[k]) + i] = s[k + 1][i]

\* Each element is found in the whole, behind what is before it.
LEMMA PartAt ==
  ASSUME NEW s, NEW f, IsText(s), FlatBy(f, s), \A k \in 1 .. Len(s) : IsText(s[k]),
         NEW k \in 0 .. Len(s), k < Len(s)
  PROVE  PartIs(s, f, k)
<1> DEFINE N == Len(s)
<1>1. N \in Nat
  BY TextFacts
<1>2. k + 1 \in 1 .. N /\ k + 1 \in 0 .. N /\ (k + 1) - 1 = k
  BY <1>1
<1>3. PICK x, y, z, w : x = f[k] /\ y = s[k + 1] /\ z = f[k + 1] /\ w = f[N]
  OBVIOUS
<1>4. IsText(x) /\ IsText(y) /\ IsText(z) /\ z = x \o y
  BY <1>2, <1>3 DEF FlatBy
<1>5. PICK rest : IsText(rest) /\ w = z \o rest
  <2>1. \A j \in 0 .. Len(s) : \E rest : IsText(rest) /\ f[Len(s)] = f[j] \o rest
    BY FlatBegins
  <2> QED BY <1>2, <1>3, <2>1
<1>6. /\ Len(z) = Len(x) + Len(y) /\ \A i \in 1 .. Len(y) : z[Len(x) + i] = y[i]
  BY <1>4, Joined
<1>7. /\ Len(w) = Len(z) + Len(rest) /\ \A i \in 1 .. Len(z) : w[i] = z[i]
  BY <1>4, <1>5, Joined
<1>8. PICK a \in Nat, b \in Nat, c \in Nat : a = Len(x) /\ b = Len(y) /\ c = Len(rest)
  BY <1>4, <1>5, TextFacts
<1>9. Len(z) = a + b /\ Len(w) = a + b + c /\ a + b <= a + b + c
  BY <1>6, <1>7, <1>8
<1>10. ASSUME NEW i \in 1 .. b PROVE w[a + i] = y[i]
  <2>1. a + i \in 1 .. a + b
    OBVIOUS
  <2>2. w[a + i] = z[a + i]
    BY <1>7, <1>9, <2>1
  <2> QED BY <1>6, <1>8, <2>2
<1> QED BY <1>3, <1>4, <1>8, <1>9, <1>10 DEF PartIs

\* What follows the same beginning is the same.
LEMMA CancelLeft ==
  ASSUME NEW x, NEW y, NEW z, IsText(x), IsText(y), IsText(z), x \o y = x \o z
  PROVE  y = z
<1>1. /\ Len(x \o y) = Len(x) + Len(y) /\ \A i \in 1 .. Len(y) : (x \o y)[Len(x) + i] = y[i]
  BY Joined
<1>2. /\ Len(x \o z) = Len(x) + Len(z) /\ \A i \in 1 .. Len(z) : (x \o z)[Len(x) + i] = z[i]
  BY Joined
<1>3. PICK a \in Nat, b \in Nat, c \in Nat : a = Len(x) /\ b = Len(y) /\ c = Len(z)
  BY TextFacts
<1>4. Len(y) = Len(z)
  BY <1>1, <1>2, <1>3
<1>5. \A i \in 1 .. Len(y) : y[i] = z[i]
  BY <1>1, <1>2, <1>4
<1> QED BY <1>4, <1>5, SameText

-----------------------------------------------------------------------------
\* The parts of format, arguments and text.
Formats(P) == [k \in DOMAIN P |-> FormatOf(P[k])]
Arguments(P) == [k \in DOMAIN P |-> ArgsOf(P[k])]
Meanings(P) == [k \in DOMAIN P |-> MeantBy(P[k])]

\* Texts without a NUL, which are read whole.
Whole(s) == \A i \in 1 .. Len(s) : s[i] # NUL

\* A text without a NUL is read to its end.
LEMMA WholeIsRead ==
  ASSUME NEW s, IsText(s), Whole(s)
  PROVE  UpToNul(s) = s
<1>1. DOMAIN s = 1 .. Len(s)
  BY TextFacts
<1>2. NUL \notin ToSet(s)
  BY <1>1 DEF ToSet, Whole
<1> QED BY <1>2 DEF UpToNul

\* Texts of no or of one character, and two behind each other.
LEMMA NothingIsWhole == Whole(<<>>)
<1>1. Len(<<>>) = 0
  BY NothingIsText
<1> QED BY <1>1 DEF Whole

LEMMA OneIsWhole ==
  ASSUME NEW c, c # NUL
  PROVE  Whole(<<c>>)
<1> PICK s : s = <<c>>
  OBVIOUS
<1>1. Len(s) = 1 /\ s[1] = c
  BY OneIsText
<1>2. \A i \in 1 .. 1 : i = 1
  OBVIOUS
<1>3. Whole(s)
  BY <1>1, <1>2 DEF Whole
<1> QED BY <1>3

LEMMA JoinedIsWhole ==
  ASSUME NEW x, NEW y, IsText(x), IsText(y), Whole(x), Whole(y)
  PROVE  Whole(x \o y)
<1> PICK z : z = x \o y
  OBVIOUS
<1> PICK n \in Nat, m \in Nat : n = Len(x) /\ m = Len(y)
  BY TextFacts
<1>1. Len(z) = n + m /\ (\A i \in 1 .. n : z[i] = x[i]) /\ \A i \in 1 .. m : z[n + i] = y[i]
  BY Joined
<1>2. ASSUME NEW i \in 1 .. n + m PROVE z[i] # NUL
  <2>1. CASE i <= n
    <3>1. i \in 1 .. n
      BY <2>1
    <3> QED BY <1>1, <3>1 DEF Whole
  <2>2. CASE i > n
    <3>1. i - n \in 1 .. m /\ n + (i - n) = i
      BY <2>2
    <3>2. z[i] = y[i - n] /\ y[i - n] # NUL
      BY <1>1, <3>1 DEF Whole
    <3> QED BY <3>2
  <2> QED BY <2>1, <2>2
<1>3. Whole(z)
  BY <1>1, <1>2 DEF Whole
<1> QED BY <1>3

\* What a piece may be.
PlainPiece(q) == q = <<q[1]>> /\ q[1] # "%" /\ q[1] # NUL
NumberPiece(q) == q = <<q[1], q[2]>> /\ q[1] \in {"d", "i", "x"} /\ q[2] \in Ints
CharPiece(q) == q = <<q[1], q[2]>> /\ q[1] = "c" /\ q[2] # NUL
UnknownPiece(q) == q = <<q[1], q[2]>> /\ q[1] \notin {"d", "i", "x", "c"}

\* Each piece is of one of four kinds.
LEMMA PieceKinds ==
  ASSUME NEW P, WellFormed(P)
  PROVE  /\ IsText(P) /\ DOMAIN P = 1 .. Len(P)
         /\ \A k \in 1 .. Len(P) :
              \/ PlainPiece(P[k])
              \/ NumberPiece(P[k])
              \/ CharPiece(P[k])
              \/ UnknownPiece(P[k]) /\ k = Len(P)
<1>1. IsText(P)
  BY DEF WellFormed, IsText
<1>2. DOMAIN P = 1 .. Len(P)
  BY <1>1, TextFacts
<1>3. ASSUME NEW k \in 1 .. Len(P)
      PROVE  \/ PlainPiece(P[k])
             \/ NumberPiece(P[k])
             \/ CharPiece(P[k])
             \/ UnknownPiece(P[k]) /\ k = Len(P)
  <2> PICK q : q = P[k]
    OBVIOUS
  <2>0. \/ q = <<q[1]>> /\ q[1] \notin {"%", NUL}
        \/ /\ q = <<q[1], q[2]>>
           /\ \/ q[1] \in {"d", "i", "x"} /\ q[2] \in Ints
              \/ q[1] = "c" /\ q[2] # NUL
              \/ q[1] \notin {"d", "i", "x", "c"} /\ k = Len(P)
    BY <1>2 DEF WellFormed
  <2>1. CASE q = <<q[1]>> /\ q[1] \notin {"%", NUL}
    BY <2>1, Zenon DEF PlainPiece
  <2>2. CASE q = <<q[1], q[2]>> /\ q[1] \in {"d", "i", "x"} /\ q[2] \in Ints
    BY <2>2, Zenon DEF NumberPiece
  <2>3. CASE q = <<q[1], q[2]>> /\ q[1] = "c" /\ q[2] # NUL
    BY <2>3, Zenon DEF CharPiece
  <2>4. CASE q = <<q[1], q[2]>> /\ q[1] \notin {"d", "i", "x", "c"} /\ k = Len(P)
    BY <2>4, Zenon DEF UnknownPiece
  <2> QED BY <2>0, <2>1, <2>2, <2>3, <2>4, Zenon
<1> QED BY <1>1, <1>2, <1>3

\* Plain characters are pieces of length 1, and specifiers of length 2.
LEMMA PlainIs ==
  ASSUME NEW q, PlainPiece(q)
  PROVE  /\ IsPlain(q) /\ IsText(q) /\ Len(q) = 1 /\ FormatOf(q) = q /\ ArgsOf(q) = <<>> /\ MeantBy(q) = q
<1>1. IsText(q) /\ Len(q) = 1
  BY OneIsText DEF PlainPiece
<1> QED BY <1>1 DEF IsPlain, FormatOf, ArgsOf, MeantBy

LEMMA PairIs ==
  ASSUME NEW q, q = <<q[1], q[2]>>
  PROVE  /\ ~IsPlain(q) /\ FormatOf(q) = <<"%", q[1]>> /\ IsText(FormatOf(q)) /\ Len(FormatOf(q)) = 2
         /\ FormatOf(q)[1] = "%" /\ FormatOf(q)[2] = q[1]
         /\ ArgsOf(q) = <<q[2]>> /\ IsText(ArgsOf(q))
         /\ MeantBy(q) = CASE q[1] \in {"d", "i"} -> NumberText(q[2], 10)
                           [] q[1] = "x" -> NumberText(q[2], 16)
                           [] q[1] = "c" -> <<q[2]>>
                           [] OTHER -> <<>>
<1>1. Len(q) = 2
  OBVIOUS
<1>2. <<"%", q[1]>> \in Seq({"%", q[1]})
  OBVIOUS
<1>3. ~IsPlain(q)
  BY <1>1 DEF IsPlain
<1> QED BY <1>2, <1>3, OneIsText DEF FormatOf, ArgsOf, MeantBy, IsText

-----------------------------------------------------------------------------
(* Numbers: itoa's loop takes the digits from the last one on, and strrev   *)
(* turns them around.                                                       *)

\* The numbers whose digits are counted.
LEMMA IntSizeFacts == IntSize \in Nat /\ IntSize >= 2
<1>1. IntSize \in Nat \ {0} /\ IntSize % 2 = 0
  BY IntAssumption
<1> PICK n \in Nat \ {0} : n = IntSize
  BY <1>1
<1>2. n % 2 = 0
  BY <1>1
<1>3. n # 1
  BY <1>2
<1> QED BY <1>3

\* Each weight is that of the digit behind it, times the base.
LEMMA WeightsAre ==
  ASSUME NEW base \in Nat \ {0}
  PROVE  LET w == Weights(base)
         IN  /\ w[0] = 1 /\ \A k \in 1 .. IntSize : w[k] = base * w[k - 1]
             /\ \A k \in 0 .. IntSize : w[k] \in Nat \ {0}
<1> DEFINE N == IntSize
           body(f, k) == IF k = 0 THEN 1 ELSE base * f[k - 1]
           Is(f, n) == f = [k \in 0 .. n |-> body(f, k)]
           P == {n \in 0 .. N : \E f : Is(f, n)}
<1>1. N \in Nat
  BY IntSizeFacts
<1>2. Weights(base) = CHOOSE f : Is(f, N)
  BY DEF Weights
<1> HIDE DEF N
<1>3. 0 \in P
  <2>1. Is([k \in 0 .. 0 |-> 1], 0)
    OBVIOUS
  <2> HIDE DEF Is
  <2> QED BY <1>1, <2>1
<1>4. ASSUME NEW n \in 0 .. N, n < N, n \in P PROVE n + 1 \in P
  <2>1. PICK f : Is(f, n)
    BY <1>4
  <2> DEFINE g == [k \in 0 .. n + 1 |-> IF k = n + 1 THEN base * f[n] ELSE f[k]]
  <2>2. ASSUME NEW k \in 0 .. n + 1 PROVE g[k] = body(g, k)
    <3>1. CASE k = n + 1
      <4>1. k # 0 /\ k - 1 = n /\ n # n + 1 /\ n \in 0 .. n + 1
        BY <3>1
      <4>2. g[n] = f[n]
        BY <4>1
      <4> QED BY <3>1, <4>1, <4>2
    <3>2. CASE k = 0
      <4>1. 0 # n + 1 /\ 0 \in 0 .. n /\ 0 \in 0 .. n + 1
        OBVIOUS
      <4>2. f[0] = 1
        BY <2>1, <4>1
      <4> QED BY <3>2, <4>1, <4>2
    <3>3. CASE k # n + 1 /\ k # 0
      <4>1. k - 1 # n + 1 /\ k - 1 \in 0 .. n + 1 /\ k \in 0 .. n
        BY <3>3
      <4>2. g[k - 1] = f[k - 1] /\ g[k] = f[k]
        BY <3>3, <4>1
      <4>3. f[k] = base * f[k - 1]
        BY <2>1, <3>3, <4>1
      <4> QED BY <3>3, <4>2, <4>3
    <3> QED BY <3>1, <3>2, <3>3
  <2>3. g = [k \in 0 .. n + 1 |-> g[k]]
    OBVIOUS
  <2> HIDE DEF g, body
  <2>4. Is(g, n + 1)
    BY <2>2, <2>3
  <2>5. n + 1 \in 0 .. N
    BY <1>1, <1>4
  <2> HIDE DEF Is
  <2> QED BY <2>4, <2>5
<1>5. N \in P
  <2>1. \A k \in 0 .. N : k \in P
    <3> HIDE DEF P
    <3> QED BY <1>1, <1>3, <1>4, UpTo
  <2> QED BY <1>1, <2>1
<1> DEFINE F == CHOOSE f : Is(f, N)
<1>6. Is(F, N)
  <2> HIDE DEF Is
  <2> QED BY <1>5
<1>7. F[0] = 1 /\ \A k \in 1 .. N : F[k] = base * F[k - 1]
  <2> HIDE DEF F
  <2>1. \A k \in 1 .. N : k \in 0 .. N /\ k # 0
    OBVIOUS
  <2>2. 0 \in 0 .. N
    BY <1>1
  <2> QED BY <1>6, <2>1, <2>2
<1>8. Weights(base) = F
  BY <1>2
<1> HIDE DEF F
<1> DEFINE Q == {k \in 0 .. N : F[k] \in Nat \ {0}}
<1>9. \A k \in 0 .. N : k \in Q
  <2>1. 0 \in Q
    BY <1>1, <1>7
  <2>2. ASSUME NEW k \in 0 .. N, k < N, k \in Q PROVE k + 1 \in Q
    <3>1. k + 1 \in 1 .. N /\ k + 1 \in 0 .. N /\ (k + 1) - 1 = k
      BY <1>1, <2>2
    <3>2. F[k + 1] = base * F[k]
      BY <1>7, <3>1
    <3> PICK x \in Nat \ {0} : x = F[k]
      BY <2>2
    <3>3. base * x \in Nat \ {0}
      BY SMTT(30)
    <3> QED BY <3>1, <3>2, <3>3
  <2> HIDE DEF Q
  <2> QED BY <1>1, <2>1, <2>2, UpTo
<1>10. \A k \in 0 .. N : F[k] \in Nat \ {0}
  BY <1>9
<1> QED BY <1>7, <1>8, <1>10 DEF N

\* itoa takes the last digit of a number, and goes on with the others.
LEMMA DigitsAre ==
  ASSUME NEW base \in Nat, base >= 2
  PROVE  LET d == Digits(base)
         IN  /\ d[0] = <<>>
             /\ \A v \in 1 .. IntSize - 1 : d[v] = <<DigitNames[(v % base) + 1]>> \o d[v \div base]
<1> DEFINE N == IntSize - 1
           body(f, v) == IF v = 0 THEN <<>> ELSE <<DigitNames[(v % base) + 1]>> \o f[v \div base]
           Is(f, n) == f = [v \in 0 .. n |-> body(f, v)]
           P == {n \in 0 .. N : \E f : Is(f, n)}
<1>1. N \in Nat
  BY IntSizeFacts
<1>2. Digits(base) = CHOOSE f : Is(f, N)
  BY DEF Digits
<1>3. \A v \in Nat \ {0} : v \div base \in 0 .. v - 1
  <2> SUFFICES ASSUME NEW v \in Nat \ {0} PROVE v \div base \in 0 .. v - 1
    OBVIOUS
  <2> PICK q \in Int, r \in Int : q = v \div base /\ r = v % base
    BY Division
  <2>1. r \in 0 .. base - 1 /\ v = base * q + r
    BY Division
  <2>2. q >= 0
    <3>1. CASE q <= -1
      <4>1. base * q <= - base
        BY <3>1, SMTT(30)
      <4> QED BY <2>1, <4>1
    <3> QED BY <3>1
  <2>3. q < v
    <3>1. CASE q >= v
      <4>1. base * q >= 2 * q
        BY <2>2, SMTT(30)
      <4>2. v >= 2 * q
        BY <2>1, <4>1
      <4> QED BY <3>1, <4>2
    <3> QED BY <3>1
  <2> QED BY <2>2, <2>3
<1> HIDE DEF N
<1>4. 0 \in P
  <2>1. Is([v \in 0 .. 0 |-> <<>>], 0)
    OBVIOUS
  <2> HIDE DEF Is
  <2> QED BY <1>1, <2>1
<1>5. ASSUME NEW n \in 0 .. N, n < N, n \in P PROVE n + 1 \in P
  <2>1. PICK f : Is(f, n)
    BY <1>5
  <2> DEFINE g == [v \in 0 .. n + 1 |-> IF v = n + 1 THEN body(f, n + 1) ELSE f[v]]
  <2>2. ASSUME NEW v \in 0 .. n + 1 PROVE g[v] = body(g, v)
    <3>1. CASE v # 0
      <4> PICK q : q = v \div base
        OBVIOUS
      <4>1. q \in 0 .. v - 1
        <5>1. v \in Nat \ {0}
          BY <3>1
        <5> QED BY <1>3, <5>1
      <4>2. q \in 0 .. n + 1 /\ q # n + 1
        BY <4>1
      <4>3. g[q] = f[q]
        BY <4>2
      <4>4. g[v] = body(f, v)
        <5>1. CASE v = n + 1
          BY <5>1
        <5>2. CASE v # n + 1
          <6>1. v \in 0 .. n
            BY <5>2
          <6>2. f[v] = body(f, v)
            <7> HIDE DEF body
            <7> QED BY <2>1, <6>1
          <6>3. g[v] = f[v]
            BY <5>2
          <6> QED BY <6>2, <6>3
        <5> QED BY <5>1, <5>2
      <4> QED BY <3>1, <4>3, <4>4
    <3>2. CASE v = 0
      <4>1. 0 # n + 1 /\ 0 \in 0 .. n /\ 0 \in 0 .. n + 1
        OBVIOUS
      <4>2. f[0] = <<>>
        BY <2>1, <4>1
      <4> QED BY <3>2, <4>1, <4>2
    <3> QED BY <3>1, <3>2
  <2>3. g = [v \in 0 .. n + 1 |-> g[v]]
    OBVIOUS
  <2> HIDE DEF g, body
  <2>4. Is(g, n + 1)
    BY <2>2, <2>3
  <2>5. n + 1 \in 0 .. N
    BY <1>1, <1>5
  <2> HIDE DEF Is
  <2> QED BY <2>4, <2>5
<1>6. N \in P
  <2>1. \A k \in 0 .. N : k \in P
    <3> HIDE DEF P
    <3> QED BY <1>1, <1>4, <1>5, UpTo
  <2>2. N \in 0 .. N
    BY <1>1
  <2> HIDE DEF P
  <2> QED BY <2>1, <2>2
<1> DEFINE F == CHOOSE f : Is(f, N)
<1>7. Is(F, N)
  <2> HIDE DEF Is
  <2> QED BY <1>6
<1>8. F[0] = <<>> /\ \A v \in 1 .. N : F[v] = <<DigitNames[(v % base) + 1]>> \o F[v \div base]
  <2> HIDE DEF F
  <2>1. \A v \in 1 .. N : v \in 0 .. N /\ v # 0
    OBVIOUS
  <2>2. 0 \in 0 .. N
    BY <1>1
  <2>3. \A v \in 0 .. N : F[v] = body(F, v)
    <3> HIDE DEF body
    <3> QED BY <1>7
  <2> QED BY <2>1, <2>2, <2>3
<1>9. Digits(base) = F
  BY <1>2
<1> HIDE DEF F
<1> QED BY <1>8, <1>9 DEF N

\* One digit more.
LEMMA HasDigitsNext ==
  ASSUME NEW base \in Nat \ {0}, NEW v \in Nat, NEW n \in 1 .. IntSize - 1, v \div base # 0,
         HasDigits(v \div base, base, n)
  PROVE  HasDigits(v, base, n + 1)
<1> PICK w : w = Weights(base)
  OBVIOUS
<1>1. IntSize \in Nat /\ n \in Nat /\ n \in 1 .. IntSize /\ n + 1 \in 1 .. IntSize /\ n - 1 \in 0 .. IntSize
  BY IntSizeFacts
<1>2. /\ w[0] = 1 /\ \A k \in 1 .. IntSize : w[k] = base * w[k - 1]
      /\ \A k \in 0 .. IntSize : w[k] \in Nat \ {0}
  BY WeightsAre
<1>3. PICK q \in Int, r \in 0 .. base - 1 : q = v \div base /\ v = base * q + r
  <2>1. v \in Int
    OBVIOUS
  <2>2. v \div base \in Int /\ v % base \in 0 .. base - 1 /\ v = base * (v \div base) + (v % base)
    BY <2>1, Division
  <2> QED BY <2>2
<1> PICK x \in Nat, y \in Nat, z \in Nat : x = w[n] /\ y = w[n + 1] /\ z = w[n - 1]
  <2>1. n \in 0 .. IntSize /\ n + 1 \in 0 .. IntSize
    BY <1>1
  <2> QED BY <1>1, <1>2, <2>1
<1>4. y = base * x /\ x = base * z
  <2>1. (n + 1) - 1 = n
    BY <1>1
  <2> QED BY <1>1, <1>2, <2>1
<1>5. q < x /\ (n > 1 => z <= q) /\ q # 0
  BY <1>3 DEF HasDigits
<1>6. q \in Nat /\ base * q \in Nat
  <2>1. CASE q <= -1
    <3>1. base * q <= - base
      BY <2>1, SMTT(30)
    <3> QED BY <1>3, <3>1
  <2>2. q \in Nat
    BY <2>1
  <2>3. base * q \in Nat
    BY <2>2, SMTT(30)
  <2> QED BY <2>2, <2>3
<1>7. v < y
  <2>1. q + 1 \in Nat /\ q + 1 <= x
    BY <1>5, <1>6
  <2>2. base * (q + 1) <= base * x
    BY <2>1, ProductGrows
  <2>3. base * (q + 1) = base * q + base
    BY <1>6, SMTT(30)
  <2> QED BY <1>3, <1>4, <1>6, <2>2, <2>3
<1>8. x <= v
  <2>1. z <= q
    <3>1. CASE n > 1
      BY <1>5, <3>1
    <3>2. CASE n = 1
      <4>1. z = 1
        BY <1>2, <3>2
      <4> QED BY <1>5, <1>6, <4>1
    <3> QED BY <1>1, <3>1, <3>2
  <2>2. base * z <= base * q
    BY <1>6, <2>1, ProductGrows
  <2> QED BY <1>3, <1>4, <1>6, <2>2
<1>9. (n + 1) - 1 = n
  BY <1>1
<1> QED BY <1>7, <1>8, <1>9 DEF HasDigits

\* Weights grow.
LEMMA WeightsGrow ==
  ASSUME NEW base \in Nat \ {0}, NEW i \in 0 .. IntSize, NEW j \in 0 .. IntSize, i <= j
  PROVE  Weights(base)[i] <= Weights(base)[j]
<1> PICK w : w = Weights(base)
  OBVIOUS
<1> PICK N \in Nat : N = IntSize
  BY IntSizeFacts
<1>1. /\ \A k \in 1 .. N : w[k] = base * w[k - 1]
      /\ \A k \in 0 .. N : w[k] \in Nat \ {0}
  BY WeightsAre
<1> DEFINE P == {k \in 0 .. N : i <= k => w[i] <= w[k]}
<1>2. 0 \in P
  <2>1. i <= 0 => i = 0
    OBVIOUS
  <2>2. w[0] <= w[0]
    BY <1>1
  <2> QED BY <2>1, <2>2
<1>3. ASSUME NEW k \in 0 .. N, k < N, k \in P PROVE k + 1 \in P
  <2>1. k + 1 \in 0 .. N /\ k + 1 \in 1 .. N /\ (k + 1) - 1 = k
    BY <1>3
  <2>2. PICK x \in Nat, y \in Nat, z \in Nat : x = w[k] /\ y = w[k + 1] /\ z = w[i]
    BY <1>1, <2>1
  <2>3. y = base * x
    BY <1>1, <2>1, <2>2
  <2>4. x <= y
    <3>1. 1 <= base /\ 1 \in Nat
      OBVIOUS
    <3>2. 1 * x <= base * x
      BY <3>1, ProductGrows
    <3> QED BY <2>3, <3>2
  <2>5. i <= k => z <= x
    BY <1>3, <2>2
  <2>6. CASE i <= k
    BY <2>1, <2>2, <2>4, <2>5, <2>6
  <2>7. CASE i = k + 1
    BY <2>1, <2>2, <2>7
  <2>8. CASE i > k + 1
    BY <2>1, <2>8
  <2>9. i <= k \/ i = k + 1 \/ i > k + 1
    OBVIOUS
  <2> QED BY <2>6, <2>7, <2>8, <2>9
<1>4. \A k \in 0 .. N : k \in P
  <2> HIDE DEF P
  <2> QED BY <1>2, <1>3, UpTo
<1> QED BY <1>4

\* The number of digits is unique.
LEMMA DigitsUnique ==
  ASSUME NEW base \in Nat \ {0}, NEW v \in Nat, NEW n \in 1 .. IntSize, NEW m \in 1 .. IntSize,
         HasDigits(v, base, n), HasDigits(v, base, m)
  PROVE  n = m
<1>1. ASSUME NEW i \in 1 .. IntSize, NEW j \in 1 .. IntSize, i < j, HasDigits(v, base, i), HasDigits(v, base, j)
      PROVE  FALSE
  <2>1. i \in 0 .. IntSize /\ j - 1 \in 0 .. IntSize /\ i <= j - 1 /\ j > 1
    BY <1>1, IntSizeFacts
  <2>2. Weights(base)[i] <= Weights(base)[j - 1]
    BY <2>1, WeightsGrow
  <2>3. v < Weights(base)[i] /\ Weights(base)[j - 1] <= v
    BY <1>1, <2>1 DEF HasDigits
  <2>4. Weights(base)[i] \in Nat /\ Weights(base)[j - 1] \in Nat
    BY <2>1, WeightsAre
  <2> QED BY <2>2, <2>3, <2>4
<1>2. n \in Int /\ m \in Int
  OBVIOUS
<1> QED BY <1>1, <1>2

\* The digits of v, the last one first.
Digit(v, base, k) == DigitNames[((v \div Weights(base)[k]) % base) + 1]

DigitsOf(v, base, n, x) ==
  /\ HasDigits(v, base, n) /\ IsText(x) /\ Len(x) = n
  /\ \A k \in 1 .. n : x[k] = Digit(v, base, k - 1)

\* The last digit of a number is what is left over.
LEMMA LastDigit ==
  ASSUME NEW v \in Nat, NEW base \in Nat \ {0}
  PROVE  Digit(v, base, 0) = DigitNames[(v % base) + 1]
<1>1. Weights(base)[0] = 1
  BY WeightsAre
<1>2. v \div 1 = v
  <2>1. v \in Int /\ 0 \in 0 .. 1 - 1 /\ v = 1 * v + 0 /\ 1 \in Nat \ {0}
    OBVIOUS
  <2> QED BY <2>1, QuotientIs
<1> QED BY <1>1, <1>2 DEF Digit

\* The other digits are those of the quotient.
LEMMA OtherDigits ==
  ASSUME NEW v \in Nat, NEW base \in Nat \ {0}, NEW k \in 1 .. IntSize
  PROVE  Digit(v \div base, base, k - 1) = Digit(v, base, k)
<1> PICK w : w = Weights(base)
  OBVIOUS
<1>1. k - 1 \in 0 .. IntSize
  BY IntSizeFacts
<1>2. w[k] = base * w[k - 1] /\ w[k - 1] \in Nat \ {0}
  BY <1>1, WeightsAre
<1> PICK c \in Nat \ {0} : c = w[k - 1]
  BY <1>2
<1>3. (v \div base) \div c = v \div (base * c)
  BY DividedTwice
<1> QED BY <1>2, <1>3 DEF Digit

\* itoa's loop writes all digits of a number, the last one first.
LEMMA LoopWritesDigits ==
  ASSUME NEW base \in Nat, base >= 2, NEW v \in 1 .. IntSize - 1
  PROVE  \E n \in 1 .. v : DigitsOf(v, base, n, Digits(base)[v])
<1> PICK d : d = Digits(base)
  OBVIOUS
<1>1. d[0] = <<>> /\ \A u \in 1 .. IntSize - 1 : d[u] = <<DigitNames[(u % base) + 1]>> \o d[u \div base]
  BY DigitsAre
<1> PICK N \in Nat : N = IntSize - 1
  BY IntSizeFacts
<1> DEFINE Ok(u) == \E n \in 1 .. u : DigitsOf(u, base, n, d[u])
           P == {m \in 0 .. N : \A u \in 1 .. m : Ok(u)}
<1>2. ASSUME NEW u \in 1 .. N, u \div base # 0 => u \div base \in 1 .. u - 1 /\ Ok(u \div base)
      PROVE  Ok(u)
  <2> PICK c : c = DigitNames[(u % base) + 1]
    OBVIOUS
  <2> PICK x : x = <<c>>
    OBVIOUS
  <2>1. d[u] = x \o d[u \div base] /\ IsText(x) /\ Len(x) = 1 /\ x[1] = c
    <3>1. IsText(<<c>>) /\ Len(<<c>>) = 1
      BY OneIsText
    <3> QED BY <1>1, <3>1
  <2>2. c = Digit(u, base, 0)
    <3>1. u \in Nat /\ base \in Nat \ {0}
      OBVIOUS
    <3>2. Digit(u, base, 0) = DigitNames[(u % base) + 1]
      BY <3>1, LastDigit
    <3> QED BY <3>2
  <2>3. CASE u \div base = 0
    <3>1. d[u] = x
      <4>1. x \o <<>> = x
        BY <2>1, JoinedEmpty
      <4> QED BY <1>1, <2>1, <2>3, <4>1
    <3>2. HasDigits(u, base, 1)
      <4>1. 1 \in 1 .. IntSize /\ 1 - 1 = 0
        BY IntSizeFacts
      <4>2. Weights(base)[1] = base * 1
        <5>1. Weights(base)[1] = base * Weights(base)[1 - 1] /\ Weights(base)[0] = 1
          BY <4>1, WeightsAre
        <5> QED BY <4>1, <5>1
      <4>3. u < base
        <5>1. u % base \in 0 .. base - 1 /\ u = base * 0 + (u % base)
          <6>1. u \in Int
            OBVIOUS
          <6> QED BY <2>3, <6>1, Division
        <5> QED BY <5>1
      <4> QED BY <4>2, <4>3 DEF HasDigits
    <3>3. \A k \in 1 .. 1 : x[k] = Digit(u, base, k - 1)
      <4>1. \A k \in 1 .. 1 : k = 1 /\ k - 1 = 0
        OBVIOUS
      <4> QED BY <2>1, <2>2, <4>1
    <3>4. DigitsOf(u, base, 1, x)
      BY <2>1, <3>2, <3>3 DEF DigitsOf
    <3> QED BY <3>1, <3>4
  <2>4. CASE u \div base # 0
    <3> PICK q : q = u \div base
      OBVIOUS
    <3>1. q \in 1 .. u - 1 /\ q # 0
      BY <1>2, <2>4
    <3>2. PICK n \in 1 .. q : DigitsOf(q, base, n, d[q])
      BY <1>2, <2>4
    <3> PICK y : y = d[q]
      OBVIOUS
    <3>3. HasDigits(q, base, n) /\ IsText(y) /\ Len(y) = n /\ \A k \in 1 .. n : y[k] = Digit(q, base, k - 1)
      BY <3>2 DEF DigitsOf
    <3>4. n \in 1 .. IntSize - 1 /\ n + 1 \in 1 .. u /\ n \in Nat
      BY <3>1, <3>2, IntSizeFacts
    <3>5. HasDigits(u, base, n + 1)
      BY <2>4, <3>3, <3>4, HasDigitsNext
    <3> PICK z : z = x \o y
      OBVIOUS
    <3>6. IsText(z) /\ Len(z) = n + 1 /\ z[1] = c /\ \A k \in 1 .. n : z[k + 1] = y[k]
      <4>1. /\ IsText(x \o y) /\ Len(x \o y) = Len(x) + Len(y)
            /\ \A i \in 1 .. Len(x) : (x \o y)[i] = x[i]
            /\ \A i \in 1 .. Len(y) : (x \o y)[Len(x) + i] = y[i]
        BY <2>1, <3>3, Joined
      <4>2. 1 \in 1 .. Len(x) /\ Len(x) + Len(y) = n + 1 /\ \A k \in 1 .. n : Len(x) + k = k + 1
        BY <2>1, <3>3, <3>4
      <4> QED BY <2>1, <3>3, <4>1, <4>2
    <3>7. ASSUME NEW k \in 1 .. n + 1 PROVE z[k] = Digit(u, base, k - 1)
      <4>1. CASE k = 1
        BY <2>2, <3>6, <4>1
      <4>2. CASE k # 1
        <5> PICK j \in 1 .. n : j = k - 1 /\ k = j + 1
          BY <3>4, <4>2
        <5>1. j \in 1 .. IntSize
          BY <3>4, IntSizeFacts
        <5>2. Digit(u \div base, base, j - 1) = Digit(u, base, j)
          BY <5>1, OtherDigits
        <5> QED BY <3>3, <3>6, <5>2
      <4> QED BY <4>1, <4>2
    <3>8. d[u] = z
      BY <2>1
    <3>9. DigitsOf(u, base, n + 1, z)
      BY <3>5, <3>6, <3>7 DEF DigitsOf
    <3> QED BY <3>4, <3>8, <3>9
  <2> QED BY <2>3, <2>4
<1>3. ASSUME NEW u \in 1 .. N PROVE u \div base \in 0 .. u - 1
  <2> PICK q, r : q = u \div base /\ r = u % base
    OBVIOUS
  <2>1. q \in Int /\ r \in 0 .. base - 1 /\ u = base * q + r
    <3>1. u \in Int
      OBVIOUS
    <3> QED BY <3>1, Division
  <2>2. q >= 0
    <3>1. CASE q <= -1
      <4>1. base * q <= - base
        BY <2>1, <3>1, SMTT(30)
      <4>2. base * q \in Int
        BY <2>1, SMTT(30)
      <4> QED BY <2>1, <4>1, <4>2
    <3> QED BY <2>1, <3>1
  <2>3. q < u
    <3>1. CASE q >= u
      <4>1. base * q >= 2 * q /\ base * q \in Int
        BY <2>1, <2>2, SMTT(30)
      <4>2. u >= 2 * q
        BY <2>1, <4>1
      <4> QED BY <2>1, <3>1, <4>2
    <3> QED BY <2>1, <3>1
  <2> QED BY <2>1, <2>2, <2>3
<1>4. 0 \in P
  OBVIOUS
<1>5. ASSUME NEW m \in 0 .. N, m < N, m \in P PROVE m + 1 \in P
  <2>1. m + 1 \in 1 .. N /\ m + 1 \in 0 .. N
    BY <1>5
  <2> PICK u : u = m + 1
    OBVIOUS
  <2>2. u \div base \in 0 .. m
    BY <1>3, <2>1
  <2>3. \A k \in 1 .. m : Ok(k)
    BY <1>5
  <2> HIDE DEF Ok
  <2>4. u \div base # 0 => u \div base \in 1 .. u - 1 /\ Ok(u \div base)
    BY <2>2, <2>3
  <2>5. Ok(u)
    BY <1>2, <2>1, <2>4
  <2>6. \A k \in 1 .. m + 1 : k \in 1 .. m \/ k = u
    OBVIOUS
  <2> QED BY <2>1, <2>3, <2>5, <2>6
<1>6. \A m \in 0 .. N : m \in P
  <2> HIDE DEF P
  <2> QED BY <1>4, <1>5, UpTo
<1>7. v \in 0 .. N /\ v \in 1 .. v
  OBVIOUS
<1>8. Ok(v)
  <2> HIDE DEF Ok
  <2>1. v \in P
    <3> HIDE DEF P
    <3> QED BY <1>6, <1>7
  <2> QED BY <1>7, <2>1
<1> QED BY <1>8

\* strrev turns a string around.
LEMMA StrrevTurns ==
  ASSUME NEW s, IsText(s)
  PROVE  /\ IsText(strrev(s)) /\ Len(strrev(s)) = Len(s)
         /\ \A k \in 1 .. Len(s) : strrev(s)[k] = s[Len(s) + 1 - k]
<1> DEFINE n == Len(s)
           num == n \div 2
           body(t, i) == IF i = 0 THEN s
                         ELSE [t[i - 1] EXCEPT ![i] = t[i - 1][n + 1 - i], ![n + 1 - i] = t[i - 1][i]]
           turned(i) == [k \in 1 .. n |-> IF k <= i \/ k > n - i THEN s[n + 1 - k] ELSE s[k]]
           Is(t) == t = [i \in 0 .. num |-> body(t, i)]
<1>0. n \in Nat /\ s = [k \in 1 .. n |-> s[k]]
  BY TextFacts
<1>1. strrev(s) = (CHOOSE t : Is(t))[num]
  BY DEF strrev
<1>2. num \in Nat /\ 2 * num <= n /\ n <= 2 * num + 1
  BY <1>0
<1> HIDE DEF n, num
<1>3. turned(0) = s
  <2>1. \A k \in 1 .. n : ~(k <= 0) /\ ~(k > n - 0)
    BY <1>0
  <2> QED BY <1>0, <2>1
<1>4. ASSUME NEW i \in 0 .. num, i < num
      PROVE  turned(i + 1) = [turned(i) EXCEPT ![i + 1] = turned(i)[n + 1 - (i + 1)],
                                               ![n + 1 - (i + 1)] = turned(i)[i + 1]]
  <2> PICK a, b \in Nat : a = i + 1 /\ b = n + 1 - (i + 1)
    BY <1>0, <1>2, <1>4
  <2>1. a \in 1 .. n /\ b \in 1 .. n /\ a < b /\ b = n - i /\ i \in Nat
    BY <1>0, <1>2, <1>4
  <2>2. turned(i)[b] = s[b] /\ turned(i)[a] = s[a]
    <3>1. ~(b <= i) /\ ~(b > n - i) /\ ~(a <= i) /\ ~(a > n - i)
      BY <1>0, <2>1
    <3> QED BY <2>1, <3>1
  <2>3. n + 1 - a = b /\ n + 1 - b = a
    BY <1>0, <2>1
  <2>4. ASSUME NEW k \in 1 .. n
        PROVE  turned(i + 1)[k] = IF k = b THEN s[a] ELSE IF k = a THEN s[b] ELSE turned(i)[k]
    <3>1. (k <= i + 1 <=> k <= i \/ k = a) /\ (k > n - (i + 1) <=> k > n - i \/ k = b)
      BY <1>0, <2>1
    <3>2. turned(i + 1)[k] = IF k <= i + 1 \/ k > n - (i + 1) THEN s[n + 1 - k] ELSE s[k]
      OBVIOUS
    <3>3. turned(i)[k] = IF k <= i \/ k > n - i THEN s[n + 1 - k] ELSE s[k]
      OBVIOUS
    <3> HIDE DEF turned
    <3>4. CASE k = a
      BY <2>1, <2>3, <3>1, <3>2, <3>4
    <3>5. CASE k = b
      BY <2>1, <2>3, <3>1, <3>2, <3>5
    <3>6. CASE k # a /\ k # b
      BY <3>1, <3>2, <3>3, <3>6
    <3> QED BY <3>4, <3>5, <3>6
  <2> PICK g, h : g = turned(i) /\ h = turned(i + 1)
    OBVIOUS
  <2>5. g = [k \in 1 .. n |-> g[k]] /\ h = [k \in 1 .. n |-> h[k]]
    OBVIOUS
  <2>6. g[a] = s[a] /\ g[b] = s[b] /\ \A k \in 1 .. n : h[k] = IF k = b THEN s[a] ELSE IF k = a THEN s[b] ELSE g[k]
    <3> HIDE DEF turned
    <3> QED BY <2>2, <2>4
  <2> HIDE DEF turned
  <2>7. h = [g EXCEPT ![a] = g[b], ![b] = g[a]]
    BY <2>1, <2>5, <2>6
  <2> QED BY <2>7
<1>5. \E t : Is(t)
  <2> DEFINE t == [i \in 0 .. num |-> turned(i)]
  <2> HIDE DEF turned
  <2>1. ASSUME NEW i \in 0 .. num PROVE t[i] = body(t, i)
    <3>1. CASE i = 0
      BY <1>3, <3>1
    <3>2. CASE i # 0
      <4>1. PICK j \in 0 .. num : j = i - 1 /\ j < num /\ i = j + 1
        BY <1>2, <3>2
      <4>2. t[j] = turned(j) /\ t[i] = turned(j + 1)
        BY <4>1
      <4> QED BY <1>4, <3>2, <4>1, <4>2
    <3> QED BY <3>1, <3>2
  <2>2. t = [i \in 0 .. num |-> t[i]]
    OBVIOUS
  <2> HIDE DEF t, body
  <2>3. t = [i \in 0 .. num |-> body(t, i)]
    BY <2>1, <2>2
  <2> QED BY <2>3
<1>6. ASSUME NEW t, Is(t) PROVE t[num] = turned(num)
  <2> DEFINE P == {i \in 0 .. num : t[i] = turned(i)}
  <2> HIDE DEF turned
  <2>1. 0 \in P
    BY <1>2, <1>3, <1>6
  <2>2. ASSUME NEW i \in 0 .. num, i < num, i \in P PROVE i + 1 \in P
    <3>1. i + 1 \in 0 .. num /\ i + 1 # 0 /\ (i + 1) - 1 = i
      BY <1>2, <2>2
    <3>2. t[i + 1] = [t[i] EXCEPT ![i + 1] = t[i][n + 1 - (i + 1)], ![n + 1 - (i + 1)] = t[i][i + 1]]
      BY <1>6, <3>1
    <3> QED BY <1>4, <2>2, <3>1, <3>2
  <2>3. num \in 0 .. num
    BY <1>2
  <2>4. \A i \in 0 .. num : i \in P
    <3> HIDE DEF P
    <3> QED BY <1>2, <2>1, <2>2, UpTo
  <2> QED BY <2>3, <2>4
<1>7. strrev(s) = turned(num)
  <2> HIDE DEF Is, turned
  <2> QED BY <1>1, <1>5, <1>6
<1> PICK r : r = turned(num)
  OBVIOUS
<1>8. r = [k \in 1 .. n |-> r[k]]
  OBVIOUS
<1>9. \A k \in 1 .. n : r[k] = s[n + 1 - k]
  <2> SUFFICES ASSUME NEW k \in 1 .. n PROVE r[k] = s[n + 1 - k]
    OBVIOUS
  <2>1. r[k] = IF k <= num \/ k > n - num THEN s[n + 1 - k] ELSE s[k]
    OBVIOUS
  <2>2. k <= num \/ k > n - num \/ k = n + 1 - k
    BY <1>0, <1>2
  <2> HIDE DEF turned
  <2> QED BY <2>1, <2>2
<1> HIDE DEF turned
<1>10. IsText(r) /\ Len(r) = n
  BY <1>0, <1>8, TextOf
<1> QED BY <1>7, <1>9, <1>10 DEF n

\* The digits of a number, turned around, with its sign before them.
LEMMA NumberIsWritten ==
  ASSUME NEW base \in Nat, base >= 2, NEW v \in 1 .. IntSize - 1, NEW sign \in {<<>>, <<"-">>}
  PROVE  LET x == strrev(Digits(base)[v] \o sign)
         IN  /\ x = sign \o Numeral(v, base) /\ IsText(x) /\ IsText(Numeral(v, base))
             /\ \E n \in 1 .. IntSize : HasDigits(v, base, n) /\ Len(x) = n + Len(sign)
<1>20. PICK d : d = Digits(base)[v]
  OBVIOUS
<1>1. PICK m \in 1 .. v : DigitsOf(v, base, m, d)
  BY <1>20, LoopWritesDigits
<1>2. m \in 1 .. IntSize /\ m \in Nat
  BY IntSizeFacts
<1>3. HasDigits(v, base, m) /\ IsText(d) /\ Len(d) = m /\ \A k \in 1 .. m : d[k] = Digit(v, base, k - 1)
  BY <1>1 DEF DigitsOf
<1>21. PICK n : n = CHOOSE k \in 1 .. IntSize : HasDigits(v, base, k)
  OBVIOUS
<1>4. n \in 1 .. IntSize /\ HasDigits(v, base, n)
  BY <1>2, <1>3, <1>21
<1>5. n = m
  <2>1. v \in Nat /\ base \in Nat \ {0}
    OBVIOUS
  <2> QED BY <1>2, <1>3, <1>4, <2>1, DigitsUnique
<1>22. PICK l \in {0, 1} : l = Len(sign) /\ IsText(sign) /\ \A i \in 1 .. l : sign[i] = "-"
  <2>1. IsText(<<>>) /\ Len(<<>>) = 0 /\ \A i \in 1 .. 0 : FALSE
    BY NothingIsText
  <2> PICK c : c = "-"
    OBVIOUS
  <2>2. IsText(<<c>>) /\ Len(<<c>>) = 1 /\ \A i \in 1 .. 1 : i = 1 /\ <<c>>[i] = c
    BY OneIsText
  <2>3. sign = <<>> \/ sign = <<c>>
    OBVIOUS
  <2>4. CASE sign = <<>>
    BY <2>1, <2>4
  <2>5. CASE sign = <<c>>
    BY <2>2, <2>5
  <2> QED BY <2>3, <2>4, <2>5
<1>23. PICK w : w = d \o sign
  OBVIOUS
<1>24. PICK x : x = strrev(w)
  OBVIOUS
<1>6. IsText(w) /\ Len(w) = m + l /\ (\A i \in 1 .. m : w[i] = d[i]) /\ \A i \in 1 .. l : w[m + i] = sign[i]
  <2>1. /\ IsText(d \o sign) /\ Len(d \o sign) = Len(d) + Len(sign)
        /\ \A i \in 1 .. Len(d) : (d \o sign)[i] = d[i]
        /\ \A i \in 1 .. Len(sign) : (d \o sign)[Len(d) + i] = sign[i]
    BY <1>3, <1>22, Joined
  <2> QED BY <1>3, <1>22, <1>23, <2>1
<1>7. IsText(x) /\ Len(x) = m + l /\ \A k \in 1 .. m + l : x[k] = w[m + l + 1 - k]
  <2>1. /\ IsText(strrev(w)) /\ Len(strrev(w)) = Len(w)
        /\ \A k \in 1 .. Len(w) : strrev(w)[k] = w[Len(w) + 1 - k]
    BY <1>6, StrrevTurns
  <2> QED BY <1>6, <1>24, <2>1
<1>25. PICK e : e = [k \in 1 .. m |-> Digit(v, base, m - k)]
  OBVIOUS
<1>8. IsText(e) /\ Len(e) = m /\ \A k \in 1 .. m : e[k] = Digit(v, base, m - k)
  <2>1. e = [k \in 1 .. m |-> e[k]] /\ \A k \in 1 .. m : e[k] = Digit(v, base, m - k)
    BY <1>25
  <2> QED BY <1>2, <2>1, TextOf
<1>26. PICK y : y = sign \o e
  OBVIOUS
<1>9. IsText(y) /\ Len(y) = l + m /\ (\A i \in 1 .. l : y[i] = sign[i]) /\ \A i \in 1 .. m : y[l + i] = e[i]
  <2>1. /\ IsText(sign \o e) /\ Len(sign \o e) = Len(sign) + Len(e)
        /\ \A i \in 1 .. Len(sign) : (sign \o e)[i] = sign[i]
        /\ \A i \in 1 .. Len(e) : (sign \o e)[Len(sign) + i] = e[i]
    BY <1>8, <1>22, Joined
  <2> QED BY <1>8, <1>22, <1>26, <2>1
<1>10. ASSUME NEW k \in 1 .. m + l PROVE x[k] = y[k]
  <2>1. CASE k <= l
    <3>1. k = 1 /\ l = 1 /\ k \in 1 .. l /\ m + l + 1 - k = m + 1
      BY <1>2, <2>1
    <3>2. x[k] = w[m + 1]
      BY <1>7, <3>1
    <3>3. w[m + 1] = "-" /\ y[k] = "-"
      BY <1>6, <1>9, <1>22, <3>1
    <3> QED BY <3>2, <3>3
  <2>2. CASE k > l
    <3> PICK i \in 1 .. m : i = k - l /\ k = l + i
      BY <1>2, <2>2
    <3> PICK j \in 1 .. m : j = m + 1 - i
      BY <1>2
    <3>1. m + l + 1 - k = j /\ j - 1 = m - i
      BY <1>2
    <3>2. x[k] = d[j]
      BY <1>6, <1>7, <3>1
    <3>3. d[j] = Digit(v, base, m - i)
      BY <1>3, <3>1
    <3>4. y[k] = e[i]
      BY <1>9
    <3> QED BY <1>8, <3>2, <3>3, <3>4
  <2>3. k <= l \/ k > l
    BY <1>2
  <2> QED BY <2>1, <2>2, <2>3
<1>11. x = y
  <2>1. Len(x) = Len(y)
    BY <1>2, <1>7, <1>9
  <2>2. \A k \in 1 .. Len(x) : x[k] = y[k]
    BY <1>7, <1>10
  <2> QED BY <1>7, <1>9, <2>1, <2>2, SameText
<1>12. e = [k \in 1 .. m |-> DigitNames[((v \div Weights(base)[m - k]) % base) + 1]]
  BY <1>25 DEF Digit
<1>13. x = strrev(Digits(base)[v] \o sign)
  BY <1>20, <1>23, <1>24
<1>14. Numeral(v, base) = e
  BY <1>5, <1>12, <1>21 DEF Numeral
<1>15. x = sign \o Numeral(v, base) /\ IsText(x) /\ IsText(Numeral(v, base)) /\ Len(x) = n + Len(sign)
  BY <1>5, <1>7, <1>8, <1>11, <1>14, <1>22, <1>26
<1> QED BY <1>4, <1>13, <1>15

\* A number below a weight has no more digits than it takes.
LEMMA DigitsBelow ==
  ASSUME NEW base \in Nat \ {0}, NEW v \in Nat, NEW n \in 1 .. IntSize, HasDigits(v, base, n),
         NEW k \in 1 .. IntSize, v < Weights(base)[k]
  PROVE  n <= k
<1>1. CASE n > k
  <2>1. n - 1 \in 0 .. IntSize /\ k \in 0 .. IntSize /\ k <= n - 1 /\ n > 1
    BY <1>1, IntSizeFacts
  <2>2. Weights(base)[k] <= Weights(base)[n - 1]
    BY <2>1, WeightsGrow
  <2>3. Weights(base)[n - 1] <= v
    BY <2>1 DEF HasDigits
  <2>4. Weights(base)[k] \in Nat /\ Weights(base)[n - 1] \in Nat
    BY <2>1, WeightsAre
  <2> QED BY <2>2, <2>3, <2>4
<1>2. n \in Int /\ k \in Int
  OBVIOUS
<1> QED BY <1>1, <1>2

\* Zero is written with one digit.
LEMMA ZeroIsWritten ==
  ASSUME NEW base \in {10, 16}
  PROVE  NumberText(0, base) = <<"0">>
<1>0. IntSize \in Nat /\ IntSize >= 2 /\ 1 \in 1 .. IntSize /\ base \in Nat \ {0} /\ 0 % IntSize = 0
  <2>1. IntSize \in Nat \ {0} /\ 0 \in 0 .. IntSize - 1
    BY IntSizeFacts
  <2>2. 0 % IntSize = 0
    BY <2>1, ModSmall
  <2> QED BY <2>2, IntSizeFacts
<1> PICK w : w = Weights(base)
  OBVIOUS
<1>1. w[0] = 1 /\ \A k \in 0 .. IntSize : w[k] \in Nat \ {0}
  BY <1>0, WeightsAre
<1>2. HasDigits(0, base, 1)
  <2>1. 0 < w[1]
    BY <1>0, <1>1
  <2> QED BY <2>1 DEF HasDigits
<1>21. PICK n : n = CHOOSE k \in 1 .. IntSize : HasDigits(0, base, k)
  OBVIOUS
<1>3. n \in 1 .. IntSize /\ HasDigits(0, base, n)
  BY <1>0, <1>2, <1>21
<1>4. n = 1
  <2>1. 0 \in Nat
    OBVIOUS
  <2> QED BY <1>0, <1>2, <1>3, <2>1, DigitsUnique
<1>22. PICK e : e = [k \in 1 .. n |-> DigitNames[((0 \div w[n - k]) % base) + 1]]
  OBVIOUS
<1>5. NumberText(0, base) = e
  <2>1. Numeral(0, base) = e
    BY <1>21, <1>22 DEF Numeral
  <2>2. ~(0 < 0)
    OBVIOUS
  <2> QED BY <1>0, <2>1, <2>2 DEF NumberText
<1>6. (0 \div w[0]) % base = 0
  <2>1. 0 \div 1 = 0 /\ 0 % base = 0
    OBVIOUS
  <2> QED BY <1>1, <2>1
<1>7. e[1] = "0"
  <2>1. 1 \in 1 .. n /\ n - 1 = 0
    BY <1>4
  <2>2. e[1] = DigitNames[((0 \div w[0]) % base) + 1]
    BY <1>22, <2>1
  <2>3. e[1] = DigitNames[1]
    BY <1>6, <2>2
  <2> QED BY <2>3 DEF DigitNames
<1>8. IsText(e) /\ Len(e) = 1
  <2>1. e = [k \in 1 .. n |-> e[k]] /\ n \in Nat
    BY <1>4, <1>22
  <2> QED BY <1>4, <2>1, TextOf
<1>9. e = <<"0">>
  <2> PICK x, c : c = "0" /\ x = <<c>>
    OBVIOUS
  <2>1. IsText(x) /\ Len(x) = 1 /\ x[1] = c
    BY OneIsText
  <2>2. \A k \in 1 .. Len(e) : e[k] = x[k]
    <3>1. \A k \in 1 .. 1 : k = 1
      OBVIOUS
    <3> QED BY <1>7, <1>8, <2>1, <3>1
  <2>3. e = x
    BY <1>8, <2>1, <2>2, SameText
  <2> QED BY <2>3
<1> QED BY <1>5, <1>9

\* The weights are more than enough for the lengths of numbers.
LEMMA RoomFacts ==
  /\ DecimalRoom - 2 \in 1 .. IntSize /\ IntSize \div 2 < Weights(10)[DecimalRoom - 2]
  /\ HexRoom - 1 \in 1 .. IntSize /\ IntSize <= Weights(16)[HexRoom - 1]
<1>0. DecimalRoom \in Nat /\ HexRoom \in Nat
  BY PrintfAssumption
<1>1. /\ DecimalRoom - 2 \in 0 .. IntSize /\ IntSize \div 2 < Weights(10)[DecimalRoom - 2]
      /\ HexRoom - 1 \in 0 .. IntSize /\ IntSize <= Weights(16)[HexRoom - 1]
  BY IntAssumption
<1>2. Weights(10)[0] = 1 /\ Weights(16)[0] = 1
  <2>1. 10 \in Nat \ {0} /\ 16 \in Nat \ {0}
    OBVIOUS
  <2> QED BY <2>1, WeightsAre
<1>3. PICK h \in Nat : h = IntSize \div 2 /\ h >= 1 /\ IntSize \in Nat /\ IntSize >= 2
  BY IntSizeFacts
<1>4. DecimalRoom - 2 # 0
  BY <1>1, <1>2, <1>3
<1>5. HexRoom - 1 # 0
  BY <1>1, <1>2, <1>3
<1> QED BY <1>0, <1>1, <1>4, <1>5, <1>3

\* The digits of a number are no NULs.
LEMMA NumeralIsWhole ==
  ASSUME NEW base \in {10, 16}, NEW v \in Nat, NEW n \in 1 .. IntSize, HasDigits(v, base, n)
  PROVE  Whole(Numeral(v, base))
<1> PICK m : m = CHOOSE k \in 1 .. IntSize : HasDigits(v, base, k)
  OBVIOUS
<1>1. m \in 1 .. IntSize /\ IntSize \in Nat
  BY IntSizeFacts
<1> PICK w : w = Weights(base)
  OBVIOUS
<1>2. \A k \in 0 .. IntSize : w[k] \in Nat \ {0}
  <2>1. base \in Nat \ {0}
    OBVIOUS
  <2> QED BY <2>1, WeightsAre
<1>3. Numeral(v, base) = [k \in 1 .. m |-> DigitNames[((v \div w[m - k]) % base) + 1]]
  BY DEF Numeral
<1> PICK e : e = Numeral(v, base)
  OBVIOUS
<1>4. e = [k \in 1 .. m |-> DigitNames[((v \div w[m - k]) % base) + 1]]
  BY <1>3
<1>5. e = [k \in 1 .. m |-> e[k]]
  BY <1>4
<1>6. Len(e) = m
  BY <1>1, <1>5, TextOf
<1>7. ASSUME NEW j \in 1 .. 16 PROVE DigitNames[j] # NUL
  BY <1>7 DEF DigitNames, NUL
<1>8. ASSUME NEW k \in 1 .. m PROVE e[k] # NUL
  <2>1. m - k \in 0 .. IntSize
    BY <1>1
  <2> PICK u \in Nat \ {0} : u = w[m - k]
    BY <1>2, <2>1
  <2>2. v \div u \in Int
    <3>1. v \in Int
      OBVIOUS
    <3> QED BY <3>1, Division
  <2>3. (v \div u) % base \in 0 .. base - 1
    <3>1. base \in Nat \ {0}
      OBVIOUS
    <3> QED BY <2>2, <3>1, Division
  <2>4. ((v \div u) % base) + 1 \in 1 .. 16
    BY <2>3
  <2>5. e[k] = DigitNames[((v \div u) % base) + 1]
    BY <1>4
  <2> QED BY <1>7, <2>4, <2>5
<1> QED BY <1>6, <1>8 DEF Whole

\* itoa of a number that is not zero.
LEMMA ItoaOf ==
  ASSUME NEW value \in Ints, value # 0, NEW base \in {10, 16}, NEW v \in 1 .. IntSize - 1, NEW sign,
         \/ value < 0 /\ base = 10 /\ v = - value /\ sign = <<"-">>
         \/ ~(value < 0 /\ base = 10) /\ v = value % IntSize /\ sign = <<>>
  PROVE  /\ itoa(value, base) = NumberText(value, base) /\ IsText(itoa(value, base))
         /\ Whole(itoa(value, base))
         /\ \E n \in 1 .. IntSize : HasDigits(v, base, n) /\ Len(itoa(value, base)) = n + Len(sign)
<1>0. base \in Nat /\ base >= 2
  OBVIOUS
<1>20. PICK x : x = strrev(Digits(base)[v] \o sign)
  OBVIOUS
<1>21. PICK e : e = Numeral(v, base)
  OBVIOUS
<1>1. /\ x = sign \o e /\ IsText(x) /\ IsText(e)
      /\ \E n \in 1 .. IntSize : HasDigits(v, base, n) /\ Len(x) = n + Len(sign)
  <2>1. sign \in {<<>>, <<"-">>}
    OBVIOUS
  <2> QED BY <1>0, <1>20, <1>21, <2>1, NumberIsWritten
<1>4. Whole(x)
  <2>1. PICK n \in 1 .. IntSize : HasDigits(v, base, n)
    BY <1>1
  <2>2. Whole(e)
    BY <1>21, <2>1, NumeralIsWhole
  <2> PICK minus : minus = "-" /\ minus # NUL
    BY DEF NUL
  <2>3. IsText(<<minus>>) /\ Whole(<<minus>>) /\ IsText(<<>>) /\ Whole(<<>>)
    BY OneIsText, OneIsWhole, NothingIsText, NothingIsWhole
  <2>4. sign = <<>> \/ sign = <<minus>>
    OBVIOUS
  <2>5. IsText(sign) /\ Whole(sign)
    BY <2>3, <2>4
  <2>6. Whole(sign \o e)
    BY <1>1, <2>2, <2>5, JoinedIsWhole
  <2> QED BY <1>1, <2>6
<1>2. CASE value < 0 /\ base = 10 /\ v = - value /\ sign = <<"-">>
  <2>1. v % IntSize = v
    BY IntSizeFacts, ModSmall
  <2>2. itoa(value, base) = x
    BY <1>2, <1>20, <2>1 DEF itoa
  <2>3. NumberText(value, base) = sign \o e
    BY <1>2, <1>21 DEF NumberText
  <2> QED BY <1>1, <1>4, <2>2, <2>3
<1>3. CASE ~(value < 0 /\ base = 10) /\ v = value % IntSize /\ sign = <<>>
  <2>1. itoa(value, base) = x
    BY <1>3, <1>20 DEF itoa
  <2>2. NumberText(value, base) = e
    BY <1>3, <1>21 DEF NumberText
  <2>3. sign \o e = e
    BY <1>1, <1>3, JoinedEmpty
  <2> QED BY <1>1, <1>4, <2>1, <2>2, <2>3
<1> QED BY <1>2, <1>3

\* A text consists of what is in it.
LEMMA TextOfItsOwn ==
  ASSUME NEW s, IsText(s)
  PROVE  s \in Seq(ToSet(s))
<1>1. Len(s) \in Nat /\ s = [k \in 1 .. Len(s) |-> s[k]] /\ DOMAIN s = 1 .. Len(s)
  BY TextFacts
<1>2. \A k \in 1 .. Len(s) : s[k] \in ToSet(s)
  BY <1>1 DEF ToSet
<1> QED BY <1>1, <1>2

\* Every int is written as it should be, within the room printf makes.
LEMMA EveryIntIsWritten ==
  ASSUME NEW value \in Ints, NEW base \in {10, 16}
  PROVE  /\ itoa(value, base) = NumberText(value, base) /\ IsText(itoa(value, base))
         /\ Whole(itoa(value, base))
         /\ Len(itoa(value, base)) < IF base = 10 THEN DecimalRoom ELSE HexRoom
<1>0. PICK h \in Nat : /\ h = IntSize \div 2 /\ IntSize = 2 * h /\ h >= 1
                       /\ IntSize \in Nat /\ IntSize >= 2 /\ value \in - h .. h - 1
  <2>1. IntSize % 2 = 0 /\ IntSize \in Nat /\ IntSize >= 2
    BY IntAssumption, IntSizeFacts
  <2>2. value \in - (IntSize \div 2) .. IntSize \div 2 - 1
    BY DEF Ints
  <2> QED BY <2>1, <2>2
<1>1. /\ DecimalRoom \in Nat /\ DecimalRoom >= 3 /\ HexRoom \in Nat /\ HexRoom >= 2
      /\ DecimalRoom - 2 \in 1 .. IntSize /\ h < Weights(10)[DecimalRoom - 2]
      /\ HexRoom - 1 \in 1 .. IntSize /\ IntSize <= Weights(16)[HexRoom - 1]
  BY <1>0, RoomFacts, PrintfAssumption
<1>2. CASE value = 0
  <2>1. NumberText(0, base) = <<"0">>
    BY ZeroIsWritten
  <2>2. itoa(0, base) = <<"0">>
    BY DEF itoa
  <2>3. IsText(<<"0">>) /\ Len(<<"0">>) = 1 /\ Whole(<<"0">>)
    <3> PICK zero : zero = "0" /\ zero # NUL
      BY DEF NUL
    <3> QED BY OneIsText, OneIsWhole
  <2>4. 1 < IF base = 10 THEN DecimalRoom ELSE HexRoom
    BY <1>1
  <2>5. PICK x : x = itoa(0, base)
    OBVIOUS
  <2>6. x = NumberText(0, base) /\ IsText(x) /\ Len(x) = 1 /\ Whole(x)
    BY <2>1, <2>2, <2>3, <2>5
  <2> QED BY <1>2, <2>4, <2>5, <2>6
<1>3. CASE value # 0
  <2> PICK negative \in {0, 1} : negative = IF value < 0 /\ base = 10 THEN 1 ELSE 0
    OBVIOUS
  <2>20. PICK sign : sign = IF negative = 1 THEN <<"-">> ELSE <<>>
    OBVIOUS
  <2>21. PICK v : v = IF negative = 1 THEN - value ELSE value % IntSize
    OBVIOUS
  <2>1. v \in 1 .. IntSize - 1 /\ (negative = 1 => v <= h) /\ (value > 0 => v = value)
    <3>1. CASE negative = 1
      BY <1>0, <1>3, <2>21, <3>1
    <3>2. CASE negative = 0 /\ value > 0
      <4>1. value \in 0 .. IntSize - 1
        BY <1>0, <3>2
      <4>2. value % IntSize = value
        BY <1>0, <4>1, ModSmall
      <4> QED BY <2>21, <3>2, <4>1, <4>2
    <3>3. CASE negative = 0 /\ value < 0
      <4>1. value + IntSize \in 1 .. IntSize - 1
        BY <1>0, <3>3
      <4>2. value % IntSize = value + IntSize
        <5>1. IntSize \in Nat \ {0} /\ value \in Int /\ -1 \in Int
          BY <1>0
        <5>2. value = IntSize * (-1) + (value + IntSize) /\ value + IntSize \in 0 .. IntSize - 1
          BY <1>0, <4>1
        <5>3. value \div IntSize = -1
          BY <5>1, <5>2, QuotientIs
        <5>4. value = IntSize * (-1) + (value % IntSize) /\ value % IntSize \in Int
          BY <5>1, <5>3, Division
        <5> QED BY <1>0, <5>4
      <4> QED BY <1>0, <2>21, <3>3, <4>1, <4>2
    <3>4. negative = 1 \/ (negative = 0 /\ value > 0) \/ (negative = 0 /\ value < 0)
      BY <1>0, <1>3
    <3> QED BY <3>1, <3>2, <3>3, <3>4
  <2>2. /\ itoa(value, base) = NumberText(value, base) /\ IsText(itoa(value, base))
        /\ Whole(itoa(value, base))
        /\ \E n \in 1 .. IntSize : HasDigits(v, base, n) /\ Len(itoa(value, base)) = n + Len(sign)
    <3>1. \/ value < 0 /\ base = 10 /\ v = - value /\ sign = <<"-">>
          \/ ~(value < 0 /\ base = 10) /\ v = value % IntSize /\ sign = <<>>
      BY <2>20, <2>21
    <3> QED BY <1>3, <2>1, <3>1, ItoaOf
  <2>3. PICK n \in 1 .. IntSize : HasDigits(v, base, n) /\ Len(itoa(value, base)) = n + Len(sign)
    BY <2>2
  <2>4. Len(sign) = negative
    BY <2>20
  <2>5. base \in Nat \ {0} /\ v \in Nat
    BY <2>1
  <2>6. CASE base = 10
    <3>1. v <= h
      BY <1>0, <1>3, <2>1, <2>6
    <3>2. Weights(10)[DecimalRoom - 2] \in Nat
      <4>1. DecimalRoom - 2 \in 0 .. IntSize /\ 10 \in Nat \ {0}
        BY <1>1
      <4> QED BY <4>1, WeightsAre
    <3>3. v < Weights(10)[DecimalRoom - 2]
      BY <1>0, <1>1, <2>1, <3>1, <3>2
    <3>4. n <= DecimalRoom - 2
      BY <1>1, <2>3, <2>5, <2>6, <3>3, DigitsBelow
    <3>5. Len(itoa(value, base)) <= n + 1
      BY <2>3, <2>4
    <3>6. Len(itoa(value, base)) < DecimalRoom
      BY <1>1, <2>3, <2>4, <3>4
    <3> QED BY <2>2, <2>6, <3>6
  <2>7. CASE base = 16
    <3>1. Weights(16)[HexRoom - 1] \in Nat
      <4>1. HexRoom - 1 \in 0 .. IntSize /\ 16 \in Nat \ {0}
        BY <1>1
      <4> QED BY <4>1, WeightsAre
    <3>2. v < Weights(16)[HexRoom - 1]
      BY <1>0, <1>1, <2>1, <3>1
    <3>3. n <= HexRoom - 1
      BY <1>1, <2>3, <2>5, <2>7, <3>2, DigitsBelow
    <3>4. Len(itoa(value, base)) = n
      BY <2>3, <2>4, <2>7
    <3> QED BY <1>1, <2>2, <2>7, <3>3, <3>4
  <2> QED BY <2>6, <2>7
<1> QED BY <1>2, <1>3

\* itoa writes every int as its digits by their weight, behind a minus if it is
\* negative and decimal, and printf makes room enough for it: whatever the width
\* of an int, if the room is enough for the largest one.
THEOREM ItoaAlwaysRight == ItoaIsRight
<1>1. ASSUME NEW v \in Ints
      PROVE  /\ itoa(v, 10) = NumberText(v, 10) /\ itoa(v, 16) = NumberText(v, 16)
             /\ \A base \in {10, 16} : itoa(v, base) \in Seq(ToSet(itoa(v, base)))
             /\ Len(itoa(v, 10)) < DecimalRoom /\ Len(itoa(v, 16)) < HexRoom
  <2>1. 10 \in {10, 16} /\ 16 \in {10, 16} /\ 16 # 10
    OBVIOUS
  <2>2. \A base \in {10, 16} : itoa(v, base) \in Seq(ToSet(itoa(v, base)))
    BY EveryIntIsWritten, TextOfItsOwn
  <2>3. itoa(v, 10) = NumberText(v, 10) /\ Len(itoa(v, 10)) < DecimalRoom
    BY <2>1, EveryIntIsWritten
  <2>4. itoa(v, 16) = NumberText(v, 16) /\ Len(itoa(v, 16)) < HexRoom
    BY <2>1, EveryIntIsWritten
  <2> QED BY <2>2, <2>3, <2>4
<1> QED BY <1>1 DEF ItoaIsRight

-----------------------------------------------------------------------------
(* What is meant by the pieces.                                             *)

\* Numbers are written as they are meant.
LEMMA NumberIs ==
  ASSUME NEW v \in Ints
  PROVE  /\ IsText(NumberText(v, 10)) /\ IsText(NumberText(v, 16))
         /\ itoa(v, 10) = NumberText(v, 10) /\ itoa(v, 16) = NumberText(v, 16)
         /\ Len(NumberText(v, 10)) < DecimalRoom /\ Len(NumberText(v, 16)) < HexRoom
         /\ Whole(NumberText(v, 10)) /\ Whole(NumberText(v, 16))
<1>1. /\ itoa(v, 10) = NumberText(v, 10) /\ itoa(v, 16) = NumberText(v, 16)
      /\ Len(itoa(v, 10)) < DecimalRoom /\ Len(itoa(v, 16)) < HexRoom
  BY ItoaAlwaysRight DEF ItoaIsRight
<1>2. \A base \in {10, 16} : IsText(itoa(v, base)) /\ Whole(itoa(v, base))
  BY EveryIntIsWritten
<1>3. /\ IsText(itoa(v, 10)) /\ Whole(itoa(v, 10)) /\ IsText(itoa(v, 16)) /\ Whole(itoa(v, 16))
  <2>1. 10 \in {10, 16} /\ 16 \in {10, 16}
    OBVIOUS
  <2> QED BY <1>2, <2>1
<1> QED BY <1>1, <1>3

\* What a piece means has no NUL.
LEMMA MeaningIsWhole ==
  ASSUME NEW q, PlainPiece(q) \/ NumberPiece(q) \/ CharPiece(q) \/ UnknownPiece(q)
  PROVE  Whole(MeantBy(q))
<1>1. CASE PlainPiece(q)
  <2> PICK c : c = q[1] /\ q = <<c>> /\ c # NUL
    BY <1>1 DEF PlainPiece
  <2>1. Whole(<<c>>)
    BY OneIsWhole
  <2> QED BY <1>1, <2>1, PlainIs
<1>2. CASE NumberPiece(q)
  BY <1>2, PairIs, NumberIs DEF NumberPiece
<1>3. CASE CharPiece(q)
  <2> PICK c : c = q[2] /\ c # NUL
    BY <1>3 DEF CharPiece
  <2>1. Whole(<<c>>) /\ MeantBy(q) = <<c>>
    BY <1>3, OneIsWhole, PairIs DEF CharPiece
  <2> QED BY <2>1
<1>4. CASE UnknownPiece(q)
  <2>1. MeantBy(q) = <<>>
    BY <1>4, PairIs DEF UnknownPiece
  <2> QED BY <2>1, NothingIsWhole
<1> QED BY <1>1, <1>2, <1>3, <1>4

\* What the pieces make of format, arguments and text are texts.
LEMMA PartsAreTexts ==
  ASSUME NEW P, WellFormed(P)
  PROVE  /\ IsText(Formats(P)) /\ Len(Formats(P)) = Len(P)
         /\ IsText(Arguments(P)) /\ Len(Arguments(P)) = Len(P)
         /\ IsText(Meanings(P)) /\ Len(Meanings(P)) = Len(P)
         /\ \A k \in 1 .. Len(P) :
              /\ Formats(P)[k] = FormatOf(P[k]) /\ Arguments(P)[k] = ArgsOf(P[k])
              /\ Meanings(P)[k] = MeantBy(P[k])
              /\ IsText(Formats(P)[k]) /\ IsText(Arguments(P)[k]) /\ IsText(Meanings(P)[k])
              /\ Len(Formats(P)[k]) \in {1, 2}
<1>1. IsText(P) /\ DOMAIN P = 1 .. Len(P) /\ Len(P) \in Nat
  BY PieceKinds, TextFacts
<1> PICK n \in Nat : n = Len(P)
  BY <1>1
<1>2. \A k \in 1 .. n : /\ Formats(P)[k] = FormatOf(P[k]) /\ Arguments(P)[k] = ArgsOf(P[k])
                        /\ Meanings(P)[k] = MeantBy(P[k])
  BY <1>1 DEF Formats, Arguments, Meanings
<1>3. /\ Formats(P) = [k \in 1 .. n |-> Formats(P)[k]]
      /\ Arguments(P) = [k \in 1 .. n |-> Arguments(P)[k]]
      /\ Meanings(P) = [k \in 1 .. n |-> Meanings(P)[k]]
  BY <1>1 DEF Formats, Arguments, Meanings
<1>4. /\ IsText(Formats(P)) /\ Len(Formats(P)) = n
      /\ IsText(Arguments(P)) /\ Len(Arguments(P)) = n
      /\ IsText(Meanings(P)) /\ Len(Meanings(P)) = n
  BY <1>3, TextOf
<1>5. ASSUME NEW k \in 1 .. n
      PROVE  /\ IsText(FormatOf(P[k])) /\ IsText(ArgsOf(P[k])) /\ IsText(MeantBy(P[k]))
             /\ Len(FormatOf(P[k])) \in {1, 2}
  <2> DEFINE q == P[k]
  <2>1. PlainPiece(q) \/ NumberPiece(q) \/ CharPiece(q) \/ UnknownPiece(q)
    BY PieceKinds
  <2> HIDE DEF q
  <2>2. CASE PlainPiece(q)
    BY <2>2, PlainIs, NothingIsText DEF q
  <2>3. CASE NumberPiece(q)
    BY <2>3, PairIs, NumberIs DEF q, NumberPiece
  <2>4. CASE CharPiece(q)
    BY <2>4, PairIs, OneIsText DEF q, CharPiece
  <2>5. CASE UnknownPiece(q)
    BY <2>5, PairIs, NothingIsText DEF q, UnknownPiece
  <2> QED BY <2>1, <2>2, <2>3, <2>4, <2>5
<1> QED BY <1>2, <1>4, <1>5

-----------------------------------------------------------------------------
(* What a call of printf has said so far.                                  *)

\* Call p of printf has gone through the first k pieces of P.
Says(p, P, k, F, A, T) ==
  /\ WellFormed(P) /\ k \in 0 .. Len(P)
  /\ FlatBy(F, Formats(P)) /\ FlatBy(A, Arguments(P)) /\ FlatBy(T, Meanings(P))
  /\ p = [format |-> F[Len(P)], args |-> p.args, text |-> T[Len(P)],
          i |-> p.i, buf |-> p.buf, sent |-> p.sent]
  /\ p.i = Len(F[k]) + 1
  /\ k < Len(P) => IsText(p.args) /\ A[k] \o p.args = A[Len(P)]
  /\ IsText(p.buf) /\ IsText(p.sent) /\ p.sent \o p.buf = T[k]

\* The buffer has room for the NUL, and none in it yet.
RoomLeft(p) == Len(p.buf) < PRINTF_BUF_LEN /\ Whole(p.buf)

SaysSoFar(p) == \E P, k, F, A, T : Says(p, P, k, F, A, T) /\ RoomLeft(p)

\* A call that has gone through nothing.
LEMMA CallBegins ==
  ASSUME NEW P, WellFormed(P)
  PROVE  SaysSoFar(Call(P))
<1> DEFINE N == Len(P)
           p == Call(P)
<1>1. /\ IsText(Formats(P)) /\ Len(Formats(P)) = N
      /\ IsText(Arguments(P)) /\ Len(Arguments(P)) = N
      /\ IsText(Meanings(P)) /\ Len(Meanings(P)) = N
      /\ \A k \in 1 .. N : IsText(Formats(P)[k]) /\ IsText(Arguments(P)[k]) /\ IsText(Meanings(P)[k])
  BY PartsAreTexts
<1>2. PICK F : FlatBy(F, Formats(P))
  BY <1>1, FlatIs
<1>3. PICK A : FlatBy(A, Arguments(P))
  BY <1>1, FlatIs
<1>4. PICK T : FlatBy(T, Meanings(P))
  BY <1>1, FlatIs
<1>5. p = [format |-> F[N], args |-> A[N], text |-> T[N], i |-> 1, buf |-> <<>>, sent |-> <<>>]
  BY <1>1, <1>2, <1>3, <1>4 DEF Call, Formats, Arguments, Meanings, FlatBy
<1>6. N \in Nat /\ 0 \in 0 .. N /\ N \in 0 .. N
  BY PieceKinds, TextFacts
<1>7. F[0] = <<>> /\ A[0] = <<>> /\ T[0] = <<>> /\ IsText(A[N]) /\ Len(<<>>) + 1 = 1
  BY <1>1, <1>2, <1>3, <1>4, <1>6 DEF FlatBy
<1>8. A[0] \o A[N] = A[N] /\ <<>> \o <<>> = <<>> /\ IsText(<<>>) /\ Len(<<>>) = 0
  BY <1>7, JoinedEmpty, NothingIsText
<1> HIDE DEF p, N
<1>9. p.args = A[N] /\ p.i = 1 /\ p.buf = <<>> /\ p.sent = <<>>
  BY <1>5
<1>10. Says(p, P, 0, F, A, T)
  BY <1>2, <1>3, <1>4, <1>5, <1>6, <1>7, <1>8, <1>9 DEF Says, N
<1>11. RoomLeft(p)
  BY <1>8, <1>9, NothingIsWhole, PrintfAssumption DEF RoomLeft
<1> QED BY <1>10, <1>11 DEF SaysSoFar, p

\* A flush moves what is in the buffer to what has been sent.
LEMMA FlushedSays ==
  ASSUME NEW p, NEW P, NEW k, NEW F, NEW A, NEW T, Says(p, P, k, F, A, T), Whole(p.buf)
  PROVE  Says(Flushed(p), P, k, F, A, T) /\ Flushed(p).buf = <<>>
<1> PICK f, a, t, i, b, s : f = p.format /\ a = p.args /\ t = p.text /\ i = p.i /\ b = p.buf /\ s = p.sent
  OBVIOUS
<1>2. p = [format |-> f, args |-> a, text |-> t, i |-> i, buf |-> b, sent |-> s]
      /\ f = F[Len(P)] /\ t = T[Len(P)]
  BY DEF Says
<1>3. PICK u, e : u = s \o b /\ e = <<>>
  OBVIOUS
<1>9. Flushed(p) = [format |-> f, args |-> a, text |-> t, i |-> i, buf |-> e, sent |-> u]
  <2>1. [[format |-> f, args |-> a, text |-> t, i |-> i, buf |-> b, sent |-> s] EXCEPT !.sent = u]
          = [format |-> f, args |-> a, text |-> t, i |-> i, buf |-> b, sent |-> u]
    OBVIOUS
  <2>2. [[format |-> f, args |-> a, text |-> t, i |-> i, buf |-> b, sent |-> u] EXCEPT !.buf = e]
          = [format |-> f, args |-> a, text |-> t, i |-> i, buf |-> e, sent |-> u]
    OBVIOUS
  <2>3. Flushed(p) = [[p EXCEPT !.sent = u] EXCEPT !.buf = e]
    <3>1. UpToNul(p.buf) = b
      BY WholeIsRead DEF Says
    <3> QED BY <1>3, <3>1 DEF Flushed
  <2> QED BY <1>2, <2>1, <2>2, <2>3
<1>4. IsText(s) /\ IsText(b) /\ s \o b = T[k]
  BY DEF Says
<1>5. IsText(s \o b) /\ IsText(<<>>) /\ (s \o b) \o <<>> = T[k]
  <2>1. IsText(s \o b)
    BY <1>4, Joined
  <2> QED BY <1>4, <2>1, JoinedEmpty, NothingIsText
<1>6. PICK r : r = Flushed(p)
  OBVIOUS
<1>7. /\ r = [format |-> r.format, args |-> r.args, text |-> r.text, i |-> r.i, buf |-> r.buf, sent |-> r.sent]
      /\ r.format = f /\ r.args = a /\ r.text = t /\ r.i = i /\ r.buf = e /\ r.sent = u
  BY <1>6, <1>9
<1>8. Says(r, P, k, F, A, T)
  BY <1>2, <1>3, <1>5, <1>7 DEF Says
<1> QED BY <1>3, <1>6, <1>7, <1>8

\* An empty buffer has room for a character and the NUL.
LEMMA FlushedHasRoom ==
  ASSUME NEW p, p.buf = <<>>
  PROVE  RoomLeft(p)
<1>1. Len(p.buf) = 0 /\ Whole(p.buf)
  BY NothingIsText, NothingIsWhole
<1> QED BY <1>1, PrintfAssumption DEF RoomLeft

\* The end of the format is the end of the pieces.
LEMMA EndIs ==
  ASSUME NEW p, NEW P, NEW k, NEW F, NEW A, NEW T, Says(p, P, k, F, A, T)
  PROVE  /\ AtEnd(p) <=> k = Len(P)
         /\ k # Len(P) =>
              /\ k < Len(P) /\ k + 1 \in 1 .. Len(P)
              /\ p.format[p.i] = FormatOf(P[k + 1])[1]
              /\ Len(FormatOf(P[k + 1])) = 2 => p.format[p.i + 1] = FormatOf(P[k + 1])[2]
<1> DEFINE N == Len(P)
<1>1. N \in Nat /\ k \in 0 .. N
  BY PieceKinds, TextFacts DEF Says
<1>2. p.format = F[N] /\ p.i = Len(F[k]) + 1
  BY DEF Says
<1>3. FlatBy(F, Formats(P)) /\ WellFormed(P)
  BY DEF Says
<1>4. IsText(Formats(P)) /\ Len(Formats(P)) = N
      /\ \A j \in 1 .. N : IsText(Formats(P)[j]) /\ Formats(P)[j] = FormatOf(P[j]) /\ Len(Formats(P)[j]) \in {1, 2}
  BY <1>3, PartsAreTexts
<1>5. \A j \in 0 .. N : IsText(F[j])
  BY <1>3, <1>4 DEF FlatBy
<1>6. CASE k = N
  <2>1. PICK m \in Nat : m = Len(F[N])
    BY <1>1, <1>5, TextFacts
  <2> QED BY <1>2, <1>6, <2>1 DEF AtEnd
<1>7. CASE k # N
  <2>1. k < N /\ k + 1 \in 1 .. N
    BY <1>1, <1>7
  <2>2. /\ IsText(F[k]) /\ Len(F[k + 1]) = Len(F[k]) + Len(Formats(P)[k + 1]) /\ Len(F[k + 1]) <= Len(F[N])
        /\ \A i \in 1 .. Len(Formats(P)[k + 1]) : F[N][Len(F[k]) + i] = Formats(P)[k + 1][i]
    <3>1. PICK s : s = Formats(P)
      OBVIOUS
    <3>2. IsText(s) /\ FlatBy(F, s) /\ (\A j \in 1 .. Len(s) : IsText(s[j])) /\ k \in 0 .. Len(s) /\ k < Len(s)
      BY <1>1, <1>3, <1>4, <2>1, <3>1
    <3>3. PartIs(s, F, k)
      BY <3>2, PartAt
    <3> QED BY <1>4, <3>1, <3>3 DEF PartIs
  <2>3. PICK m \in Nat, l \in Nat, n \in Nat :
          (l = 1 \/ l = 2) /\ m = Len(F[k]) /\ l = Len(FormatOf(P[k + 1])) /\ n = Len(F[N])
    <3>1. Len(F[k]) \in Nat /\ Len(F[N]) \in Nat
      BY <1>1, <1>5, TextFacts
    <3>2. Len(FormatOf(P[k + 1])) \in {1, 2}
      BY <1>4, <2>1
    <3> QED BY <3>1, <3>2
  <2>9. l = 1 \/ l = 2
    BY <2>3
  <2>4. Formats(P)[k + 1] = FormatOf(P[k + 1])
    BY <1>4, <2>1
  <2>5. p.i = m + 1 /\ m + l <= n /\ \A i \in 1 .. l : p.format[m + i] = FormatOf(P[k + 1])[i]
    BY <1>2, <2>2, <2>3, <2>4
  <2>6. ~AtEnd(p)
    <3>1. m + 1 <= n
      BY <2>5, <2>9
    <3> QED BY <1>2, <2>3, <2>5, <3>1 DEF AtEnd
  <2>7. p.format[p.i] = FormatOf(P[k + 1])[1]
    <3>1. 1 \in 1 .. l
      BY <2>9
    <3> QED BY <2>5, <3>1
  <2>8. l = 2 => p.format[p.i + 1] = FormatOf(P[k + 1])[2]
    <3>1. l = 2 => 2 \in 1 .. l /\ m + 2 = (m + 1) + 1
      OBVIOUS
    <3> QED BY <2>5, <3>1
  <2> QED BY <1>7, <2>1, <2>3, <2>6, <2>7, <2>8
<1> QED BY <1>6, <1>7

-----------------------------------------------------------------------------
(* A piece of a call is gone through.                                      *)

\* What is said grows by what is joined to the buffer.
LEMMA JoinedNext ==
  ASSUME NEW s, NEW b, NEW x, IsText(s), IsText(b), IsText(x)
  PROVE  (s \o b) \o x = s \o (b \o x) /\ IsText(b \o x)
<1>1. (s \o b) \o x = s \o (b \o x)
  BY JoinedAssociates
<1>2. IsText(b \o x)
  BY Joined
<1> QED BY <1>1, <1>2

\* A piece is gone through: i is behind it, buf has what it means.
LEMMA Advanced ==
  ASSUME NEW p, NEW P, NEW k, NEW F, NEW A, NEW T, Says(p, P, k, F, A, T), k < Len(P),
         NEW rest, k + 1 < Len(P) => IsText(rest) /\ A[k + 1] \o rest = A[Len(P)],
         NEW r, r.format = p.format, r.args = rest, r.text = p.text,
         r = [format |-> r.format, args |-> r.args, text |-> r.text, i |-> r.i, buf |-> r.buf, sent |-> r.sent],
         r.i = p.i + Len(FormatOf(P[k + 1])), r.buf = p.buf \o MeantBy(P[k + 1]), r.sent = p.sent
  PROVE  Says(r, P, k + 1, F, A, T)
<1> DEFINE N == Len(P)
<1>1. /\ N \in Nat /\ k \in 0 .. N /\ k + 1 \in 1 .. N /\ k + 1 \in 0 .. N
  BY PieceKinds, TextFacts DEF Says
<1>2. FlatBy(F, Formats(P)) /\ FlatBy(T, Meanings(P)) /\ WellFormed(P)
  BY DEF Says
<1>3. /\ IsText(Formats(P)) /\ Len(Formats(P)) = N /\ IsText(Meanings(P)) /\ Len(Meanings(P)) = N
      /\ \A j \in 1 .. N : /\ IsText(Formats(P)[j]) /\ Formats(P)[j] = FormatOf(P[j])
                           /\ IsText(Meanings(P)[j]) /\ Meanings(P)[j] = MeantBy(P[j])
                           /\ Len(Formats(P)[j]) \in {1, 2}
  BY <1>2, PartsAreTexts
<1>4. PartIs(Formats(P), F, k) /\ PartIs(Meanings(P), T, k)
  <2>1. ASSUME NEW s, NEW f, IsText(s), FlatBy(f, s), Len(s) = N, \A j \in 1 .. N : IsText(s[j])
        PROVE  PartIs(s, f, k)
    <3>1. k \in 0 .. Len(s) /\ k < Len(s) /\ \A j \in 1 .. Len(s) : IsText(s[j])
      BY <1>1, <2>1
    <3> HIDE DEF N
    <3> QED BY <2>1, <3>1, PartAt
  <2>2. PartIs(Formats(P), F, k)
    BY <1>2, <1>3, <2>1
  <2>3. PartIs(Meanings(P), T, k)
    BY <1>2, <1>3, <2>1
  <2> QED BY <2>2, <2>3
<1>5. r.i = Len(F[k + 1]) + 1
  <2>1. Len(F[k + 1]) = Len(F[k]) + Len(FormatOf(P[k + 1])) /\ IsText(F[k])
    BY <1>1, <1>3, <1>4 DEF PartIs
  <2>2. PICK m \in Nat, l \in Nat : m = Len(F[k]) /\ l = Len(FormatOf(P[k + 1]))
    <3>1. Len(F[k]) \in Nat
      BY <2>1, TextFacts
    <3>2. Len(FormatOf(P[k + 1])) \in {1, 2}
      BY <1>1, <1>3
    <3> QED BY <3>1, <3>2
  <2>3. p.i = m + 1
    BY <2>2 DEF Says
  <2>4. r.i = (m + 1) + l
    BY <2>2, <2>3
  <2>5. Len(F[k + 1]) = m + l
    BY <2>1, <2>2
  <2> QED BY <2>4, <2>5
<1>6. IsText(r.buf) /\ r.sent \o r.buf = T[k + 1]
  <2>1. PICK x, b, s : x = MeantBy(P[k + 1]) /\ b = p.buf /\ s = p.sent
    OBVIOUS
  <2>2. IsText(b) /\ IsText(s)
    BY <2>1 DEF Says
  <2>3. IsText(x)
    BY <1>1, <1>3, <2>1
  <2>4. s \o b = T[k] /\ T[k + 1] = T[k] \o x
    BY <1>1, <1>3, <1>4, <2>1 DEF PartIs, Says
  <2>5. (s \o b) \o x = s \o (b \o x) /\ IsText(b \o x)
    BY <2>2, <2>3, JoinedNext
  <2> QED BY <2>1, <2>4, <2>5
<1>7. r.format = F[N] /\ r.text = T[N] /\ IsText(r.sent)
  BY DEF Says
<1> QED BY <1>1, <1>2, <1>5, <1>6, <1>7 DEF Says

\* What pieces of the two kinds take of the arguments.
Takes(p, P, k, A) ==
  /\ PlainPiece(P[k + 1]) => A[k + 1] = A[k]
  /\ P[k + 1] = <<P[k + 1][1], P[k + 1][2]>> =>
       /\ Head(p.args) = P[k + 1][2]
       /\ IsText(Tail(p.args)) /\ A[k + 1] \o Tail(p.args) = A[Len(P)]

\* The argument of a pair is the first that is left.
LEMMA ArgumentIs ==
  ASSUME NEW p, NEW P, NEW k, NEW F, NEW A, NEW T, Says(p, P, k, F, A, T), k < Len(P)
  PROVE  Takes(p, P, k, A)
<1> DEFINE N == Len(P)
<1>1. /\ N \in Nat /\ k \in 0 .. N /\ k + 1 \in 1 .. N /\ k + 1 \in 0 .. N
  BY PieceKinds, TextFacts DEF Says
<1>2. FlatBy(A, Arguments(P)) /\ WellFormed(P)
  BY DEF Says
<1>3. /\ IsText(Arguments(P)) /\ Len(Arguments(P)) = N
      /\ \A j \in 1 .. N : IsText(Arguments(P)[j]) /\ Arguments(P)[j] = ArgsOf(P[j])
  BY <1>2, PartsAreTexts
<1>4. PICK s : s = Arguments(P)
  OBVIOUS
<1>5. PartIs(s, A, k)
  <2>1. k \in 0 .. Len(s) /\ k < Len(s) /\ (\A j \in 1 .. Len(s) : IsText(s[j])) /\ IsText(s) /\ FlatBy(A, s)
    BY <1>1, <1>2, <1>3, <1>4
  <2> QED BY <2>1, PartAt
<1>6. PICK x, y, g, w, a : /\ x = A[k] /\ y = ArgsOf(P[k + 1]) /\ g = A[k + 1] /\ w = A[N] /\ a = p.args
  OBVIOUS
<1>7. g = x \o y /\ IsText(x) /\ IsText(y)
  BY <1>1, <1>3, <1>4, <1>5, <1>6 DEF PartIs
<1>8. CASE PlainPiece(P[k + 1])
  <2>1. y = <<>> /\ ~ (P[k + 1] = <<P[k + 1][1], P[k + 1][2]>>)
    BY <1>6, <1>8, PlainIs, PairIs
  <2> QED BY <1>6, <1>7, <2>1, JoinedEmpty DEF Takes
<1>9. CASE P[k + 1] = <<P[k + 1][1], P[k + 1][2]>>
  <2> DEFINE v == P[k + 1][2]
  <2>1. y = <<v>> /\ IsText(<<v>>)
    BY <1>6, <1>9, PairIs, OneIsText
  <2>2. ~PlainPiece(P[k + 1])
    BY <1>9, PlainIs, PairIs
  <2>3. PICK z : IsText(z) /\ w = g \o z
    <3>1. \A j \in 0 .. Len(s) : \E z : IsText(z) /\ A[Len(s)] = A[j] \o z
      <4>1. (\A j \in 1 .. Len(s) : IsText(s[j])) /\ IsText(s) /\ FlatBy(A, s)
        BY <1>2, <1>3, <1>4
      <4> QED BY <4>1, FlatBegins
    <3> QED BY <1>1, <1>3, <1>4, <1>6, <3>1
  <2>4. IsText(a) /\ x \o a = w
    BY <1>6 DEF Says
  <2> HIDE DEF v
  <2>5. (x \o y) \o z = x \o (y \o z) /\ IsText(y \o z)
    BY <1>7, <2>3, JoinedAssociates, Joined
  <2>6. x \o a = x \o (y \o z)
    BY <1>7, <2>3, <2>4, <2>5
  <2>7. a = y \o z
    BY <1>7, <2>4, <2>5, <2>6, CancelLeft
  <2>8. /\ Len(a) = Len(y) + Len(z) /\ \A i \in 1 .. Len(y) : a[i] = y[i]
    BY <1>7, <2>3, <2>7, Joined
  <2>9. Len(y) = 1 /\ y[1] = v
    BY <2>1
  <2>10. a # <<>>
    <3>1. Len(z) \in Nat
      BY <2>3, TextFacts
    <3> QED BY <2>8, <2>9, <3>1, NothingIsText
  <2>11. Head(a) = v
    <3>1. PICK S : a \in Seq(S)
      BY <2>4 DEF IsText
    <3>2. Head(a) = a[1]
      BY <2>10, <3>1
    <3>3. 1 \in 1 .. Len(y)
      BY <2>9
    <3> QED BY <2>8, <2>9, <3>2, <3>3
  <2>12. /\ IsText(Tail(a)) /\ (x \o <<Head(a)>>) \o Tail(a) = x \o a
    BY <1>7, <2>4, <2>10, HeadMoves
  <2>13. g \o Tail(a) = w
    BY <1>7, <2>1, <2>4, <2>11, <2>12
  <2> QED BY <1>6, <2>2, <2>11, <2>12, <2>13 DEF v, Takes
<1> QED BY <1>8, <1>9 DEF Takes

\* Records of a call, field by field.
IsCall(r) ==
  r = [format |-> r.format, args |-> r.args, text |-> r.text, i |-> r.i, buf |-> r.buf, sent |-> r.sent]

CallOf(f, a, t, i, b, s) == [format |-> f, args |-> a, text |-> t, i |-> i, buf |-> b, sent |-> s]

WithBuf(p, x) == [p EXCEPT !.buf = x]
WithI(p, x) == [p EXCEPT !.i = x]
WithArgs(p, x) == [p EXCEPT !.args = x]

\* Writes to the fields of a call.
LEMMA FieldsOf ==
  ASSUME NEW f, NEW a, NEW t, NEW i, NEW b, NEW s, NEW p, p = CallOf(f, a, t, i, b, s)
  PROVE  /\ IsCall(p) /\ p.format = f /\ p.args = a /\ p.text = t /\ p.i = i /\ p.buf = b /\ p.sent = s
         /\ \A x : /\ WithBuf(p, x) = CallOf(f, a, t, i, x, s)
                  /\ WithI(p, x) = CallOf(f, a, t, x, b, s)
                  /\ WithArgs(p, x) = CallOf(f, x, t, i, b, s)
BY DEF IsCall, CallOf, WithBuf, WithI, WithArgs

IsConsumed(r, p, a, n, b) ==
  IsCall(r) /\ r.format = p.format /\ r.args = a /\ r.text = p.text /\ r.i = n /\ r.buf = b /\ r.sent = p.sent

\* Consumed writes three of them.
LEMMA ConsumedIs ==
  ASSUME NEW p, IsCall(p), NEW a, NEW n, NEW b,
         a = IF Specified(p) /\ RoomFor(p) > 0 THEN Tail(p.args) ELSE p.args,
         n = p.i + IF Specified(p) THEN 2 ELSE 1,
         b = IF Specified(p) THEN p.buf \o Converted(p) ELSE Append(p.buf, p.format[p.i])
  PROVE  IsConsumed(Consumed(p), p, a, n, b)
<1> DEFINE q == WithBuf(p, b)
           r == WithI(q, n)
           o == WithArgs(r, a)
<1>1. PICK f, g, t, i, c, s : p = CallOf(f, g, t, i, c, s)
  BY Zenon DEF IsCall, CallOf
<1>2. /\ p.format = f /\ p.args = g /\ p.text = t /\ p.i = i /\ p.buf = c /\ p.sent = s
      /\ q = CallOf(f, g, t, i, b, s)
  BY <1>1, FieldsOf
<1> HIDE DEF q
<1>3. q.i = i /\ r = CallOf(f, g, t, n, b, s)
  BY <1>2, FieldsOf
<1> HIDE DEF r
<1>4. r.args = g /\ o = CallOf(f, a, t, n, b, s)
  BY <1>3, FieldsOf
<1> HIDE DEF o
<1>5. IsCall(o) /\ o.format = f /\ o.args = a /\ o.text = t /\ o.i = n /\ o.buf = b /\ o.sent = s
  BY <1>4, FieldsOf
<1>6. CASE Specified(p)
  <2>1. b = p.buf \o Converted(p) /\ n = q.i + 2 /\ a = IF RoomFor(p) > 0 THEN Tail(r.args) ELSE r.args
    BY <1>2, <1>3, <1>4, <1>6
  <2>2. Consumed(p) = o
    BY <1>6, <2>1 DEF Consumed, o, r, q, WithBuf, WithI, WithArgs
  <2> QED BY <1>2, <1>5, <2>2 DEF IsConsumed
<1>7. CASE ~Specified(p)
  <2>1. b = Append(p.buf, p.format[p.i]) /\ n = q.i + 1 /\ a = g
    BY <1>2, <1>3, <1>7
  <2>2. o = r
    BY <1>3, <1>4, <2>1
  <2>3. Consumed(p) = r
    BY <1>7, <2>1 DEF Consumed, r, q, WithBuf, WithI
  <2> QED BY <1>2, <1>5, <2>2, <2>3 DEF IsConsumed
<1> QED BY <1>6, <1>7

\* What a step of printf makes of a call, but for the flush behind it.
LEMMA ConsumedSays ==
  ASSUME NEW p, NEW P, NEW k, NEW F, NEW A, NEW T, Says(p, P, k, F, A, T), RoomLeft(p),
         ~AtEnd(p), ~FlushesFirst(p), ~Overrun(p)
  PROVE  k < Len(P) /\ Says(Consumed(p), P, k + 1, F, A, T) /\ RoomLeft(Consumed(p))
<1> DEFINE N == Len(P)
           q == P[k + 1]
           r == Consumed(p)
<1>1. /\ k < N /\ k + 1 \in 1 .. N /\ p.format[p.i] = FormatOf(q)[1]
      /\ Len(FormatOf(q)) = 2 => p.format[p.i + 1] = FormatOf(q)[2]
  BY EndIs
<1>0. Takes(p, P, k, A)
  BY <1>1, ArgumentIs
<1>2. N \in Nat /\ k \in 0 .. N /\ WellFormed(P) /\ IsCall(p)
  BY PieceKinds, TextFacts DEF Says, IsCall
<1>3. PlainPiece(q) \/ NumberPiece(q) \/ CharPiece(q) \/ (UnknownPiece(q) /\ k + 1 = N)
  BY <1>1, <1>2, PieceKinds
<1>4. /\ IsText(p.buf) /\ Len(p.buf) \in Nat /\ IsText(p.sent)
      /\ Len(p.buf) < PRINTF_BUF_LEN /\ Whole(p.buf)
  BY <1>1, TextFacts DEF Says, RoomLeft
<1>5. ASSUME q = <<q[1], q[2]>>
      PROVE  /\ Specified(p) /\ Specifier(p) = q[1] /\ ~FlushesAfter(p) /\ Room(p) >= RoomFor(p)
             /\ Len(FormatOf(q)) = 2
  <2>1. FormatOf(q)[1] = "%" /\ FormatOf(q)[2] = q[1] /\ Len(FormatOf(q)) = 2
    BY <1>5, PairIs
  <2>2. Specified(p) /\ Specifier(p) = q[1]
    BY <1>1, <2>1 DEF Specified, Specifier
  <2>3. Room(p) \in Int /\ RoomFor(p) \in Nat
    BY <1>4, PrintfAssumption DEF Room, RoomFor
  <2>4. ~ (Room(p) < RoomFor(p))
    BY <2>2 DEF FlushesFirst
  <2> QED BY <2>1, <2>2, <2>3, <2>4 DEF FlushesAfter
<1>6. PICK a, n, b :
        /\ a = IF Specified(p) /\ RoomFor(p) > 0 THEN Tail(p.args) ELSE p.args
        /\ n = p.i + IF Specified(p) THEN 2 ELSE 1
        /\ b = IF Specified(p) THEN p.buf \o Converted(p) ELSE Append(p.buf, p.format[p.i])
  OBVIOUS
<1>7. IsCall(r) /\ r.format = p.format /\ r.args = a /\ r.text = p.text /\ r.i = n /\ r.buf = b /\ r.sent = p.sent
  <2>1. IsConsumed(Consumed(p), p, a, n, b)
    BY <1>2, <1>6, ConsumedIs
  <2> QED BY <2>1 DEF IsConsumed
<1> HIDE DEF r
<1>8. ASSUME k + 1 < N => IsText(a) /\ A[k + 1] \o a = A[N], n = p.i + Len(FormatOf(q)), b = p.buf \o MeantBy(q)
      PROVE  Says(r, P, k + 1, F, A, T) /\ Whole(r.buf)
  <2>1. /\ r.format = p.format /\ r.args = a /\ r.text = p.text /\ r.sent = p.sent
        /\ r = [format |-> r.format, args |-> r.args, text |-> r.text, i |-> r.i, buf |-> r.buf, sent |-> r.sent]
        /\ r.i = p.i + Len(FormatOf(q)) /\ r.buf = p.buf \o MeantBy(q)
    BY <1>7, <1>8 DEF IsCall
  <2>2. IsText(MeantBy(q)) /\ Whole(MeantBy(q))
    <3>1. IsText(MeantBy(P[k + 1]))
      BY <1>1, <1>2, PartsAreTexts
    <3> QED BY <1>3, <3>1, MeaningIsWhole
  <2>3. Whole(r.buf)
    BY <1>4, <2>1, <2>2, JoinedIsWhole
  <2> QED BY <1>1, <1>8, <2>1, <2>3, Advanced
<1>9. CASE PlainPiece(q)
  <2>1. FormatOf(q) = q /\ MeantBy(q) = q /\ Len(q) = 1 /\ q = <<q[1]>> /\ q[1] # "%"
    BY <1>9, PlainIs DEF PlainPiece
  <2>2. ~Specified(p) /\ p.format[p.i] = q[1]
    BY <1>1, <2>1 DEF Specified
  <2>3. a = p.args /\ n = p.i + 1 /\ b = Append(p.buf, q[1])
    BY <1>6, <2>2
  <2>4. b = p.buf \o <<q[1]>> /\ Len(b) = Len(p.buf) + 1
    <3>1. Append(p.buf, q[1]) = p.buf \o <<q[1]>>
      BY <1>4, AppendedIsJoined
    <3>2. Len(Append(p.buf, q[1])) = Len(p.buf) + 1
      BY <1>4, Appended
    <3> HIDE DEF q
    <3> QED BY <2>3, <3>1, <3>2
  <2>5. k + 1 < N => IsText(a) /\ A[k + 1] \o a = A[N]
    <3>1. A[k + 1] = A[k]
      BY <1>0, <1>9 DEF Takes
    <3> QED BY <1>1, <2>3, <3>1 DEF Says
  <2>6. Says(r, P, k + 1, F, A, T) /\ Whole(r.buf)
    <3>1. n = p.i + Len(FormatOf(q)) /\ b = p.buf \o MeantBy(q)
      BY <2>1, <2>3, <2>4
    <3> QED BY <1>8, <2>5, <3>1
  <2>7. RoomLeft(r)
    <3> PICK l \in Nat : l = Len(p.buf)
      BY <1>4
    <3>1. l < PRINTF_BUF_LEN /\ l # PRINTF_BUF_LEN - 1
      BY <1>4, <2>2 DEF Overrun
    <3>2. Len(r.buf) = l + 1
      BY <1>7, <2>4
    <3>3. l + 1 < PRINTF_BUF_LEN
      BY <3>1, PrintfAssumption
    <3> QED BY <2>6, <3>2, <3>3 DEF RoomLeft
  <2> QED BY <1>1, <2>6, <2>7 DEF r
<1>10. CASE NumberPiece(q)
  <2>1. q = <<q[1], q[2]>> /\ q[1] \in {"d", "i", "x"} /\ q[2] \in Ints
    BY <1>10 DEF NumberPiece
  <2>2. Specified(p) /\ Specifier(p) = q[1] /\ ~FlushesAfter(p) /\ Room(p) >= RoomFor(p) /\ Len(FormatOf(q)) = 2
    BY <1>5, <2>1
  <2>3. Head(p.args) = q[2] /\ IsText(Tail(p.args)) /\ A[k + 1] \o Tail(p.args) = A[N]
    BY <1>0, <2>1 DEF Takes
  <2>4. Converted(p) = MeantBy(q) /\ IsText(MeantBy(q)) /\ Len(MeantBy(q)) < RoomFor(p)
    <3>1. CASE q[1] \in {"d", "i"}
      BY <2>1, <2>2, <2>3, <3>1, PairIs, NumberIs DEF Converted, RoomFor
    <3>2. CASE q[1] = "x"
      BY <2>1, <2>2, <2>3, <3>2, PairIs, NumberIs DEF Converted, RoomFor
    <3> QED BY <2>1, <3>1, <3>2
  <2>5. RoomFor(p) \in Nat
    BY PrintfAssumption DEF RoomFor
  <2>6. PICK m \in Nat : m = Len(MeantBy(q)) /\ m < RoomFor(p)
    BY <2>4, TextFacts
  <2>7. a = Tail(p.args) /\ n = p.i + 2 /\ b = p.buf \o MeantBy(q)
    <3>1. RoomFor(p) > 0
      BY <2>5, <2>6
    <3> QED BY <1>6, <2>2, <2>4, <3>1
  <2>8. Says(r, P, k + 1, F, A, T) /\ Whole(r.buf)
    BY <1>8, <2>2, <2>3, <2>7
  <2>9. Len(b) = Len(p.buf) + m
    BY <1>4, <2>4, <2>6, <2>7, Joined
  <2>10. RoomLeft(r)
    <3> PICK l \in Nat : l = Len(p.buf)
      BY <1>4
    <3> PICK h \in Nat : h = RoomFor(p)
      BY <2>5
    <3>1. PRINTF_BUF_LEN - l - 1 >= h /\ m < h
      BY <2>2, <2>6 DEF Room
    <3>2. l + m < PRINTF_BUF_LEN
      BY <3>1, PrintfAssumption
    <3>3. Len(r.buf) = l + m
      BY <1>7, <2>9
    <3> QED BY <2>8, <3>2, <3>3 DEF RoomLeft
  <2> QED BY <1>1, <2>8, <2>10 DEF r
<1>11. CASE CharPiece(q)
  <2>1. q = <<q[1], q[2]>> /\ q[1] = "c"
    BY <1>11 DEF CharPiece
  <2>2. Specified(p) /\ Specifier(p) = q[1] /\ Room(p) >= RoomFor(p) /\ Len(FormatOf(q)) = 2
    BY <1>5, <2>1
  <2>3. Head(p.args) = q[2] /\ IsText(Tail(p.args)) /\ A[k + 1] \o Tail(p.args) = A[N]
    BY <1>0, <2>1 DEF Takes
  <2>4. Converted(p) = <<q[2]>> /\ MeantBy(q) = <<q[2]>> /\ RoomFor(p) = 1
    BY <2>1, <2>2, <2>3, PairIs DEF Converted, RoomFor
  <2>5. a = Tail(p.args) /\ n = p.i + 2 /\ b = p.buf \o MeantBy(q)
    BY <1>6, <2>2, <2>4
  <2>6. Says(r, P, k + 1, F, A, T) /\ Whole(r.buf)
    BY <1>8, <2>2, <2>3, <2>5
  <2>7. Len(b) = Len(p.buf) + 1
    BY <1>4, <2>4, <2>5, Joined, OneIsText
  <2>8. RoomLeft(r)
    <3> PICK l \in Nat : l = Len(p.buf)
      BY <1>4
    <3>1. PRINTF_BUF_LEN - l - 1 >= 1
      BY <2>2, <2>4 DEF Room
    <3>2. l + 1 < PRINTF_BUF_LEN
      BY <3>1, PrintfAssumption
    <3>3. Len(r.buf) = l + 1
      BY <1>7, <2>7
    <3> QED BY <2>6, <3>2, <3>3 DEF RoomLeft
  <2> QED BY <1>1, <2>6, <2>8 DEF r
<1>12. CASE UnknownPiece(q) /\ k + 1 = N
  <2>1. q = <<q[1], q[2]>> /\ q[1] \notin {"d", "i", "x", "c"}
    BY <1>12 DEF UnknownPiece
  <2>2. Specified(p) /\ Specifier(p) = q[1] /\ Len(FormatOf(q)) = 2
    BY <1>5, <2>1
  <2>3. Converted(p) = <<>> /\ MeantBy(q) = <<>>
    BY <2>1, <2>2, PairIs DEF Converted
  <2>4. n = p.i + 2 /\ b = p.buf \o MeantBy(q) /\ b = p.buf
    BY <1>4, <1>6, <2>2, <2>3, JoinedEmpty
  <2>5. ~ (k + 1 < N)
    BY <1>2, <1>12
  <2>6. Says(r, P, k + 1, F, A, T) /\ Whole(r.buf)
    BY <1>8, <2>2, <2>4, <2>5
  <2>7. RoomLeft(r)
    BY <1>4, <1>7, <2>4 DEF RoomLeft
  <2> QED BY <1>1, <2>6, <2>7 DEF r
<1> QED BY <1>3, <1>9, <1>10, <1>11, <1>12

\* What the step puts into the thread's call, and what it prints.
NextOf(p) == IF FlushesFirst(p) THEN p ELSE Consumed(p)
Flushes(p) == FlushesFirst(p) \/ FlushesAfter(p)

\* What a call is to say stays what it is.
LEMMA MeaningStays ==
  ASSUME NEW p, NEW P, NEW k, NEW F, NEW A, NEW T, Says(p, P, k, F, A, T)
  PROVE  p.text = T[Len(P)]
<1> PICK f, a, t, i, b, s : f = F[Len(P)] /\ a = p.args /\ t = T[Len(P)] /\ i = p.i /\ b = p.buf /\ s = p.sent
  OBVIOUS
<1>1. p = [format |-> f, args |-> a, text |-> t, i |-> i, buf |-> b, sent |-> s]
  BY DEF Says
<1> QED BY <1>1

\* A step of printf, with the flush before or behind it.
LEMMA PrintfStep ==
  ASSUME NEW p, SaysSoFar(p), ~AtEnd(p) \/ p.buf # <<>>, ~Overrun(p)
  PROVE  LET n == IF Flushes(p) THEN Flushed(NextOf(p)) ELSE NextOf(p)
         IN  SaysSoFar(n) /\ n.text = p.text /\ IsText(NextOf(p).buf)
<1>1. PICK P, k, F, A, T : Says(p, P, k, F, A, T) /\ RoomLeft(p)
  BY DEF SaysSoFar
<1>2. ASSUME NEW q, NEW j, Says(q, P, j, F, A, T), RoomLeft(q)
      PROVE  SaysSoFar(Flushed(q)) /\ Flushed(q).text = p.text /\ q.text = p.text /\ IsText(q.buf)
  <2>1. Says(Flushed(q), P, j, F, A, T) /\ Flushed(q).buf = <<>>
    BY <1>2, FlushedSays DEF RoomLeft
  <2>2. RoomLeft(Flushed(q))
    BY <2>1, FlushedHasRoom
  <2>3. IsText(q.buf)
    BY <1>2 DEF Says
  <2>4. p.text = T[Len(P)] /\ q.text = T[Len(P)] /\ Flushed(q).text = T[Len(P)]
    BY <1>1, <1>2, <2>1, MeaningStays
  <2> QED BY <2>1, <2>2, <2>3, <2>4 DEF SaysSoFar
<1>3. CASE FlushesFirst(p)
  BY <1>1, <1>2, <1>3 DEF NextOf, Flushes
<1>4. CASE ~FlushesFirst(p)
  <2>1. ~AtEnd(p)
    BY <1>4 DEF FlushesFirst
  <2>2. Says(Consumed(p), P, k + 1, F, A, T) /\ RoomLeft(Consumed(p))
    BY <1>1, <1>4, <2>1, ConsumedSays
  <2>3. NextOf(p) = Consumed(p) /\ (Flushes(p) <=> FlushesAfter(p))
    BY <1>4 DEF NextOf, Flushes
  <2>4. /\ SaysSoFar(Flushed(Consumed(p))) /\ IsText(Consumed(p).buf)
        /\ Flushed(Consumed(p)).text = p.text /\ Consumed(p).text = p.text
    BY <1>2, <2>2
  <2>5. SaysSoFar(Consumed(p))
    BY <2>2 DEF SaysSoFar
  <2> QED BY <2>3, <2>4, <2>5
<1> QED BY <1>3, <1>4

\* What has been said so far is what SaysAll wants.
LEMMA SoFarSaysAll ==
  ASSUME NEW p, SaysSoFar(p)
  PROVE  SaysAll(p)
<1>1. PICK P, k, F, A, T : Says(p, P, k, F, A, T) /\ RoomLeft(p)
  BY DEF SaysSoFar
<1> DEFINE N == Len(P)
<1>2. N \in Nat /\ k \in 0 .. N /\ FlatBy(T, Meanings(P)) /\ WellFormed(P)
  BY <1>1, PieceKinds, TextFacts DEF Says
<1>3. /\ IsText(Meanings(P)) /\ Len(Meanings(P)) = N
      /\ \A j \in 1 .. N : IsText(Meanings(P)[j])
  BY <1>2, PartsAreTexts
<1>4. p.text = T[N] /\ p.sent \o p.buf = T[k] /\ Len(p.buf) < PRINTF_BUF_LEN
  BY <1>1 DEF Says, RoomLeft
<1>5. AtEnd(p) <=> k = N
  BY <1>1, EndIs
<1>6. PICK s : s = Meanings(P)
  OBVIOUS
<1>7. PICK rest : IsText(rest) /\ T[N] = T[k] \o rest
  <2>1. IsText(s) /\ FlatBy(T, s) /\ (\A j \in 1 .. Len(s) : IsText(s[j]))
    BY <1>2, <1>3, <1>6
  <2>2. \A j \in 0 .. Len(s) : \E rest : IsText(rest) /\ T[Len(s)] = T[j] \o rest
    BY <2>1, FlatBegins
  <2> QED BY <1>2, <1>3, <1>6, <2>2
<1>8. PICK x, w : x = T[k] /\ w = T[N]
  OBVIOUS
<1>9. IsText(x) /\ IsText(w) /\ w = x \o rest
  <2>1. \A j \in 0 .. N : IsText(T[j])
    BY <1>2, <1>3 DEF FlatBy
  <2>2. N \in 0 .. N
    BY <1>2
  <2> QED BY <1>2, <1>7, <1>8, <2>1, <2>2
<1>10. IsPrefix(x, w)
  <2>1. PICK m \in Nat, n \in Nat : m = Len(x) /\ n = Len(rest)
    BY <1>7, <1>9, TextFacts
  <2>2. Len(w) = m + n /\ \A i \in 1 .. m : w[i] = x[i]
    BY <1>7, <1>9, <2>1, Joined
  <2>3. PICK S : x \in Seq(S)
    BY <1>9 DEF IsText
  <2>4. \A i \in 1 .. m : x[i] \in S /\ w[i] \in S
    <3>1. \A i \in 1 .. m : x[i] \in S
      BY <2>1, <2>3, ElementOfSeq
    <3> QED BY <2>2, <3>1
  <2>5. SubSeq(w, 1, m) = x
    <3>1. /\ SubSeq(w, 1, m) \in Seq(S)
          /\ Len(SubSeq(w, 1, m)) = IF 1 <= m THEN m - 1 + 1 ELSE 0
          /\ \A i \in 1 .. m - 1 + 1 : SubSeq(w, 1, m)[i] = w[1 + i - 1]
      BY <2>4, SubSeqProperties
    <3>2. (IF 1 <= m THEN m - 1 + 1 ELSE 0) = m /\ 1 .. m - 1 + 1 = 1 .. m /\ \A i \in 1 .. m : 1 + i - 1 = i
      OBVIOUS
    <3> PICK u : u = SubSeq(w, 1, m)
      OBVIOUS
    <3>3. IsText(u) /\ Len(u) = m /\ \A i \in 1 .. m : u[i] = x[i]
      BY <2>2, <3>1, <3>2 DEF IsText
    <3>4. u = x
      BY <1>9, <2>1, <3>3, SameText
    <3> QED BY <3>4
  <2>6. SubSeq(x, 1, m) = x
    BY <2>1, <2>3, SubSeqFull
  <2>7. m <= m + n
    OBVIOUS
  <2> QED BY <2>1, <2>2, <2>5, <2>6, <2>7 DEF IsPrefix
<1> QED BY <1>4, <1>5, <1>8, <1>10 DEF SaysAll

\* A string of a text is a text.
LEMMA UpToNulIsText ==
  ASSUME NEW s, IsText(s)
  PROVE  IsText(UpToNul(s))
<1>1. CASE NUL \notin ToSet(s)
  BY <1>1 DEF UpToNul
<1>2. CASE NUL \in ToSet(s)
  <2> DEFINE Nuls == {i \in DOMAIN s : s[i] = NUL}
  <2>1. DOMAIN s = 1 .. Len(s) /\ Len(s) \in Nat
    BY TextFacts
  <2>2. Nuls # {} /\ Nuls \in SUBSET Nat
    BY <1>2, <2>1 DEF ToSet
  <2>3. PICK m \in Nuls : m = Min(Nuls)
    <3> HIDE DEF Nuls
    <3> QED BY <2>2, MinIsLeast
  <2>4. m \in 1 .. Len(s)
    BY <2>1
  <2>5. PICK S : s \in Seq(S)
    BY DEF IsText
  <2>6. \A i \in 1 .. m - 1 : s[i] \in S
    <3>1. \A i \in 1 .. m - 1 : i \in 1 .. Len(s)
      BY <2>1, <2>4
    <3> QED BY <2>5, <3>1, ElementOfSeq
  <2>7. SubSeq(s, 1, m - 1) \in Seq(S)
    <3>1. m - 1 \in Int
      BY <2>4
    <3> QED BY <2>6, <3>1, SubSeqProperties
  <2>8. UpToNul(s) = SubSeq(s, 1, m - 1)
    BY <1>2, <2>3 DEF UpToNul
  <2> QED BY <2>7, <2>8 DEF IsText
<1> QED BY <1>1, <1>2

\* What is read of a string has no NUL.
LEMMA UpToNulIsWhole ==
  ASSUME NEW s, IsText(s)
  PROVE  Whole(UpToNul(s))
<1>0. DOMAIN s = 1 .. Len(s) /\ Len(s) \in Nat
  BY TextFacts
<1>1. CASE NUL \notin ToSet(s)
  <2>1. UpToNul(s) = s
    BY <1>1 DEF UpToNul
  <2> QED BY <1>0, <1>1, <2>1 DEF ToSet, Whole
<1>2. CASE NUL \in ToSet(s)
  <2> DEFINE Nuls == {i \in DOMAIN s : s[i] = NUL}
  <2>1. Nuls # {} /\ Nuls \in SUBSET Nat
    BY <1>0, <1>2 DEF ToSet
  <2>2. PICK m \in Nuls : m = Min(Nuls) /\ \A i \in Nuls : m <= i
    <3> HIDE DEF Nuls
    <3> QED BY <2>1, MinIsLeast
  <2>3. m \in 1 .. Len(s)
    BY <1>0
  <2>4. \A i \in 1 .. m - 1 : i \in 1 .. Len(s) /\ s[i] # NUL
    <3>1. ASSUME NEW i \in 1 .. m - 1 PROVE i \in 1 .. Len(s) /\ ~ (m <= i)
      BY <1>0, <2>3
    <3> QED BY <1>0, <2>2, <3>1
  <2>5. PICK S : s \in Seq(S)
    BY DEF IsText
  <2>6. \A i \in 1 .. m - 1 : s[i] \in S
    BY <2>4, <2>5, ElementOfSeq
  <2> PICK u : u = SubSeq(s, 1, m - 1)
    OBVIOUS
  <2>7. Len(u) = m - 1 /\ \A i \in 1 .. m - 1 : u[i] = s[i]
    <3>1. m - 1 \in Int /\ (IF 1 <= m - 1 THEN (m - 1) - 1 + 1 ELSE 0) = m - 1
          /\ 1 .. (m - 1) - 1 + 1 = 1 .. m - 1 /\ \A i \in 1 .. m - 1 : 1 + i - 1 = i
      BY <2>3
    <3>2. /\ Len(SubSeq(s, 1, m - 1)) = IF 1 <= m - 1 THEN (m - 1) - 1 + 1 ELSE 0
          /\ \A i \in 1 .. (m - 1) - 1 + 1 : SubSeq(s, 1, m - 1)[i] = s[1 + i - 1]
      BY <2>6, <3>1, SubSeqProperties
    <3> QED BY <3>1, <3>2
  <2>8. UpToNul(s) = u
    BY <1>2, <2>2 DEF UpToNul
  <2> QED BY <2>4, <2>7, <2>8 DEF Whole
<1> QED BY <1>1, <1>2

-----------------------------------------------------------------------------
(* A thread's record, field by field.                                      *)

ThreadOf(pc, mem, context, s, call, said) ==
  [pc |-> pc, mem |-> mem, context |-> context, s |-> s, call |-> call, said |-> said]

IsThread(th) == th = ThreadOf(th.pc, th.mem, th.context, th.s, th.call, th.said)

\* The fields of a thread.
LEMMA ThreadFields ==
  ASSUME NEW p, NEW m, NEW c, NEW s, NEW l, NEW d, NEW th, th = ThreadOf(p, m, c, s, l, d)
  PROVE  IsThread(th) /\ th.pc = p /\ th.mem = m /\ th.context = c /\ th.s = s /\ th.call = l /\ th.said = d
BY DEF IsThread, ThreadOf

\* What the steps of a thread do to its record.
WithPc(f, t, x) == [f EXCEPT ![t].pc = x]
WithCall(f, t, x) == [f EXCEPT ![t].call = x]
WithMem(f, t, x) == [f EXCEPT ![t].mem = x]
WithContext(f, t, x) == [f EXCEPT ![t].context = x]
WithS(f, t, x) == [f EXCEPT ![t].s = x]
WithSaid(f, t, x) == [f EXCEPT ![t].said = x]

Becomes(g, f, T, t, th) == g = [u \in T |-> IF u = t THEN th ELSE f[u]]

\* Writes to the fields of a thread.
LEMMA ThreadPuts ==
  ASSUME NEW f, NEW g, NEW T, NEW t \in T, NEW p, NEW m, NEW c, NEW s, NEW l, NEW d,
         Becomes(g, f, T, t, ThreadOf(p, m, c, s, l, d))
  PROVE  \A x : /\ Becomes(WithPc(g, t, x), f, T, t, ThreadOf(x, m, c, s, l, d))
                /\ Becomes(WithMem(g, t, x), f, T, t, ThreadOf(p, x, c, s, l, d))
                /\ Becomes(WithContext(g, t, x), f, T, t, ThreadOf(p, m, x, s, l, d))
                /\ Becomes(WithS(g, t, x), f, T, t, ThreadOf(p, m, c, x, l, d))
                /\ Becomes(WithCall(g, t, x), f, T, t, ThreadOf(p, m, c, s, x, d))
                /\ Becomes(WithSaid(g, t, x), f, T, t, ThreadOf(p, m, c, s, l, x))
<1>1. /\ g[t] = ThreadOf(p, m, c, s, l, d) /\ DOMAIN g = T /\ \A u \in T : u # t => g[u] = f[u]
      /\ g = [u \in T |-> g[u]]
  BY DEF Becomes
<1> SUFFICES ASSUME NEW x
             PROVE  /\ Becomes(WithPc(g, t, x), f, T, t, ThreadOf(x, m, c, s, l, d))
                    /\ Becomes(WithMem(g, t, x), f, T, t, ThreadOf(p, x, c, s, l, d))
                    /\ Becomes(WithContext(g, t, x), f, T, t, ThreadOf(p, m, x, s, l, d))
                    /\ Becomes(WithS(g, t, x), f, T, t, ThreadOf(p, m, c, x, l, d))
                    /\ Becomes(WithCall(g, t, x), f, T, t, ThreadOf(p, m, c, s, x, d))
                    /\ Becomes(WithSaid(g, t, x), f, T, t, ThreadOf(p, m, c, s, l, x))
  OBVIOUS
<1> DEFINE o == ThreadOf(p, m, c, s, l, d)
<1>2. /\ [o EXCEPT !.pc = x] = ThreadOf(x, m, c, s, l, d)
      /\ [o EXCEPT !.mem = x] = ThreadOf(p, x, c, s, l, d)
      /\ [o EXCEPT !.context = x] = ThreadOf(p, m, x, s, l, d)
      /\ [o EXCEPT !.s = x] = ThreadOf(p, m, c, x, l, d)
      /\ [o EXCEPT !.call = x] = ThreadOf(p, m, c, s, x, d)
      /\ [o EXCEPT !.said = x] = ThreadOf(p, m, c, s, l, x)
  BY DEF ThreadOf
<1> HIDE DEF o
<1>3. g[t] = o
  BY <1>1 DEF o
<1>4. ASSUME NEW y PROVE Becomes([g EXCEPT ![t] = y], f, T, t, y)
  BY <1>1 DEF Becomes
<1>5. Becomes(WithPc(g, t, x), f, T, t, ThreadOf(x, m, c, s, l, d))
  <2>1. WithPc(g, t, x) = [g EXCEPT ![t] = [o EXCEPT !.pc = x]]
    BY <1>3 DEF WithPc
  <2> QED BY <1>2, <1>4, <2>1
<1>6. Becomes(WithMem(g, t, x), f, T, t, ThreadOf(p, x, c, s, l, d))
  <2>1. WithMem(g, t, x) = [g EXCEPT ![t] = [o EXCEPT !.mem = x]]
    BY <1>3 DEF WithMem
  <2> QED BY <1>2, <1>4, <2>1
<1>7. Becomes(WithContext(g, t, x), f, T, t, ThreadOf(p, m, x, s, l, d))
  <2>1. WithContext(g, t, x) = [g EXCEPT ![t] = [o EXCEPT !.context = x]]
    BY <1>3 DEF WithContext
  <2> QED BY <1>2, <1>4, <2>1
<1>8. Becomes(WithS(g, t, x), f, T, t, ThreadOf(p, m, c, x, l, d))
  <2>1. WithS(g, t, x) = [g EXCEPT ![t] = [o EXCEPT !.s = x]]
    BY <1>3 DEF WithS
  <2> QED BY <1>2, <1>4, <2>1
<1>9. Becomes(WithCall(g, t, x), f, T, t, ThreadOf(p, m, c, s, x, d))
  <2>1. WithCall(g, t, x) = [g EXCEPT ![t] = [o EXCEPT !.call = x]]
    BY <1>3 DEF WithCall
  <2> QED BY <1>2, <1>4, <2>1
<1>10. Becomes(WithSaid(g, t, x), f, T, t, ThreadOf(p, m, c, s, l, x))
  <2>1. WithSaid(g, t, x) = [g EXCEPT ![t] = [o EXCEPT !.said = x]]
    BY <1>3 DEF WithSaid
  <2> QED BY <1>2, <1>4, <2>1
<1> QED BY <1>5, <1>6, <1>7, <1>8, <1>9, <1>10

-----------------------------------------------------------------------------
(* The shell's string, and what the threads pass to printf.                *)

\* The characters of the shell's string, with the NULs strtok puts into it.
Chars == (ToSet(ShellText) \ {"%"}) \cup {NUL}

IsString(m) == m \in Seq(Chars) /\ Len(m) \in Nat \ {0} /\ m[Len(m)] = NUL

\* The string in the shell ends with a NUL.
LEMMA ShellTextIsString == IsString(ShellText)
<1>1. ShellText \in Seq(ToSet(ShellText) \ {"%"}) /\ ShellText # <<>>
  BY ShellTextAssumption
<1>2. ShellText \in Seq(Chars)
  <2>1. ToSet(ShellText) \ {"%"} \subseteq Chars
    BY DEF Chars
  <2> QED BY <1>1, <2>1, SeqMonotonic
<1>3. Len(ShellText) \in Nat /\ Len(ShellText) # 0
  BY <1>1, <1>2, EmptySeq
<1>4. ShellText[Len(ShellText)] = NUL
  <2>1. Len(ShellText) \in DOMAIN ShellText
    BY <1>2, <1>3
  <2> QED BY <2>1, ShellTextAssumption
<1> QED BY <1>2, <1>3, <1>4 DEF IsString

TokenOK(r, m) ==
  /\ IsString(r.mem) /\ Len(r.mem) = Len(m)
  /\ r.token \in Nat
  /\ r.token # NULL => r.context \in 1 .. Len(m)

\* strtok stays within the string, and leads into it as long as it returns
\* tokens.
LEMMA StrtokStays ==
  ASSUME NEW m, IsString(m), NEW str \in {1, NULL}, NEW context, str = NULL => context \in 1 .. Len(m)
  PROVE  TokenOK(strtok(m, str, context), m)
<1> DEFINE from == IF str = NULL THEN context ELSE str
           Stops == {i \in from .. Len(m) : m[i] \in Delimiters \cup {NUL}}
           r == strtok(m, str, context)
<1>1. PICK n \in Nat \ {0} : n = Len(m)
  BY DEF IsString
<1>2. from \in 1 .. n /\ from \in Nat
  BY <1>1 DEF NULL
<1>3. m \in Seq(Chars) /\ m[n] = NUL
  BY <1>1 DEF IsString
<1> HIDE DEF from
<1>4. n \in Stops /\ Stops \in SUBSET Nat
  <2>1. n \in from .. n /\ \A i \in from .. n : i \in Nat
    BY <1>2
  <2> QED BY <1>1, <1>3, <2>1
<1>5. PICK stop \in Stops : stop = Min(Stops)
  <2> HIDE DEF Stops
  <2> QED BY <1>4, MinIsLeast
<1>6. stop \in 1 .. n /\ stop \in Nat
  BY <1>1, <1>2, <1>5
<1>7. CASE m[stop] # NUL
  <2>1. stop # n
    BY <1>3, <1>7
  <2>2. stop + 1 \in 1 .. n
    BY <1>6, <2>1
  <2>3. r = [mem |-> [m EXCEPT ![stop] = NUL], context |-> stop + 1, token |-> from]
    BY <1>5, <1>7 DEF strtok, from
  <2> DEFINE w == [m EXCEPT ![stop] = NUL]
  <2>4. w \in Seq(Chars) /\ Len(w) = n /\ w[n] = NUL
    <3>1. NUL \in Chars
      BY DEF Chars
    <3>2. w \in Seq(Chars) /\ Len(w) = Len(m) /\ \A j \in 1 .. Len(m) : w[j] = IF j = stop THEN NUL ELSE m[j]
      BY <1>1, <1>3, <1>6, <3>1, ExceptSeq
    <3>3. n \in 1 .. Len(m)
      BY <1>1
    <3> QED BY <1>1, <1>3, <3>2, <3>3
  <2> HIDE DEF w
  <2>5. r.mem = w /\ r.context = stop + 1 /\ r.token = from
    BY <2>3 DEF w
  <2> QED BY <1>1, <1>2, <2>2, <2>4, <2>5 DEF TokenOK, IsString
<1>8. CASE m[stop] = NUL /\ str = NULL /\ m[context - 1] = NUL
  <2>1. r = [mem |-> m, context |-> stop, token |-> from]
    BY <1>5, <1>8 DEF strtok, from
  <2>2. r.mem = m /\ r.context = stop /\ r.token = from
    BY <2>1
  <2> QED BY <1>1, <1>2, <1>6, <2>2 DEF TokenOK
<1>9. CASE m[stop] = NUL /\ ~ (str = NULL /\ m[context - 1] = NUL)
  <2>1. r = [mem |-> m, context |-> context, token |-> NULL]
    BY <1>5, <1>9 DEF strtok, from
  <2>2. r.mem = m /\ r.token = NULL
    BY <2>1
  <2> QED BY <2>2 DEF TokenOK, NULL
<1> QED BY <1>7, <1>8, <1>9

\* Pieces of a text without percent signs are all plain.
LEMMA PlainIsWellFormed ==
  ASSUME NEW s, IsText(s), Whole(s), \A i \in 1 .. Len(s) : s[i] # "%"
  PROVE  WellFormed(Plain(s))
<1> PICK n \in Nat : n = Len(s)
  BY TextFacts
<1>1. DOMAIN s = 1 .. n
  BY TextFacts
<1> DEFINE P == Plain(s)
<1>2. P = [k \in 1 .. n |-> <<s[k]>>]
  BY <1>1 DEF Plain
<1>3. DOMAIN P = 1 .. n /\ \A k \in 1 .. n : P[k] = <<s[k]>> /\ P[k][1] = s[k]
  <2>1. \A k \in 1 .. n : P[k] = <<s[k]>> /\ P[k][1] = s[k]
    BY <1>2
  <2>2. DOMAIN P = 1 .. n
    BY <1>2
  <2> HIDE DEF P
  <2> QED BY <2>1, <2>2
<1>4. P \in Seq(ToSet(P))
  <2>1. P \in [1 .. n -> ToSet(P)]
    <3>1. P = [k \in 1 .. n |-> P[k]]
      BY <1>2
    <3> HIDE DEF P
    <3>2. \A k \in 1 .. n : P[k] \in ToSet(P)
      BY <1>3 DEF ToSet
    <3> QED BY <3>1, <3>2
  <2> HIDE DEF P
  <2> QED BY <2>1, SeqDef
<1>5. ASSUME NEW k \in DOMAIN P
      PROVE  P[k] = <<P[k][1]>> /\ P[k][1] \notin {"%", NUL}
  <2>1. k \in 1 .. n
    BY <1>3
  <2>2. P[k] = <<s[k]>> /\ P[k][1] = s[k]
    BY <1>3, <2>1
  <2>3. s[k] # "%" /\ s[k] # NUL
    BY <2>1 DEF Whole
  <2> HIDE DEF P
  <2> QED BY <2>2, <2>3
<1> HIDE DEF P
<1>6. WellFormed(P)
  BY <1>4, <1>5 DEF WellFormed
<1> QED BY <1>6 DEF P

\* The string the shell prints, wherever its token starts.
LEMMA TokenIsWellFormed ==
  ASSUME NEW m, IsString(m), NEW s \in Nat \ {0}
  PROVE  WellFormed(Plain(String(m, s)))
<1> DEFINE u == SubSeq(m, s, Len(m))
<1>1. PICK n \in Nat : n = Len(m)
  BY DEF IsString
<1>2. m \in Seq(Chars)
  BY DEF IsString
<1>3. \A i \in s .. n : m[i] \in Chars
  <2>1. \A i \in s .. n : i \in 1 .. n
    OBVIOUS
  <2> QED BY <1>1, <1>2, <2>1, ElementOfSeq
<1>4. u \in Seq(Chars)
  BY <1>1, <1>3, SubSeqProperties
<1> HIDE DEF u
<1>5. UpToNul(u) \in Seq(Chars)
  <2>1. CASE NUL \notin ToSet(u)
    BY <1>4, <2>1 DEF UpToNul
  <2>2. CASE NUL \in ToSet(u)
    <3> DEFINE Nuls == {i \in DOMAIN u : u[i] = NUL}
    <3>1. DOMAIN u = 1 .. Len(u) /\ Len(u) \in Nat
      BY <1>4
    <3>2. Nuls # {} /\ Nuls \in SUBSET Nat
      BY <2>2, <3>1 DEF ToSet
    <3>3. PICK k \in Nuls : k = Min(Nuls)
      <4> HIDE DEF Nuls
      <4> QED BY <3>2, MinIsLeast
    <3>4. k \in 1 .. Len(u)
      BY <3>1
    <3>5. \A i \in 1 .. k - 1 : u[i] \in Chars
      <4>1. \A i \in 1 .. k - 1 : i \in 1 .. Len(u)
        BY <3>1, <3>4
      <4> QED BY <1>4, <4>1, ElementOfSeq
    <3>6. SubSeq(u, 1, k - 1) \in Seq(Chars)
      <4>1. k - 1 \in Int
        BY <3>4
      <4> QED BY <3>5, <4>1, SubSeqProperties
    <3> QED BY <2>2, <3>3, <3>6 DEF UpToNul
  <2> QED BY <2>1, <2>2
<1>6. PICK v : v = String(m, s)
  OBVIOUS
<1>7. v \in Seq(Chars)
  BY <1>5, <1>6 DEF String, u
<1>8. "%" \notin Chars
  BY DEF Chars, NUL
<1>9. \A i \in 1 .. Len(v) : v[i] # "%"
  BY <1>7, <1>8, ElementOfSeq
<1>10. WellFormed(Plain(v))
  <2>1. IsText(v) /\ Whole(v)
    <3>1. IsText(u)
      BY <1>4 DEF IsText
    <3>2. v = UpToNul(u)
      BY <1>6 DEF String, u
    <3> QED BY <3>1, <3>2, UpToNulIsText, UpToNulIsWhole
  <2> QED BY <1>9, <2>1, PlainIsWellFormed
<1> QED BY <1>6, <1>10

\* The empty call, and the newline of the shell.
LEMMA OthersAreWellFormed == WellFormed(<<>>) /\ WellFormed(Plain(<<Newline>>))
<1>1. WellFormed(<<>>)
  <2>1. <<>> \in Seq(ToSet(<<>>)) /\ DOMAIN <<>> = {}
    BY EmptySeq
  <2> QED BY <2>1 DEF WellFormed
<1>2. WellFormed(Plain(<<Newline>>))
  <2> PICK x : x = <<Newline>>
    OBVIOUS
  <2>1. IsText(x) /\ Len(x) = 1
    BY OneIsText
  <2>2. \A i \in 1 .. Len(x) : x[i] # "%"
    <3>1. x[1] = "newline" /\ \A i \in 1 .. 1 : i = 1
      BY DEF Newline
    <3> QED BY <2>1, <3>1
  <2>3. Whole(x)
    <3> PICK c : c = Newline /\ c # NUL
      BY DEF Newline, NUL
    <3>1. Whole(<<c>>)
      BY OneIsWhole
    <3> QED BY <3>1
  <2>4. WellFormed(Plain(x))
    BY <2>1, <2>2, <2>3, PlainIsWellFormed
  <2> QED BY <2>4
<1> QED BY <1>1, <1>2

-----------------------------------------------------------------------------
(* What the threads do.                                                    *)

\* Each thread's call says so far what it should; its memory is a string, and
\* strtok's context leads into it while there are tokens.
ThreadOK(th) ==
  /\ IsThread(th)
  /\ SaysSoFar(th.call)
  /\ IsString(th.mem) /\ th.s \in Nat
  /\ th.s # NULL => th.context \in 1 .. Len(th.mem)
  /\ th.pc \in {"newline", "token"} => th.s # NULL

ThreadsInv ==
  /\ thread = [t \in Threads |-> thread[t]]
  /\ \A t \in Threads : ThreadOK(thread[t])

\* A thread by its fields.
LEMMA ThreadIsOK ==
  ASSUME NEW p, NEW m, NEW c, NEW s, NEW l, NEW d,
         SaysSoFar(l), IsString(m), s \in Nat, s # NULL => c \in 1 .. Len(m),
         p \in {"newline", "token"} => s # NULL
  PROVE  ThreadOK(ThreadOf(p, m, c, s, l, d))
<1> PICK th : th = ThreadOf(p, m, c, s, l, d)
  OBVIOUS
<1>1. IsThread(th) /\ th.pc = p /\ th.mem = m /\ th.context = c /\ th.s = s /\ th.call = l
  BY ThreadFields
<1>2. ThreadOK(th)
  BY <1>1 DEF ThreadOK
<1> QED BY <1>2

\* One thread changes, and the others stay.
LEMMA ThreadBecomes ==
  ASSUME ThreadsInv, NEW t \in Threads, NEW th, Becomes(thread', thread, Threads, t, th), ThreadOK(th)
  PROVE  ThreadsInv'
<1>1. thread' = [u \in Threads |-> IF u = t THEN th ELSE thread[u]]
  BY DEF Becomes
<1>2. thread' = [u \in Threads |-> thread'[u]]
  BY <1>1
<1>3. \A u \in Threads : thread'[u] = IF u = t THEN th ELSE thread[u]
  BY <1>1
<1>4. \A u \in Threads : ThreadOK(thread'[u])
  BY <1>3 DEF ThreadsInv
<1> QED BY <1>2, <1>4 DEF ThreadsInv

\* A thread before its step.
LEMMA ThreadStarts ==
  ASSUME ThreadsInv, NEW t \in Threads
  PROVE  LET o == thread[t]
         IN  Becomes(thread, thread, Threads, t, ThreadOf(o.pc, o.mem, o.context, o.s, o.call, o.said))
<1>1. thread = [u \in Threads |-> thread[u]] /\ IsThread(thread[t])
  BY DEF ThreadsInv, ThreadOK
<1> PICK o : o = thread[t]
  OBVIOUS
<1>2. o = ThreadOf(o.pc, o.mem, o.context, o.s, o.call, o.said)
  BY <1>1 DEF IsThread
<1>3. thread = [u \in Threads |-> IF u = t THEN o ELSE thread[u]]
  BY <1>1
<1> QED BY <1>2, <1>3 DEF Becomes

\* No thread changes.
LEMMA SameThreads == ASSUME ThreadsInv, thread' = thread PROVE ThreadsInv'
BY DEF ThreadsInv

\* The calls that wait outside of printf, and the newline of the shell.
LEMMA NoCallSaysSoFar ==
  SaysSoFar(Call(<<>>)) /\ SaysSoFar(Call(Plain(<<Newline>>)))
BY CallBegins, OthersAreWellFormed

\* The threads start with no call.
LEMMA InitialThreads ==
  ASSUME Init
  PROVE  ThreadsInv
<1>1. PICK users : thread = [t \in Threads |-> IF t \in users THEN New ELSE [New EXCEPT !.pc = "unrun"]]
  <2>1. PICK session \in Sessions :
          thread = [t \in Threads |-> IF t \in session.users \cup {Idle} THEN New ELSE [New EXCEPT !.pc = "unrun"]]
    BY DEF Init
  <2> PICK users : users = session.users \cup {Idle}
    OBVIOUS
  <2> QED BY <2>1
<1> DEFINE of(pc) == ThreadOf(pc, ShellText, NULL, NULL, Call(<<>>), <<>>)
<1>2. New = of("new") /\ [New EXCEPT !.pc = "unrun"] = of("unrun")
  BY DEF New, ThreadOf
<1>3. \A pc : pc \notin {"newline", "token"} => ThreadOK(of(pc))
  BY NoCallSaysSoFar, ShellTextIsString, ThreadIsOK DEF NULL
<1>4. ThreadOK(New) /\ ThreadOK([New EXCEPT !.pc = "unrun"])
  <2> HIDE DEF of
  <2> QED BY <1>2, <1>3
<1>5. \A t \in Threads : thread[t] = New \/ thread[t] = [New EXCEPT !.pc = "unrun"]
  BY <1>1
<1>6. thread = [t \in Threads |-> thread[t]]
  BY <1>1
<1> QED BY <1>4, <1>5, <1>6 DEF ThreadsInv

\* A step that changes where a thread is, outside of its calls of printf.
LEMMA PcBecomes ==
  ASSUME ThreadsInv, NEW t \in Threads, NEW pc, thread' = [thread EXCEPT ![t].pc = pc], NEW o, o = thread[t]
  PROVE  Becomes(thread', thread, Threads, t, ThreadOf(pc, o.mem, o.context, o.s, o.call, o.said))
<1> PICK op, om, oc, os, ol, od : op = o.pc /\ om = o.mem /\ oc = o.context /\ os = o.s /\ ol = o.call /\ od = o.said
  OBVIOUS
<1>1. Becomes(thread, thread, Threads, t, ThreadOf(op, om, oc, os, ol, od))
  BY ThreadStarts
<1>2. thread' = WithPc(thread, t, pc)
  BY DEF WithPc
<1>3. Becomes(WithPc(thread, t, pc), thread, Threads, t, ThreadOf(pc, om, oc, os, ol, od))
  BY <1>1, ThreadPuts
<1> QED BY <1>2, <1>3

LEMMA PcKeepsThreads ==
  ASSUME ThreadsInv, NEW t, NEW pc, pc \notin {"newline", "token"}, thread' = [thread EXCEPT ![t].pc = pc]
  PROVE  ThreadsInv'
<1>1. CASE t \in Threads
  <2> PICK o : o = thread[t]
    OBVIOUS
  <2>1. Becomes(thread', thread, Threads, t, ThreadOf(pc, o.mem, o.context, o.s, o.call, o.said))
    BY <1>1, PcBecomes
  <2>2. ThreadOK(o)
    BY <1>1 DEF ThreadsInv
  <2>3. ThreadOK(ThreadOf(pc, o.mem, o.context, o.s, o.call, o.said))
    BY <2>2, ThreadIsOK DEF ThreadOK
  <2> QED BY <1>1, <2>1, <2>3, ThreadBecomes
<1>2. CASE t \notin Threads
  <2>1. thread = [u \in Threads |-> thread[u]]
    BY DEF ThreadsInv
  <2>2. thread' = thread
    BY <1>2, <2>1
  <2> QED BY <2>2, SameThreads
<1> QED BY <1>1, <1>2

\* What the shell's main writes: memory, context, token, call and place.
LEMMA TokenPuts ==
  ASSUME NEW f, NEW T, NEW t \in T, NEW p, NEW m, NEW c, NEW s, NEW l, NEW d,
         Becomes(f, f, T, t, ThreadOf(p, m, c, s, l, d)),
         NEW q, NEW w, NEW x, NEW y, NEW z
  PROVE  Becomes(WithPc(WithCall(WithS(WithContext(WithMem(f, t, w), t, x), t, y), t, z), t, q),
                 f, T, t, ThreadOf(q, w, x, y, z, d))
<1> PICK g1 : g1 = WithMem(f, t, w)
  OBVIOUS
<1>1. Becomes(g1, f, T, t, ThreadOf(p, w, c, s, l, d))
  BY ThreadPuts
<1> PICK g2 : g2 = WithContext(g1, t, x)
  OBVIOUS
<1>2. Becomes(g2, f, T, t, ThreadOf(p, w, x, s, l, d))
  BY <1>1, ThreadPuts
<1> PICK g3 : g3 = WithS(g2, t, y)
  OBVIOUS
<1>3. Becomes(g3, f, T, t, ThreadOf(p, w, x, y, l, d))
  BY <1>2, ThreadPuts
<1> PICK g4 : g4 = WithCall(g3, t, z)
  OBVIOUS
<1>4. Becomes(g4, f, T, t, ThreadOf(p, w, x, y, z, d))
  BY <1>3, ThreadPuts
<1>5. Becomes(WithPc(g4, t, q), f, T, t, ThreadOf(q, w, x, y, z, d))
  BY <1>4, ThreadPuts
<1> QED BY <1>5

\* The shell takes its next token.
LEMMA MainBecomes ==
  ASSUME ThreadsInv, NEW t \in Threads, main(t), NEW o, o = thread[t],
         NEW r, r = strtok(o.mem, IF o.s = NULL THEN 1 ELSE NULL, o.context)
  PROVE  Becomes(thread', thread, Threads, t,
                 ThreadOf(IF r.token = NULL THEN "exit" ELSE "newline", r.mem, r.context, r.token,
                          Call(Plain(<<Newline>>)), o.said))
<1> PICK m, c, s : m = r.mem /\ c = r.context /\ s = r.token
  OBVIOUS
<1> PICK call : call = Call(Plain(<<Newline>>))
  OBVIOUS
<1> PICK pc : pc = IF r.token = NULL THEN "exit" ELSE "newline"
  OBVIOUS
<1>1. thread' = WithPc(WithCall(WithS(WithContext(WithMem(thread, t, m), t, c), t, s), t, call), t, pc)
  <2>1. thread' = [thread EXCEPT
           ![t].mem = m, ![t].context = c, ![t].s = s,
           ![t].call = call, ![t].pc = pc]
    BY DEF main
  <2> QED BY <2>1 DEF WithPc, WithCall, WithS, WithContext, WithMem
<1>2. Becomes(thread, thread, Threads, t, ThreadOf(o.pc, o.mem, o.context, o.s, o.call, o.said))
  BY ThreadStarts
<1>3. Becomes(thread', thread, Threads, t, ThreadOf(pc, m, c, s, call, o.said))
  <2> PICK op, om, oc, os, ol, od : op = o.pc /\ om = o.mem /\ oc = o.context /\ os = o.s /\ ol = o.call /\ od = o.said
    OBVIOUS
  <2>1. Becomes(thread, thread, Threads, t, ThreadOf(op, om, oc, os, ol, od))
    BY <1>2
  <2>2. Becomes(WithPc(WithCall(WithS(WithContext(WithMem(thread, t, m), t, c), t, s), t, call), t, pc),
                thread, Threads, t, ThreadOf(pc, m, c, s, call, od))
    BY <2>1, TokenPuts
  <2> QED BY <1>1, <2>2
<1> QED BY <1>3

LEMMA MainKeepsThreads ==
  ASSUME ThreadsInv, NEW t \in Threads, main(t)
  PROVE  ThreadsInv'
<1> PICK o : o = thread[t]
  OBVIOUS
<1>1. ThreadOK(o)
  BY DEF ThreadsInv
<1> PICK str : str = IF o.s = NULL THEN 1 ELSE NULL
  OBVIOUS
<1> PICK r : r = strtok(o.mem, str, o.context)
  OBVIOUS
<1> PICK m, c, s : m = r.mem /\ c = r.context /\ s = r.token
  OBVIOUS
<1> PICK call : call = Call(Plain(<<Newline>>))
  OBVIOUS
<1> PICK pc : pc = IF r.token = NULL THEN "exit" ELSE "newline"
  OBVIOUS
<1>2. Becomes(thread', thread, Threads, t, ThreadOf(pc, m, c, s, call, o.said))
  BY MainBecomes
<1>3. TokenOK(r, o.mem)
  <2>1. str \in {1, NULL} /\ IsString(o.mem) /\ (str = NULL => o.context \in 1 .. Len(o.mem))
    BY <1>1 DEF ThreadOK, NULL
  <2> QED BY <2>1, StrtokStays
<1>4. ThreadOK(ThreadOf(pc, m, c, s, call, o.said))
  <2>1. /\ IsString(m) /\ s \in Nat /\ SaysSoFar(call)
        /\ s # NULL => c \in 1 .. Len(m)
        /\ pc \in {"newline", "token"} => s # NULL
    BY <1>3, NoCallSaysSoFar DEF TokenOK
  <2> QED BY <2>1, ThreadIsOK
<1> QED BY <1>2, <1>4, ThreadBecomes

\* printf begins for a call, and goes on.
LEMMA PrintfBecomes ==
  ASSUME ThreadsInv, NEW t \in Threads, NEW call, NEW pc, Printf(t, call, pc), NEW o, o = thread[t]
  PROVE  Becomes(thread', thread, Threads, t, ThreadOf(pc, o.mem, o.context, o.s, call, o.said))
<1>1. Becomes(thread, thread, Threads, t, ThreadOf(o.pc, o.mem, o.context, o.s, o.call, o.said))
  BY ThreadStarts
<1> PICK g : g = WithCall(thread, t, call)
  OBVIOUS
<1>2. Becomes(g, thread, Threads, t, ThreadOf(o.pc, o.mem, o.context, o.s, call, o.said))
  BY <1>1, ThreadPuts
<1>3. thread' = WithPc(g, t, pc)
  BY DEF Printf, WithPc, WithCall
<1> QED BY <1>2, <1>3, ThreadPuts

LEMMA PrintfKeepsThreads ==
  ASSUME ThreadsInv, NEW t \in Threads, NEW call, SaysSoFar(call), NEW pc, pc \notin {"newline", "token"},
         Printf(t, call, pc)
  PROVE  ThreadsInv'
<1> PICK o : o = thread[t]
  OBVIOUS
<1>1. ThreadOK(o)
  BY DEF ThreadsInv
<1>2. Becomes(thread', thread, Threads, t, ThreadOf(pc, o.mem, o.context, o.s, call, o.said))
  BY PrintfBecomes
<1>3. ThreadOK(ThreadOf(pc, o.mem, o.context, o.s, call, o.said))
  BY <1>1, ThreadIsOK DEF ThreadOK
<1> QED BY <1>2, <1>3, ThreadBecomes

\* The shell prints its token, and the others what they may.
LEMMA CallsKeepThreads ==
  ASSUME ThreadsInv, NEW t \in Threads, print_token(t) \/ other_main(t)
  PROVE  ThreadsInv'
<1>1. CASE print_token(t)
  <2> PICK o : o = thread[t]
    OBVIOUS
  <2>1. ThreadOK(o) /\ o.pc = "token"
    BY <1>1 DEF ThreadsInv, print_token, Runs
  <2>2. IsString(o.mem) /\ o.s \in Nat \ {0}
    BY <2>1 DEF ThreadOK, NULL
  <2>3. SaysSoFar(Call(Plain(String(o.mem, o.s))))
    BY <2>2, TokenIsWellFormed, CallBegins
  <2>4. Printf(t, Call(Plain(String(o.mem, o.s))), "word")
    BY <1>1 DEF print_token
  <2> QED BY <2>3, <2>4, PrintfKeepsThreads
<1>2. CASE other_main(t)
  <2>1. PICK pieces \in Calls : Printf(t, Call(pieces), "last")
    BY <1>2 DEF other_main
  <2>2. SaysSoFar(Call(pieces))
    BY <2>1, CallsAssumption, CallBegins
  <2> QED BY <2>1, <2>2, PrintfKeepsThreads
<1> QED BY <1>1, <1>2

\* printf goes on, and hands over nothing but text.
LEMMA CallBecomes ==
  ASSUME ThreadsInv, NEW t \in Threads, NEW call, thread' = [thread EXCEPT ![t].call = call], NEW o, o = thread[t]
  PROVE  Becomes(thread', thread, Threads, t, ThreadOf(o.pc, o.mem, o.context, o.s, call, o.said))
<1> PICK op, om, oc, os, ol, od : op = o.pc /\ om = o.mem /\ oc = o.context /\ os = o.s /\ ol = o.call /\ od = o.said
  OBVIOUS
<1>1. Becomes(thread, thread, Threads, t, ThreadOf(op, om, oc, os, ol, od))
  BY ThreadStarts
<1>2. thread' = WithCall(thread, t, call)
  BY DEF WithCall
<1>3. Becomes(WithCall(thread, t, call), thread, Threads, t, ThreadOf(op, om, oc, os, call, od))
  BY <1>1, ThreadPuts
<1> QED BY <1>2, <1>3

LEMMA PrintfStepKeepsThreads ==
  ASSUME ThreadsInv, NEW t \in Threads, printf(t)
  PROVE  /\ ThreadsInv'
         /\ Local \/ \E what : IsText(what) /\ Calling(SYSTEM_CALL, what)
<1> PICK o : o = thread[t]
  OBVIOUS
<1>1. ThreadOK(o)
  BY DEF ThreadsInv
<1> PICK p : p = o.call
  OBVIOUS
<1> PICK n : n = IF Flushes(p) THEN Flushed(NextOf(p)) ELSE NextOf(p)
  OBVIOUS
<1>2. /\ (~AtEnd(p) \/ p.buf # <<>>) /\ ~Overrun(p)
      /\ thread' = [thread EXCEPT ![t].call = n]
      /\ IF Flushes(p) THEN Calling(SYSTEM_CALL, UpToNul(NextOf(p).buf)) ELSE Local
  BY DEF printf, Flushes, NextOf
<1>3. SaysSoFar(p)
  BY <1>1 DEF ThreadOK
<1>4. SaysSoFar(n) /\ IsText(NextOf(p).buf)
  BY <1>2, <1>3, PrintfStep
<1>5. Becomes(thread', thread, Threads, t, ThreadOf(o.pc, o.mem, o.context, o.s, n, o.said))
  BY <1>2, CallBecomes
<1>6. ThreadOK(ThreadOf(o.pc, o.mem, o.context, o.s, n, o.said))
  BY <1>1, <1>4, ThreadIsOK DEF ThreadOK
<1>7. ThreadsInv'
  BY <1>5, <1>6, ThreadBecomes
<1> PICK what : what = UpToNul(NextOf(p).buf)
  OBVIOUS
<1>8. IsText(what)
  BY <1>4, UpToNulIsText
<1> QED BY <1>2, <1>7, <1>8

\* What a return writes: place, what is said, and no call.
LEMMA ReturnPuts ==
  ASSUME NEW f, NEW T, NEW t \in T, NEW p, NEW m, NEW c, NEW s, NEW l, NEW d,
         Becomes(f, f, T, t, ThreadOf(p, m, c, s, l, d)),
         NEW q, NEW y, NEW z
  PROVE  Becomes(WithCall(WithSaid(WithPc(f, t, q), t, y), t, z), f, T, t, ThreadOf(q, m, c, s, z, y))
<1> PICK g1 : g1 = WithPc(f, t, q)
  OBVIOUS
<1>1. Becomes(g1, f, T, t, ThreadOf(q, m, c, s, l, d))
  BY ThreadPuts
<1> PICK g2 : g2 = WithSaid(g1, t, y)
  OBVIOUS
<1>2. Becomes(g2, f, T, t, ThreadOf(q, m, c, s, l, y))
  BY <1>1, ThreadPuts
<1>3. Becomes(WithCall(g2, t, z), f, T, t, ThreadOf(q, m, c, s, z, y))
  BY <1>2, ThreadPuts
<1> QED BY <1>3

\* printf returns to its caller.
LEMMA ReturnBecomes ==
  ASSUME ThreadsInv, NEW t \in Threads, printf_returns(t), NEW o, o = thread[t]
  PROVE  /\ o.pc \in Callers /\ AtEnd(o.call) /\ o.call.buf = <<>>
         /\ Becomes(thread', thread, Threads, t,
                    ThreadOf(ReturnTo(o.pc), o.mem, o.context, o.s, Call(<<>>), o.said \o o.call.sent))
<1> PICK op, om, oc, os, ol, od : op = o.pc /\ om = o.mem /\ oc = o.context /\ os = o.s /\ ol = o.call /\ od = o.said
  OBVIOUS
<1> PICK call : call = Call(<<>>)
  OBVIOUS
<1> PICK pc : pc = ReturnTo(o.pc)
  OBVIOUS
<1> PICK said : said = o.said \o o.call.sent
  OBVIOUS
<1>1. /\ o.pc \in Callers /\ AtEnd(o.call) /\ o.call.buf = <<>>
      /\ thread' = [thread EXCEPT ![t].pc = pc, ![t].said = @ \o o.call.sent, ![t].call = call]
  BY DEF printf_returns, Runs
<1>2. Becomes(thread, thread, Threads, t, ThreadOf(op, om, oc, os, ol, od))
  BY ThreadStarts
<1> PICK g1 : g1 = WithPc(thread, t, pc)
  OBVIOUS
<1>3. Becomes(g1, thread, Threads, t, ThreadOf(pc, om, oc, os, ol, od))
  BY <1>2, ThreadPuts
<1>4. g1[t].said = o.said
  <2> PICK th : th = ThreadOf(pc, om, oc, os, ol, od)
    OBVIOUS
  <2>1. g1[t] = th
    BY <1>3 DEF Becomes
  <2>2. th.said = od
    BY DEF ThreadOf
  <2> QED BY <2>1, <2>2
<1> PICK g2 : g2 = WithSaid(g1, t, said)
  OBVIOUS
<1>5. thread' = WithCall(g2, t, call)
  <2>1. thread' = [[g1 EXCEPT ![t].said = @ \o o.call.sent] EXCEPT ![t].call = call]
    BY <1>1 DEF WithPc
  <2>2. [g1 EXCEPT ![t].said = @ \o o.call.sent] = [g1 EXCEPT ![t].said = g1[t].said \o o.call.sent]
    OBVIOUS
  <2>3. [g1 EXCEPT ![t].said = @ \o o.call.sent] = g2
    BY <1>4, <2>2 DEF WithSaid
  <2> QED BY <2>1, <2>3 DEF WithCall
<1>6. Becomes(thread', thread, Threads, t, ThreadOf(pc, om, oc, os, call, said))
  BY <1>2, <1>5, ReturnPuts
<1> QED BY <1>1, <1>6

LEMMA ReturnsKeepsThreads ==
  ASSUME ThreadsInv, NEW t \in Threads, printf_returns(t)
  PROVE  ThreadsInv'
<1> PICK o : o = thread[t]
  OBVIOUS
<1>1. ThreadOK(o)
  BY DEF ThreadsInv
<1> PICK call, pc, said : call = Call(<<>>) /\ pc = ReturnTo(o.pc) /\ said = o.said \o o.call.sent
  OBVIOUS
<1>2. o.pc \in Callers /\ Becomes(thread', thread, Threads, t, ThreadOf(pc, o.mem, o.context, o.s, call, said))
  BY ReturnBecomes
<1>3. pc \in {"newline", "token"} => o.s # NULL
  BY <1>1, <1>2 DEF ReturnTo, ThreadOK, Callers
<1>4. ThreadOK(ThreadOf(pc, o.mem, o.context, o.s, call, said))
  BY <1>1, <1>3, NoCallSaysSoFar, ThreadIsOK DEF ThreadOK
<1> QED BY <1>2, <1>4, ThreadBecomes

-----------------------------------------------------------------------------
(* What handlers and threads hand over.                                    *)

\* What the handlers print and the threads hand over is text, and the threads
\* stay in order.
LEMMA SpeakStep ==
  ASSUME AloneInv, AloneInv', MessageIsText, ThreadsInv, [Next]_vars
  PROVE  MessageIsText' /\ ThreadsInv'
<1>0. IsText(<<>>)
  BY NothingIsText
<1>1. CASE frames = <<>>
  <2>1. ~Handler
    BY <1>1 DEF Handler, timer_handler, KeyboardInterrupt, call_handler_print, call_handler_exit, NoHandler,
       FirstFault, panic_display_message, PrintNext, Leave, eoi, iret, Handles
  <2>2. ASSUME NEW n, NEW what, IsText(what), Enters(n, what) PROVE MessageIsText'
    <3>1. frames' = <<[int |-> n, at |-> "handler", todo |-> what]>>
      BY <1>1, <2>2 DEF Enters
    <3>2. frames'[1].todo = what
      BY <3>1
    <3> QED BY <2>2, <3>2 DEF MessageIsText
  <2>3. ASSUME frames' = frames PROVE MessageIsText'
    BY <1>1, <2>3 DEF MessageIsText
  <2>4. ASSUME NEW n, NEW what, IsText(what), Calling(n, what) PROVE MessageIsText'
    BY <2>2, <2>4 DEF Calling
  <2>5. Local => MessageIsText'
    BY <2>3 DEF Local, interrupts
  <2>6. CASE KeyEvent \/ Tick \/ OtherDevice
    <3>1. frames' = frames /\ thread' = thread
      BY <2>6 DEF KeyEvent, Tick, OtherDevice, Raise
    <3> QED BY <2>3, <3>1, SameThreads
  <2>7. CASE Interrupt
    <3>1. PICK line \in irr : Enters(32 + line, <<>>)
      BY <2>7 DEF Interrupt, Deliver
    <3>2. thread' = thread
      BY <2>7 DEF Interrupt
    <3> QED BY <1>0, <2>2, <3>1, <3>2, SameThreads
  <2>8. ASSUME NEW t \in Users, Thread(t) \/ Crash(t)
        PROVE  MessageIsText' /\ ThreadsInv'
    <3>0. t \in Threads
      BY DEF Users
    <3>1. CASE Start(t)
      BY <1>0, <2>4, <3>1, SameThreads DEF Start
    <3>2. CASE Crash(t)
      BY <1>0, <2>4, <3>2, SameThreads DEF Crash
    <3>3. CASE exit(t)
      BY <1>0, <2>4, <3>3, SameThreads DEF exit
    <3>4. CASE main(t)
      <4>1. Local
        BY <3>4 DEF main
      <4> QED BY <2>5, <3>0, <3>4, <4>1, MainKeepsThreads
    <3>5. CASE print_token(t) \/ other_main(t)
      <4>1. Local
        BY <3>5 DEF print_token, other_main
      <4> QED BY <2>5, <3>0, <3>5, <4>1, CallsKeepThreads
    <3>6. CASE printf(t)
      BY <2>4, <2>5, <3>0, <3>6, PrintfStepKeepsThreads
    <3>7. CASE printf_returns(t)
      <4>1. Local
        BY <3>7 DEF printf_returns
      <4> QED BY <2>5, <3>0, <3>7, <4>1, ReturnsKeepsThreads
    <3>8. CASE lios_startup(t)
      <4>1. PICK pc \in {"main", "abort"} : thread' = [thread EXCEPT ![t].pc = pc]
        BY <3>8 DEF lios_startup
      <4>2. pc \notin {"newline", "token"}
        OBVIOUS
      <4>3. ThreadsInv'
        BY <4>1, <4>2, PcKeepsThreads
      <4>4. Local
        BY <3>8 DEF lios_startup
      <4> QED BY <2>5, <4>3, <4>4
    <3> QED BY <2>8, <3>1, <3>2, <3>3, <3>4, <3>5, <3>6, <3>7, <3>8 DEF Thread
  <2>9. CASE UNCHANGED vars
    <3>1. frames' = frames /\ thread' = thread
      BY <2>9 DEF vars, interrupts
    <3> QED BY <2>3, <3>1, SameThreads
  <2> QED BY <2>1, <2>6, <2>7, <2>8, <2>9 DEF Next, UserStep
<1>2. CASE frames # <<>>
  <2>1. FrameOK /\ Frame = frames[1] /\ enabled = FALSE
    BY <1>2, FrameFacts DEF AloneInv
  <2>2. Handler \/ UNCHANGED vars
    <3>1. ~KeyEvent /\ ~Tick /\ ~OtherDevice
      BY <1>2 DEF KeyEvent, Tick, OtherDevice, Raise
    <3>2. ~Interrupt
      BY <2>1 DEF Interrupt, Deliver
    <3>3. ASSUME NEW t \in Users PROVE ~Thread(t) /\ ~Crash(t)
      BY <1>2 DEF Thread, Crash, Start, lios_startup, main, print_token, other_main, printf, printf_returns, exit, Runs
    <3> QED BY <3>1, <3>2, <3>3 DEF Next, UserStep
  <2>3. IsText(frames[1].todo)
    BY <1>2 DEF MessageIsText
  <2>4. ASSUME NEW place, NEW what, IsText(what), Goes(place, what) PROVE MessageIsText'
    <3>1. frames' = <<[int |-> frames[1].int, at |-> place, todo |-> what]>>
      BY <2>1, <2>4, GoesFacts
    <3>2. frames'[1].todo = what
      BY <3>1
    <3> QED BY <2>4, <3>2 DEF MessageIsText
  <2>5. CASE timer_handler \/ NoHandler
    BY <1>0, <2>4, <2>5, SameThreads DEF timer_handler, NoHandler
  <2>6. CASE call_handler_exit
    <3> PICK t, pc : t = current /\ pc = IF thread[current].pc = "exit" THEN "exited" ELSE "unrun"
      OBVIOUS
    <3>1. thread' = [thread EXCEPT ![t].pc = pc] /\ Goes("eoi", <<>>)
      BY <2>6 DEF call_handler_exit
    <3>2. pc \notin {"newline", "token"}
      OBVIOUS
    <3>3. ThreadsInv'
      BY <3>1, <3>2, PcKeepsThreads
    <3> QED BY <1>0, <2>4, <3>1, <3>3
  <2>7. CASE FirstFault
    <3>1. thread' = [thread EXCEPT ![current].pc = "startup"] /\ Goes("eoi", <<>>)
      BY <2>7 DEF FirstFault
    <3>2. "startup" \notin {"newline", "token"}
      OBVIOUS
    <3>3. ThreadsInv'
      <4> PICK t, pc : t = current /\ pc = "startup"
        OBVIOUS
      <4> QED BY <3>1, <3>2, PcKeepsThreads
    <3> QED BY <1>0, <2>4, <3>1, <3>3
  <2>8. CASE KeyboardInterrupt
    <3>1. IsText(Printed)
      <4>1. PICK c : Printed = <<>> \/ Printed = <<c>>
        BY DEF Printed
      <4>2. IsText(<<c>>)
        BY OneIsText
      <4> QED BY <1>0, <4>1, <4>2
    <3>2. thread' = thread /\ Goes("print", Printed)
      BY <2>8 DEF KeyboardInterrupt
    <3> QED BY <2>4, <3>1, <3>2, SameThreads
  <2>9. CASE call_handler_print
    BY <2>1, <2>3, <2>4, <2>9, SameThreads DEF call_handler_print
  <2>10. CASE panic_display_message
    <3>1. frames' = frames /\ thread' = thread
      BY <2>10 DEF panic_display_message, interrupts
    <3> QED BY <2>3, <3>1, SameThreads DEF MessageIsText
  <2>11. CASE PrintNext
    <3>1. thread' = thread
      BY <2>11 DEF PrintNext
    <3>2. MessageIsText'
      <4>1. CASE Frame.todo # <<>>
        <5>1. IsText(Tail(frames[1].todo))
          BY <2>1, <2>3, <4>1, SaidNext
        <5>2. Goes("print", Tail(frames[1].todo))
          BY <2>1, <2>11, <4>1 DEF PrintNext
        <5> QED BY <2>4, <5>1, <5>2
      <4>2. CASE Frame.todo = <<>>
        <5>1. Goes("eoi", <<>>)
          BY <2>11, <4>2 DEF PrintNext
        <5> QED BY <1>0, <2>4, <5>1
      <4> QED BY <4>1, <4>2
    <3> QED BY <3>1, <3>2, SameThreads
  <2>12. CASE Leave
    <3>1. thread' = thread
      BY <2>12 DEF Leave
    <3>2. MessageIsText'
      <4>1. CASE eoi
        BY <1>0, <2>4, <4>1 DEF eoi
      <4>2. CASE iret
        BY <4>2, IretKeepsAlone DEF MessageIsText
      <4> QED BY <2>12, <4>1, <4>2 DEF Leave
    <3> QED BY <3>1, <3>2, SameThreads
  <2>13. CASE UNCHANGED vars
    <3>1. frames' = frames /\ thread' = thread
      BY <2>13 DEF vars, interrupts
    <3> QED BY <2>3, <3>1, SameThreads DEF MessageIsText
  <2> QED BY <2>2, <2>5, <2>6, <2>7, <2>8, <2>9, <2>10, <2>11, <2>12, <2>13 DEF Handler
<1> QED BY <1>1, <1>2

-----------------------------------------------------------------------------
(* The shell: what strtok leaves of its string, and what it has said.      *)

\* A text that is printed plainly is what is said.
LEMMA FlatOfPlain ==
  ASSUME NEW x, IsText(x)
  PROVE  FlattenSeq(Plain(x)) = x
<1> PICK N \in Nat : N = Len(x)
  BY TextFacts
<1> PICK s : s = Plain(x)
  OBVIOUS
<1>1. DOMAIN x = 1 .. N
  BY TextFacts
<1>2. s = [k \in 1 .. N |-> <<x[k]>>]
  BY <1>1 DEF Plain
<1>3. IsText(s) /\ Len(s) = N /\ \A k \in 1 .. N : s[k] = <<x[k]>>
  <2>1. s \in [1 .. N -> {s[k] : k \in 1 .. N}]
    BY <1>2
  <2>2. s \in Seq({s[k] : k \in 1 .. N})
    BY <2>1, SeqDef
  <2>3. Len(s) = N
    BY <1>2, <2>2, LenProperties
  <2> QED BY <1>2, <2>2, <2>3 DEF IsText
<1>4. \A k \in 1 .. Len(s) : IsText(s[k])
  BY <1>3, OneIsText
<1>5. PICK f : FlatBy(f, s)
  BY <1>3, <1>4, FlatIs
<1>6. /\ f[0] = <<>> /\ FlattenSeq(s) = f[N]
      /\ \A k \in 1 .. N : f[k] = f[k - 1] \o <<x[k]>>
      /\ \A k \in 0 .. N : IsText(f[k])
  BY <1>3, <1>5 DEF FlatBy
<1> DEFINE P == {k \in 0 .. N : Len(f[k]) = k /\ \A i \in 1 .. k : f[k][i] = x[i]}
<1>7. 0 \in P
  <2>1. Len(f[0]) = 0
    BY <1>6, NothingIsText
  <2>2. 0 \in 0 .. N /\ \A i \in 1 .. 0 : FALSE
    OBVIOUS
  <2> QED BY <2>1, <2>2
<1>8. ASSUME NEW k \in 0 .. N, k < N, k \in P PROVE k + 1 \in P
  <2> PICK y, z : y = f[k] /\ z = <<x[k + 1]>>
    OBVIOUS
  <2>1. k + 1 \in 1 .. N /\ k + 1 \in 0 .. N /\ (k + 1) - 1 = k
    BY <1>8
  <2>2. f[k + 1] = y \o z /\ IsText(y)
    BY <1>6, <2>1
  <2>3. Len(y) = k /\ \A i \in 1 .. k : y[i] = x[i]
    BY <1>8
  <2>4. IsText(z) /\ Len(z) = 1 /\ z[1] = x[k + 1]
    BY OneIsText
  <2>5. /\ Len(y \o z) = k + 1
        /\ \A i \in 1 .. k : (y \o z)[i] = x[i]
        /\ (y \o z)[k + 1] = x[k + 1]
    <3>1. /\ Len(y \o z) = Len(y) + Len(z)
          /\ \A i \in 1 .. Len(y) : (y \o z)[i] = y[i]
          /\ \A i \in 1 .. Len(z) : (y \o z)[Len(y) + i] = z[i]
      BY <2>2, <2>4, Joined
    <3>2. 1 \in 1 .. Len(z)
      BY <2>4
    <3> QED BY <2>3, <2>4, <3>1, <3>2
  <2>6. \A i \in 1 .. k + 1 : i \in 1 .. k \/ i = k + 1
    OBVIOUS
  <2> QED BY <2>1, <2>2, <2>5, <2>6
<1>9. N \in P
  <2>1. \A k \in 0 .. N : k \in P
    <3> HIDE DEF P
    <3> QED BY <1>7, <1>8, UpTo
  <2> QED BY <2>1
<1>10. IsText(f[N]) /\ Len(f[N]) = N /\ \A i \in 1 .. N : f[N][i] = x[i]
  BY <1>6, <1>9
<1> PICK w : w = f[N]
  OBVIOUS
<1>11. w = x
  BY <1>10, SameText
<1> QED BY <1>6, <1>11

LEMMA PlainSays ==
  ASSUME NEW x, IsText(x)
  PROVE  Call(Plain(x)).text = x
<1> PICK s, A, B : s = Plain(x) /\ A = FlattenSeq([k \in DOMAIN s |-> FormatOf(s[k])]) /\ B = FlattenSeq([k \in DOMAIN s |-> ArgsOf(s[k])])
  OBVIOUS
<1> PICK M : M = [k \in DOMAIN s |-> MeantBy(s[k])]
  OBVIOUS
<1>1. s = [k \in DOMAIN x |-> <<x[k]>>]
  BY DEF Plain
<1>2. \A k \in DOMAIN s : MeantBy(s[k]) = s[k]
  <2>1. \A k \in DOMAIN s : s[k] = <<x[k]>> /\ Len(<<x[k]>>) = 1
    BY <1>1
  <2> QED BY <2>1 DEF MeantBy, IsPlain
<1>3. M = s
  <2>1. s = [k \in DOMAIN s |-> s[k]]
    BY <1>1
  <2> QED BY <1>2, <2>1
<1>4. FlattenSeq(M) = x
  BY <1>3, FlatOfPlain
<1>5. Call(s) = [format |-> A, args |-> B, text |-> FlattenSeq(M), i |-> 1, buf |-> <<>>, sent |-> <<>>]
  BY DEF Call
<1> PICK T : T = FlattenSeq(M)
  OBVIOUS
<1>6. Call(s).text = T
  BY <1>5
<1> QED BY <1>4, <1>6

\* A call that returns has sent what it is to say.
LEMMA ReturnsSaid ==
  ASSUME NEW p, SaysSoFar(p), AtEnd(p), p.buf = <<>>
  PROVE  p.sent = p.text /\ IsText(p.sent)
<1> PICK x : x = p.sent
  OBVIOUS
<1>1. IsText(x)
  BY DEF SaysSoFar, Says
<1>2. x \o <<>> = p.text
  BY SoFarSaysAll DEF SaysAll
<1>3. x \o <<>> = x
  BY <1>1, JoinedEmpty
<1> QED BY <1>1, <1>2, <1>3

Size == Len(ShellText)

Separator(c) == c \in Delimiters \cup {NUL}

\* The first n characters of what the shell is to print.
Row(n) == [i \in 1 .. n |-> IF i = 1 \/ ShellText[i - 1] \in Delimiters THEN Newline ELSE ShellText[i - 1]]

\* The string as strtok leaves it when it has come to position e.
Torn(e) == [i \in 1 .. Size |-> IF i <= e /\ ShellText[i] \in Delimiters THEN NUL ELSE ShellText[i]]

Word(s, e) == [i \in 1 .. e - s |-> ShellText[s + i - 1]]

\* The word that starts at s ends before e.
Ends(s, e) ==
  /\ e \in s .. Size /\ Separator(ShellText[e])
  /\ \A i \in s .. e - 1 : ~Separator(ShellText[i])

\* The shell has this word as its token.
Token(th, s, e) ==
  /\ s \in 1 .. Size /\ Ends(s, e)
  /\ s > 1 => ShellText[s - 1] \in Delimiters
  /\ e = Size => s > 1
  /\ th.mem = Torn(e) /\ th.s = s /\ th.context = IF e < Size THEN e + 1 ELSE Size

NoToken(th) ==
  /\ th.s = NULL /\ th.context = NULL /\ th.mem = ShellText /\ th.said = <<>>
  /\ th.pc \in {"new", "startup", "main", "abort", "unrun"}

\* Where the shell is, and what it has said.
Reached(th, s, e) ==
  \/ th.pc = "newline" /\ th.said = Row(s - 1) /\ th.call.text = <<Newline>>
  \/ th.pc = "token" /\ th.said = Row(s)
  \/ th.pc = "word" /\ th.said = Row(s) /\ th.call.text = Word(s, e)
  \/ th.pc = "main" /\ th.said = Row(e)

Within(th, s, e) == Token(th, s, e) /\ Reached(th, s, e)

ShellOK(th) ==
  \/ NoToken(th)
  \/ th.pc \in {"exit", "exited"} /\ th.said = Words
  \/ \E s, e \in 1 .. Size : Within(th, s, e)

ShellInv == ShellOK(thread[Shell])

\* The shell's string, character by character.
LEMMA ShellTextFacts ==
  /\ IsText(ShellText) /\ Size \in Nat \ {0}
  /\ DOMAIN ShellText = 1 .. Size /\ ShellText = [i \in 1 .. Size |-> ShellText[i]]
  /\ \A i \in 1 .. Size : ShellText[i] = NUL <=> i = Size
<1>1. IsString(ShellText)
  BY ShellTextIsString
<1>2. IsText(ShellText) /\ Size \in Nat \ {0}
  BY <1>1 DEF IsString, IsText, Size
<1>3. DOMAIN ShellText = 1 .. Size /\ ShellText \in [1 .. Size -> {ShellText[i] : i \in 1 .. Size}]
  BY <1>2, TextFacts DEF Size
<1> QED BY <1>2, <1>3, ShellTextAssumption DEF Size

\* The string as strtok leaves it is as long as it was.
LEMMA TornIsText ==
  ASSUME NEW e
  PROVE  /\ IsText(Torn(e)) /\ Len(Torn(e)) = Size
         /\ \A i \in 1 .. Size : Torn(e)[i] = IF i <= e /\ ShellText[i] \in Delimiters THEN NUL ELSE ShellText[i]
<1> PICK x : x = Torn(e)
  OBVIOUS
<1>1. Size \in Nat
  BY ShellTextFacts
<1>2. x = [i \in 1 .. Size |-> x[i]]
  BY DEF Torn
<1>3. IsText(x) /\ Len(x) = Size
  BY <1>1, <1>2, TextOf
<1>4. \A i \in 1 .. Size : x[i] = IF i <= e /\ ShellText[i] \in Delimiters THEN NUL ELSE ShellText[i]
  BY DEF Torn
<1> QED BY <1>3, <1>4

\* What strtok leaves after a word that ends at f.
LEMMA TornNext ==
  ASSUME NEW e \in Nat, NEW f, Ends(e + 1, f)
  PROVE  /\ f < Size => [Torn(e) EXCEPT ![f] = NUL] = Torn(f)
         /\ f = Size => Torn(e) = Torn(f)
<1>1. Size \in Nat \ {0} /\ f \in e + 1 .. Size
  BY ShellTextFacts DEF Ends
<1>2. \A i \in e + 1 .. f - 1 : ShellText[i] \notin Delimiters
  BY DEF Ends, Separator
<1>3. ShellText[f] \in Delimiters \/ ShellText[f] = NUL
  BY DEF Ends, Separator
<1>4. ASSUME NEW i \in 1 .. Size, i # f
      PROVE  (i <= e /\ ShellText[i] \in Delimiters) <=> (i <= f /\ ShellText[i] \in Delimiters)
  <2>1. i <= e \/ i \in e + 1 .. f - 1 \/ i > f
    BY <1>1, <1>4
  <2> QED BY <1>1, <1>2, <2>1
<1> PICK g, h : g = Torn(e) /\ h = Torn(f)
  OBVIOUS
<1>5. /\ g = [i \in 1 .. Size |-> g[i]] /\ h = [i \in 1 .. Size |-> h[i]]
      /\ \A i \in 1 .. Size : g[i] = IF i <= e /\ ShellText[i] \in Delimiters THEN NUL ELSE ShellText[i]
      /\ \A i \in 1 .. Size : h[i] = IF i <= f /\ ShellText[i] \in Delimiters THEN NUL ELSE ShellText[i]
  BY DEF Torn
<1>6. \A i \in 1 .. Size : i # f => g[i] = h[i]
  BY <1>4, <1>5
<1>7. f \in 1 .. Size /\ f \in Nat
  BY <1>1
<1>8. ASSUME f < Size PROVE [g EXCEPT ![f] = NUL] = h
  <2>1. ShellText[f] \in Delimiters
    BY <1>3, <1>7, <1>8, ShellTextFacts
  <2>2. h[f] = NUL
    BY <1>5, <1>7, <2>1
  <2> QED BY <1>5, <1>6, <1>7, <2>2
<1>9. ASSUME f = Size PROVE g = h
  <2>1. ShellText[f] = NUL
    BY <1>7, <1>9, ShellTextFacts
  <2>2. g[f] = NUL /\ h[f] = NUL
    BY <1>5, <1>7, <2>1
  <2> QED BY <1>5, <1>6, <2>2
<1> QED BY <1>8, <1>9

\* strtok from behind a delimiter, or from the start.
LEMMA StrtokFinds ==
  ASSUME NEW e \in Nat, e < Size, e > 0 => ShellText[e] \in Delimiters
  PROVE  \E f : /\ Ends(e + 1, f)
                /\ strtok(Torn(e), IF e = 0 THEN 1 ELSE NULL, IF e = 0 THEN NULL ELSE e + 1) =
                     IF e = 0 /\ f = Size THEN [mem |-> Torn(e), context |-> NULL, token |-> NULL]
                     ELSE [mem |-> Torn(f), context |-> IF f < Size THEN f + 1 ELSE Size, token |-> e + 1]
<1> PICK m : m = Torn(e)
  OBVIOUS
<1> PICK n \in Nat \ {0} : n = Size
  BY ShellTextFacts
<1>1. Len(m) = n /\ \A i \in 1 .. n : m[i] = IF i <= e /\ ShellText[i] \in Delimiters THEN NUL ELSE ShellText[i]
  BY TornIsText
<1>2. \A i \in 1 .. n : ShellText[i] = NUL <=> i = n
  BY ShellTextFacts
<1> DEFINE Stops == {i \in e + 1 .. n : m[i] \in Delimiters \cup {NUL}}
<1>3. \A i \in e + 1 .. n : i \in 1 .. n /\ m[i] = ShellText[i]
  BY <1>1
<1>4. n \in Stops /\ Stops \in SUBSET Nat
  BY <1>2, <1>3
<1>5. PICK f \in Stops : f = Min(Stops) /\ \A i \in Stops : f <= i
  <2> HIDE DEF Stops
  <2> QED BY <1>4, MinIsLeast
<1>6. f \in e + 1 .. n /\ f \in Nat /\ m[f] = ShellText[f]
  BY <1>3, <1>5
<1>7. Ends(e + 1, f)
  <2>1. Separator(ShellText[f])
    BY <1>3, <1>5 DEF Separator
  <2>2. ASSUME NEW i \in e + 1 .. f - 1 PROVE ~Separator(ShellText[i])
    <3>1. i \in e + 1 .. n /\ ~(f <= i)
      BY <1>6
    <3>2. i \notin Stops
      BY <1>5, <3>1
    <3> QED BY <1>3, <3>1, <3>2 DEF Separator
  <2> QED BY <1>6, <2>1, <2>2 DEF Ends
<1>8. /\ f < n => [m EXCEPT ![f] = NUL] = Torn(f)
      /\ f = n => m = Torn(f)
  BY <1>7, TornNext
<1> DEFINE str == IF e = 0 THEN 1 ELSE NULL
           context == IF e = 0 THEN NULL ELSE e + 1
           cont == str = NULL
           from == IF cont THEN context ELSE str
<1>9. (cont <=> e # 0) /\ from = e + 1
  BY DEF NULL
<1> HIDE DEF Stops
<1>10. strtok(m, str, context) =
         CASE m[f] # NUL -> [mem |-> [m EXCEPT ![f] = NUL], context |-> f + 1, token |-> e + 1]
           [] m[f] = NUL /\ cont /\ m[context - 1] = NUL -> [mem |-> m, context |-> f, token |-> e + 1]
           [] OTHER -> [mem |-> m, context |-> context, token |-> NULL]
  <2>1. f = Min({i \in from .. Len(m) : m[i] \in Delimiters \cup {NUL}})
    BY <1>1, <1>5, <1>9 DEF Stops
  <2> HIDE DEF str, context
  <2> QED BY <1>9, <2>1 DEF strtok
<1>11. m[f] = NUL <=> f = n
  BY <1>2, <1>6
<1>12. CASE f # n
  <2>1. m[f] # NUL /\ f < n
    BY <1>6, <1>11, <1>12
  <2>2. strtok(m, str, context) = [mem |-> Torn(f), context |-> f + 1, token |-> e + 1]
    BY <1>8, <1>10, <2>1
  <2> QED BY <1>7, <1>12, <2>1, <2>2
<1>13. CASE f = n /\ e # 0
  <2>1. context - 1 = e /\ e \in 1 .. n
    BY <1>13
  <2>2. m[context - 1] = NUL
    BY <1>1, <1>13, <2>1
  <2>3. strtok(m, str, context) = [mem |-> Torn(f), context |-> f, token |-> e + 1]
    <3>1. m[f] = NUL /\ cont /\ m = Torn(f)
      BY <1>8, <1>9, <1>11, <1>13
    <3> HIDE DEF str, context, cont
    <3> QED BY <1>10, <2>2, <3>1
  <2> QED BY <1>7, <1>13, <2>3
<1>14. CASE f = n /\ e = 0
  <2>1. m[f] = NUL /\ ~cont
    BY <1>9, <1>11, <1>14
  <2>2. strtok(m, str, context) = [mem |-> m, context |-> context, token |-> NULL]
    <3> HIDE DEF str, context, cont
    <3> QED BY <1>10, <2>1
  <2> QED BY <1>7, <1>14, <2>2
<1> QED BY <1>12, <1>13, <1>14

\* strtok behind the last word: an empty one over and over if there the
\* string ended with a delimiter, and none otherwise.
LEMMA StrtokEnds ==
  ASSUME NEW s \in 1 .. Size, Ends(s, Size), s > 1, ShellText[s - 1] \in Delimiters
  PROVE  strtok(Torn(Size), NULL, Size) =
           [mem |-> Torn(Size), context |-> Size, token |-> IF s = Size THEN Size ELSE NULL]
<1> PICK m : m = Torn(Size)
  OBVIOUS
<1> PICK n \in Nat \ {0} : n = Size
  BY ShellTextFacts
<1>1. Len(m) = n /\ \A i \in 1 .. n : m[i] = IF i <= n /\ ShellText[i] \in Delimiters THEN NUL ELSE ShellText[i]
  BY TornIsText
<1>2. \A i \in 1 .. n : ShellText[i] = NUL <=> i = n
  BY ShellTextFacts
<1>3. m[n] = NUL /\ n - 1 \in 1 .. n
  BY <1>1, <1>2
<1>4. m[n - 1] = NUL <=> s = n
  <2>1. CASE s = n
    BY <1>1, <1>3, <2>1
  <2>2. CASE s # n
    <3>1. n - 1 \in s .. n - 1
      BY <2>2
    <3>2. ~Separator(ShellText[n - 1])
      BY <3>1 DEF Ends
    <3> QED BY <1>1, <1>3, <2>2, <3>2 DEF Separator
  <2> QED BY <2>1, <2>2
<1>5. n = Min({i \in n .. Len(m) : m[i] \in Delimiters \cup {NUL}})
  <2> DEFINE Stops == {i \in n .. Len(m) : m[i] \in Delimiters \cup {NUL}}
  <2>1. Stops = {n}
    BY <1>1, <1>3
  <2>2. Min(Stops) \in Stops
    <3>1. Stops \in SUBSET Nat /\ Stops # {}
      BY <2>1
    <3> HIDE DEF Stops
    <3> QED BY <3>1, MinIsLeast
  <2> QED BY <2>1, <2>2
<1>6. strtok(m, NULL, n) =
        CASE m[n] # NUL -> [mem |-> [m EXCEPT ![n] = NUL], context |-> n + 1, token |-> n]
          [] m[n] = NUL /\ m[n - 1] = NUL -> [mem |-> m, context |-> n, token |-> n]
          [] OTHER -> [mem |-> m, context |-> n, token |-> NULL]
  BY <1>5 DEF strtok
<1>7. CASE s = n
  <2>1. m[n] = NUL /\ m[n - 1] = NUL
    BY <1>3, <1>4, <1>7
  <2> QED BY <1>6, <1>7, <2>1
<1>8. CASE s # n
  <2>1. m[n] = NUL /\ m[n - 1] # NUL
    BY <1>3, <1>4, <1>8
  <2> QED BY <1>6, <1>8, <2>1
<1> QED BY <1>7, <1>8

\* A beginning of a text.
LEMMA BeginningIs ==
  ASSUME NEW x, IsText(x), NEW d \in 0 .. Len(x)
  PROVE  /\ IsText(SubSeq(x, 1, d)) /\ Len(SubSeq(x, 1, d)) = d
         /\ \A i \in 1 .. d : SubSeq(x, 1, d)[i] = x[i]
<1>1. PICK S : x \in Seq(S)
  BY DEF IsText
<1>2. \A i \in 1 .. d : x[i] \in S
  <2>1. \A i \in 1 .. d : i \in 1 .. Len(x)
    BY TextFacts
  <2> QED BY <1>1, <2>1, ElementOfSeq
<1>3. /\ SubSeq(x, 1, d) \in Seq(S)
      /\ Len(SubSeq(x, 1, d)) = IF 1 <= d THEN d - 1 + 1 ELSE 0
      /\ \A i \in 1 .. d - 1 + 1 : SubSeq(x, 1, d)[i] = x[1 + i - 1]
  <2>1. d \in Int
    OBVIOUS
  <2> QED BY <1>2, <2>1, SubSeqProperties
<1>4. (IF 1 <= d THEN d - 1 + 1 ELSE 0) = d /\ 1 .. d - 1 + 1 = 1 .. d /\ \A i \in 1 .. d : 1 + i - 1 = i
  <2>1. d \in Nat
    BY TextFacts
  <2> QED BY <2>1
<1> QED BY <1>3, <1>4 DEF IsText

\* The string at the shell's token is the word that starts there.
LEMMA StringOfToken ==
  ASSUME NEW s \in 1 .. Size, NEW e, Ends(s, e)
  PROVE  String(Torn(e), s) = Word(s, e) /\ IsText(Word(s, e)) /\ Len(Word(s, e)) = e - s
<1> PICK m : m = Torn(e)
  OBVIOUS
<1> PICK n \in Nat \ {0} : n = Size
  BY ShellTextFacts
<1>1. IsText(m) /\ Len(m) = n
      /\ \A i \in 1 .. n : m[i] = IF i <= e /\ ShellText[i] \in Delimiters THEN NUL ELSE ShellText[i]
  BY TornIsText
<1>2. \A i \in 1 .. n : ShellText[i] = NUL <=> i = n
  BY ShellTextFacts
<1>3. s \in 1 .. n /\ e \in s .. n /\ e \in Nat
  BY DEF Ends
<1>4. m[e] = NUL
  <2>1. ShellText[e] \in Delimiters \/ ShellText[e] = NUL
    BY DEF Ends, Separator
  <2> QED BY <1>1, <1>3, <2>1
<1>5. ASSUME NEW i \in s .. e - 1 PROVE m[i] = ShellText[i] /\ m[i] # NUL
  <2>1. ~Separator(ShellText[i])
    BY DEF Ends
  <2>2. i \in 1 .. n
    BY <1>3
  <2> QED BY <1>1, <2>1, <2>2 DEF Separator
<1> PICK S : m \in Seq(S)
  BY <1>1 DEF IsText
<1> PICK u : u = SubSeq(m, s, n)
  OBVIOUS
<1>6. IsText(u) /\ Len(u) = n - s + 1 /\ \A i \in 1 .. n - s + 1 : u[i] = m[s + i - 1]
  <2>1. \A i \in s .. n : m[i] \in S
    <3>1. \A i \in s .. n : i \in 1 .. Len(m)
      BY <1>1, <1>3
    <3> QED BY <3>1, ElementOfSeq
  <2>2. /\ u \in Seq(S)
        /\ Len(u) = IF s <= n THEN n - s + 1 ELSE 0
        /\ \A i \in 1 .. n - s + 1 : u[i] = m[s + i - 1]
    BY <1>3, <2>1, SubSeqProperties
  <2> QED BY <1>3, <2>2 DEF IsText
<1> PICK d \in Nat : d = e - s
  BY <1>3
<1>7. DOMAIN u = 1 .. n - s + 1 /\ d + 1 \in 1 .. n - s + 1
  BY <1>3, <1>6, TextFacts
<1>8. u[d + 1] = NUL /\ \A i \in 1 .. d : u[i] = ShellText[s + i - 1] /\ u[i] # NUL
  <2>1. s + (d + 1) - 1 = e
    BY <1>3
  <2>2. \A i \in 1 .. d : s + i - 1 \in s .. e - 1 /\ i \in 1 .. n - s + 1
    BY <1>3, <1>7
  <2> QED BY <1>4, <1>5, <1>6, <1>7, <2>1, <2>2
<1>9. NUL \in ToSet(u)
  BY <1>7, <1>8 DEF ToSet
<1>10. Min({i \in DOMAIN u : u[i] = NUL}) = d + 1
  <2> DEFINE Nuls == {i \in DOMAIN u : u[i] = NUL}
  <2>1. d + 1 \in Nuls
    BY <1>7, <1>8
  <2>2. Nuls \in SUBSET Nat
    BY <1>3, <1>7
  <2>3. PICK k \in Nuls : k = Min(Nuls) /\ k <= d + 1
    <3> HIDE DEF Nuls
    <3> QED BY <2>1, <2>2, MinIsLeast
  <2>4. k \in DOMAIN u /\ u[k] = NUL
    OBVIOUS
  <2>5. k \in 1 .. n - s + 1 /\ k <= d + 1
    BY <1>7, <2>3, <2>4
  <2>6. k \notin 1 .. d
    BY <1>8, <2>4
  <2>7. k = d + 1
    BY <1>3, <2>5, <2>6
  <2> QED BY <2>3, <2>7
<1> PICK w, v : w = Word(s, e) /\ v = SubSeq(u, 1, d)
  OBVIOUS
<1>11. IsText(w) /\ Len(w) = d /\ \A i \in 1 .. d : w[i] = ShellText[s + i - 1]
  <2>1. w = [i \in 1 .. d |-> ShellText[s + i - 1]]
    BY DEF Word
  <2>2. w = [i \in 1 .. d |-> w[i]] /\ \A i \in 1 .. d : w[i] = ShellText[s + i - 1]
    BY <2>1
  <2> QED BY <2>2, TextOf
<1>12. IsText(v) /\ Len(v) = d /\ \A i \in 1 .. d : v[i] = u[i]
  <2>1. d \in 0 .. Len(u)
    BY <1>6, <1>7
  <2> QED BY <1>6, <2>1, BeginningIs
<1>13. v = w
  <2>0. \A i \in 1 .. d : v[i] = w[i]
    BY <1>8, <1>11, <1>12
  <2>1. Len(v) = Len(w) /\ \A i \in 1 .. Len(v) : v[i] = w[i]
    BY <1>11, <1>12, <2>0
  <2> QED BY <1>11, <1>12, <2>1, SameText
<1>14. UpToNul(u) = v
  <2> PICK k : k = d + 1
    OBVIOUS
  <2>1. k - 1 = d
    OBVIOUS
  <2>2. UpToNul(u) = SubSeq(u, 1, k - 1)
    BY <1>9, <1>10 DEF UpToNul
  <2> QED BY <2>1, <2>2
<1>15. String(m, s) = UpToNul(u)
  BY <1>1 DEF String
<1> QED BY <1>11, <1>13, <1>14, <1>15

\* A beginning of what the shell is to print.
LEMMA RowIsText ==
  ASSUME NEW n \in Nat
  PROVE  /\ IsText(Row(n)) /\ Len(Row(n)) = n
         /\ \A i \in 1 .. n : Row(n)[i] = IF i = 1 \/ ShellText[i - 1] \in Delimiters THEN Newline ELSE ShellText[i - 1]
<1> PICK x : x = Row(n)
  OBVIOUS
<1>1. /\ x = [i \in 1 .. n |-> x[i]]
      /\ \A i \in 1 .. n : x[i] = IF i = 1 \/ ShellText[i - 1] \in Delimiters THEN Newline ELSE ShellText[i - 1]
  BY DEF Row
<1>2. IsText(x) /\ Len(x) = n
  BY <1>1, TextOf
<1> QED BY <1>1, <1>2

\* A newline and a word more.
LEMMA RowGrows ==
  ASSUME NEW s \in 1 .. Size, NEW e, Ends(s, e), s > 1 => ShellText[s - 1] \in Delimiters
  PROVE  Row(s - 1) \o <<Newline>> = Row(s) /\ Row(s) \o Word(s, e) = Row(e)
<1>1. Size \in Nat \ {0} /\ s \in Nat \ {0} /\ e \in s .. Size /\ e \in Nat
  BY ShellTextFacts DEF Ends
<1> PICK c, w : c = <<Newline>> /\ w = Word(s, e)
  OBVIOUS
<1>2. IsText(c) /\ Len(c) = 1 /\ c[1] = Newline
  BY OneIsText
<1>3. IsText(w) /\ Len(w) = e - s /\ \A i \in 1 .. e - s : w[i] = ShellText[s + i - 1]
  BY StringOfToken DEF Word
<1> PICK x, y, z : x = Row(s - 1) /\ y = Row(s) /\ z = Row(e)
  OBVIOUS
<1>4. IsText(x) /\ Len(x) = s - 1
      /\ \A i \in 1 .. s - 1 : x[i] = IF i = 1 \/ ShellText[i - 1] \in Delimiters THEN Newline ELSE ShellText[i - 1]
  <2>1. s - 1 \in Nat
    BY <1>1
  <2> QED BY <2>1, RowIsText
<1>5. IsText(y) /\ Len(y) = s
      /\ \A i \in 1 .. s : y[i] = IF i = 1 \/ ShellText[i - 1] \in Delimiters THEN Newline ELSE ShellText[i - 1]
  BY <1>1, RowIsText
<1>6. IsText(z) /\ Len(z) = e
      /\ \A i \in 1 .. e : z[i] = IF i = 1 \/ ShellText[i - 1] \in Delimiters THEN Newline ELSE ShellText[i - 1]
  BY <1>1, RowIsText
<1>7. x \o c = y
  <2>1. /\ IsText(x \o c) /\ Len(x \o c) = s
        /\ \A i \in 1 .. s - 1 : (x \o c)[i] = x[i]
        /\ (x \o c)[s] = Newline
    <3>1. /\ IsText(x \o c) /\ Len(x \o c) = Len(x) + Len(c)
          /\ \A i \in 1 .. Len(x) : (x \o c)[i] = x[i]
          /\ \A i \in 1 .. Len(c) : (x \o c)[Len(x) + i] = c[i]
      BY <1>2, <1>4, Joined
    <3>2. 1 \in 1 .. Len(c) /\ Len(x) + 1 = s /\ Len(x) + Len(c) = s
      BY <1>1, <1>2, <1>4
    <3> QED BY <1>2, <1>4, <3>1, <3>2
  <2> PICK v : v = x \o c
    OBVIOUS
  <2>2. \A i \in 1 .. s : v[i] = y[i]
    <3>1. y[s] = Newline
      BY <1>1, <1>5
    <3>2. \A i \in 1 .. s : i \in 1 .. s - 1 \/ i = s
      BY <1>1
    <3> QED BY <1>4, <1>5, <2>1, <3>1, <3>2
  <2>3. v = y
    BY <1>5, <2>1, <2>2, SameText
  <2> QED BY <2>3
<1>8. y \o w = z
  <2>1. /\ IsText(y \o w) /\ Len(y \o w) = s + (e - s)
        /\ \A i \in 1 .. s : (y \o w)[i] = y[i]
        /\ \A i \in 1 .. e - s : (y \o w)[s + i] = w[i]
    <3>0. IsText(y) /\ IsText(w)
      BY <1>3, <1>5
    <3>1. /\ IsText(y \o w) /\ Len(y \o w) = Len(y) + Len(w)
          /\ \A i \in 1 .. Len(y) : (y \o w)[i] = y[i]
          /\ \A i \in 1 .. Len(w) : (y \o w)[Len(y) + i] = w[i]
      BY <3>0, Joined
    <3> QED BY <1>3, <1>5, <3>1
  <2> PICK v : v = y \o w
    OBVIOUS
  <2>2. ASSUME NEW i \in 1 .. e PROVE v[i] = z[i]
    <3>1. CASE i <= s
      <4>1. i \in 1 .. s
        BY <1>1, <3>1
      <4>2. v[i] = y[i]
        BY <2>1, <4>1
      <4>3. z[i] = y[i]
        BY <1>5, <1>6, <4>1
      <4> QED BY <4>2, <4>3
    <3>2. CASE i > s
      <4> PICK k : k = i - s
        OBVIOUS
      <4>1. k \in 1 .. e - s /\ i = s + k /\ i - 1 = s + k - 1 /\ i # 1 /\ i - 1 \in s .. e - 1
        BY <1>1, <3>2
      <4>2. v[i] = ShellText[i - 1]
        BY <1>3, <2>1, <4>1
      <4>3. ShellText[i - 1] \notin Delimiters
        BY <4>1 DEF Ends, Separator
      <4>4. z[i] = IF i = 1 \/ ShellText[i - 1] \in Delimiters THEN Newline ELSE ShellText[i - 1]
        BY <1>6
      <4> QED BY <4>1, <4>2, <4>3, <4>4
    <3>3. i <= s \/ i > s
      BY <1>1
    <3> QED BY <3>1, <3>2, <3>3
  <2>3. Len(v) = e
    BY <1>1, <2>1
  <2>4. v = z
    BY <1>6, <2>1, <2>2, <2>3, SameText
  <2> QED BY <2>4
<1> QED BY <1>7, <1>8

\* All of it.
LEMMA WordsAreRow == Words = Row(Size)
<1> PICK n \in Nat \ {0} : n = Size
  BY ShellTextFacts
<1> PICK c, w : c = <<Newline>> /\ w = [i \in 1 .. n - 1 |-> IF ShellText[i] \in Delimiters THEN Newline ELSE ShellText[i]]
  OBVIOUS
<1>1. IsText(c) /\ Len(c) = 1 /\ c[1] = Newline
  BY OneIsText
<1>2. IsText(w) /\ Len(w) = n - 1 /\ \A i \in 1 .. n - 1 : w[i] = IF ShellText[i] \in Delimiters THEN Newline ELSE ShellText[i]
  <2>1. w = [i \in 1 .. n - 1 |-> w[i]] /\ \A i \in 1 .. n - 1 : w[i] = IF ShellText[i] \in Delimiters THEN Newline ELSE ShellText[i]
    OBVIOUS
  <2>2. n - 1 \in Nat
    OBVIOUS
  <2> QED BY <2>1, <2>2, TextOf
<1> PICK v, z : v = c \o w /\ z = Row(n)
  OBVIOUS
<1>3. IsText(v) /\ Len(v) = 1 + (n - 1) /\ (\A i \in 1 .. 1 : v[i] = c[i]) /\ \A i \in 1 .. n - 1 : v[1 + i] = w[i]
  BY <1>1, <1>2, Joined
<1>4. IsText(z) /\ Len(z) = n
      /\ \A i \in 1 .. n : z[i] = IF i = 1 \/ ShellText[i - 1] \in Delimiters THEN Newline ELSE ShellText[i - 1]
  BY RowIsText
<1>5. ASSUME NEW i \in 1 .. n PROVE v[i] = z[i]
  <2>1. CASE i = 1
    BY <1>1, <1>3, <1>4, <2>1
  <2>2. CASE i # 1
    <3>1. i - 1 \in 1 .. n - 1 /\ 1 + (i - 1) = i
      BY <2>2
    <3>2. v[i] = w[i - 1]
      BY <1>3, <3>1
    <3> QED BY <1>2, <1>4, <2>2, <3>1, <3>2
  <2> QED BY <2>1, <2>2
<1>6. v = z
  <2>1. Len(v) = n
    BY <1>3
  <2>2. IsText(v) /\ IsText(z) /\ Len(v) = Len(z)
    BY <1>3, <1>4, <2>1
  <2>3. \A i \in 1 .. Len(v) : v[i] = z[i]
    BY <1>5, <2>1
  <2> QED BY <2>2, <2>3, SameText
<1>7. Words = v
  BY DEF Words, Size
<1> QED BY <1>6, <1>7

-----------------------------------------------------------------------------
(* The shell at its words.                                                 *)

\* The shell is a thread.
LEMMA ShellIsThread == ASSUME ThreadsInv PROVE Shell \in Threads /\ ThreadOK(thread[Shell])
BY ShellAssumption DEF Threads, ThreadsInv

\* The shell has taken a step.
LEMMA ShellBecomes ==
  ASSUME ThreadsInv, NEW th, Becomes(thread', thread, Threads, Shell, th), ShellOK(th)
  PROVE  ShellInv'
<1>1. thread'[Shell] = th
  BY ShellIsThread DEF Becomes
<1> QED BY <1>1 DEF ShellInv

\* Another thread has.
LEMMA ShellStays ==
  ASSUME ThreadsInv, ShellInv, NEW t, t # Shell, NEW th, Becomes(thread', thread, Threads, t, th)
  PROVE  ShellInv'
<1>1. thread'[Shell] = thread[Shell]
  BY ShellIsThread DEF Becomes
<1> QED BY <1>1 DEF ShellInv

\* The token is still the same.
LEMMA TokenStays ==
  ASSUME NEW o, NEW th, th.mem = o.mem, th.s = o.s, th.context = o.context, NEW s, NEW e, Token(o, s, e)
  PROVE  Token(th, s, e)
BY DEF Token

\* Where the words of a token stand.
LEMMA TokenFacts ==
  ASSUME NEW o, NEW s, NEW e, Token(o, s, e)
  PROVE  /\ s \in 1 .. Size /\ e \in 1 .. Size /\ Size \in Nat \ {0} /\ Ends(s, e)
         /\ o.s = s /\ o.s # NULL /\ s # Size
         /\ e < Size => ShellText[e] \in Delimiters
<1>1. s \in 1 .. Size /\ e \in s .. Size /\ Size \in Nat \ {0} /\ Ends(s, e) /\ o.s = s
  BY ShellTextFacts DEF Token, Ends
<1>2. e \in 1 .. Size /\ s # NULL
  BY <1>1 DEF NULL
<1>3. ASSUME e < Size PROVE ShellText[e] \in Delimiters
  <2>1. Separator(ShellText[e])
    BY <1>1 DEF Ends
  <2>2. ShellText[e] # NUL
    BY <1>1, <1>2, <1>3, ShellTextFacts
  <2> QED BY <2>1, <2>2 DEF Separator
<1>4. s # Size
  <2> SUFFICES ASSUME s = Size PROVE FALSE
    OBVIOUS
  <2>1. e = Size
    BY <1>1
  <2>2. ShellText[Size - 1] \in Delimiters
    BY <2>1 DEF Token
  <2> QED BY <2>2, ShellTextAssumption DEF Size
<1> QED BY <1>1, <1>2, <1>3, <1>4

\* The shell's next word, or its end.
LEMMA MainKeepsShell ==
  ASSUME ThreadsInv, ShellInv, main(Shell)
  PROVE  ShellInv'
<1> PICK o : o = thread[Shell]
  OBVIOUS
<1>10. PICK r : r = strtok(o.mem, IF o.s = NULL THEN 1 ELSE NULL, o.context)
  OBVIOUS
<1>11. PICK call : call = Call(Plain(<<Newline>>))
  OBVIOUS
<1>12. PICK pc, m, c, s, d : pc = (IF r.token = NULL THEN "exit" ELSE "newline") /\ m = r.mem /\ c = r.context /\ s = r.token /\ d = o.said
  OBVIOUS
<1> PICK th : th = ThreadOf(pc, m, c, s, call, d)
  OBVIOUS
<1>1. Becomes(thread', thread, Threads, Shell, th)
  <2>1. Becomes(thread', thread, Threads, Shell,
                ThreadOf(IF r.token = NULL THEN "exit" ELSE "newline", r.mem, r.context, r.token,
                         Call(Plain(<<Newline>>)), o.said))
    BY <1>10, ShellIsThread, MainBecomes
  <2> QED BY <1>11, <1>12, <2>1
<1>2. o.pc = "main" /\ ShellOK(o)
  BY DEF main, Runs, ShellInv
<1>3. th.pc = pc /\ th.mem = m /\ th.context = c /\ th.s = s /\ th.call = call /\ th.said = d
  BY ThreadFields
<1>4. call.text = <<Newline>>
  <2> PICK x : x = <<Newline>>
    OBVIOUS
  <2>1. IsText(x)
    BY OneIsText
  <2>2. Call(Plain(x)).text = x
    BY <2>1, PlainSays
  <2> QED BY <1>11, <2>2
<1>5. Size \in Nat \ {0}
  BY ShellTextFacts
<1>6. ASSUME NEW e \in Nat, e < Size, e > 0 => ShellText[e] \in Delimiters, o.mem = Torn(e), d = Row(e),
             NEW f, Ends(e + 1, f), e = 0 => f # Size,
             r = [mem |-> Torn(f), context |-> IF f < Size THEN f + 1 ELSE Size, token |-> e + 1]
      PROVE  ShellOK(th)
  <2>1. m = Torn(f) /\ c = (IF f < Size THEN f + 1 ELSE Size) /\ s = e + 1
    BY <1>6, <1>12
  <2>2. e + 1 \in 1 .. Size /\ e + 1 # NULL /\ f \in 1 .. Size /\ (e + 1) - 1 = e
    BY <1>5, <1>6 DEF Ends, NULL
  <2>3. Token(th, e + 1, f)
    <3>1. e + 1 > 1 => ShellText[(e + 1) - 1] \in Delimiters
      BY <1>6, <2>2
    <3>2. f = Size => e + 1 > 1
      BY <1>6
    <3> QED BY <1>3, <1>6, <2>1, <2>2, <3>1, <3>2 DEF Token
  <2>4. Reached(th, e + 1, f)
    <3>1. th.pc = "newline"
      <4>1. pc = "newline"
        BY <1>6, <1>12, <2>2
      <4> QED BY <1>3, <4>1
    <3>2. th.said = Row((e + 1) - 1)
      BY <1>3, <1>6, <2>2
    <3> QED BY <1>3, <1>4, <3>1, <3>2 DEF Reached
  <2> QED BY <2>2, <2>3, <2>4 DEF ShellOK, Within
<1>7. ASSUME NoToken(o) PROVE ShellOK(th)
  <2>1. o.mem = Torn(0) /\ d = Row(0)
    <3>1. ShellText = Torn(0)
      <4>1. \A i \in 1 .. Size : ~(i <= 0)
        BY <1>5
      <4> QED BY <4>1, ShellTextFacts DEF Torn
    <3>2. Row(0) = <<>>
      <4> PICK x : x = Row(0)
        OBVIOUS
      <4>1. IsText(x) /\ Len(x) = 0
        BY RowIsText
      <4>2. x = <<>>
        BY <4>1, NothingIsText
      <4> QED BY <4>2
    <3> QED BY <1>7, <1>12, <3>1, <3>2 DEF NoToken
  <2>2. 0 \in Nat /\ 0 < Size /\ ~(0 > 0)
    BY <1>5
  <2>3. PICK f : /\ Ends(0 + 1, f)
                 /\ strtok(Torn(0), 1, NULL) =
                      IF f = Size THEN [mem |-> Torn(0), context |-> NULL, token |-> NULL]
                      ELSE [mem |-> Torn(f), context |-> IF f < Size THEN f + 1 ELSE Size, token |-> 0 + 1]
    BY <2>2, StrtokFinds
  <2>4. r = strtok(Torn(0), 1, NULL)
    BY <1>7, <1>10, <2>1 DEF NoToken
  <2>5. f # Size
    <3> PICK n \in Nat \ {0} : n = Size
      BY <1>5
    <3>1. PICK i \in 1 .. n - 1 : ShellText[i] \in Delimiters
      BY ShellTextAssumption DEF Size
    <3>2. \A k \in 0 + 1 .. f - 1 : ~Separator(ShellText[k])
      BY <2>3 DEF Ends
    <3>3. Separator(ShellText[i])
      BY <3>1 DEF Separator
    <3> SUFFICES ASSUME f = n PROVE FALSE
      OBVIOUS
    <3>4. i \in 0 + 1 .. f - 1
      OBVIOUS
    <3> QED BY <3>2, <3>3, <3>4
  <2>6. r = [mem |-> Torn(f), context |-> IF f < Size THEN f + 1 ELSE Size, token |-> 0 + 1]
    BY <2>3, <2>4, <2>5
  <2> QED BY <1>6, <2>1, <2>2, <2>3, <2>5, <2>6
<1>8. ASSUME NEW b \in 1 .. Size, NEW e \in 1 .. Size, Within(o, b, e)
      PROVE  ShellOK(th)
  <2>1. Token(o, b, e)
    BY <1>8 DEF Within
  <2>2. b \in 1 .. Size /\ Ends(b, e) /\ o.s # NULL /\ (e < Size => ShellText[e] \in Delimiters) /\ e \in b .. Size
    BY <2>1, TokenFacts DEF Ends
  <2>3. o.mem = Torn(e) /\ o.context = IF e < Size THEN e + 1 ELSE Size
    BY <2>1 DEF Token
  <2>4. d = Row(e)
    BY <1>2, <1>8, <1>12 DEF Within, Reached
  <2>5. r = strtok(Torn(e), NULL, o.context)
    BY <1>10, <2>2, <2>3
  <2>6. CASE e < Size
    <3>1. e \in Nat /\ e > 0 /\ e # 0
      OBVIOUS
    <3>2. PICK f : /\ Ends(e + 1, f)
                   /\ strtok(Torn(e), NULL, e + 1) =
                        [mem |-> Torn(f), context |-> IF f < Size THEN f + 1 ELSE Size, token |-> e + 1]
      BY <2>2, <2>6, <3>1, StrtokFinds
    <3>3. r = [mem |-> Torn(f), context |-> IF f < Size THEN f + 1 ELSE Size, token |-> e + 1]
      BY <2>3, <2>5, <2>6, <3>2
    <3> QED BY <1>6, <2>2, <2>3, <2>4, <2>6, <3>1, <3>2, <3>3
  <2>7. CASE e = Size
    <3>1. b > 1 /\ ShellText[b - 1] \in Delimiters
      BY <2>1, <2>7 DEF Token
    <3>2. r = [mem |-> Torn(Size), context |-> Size, token |-> IF b = Size THEN Size ELSE NULL]
      BY <1>5, <2>2, <2>3, <2>5, <2>7, <3>1, StrtokEnds
    <3>3. m = Torn(Size) /\ c = Size /\ s = IF b = Size THEN Size ELSE NULL
      BY <1>12, <3>2
    <3>4. b # Size
      BY <2>1, TokenFacts
    <3>5. th.pc = "exit" /\ th.said = Words
      BY <1>3, <1>12, <2>4, <2>7, <3>3, <3>4, WordsAreRow
    <3> QED BY <3>5 DEF ShellOK
  <2>8. e < Size \/ e = Size
    BY <1>5
  <2> QED BY <2>6, <2>7, <2>8
<1>9. ShellOK(th)
  BY <1>2, <1>7, <1>8 DEF ShellOK
<1> QED BY <1>1, <1>9, ShellBecomes

\* Within a call of printf the shell has a token.
LEMMA ShellPrints ==
  ASSUME NEW o, ShellOK(o), o.pc \in {"newline", "token", "word"}
  PROVE  \E s, e \in 1 .. Size : Within(o, s, e)
BY DEF ShellOK, NoToken

\* The shell prints its token.
LEMMA TokenKeepsShell ==
  ASSUME ThreadsInv, ShellInv, print_token(Shell)
  PROVE  ShellInv'
<1> PICK o : o = thread[Shell]
  OBVIOUS
<1> PICK call : call = Call(Plain(String(o.mem, o.s)))
  OBVIOUS
<1> PICK m, c, s, d : m = o.mem /\ c = o.context /\ s = o.s /\ d = o.said
  OBVIOUS
<1> PICK th : th = ThreadOf("word", m, c, s, call, d)
  OBVIOUS
<1>1. Becomes(thread', thread, Threads, Shell, th)
  <2>1. Printf(Shell, call, "word")
    BY DEF print_token
  <2>2. Becomes(thread', thread, Threads, Shell, ThreadOf("word", o.mem, o.context, o.s, call, o.said))
    BY <2>1, ShellIsThread, PrintfBecomes
  <2> QED BY <2>2
<1>2. o.pc = "token" /\ ShellOK(o)
  BY DEF print_token, Runs, ShellInv
<1>3. th.pc = "word" /\ th.mem = o.mem /\ th.context = o.context /\ th.s = o.s /\ th.call = call /\ th.said = o.said
  BY ThreadFields
<1>4. PICK b \in 1 .. Size, e \in 1 .. Size : Within(o, b, e)
  BY <1>2, ShellPrints
<1>5. Token(o, b, e)
  BY <1>4 DEF Within
<1>6. Token(th, b, e)
  BY <1>3, <1>5, TokenStays
<1>7. call.text = Word(b, e)
  <2>1. o.mem = Torn(e) /\ o.s = b
    BY <1>5 DEF Token
  <2> PICK x : x = Word(b, e)
    OBVIOUS
  <2>2. String(o.mem, o.s) = x /\ IsText(x)
    BY <1>5, <2>1, TokenFacts, StringOfToken
  <2>3. Call(Plain(x)).text = x
    BY <2>2, PlainSays
  <2> QED BY <2>2, <2>3
<1>8. Reached(th, b, e)
  BY <1>2, <1>3, <1>4, <1>7 DEF Within, Reached
<1>9. ShellOK(th)
  BY <1>3, <1>6, <1>8 DEF ShellOK, Within
<1> QED BY <1>1, <1>9, ShellBecomes

\* printf goes on for the shell.
LEMMA PrintfKeepsShell ==
  ASSUME ThreadsInv, ShellInv, printf(Shell)
  PROVE  ShellInv'
<1> PICK o : o = thread[Shell]
  OBVIOUS
<1> PICK p : p = o.call
  OBVIOUS
<1> PICK n : n = IF Flushes(p) THEN Flushed(NextOf(p)) ELSE NextOf(p)
  OBVIOUS
<1> PICK q, m, c, s, d : q = o.pc /\ m = o.mem /\ c = o.context /\ s = o.s /\ d = o.said
  OBVIOUS
<1> PICK th : th = ThreadOf(q, m, c, s, n, d)
  OBVIOUS
<1>1. /\ o.pc \in Callers /\ (~AtEnd(p) \/ p.buf # <<>>) /\ ~Overrun(p)
      /\ thread' = [thread EXCEPT ![Shell].call = n]
  BY DEF printf, Flushes, NextOf, Runs
<1>2. Becomes(thread', thread, Threads, Shell, th)
  <2>1. Becomes(thread', thread, Threads, Shell, ThreadOf(o.pc, o.mem, o.context, o.s, n, o.said))
    BY <1>1, ShellIsThread, CallBecomes
  <2> QED BY <2>1
<1>3. th.pc = o.pc /\ th.mem = o.mem /\ th.context = o.context /\ th.s = o.s /\ th.call = n /\ th.said = o.said
  BY ThreadFields
<1>4. n.text = o.call.text
  <2>1. SaysSoFar(p)
    BY ShellIsThread DEF ThreadOK
  <2> QED BY <1>1, <2>1, PrintfStep
<1>5. ShellOK(o) /\ o.pc \in {"newline", "token", "word"}
  <2>1. ShellOK(o)
    BY DEF ShellInv
  <2>2. o.pc # "last"
    BY <2>1 DEF ShellOK, NoToken, Within, Reached
  <2> QED BY <1>1, <2>1, <2>2 DEF Callers
<1>6. PICK b \in 1 .. Size, e \in 1 .. Size : Within(o, b, e)
  BY <1>5, ShellPrints
<1>7. Token(o, b, e)
  BY <1>6 DEF Within
<1>8. Token(th, b, e)
  BY <1>3, <1>7, TokenStays
<1>9. Within(th, b, e)
  BY <1>3, <1>4, <1>6, <1>8 DEF Within, Reached
<1>10. ShellOK(th)
  BY <1>9 DEF ShellOK
<1> QED BY <1>2, <1>10, ShellBecomes

\* printf returns to the shell.
LEMMA ReturnsKeepsShell ==
  ASSUME ThreadsInv, ShellInv, printf_returns(Shell)
  PROVE  ShellInv'
<1> PICK o : o = thread[Shell]
  OBVIOUS
<1> PICK call : call = Call(<<>>)
  OBVIOUS
<1>12. PICK pc, said : pc = ReturnTo(o.pc) /\ said = o.said \o o.call.sent
  OBVIOUS
<1>13. PICK m, c, s : m = o.mem /\ c = o.context /\ s = o.s
  OBVIOUS
<1> PICK th : th = ThreadOf(pc, m, c, s, call, said)
  OBVIOUS
<1>1. /\ o.pc \in Callers /\ AtEnd(o.call) /\ o.call.buf = <<>>
      /\ Becomes(thread', thread, Threads, Shell, th)
  <2>1. /\ o.pc \in Callers /\ AtEnd(o.call) /\ o.call.buf = <<>>
        /\ Becomes(thread', thread, Threads, Shell, ThreadOf(pc, o.mem, o.context, o.s, call, said))
    BY <1>12, ShellIsThread, ReturnBecomes
  <2> QED BY <1>13, <2>1
<1>2. th.pc = pc /\ th.mem = o.mem /\ th.context = o.context /\ th.s = o.s /\ th.said = said
  <2>1. th.pc = pc /\ th.mem = m /\ th.context = c /\ th.s = s /\ th.said = said
    BY ThreadFields
  <2> QED BY <1>13, <2>1
<1>3. said = o.said \o o.call.text
  <2>1. SaysSoFar(o.call)
    BY ShellIsThread DEF ThreadOK
  <2>2. o.call.sent = o.call.text
    BY <1>1, <2>1, ReturnsSaid
  <2> QED BY <1>12, <2>2
<1>4. ShellOK(o) /\ o.pc \in {"newline", "word"}
  <2>1. ShellOK(o)
    BY DEF ShellInv
  <2>2. o.pc # "last"
    BY <2>1 DEF ShellOK, NoToken, Within, Reached
  <2> QED BY <1>1, <2>1, <2>2 DEF Callers
<1>5. PICK b \in 1 .. Size, e \in 1 .. Size : Within(o, b, e)
  BY <1>4, ShellPrints
<1>6. Token(o, b, e)
  BY <1>5 DEF Within
<1>7. Token(th, b, e)
  BY <1>2, <1>6, TokenStays
<1>8. Row(b - 1) \o <<Newline>> = Row(b) /\ Row(b) \o Word(b, e) = Row(e)
  <2>1. b > 1 => ShellText[b - 1] \in Delimiters
    BY <1>6 DEF Token
  <2> QED BY <1>6, <2>1, TokenFacts, RowGrows
<1>9. pc \in {"token", "main"} /\ (o.pc = "newline" => pc = "token") /\ (o.pc = "word" => pc = "main")
  BY <1>4, <1>12 DEF ReturnTo
<1>10. Reached(th, b, e)
  <2>2. CASE Reached(o, b, e) /\ o.pc = "newline"
    <3>1. o.said = Row(b - 1) /\ o.call.text = <<Newline>>
      BY <2>2 DEF Reached
    <3>2. said = Row(b) /\ th.pc = "token"
      BY <1>2, <1>3, <1>8, <1>9, <2>2, <3>1
    <3> QED BY <1>2, <3>2 DEF Reached
  <2>3. CASE Reached(o, b, e) /\ o.pc = "word"
    <3>1. o.said = Row(b) /\ o.call.text = Word(b, e)
      BY <2>3 DEF Reached
    <3>2. said = Row(e) /\ th.pc = "main"
      BY <1>2, <1>3, <1>8, <1>9, <2>3, <3>1
    <3> QED BY <1>2, <3>2 DEF Reached
  <2> QED BY <1>4, <1>5, <2>2, <2>3 DEF Within
<1>11. ShellOK(th)
  BY <1>2, <1>7, <1>9, <1>10 DEF ShellOK, Within
<1> QED BY <1>1, <1>11, ShellBecomes

\* The shell starts with its string whole, or has ended.
LEMMA InitialShell ==
  ASSUME Init
  PROVE  ShellInv
<1>1. PICK users : thread = [t \in Threads |-> IF t \in users THEN New ELSE [New EXCEPT !.pc = "unrun"]]
  <2>1. PICK session \in Sessions :
          thread = [t \in Threads |-> IF t \in session.users \cup {Idle} THEN New ELSE [New EXCEPT !.pc = "unrun"]]
    BY DEF Init
  <2> PICK users : users = session.users \cup {Idle}
    OBVIOUS
  <2> QED BY <2>1
<1>2. Shell \in Threads
  BY ShellAssumption DEF Threads
<1>3. NoToken(New) /\ NoToken([New EXCEPT !.pc = "unrun"])
  BY DEF NoToken, New
<1>4. NoToken(thread[Shell])
  BY <1>1, <1>2, <1>3
<1> QED BY <1>4 DEF ShellInv, ShellOK

\* A step that changes where the shell is, outside of its calls of printf.
PcGoes(from, to) ==
  \/ from = "new" /\ to = "startup"
  \/ from = "startup" /\ to \in {"main", "abort"}
  \/ from = "abort" /\ to = "unrun"
  \/ from = "exit" /\ to = "exited"

LEMMA PcKeepsShell ==
  ASSUME ThreadsInv, ShellInv, NEW t, NEW pc, thread' = [thread EXCEPT ![t].pc = pc],
         t = Shell => PcGoes(thread[t].pc, pc)
  PROVE  ShellInv'
<1>1. CASE t = Shell
  <2> PICK o : o = thread[Shell]
    OBVIOUS
  <2> PICK m, c, s, l, d : m = o.mem /\ c = o.context /\ s = o.s /\ l = o.call /\ d = o.said
    OBVIOUS
  <2> PICK th : th = ThreadOf(pc, m, c, s, l, d)
    OBVIOUS
  <2>1. Becomes(thread', thread, Threads, Shell, th)
    <3>1. Becomes(thread', thread, Threads, Shell, ThreadOf(pc, o.mem, o.context, o.s, o.call, o.said))
      BY <1>1, ShellIsThread, PcBecomes
    <3> QED BY <3>1
  <2>2. th.pc = pc /\ th.mem = o.mem /\ th.context = o.context /\ th.s = o.s /\ th.said = o.said
    BY ThreadFields
  <2>3. ShellOK(o) /\ PcGoes(o.pc, pc)
    BY <1>1 DEF ShellInv
  <2>4. CASE NoToken(o)
    <3>1. NoToken(th)
      BY <2>2, <2>3, <2>4 DEF NoToken, PcGoes
    <3>2. ShellOK(th)
      BY <3>1 DEF ShellOK
    <3> QED BY <2>1, <3>2, ShellBecomes
  <2>5. CASE ~NoToken(o)
    <3>1. o.pc = "exit" /\ o.said = Words
      BY <2>3, <2>5 DEF ShellOK, Within, Reached, PcGoes
    <3>2. th.pc = "exited" /\ th.said = Words
      BY <2>2, <2>3, <3>1 DEF PcGoes
    <3>3. ShellOK(th)
      BY <3>2 DEF ShellOK
    <3> QED BY <2>1, <3>3, ShellBecomes
  <2> QED BY <2>4, <2>5
<1>2. CASE t # Shell
  <2>1. thread'[Shell] = thread[Shell]
    <3>1. thread = [u \in Threads |-> thread[u]] /\ Shell \in Threads
      BY ShellIsThread DEF ThreadsInv
    <3> QED BY <1>2, <3>1
  <2> QED BY <2>1 DEF ShellInv
<1> QED BY <1>1, <1>2

\* What a thread does, the shell or another.
LEMMA ThreadKeepsShell ==
  ASSUME ThreadsInv, ShellInv, NEW t \in Threads, Thread(t)
  PROVE  ShellInv'
<1>1. CASE Start(t) \/ exit(t)
  <2>1. thread' = thread
    BY <1>1 DEF Start, exit
  <2> QED BY <2>1 DEF ShellInv
<1>2. CASE main(t)
  <2>1. t = Shell
    BY <1>2 DEF main
  <2> QED BY <1>2, <2>1, MainKeepsShell
<1> PICK o : o = thread[t]
  OBVIOUS
<1>3. CASE print_token(t)
  <2>1. CASE t = Shell
    BY <1>3, <2>1, TokenKeepsShell
  <2>2. CASE t # Shell
    <3>1. Printf(t, Call(Plain(String(o.mem, o.s))), "word")
      BY <1>3 DEF print_token
    <3>2. \E th : Becomes(thread', thread, Threads, t, th)
      BY <3>1, PrintfBecomes
    <3> QED BY <2>2, <3>2, ShellStays
  <2> QED BY <2>1, <2>2
<1>4. CASE other_main(t)
  <2>1. PICK pieces \in Calls : Printf(t, Call(pieces), "last")
    BY <1>4 DEF other_main
  <2>2. t # Shell
    BY <1>4 DEF other_main
  <2>3. \E th : Becomes(thread', thread, Threads, t, th)
    BY <2>1, PrintfBecomes
  <2> QED BY <2>2, <2>3, ShellStays
<1>5. CASE printf(t)
  <2>1. CASE t = Shell
    BY <1>5, <2>1, PrintfKeepsShell
  <2>2. CASE t # Shell
    <3>1. PICK call : thread' = [thread EXCEPT ![t].call = call]
      BY <1>5 DEF printf
    <3>2. \E th : Becomes(thread', thread, Threads, t, th)
      BY <3>1, CallBecomes
    <3> QED BY <2>2, <3>2, ShellStays
  <2> QED BY <2>1, <2>2
<1>6. CASE printf_returns(t)
  <2>1. CASE t = Shell
    BY <1>6, <2>1, ReturnsKeepsShell
  <2>2. CASE t # Shell
    <3>1. \E th : Becomes(thread', thread, Threads, t, th)
      BY <1>6, ReturnBecomes
    <3> QED BY <2>2, <3>1, ShellStays
  <2> QED BY <2>1, <2>2
<1>7. CASE lios_startup(t)
  <2>1. PICK pc \in {"main", "abort"} : thread' = [thread EXCEPT ![t].pc = pc]
    BY <1>7 DEF lios_startup
  <2>2. PcGoes(thread[t].pc, pc)
    BY <1>7 DEF lios_startup, Runs, PcGoes
  <2> QED BY <2>1, <2>2, PcKeepsShell
<1> QED BY <1>1, <1>2, <1>3, <1>4, <1>5, <1>6, <1>7 DEF Thread

\* Every step keeps the shell at its words.
LEMMA ShellStep ==
  ASSUME ThreadsInv, ShellInv, [Next]_vars
  PROVE  ShellInv'
<1>1. ASSUME thread' = thread PROVE ShellInv'
  BY <1>1 DEF ShellInv
<1>2. CASE KeyEvent \/ Tick \/ OtherDevice \/ Interrupt \/ UNCHANGED vars
  <2>1. thread' = thread
    BY <1>2 DEF KeyEvent, Tick, OtherDevice, Raise, Interrupt, vars
  <2> QED BY <1>1, <2>1
<1>3. CASE Handler
  <2>1. CASE call_handler_exit
    <3> PICK t, pc : t = current /\ pc = IF thread[current].pc = "exit" THEN "exited" ELSE "unrun"
      OBVIOUS
    <3>1. thread' = [thread EXCEPT ![t].pc = pc] /\ thread[t].pc \in {"exit", "abort"}
      BY <2>1 DEF call_handler_exit
    <3>2. PcGoes(thread[t].pc, pc)
      BY <3>1 DEF PcGoes
    <3> QED BY <3>1, <3>2, PcKeepsShell
  <2>2. CASE FirstFault
    <3>1. thread' = [thread EXCEPT ![current].pc = "startup"] /\ thread[current].pc = "new"
      BY <2>2 DEF FirstFault
    <3> PICK t, pc : t = current /\ pc = "startup"
      OBVIOUS
    <3>2. PcGoes(thread[t].pc, pc)
      BY <3>1 DEF PcGoes
    <3> QED BY <3>1, <3>2, PcKeepsShell
  <2>3. CASE ~call_handler_exit /\ ~FirstFault
    <3>1. thread' = thread
      BY <1>3, <2>3 DEF Handler, timer_handler, KeyboardInterrupt, call_handler_print, NoHandler,
         panic_display_message, PrintNext, Leave
    <3> QED BY <1>1, <3>1
  <2> QED BY <2>1, <2>2, <2>3
<1>4. CASE \E t \in Users : Thread(t) \/ Crash(t)
  <2>1. PICK t \in Users : Thread(t) \/ Crash(t)
    BY <1>4
  <2>2. t \in Threads
    BY DEF Users
  <2>3. Crash(t) => thread' = thread
    BY DEF Crash
  <2> QED BY <1>1, <2>1, <2>2, <2>3, ThreadKeepsShell
<1> QED BY <1>2, <1>3, <1>4 DEF Next, UserStep

-----------------------------------------------------------------------------

\* The inductive invariant of the interrupts and of the keyboard.
THEOREM ConsoleInvariant == FairSpec => []Inv
BY InitialState, Step, PTL DEF FairSpec

\* Handlers never nest, and outside of them no line is served and the
\* processor takes interrupts: whatever devices raise, in any order, and
\* whatever calls, faults and prints the threads make.
THEOREM HandlersAlwaysRunAlone == FairSpec => []HandlersRunAlone
<1>1. Inv => HandlersRunAlone
  <2> SUFFICES ASSUME Inv PROVE HandlersRunAlone
    OBVIOUS
  <2>1. CASE frames = <<>>
    <3>1. Len(frames) <= 1
      BY <2>1
    <3>2. inService = {} /\ enabled
      BY <2>1, Zenon DEF Inv, AloneInv
    <3> QED BY <3>1, <3>2, Zenon DEF HandlersRunAlone
  <2>2. CASE frames # <<>>
    <3>1. Len(frames) = 1
      BY <2>2, FrameFacts DEF Inv, AloneInv
    <3>2. Len(frames) <= 1
      BY <3>1
    <3> QED BY <2>2, <3>2, Zenon DEF HandlersRunAlone, Quiet
  <2> QED BY <2>1, <2>2
<1> QED BY <1>1, ConsoleInvariant, PTL

\* keyShift is the state of the left shift key as soon as every code has been
\* read and none was lost, for any keys, buffer and sequence of presses.
THEOREM ShiftIsAlwaysFollowed == FairSpec => []ShiftIsFollowed
<1>1. Inv => ShiftIsFollowed
  BY DEF Inv, ShiftInv, ShiftSoFar, ShiftIsFollowed
<1> QED BY <1>1, ConsoleInvariant, PTL

\* The keyboard's handler never reads a port without a code.
THEOREM CodeIsAlwaysThere == FairSpec => []CodeIsThere
<1>1. Inv => CodeIsThere
  BY DEF Inv, ShiftInv
<1> QED BY <1>1, ConsoleInvariant, PTL

\* What handlers and threads hand over is text; what is on the screen is what
\* they have said; and what a call of printf has said is what it should have.
SpeechInv == MessageIsText /\ ThreadsInv /\ TextInv

\* The inductive invariant of screen, messages and calls of printf.
THEOREM SpeechInvariant ==
  FairSpec => []SpeechInv
<1>1. Init => SpeechInv
  <2> SUFFICES ASSUME Init PROVE SpeechInv
    OBVIOUS
  <2>1. frames = <<>>
    BY DEF Init, InitInterrupts
  <2> QED BY <2>1, InitialThreads, InitialText DEF SpeechInv, MessageIsText
<1>2. Inv /\ Inv' /\ SpeechInv /\ [Next]_vars => SpeechInv'
  <2> SUFFICES ASSUME Inv, Inv', SpeechInv, [Next]_vars PROVE SpeechInv'
    OBVIOUS
  <2>1. AloneInv /\ AloneInv' /\ MessageIsText /\ ThreadsInv /\ TextInv
    BY DEF Inv, SpeechInv
  <2> QED BY <2>1, SpeakStep, TextStep DEF SpeechInv
<1> QED BY <1>1, <1>2, ConsoleInvariant, PTL DEF FairSpec

\* Each printf makes the kernel print what its format and its arguments say, in
\* order and within its buffer, however the buffer is cut into messages and
\* whatever interrupts it: for any formats and buffer, until a plain character
\* finds the buffer filled up by %c, which is where printf loses its place.
THEOREM PrintfAlwaysSaysAll ==
  FairSpec => []PrintfSaysAll
<1>1. SpeechInv => PrintfSaysAll
  <2> SUFFICES ASSUME SpeechInv, NEW t \in Threads PROVE SaysAll(thread[t].call)
    BY DEF PrintfSaysAll
  <2>1. SaysSoFar(thread[t].call)
    BY DEF SpeechInv, ThreadsInv, ThreadOK
  <2> QED BY <2>1, SoFarSaysAll
<1> QED BY <1>1, SpeechInvariant, PTL

\* Whenever no handler runs, screen and cursor show the messages of keyboard
\* and programs one after the other: for any screen, keys, texts and programs.
THEOREM ScreenAlwaysShowsText ==
  FairSpec => []ScreenShowsText
<1>1. SpeechInv => ScreenShowsText
  <2> SUFFICES ASSUME SpeechInv, Quiet PROVE screen.mem = Window(text) /\ screen.cursor = Len(text)
    BY DEF ScreenShowsText
  <2>1. Shows(screen, text) /\ screen.cursor = At(screen)
    BY DEF SpeechInv, TextInv, Quiet, Printing
  <2> QED BY <2>1 DEF Shows, Follows
<1> QED BY <1>1, SpeechInvariant, PTL

\* The shell has printed the words of its string, each on a row of its own,
\* when it comes back from main: for any delimiters, buffer and string of two
\* words or more with the last one at its end (ShellTextAssumption), whatever
\* else runs or is printed in between.
THEOREM ShellAlwaysPrintsWords ==
  FairSpec => []ShellPrintsWords
<1>1. SpeechInv /\ ShellInv /\ [Next]_vars => ShellInv'
  BY ShellStep DEF SpeechInv
<1>2. Init => ShellInv
  BY InitialShell
<1>3. ShellInv => ShellPrintsWords
  <2> SUFFICES ASSUME ShellInv, thread[Shell].pc = "exited"
               PROVE  thread[Shell].said = Words
    BY DEF ShellPrintsWords
  <2> QED BY DEF ShellInv, ShellOK, NoToken, Within, Reached
<1> QED BY <1>1, <1>2, <1>3, SpeechInvariant, PTL DEF FairSpec

=============================================================================
