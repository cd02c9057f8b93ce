------------------------------- MODULE Printf -------------------------------
(***************************************************************************)
(* printf of api/stdio/printf.c with itoa and strrev, and strtok of        *)
(* api/string/string.c.  A call of printf in progress is a record: format  *)
(* and args; i, the position in the format; buf, the characters before bc; *)
(* and the ghosts sent, what it has printed, and text, what it should.     *)
(***************************************************************************)
EXTENDS Integers, Sequences, SequencesExt, FiniteSetsExt

CONSTANTS
  PRINTF_BUF_LEN,      \* 64
  DecimalRoom,         \* 12, what %d wants to be free in the buffer
  HexRoom,             \* 10, what %x wants
  IntSize,             \* how many values an int has, 2^32
  Delimiters           \* of strtok

ASSUME PrintfAssumption ==
  /\ PRINTF_BUF_LEN \in Nat /\ PRINTF_BUF_LEN >= 2
  /\ DecimalRoom \in Nat /\ HexRoom \in Nat

NUL == "nul"
NULL == 0

DigitNames == <<"0", "1", "2", "3", "4", "5", "6", "7", "8", "9", "A", "B", "C", "D", "E", "F">>

\* A string as who reads it sees it: up to its NUL.
UpToNul(s) ==
  IF NUL \in ToSet(s) THEN SubSeq(s, 1, Min({i \in DOMAIN s : s[i] = NUL}) - 1) ELSE s

-----------------------------------------------------------------------------
(* Numbers.                                                                *)

\* The loop that swaps the ends: i and Len - 1 - i for each i before the
\* middle.
strrev(s) ==
  LET n == Len(s)
      t[i \in 0 .. n \div 2] ==
        IF i = 0 THEN s
        ELSE [t[i - 1] EXCEPT ![i] = t[i - 1][n + 1 - i], ![n + 1 - i] = t[i - 1][i]]
  IN  t[n \div 2]

\* The least significant digit comes first.
Digits(base) ==
  LET f[v \in 0 .. IntSize - 1] ==
        IF v = 0 THEN <<>> ELSE <<DigitNames[(v % base) + 1]>> \o f[v \div base]
  IN  f

itoa(value, base) ==
  LET negative == value < 0 /\ base = 10
      val == (IF negative THEN - value ELSE value) % IntSize
  IN  IF value = 0 THEN <<"0">>
      ELSE strrev(Digits(base)[val] \o (IF negative THEN <<"-">> ELSE <<>>))

\* What a digit is worth, counted from the last.
Weights(base) ==
  LET w[k \in 0 .. IntSize] == IF k = 0 THEN 1 ELSE base * w[k - 1]
  IN  w

\* A number has n digits, no zeros before them, or is 0.
HasDigits(size, base, n) ==
  size < Weights(base)[n] /\ (n > 1 => Weights(base)[n - 1] <= size)

\* The digits of a number, by their weight.
Numeral(size, base) ==
  LET n == CHOOSE k \in 1 .. IntSize : HasDigits(size, base, k)
  IN  [k \in 1 .. n |-> DigitNames[((size \div Weights(base)[n - k]) % base) + 1]]

\* How a number is written: only decimal numbers have a sign.
NumberText(value, base) ==
  IF base = 10 /\ value < 0 THEN <<"-">> \o Numeral(- value, base)
  ELSE Numeral(value % IntSize, base)

Ints == - (IntSize \div 2) .. IntSize \div 2 - 1

\* An int has 32 bits, and 12 and 10 are enough for any with its sign.
ASSUME IntAssumption ==
  /\ IntSize \in Nat \ {0} /\ IntSize % 2 = 0
  /\ DecimalRoom - 2 \in 0 .. IntSize /\ IntSize \div 2 < Weights(10)[DecimalRoom - 2]
  /\ HexRoom - 1 \in 0 .. IntSize /\ IntSize <= Weights(16)[HexRoom - 1]

\* itoa writes every int as it is written, in less than the room for it.
ItoaIsRight ==
  \A v \in Ints :
    /\ itoa(v, 10) = NumberText(v, 10) /\ itoa(v, 16) = NumberText(v, 16)
    /\ \A base \in {10, 16} : itoa(v, base) \in Seq(ToSet(itoa(v, base)))
    /\ Len(itoa(v, 10)) < DecimalRoom /\ Len(itoa(v, 16)) < HexRoom

-----------------------------------------------------------------------------
(* printf.  A call is given as its pieces: characters of the format, and   *)
(* pairs of a specifier with its argument.                                 *)

IsPlain(piece) == Len(piece) = 1

FormatOf(piece) == IF IsPlain(piece) THEN piece ELSE <<"%", piece[1]>>
ArgsOf(piece)   == IF IsPlain(piece) THEN <<>> ELSE <<piece[2]>>
MeantBy(piece)  ==
  IF IsPlain(piece) THEN piece
  ELSE CASE piece[1] \in {"d", "i"} -> NumberText(piece[2], 10)
         [] piece[1] = "x" -> NumberText(piece[2], 16)
         [] piece[1] = "c" -> <<piece[2]>>
         [] OTHER -> <<>>

Call(pieces) ==
  [format |-> FlattenSeq([k \in DOMAIN pieces |-> FormatOf(pieces[k])]),
   args   |-> FlattenSeq([k \in DOMAIN pieces |-> ArgsOf(pieces[k])]),
   text   |-> FlattenSeq([k \in DOMAIN pieces |-> MeantBy(pieces[k])]),
   i |-> 1, buf |-> <<>>, sent |-> <<>>]

\* Specifiers printf knows, with the arguments they want; another one leaves
\* its argument to the next.  A NUL given to %c would end what the kernel
\* prints of the buffer.
WellFormed(pieces) ==
  /\ pieces \in Seq(ToSet(pieces))
  /\ \A k \in DOMAIN pieces :
       \/ pieces[k] = <<pieces[k][1]>> /\ pieces[k][1] \notin {"%", NUL}
       \/ /\ pieces[k] = <<pieces[k][1], pieces[k][2]>>
          /\ \/ pieces[k][1] \in {"d", "i", "x"} /\ pieces[k][2] \in Ints
             \/ pieces[k][1] = "c" /\ pieces[k][2] # NUL
             \/ pieces[k][1] \notin {"d", "i", "x", "c"} /\ k = Len(pieces)

AtEnd(p) == p.i > Len(p.format)

Specified(p) == ~AtEnd(p) /\ p.format[p.i] = "%"

Specifier(p) == p.format[p.i + 1]

\* What is written for the specifier, and the room it asks for.
Converted(p) ==
  CASE Specifier(p) \in {"d", "i"} -> itoa(Head(p.args), 10)
    [] Specifier(p) = "x"          -> itoa(Head(p.args), 16)
    [] Specifier(p) = "c"          -> <<Head(p.args)>>
    [] OTHER                       -> <<>>

RoomFor(p) ==
  CASE Specifier(p) \in {"d", "i"} -> DecimalRoom
    [] Specifier(p) = "x"          -> HexRoom
    [] Specifier(p) = "c"          -> 1
    [] OTHER                       -> 0

\* A slip: no byte is kept for the NUL.
Room_without_nul(p) == PRINTF_BUF_LEN - Len(p.buf)

Room(p) == PRINTF_BUF_LEN - Len(p.buf) - 1

\* The buffer is printed before what comes next is put into it.
FlushesFirst(p) ==
  \/ Specified(p) /\ Room(p) < RoomFor(p)
  \/ AtEnd(p) /\ p.buf # <<>>

Consumed(p) ==
  IF Specified(p)
  THEN [p EXCEPT !.buf = @ \o Converted(p), !.i = @ + 2,
                 !.args = IF RoomFor(p) > 0 THEN Tail(@) ELSE @]
  ELSE [p EXCEPT !.buf = Append(@, p.format[p.i]), !.i = @ + 1]

\* A plain character fills the buffer up, and it is printed at once.
FlushesAfter(p) == ~Specified(p) /\ Len(p.buf) + 1 = PRINTF_BUF_LEN - 1

\* The kernel prints what it is given up to the first NUL.
Flushed(p) == [p EXCEPT !.sent = @ \o UpToNul(p.buf), !.buf = <<>>]

\* A plain character that finds the buffer full takes the byte of the NUL, its
\* test for a full buffer is past, and what follows, the NUL at least, is
\* written behind the end.
Overrun(p) ==
  ~AtEnd(p) /\ ~Specified(p) /\ Len(p.buf) = PRINTF_BUF_LEN - 1

\* printf has written what its caller asked for, no more and no less, in
\* order, and stays within its buffer.
SaysAll(p) ==
  /\ Len(p.buf) < PRINTF_BUF_LEN
  /\ IsPrefix(p.sent \o p.buf, p.text)
  /\ AtEnd(p) => p.sent \o p.buf = p.text

-----------------------------------------------------------------------------
(* strtok.  Pointers are positions in m; what it returns is the token, with *)
(* m and the context as it leaves them.                                    *)

\* A slip: what stands behind the last delimiter is not a token.
strtok_without_last(m, str, context) ==
  LET from == IF str = NULL THEN context ELSE str
      stop == Min({i \in from .. Len(m) : m[i] \in Delimiters \cup {NUL}})
  IN  IF m[stop] # NUL
      THEN [mem |-> [m EXCEPT ![stop] = NUL], context |-> stop + 1, token |-> from]
      ELSE [mem |-> m, context |-> context, token |-> NULL]

strtok(m, str, context) ==
  LET cont == str = NULL
      from == IF cont THEN context ELSE str
      stop == Min({i \in from .. Len(m) : m[i] \in Delimiters \cup {NUL}})
  IN  CASE m[stop] # NUL ->
             [mem |-> [m EXCEPT ![stop] = NUL], context |-> stop + 1, token |-> from]
        [] m[stop] = NUL /\ cont /\ m[context - 1] = NUL ->
             [mem |-> m, context |-> stop, token |-> from]
        [] OTHER ->
             [mem |-> m, context |-> context, token |-> NULL]

=============================================================================
