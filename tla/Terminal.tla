------------------------------ MODULE Terminal ------------------------------
(* What a screen promises to those who print on it: a text of rows of      *)
(* COLS cells that grows at its end, of which the last ROWS rows are seen. *)
EXTENDS Integers, Sequences, SequencesExt

CONSTANTS SCREEN_COLS, SCREEN_ROWS

ASSUME ScreenAssumption == SCREEN_COLS \in Nat \ {0} /\ SCREEN_ROWS \in Nat \ {0}

Blank == " "
Newline == "newline"
Backspace == "backspace"
Esc == "esc"

\* The rows that have left the window are forgotten: nothing leads back.
Seen(text) ==
  IF Len(text) < SCREEN_COLS * SCREEN_ROWS THEN text
  ELSE SubSeq(text, SCREEN_COLS + 1, Len(text))

\* A newline fills the row up, a backspace takes the last cell away.
Typed(text, c) ==
  CASE c = Newline   -> Seen(text \o [i \in 1 .. SCREEN_COLS - (Len(text) % SCREEN_COLS) |-> Blank])
    [] c = Backspace -> IF text = <<>> THEN text ELSE Front(text)
    [] c = Esc       -> <<>>
    [] OTHER         -> Seen(Append(text, c))

Said(text, message) ==
  LET said[k \in 0 .. Len(message)] ==
        IF k = 0 THEN text ELSE Typed(said[k - 1], message[k])
  IN  said[Len(message)]

\* The window: the text and blank cells behind it.
Window(text) ==
  [i \in 0 .. SCREEN_COLS * SCREEN_ROWS - 1 |-> IF i < Len(text) THEN text[i + 1] ELSE Blank]

=============================================================================
