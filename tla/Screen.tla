------------------------------- MODULE Screen -------------------------------
(***************************************************************************)
(* The text screen, kernel/hardware/screen/print.c, as operators on its    *)
(* state: mem, the characters in video memory; curX and curY; and cursor,  *)
(* where the hardware shows its cursor.  Colours are left out: every       *)
(* caller but the panic screen uses one.                                   *)
(***************************************************************************)
EXTENDS Terminal

Cells == SCREEN_COLS * SCREEN_ROWS

BlankScreen(s) == [s EXCEPT !.mem = [i \in 0 .. Cells - 1 |-> Blank]]

At(s) == s.curY * SCREEN_COLS + s.curX

update_cursor_pos(s) == [s EXCEPT !.cursor = At(s)]

clear_screen(s) == update_cursor_pos([BlankScreen(s) EXCEPT !.curX = 0, !.curY = 0])

\* Behind the last cell.
hide_cursor(s) == [s EXCEPT !.cursor = Cells]

\* A slip: it copies downwards, as if the areas lay apart.
memcpy_downwards(mem, dest, source, num) ==
  FoldLeft(LAMBDA m, i : [m EXCEPT ![dest + i] = m[source + i]],
           mem, [i \in 1 .. num |-> num - i])

\* memcpy of kernel/util.c copies upwards, one after the other.
memcpy(mem, dest, source, num) ==
  LET copied[i \in 0 .. num] ==
        IF i = 0 THEN mem
        ELSE [copied[i - 1] EXCEPT ![dest + i - 1] = copied[i - 1][source + i - 1]]
  IN  copied[num]

Put(c, s) ==
  CASE c = Newline   -> [s EXCEPT !.curX = 0, !.curY = @ + 1]
    [] c = Backspace -> IF At(s) = 0 THEN s
                        ELSE [s EXCEPT !.mem[At(s) - 1] = Blank,
                                       !.curX = (IF @ = 0 THEN SCREEN_COLS ELSE @) - 1,
                                       !.curY = IF s.curX = 0 THEN @ - 1 ELSE @]
    [] c = Esc       -> clear_screen(s)
    [] OTHER         -> [s EXCEPT !.mem[At(s)] = c, !.curX = @ + 1]

Wrapped(s) ==
  IF s.curX >= SCREEN_COLS THEN [s EXCEPT !.curX = 0, !.curY = @ + 1] ELSE s

Scrolled(s) ==
  LET last == Cells - SCREEN_COLS
      up == memcpy(s.mem, 0, SCREEN_COLS, last)
  IN  IF s.curY # SCREEN_ROWS THEN s
      ELSE [s EXCEPT !.mem = [i \in DOMAIN up |-> IF i >= last THEN Blank ELSE up[i]],
                     !.curY = @ - 1]

print_char(c, s) == Scrolled(Wrapped(Put(c, s)))

print_string(string, s) ==
  update_cursor_pos(FoldLeft(LAMBDA t, c : print_char(c, t), s, string))

print_string_at(string, x, y, s) ==
  print_string(string, [s EXCEPT !.curX = x, !.curY = y])

=============================================================================
