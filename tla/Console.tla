------------------------------ MODULE Console ------------------------------
(***************************************************************************)
(* The text console of the Rust loader (rust/drivers/src/lib.rs): glyphs   *)
(* of 8 by 16 pixels on a frame buffer of any size, and a cursor glyph     *)
(* that blinks. All drawing is at multiples of a glyph, so the screen is a *)
(* table of glyphs, the last ones perhaps cut by the edge. No interrupt is *)
(* enabled: a call is one step.                                            *)
(***************************************************************************)
EXTENDS Integers, Sequences

CONSTANTS
  Width, Height,  \* pixels of the screen
  Chars,          \* characters with a glyph, the cursor's apart
  Strings,        \* what callers print: characters and NL, no carriage return
  MaxText         \* bound: characters printed

Blank == " "
Cursor == "cursor"
NL == "nl"

ASSUME SizeAssumption == Width \in Nat /\ Height \in Nat /\ Width > 8 /\ Height > 16
ASSUME TextAssumption ==
  /\ Cursor \notin Chars /\ NL \notin Chars
  /\ \A s \in Strings : s \in Seq(Chars \cup {NL})
  /\ MaxText \in Nat

\* Columns and rows of glyphs that show at least a pixel.
Columns == 0 .. (Width + 7) \div 8 - 1
Rows == 0 .. (Height + 15) \div 16 - 1

VARIABLES
  screen,               \* the frame buffer, by row and column
  cursor_x, cursor_y,   \* pixels
  cursor_visible,
  count,                \* characters printed
  lines                 \* history variable: all of them, on an endless screen

vars == <<screen, cursor_x, cursor_y, cursor_visible, count, lines>>

Init ==
  /\ screen = [r \in Rows |-> [c \in Columns |-> Blank]]
  /\ cursor_x = 0 /\ cursor_y = 0
  /\ cursor_visible = TRUE
  /\ count = 0 /\ lines = << <<>> >>

-----------------------------------------------------------------------------
(* The operations on a console k with fields cells, x and y. *)

\* draw_char_at; draw_pixel clips what is off the screen.
draw(k, g) ==
  IF k.y \div 16 \in Rows /\ k.x \div 8 \in Columns
  THEN [k EXCEPT !.cells[k.y \div 16][k.x \div 8] = g] ELSE k

scroll(k) ==
  [k EXCEPT !.cells = [r \in Rows |-> IF r + 1 \in Rows THEN k.cells[r + 1]
                                      ELSE [c \in Columns |-> Blank]],
            !.y = k.y - 16]

\* Mutant: the cursor's glyph is left where it was.
new_line_Trail(k) ==
  LET n == [k EXCEPT !.x = 0, !.y = k.y + 16]
  IN IF n.y + 16 >= Height THEN scroll(n) ELSE n

\* Mutant: the screen scrolls a row late.
new_line_Late(k) ==
  LET n == [draw(k, Blank) EXCEPT !.x = 0, !.y = k.y + 16]
  IN IF n.y >= Height THEN scroll(n) ELSE n

\* Under the cursor there is its glyph, or nothing.
new_line(k) ==
  LET n == [draw(k, Blank) EXCEPT !.x = 0, !.y = k.y + 16]
  IN IF n.y + 16 >= Height THEN scroll(n) ELSE n

\* Mutant: the test for the edge is off by one.
write_char_Edge(k, c) ==
  IF c = NL THEN new_line(k)
  ELSE LET n == [draw(k, c) EXCEPT !.x = k.x + 8]
       IN IF n.x + 8 > Width THEN new_line(n) ELSE n

write_char(k, c) ==
  IF c = NL THEN new_line(k)
  ELSE LET n == [draw(k, c) EXCEPT !.x = k.x + 8]
       IN IF n.x + 8 >= Width THEN new_line(n) ELSE n

\* What the characters of s do, one after the other.
Printing(k, s) ==
  LET after[i \in 0 .. Len(s)] ==
        IF i = 0 THEN k ELSE write_char(after[i - 1], s[i])
  IN after

Printed(k, s) == Printing(k, s)[Len(s)]

render_cursor(k, visible) == draw(k, IF visible THEN Cursor ELSE Blank)

-----------------------------------------------------------------------------
(* The text broken into lines where write_char breaks it, none of them lost. *)

\* Characters in a line.
LineWidth == (Width - 1) \div 8

Laid(ls, c) ==
  LET l == Append(ls[Len(ls)], c)
      written == [ls EXCEPT ![Len(ls)] = l]
  IN IF c = NL THEN Append(ls, <<>>)
     ELSE IF Len(l) = LineWidth THEN Append(written, <<>>)
     ELSE written

Laying(ls, s) ==
  LET after[i \in 0 .. Len(s)] ==
        IF i = 0 THEN ls ELSE Laid(after[i - 1], s[i])
  IN after

Layout(ls, s) == Laying(ls, s)[Len(s)]

-----------------------------------------------------------------------------
Now == [cells |-> screen, x |-> cursor_x, y |-> cursor_y]

Becomes(k) == screen' = k.cells /\ cursor_x' = k.x /\ cursor_y' = k.y

Counted(s) ==
  /\ count + Len(s) <= MaxText
  /\ count' = count + Len(s)
  /\ lines' = Layout(lines, s)

\* A piece of a formatted text (fmt::Write): the cursor is not drawn.
Format(s) ==
  /\ Counted(s)
  /\ Becomes(Printed(Now, s))
  /\ UNCHANGED cursor_visible

\* FramebufferConsole::write_str.
write_str(s) ==
  /\ Counted(s)
  /\ Becomes(render_cursor(Printed(Now, s), cursor_visible))
  /\ UNCHANGED cursor_visible

\* The call of update_cursor that ends a period.
update_cursor ==
  /\ cursor_visible' = ~cursor_visible
  /\ Becomes(render_cursor(Now, cursor_visible'))
  /\ UNCHANGED <<count, lines>>

Next ==
  \/ \E s \in Strings : Format(s) \/ write_str(s)
  \/ update_cursor

Spec == Init /\ [][Next]_vars

-----------------------------------------------------------------------------
(* Properties. *)

\* The cursor is at a glyph that is whole on the screen, with a column to spare
\* and a row: scrolling never takes it above the first row.
TypeOK ==
  /\ screen \in [Rows -> [Columns -> Chars \cup {Blank, Cursor}]]
  /\ cursor_x \in {8 * c : c \in Columns} /\ cursor_x + 8 < Width
  /\ cursor_y \in {16 * r : r \in Rows} /\ cursor_y + 16 < Height
  /\ cursor_visible \in BOOLEAN /\ count \in 0 .. MaxText

\* No cursor glyph stays behind: there is none but the one at the cursor.
OneCursor ==
  \A r \in Rows, c \in Columns :
    screen[r][c] = Cursor => r = cursor_y \div 16 /\ c = cursor_x \div 8

\* The screen is the end of the text in lines, up to the row of the cursor: no line is
\* lost, doubled or cut by scrolling, and all that was never printed is blank.
ScreenIsTail ==
  LET row == cursor_y \div 16
      Glyph(r, c) == IF r > row THEN Blank
                     ELSE LET l == lines[Len(lines) - row + r]
                          IN IF c < Len(l) THEN l[c + 1] ELSE Blank
  IN /\ row < Len(lines)
     /\ cursor_x = 8 * Len(lines[Len(lines)])
     /\ \A r \in Rows, c \in Columns :
          screen[r][c] = Glyph(r, c)
          \/ (screen[r][c] = Cursor /\ Glyph(r, c) = Blank)
     /\ row + 1 < Len(lines) => \A n \in Rows : n > row => 16 * n + 16 >= Height
=============================================================================
