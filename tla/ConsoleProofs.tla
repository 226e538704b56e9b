--------------------------- MODULE ConsoleProofs ---------------------------
(* Theorems about Console, for a screen of any size and any text.               *)
EXTENDS Console, WellFoundedInduction, TLAPS

(***************************************************************************)
(* The inductive invariant: the cells are those of the text in lines, the  *)
(* row of the cursor showing its last line; the cell after that line may   *)
(* hold the cursor.                                                        *)
(***************************************************************************)
Glyphs == Chars \cup {Blank, Cursor}
Cells == [Rows -> [Columns -> Glyphs]]

\* What the row r and the column c show of the lines ls, of which the last is in row.
Shown(ls, row, r, c) ==
  IF r > row THEN Blank
  ELSE LET l == ls[Len(ls) - row + r]
       IN IF c < Len(l) THEN l[c + 1] ELSE Blank

\* The console shows ls, the cursor perhaps beyond the last column that is used.
Near(k, ls, row) ==
  /\ k \in [cells : Cells, x : Nat, y : Nat]
  /\ ls \in Seq(Seq(Chars)) /\ row \in Nat /\ row < Len(ls)
  /\ k.y = 16 * row /\ k.y + 16 < Height
  /\ k.x = 8 * Len(ls[Len(ls)])
  /\ \A r \in Rows, c \in Columns :
       \/ k.cells[r][c] = Shown(ls, row, r, c)
       \/ k.cells[r][c] = Cursor /\ r = row /\ c = Len(ls[Len(ls)])
  /\ row + 1 < Len(ls) => \A n \in Rows : n > row => 16 * n + 16 >= Height

Good(k, ls, row) == Near(k, ls, row) /\ k.x + 8 < Width

IInv ==
  /\ cursor_visible \in BOOLEAN /\ count \in 0 .. MaxText
  /\ \E row \in Nat : Good(Now, lines, row)

-----------------------------------------------------------------------------
(* Sizes, lines and cells. *)

\* A column or a row is one that begins on the screen.
LEMMA SizeFact ==
  /\ Width \in Nat /\ Height \in Nat /\ Width > 8 /\ Height > 16
  /\ \A c \in Nat : c \in Columns <=> 8 * c < Width
  /\ \A r \in Nat : r \in Rows <=> 16 * r < Height
  /\ Columns \subseteq Nat /\ Rows \subseteq Nat
  /\ \A n \in Nat : (8 * n) \div 8 = n /\ (16 * n) \div 16 = n
<1>1. Width \in Nat /\ Height \in Nat /\ Width > 8 /\ Height > 16
  BY SizeAssumption
<1>2. \A c \in Nat : c \in Columns <=> 8 * c < Width
  BY <1>1 DEF Columns
<1>3. \A r \in Nat : r \in Rows <=> 16 * r < Height
  BY <1>1 DEF Rows
<1>4. Columns \subseteq Nat /\ Rows \subseteq Nat
  BY <1>1 DEF Columns, Rows
<1>5. \A n \in Nat : (8 * n) \div 8 = n /\ (16 * n) \div 16 = n
  OBVIOUS
<1> QED
  BY <1>1, <1>2, <1>3, <1>4, <1>5

\* write_char wraps where a line is full.
LEMMA WidthFact ==
  ASSUME NEW n \in Nat, 8 * n + 8 < Width
  PROVE  n + 1 = LineWidth <=> 8 * n + 8 + 8 >= Width
BY SizeAssumption DEF LineWidth

\* The glyphs are those of the characters, and the cursor's is none of them.
LEMMA GlyphFact ==
  /\ Blank # Cursor /\ Cursor \notin Chars /\ NL \notin Chars
  /\ Blank \in Glyphs /\ Cursor \in Glyphs /\ Chars \subseteq Glyphs
<1>1. Blank # Cursor
  BY DEF Blank, Cursor
<1> QED
  BY <1>1, TextAssumption DEF Glyphs

\* The last line.
LEMMA LastFact ==
  ASSUME NEW ls \in Seq(Seq(Chars)), NEW row \in Nat, row < Len(ls)
  PROVE  /\ Len(ls) \in Nat /\ Len(ls) >= 1 /\ ls[Len(ls)] \in Seq(Chars)
         /\ Len(ls[Len(ls)]) \in Nat
         /\ \A r \in Nat : r <= row => Len(ls) - row + r \in 1 .. Len(ls)
<1>1. Len(ls) \in Nat /\ Len(ls) >= 1 /\ Len(ls) \in 1 .. Len(ls)
  OBVIOUS
<1> QED
  BY <1>1

\* Text is characters and blanks, and the cell of the cursor has none.
LEMMA ShownFact ==
  ASSUME NEW ls \in Seq(Seq(Chars)), NEW row \in Nat, row < Len(ls)
  PROVE  /\ \A r, c \in Nat : Shown(ls, row, r, c) \in Chars \cup {Blank}
         /\ \A c \in Nat : c >= Len(ls[Len(ls)]) => Shown(ls, row, row, c) = Blank
<1>1. ASSUME NEW r \in Nat, NEW c \in Nat
      PROVE  Shown(ls, row, r, c) \in Chars \cup {Blank}
  <2>1. CASE r > row
    BY <2>1 DEF Shown
  <2>2. CASE r <= row
    <3>1. PICK l \in Seq(Chars) : l = ls[Len(ls) - row + r]
      BY <2>2, LastFact
    <3>2. c < Len(l) => l[c + 1] \in Chars
      BY <3>1
    <3> QED
      BY <2>2, <3>1, <3>2 DEF Shown
  <2> QED
    BY <2>1, <2>2
<1>2. ASSUME NEW c \in Nat, c >= Len(ls[Len(ls)])
      PROVE  Shown(ls, row, row, c) = Blank
  <2>1. Len(ls) - row + row = Len(ls) /\ ~(row > row)
    BY LastFact
  <2>2. ~(c < Len(ls[Len(ls)]))
    BY <1>2, LastFact
  <2> QED
    BY <2>1, <2>2 DEF Shown
<1> QED
  BY <1>1, <1>2

\* A glyph goes to the cell of the cursor, if it is on the screen.
LEMMA DrawFact ==
  ASSUME NEW k, NEW ls, NEW row, Near(k, ls, row), NEW g \in Glyphs
  PROVE  /\ draw(k, g) \in [cells : Cells, x : Nat, y : Nat]
         /\ draw(k, g).x = k.x /\ draw(k, g).y = k.y
         /\ \A r \in Rows, c \in Columns :
              draw(k, g).cells[r][c] =
                IF r = row /\ c = Len(ls[Len(ls)]) THEN g ELSE k.cells[r][c]
<1> DEFINE n == Len(ls[Len(ls)])
<1>1. /\ k \in [cells : Cells, x : Nat, y : Nat] /\ n \in Nat /\ row \in Nat
      /\ k.y \div 16 = row /\ k.x \div 8 = n
  BY LastFact, SizeFact DEF Near
<1> HIDE DEF n
<1>2. k.cells \in [Rows -> [Columns -> Glyphs]]
  BY <1>1 DEF Cells
<1>3. CASE row \in Rows /\ n \in Columns
  <2>1. draw(k, g) = [k EXCEPT !.cells[row][n] = g]
    BY <1>1, <1>3 DEF draw
  <2>2. draw(k, g) = [k EXCEPT !.cells = [k.cells EXCEPT ![row] = [k.cells[row] EXCEPT ![n] = g]]]
    BY <2>1
  <2>3. [k.cells[row] EXCEPT ![n] = g] \in [Columns -> Glyphs]
    BY <1>2, <1>3
  <2>4. [k.cells EXCEPT ![row] = [k.cells[row] EXCEPT ![n] = g]] \in Cells
    BY <1>2, <2>3 DEF Cells
  <2>5. /\ draw(k, g) \in [cells : Cells, x : Nat, y : Nat]
        /\ draw(k, g).x = k.x /\ draw(k, g).y = k.y
        /\ draw(k, g).cells = [k.cells EXCEPT ![row] = [k.cells[row] EXCEPT ![n] = g]]
    BY <1>1, <2>2, <2>4
  <2>6. \A r \in Rows, c \in Columns :
          draw(k, g).cells[r][c] = IF r = row /\ c = n THEN g ELSE k.cells[r][c]
    BY <1>2, <1>3, <2>5
  <2> QED
    BY <2>5, <2>6 DEF n
<1>4. CASE ~(row \in Rows /\ n \in Columns)
  BY <1>1, <1>4 DEF draw, n
<1> QED
  BY <1>3, <1>4

-----------------------------------------------------------------------------
(* One character. *)

\* The lines after the end of a line.
LEMMA AppendFact ==
  ASSUME NEW ls \in Seq(Seq(Chars))
  PROVE  /\ Append(ls, <<>>) \in Seq(Seq(Chars))
         /\ Len(Append(ls, <<>>)) = Len(ls) + 1
         /\ Append(ls, <<>>)[Len(ls) + 1] = <<>>
         /\ \A i \in 1 .. Len(ls) : Append(ls, <<>>)[i] = ls[i]
         /\ Len(Append(ls, <<>>)[Len(Append(ls, <<>>))]) = 0
<1>1. <<>> \in Seq(Chars) /\ Len(<<>>) = 0
  OBVIOUS
<1>2. /\ Append(ls, <<>>) \in Seq(Seq(Chars))
      /\ Len(Append(ls, <<>>)) = Len(ls) + 1
      /\ Append(ls, <<>>)[Len(ls) + 1] = <<>>
      /\ \A i \in 1 .. Len(ls) : Append(ls, <<>>)[i] = ls[i]
  BY <1>1
<1> QED
  BY <1>1, <1>2

\* What is shown of the lines after the end of a line, in the row below or, where
\* the screen has scrolled, in the same one.
LEMMA ShownAppend ==
  ASSUME NEW ls \in Seq(Seq(Chars)), NEW row \in Nat, row < Len(ls),
         NEW r \in Nat, NEW c \in Nat
  PROVE  /\ Shown(Append(ls, <<>>), row + 1, r, c) = Shown(ls, row, r, c)
         /\ Shown(Append(ls, <<>>), row, r, c) = Shown(ls, row, r + 1, c)
<1> DEFINE m == Append(ls, <<>>)
           n == Len(ls)
<1>1. /\ n \in Nat /\ Len(m) = n + 1 /\ m[n + 1] = <<>>
      /\ \A i \in 1 .. n : m[i] = ls[i]
  BY AppendFact
<1>2. c \notin 0 .. -1 /\ ~(c < Len(<<>>))
  OBVIOUS
<1> HIDE DEF m, n
<1>3. Shown(m, row + 1, r, c) = Shown(ls, row, r, c)
  <2>1. CASE r > row + 1
    BY <2>1 DEF Shown
  <2>2. CASE r = row + 1
    <3>1. Len(m) - (row + 1) + r = n + 1
      BY <1>1, <2>2
    <3> QED
      BY <1>1, <1>2, <2>2, <3>1 DEF Shown
  <2>3. CASE r <= row
    <3>1. /\ Len(m) - (row + 1) + r = Len(ls) - row + r
          /\ Len(ls) - row + r \in 1 .. Len(ls)
      BY <1>1, <2>3, LastFact DEF n
    <3>2. m[Len(m) - (row + 1) + r] = ls[Len(ls) - row + r]
      BY <1>1, <3>1 DEF n
    <3> QED
      BY <2>3, <3>2 DEF Shown
  <2> QED
    BY <2>1, <2>2, <2>3
<1>4. Shown(m, row, r, c) = Shown(ls, row, r + 1, c)
  <2>1. CASE r > row
    BY <2>1 DEF Shown
  <2>2. CASE r = row
    <3>1. Len(m) - row + r = n + 1
      BY <1>1, <2>2
    <3> QED
      BY <1>1, <1>2, <2>2, <3>1 DEF Shown
  <2>3. CASE r < row
    <3>1. /\ Len(m) - row + r = Len(ls) - row + (r + 1)
          /\ Len(ls) - row + (r + 1) \in 1 .. Len(ls)
      BY <1>1, <2>3, LastFact DEF n
    <3>2. m[Len(m) - row + r] = ls[Len(ls) - row + (r + 1)]
      BY <1>1, <3>1 DEF n
    <3> QED
      BY <2>3, <3>2 DEF Shown
  <2> QED
    BY <2>1, <2>2, <2>3
<1> QED
  BY <1>3, <1>4 DEF m

\* The end of a line: the cursor goes below, or the screen scrolls and it stays.
LEMMA NewLineGood ==
  ASSUME NEW k, NEW ls, NEW row, Near(k, ls, row)
  PROVE  \E below \in Nat : Good(new_line(k), Append(ls, <<>>), below)
<1> DEFINE d == draw(k, Blank)
           n == [d EXCEPT !.x = 0, !.y = k.y + 16]
           m == Append(ls, <<>>)
<1>1. /\ ls \in Seq(Seq(Chars)) /\ row \in Nat /\ row < Len(ls)
      /\ k.y = 16 * row /\ k.y + 16 < Height /\ Len(ls) \in Nat
      /\ row + 1 < Len(ls) => \A i \in Rows : i > row => 16 * i + 16 >= Height
  BY LastFact DEF Near
<1>2. /\ d \in [cells : Cells, x : Nat, y : Nat]
      /\ \A r \in Rows, c \in Columns : d.cells[r][c] = Shown(ls, row, r, c)
  <2>1. Blank \in Glyphs
    BY GlyphFact
  <2>2. /\ d \in [cells : Cells, x : Nat, y : Nat]
        /\ \A r \in Rows, c \in Columns :
             d.cells[r][c] = IF r = row /\ c = Len(ls[Len(ls)]) THEN Blank ELSE k.cells[r][c]
    BY <2>1, DrawFact
  <2>3. ASSUME NEW r \in Rows, NEW c \in Columns
        PROVE  d.cells[r][c] = Shown(ls, row, r, c)
    <3>1. CASE r = row /\ c = Len(ls[Len(ls)])
      <4>1. Shown(ls, row, row, c) = Blank
        BY <1>1, <3>1, SizeFact, LastFact, ShownFact
      <4> QED
        BY <2>2, <3>1, <4>1
    <3>2. CASE ~(r = row /\ c = Len(ls[Len(ls)]))
      BY <2>2, <3>2 DEF Near
    <3> QED
      BY <3>1, <3>2
  <2> QED
    BY <2>2, <2>3
<1>3. /\ m \in Seq(Seq(Chars)) /\ Len(m) = Len(ls) + 1 /\ Len(m[Len(m)]) = 0
  BY <1>1, AppendFact
<1>4. new_line(k) = IF n.y + 16 >= Height THEN scroll(n) ELSE n
  BY DEF new_line
<1> HIDE DEF d, m
<1>5. /\ n \in [cells : Cells, x : Nat, y : Nat]
      /\ n.cells = d.cells /\ n.x = 0 /\ n.y = 16 * (row + 1)
  <2>1. k.y + 16 = 16 * (row + 1) /\ 16 * (row + 1) \in Nat
    BY <1>1
  <2> QED
    BY <1>2, <2>1
<1>6. d.cells \in Cells
  BY <1>2
<1> HIDE DEF n
<1>7. CASE n.y + 16 < Height
  <2>1. new_line(k) = n
    BY <1>1, <1>4, <1>5, <1>7, SizeFact
  <2>2. ASSUME NEW r \in Rows, NEW c \in Columns
        PROVE  n.cells[r][c] = Shown(m, row + 1, r, c)
    <3>1. r \in Nat /\ c \in Nat
      BY SizeFact
    <3>2. Shown(m, row + 1, r, c) = Shown(ls, row, r, c)
      BY <1>1, <3>1, ShownAppend DEF m
    <3> QED
      BY <1>2, <1>5, <3>2
  <2>3. ~(row + 1 < Len(ls))
    <3>1. row + 1 \in Rows
      BY <1>1, <1>5, <1>7, SizeFact
    <3> QED
      BY <1>1, <1>5, <1>7, <3>1, SizeFact
  <2>4. Near(n, m, row + 1)
    <3>1. row + 1 \in Nat /\ row + 1 < Len(m) /\ ~((row + 1) + 1 < Len(m))
      BY <1>1, <1>3, <2>3
    <3>2. n.x = 8 * Len(m[Len(m)])
      BY <1>3, <1>5
    <3> QED
      BY <1>3, <1>5, <1>7, <2>2, <3>1, <3>2 DEF Near
  <2>5. Good(n, m, row + 1)
    BY <1>5, <2>4, SizeFact DEF Good
  <2>6. row + 1 \in Nat
    BY <1>1
  <2> QED
    BY <2>1, <2>5, <2>6 DEF m
<1>8. CASE n.y + 16 >= Height
  <2> DEFINE cells == [r \in Rows |-> IF r + 1 \in Rows THEN n.cells[r + 1]
                                      ELSE [c \in Columns |-> Blank]]
             s == scroll(n)
  <2>1. new_line(k) = s
    BY <1>4, <1>8
  <2>2. cells \in Cells
    <3>1. [c \in Columns |-> Blank] \in [Columns -> Glyphs]
      BY GlyphFact
    <3>2. \A r \in Rows : n.cells[r] \in [Columns -> Glyphs]
      BY <1>5, <1>6 DEF Cells
    <3> QED
      BY <3>1, <3>2 DEF Cells
  <2>3. s = [n EXCEPT !.cells = cells, !.y = n.y - 16]
    BY DEF scroll
  <2>4. \A r \in Rows, c \in Columns : cells[r][c] = Shown(m, row, r, c)
    <3> SUFFICES ASSUME NEW r \in Rows, NEW c \in Columns
                 PROVE  cells[r][c] = Shown(m, row, r, c)
      OBVIOUS
    <3>1. Shown(m, row, r, c) = Shown(ls, row, r + 1, c)
      BY <1>1, SizeFact, ShownAppend DEF m
    <3>2. CASE r + 1 \in Rows
      BY <1>2, <1>5, <3>1, <3>2
    <3>3. CASE r + 1 \notin Rows
      <4>1. r + 1 > row
        BY <1>1, <3>3, SizeFact
      <4>2. Shown(ls, row, r + 1, c) = Blank
        BY <4>1 DEF Shown
      <4> QED
        BY <3>1, <3>3, <4>2
    <3> QED
      BY <3>2, <3>3
  <2> HIDE DEF cells
  <2>5. /\ s \in [cells : Cells, x : Nat, y : Nat]
        /\ s.cells = cells /\ s.x = 0 /\ s.y = 16 * row
    <3>1. n.y - 16 = 16 * row /\ 16 * row \in Nat
      BY <1>1, <1>5
    <3> QED
      BY <1>5, <2>2, <2>3, <3>1
  <2> HIDE DEF s
  <2>6. \A i \in Rows : i > row => 16 * i + 16 >= Height
    BY <1>1, <1>5, <1>8, SizeFact
  <2>7. Near(s, m, row)
    <3>1. row < Len(m) /\ s.x = 8 * Len(m[Len(m)]) /\ s.y + 16 < Height
      BY <1>1, <1>3, <2>5
    <3>2. \A r \in Rows, c \in Columns : s.cells[r][c] = Shown(m, row, r, c)
      BY <2>4, <2>5
    <3> QED
      BY <1>1, <1>3, <2>5, <2>6, <3>1, <3>2 DEF Near
  <2>8. Good(s, m, row)
    BY <2>5, <2>7, SizeFact DEF Good
  <2> QED
    BY <1>1, <2>1, <2>8 DEF m
<1> QED
  BY <1>1, <1>5, <1>7, <1>8, SizeFact

\* The lines after a character.
LEMMA WrittenFact ==
  ASSUME NEW ls \in Seq(Seq(Chars)), Len(ls) >= 1, NEW g \in Chars,
         NEW w, w = [ls EXCEPT ![Len(ls)] = Append(ls[Len(ls)], g)]
  PROVE  /\ w \in Seq(Seq(Chars)) /\ Len(w) = Len(ls)
         /\ \A i \in 1 .. Len(ls) : i # Len(ls) => w[i] = ls[i]
         /\ Len(w[Len(w)]) = Len(ls[Len(ls)]) + 1
         /\ w[Len(w)][Len(ls[Len(ls)]) + 1] = g
         /\ \A i \in 1 .. Len(ls[Len(ls)]) : w[Len(w)][i] = ls[Len(ls)][i]
<1>1. Len(ls) \in 1 .. Len(ls) /\ ls[Len(ls)] \in Seq(Chars) /\ Len(ls) \in Nat
  OBVIOUS
<1>2. PICK l \in Seq(Chars) :
        /\ l = Append(ls[Len(ls)], g) /\ Len(l) = Len(ls[Len(ls)]) + 1
        /\ l[Len(ls[Len(ls)]) + 1] = g
        /\ \A i \in 1 .. Len(ls[Len(ls)]) : l[i] = ls[Len(ls)][i]
  <2>1. PICK p \in Seq(Chars) : p = ls[Len(ls)]
    BY <1>1
  <2>2. /\ Append(p, g) \in Seq(Chars) /\ Len(Append(p, g)) = Len(p) + 1
        /\ Append(p, g)[Len(p) + 1] = g
        /\ \A i \in 1 .. Len(p) : Append(p, g)[i] = p[i]
    BY <2>1
  <2> QED
    BY <2>1, <2>2
<1>3. w = [ls EXCEPT ![Len(ls)] = l]
  BY <1>2
<1>4. w \in Seq(Seq(Chars)) /\ Len(w) = Len(ls)
  BY <1>1, <1>3
<1>5. w[Len(ls)] = l /\ \A i \in 1 .. Len(ls) : i # Len(ls) => w[i] = ls[i]
  BY <1>1, <1>3
<1> QED
  BY <1>2, <1>4, <1>5

\* A character is drawn and the line is that much longer, or the text goes on in the
\* next line.
LEMMA WriteCharGood ==
  ASSUME NEW k, NEW ls, NEW row, Good(k, ls, row), NEW g \in Chars \cup {NL}
  PROVE  \E below \in Nat : Good(write_char(k, g), Laid(ls, g), below)
<1>1. Near(k, ls, row)
  BY DEF Good
<1>2. CASE g = NL
  <2>1. write_char(k, g) = new_line(k) /\ Laid(ls, g) = Append(ls, <<>>)
    BY <1>2 DEF write_char, Laid
  <2> QED
    BY <1>1, <2>1, NewLineGood
<1>3. CASE g \in Chars
  <2> DEFINE len == Len(ls[Len(ls)])
             d == draw(k, g)
             n == [d EXCEPT !.x = k.x + 8]
  <2>0. PICK w : w = [ls EXCEPT ![Len(ls)] = Append(ls[Len(ls)], g)]
    OBVIOUS
  <2>1. /\ ls \in Seq(Seq(Chars)) /\ row \in Nat /\ row < Len(ls)
        /\ k.y = 16 * row /\ k.y + 16 < Height /\ Len(ls) \in Nat /\ Len(ls) >= 1
        /\ k.x = 8 * len /\ len \in Nat /\ 8 * len + 8 < Width
        /\ row + 1 < Len(ls) => \A i \in Rows : i > row => 16 * i + 16 >= Height
    BY <1>1, LastFact DEF Near, Good
  <2>2. g # NL /\ g \in Glyphs
    BY <1>3, GlyphFact
  <2>3. /\ d \in [cells : Cells, x : Nat, y : Nat] /\ d.y = k.y
        /\ \A r \in Rows, c \in Columns :
             d.cells[r][c] = IF r = row /\ c = len THEN g ELSE k.cells[r][c]
    BY <1>1, <2>2, DrawFact
  <2>4. /\ w \in Seq(Seq(Chars)) /\ Len(w) = Len(ls)
        /\ Len(w[Len(w)]) = len + 1
        /\ w[Len(w)][len + 1] = g
        /\ \A i \in 1 .. len : w[Len(w)][i] = ls[Len(ls)][i]
        /\ \A i \in 1 .. Len(ls) : i # Len(ls) => w[i] = ls[i]
    BY <1>3, <2>0, <2>1, WrittenFact
  <2>5. /\ write_char(k, g) = IF n.x + 8 >= Width THEN new_line(n) ELSE n
        /\ Laid(ls, g) = IF len + 1 = LineWidth THEN Append(w, <<>>) ELSE w
    <3>1. Len(Append(ls[Len(ls)], g)) = len + 1
      BY <1>3, <2>1, LastFact
    <3> QED
      BY <2>0, <2>2, <3>1 DEF write_char, Laid
  <2>6. ASSUME NEW r \in Rows, NEW c \in Columns
        PROVE  d.cells[r][c] = Shown(w, row, r, c)
    <3>1. r \in Nat /\ c \in Nat
      BY SizeFact
    <3>2. Shown(w, row, r, c) = IF r = row /\ c = Len(ls[Len(ls)]) THEN g ELSE Shown(ls, row, r, c)
      <4> DEFINE top == Len(ls)
                 l == ls[top]
      <4>1. top \in Nat /\ top >= 1 /\ l \in Seq(Chars) /\ Len(l) \in Nat
        BY <2>1, LastFact
      <4>2. /\ Len(w) = top /\ Len(w[top]) = Len(l) + 1
            /\ \A i \in 1 .. top : i # top => w[i] = ls[i]
            /\ \A i \in 1 .. Len(l) : w[top][i] = l[i]
            /\ w[top][Len(l) + 1] = g
        BY <2>1, <2>4, <4>1
      <4>4. CASE r > row
        BY <2>1, <3>1, <4>4 DEF Shown
      <4>5. CASE r = row
        <5>1. top - row + r = top /\ ~(r > row)
          BY <2>1, <3>1, <4>1, <4>5
        <5>7. Len(w) - row + r = top
          BY <4>2, <5>1
        <5>2. Shown(w, row, r, c) = IF c < Len(l) + 1 THEN w[top][c + 1] ELSE Blank
          <6>1. Shown(w, row, r, c) = IF c < Len(w[top]) THEN w[top][c + 1] ELSE Blank
            BY <5>1, <5>7, Zenon DEF Shown
          <6> QED
            BY <4>2, <6>1
        <5>3. Shown(ls, row, r, c) = IF c < Len(l) THEN l[c + 1] ELSE Blank
          BY <5>1 DEF Shown
        <5> HIDE DEF top, l
        <5>4. CASE c < Len(l)
          <6>1. c + 1 \in 1 .. Len(l) /\ c < Len(l) + 1 /\ c # Len(l)
            BY <3>1, <4>1, <5>4
          <6> QED
            BY <4>2, <5>2, <5>3, <5>4, <6>1 DEF l, top
        <5>5. CASE c = Len(l)
          <6>1. c < Len(l) + 1
            BY <4>1, <5>5
          <6> QED
            BY <4>2, <4>5, <5>2, <5>5, <6>1 DEF l, top
        <5>6. CASE c > Len(l)
          <6>1. ~(c < Len(l)) /\ ~(c < Len(l) + 1) /\ c # Len(l)
            BY <3>1, <4>1, <5>6
          <6> QED
            BY <5>2, <5>3, <6>1 DEF l, top
        <5> QED
          BY <3>1, <4>1, <5>4, <5>5, <5>6
      <4>6. CASE r < row
        <5>1. /\ top - row + r \in 1 .. top /\ top - row + r # top /\ ~(r > row) /\ r # row
          BY <2>1, <3>1, <4>1, <4>6, LastFact
        <5>2. w[top - row + r] = ls[top - row + r]
          BY <4>2, <5>1
        <5>3. Len(w) - row + r = top - row + r
          BY <4>2
        <5>4. Shown(w, row, r, c) = LET p == w[top - row + r]
                                    IN IF c < Len(p) THEN p[c + 1] ELSE Blank
          BY <5>1, <5>3, Zenon DEF Shown
        <5>5. Shown(ls, row, r, c) = LET p == ls[top - row + r]
                                     IN IF c < Len(p) THEN p[c + 1] ELSE Blank
          BY <5>1, Zenon DEF Shown
        <5> QED
          BY <5>1, <5>2, <5>4, <5>5
      <4> QED
        BY <2>1, <3>1, <4>4, <4>5, <4>6
    <3>3. ~(r = row /\ c = len) => k.cells[r][c] = Shown(ls, row, r, c)
      BY <1>1 DEF Near
    <3> QED
      BY <2>3, <3>2, <3>3
  <2> HIDE DEF d, len
  <2>7. /\ n \in [cells : Cells, x : Nat, y : Nat]
        /\ n.cells = d.cells /\ n.x = 8 * (len + 1) /\ n.y = k.y
    <3>1. k.x + 8 = 8 * (len + 1) /\ 8 * (len + 1) \in Nat
      BY <2>1
    <3> QED
      BY <2>3, <3>1
  <2> HIDE DEF n
  <2>8. Near(n, w, row)
    <3>1. row < Len(w) /\ n.x = 8 * Len(w[Len(w)])
      BY <2>1, <2>4, <2>7
    <3>2. \A r \in Rows, c \in Columns : n.cells[r][c] = Shown(w, row, r, c)
      BY <2>6, <2>7
    <3> QED
      BY <2>1, <2>4, <2>7, <3>1, <3>2 DEF Near
  <2>9. n.x + 8 >= Width <=> len + 1 = LineWidth
    <3>1. n.x + 8 = 8 * len + 8 + 8
      BY <2>1, <2>7
    <3> QED
      BY <2>1, <3>1, WidthFact
  <2>10. CASE len + 1 = LineWidth
    <3>1. write_char(k, g) = new_line(n) /\ Laid(ls, g) = Append(w, <<>>)
      BY <2>5, <2>9, <2>10
    <3> QED
      BY <2>8, <3>1, NewLineGood
  <2>11. CASE len + 1 # LineWidth
    <3>1. write_char(k, g) = n /\ Laid(ls, g) = w
      BY <2>5, <2>9, <2>11
    <3>2. n.x + 8 < Width
      BY <2>1, <2>7, <2>9, <2>11, SizeFact
    <3> QED
      BY <2>1, <2>8, <3>1, <3>2 DEF Good
  <2> QED
    BY <2>10, <2>11
<1> QED
  BY <1>2, <1>3

\* The cursor is drawn where the next character goes.
LEMMA RenderGood ==
  ASSUME NEW k, NEW ls, NEW row, Good(k, ls, row), NEW v \in BOOLEAN
  PROVE  Good(render_cursor(k, v), ls, row)
<1>1. Near(k, ls, row) /\ k.x + 8 < Width
  BY DEF Good
<1>2. PICK g \in {Blank, Cursor} : render_cursor(k, v) = draw(k, g)
  BY DEF render_cursor
<1>3. g \in Glyphs
  BY GlyphFact
<1> DEFINE d == draw(k, g)
<1>4. /\ d \in [cells : Cells, x : Nat, y : Nat] /\ d.x = k.x /\ d.y = k.y
      /\ \A r \in Rows, c \in Columns :
           d.cells[r][c] = IF r = row /\ c = Len(ls[Len(ls)]) THEN g ELSE k.cells[r][c]
  BY <1>1, <1>3, DrawFact
<1> HIDE DEF d
<1>5. ASSUME NEW r \in Rows, NEW c \in Columns
      PROVE  \/ d.cells[r][c] = Shown(ls, row, r, c)
             \/ d.cells[r][c] = Cursor /\ r = row /\ c = Len(ls[Len(ls)])
  <2>1. CASE r = row /\ c = Len(ls[Len(ls)])
    <3>1. Shown(ls, row, r, c) = Blank
      BY <1>1, <2>1, LastFact, ShownFact DEF Near
    <3> QED
      BY <1>4, <2>1, <3>1
  <2>2. CASE ~(r = row /\ c = Len(ls[Len(ls)]))
    BY <1>1, <1>4, <2>2 DEF Near
  <2> QED
    BY <2>1, <2>2
<1>6. Near(d, ls, row)
  BY <1>1, <1>4, <1>5 DEF Near
<1> QED
  BY <1>1, <1>2, <1>4, <1>6 DEF Good, d

-----------------------------------------------------------------------------
(* A text. *)

\* Induction, by the smallest number that is not in the set.
LEMMA Induction ==
  ASSUME NEW S, 0 \in S, \A n \in Nat : n \in S => n + 1 \in S
  PROVE  \A n \in Nat : n \in S
<1> SUFFICES ASSUME NEW m \in Nat, m \notin S PROVE FALSE
  OBVIOUS
<1> DEFINE T == {n \in Nat : n \notin S}
           R == OpToRel(<, Nat)
<1>1. IsWellFoundedOn(R, Nat)
  BY NatLessThanWellFounded
<1>2. \A x, y \in Nat : x < y => <<x, y>> \in R
  BY DEF OpToRel
<1>3. T \in SUBSET Nat /\ T # {}
  OBVIOUS
<1> HIDE DEF R, T
<1>4. PICK x \in T : \A y \in T : ~ (<<y, x>> \in R)
  BY <1>1, <1>3, WFMin
<1>5. \A y \in T : ~ (y < x)
  BY <1>2, <1>3, <1>4
<1>6. x \in Nat /\ x \notin S /\ x # 0
  BY <1>4 DEF T
<1>7. x - 1 \in Nat /\ x - 1 < x /\ (x - 1) + 1 = x
  BY <1>6
<1>8. x - 1 \in S
  BY <1>5, <1>7 DEF T
<1> QED
  BY <1>6, <1>7, <1>8

\* The recursive definition of Printing has a solution.
LEMMA PrintingDef ==
  ASSUME NEW k, NEW s, Len(s) \in Nat
  PROVE  Printing(k, s) =
           [i \in 0 .. Len(s) |->
              IF i = 0 THEN k ELSE write_char(Printing(k, s)[i - 1], s[i])]
<1> DEFINE After(f, n) ==
             [i \in 0 .. n |-> IF i = 0 THEN k ELSE write_char(f[i - 1], s[i])]
           S == {n \in Nat : \E f : f = After(f, n)}
<1>1. 0 \in S
  <2> DEFINE f == [i \in 0 .. 0 |-> k]
  <2>1. f = After(f, 0)
    OBVIOUS
  <2> QED
    BY <2>1
<1>2. ASSUME NEW n \in Nat, n \in S
      PROVE  n + 1 \in S
  <2>1. PICK f : f = After(f, n)
    BY <1>2
  <2> DEFINE g == [i \in 0 .. n + 1 |-> IF i = n + 1 THEN write_char(f[n], s[n + 1]) ELSE f[i]]
  <2>2. ASSUME NEW i \in 0 .. n + 1
        PROVE  g[i] = IF i = 0 THEN k ELSE write_char(g[i - 1], s[i])
    <3>1. CASE i = n + 1
      <4>1. g[i] = write_char(f[n], s[n + 1]) /\ g[i - 1] = f[n]
        BY <3>1
      <4> QED
        BY <3>1, <4>1
    <3>2. CASE i # n + 1
      <4>1. i \in 0 .. n /\ g[i] = f[i]
        BY <3>2
      <4>2. f[i] = IF i = 0 THEN k ELSE write_char(f[i - 1], s[i])
        BY <2>1, <4>1
      <4>3. i # 0 => g[i - 1] = f[i - 1]
        BY <3>2, <4>1
      <4> QED
        BY <4>1, <4>2, <4>3
    <3> QED
      BY <3>1, <3>2
  <2> HIDE DEF g
  <2>3. g = After(g, n + 1)
    <3>1. g = [i \in 0 .. n + 1 |-> g[i]]
      BY DEF g
    <3> QED
      BY <2>2, <3>1
  <2> QED
    BY <2>3
<1> HIDE DEF S
<1>3. Len(s) \in S
  BY <1>1, <1>2, Induction
<1>4. PICK f : f = After(f, Len(s))
  BY <1>3 DEF S
<1>5. Printing(k, s) = CHOOSE g : g = After(g, Len(s))
  BY DEF Printing
<1> QED
  BY <1>4, <1>5

\* The recursive definition of Laying has a solution.
LEMMA LayingDef ==
  ASSUME NEW ls, NEW s, Len(s) \in Nat
  PROVE  Laying(ls, s) =
           [i \in 0 .. Len(s) |->
              IF i = 0 THEN ls ELSE Laid(Laying(ls, s)[i - 1], s[i])]
<1> DEFINE After(f, n) ==
             [i \in 0 .. n |-> IF i = 0 THEN ls ELSE Laid(f[i - 1], s[i])]
           S == {n \in Nat : \E f : f = After(f, n)}
<1>1. 0 \in S
  <2> DEFINE f == [i \in 0 .. 0 |-> ls]
  <2>1. f = After(f, 0)
    OBVIOUS
  <2> QED
    BY <2>1
<1>2. ASSUME NEW n \in Nat, n \in S
      PROVE  n + 1 \in S
  <2>1. PICK f : f = After(f, n)
    BY <1>2
  <2> DEFINE g == [i \in 0 .. n + 1 |-> IF i = n + 1 THEN Laid(f[n], s[n + 1]) ELSE f[i]]
  <2>2. ASSUME NEW i \in 0 .. n + 1
        PROVE  g[i] = IF i = 0 THEN ls ELSE Laid(g[i - 1], s[i])
    <3>1. CASE i = n + 1
      <4>1. g[i] = Laid(f[n], s[n + 1]) /\ g[i - 1] = f[n]
        BY <3>1
      <4> QED
        BY <3>1, <4>1
    <3>2. CASE i # n + 1
      <4>1. i \in 0 .. n /\ g[i] = f[i]
        BY <3>2
      <4>2. f[i] = IF i = 0 THEN ls ELSE Laid(f[i - 1], s[i])
        BY <2>1, <4>1
      <4>3. i # 0 => g[i - 1] = f[i - 1]
        BY <3>2, <4>1
      <4> QED
        BY <4>1, <4>2, <4>3
    <3> QED
      BY <3>1, <3>2
  <2> HIDE DEF g
  <2>3. g = After(g, n + 1)
    <3>1. g = [i \in 0 .. n + 1 |-> g[i]]
      BY DEF g
    <3> QED
      BY <2>2, <3>1
  <2> QED
    BY <2>3
<1> HIDE DEF S
<1>3. Len(s) \in S
  BY <1>1, <1>2, Induction
<1>4. PICK f : f = After(f, Len(s))
  BY <1>3 DEF S
<1>5. Laying(ls, s) = CHOOSE g : g = After(g, Len(s))
  BY DEF Laying
<1> QED
  BY <1>4, <1>5

\* A text that is printed is laid out, and nothing else.
LEMMA PrintedGood ==
  ASSUME NEW k, NEW ls, NEW row \in Nat, Good(k, ls, row), NEW s \in Seq(Chars \cup {NL})
  PROVE  \E below \in Nat : Good(Printed(k, s), Layout(ls, s), below)
<1> DEFINE f == Printing(k, s)
           h == Laying(ls, s)
           S == {n \in Nat : n <= Len(s) => \E below \in Nat : Good(f[n], h[n], below)}
<1>1. Len(s) \in Nat
  OBVIOUS
<1>2. /\ f = [i \in 0 .. Len(s) |-> IF i = 0 THEN k ELSE write_char(f[i - 1], s[i])]
      /\ h = [i \in 0 .. Len(s) |-> IF i = 0 THEN ls ELSE Laid(h[i - 1], s[i])]
  BY <1>1, PrintingDef, LayingDef
<1> HIDE DEF f, h
<1>3. 0 \in S
  <2>1. f[0] = k /\ h[0] = ls
    BY <1>1, <1>2
  <2> QED
    BY <2>1
<1>4. ASSUME NEW n \in Nat, n \in S
      PROVE  n + 1 \in S
  <2>1. SUFFICES ASSUME n + 1 <= Len(s)
                 PROVE  \E below \in Nat : Good(f[n + 1], h[n + 1], below)
    BY <1>1
  <2>2. PICK at \in Nat : Good(f[n], h[n], at)
    BY <1>1, <1>4, <2>1
  <2>3. n + 1 \in 0 .. Len(s) /\ n + 1 # 0 /\ (n + 1) - 1 = n
    BY <1>1, <2>1
  <2>4. f[n + 1] = write_char(f[n], s[n + 1]) /\ h[n + 1] = Laid(h[n], s[n + 1])
    BY <1>2, <2>3
  <2>5. s[n + 1] \in Chars \cup {NL}
    BY <1>1, <2>1
  <2> QED
    BY <2>2, <2>4, <2>5, WriteCharGood
<1> HIDE DEF S
<1>5. Len(s) \in S
  BY <1>1, <1>3, <1>4, Induction
<1> QED
  BY <1>1, <1>5 DEF S, Printed, Layout, f, h

-----------------------------------------------------------------------------
(* The invariant. *)

LEMMA InitInv == Init => IInv
<1> SUFFICES ASSUME Init PROVE IInv
  OBVIOUS
<1> USE SizeFact
<1>1. << <<>> >> \in Seq(Seq(Chars)) /\ Len(<< <<>> >>) = 1 /\ Len(<< <<>> >>[1]) = 0
  OBVIOUS
<1>2. [c \in Columns |-> Blank] \in [Columns -> Glyphs]
  BY GlyphFact
<1>3. screen \in Cells
  BY <1>2 DEF Init, Cells
<1>4. \A r \in Rows, c \in Columns : screen[r][c] = Blank
  BY DEF Init
<1>5. ASSUME NEW r \in Rows, NEW c \in Columns
      PROVE  Shown(lines, 0, r, c) = Blank
  <2>1. lines = << <<>> >> /\ r \in Nat /\ c \in Nat
    BY DEF Init
  <2>2. CASE r > 0
    BY <2>2 DEF Shown
  <2>3. CASE r = 0
    <3>1. Len(lines) - 0 + r = 1 /\ ~(c < Len(lines[1]))
      BY <1>1, <2>1, <2>3
    <3> QED
      BY <2>3, <3>1 DEF Shown
  <2> QED
    BY <2>1, <2>2, <2>3
<1>6. Near(Now, lines, 0)
  <2>1. /\ Now \in [cells : Cells, x : Nat, y : Nat]
        /\ Now.cells = screen /\ Now.x = 0 /\ Now.y = 0
    BY <1>3 DEF Now, Init
  <2>2. lines \in Seq(Seq(Chars)) /\ Len(lines) = 1 /\ Len(lines[Len(lines)]) = 0
    BY <1>1 DEF Init
  <2> QED
    BY <1>4, <1>5, <2>1, <2>2 DEF Near
<1>7. Good(Now, lines, 0)
  BY <1>6 DEF Good, Now, Init
<1>8. cursor_visible \in BOOLEAN /\ count \in 0 .. MaxText
  BY TextAssumption DEF Init
<1> QED
  BY <1>7, <1>8 DEF IInv

\* Every call keeps the invariant.
LEMMA StepInv == IInv /\ [Next]_vars => IInv'
<1> SUFFICES ASSUME IInv, [Next]_vars PROVE IInv'
  OBVIOUS
<1>1. PICK row \in Nat : Good(Now, lines, row)
  BY DEF IInv
<1>2. ASSUME NEW k, Becomes(k), k \in [cells : Cells, x : Nat, y : Nat]
      PROVE  Now' = k
  BY <1>2 DEF Becomes, Now
<1>3. ASSUME NEW k, NEW ls, NEW at, Good(k, ls, at)
      PROVE  k \in [cells : Cells, x : Nat, y : Nat] /\ at \in Nat
  BY <1>3 DEF Good, Near
<1>4. ASSUME NEW s \in Strings
      PROVE  /\ \E at \in Nat : Good(Printed(Now, s), Layout(lines, s), at)
             /\ Counted(s) => count' \in 0 .. MaxText
  <2>1. s \in Seq(Chars \cup {NL})
    BY TextAssumption
  <2>2. Counted(s) => count' \in 0 .. MaxText
    BY <2>1, TextAssumption DEF Counted, IInv
  <2> QED
    BY <1>1, <2>1, <2>2, PrintedGood
<1>5. ASSUME NEW s \in Strings, Format(s)
      PROVE  IInv'
  <2>1. PICK at \in Nat : Good(Printed(Now, s), Layout(lines, s), at)
    BY <1>4
  <2>2. Now' = Printed(Now, s) /\ lines' = Layout(lines, s)
    BY <1>2, <1>3, <1>5, <2>1 DEF Format, Counted
  <2>3. Good(Now', lines', at)
    BY <2>1, <2>2
  <2>4. cursor_visible' \in BOOLEAN /\ count' \in 0 .. MaxText
    BY <1>4, <1>5 DEF IInv, Format
  <2> QED
    BY <2>3, <2>4 DEF IInv, Good, Near, Now
<1>6. ASSUME NEW s \in Strings, write_str(s)
      PROVE  IInv'
  <2>1. PICK at \in Nat : Good(Printed(Now, s), Layout(lines, s), at)
    BY <1>4
  <2>2. Good(render_cursor(Printed(Now, s), cursor_visible), Layout(lines, s), at)
    BY <2>1, RenderGood DEF IInv
  <2>3. Now' = render_cursor(Printed(Now, s), cursor_visible) /\ lines' = Layout(lines, s)
    BY <1>2, <1>3, <1>6, <2>2 DEF write_str, Counted
  <2>4. Good(Now', lines', at)
    BY <2>2, <2>3
  <2>5. cursor_visible' \in BOOLEAN /\ count' \in 0 .. MaxText
    BY <1>4, <1>6 DEF IInv, write_str
  <2> QED
    BY <2>4, <2>5 DEF IInv, Good, Near, Now
<1>7. CASE update_cursor
  <2>1. cursor_visible' \in BOOLEAN /\ count' = count /\ lines' = lines
    BY <1>7 DEF update_cursor, IInv
  <2>2. PICK v \in BOOLEAN : v = cursor_visible'
    BY <2>1
  <2>3. Good(render_cursor(Now, v), lines, row)
    BY <1>1, RenderGood
  <2>4. Now' = render_cursor(Now, v)
    BY <1>2, <1>3, <1>7, <2>2, <2>3 DEF update_cursor
  <2>5. Good(Now', lines', row)
    BY <2>1, <2>3, <2>4
  <2> QED
    BY <2>1, <2>5 DEF IInv, Good, Near, Now
<1>8. CASE UNCHANGED vars
  <2>1. Now' = Now /\ lines' = lines /\ count' = count /\ cursor_visible' = cursor_visible
    BY <1>8 DEF vars, Now
  <2>2. Good(Now', lines', row)
    BY <1>1, <2>1
  <2> QED
    BY <2>1, <2>2 DEF IInv, Good, Near, Now
<1> QED
  BY <1>5, <1>6, <1>7, <1>8 DEF Next

\* What every state satisfies: the screen shows the text in lines, and the cursor is
\* where the text goes on.
THEOREM Invariance == Spec => []IInv
<1>1. Init => IInv
  BY InitInv
<1>2. IInv /\ [Next]_vars => IInv'
  BY StepInv
<1> QED
  BY <1>1, <1>2, PTL DEF Spec

-----------------------------------------------------------------------------
(* The properties. *)

\* What the invariant says of the cursor and the screen.
LEMMA InvFact ==
  ASSUME IInv
  PROVE  /\ lines \in Seq(Seq(Chars)) /\ cursor_y \div 16 \in Rows
         /\ cursor_y \div 16 < Len(lines) /\ cursor_y = 16 * (cursor_y \div 16)
         /\ cursor_y + 16 < Height
         /\ cursor_x = 8 * Len(lines[Len(lines)]) /\ cursor_x + 8 < Width
         /\ Len(lines[Len(lines)]) \in Columns
         /\ cursor_x \div 8 = Len(lines[Len(lines)])
         /\ screen \in Cells
         /\ \A r \in Rows, c \in Columns :
              \/ screen[r][c] = Shown(lines, cursor_y \div 16, r, c)
              \/ /\ screen[r][c] = Cursor /\ r = cursor_y \div 16
                 /\ c = Len(lines[Len(lines)])
         /\ (cursor_y \div 16) + 1 < Len(lines) =>
              \A n \in Rows : n > cursor_y \div 16 => 16 * n + 16 >= Height
<1>1. PICK row \in Nat : Good(Now, lines, row)
  BY DEF IInv
<1>2. /\ lines \in Seq(Seq(Chars)) /\ row < Len(lines) /\ cursor_y = 16 * row
      /\ cursor_y + 16 < Height /\ cursor_x = 8 * Len(lines[Len(lines)])
      /\ cursor_x + 8 < Width /\ screen \in Cells
  BY <1>1 DEF Good, Near, Now
<1>3. cursor_y \div 16 = row
  BY <1>2, SizeFact
<1>4. Len(lines[Len(lines)]) \in Nat
  BY <1>2, LastFact
<1>5. row \in Rows /\ Len(lines[Len(lines)]) \in Columns
  BY <1>2, <1>4, SizeFact
<1>6. cursor_x \div 8 = Len(lines[Len(lines)])
  BY <1>2, <1>4, SizeFact
<1>7. /\ \A r \in Rows, c \in Columns :
           \/ screen[r][c] = Shown(lines, row, r, c)
           \/ screen[r][c] = Cursor /\ r = row /\ c = Len(lines[Len(lines)])
      /\ row + 1 < Len(lines) => \A n \in Rows : n > row => 16 * n + 16 >= Height
  BY <1>1 DEF Good, Near, Now
<1> QED
  BY <1>2, <1>3, <1>5, <1>6, <1>7

\* The cursor of the Rust console stays on the screen, whatever is printed.
THEOREM TypeCorrect == Spec => []TypeOK
<1>1. IInv => TypeOK
  <2> SUFFICES ASSUME IInv PROVE TypeOK
    OBVIOUS
  <2>1. cursor_x \in {8 * c : c \in Columns} /\ cursor_x + 8 < Width
    BY InvFact
  <2>2. cursor_y \in {16 * r : r \in Rows} /\ cursor_y + 16 < Height
    BY InvFact
  <2>3. screen \in [Rows -> [Columns -> Chars \cup {Blank, Cursor}]]
    BY InvFact DEF Cells, Glyphs
  <2> QED
    BY <2>1, <2>2, <2>3 DEF TypeOK, IInv
<1> QED
  BY <1>1, Invariance, PTL

\* write_char, new_line and update_cursor leave no cursor glyph behind.
THEOREM NoTrail == Spec => []OneCursor
<1>1. IInv => OneCursor
  <2> SUFFICES ASSUME IInv, NEW r \in Rows, NEW c \in Columns, screen[r][c] = Cursor
               PROVE  r = cursor_y \div 16 /\ c = cursor_x \div 8
    BY DEF OneCursor
  <2>1. r \in Nat /\ c \in Nat /\ cursor_y \div 16 \in Nat
    BY InvFact, SizeFact
  <2>2. Shown(lines, cursor_y \div 16, r, c) \in Chars \cup {Blank}
    BY <2>1, InvFact, ShownFact
  <2>3. Shown(lines, cursor_y \div 16, r, c) # Cursor
    BY <2>2, GlyphFact
  <2> QED
    BY <2>3, InvFact
<1> QED
  BY <1>1, Invariance, PTL

\* Scrolling and wrapping lose, double and cut no line: the screen is the end of all
\* that was printed.
THEOREM TailOfTheText == Spec => []ScreenIsTail
<1>1. IInv => ScreenIsTail
  <2> SUFFICES ASSUME IInv PROVE ScreenIsTail
    OBVIOUS
  <2> DEFINE at == cursor_y \div 16
             Glyph(r, c) == IF r > at THEN Blank
                            ELSE LET l == lines[Len(lines) - at + r]
                                 IN IF c < Len(l) THEN l[c + 1] ELSE Blank
  <2>1. ASSUME NEW r \in Rows, NEW c \in Columns
        PROVE  screen[r][c] = Glyph(r, c) \/ (screen[r][c] = Cursor /\ Glyph(r, c) = Blank)
    <3>1. Glyph(r, c) = Shown(lines, at, r, c)
      BY DEF Shown
    <3>2. CASE screen[r][c] = Shown(lines, at, r, c)
      BY <3>1, <3>2
    <3>3. CASE screen[r][c] = Cursor /\ r = at /\ c = Len(lines[Len(lines)])
      <4>1. at \in Nat /\ c \in Nat /\ c >= Len(lines[Len(lines)])
        BY <3>3, InvFact, SizeFact
      <4>2. Shown(lines, at, at, c) = Blank
        BY <4>1, InvFact, ShownFact
      <4> QED
        BY <3>1, <3>3, <4>2
    <3> QED
      BY <3>2, <3>3, InvFact
  <2>2. /\ at < Len(lines) /\ cursor_x = 8 * Len(lines[Len(lines)])
        /\ at + 1 < Len(lines) => \A n \in Rows : n > at => 16 * n + 16 >= Height
    BY InvFact
  <2> QED
    BY <2>1, <2>2 DEF ScreenIsTail
<1> QED
  BY <1>1, Invariance, PTL
=============================================================================
