--------------------------- MODULE TerminalProofs ---------------------------
(* Theorems about Terminal, for every size of the screen and any number of      *)
(* interrupts that write to it.                                                 *)
EXTENDS Terminal, SequenceTheorems, TLAPS

\* Only a row just begun can be below the screen, until the screen scrolls.
RowInside == y = R => /\ pc \in {"wrap", "scroll", "scroll_y"}
                      /\ x < W

\* Only a character just written can leave the cursor beyond the row.
ColumnInside == x = W => pc \in {"wrap", "wrap_x"}

\* The cell before the screen's first one: x = -1 takes an interrupt, which
\* leaves the cursor below the first row; put_char sets x when y goes back to it.
BeforeRow ==
  x = -1 => /\ noise > 0
            /\ y > 0 \/ pc = "bs_x"

\* What put_char has loaded or tested, by the step it is at.
Loaded ==
  /\ pc = "bs_load" => x > 0 \/ (x = 0 /\ y > 0 /\ noise > 0)
  /\ pc = "bs_store" =>
       /\ reg \in 0 .. W - 1
       /\ reg = 0 => y > 0 /\ noise > 0
  /\ pc = "bsy_load" => y > 0
  /\ pc = "bsy_store" => reg \in 1 .. R - 1
  /\ pc \in {"nl_store", "wrap_store"} => reg \in 0 .. R - 1
  /\ pc = "x_store" => reg \in -1 .. W - 1
  /\ pc \in {"nl_load", "nl_store", "wrap_load", "wrap_store", "clear_y"} => x = 0
  /\ pc = "addr" /\ x = -1 => row > 0

\* The character that is being put.
Written ==
  /\ pc \in {"bs", "bs_load", "bs_store", "bs_y", "bsy_load", "bsy_store", "bs_x"} =>
       ch = BS
  /\ pc \in {"row", "addr", "write", "x_load", "x_store"} => ch \in Glyphs \cup {BS}

IInv ==
  /\ TypeOK /\ WritesInVideo
  /\ RowInside /\ ColumnInside /\ BeforeRow /\ Loaded /\ Written

-----------------------------------------------------------------------------
\* The address of a cursor on the screen, or one before a row but the first, is
\* the address of a cell.
LEMMA AddressFact ==
  ASSUME NEW r \in 0 .. R - 1, NEW c \in -1 .. W - 1, c = -1 => r > 0
  PROVE  r * W + c \in Cells
<1>1. R \in Nat /\ W \in Nat /\ R >= 2 /\ W >= 2
  BY SizeAssumption
<1>2. r * W \in Nat /\ (r > 0 => r * W >= W)
  BY <1>1
<1>3. W * R = R * W /\ (R - 1 - r) * W >= 0 /\ (R - 1 - r) * W = R * W - W - r * W
  BY <1>1
<1>4. r * W + c >= 0 /\ r * W + c <= W * R - 1
  BY <1>1, <1>2, <1>3
<1> QED
  BY <1>1, <1>2, <1>4 DEF Cells

\* Scrolling keeps the type of the video memory.
LEMMA ScrollFact ==
  ASSUME NEW v \in [Cells -> Glyphs]
  PROVE  Scrolled(v) \in [Cells -> Glyphs]
<1>1. Blank \in Glyphs
  BY DEF Glyphs
<1>2. ASSUME NEW i \in Cells, i < W * (R - 1)
      PROVE  i + W \in Cells
  <2>1. R \in Nat /\ W \in Nat /\ W * R \in Nat /\ W * (R - 1) = W * R - W
    BY SizeAssumption
  <2> QED
    BY <2>1, <1>2 DEF Cells
<1> QED
  BY <1>1, <1>2 DEF Scrolled

Screen(s) ==
  /\ s.v \in [Cells -> Glyphs]
  /\ s.x \in -1 .. W /\ s.y \in 0 .. R

\* A newline from an interrupt leaves the cursor at the start of a row that is
\* not the first, wherever it was.
LEMMA InterruptNewLine ==
  ASSUME NEW s, Screen(s)
  PROVE  /\ Screen(PutChar(s, NL))
         /\ PutChar(s, NL).x = 0
         /\ PutChar(s, NL).y \in 1 .. R - 1
<1>1. Scrolled(s.v) \in [Cells -> Glyphs]
  BY ScrollFact DEF Screen
<1>2. PutChar(s, NL) =
        [v |-> IF s.y + 1 >= R THEN Scrolled(s.v) ELSE s.v,
         x |-> 0,
         y |-> IF s.y + 1 >= R THEN R - 1 ELSE s.y + 1]
  BY SizeAssumption DEF PutChar
<1> QED
  BY <1>1, <1>2, SizeAssumption DEF Screen

\* The message fits in its row.
LEMMA InterruptMessage ==
  ASSUME NEW s, Screen(s), s.x = 0, s.y \in 1 .. R - 1
  PROVE  Screen(PutChar(s, Message))
<1> DEFINE w == [s.v EXCEPT ![s.y * W + s.x] = Message]
<1>1. PutChar(s, Message) = [v |-> w, x |-> 1, y |-> s.y]
  <2>1. Message # NL
    BY DEF Message, NL
  <2> QED
    BY <2>1, SizeAssumption DEF PutChar, Screen
<1>2. w \in [Cells -> Glyphs]
  BY DEF Screen, Glyphs
<1> QED
  BY <1>1, <1>2, SizeAssumption DEF Screen

\* What an interrupt that prints leaves behind.
LEMMA UnhandledFact ==
  ASSUME IInv, Unhandled
  PROVE  /\ vidmem' \in [Cells -> Glyphs]
         /\ x' = 0 /\ y' \in 1 .. R - 1
<1> DEFINE s == [v |-> vidmem, x |-> x, y |-> y]
           a == PutChar(s, NL)
           b == PutChar(a, Message)
           c == PutChar(b, NL)
<1>1. Screen(s)
  BY DEF IInv, TypeOK, Screen
<1>2. Screen(a) /\ a.x = 0 /\ a.y \in 1 .. R - 1
  BY <1>1, InterruptNewLine
<1>3. Screen(b)
  BY <1>2, InterruptMessage
<1>4. Screen(c) /\ c.x = 0 /\ c.y \in 1 .. R - 1
  BY <1>3, InterruptNewLine
<1>5. vidmem' = c.v /\ x' = c.x /\ y' = c.y
  BY DEF Unhandled
<1> QED
  BY <1>4, <1>5 DEF Screen

-----------------------------------------------------------------------------
\* The state after the constructor and the first prompt satisfies the invariant.
LEMMA InitInv == Init => IInv
<1> SUFFICES ASSUME Init PROVE IInv
  OBVIOUS
<1>1. TypeOK
  BY SizeAssumption, LineAssumption DEF Init, TypeOK, Glyphs, Steps
<1> QED
  BY <1>1, SizeAssumption DEF Init, IInv, WritesInVideo, RowInside, ColumnInside,
     BeforeRow, Loaded, Written

\* A newline only loads and stores numbers.
LEMMA NewLineInv == IInv /\ NewLine => IInv'
<1> SUFFICES ASSUME IInv, NewLine PROVE IInv'
  OBVIOUS
<1> USE SizeAssumption, LineAssumption DEF screen, locals
<1>1. CASE StoreX("nl", "nl_load", 0)
  BY <1>1 DEF IInv, TypeOK, WritesInVideo, RowInside, ColumnInside, BeforeRow, Loaded, Written, Steps,
     Step, StoreX
<1>2. CASE LoadY("nl_load", "nl_store")
  BY <1>2 DEF IInv, TypeOK, WritesInVideo, RowInside, ColumnInside, BeforeRow, Loaded, Written, Steps,
     Step, LoadY
<1>3. CASE StoreY("nl_store", "wrap", reg + 1)
  BY <1>3 DEF IInv, TypeOK, WritesInVideo, RowInside, ColumnInside, BeforeRow, Loaded, Written, Steps,
     Step, StoreY
<1> QED
  BY <1>1, <1>2, <1>3 DEF NewLine

\* A backspace reaches the cell it clears with a valid cursor.
LEMMA BackspaceInv == IInv /\ Backspace => IInv'
<1> SUFFICES ASSUME IInv, Backspace PROVE IInv'
  OBVIOUS
<1> USE SizeAssumption, LineAssumption DEF screen, locals
<1>1. CASE /\ Step("bs", IF x > 0 THEN "bs_load" ELSE "bs_y")
          /\ UNCHANGED <<screen, locals>>
  BY <1>1 DEF IInv, TypeOK, WritesInVideo, RowInside, ColumnInside, BeforeRow, Loaded, Written, Steps,
     Step
<1>2. CASE /\ Step("bs_load", "bs_store") /\ reg' = x
          /\ UNCHANGED <<screen, ch, row, addr>>
  BY <1>2 DEF IInv, TypeOK, WritesInVideo, RowInside, ColumnInside, BeforeRow, Loaded, Written, Steps,
     Step
<1>3. CASE StoreX("bs_store", "row", reg - 1)
  BY <1>3 DEF IInv, TypeOK, WritesInVideo, RowInside, ColumnInside, BeforeRow, Loaded, Written, Steps,
     Step, StoreX
<1>4. CASE /\ Step("bs_y", IF y > 0 THEN "bsy_load" ELSE "idle")
          /\ UNCHANGED <<screen, locals>>
  BY <1>4 DEF IInv, TypeOK, WritesInVideo, RowInside, ColumnInside, BeforeRow, Loaded, Written, Steps,
     Step
<1>5. CASE LoadY("bsy_load", "bsy_store")
  BY <1>5 DEF IInv, TypeOK, WritesInVideo, RowInside, ColumnInside, BeforeRow, Loaded, Written, Steps,
     Step, LoadY
<1>6. CASE StoreY("bsy_store", "bs_x", reg - 1)
  BY <1>6 DEF IInv, TypeOK, WritesInVideo, RowInside, ColumnInside, BeforeRow, Loaded, Written, Steps,
     Step, StoreY
<1>7. CASE StoreX("bs_x", "row", W - 1)
  BY <1>7 DEF IInv, TypeOK, WritesInVideo, RowInside, ColumnInside, BeforeRow, Loaded, Written, Steps,
     Step, StoreX
<1> QED
  BY <1>1, <1>2, <1>3, <1>4, <1>5, <1>6, <1>7 DEF Backspace

\* Wrapping goes to a row on the screen, or the one below it.
LEMMA WrapInv == IInv /\ Wrap => IInv'
<1> SUFFICES ASSUME IInv, Wrap PROVE IInv'
  OBVIOUS
<1> USE SizeAssumption, LineAssumption DEF screen, locals
<1>1. CASE /\ Step("wrap", IF x >= W THEN "wrap_x" ELSE "scroll")
          /\ UNCHANGED <<screen, locals>>
  BY <1>1 DEF IInv, TypeOK, WritesInVideo, RowInside, ColumnInside, BeforeRow, Loaded, Written, Steps,
     Step
<1>2. CASE StoreX("wrap_x", "wrap_load", 0)
  BY <1>2 DEF IInv, TypeOK, WritesInVideo, RowInside, ColumnInside, BeforeRow, Loaded, Written, Steps,
     Step, StoreX
<1>3. CASE LoadY("wrap_load", "wrap_store")
  BY <1>3 DEF IInv, TypeOK, WritesInVideo, RowInside, ColumnInside, BeforeRow, Loaded, Written, Steps,
     Step, LoadY
<1>4. CASE StoreY("wrap_store", "scroll", reg + 1)
  BY <1>4 DEF IInv, TypeOK, WritesInVideo, RowInside, ColumnInside, BeforeRow, Loaded, Written, Steps,
     Step, StoreY
<1> QED
  BY <1>1, <1>2, <1>3, <1>4 DEF Wrap

\* Scrolling brings the cursor back to the last row.
LEMMA ScrollInv == IInv /\ Scroll => IInv'
<1> SUFFICES ASSUME IInv, Scroll PROVE IInv'
  OBVIOUS
<1> USE SizeAssumption, LineAssumption DEF screen, locals
<1>1. CASE /\ y < R /\ Step("scroll", "idle")
          /\ UNCHANGED <<screen, locals>>
  BY <1>1 DEF IInv, TypeOK, WritesInVideo, RowInside, ColumnInside, BeforeRow, Loaded, Written, Steps,
     Step
<1>2. CASE /\ y >= R /\ Step("scroll", "scroll_y")
          /\ vidmem' = Scrolled(vidmem)
          /\ UNCHANGED <<x, y, locals>>
  BY <1>2, ScrollFact DEF IInv, TypeOK, WritesInVideo, RowInside, ColumnInside, BeforeRow, Loaded, Written, Steps,
     Step
<1>3. CASE StoreY("scroll_y", "idle", R - 1)
  BY <1>3 DEF IInv, TypeOK, WritesInVideo, RowInside, ColumnInside, BeforeRow, Loaded, Written, Steps,
     Step, StoreY
<1> QED
  BY <1>1, <1>2, <1>3 DEF Scroll

\* Clearing the screen ends in its first cell.
LEMMA ClearInv == IInv /\ Clear => IInv'
<1> SUFFICES ASSUME IInv, Clear PROVE IInv'
  OBVIOUS
<1> USE SizeAssumption, LineAssumption DEF screen, locals
<1>1. CASE /\ Step("clear", "clear_x")
          /\ vidmem' = [i \in Cells |-> Blank]
          /\ UNCHANGED <<x, y, locals>>
  BY <1>1 DEF IInv, TypeOK, WritesInVideo, RowInside, ColumnInside, BeforeRow, Loaded, Written, Steps,
     Step, Glyphs
<1>2. CASE StoreX("clear_x", "clear_y", 0)
  BY <1>2 DEF IInv, TypeOK, WritesInVideo, RowInside, ColumnInside, BeforeRow, Loaded, Written, Steps,
     Step, StoreX
<1>3. CASE StoreY("clear_y", "idle", 0)
  BY <1>3 DEF IInv, TypeOK, WritesInVideo, RowInside, ColumnInside, BeforeRow, Loaded, Written, Steps,
     Step, StoreY
<1> QED
  BY <1>1, <1>2, <1>3 DEF Clear

\* A character goes to a cell of the screen.
LEMMA WriteCellInv == IInv /\ WriteCell => IInv'
<1> SUFFICES ASSUME IInv, WriteCell PROVE IInv'
  OBVIOUS
<1> USE SizeAssumption, LineAssumption DEF screen, locals
<1>1. CASE /\ Step("row", "addr") /\ row' = y
           /\ UNCHANGED <<screen, ch, reg, addr>>
  BY <1>1 DEF IInv, TypeOK, WritesInVideo, RowInside, ColumnInside, BeforeRow,
     Loaded, Written, Steps, Step
<1>2. CASE /\ Step("addr", "write") /\ addr' = row * W + x
           /\ UNCHANGED <<screen, ch, reg, row>>
  <2>1. row \in 0 .. R - 1 /\ x \in -1 .. W - 1 /\ (x = -1 => row > 0)
    BY <1>2 DEF IInv, TypeOK, ColumnInside, Loaded, Step
  <2>2. addr' \in Cells
    BY <2>1, <1>2, AddressFact
  <2>3. addr' \in Int
    BY <2>2 DEF Cells
  <2> QED
    BY <1>2, <2>2, <2>3 DEF IInv, TypeOK, WritesInVideo, RowInside, ColumnInside,
       BeforeRow, Loaded, Written, Steps, Step
<1>3. CASE /\ Step("write", IF ch = BS THEN "idle" ELSE "x_load")
           /\ vidmem' = [vidmem EXCEPT ![addr] = IF ch = BS THEN Blank ELSE ch]
           /\ UNCHANGED <<x, y, locals>>
  <2>1. vidmem' \in [Cells -> Glyphs]
    BY <1>3 DEF IInv, TypeOK, Written, Glyphs, Step
  <2> QED
    BY <1>3, <2>1 DEF IInv, TypeOK, WritesInVideo, RowInside, ColumnInside,
       BeforeRow, Loaded, Written, Steps, Step
<1>4. CASE /\ Step("x_load", "x_store") /\ reg' = x
           /\ UNCHANGED <<screen, ch, row, addr>>
  BY <1>4 DEF IInv, TypeOK, WritesInVideo, RowInside, ColumnInside, BeforeRow,
     Loaded, Written, Steps, Step
<1>5. CASE StoreX("x_store", "wrap", reg + 1)
  BY <1>5 DEF IInv, TypeOK, WritesInVideo, RowInside, ColumnInside, BeforeRow,
     Loaded, Written, Steps, Step, StoreX
<1> QED
  BY <1>1, <1>2, <1>3, <1>4, <1>5 DEF WriteCell

\* The next character of what is printed.
LEMMA PutNextInv == IInv /\ PutNext => IInv'
<1> SUFFICES ASSUME IInv, PutNext PROVE IInv'
  OBVIOUS
<1> DEFINE Out == Chars \cup {Prompt, NL, BS, Clr}
<1>1. out \in Seq(Out) /\ out # <<>>
  BY DEF IInv, TypeOK, PutNext
<1>2. Head(out) \in Out /\ Tail(out) \in Seq(Out)
  BY <1>1, HeadTailProperties
<1>3. ch' \in Out /\ out' \in Seq(Out)
  BY <1>2 DEF PutNext
<1>4. pc' \in {"nl", "bs", "clear", "row"} /\ (pc' = "bs" => ch' = BS)
      /\ (pc' = "row" => ch' \in Glyphs)
  BY <1>2, SMT DEF PutNext, Glyphs
<1> QED
  BY <1>3, <1>4, SizeAssumption DEF PutNext, IInv, TypeOK, WritesInVideo, RowInside,
     ColumnInside, BeforeRow, Loaded, Written, Steps, screen

-----------------------------------------------------------------------------
\* The line editor changes the line and what is to be printed, nothing else.
LEMMA EditInv ==
  ASSUME IInv, pc = "idle", UNCHANGED <<screen, pc, locals, noise>>,
         out' \in Seq(Chars \cup {Prompt, NL, BS, Clr}),
         line' \in Seq(Chars), Len(line') <= MaxLine
  PROVE  IInv'
BY DEF IInv, TypeOK, WritesInVideo, RowInside, ColumnInside, BeforeRow, Loaded,
   Written, Steps, screen, locals

LEMMA EraseInv == IInv /\ Erase => IInv'
<1> SUFFICES ASSUME IInv, Erase PROVE IInv'
  OBVIOUS
<1>1. line \in Seq(Chars) /\ Len(line) <= MaxLine /\ line # <<>>
  BY DEF IInv, TypeOK, Erase
<1>2. Len(line) \in Nat /\ Len(line) >= 1
  BY <1>1
<1>3. SubSeq(line, 1, Len(line) - 1) \in Seq(Chars)
      /\ Len(SubSeq(line, 1, Len(line) - 1)) = Len(line) - 1
  <2> DEFINE n == Len(line) - 1
  <2>1. n \in Nat
    BY <1>2
  <2>2. \A i \in 1 .. n : line[i] \in Chars
    BY <1>1, <1>2
  <2> HIDE DEF n
  <2>3. (IF 1 <= n THEN n - 1 + 1 ELSE 0) = n
    <3>1. CASE 1 <= n
      BY <2>1, <3>1
    <3>2. CASE n = 0
      BY <3>2
    <3> QED
      BY <2>1, <3>1, <3>2
  <2>4. SubSeq(line, 1, n) \in Seq(Chars) /\ Len(SubSeq(line, 1, n)) = n
    BY <2>1, <2>2, <2>3, SubSeqProperties
  <2> QED
    BY <2>4 DEF n
<1> QED
  BY <1>1, <1>2, <1>3, EditInv, LineAssumption DEF Erase

LEMMA TypeInv == ASSUME NEW c \in Chars PROVE IInv /\ Type(c) => IInv'
<1> SUFFICES ASSUME IInv, Type(c) PROVE IInv'
  OBVIOUS
<1>1. line \in Seq(Chars) /\ Len(line) < MaxLine
  BY DEF IInv, TypeOK, Type
<1>2. line' \in Seq(Chars) /\ Len(line') <= MaxLine
  BY <1>1, LineAssumption DEF Type
<1> QED
  BY <1>2, EditInv DEF Type

LEMMA EnterInv == IInv /\ Enter => IInv'
<1> SUFFICES ASSUME IInv, Enter PROVE IInv'
  OBVIOUS
<1>1. line' \in Seq(Chars) /\ Len(line') <= MaxLine
  BY LineAssumption DEF Enter
<1>2. out' \in Seq(Chars \cup {Prompt, NL, BS, Clr})
  <2> DEFINE Out == Chars \cup {Prompt, NL, BS, Clr}
  <2>1. Prompt \in Out /\ NL \in Out /\ Clr \in Out
    OBVIOUS
  <2>2. <<NL, Prompt>> \in Seq(Out) /\ <<NL, Clr, Prompt>> \in Seq(Out)
    <3> HIDE DEF Out
    <3> QED
      BY <2>1
  <2> QED
    BY <2>2 DEF Enter
<1> QED
  BY <1>1, <1>2, EditInv DEF Enter

-----------------------------------------------------------------------------
\* After an interrupt that prints, whatever put_char has loaded before it, the
\* cursor is at the start of a row that is not the first.
LEMMA UnhandledInv == IInv /\ Unhandled => IInv'
<1> SUFFICES ASSUME IInv, Unhandled PROVE IInv'
  OBVIOUS
<1>1. vidmem' \in [Cells -> Glyphs] /\ x' = 0 /\ y' \in 1 .. R - 1
  BY UnhandledFact
<1>2. noise' \in 1 .. MaxNoise /\ UNCHANGED <<pc, locals, out, line>>
  BY LineAssumption DEF Unhandled, IInv, TypeOK
<1> QED
  BY <1>1, <1>2, SizeAssumption, LineAssumption DEF IInv, TypeOK, WritesInVideo,
     RowInside, ColumnInside, BeforeRow, Loaded, Written, locals

\* Repainting leaves the cursor alone.
LEMMA RefreshInv == IInv /\ refresh => IInv'
<1> SUFFICES ASSUME IInv, refresh PROVE IInv'
  OBVIOUS
<1>1. vidmem' \in [Cells -> Glyphs]
  BY DEF refresh, Glyphs
<1>2. noise' \in 1 .. MaxNoise /\ UNCHANGED <<x, y, pc, locals, out, line>>
  BY LineAssumption DEF refresh, IInv, TypeOK
<1> QED
  BY <1>1, <1>2, SizeAssumption, LineAssumption DEF IInv, TypeOK, WritesInVideo,
     RowInside, ColumnInside, BeforeRow, Loaded, Written, locals

-----------------------------------------------------------------------------
LEMMA NextInv == IInv /\ [Next]_vars => IInv'
<1> SUFFICES ASSUME IInv, [Next]_vars PROVE IInv'
  OBVIOUS
<1>1. CASE NewLine
  BY <1>1, NewLineInv
<1>2. CASE WriteCell
  BY <1>2, WriteCellInv
<1>3. CASE Backspace
  BY <1>3, BackspaceInv
<1>4. CASE Wrap
  BY <1>4, WrapInv
<1>5. CASE Scroll
  BY <1>5, ScrollInv
<1>6. CASE Clear
  BY <1>6, ClearInv
<1>7. CASE PutNext
  BY <1>7, PutNextInv
<1>8. CASE Erase
  BY <1>8, EraseInv
<1>9. CASE Enter
  BY <1>9, EnterInv
<1>10. CASE \E c \in Chars : Type(c)
  BY <1>10, TypeInv
<1>11. CASE Unhandled
  BY <1>11, UnhandledInv
<1>12. CASE refresh
  BY <1>12, RefreshInv
<1>13. CASE UNCHANGED vars
  BY <1>13 DEF vars, screen, locals, IInv, TypeOK, WritesInVideo, RowInside,
     ColumnInside, BeforeRow, Loaded, Written
<1> QED
  BY <1>1, <1>2, <1>3, <1>4, <1>5, <1>6, <1>7, <1>8, <1>9, <1>10, <1>11, <1>12,
     <1>13 DEF Next

\* The cursor and everything put_char has read before an interrupt stay in bounds.
THEOREM Invariance == Spec => []IInv
BY InitInv, NextInv, PTL DEF Spec

\* Every variable keeps its type, on a screen of any size.
THEOREM TypeCorrect == Spec => []TypeOK
<1>1. IInv => TypeOK
  BY DEF IInv
<1> QED
  BY <1>1, Invariance, PTL

\* However often interrupts print in the middle of put_char, it writes no cell
\* outside the video memory.
THEOREM VideoIsSafe == Spec => []WritesInVideo
<1>1. IInv => WritesInVideo
  BY DEF IInv
<1> QED
  BY <1>1, Invariance, PTL

\* Between two characters the cursor is on the screen, or one cell before a row
\* that is not the first, and then only after an interrupt.
THEOREM CursorIsSafe == Spec => []CursorOnScreen
<1>1. IInv => CursorOnScreen
  BY SizeAssumption DEF IInv, TypeOK, RowInside, ColumnInside, BeforeRow,
     CursorOnScreen
<1> QED
  BY <1>1, Invariance, PTL
-----------------------------------------------------------------------------
(***************************************************************************)
(* The echo.  While no interrupt has written to the screen the cells are   *)
(* those of the line, up to the character that is being put: each step of  *)
(* put_char is given the address that the cursor has, or is on its way to. *)
(***************************************************************************)
At == y * W + x

Put(v, a, c) == [v EXCEPT ![a] = c]

BlankFrom(v, a) == \A i \in Cells : i >= a => v[i] = Blank

\* The prompt and the line l end before cell a of v, and nothing follows.
Shows(v, a, l) ==
  LET start == a - Len(l)
  IN /\ start > 0
     /\ v[start - 1] = Prompt
     /\ \A i \in 1 .. Len(l) : v[start + i - 1] = l[i]
     /\ BlankFrom(v, a)

Printable == Chars \cup {Prompt}

\* Between two characters: the next one completes the line, takes its last one
\* away, or belongs to the end of a line.
Ready ==
  pc = "idle" =>
    \/ out = <<>> /\ Shows(vidmem, At, line)
    \/ \E c \in Printable : out = <<c>> /\ Shows(Put(vidmem, At, c), At + 1, line)
    \/ out = <<BS>> /\ Shows(Put(vidmem, At - 1, Blank), At - 1, line)
    \/ /\ out \in {<<NL, Prompt>>, <<NL, Clr, Prompt>>, <<Clr, Prompt>>}
       /\ line = <<>> /\ BlankFrom(vidmem, At)

\* A character on its way to the cell of the cursor, or there.
Putting ==
  pc \in {"row", "addr", "write", "x_load", "x_store"} =>
    /\ out = <<>>
    /\ pc = "addr" => row = y
    /\ pc = "write" => addr = At
    /\ pc = "x_store" => reg = x
    /\ \/ /\ ch \in Printable /\ pc \in {"row", "addr", "write"}
          /\ Shows(Put(vidmem, At, ch), At + 1, line)
       \/ /\ ch \in Printable /\ pc \in {"x_load", "x_store"}
          /\ Shows(vidmem, At + 1, line)
       \/ /\ ch = BS /\ pc \in {"row", "addr", "write"}
          /\ Shows(Put(vidmem, At, Blank), At, line)

\* The cursor on its way back, in its row or to the end of the one above.
Erasing ==
  pc \in {"bs", "bs_load", "bs_store", "bs_y", "bsy_load", "bsy_store", "bs_x"} =>
    /\ out = <<>> /\ ch = BS
    /\ pc \in {"bs_load", "bs_store"} => x > 0
    /\ pc \in {"bs_y", "bsy_load", "bsy_store", "bs_x"} => x = 0
    /\ pc = "bs_store" => reg = x
    /\ pc = "bsy_store" => reg = y
    /\ pc # "bs_x" => Shows(Put(vidmem, At - 1, Blank), At - 1, line)
    /\ pc = "bs_x" => Shows(Put(vidmem, At + W - 1, Blank), At + W - 1, line)

\* The character is put, and the line goes on at a.
Settled(a) ==
  \/ ch \in Printable /\ out = <<>> /\ Shows(vidmem, a, line)
  \/ /\ ch = NL /\ out \in {<<Prompt>>, <<Clr, Prompt>>} /\ line = <<>>
     /\ BlankFrom(vidmem, a)

\* The cursor on its way to the next row, and the screen moving up.
Moving ==
  /\ pc = "nl" => ch = NL
  /\ pc \in {"nl", "wrap", "wrap_x", "scroll"} => Settled(At)
  /\ pc \in {"nl_load", "nl_store", "wrap_load", "wrap_store"} => Settled(At + W)
  /\ pc = "wrap_x" => x = W
  /\ pc \in {"nl_store", "wrap_store"} => reg = y
  /\ pc \in {"wrap", "scroll", "scroll_y"} /\ y = R => x = 0
  /\ pc = "scroll_y" => y = R /\ Settled(At - W)

Clearing ==
  pc \in {"clear", "clear_x", "clear_y"} =>
    /\ out = <<Prompt>> /\ line = <<>>
    /\ pc # "clear" => BlankFrom(vidmem, 0)

Echo == Ready /\ Putting /\ Erasing /\ Moving /\ Clearing

EchoInv == noise = 0 => Echo

\* The cells and the cursor without interrupts.
LEMMA CursorFact ==
  ASSUME IInv, noise = 0
  PROVE  /\ W \in Nat /\ R \in Nat /\ W >= 2 /\ R >= 2 /\ W * R \in Nat
         /\ vidmem \in [Cells -> Glyphs] /\ line \in Seq(Chars) /\ Len(line) <= MaxLine
         /\ x \in 0 .. W /\ y \in 0 .. R /\ y * W \in Nat /\ At \in Nat
         /\ (y + 1) * W = y * W + W /\ (y - 1) * W = y * W - W
         /\ pc \notin {"wrap", "wrap_x"} => x < W
         /\ pc \notin {"wrap", "scroll", "scroll_y"} => y < R
         /\ x < W /\ y < R => At \in Cells
         /\ y = R => y * W = W * R
<1>1. W \in Nat /\ R \in Nat /\ W >= 2 /\ R >= 2 /\ W * R \in Nat
  BY SizeAssumption
<1>2. /\ vidmem \in [Cells -> Glyphs] /\ line \in Seq(Chars) /\ Len(line) <= MaxLine
      /\ x \in 0 .. W /\ y \in 0 .. R
  BY <1>1 DEF IInv, TypeOK, BeforeRow
<1>3. /\ pc \notin {"wrap", "wrap_x"} => x < W
      /\ pc \notin {"wrap", "scroll", "scroll_y"} => y < R
  BY <1>1, <1>2 DEF IInv, RowInside, ColumnInside
<1>4. /\ y * W \in Nat /\ At \in Nat
      /\ (y + 1) * W = y * W + W /\ (y - 1) * W = y * W - W
      /\ y = R => y * W = W * R
  BY <1>1, <1>2 DEF At
<1>5. x < W /\ y < R => At \in Cells
  <2>1. x < W /\ y < R => x \in -1 .. W - 1 /\ y \in 0 .. R - 1 /\ x # -1
    BY <1>1, <1>2
  <2> QED
    BY <2>1, AddressFact DEF At
<1> QED
  BY <1>1, <1>2, <1>3, <1>4, <1>5

\* Typing a character at the end of the line.
LEMMA ShowsType ==
  ASSUME NEW v \in [Cells -> Glyphs], NEW a \in Cells, NEW l \in Seq(Chars),
         NEW c \in Chars, Shows(v, a, l)
  PROVE  Shows(Put(v, a, c), a + 1, Append(l, c))
<1> DEFINE m == Append(l, c)
           n == Len(l)
<1>1. Len(m) = n + 1 /\ n \in Nat /\ m[n + 1] = c /\ \A i \in 1 .. n : m[i] = l[i]
  OBVIOUS
<1>2. Cells \subseteq Nat /\ \A i \in Nat : i <= a => i \in Cells
  BY SizeAssumption DEF Cells
<1>3. Put(v, a, c)[a] = c /\ \A i \in Cells : i # a => Put(v, a, c)[i] = v[i]
  BY DEF Put
<1>4. a - n > 0 /\ v[a - n - 1] = Prompt /\ (\A i \in 1 .. n : v[a - n + i - 1] = l[i])
      /\ \A i \in Cells : i >= a => v[i] = Blank
  BY DEF Shows, BlankFrom
<1> HIDE DEF m, n
<1>5. (a + 1) - Len(m) = a - n
  BY <1>1, <1>2
<1>6. Put(v, a, c)[a - n - 1] = Prompt
  BY <1>1, <1>2, <1>3, <1>4
<1>7. ASSUME NEW i \in 1 .. n + 1
      PROVE  Put(v, a, c)[a - n + i - 1] = m[i]
  <2>1. CASE i = n + 1
    BY <1>1, <1>2, <1>3, <2>1
  <2>2. CASE i \in 1 .. n
    <3>1. a - n + i - 1 \in Cells /\ a - n + i - 1 # a
      BY <1>1, <1>2, <1>4, <2>2
    <3> QED
      BY <1>1, <1>3, <1>4, <2>2, <3>1
  <2> QED
    BY <1>1, <2>1, <2>2
<1>8. ASSUME NEW i \in Cells, i >= a + 1
      PROVE  Put(v, a, c)[i] = Blank
  BY <1>2, <1>3, <1>4, <1>8
<1> DEFINE w == Put(v, a, c)
<1> HIDE DEF w
<1>9. Shows(w, a + 1, m)
  <2>1. (a + 1) - Len(m) > 0 /\ w[(a + 1) - Len(m) - 1] = Prompt
    BY <1>4, <1>5, <1>6 DEF w
  <2>3. \A i \in 1 .. Len(m) : w[(a + 1) - Len(m) + i - 1] = m[i]
    BY <1>1, <1>5, <1>7 DEF w
  <2>2. BlankFrom(w, a + 1)
    BY <1>8 DEF BlankFrom, w
  <2> QED
    BY <2>1, <2>2, <2>3 DEF Shows
<1> QED
  BY <1>9 DEF m, w

\* Taking the last character of the line away.
LEMMA ShowsErase ==
  ASSUME NEW v \in [Cells -> Glyphs], NEW a \in Cells, NEW l \in Seq(Chars),
         l # <<>>, Shows(v, a, l)
  PROVE  Shows(Put(v, a - 1, Blank), a - 1, SubSeq(l, 1, Len(l) - 1))
<1> DEFINE n == Len(l) - 1
           m == SubSeq(l, 1, n)
<1>1. n \in Nat /\ Len(l) = n + 1
  OBVIOUS
<1>2. Len(m) = n /\ \A i \in 1 .. n : m[i] = l[i]
  <2> HIDE DEF n
  <2>1. \A i \in 1 .. n : l[i] \in Chars
    BY <1>1
  <2>2. Len(m) = IF 1 <= n THEN n - 1 + 1 ELSE 0
    BY <1>1, <2>1, SubSeqProperties
  <2>3. \A i \in 1 .. n - 1 + 1 : m[i] = l[1 + i - 1]
    BY <1>1, <2>1, SubSeqProperties
  <2>4. \A i \in 1 .. n : i \in 1 .. n - 1 + 1 /\ 1 + i - 1 = i
    BY <1>1
  <2>5. Len(m) = n
    <3>1. CASE 1 <= n
      <4>1. Len(m) = n - 1 + 1
        BY <2>2, <3>1
      <4> QED
        BY <1>1, <4>1
    <3>2. CASE n = 0
      <4>1. Len(m) = 0
        BY <2>2, <3>2
      <4> QED
        BY <3>2, <4>1
    <3> QED
      BY <1>1, <3>1, <3>2
  <2>6. \A i \in 1 .. n : m[i] = l[i]
    BY <2>3, <2>4
  <2> QED
    BY <2>5, <2>6
<1>3. Cells \subseteq Nat /\ \A i \in Nat : i <= a => i \in Cells
  BY SizeAssumption DEF Cells
<1>4. /\ a - (n + 1) > 0 /\ v[a - (n + 1) - 1] = Prompt
      /\ \A i \in 1 .. n + 1 : v[a - (n + 1) + i - 1] = l[i]
      /\ \A i \in Cells : i >= a => v[i] = Blank
  BY <1>1 DEF Shows, BlankFrom
<1> HIDE DEF m, n
<1>5. a - 1 \in Cells /\ a - 1 - n = a - (n + 1)
  BY <1>1, <1>3, <1>4
<1> DEFINE w == Put(v, a - 1, Blank)
<1>6. w[a - 1] = Blank /\ \A i \in Cells : i # a - 1 => w[i] = v[i]
  BY <1>5 DEF Put
<1> HIDE DEF w
<1>7. w[a - 1 - n - 1] = Prompt
  BY <1>1, <1>3, <1>4, <1>5, <1>6
<1>8. ASSUME NEW i \in 1 .. n
      PROVE  w[a - 1 - n + i - 1] = m[i]
  <2>1. a - 1 - n + i - 1 \in Cells /\ a - 1 - n + i - 1 # a - 1
    BY <1>1, <1>3, <1>4
  <2>2. a - 1 - n + i - 1 = a - (n + 1) + i - 1 /\ i \in 1 .. n + 1
    BY <1>1, <1>3
  <2> QED
    BY <1>2, <1>4, <1>6, <2>1, <2>2
<1>9. ASSUME NEW i \in Cells, i >= a - 1
      PROVE  w[i] = Blank
  <2>1. i = a - 1 \/ i >= a
    BY <1>3, <1>9
  <2> QED
    BY <1>3, <1>4, <1>6, <2>1
<1>10. Shows(w, a - 1, m)
  BY <1>2, <1>4, <1>5, <1>7, <1>8, <1>9 DEF Shows, BlankFrom
<1> QED
  BY <1>10 DEF w, m, n

\* The prompt of an empty line.
LEMMA ShowsPrompt ==
  ASSUME NEW v \in [Cells -> Glyphs], NEW a \in Cells, BlankFrom(v, a)
  PROVE  Shows(Put(v, a, Prompt), a + 1, <<>>)
<1>1. a \in Nat /\ a + 1 > 0 /\ Cells \subseteq Nat
  BY SizeAssumption DEF Cells
<1>2. Put(v, a, Prompt)[a] = Prompt /\ \A i \in Cells : i # a => Put(v, a, Prompt)[i] = v[i]
  BY DEF Put
<1>3. (a + 1) - 0 = a + 1 /\ a + 1 - 1 = a /\ Len(<<>>) = 0
  BY <1>1
<1>4. \A i \in Cells : i >= a + 1 => Put(v, a, Prompt)[i] = Blank
  BY <1>1, <1>2 DEF BlankFrom
<1> DEFINE w == Put(v, a, Prompt)
<1> HIDE DEF w
<1>5. BlankFrom(w, a + 1) /\ w[(a + 1) - Len(<<>>) - 1] = Prompt /\ (a + 1) - Len(<<>>) > 0
  <2>1. (a + 1) - Len(<<>>) = a + 1
    BY <1>1, <1>3
  <2> QED
    BY <1>1, <1>2, <1>3, <1>4, <2>1 DEF BlankFrom, w
<1>6. \A i \in 1 .. Len(<<>>) : w[(a + 1) - Len(<<>>) + i - 1] = <<>>[i]
  BY <1>3
<1>7. Shows(w, a + 1, <<>>)
  BY <1>5, <1>6 DEF Shows
<1> QED
  BY <1>7 DEF w

\* The screen moves up a row, and the line with it.
LEMMA ShowsScroll ==
  ASSUME NEW v \in [Cells -> Glyphs], NEW l \in Seq(Chars), Len(l) <= MaxLine,
         Shows(v, W * R, l)
  PROVE  Shows(Scrolled(v), W * R - W, l)
<1>1. /\ W \in Nat /\ R \in Nat /\ W >= 2 /\ W * R \in Nat /\ W * (R - 1) = W * R - W
      /\ MaxLine \in Nat /\ MaxLine + 1 <= W * R - W
  BY SizeAssumption, LineAssumption
<1> DEFINE n == Len(l)
           a == W * R
<1>2. n \in Nat /\ n + 1 <= a - W
  BY <1>1
<1>3. /\ a - n > 0 /\ v[a - n - 1] = Prompt
      /\ \A i \in 1 .. n : v[a - n + i - 1] = l[i]
  BY DEF Shows
<1>4. a \in Nat /\ Cells = 0 .. a - 1
  BY <1>1 DEF Cells
<1>5. \A i \in Cells : Scrolled(v)[i] = IF i < a - W THEN v[i + W] ELSE Blank
  BY <1>1 DEF Scrolled
<1> HIDE DEF a, n
<1>6. a - W - n > 0
  BY <1>1, <1>2, <1>4
<1>7. Scrolled(v)[a - W - n - 1] = Prompt
  <2>1. a - W - n - 1 \in Cells /\ a - W - n - 1 < a - W /\ a - W - n - 1 + W = a - n - 1
    BY <1>1, <1>2, <1>4
  <2> QED
    BY <1>3, <1>5, <2>1
<1>8. ASSUME NEW i \in 1 .. n
      PROVE  Scrolled(v)[a - W - n + i - 1] = l[i]
  <2>1. /\ a - W - n + i - 1 \in Cells /\ a - W - n + i - 1 < a - W
        /\ a - W - n + i - 1 + W = a - n + i - 1
    BY <1>1, <1>2, <1>4
  <2> QED
    BY <1>3, <1>5, <2>1
<1>9. ASSUME NEW i \in Cells, i >= a - W
      PROVE  Scrolled(v)[i] = Blank
  BY <1>1, <1>4, <1>5, <1>9
<1>10. Shows(Scrolled(v), a - W, l)
  BY <1>6, <1>7, <1>8, <1>9 DEF Shows, BlankFrom, n
<1> QED
  BY <1>10 DEF a

\* The row that scrolling opens is blank.
LEMMA BlankScroll ==
  ASSUME NEW v \in [Cells -> Glyphs]
  PROVE  BlankFrom(Scrolled(v), W * R - W)
<1>1. /\ W \in Nat /\ R \in Nat /\ W * R \in Nat /\ W * (R - 1) = W * R - W
  BY SizeAssumption
<1>2. \A i \in Cells : i >= W * R - W => ~(i < W * (R - 1))
  BY <1>1 DEF Cells
<1> QED
  BY <1>2 DEF Scrolled, BlankFrom

\* What put_char tells apart.
LEMMA CharFact ==
  /\ NL \notin Printable /\ BS \notin Printable /\ Clr \notin Printable
  /\ NL # BS /\ NL # Clr /\ BS # Clr
<1>1. Prompt # NL /\ Prompt # BS /\ Prompt # Clr /\ NL # BS /\ NL # Clr /\ BS # Clr
  BY DEF Prompt, NL, BS, Clr
<1> QED
  BY <1>1, LineAssumption DEF Printable

\* The cursor leaves a line that is done.
LEMMA EchoNewLine ==
  ASSUME IInv, Echo, noise = 0, NewLine
  PROVE  Echo'
<1>1. /\ x \in 0 .. W /\ y \in 0 .. R /\ y * W \in Nat /\ W \in Nat /\ W >= 2
      /\ (y + 1) * W = y * W + W
  BY CursorFact
<1>2. CASE StoreX("nl", "nl_load", 0)
  <2>1. /\ pc = "nl" /\ pc' = "nl_load" /\ x' = 0 /\ y' = y
        /\ UNCHANGED <<vidmem, ch, out, line>>
    BY <1>2 DEF StoreX, Step, locals
  <2>2. ch = NL /\ ch \notin Printable /\ Settled(At)
    BY <2>1, CharFact DEF Echo, Moving
  <2>3. At' + W >= At
    BY <1>1, <2>1, CursorFact DEF At
  <2>4. BlankFrom(vidmem, At' + W)
    <3>1. BlankFrom(vidmem, At) /\ Cells \subseteq Int
      BY <2>2, SizeAssumption DEF Settled, Cells
    <3>2. At \in Int /\ At' + W \in Int
      BY <1>1, <2>1 DEF At
    <3> QED
      BY <2>3, <3>1, <3>2 DEF BlankFrom
  <2>5. Settled(At + W)'
    BY <2>1, <2>2, <2>4 DEF Settled
  <2> QED
    BY <2>1, <2>5 DEF Echo, Ready, Putting, Erasing, Moving, Clearing
<1>3. CASE LoadY("nl_load", "nl_store")
  <2>1. /\ pc = "nl_load" /\ pc' = "nl_store" /\ reg' = y
        /\ UNCHANGED <<vidmem, x, y, ch, out, line>>
    BY <1>3 DEF LoadY, Step, screen
  <2>2. At' = At
    BY <2>1 DEF At
  <2>3. Settled(At + W)'
    BY <2>1, <2>2 DEF Echo, Moving, Settled
  <2> QED
    BY <2>1, <2>3 DEF Echo, Ready, Putting, Erasing, Moving, Clearing
<1>4. CASE StoreY("nl_store", "wrap", reg + 1)
  <2>1. /\ pc = "nl_store" /\ pc' = "wrap" /\ y' = y + 1 /\ x' = x /\ x = 0
        /\ UNCHANGED <<vidmem, ch, out, line>>
    BY <1>4 DEF StoreY, Step, locals, Echo, Moving, IInv, Loaded
  <2>2. At' = At + W
    BY <1>1, <2>1 DEF At
  <2>3. Settled(At)'
    BY <2>1, <2>2 DEF Echo, Moving, Settled
  <2> QED
    BY <2>1, <2>3 DEF Echo, Ready, Putting, Erasing, Moving, Clearing
<1> QED
  BY <1>2, <1>3, <1>4 DEF NewLine

\* A character reaches the cell of the cursor, and the cursor the next cell.
LEMMA EchoWriteCell ==
  ASSUME IInv, Echo, noise = 0, WriteCell
  PROVE  Echo'
<1>1. /\ x \in 0 .. W /\ y \in 0 .. R /\ y * W \in Nat /\ W \in Nat
  BY CursorFact
<1>2. CASE /\ Step("row", "addr") /\ row' = y
           /\ UNCHANGED <<screen, ch, reg, addr>>
  <2>1. /\ pc = "row" /\ pc' = "addr" /\ row' = y
        /\ UNCHANGED <<vidmem, x, y, ch, out, line>>
    BY <1>2 DEF Step, screen
  <2>2. At' = At
    BY <2>1 DEF At
  <2>3. Putting'
    BY <2>1, <2>2 DEF Echo, Putting
  <2> QED
    BY <2>1, <2>3 DEF Echo, Ready, Erasing, Moving, Clearing
<1>3. CASE /\ Step("addr", "write") /\ addr' = row * W + x
           /\ UNCHANGED <<screen, ch, reg, row>>
  <2>1. /\ pc = "addr" /\ pc' = "write" /\ addr' = row * W + x
        /\ UNCHANGED <<vidmem, x, y, ch, out, line>>
    BY <1>3 DEF Step, screen
  <2>2. At' = At /\ addr' = At
    BY <2>1 DEF At, Echo, Putting
  <2>3. Putting'
    BY <2>1, <2>2 DEF Echo, Putting
  <2> QED
    BY <2>1, <2>3 DEF Echo, Ready, Erasing, Moving, Clearing
<1>4. CASE /\ Step("write", IF ch = BS THEN "idle" ELSE "x_load")
           /\ vidmem' = [vidmem EXCEPT ![addr] = IF ch = BS THEN Blank ELSE ch]
           /\ UNCHANGED <<x, y, locals>>
  <2>1. /\ pc = "write" /\ addr = At /\ out = <<>>
        /\ UNCHANGED <<x, y, ch, out, line>>
    BY <1>4 DEF Step, locals, Echo, Putting
  <2>2. At' = At
    BY <2>1 DEF At
  <2>3. CASE ch = BS
    <3>1. pc' = "idle" /\ vidmem' = Put(vidmem, At, Blank)
      BY <1>4, <2>1, <2>3 DEF Step, Put
    <3>2. Shows(vidmem', At, line)
      BY <2>1, <2>3, <3>1, CharFact DEF Echo, Putting
    <3>3. Ready'
      BY <2>1, <2>2, <3>2 DEF Ready
    <3> QED
      BY <3>1, <3>3 DEF Echo, Putting, Erasing, Moving, Clearing
  <2>4. CASE ch # BS
    <3>1. pc' = "x_load" /\ vidmem' = Put(vidmem, At, ch)
      BY <1>4, <2>1, <2>4 DEF Step, Put
    <3>2. ch \in Printable /\ Shows(vidmem', At + 1, line)
      BY <2>1, <2>4, <3>1 DEF Echo, Putting
    <3>3. Putting'
      BY <2>1, <2>2, <3>1, <3>2 DEF Putting
    <3> QED
      BY <3>1, <3>3 DEF Echo, Ready, Erasing, Moving, Clearing
  <2> QED
    BY <2>3, <2>4
<1>5. CASE /\ Step("x_load", "x_store") /\ reg' = x
           /\ UNCHANGED <<screen, ch, row, addr>>
  <2>1. /\ pc = "x_load" /\ pc' = "x_store" /\ reg' = x
        /\ UNCHANGED <<vidmem, x, y, ch, out, line>>
    BY <1>5 DEF Step, screen
  <2>2. At' = At
    BY <2>1 DEF At
  <2>3. Putting'
    BY <2>1, <2>2 DEF Echo, Putting
  <2> QED
    BY <2>1, <2>3 DEF Echo, Ready, Erasing, Moving, Clearing
<1>6. CASE StoreX("x_store", "wrap", reg + 1)
  <2>1. /\ pc = "x_store" /\ pc' = "wrap" /\ x' = x + 1 /\ y' = y /\ y # R
        /\ UNCHANGED <<vidmem, ch, out, line>>
    BY <1>6 DEF StoreX, Step, locals, Echo, Putting, IInv, RowInside
  <2>2. At' = At + 1
    BY <1>1, <2>1 DEF At
  <2>3. Settled(At)'
    BY <2>1, <2>2 DEF Echo, Putting, Settled
  <2> QED
    BY <2>1, <2>3 DEF Echo, Ready, Putting, Erasing, Moving, Clearing
<1> QED
  BY <1>2, <1>3, <1>4, <1>5, <1>6 DEF WriteCell

\* The cursor reaches the last character of the line, in its row or the one above.
LEMMA EchoBackspace ==
  ASSUME IInv, Echo, noise = 0, Backspace
  PROVE  Echo'
<1>1. /\ x \in 0 .. W /\ y \in 0 .. R /\ y * W \in Nat /\ W \in Nat /\ R \in Nat
      /\ (y - 1) * W = y * W - W
  BY CursorFact
<1>2. CASE /\ Step("bs", IF x > 0 THEN "bs_load" ELSE "bs_y")
           /\ UNCHANGED <<screen, locals>>
  <2>1. /\ pc = "bs" /\ pc' \in {"bs_load", "bs_y"}
        /\ pc' = "bs_load" => x > 0
        /\ pc' = "bs_y" => x = 0
        /\ UNCHANGED <<vidmem, x, y, ch, out, line>>
    BY <1>1, <1>2 DEF Step, screen, locals
  <2>2. At' = At
    BY <2>1 DEF At
  <2>3. Erasing'
    BY <2>1, <2>2 DEF Echo, Erasing
  <2> QED
    BY <2>1, <2>3 DEF Echo, Ready, Putting, Moving, Clearing
<1>3. CASE /\ Step("bs_load", "bs_store") /\ reg' = x
           /\ UNCHANGED <<screen, ch, row, addr>>
  <2>1. /\ pc = "bs_load" /\ pc' = "bs_store" /\ reg' = x
        /\ UNCHANGED <<vidmem, x, y, ch, out, line>>
    BY <1>3 DEF Step, screen
  <2>2. At' = At
    BY <2>1 DEF At
  <2>3. Erasing'
    BY <2>1, <2>2 DEF Echo, Erasing
  <2> QED
    BY <2>1, <2>3 DEF Echo, Ready, Putting, Moving, Clearing
<1>4. CASE StoreX("bs_store", "row", reg - 1)
  <2>1. /\ pc = "bs_store" /\ pc' = "row" /\ x' = x - 1 /\ y' = y
        /\ UNCHANGED <<vidmem, ch, out, line>>
    BY <1>4 DEF StoreX, Step, locals, Echo, Erasing
  <2>2. At' = At - 1
    BY <1>1, <2>1 DEF At
  <2>3. Putting'
    BY <2>1, <2>2 DEF Echo, Erasing, Putting
  <2> QED
    BY <2>1, <2>3 DEF Echo, Ready, Erasing, Moving, Clearing
<1>5. CASE /\ Step("bs_y", IF y > 0 THEN "bsy_load" ELSE "idle")
           /\ UNCHANGED <<screen, locals>>
  <2>1. pc = "bs_y" /\ x = 0 /\ Shows(Put(vidmem, At - 1, Blank), At - 1, line)
    BY <1>5 DEF Step, Echo, Erasing
  <2>2. At - 1 - Len(line) > 0 /\ Len(line) \in Nat
    BY <2>1, CursorFact DEF Shows
  <2>3. y > 0
    <3>1. CASE y = 0
      <4>1. At = 0
        BY <1>1, <2>1, <3>1 DEF At
      <4> QED
        BY <2>2, <4>1
    <3> QED
      BY <1>1, <3>1
  <2>4. pc' = "bsy_load" /\ UNCHANGED <<vidmem, x, y, ch, out, line>>
    BY <1>5, <2>3 DEF Step, screen, locals
  <2>5. At' = At
    BY <2>4 DEF At
  <2>6. Erasing'
    BY <2>1, <2>4, <2>5 DEF Echo, Erasing
  <2> QED
    BY <2>4, <2>6 DEF Echo, Ready, Putting, Moving, Clearing
<1>6. CASE LoadY("bsy_load", "bsy_store")
  <2>1. /\ pc = "bsy_load" /\ pc' = "bsy_store" /\ reg' = y
        /\ UNCHANGED <<vidmem, x, y, ch, out, line>>
    BY <1>6 DEF LoadY, Step, screen
  <2>2. At' = At
    BY <2>1 DEF At
  <2>3. Erasing'
    BY <2>1, <2>2 DEF Echo, Erasing
  <2> QED
    BY <2>1, <2>3 DEF Echo, Ready, Putting, Moving, Clearing
<1>7. CASE StoreY("bsy_store", "bs_x", reg - 1)
  <2>1. /\ pc = "bsy_store" /\ pc' = "bs_x" /\ y' = y - 1 /\ x' = x /\ x = 0
        /\ UNCHANGED <<vidmem, ch, out, line>>
    BY <1>7 DEF StoreY, Step, locals, Echo, Erasing
  <2>2. At' + W - 1 = At - 1
    BY <1>1, <2>1 DEF At
  <2>3. Erasing'
    BY <2>1, <2>2 DEF Echo, Erasing
  <2> QED
    BY <2>1, <2>3 DEF Echo, Ready, Putting, Moving, Clearing
<1>8. CASE StoreX("bs_x", "row", W - 1)
  <2>1. /\ pc = "bs_x" /\ pc' = "row" /\ x' = W - 1 /\ y' = y /\ x = 0
        /\ UNCHANGED <<vidmem, ch, out, line>>
    BY <1>8 DEF StoreX, Step, locals, Echo, Erasing
  <2>2. At' = At + W - 1
    BY <1>1, <2>1 DEF At
  <2>3. Putting'
    BY <2>1, <2>2 DEF Echo, Erasing, Putting
  <2> QED
    BY <2>1, <2>3 DEF Echo, Ready, Erasing, Moving, Clearing
<1> QED
  BY <1>2, <1>3, <1>4, <1>5, <1>6, <1>7, <1>8 DEF Backspace

\* The line goes on in the next row.
LEMMA EchoWrap ==
  ASSUME IInv, Echo, noise = 0, Wrap
  PROVE  Echo'
<1>1. /\ x \in 0 .. W /\ y \in 0 .. R /\ y * W \in Nat /\ W \in Nat /\ R \in Nat
      /\ W >= 2 /\ (y + 1) * W = y * W + W
  BY CursorFact
<1>2. CASE /\ Step("wrap", IF x >= W THEN "wrap_x" ELSE "scroll")
           /\ UNCHANGED <<screen, locals>>
  <2>1. /\ pc = "wrap" /\ pc' \in {"wrap_x", "scroll"}
        /\ pc' = "wrap_x" => x = W
        /\ UNCHANGED <<vidmem, x, y, ch, out, line>>
    BY <1>1, <1>2 DEF Step, screen, locals
  <2>2. At' = At
    BY <2>1 DEF At
  <2>3. Settled(At)'
    BY <2>1, <2>2 DEF Echo, Moving, Settled
  <2>4. Moving'
    BY <2>1, <2>3 DEF Echo, Moving
  <2> QED
    BY <2>1, <2>4 DEF Echo, Ready, Putting, Erasing, Clearing
<1>3. CASE StoreX("wrap_x", "wrap_load", 0)
  <2>1. /\ pc = "wrap_x" /\ pc' = "wrap_load" /\ x' = 0 /\ y' = y /\ x = W
        /\ UNCHANGED <<vidmem, ch, out, line>>
    BY <1>3 DEF StoreX, Step, locals, Echo, Moving
  <2>2. At' + W = At
    BY <1>1, <2>1 DEF At
  <2>3. Settled(At + W)'
    BY <2>1, <2>2 DEF Echo, Moving, Settled
  <2> QED
    BY <2>1, <2>3 DEF Echo, Ready, Putting, Erasing, Moving, Clearing
<1>4. CASE LoadY("wrap_load", "wrap_store")
  <2>1. /\ pc = "wrap_load" /\ pc' = "wrap_store" /\ reg' = y
        /\ UNCHANGED <<vidmem, x, y, ch, out, line>>
    BY <1>4 DEF LoadY, Step, screen
  <2>2. At' = At
    BY <2>1 DEF At
  <2>3. Settled(At + W)'
    BY <2>1, <2>2 DEF Echo, Moving, Settled
  <2> QED
    BY <2>1, <2>3 DEF Echo, Ready, Putting, Erasing, Moving, Clearing
<1>5. CASE StoreY("wrap_store", "scroll", reg + 1)
  <2>1. /\ pc = "wrap_store" /\ pc' = "scroll" /\ y' = y + 1 /\ x' = x /\ x = 0
        /\ UNCHANGED <<vidmem, ch, out, line>>
    BY <1>5 DEF StoreY, Step, locals, Echo, Moving, IInv, Loaded
  <2>2. At' = At + W
    BY <1>1, <2>1 DEF At
  <2>3. Settled(At)'
    BY <2>1, <2>2 DEF Echo, Moving, Settled
  <2> QED
    BY <2>1, <2>3 DEF Echo, Ready, Putting, Erasing, Moving, Clearing
<1> QED
  BY <1>2, <1>3, <1>4, <1>5 DEF Wrap

\* A line that goes on at the cursor is ready for the next character.
LEMMA SettledReady ==
  Settled(At) /\ At \in Cells /\ vidmem \in [Cells -> Glyphs] => Ready
<1> SUFFICES ASSUME Settled(At), At \in Cells, vidmem \in [Cells -> Glyphs]
             PROVE  Ready
  OBVIOUS
<1>1. CASE ch = NL /\ out = <<Prompt>> /\ line = <<>> /\ BlankFrom(vidmem, At)
  <2>1. Shows(Put(vidmem, At, Prompt), At + 1, line)
    BY <1>1, ShowsPrompt
  <2>2. Prompt \in Printable
    BY DEF Printable
  <2> QED
    BY <1>1, <2>1, <2>2 DEF Ready
<1> QED
  BY <1>1 DEF Settled, Ready

\* The line moves up with the screen, and the cursor with the line.
LEMMA EchoScroll ==
  ASSUME IInv, Echo, noise = 0, Scroll
  PROVE  Echo'
<1>1. /\ x \in 0 .. W /\ y \in 0 .. R /\ y * W \in Nat /\ W \in Nat /\ R \in Nat
      /\ W >= 2 /\ R >= 2 /\ (y - 1) * W = y * W - W /\ W * R \in Nat
      /\ vidmem \in [Cells -> Glyphs] /\ line \in Seq(Chars) /\ Len(line) <= MaxLine
      /\ y = R => y * W = W * R
  BY CursorFact
<1>2. CASE y < R /\ Step("scroll", "idle") /\ UNCHANGED <<screen, locals>>
  <2>1. /\ pc = "scroll" /\ pc' = "idle"
        /\ UNCHANGED <<vidmem, x, y, ch, out, line>>
    BY <1>2 DEF Step, screen, locals
  <2>2. At' = At /\ At \in Cells
    BY <1>2, <2>1, CursorFact DEF At
  <2>3. Ready'
    <3>1. Settled(At)'
      BY <2>1, <2>2 DEF Echo, Moving, Settled
    <3>2. (At \in Cells /\ vidmem \in [Cells -> Glyphs])'
      BY <1>1, <2>1, <2>2
    <3>3. (Settled(At) /\ At \in Cells /\ vidmem \in [Cells -> Glyphs] => Ready)'
      BY SettledReady, PTL
    <3> QED
      BY <3>1, <3>2, <3>3
  <2> QED
    BY <2>1, <2>3 DEF Echo, Putting, Erasing, Moving, Clearing
<1>3. CASE /\ y >= R /\ Step("scroll", "scroll_y")
           /\ vidmem' = Scrolled(vidmem)
           /\ UNCHANGED <<x, y, locals>>
  <2>1. /\ pc = "scroll" /\ pc' = "scroll_y" /\ vidmem' = Scrolled(vidmem)
        /\ y = R /\ UNCHANGED <<x, y, ch, out, line>>
    BY <1>1, <1>3 DEF Step, locals
  <2>2. At' = At /\ At = W * R
    BY <1>1, <2>1 DEF At, Echo, Moving
  <2>3. Settled(At)
    BY <2>1 DEF Echo, Moving
  <2>4. Settled(At - W)'
    <3>1. BlankFrom(vidmem', W * R - W)
      BY <1>1, <2>1, BlankScroll
    <3>2. CASE ch \in Printable /\ out = <<>> /\ Shows(vidmem, At, line)
      <4>1. Shows(vidmem', W * R - W, line)
        BY <1>1, <2>1, <2>2, <3>2, ShowsScroll
      <4> QED
        BY <2>1, <2>2, <3>2, <4>1 DEF Settled
    <3>3. CASE ch = NL /\ out \in {<<Prompt>>, <<Clr, Prompt>>} /\ line = <<>>
      BY <2>1, <2>2, <3>1, <3>3 DEF Settled
    <3> QED
      BY <2>3, <3>2, <3>3 DEF Settled
  <2>5. Moving'
    BY <2>1, <2>4 DEF Echo, Moving
  <2> QED
    BY <2>1, <2>5 DEF Echo, Ready, Putting, Erasing, Clearing
<1>4. CASE StoreY("scroll_y", "idle", R - 1)
  <2>1. /\ pc = "scroll_y" /\ pc' = "idle" /\ x' = x /\ x = 0 /\ y = R /\ y' = R - 1
        /\ UNCHANGED <<vidmem, ch, out, line>>
    BY <1>4 DEF StoreY, Step, locals, Echo, Moving
  <2>2. At' = At - W /\ At' \in Cells
    <3>1. (R - 1) * W + 0 \in Cells
      <4>1. R - 1 \in 0 .. R - 1 /\ 0 \in -1 .. W - 1 /\ 0 # -1
        BY <1>1
      <4> QED
        BY <4>1, AddressFact
    <3>2. At' = (R - 1) * W + 0 /\ At = R * W + 0
      BY <2>1 DEF At
    <3> QED
      BY <1>1, <2>1, <3>1, <3>2
  <2>3. Ready'
    <3>1. Settled(At)'
      BY <2>1, <2>2 DEF Echo, Moving, Settled
    <3>2. (At \in Cells /\ vidmem \in [Cells -> Glyphs])'
      BY <1>1, <2>1, <2>2
    <3>3. (Settled(At) /\ At \in Cells /\ vidmem \in [Cells -> Glyphs] => Ready)'
      BY SettledReady, PTL
    <3> QED
      BY <3>1, <3>2, <3>3
  <2> QED
    BY <2>1, <2>3 DEF Echo, Putting, Erasing, Moving, Clearing
<1> QED
  BY <1>2, <1>3, <1>4 DEF Scroll

\* On a clear screen the prompt goes to the first cell.
LEMMA EchoClear ==
  ASSUME IInv, Echo, noise = 0, Clear
  PROVE  Echo'
<1>1. vidmem \in [Cells -> Glyphs] /\ W \in Nat /\ R \in Nat /\ W >= 2 /\ R >= 2
  BY CursorFact
<1>2. CASE /\ Step("clear", "clear_x")
           /\ vidmem' = [i \in Cells |-> Blank]
           /\ UNCHANGED <<x, y, locals>>
  <2>1. pc = "clear" /\ pc' = "clear_x" /\ UNCHANGED <<out, line>>
    BY <1>2 DEF Step
  <2>2. BlankFrom(vidmem', 0)
    BY <1>2 DEF BlankFrom
  <2> QED
    BY <2>1, <2>2 DEF Echo, Ready, Putting, Erasing, Moving, Clearing
<1>3. CASE StoreX("clear_x", "clear_y", 0)
  <2>1. pc = "clear_x" /\ pc' = "clear_y" /\ UNCHANGED <<vidmem, out, line>>
    BY <1>3 DEF StoreX, Step
  <2> QED
    BY <2>1 DEF Echo, Ready, Putting, Erasing, Moving, Clearing
<1>4. CASE StoreY("clear_y", "idle", 0)
  <2>1. /\ pc = "clear_y" /\ pc' = "idle" /\ x' = 0 /\ y' = 0
        /\ UNCHANGED <<vidmem, out, line>>
    BY <1>4 DEF StoreY, Step, IInv, Loaded
  <2>2. out = <<Prompt>> /\ line = <<>> /\ BlankFrom(vidmem, 0)
    BY <2>1 DEF Echo, Clearing
  <2>3. At' = 0 /\ 0 \in Cells
    <3>1. 0 * W + 0 \in Cells /\ 0 * W + 0 = 0
      BY <1>1, AddressFact
    <3>2. At' = 0 * W + 0
      BY <2>1 DEF At
    <3> QED
      BY <3>1, <3>2
  <2>4. Shows(Put(vidmem, 0, Prompt), 0 + 1, <<>>)
    BY <1>1, <2>2, <2>3, ShowsPrompt
  <2>5. Prompt \in Printable
    BY DEF Printable
  <2>6. Ready'
    BY <2>1, <2>2, <2>3, <2>4, <2>5 DEF Ready
  <2> QED
    BY <2>1, <2>6 DEF Echo, Putting, Erasing, Moving, Clearing
<1> QED
  BY <1>2, <1>3, <1>4 DEF Clear

\* The next character is taken for what it is.
LEMMA EchoPutNext ==
  ASSUME IInv, Echo, noise = 0, PutNext
  PROVE  Echo'
<1>1. /\ pc = "idle" /\ out # <<>> /\ ch' = Head(out) /\ out' = Tail(out)
      /\ UNCHANGED <<vidmem, x, y, line>> /\ At' = At
  BY DEF PutNext, screen, At
<1>2. CASE \E c \in Printable : out = <<c>> /\ Shows(Put(vidmem, At, c), At + 1, line)
  <2>1. PICK c \in Printable : out = <<c>> /\ Shows(Put(vidmem, At, c), At + 1, line)
    BY <1>2
  <2>2. Head(out) = c /\ Tail(out) = <<>> /\ c # NL /\ c # BS /\ c # Clr
    BY <2>1, CharFact
  <2>3. ch' = c /\ out' = <<>> /\ pc' = "row"
    BY <1>1, <2>2 DEF PutNext
  <2> QED
    BY <1>1, <2>1, <2>3 DEF Echo, Ready, Putting, Erasing, Moving, Clearing
<1>3. CASE out = <<BS>> /\ Shows(Put(vidmem, At - 1, Blank), At - 1, line)
  <2>1. Head(out) = BS /\ Tail(out) = <<>> /\ BS # NL
    BY <1>3, CharFact
  <2>2. ch' = BS /\ out' = <<>> /\ pc' = "bs"
    BY <1>1, <2>1, CharFact DEF PutNext
  <2> QED
    BY <1>1, <1>3, <2>2 DEF Echo, Ready, Putting, Erasing, Moving, Clearing
<1>4. CASE /\ out \in {<<NL, Prompt>>, <<NL, Clr, Prompt>>}
           /\ line = <<>> /\ BlankFrom(vidmem, At)
  <2>1. Head(out) = NL /\ Tail(out) \in {<<Prompt>>, <<Clr, Prompt>>}
    <3>1. CASE out = <<NL, Prompt>>
      BY <3>1
    <3>2. CASE out = <<NL, Clr, Prompt>>
      BY <3>2
    <3> QED
      BY <1>4, <3>1, <3>2
  <2>2. ch' = NL /\ out' \in {<<Prompt>>, <<Clr, Prompt>>} /\ pc' = "nl"
    BY <1>1, <2>1, CharFact DEF PutNext
  <2>3. Settled(At)'
    BY <1>1, <1>4, <2>2 DEF Settled
  <2> QED
    BY <2>2, <2>3 DEF Echo, Ready, Putting, Erasing, Moving, Clearing
<1>5. CASE out = <<Clr, Prompt>> /\ line = <<>>
  <2>1. Head(out) = Clr /\ Tail(out) = <<Prompt>> /\ Clr # NL /\ Clr # BS
    BY <1>5, CharFact
  <2>2. out' = <<Prompt>> /\ pc' = "clear"
    BY <1>1, <2>1 DEF PutNext
  <2> QED
    BY <1>1, <1>5, <2>2 DEF Echo, Ready, Putting, Erasing, Moving, Clearing
<1> QED
  BY <1>1, <1>2, <1>3, <1>4, <1>5 DEF Echo, Ready

\* The editor changes the buffer and announces what puts the screen right.
LEMMA EchoEdit ==
  ASSUME IInv, Echo, noise = 0, Erase \/ Enter \/ \E c \in Chars : Type(c)
  PROVE  Echo'
<1>1. /\ pc = "idle" /\ out = <<>> /\ pc' = "idle"
      /\ UNCHANGED <<vidmem, x, y>> /\ At' = At
  BY DEF Erase, Enter, Type, screen, At
<1>2. /\ Shows(vidmem, At, line)
      /\ vidmem \in [Cells -> Glyphs] /\ line \in Seq(Chars) /\ At \in Cells
  <2>1. out # <<BS>> /\ out \notin {<<NL, Prompt>>, <<NL, Clr, Prompt>>, <<Clr, Prompt>>}
        /\ \A c \in Printable : out # <<c>>
    BY <1>1
  <2> QED
    BY <1>1, <2>1, CursorFact DEF Echo, Ready
<1>3. Ready'
  <2>1. CASE Erase
    <3>1. /\ out' = <<BS>> /\ line # <<>>
          /\ line' = SubSeq(line, 1, Len(line) - 1)
      BY <2>1 DEF Erase
    <3>2. Shows(Put(vidmem, At - 1, Blank), At - 1, line')
      BY <1>2, <3>1, ShowsErase
    <3> QED
      BY <1>1, <3>1, <3>2 DEF Ready
  <2>2. CASE Enter
    <3>1. out' \in {<<NL, Prompt>>, <<NL, Clr, Prompt>>} /\ line' = <<>>
      BY <2>2 DEF Enter
    <3>2. BlankFrom(vidmem, At)
      BY <1>2 DEF Shows
    <3> QED
      BY <1>1, <3>1, <3>2 DEF Ready
  <2>3. CASE \E c \in Chars : Type(c)
    <3>1. PICK c \in Chars : out' = <<c>> /\ line' = Append(line, c)
      BY <2>3 DEF Type
    <3>2. Shows(Put(vidmem, At, c), At + 1, line') /\ c \in Printable
      BY <1>2, <3>1, ShowsType DEF Printable
    <3> QED
      BY <1>1, <3>1, <3>2 DEF Ready
  <2> QED
    BY <2>1, <2>2, <2>3
<1> QED
  BY <1>1, <1>3 DEF Echo, Putting, Erasing, Moving, Clearing

\* The first prompt, on a blank screen.
LEMMA EchoInit == Init => EchoInv
<1> SUFFICES ASSUME Init PROVE Echo
  BY DEF EchoInv
<1>1. W \in Nat /\ R \in Nat /\ W >= 2 /\ R >= 2
  BY SizeAssumption
<1>2. At = 0 /\ 0 \in Cells
  <2>1. 0 * W + 0 \in Cells /\ 0 * W + 0 = 0
    BY <1>1, AddressFact
  <2>2. At = 0 * W + 0
    BY DEF Init, At
  <2> QED
    BY <2>1, <2>2
<1>3. vidmem \in [Cells -> Glyphs] /\ BlankFrom(vidmem, 0)
  BY DEF Init, BlankFrom, Glyphs
<1>4. Shows(Put(vidmem, 0, Prompt), 0 + 1, <<>>)
  BY <1>2, <1>3, ShowsPrompt
<1>5. Prompt \in Printable
  BY DEF Printable
<1>6. Ready
  BY <1>2, <1>4, <1>5 DEF Init, Ready
<1> QED
  BY <1>6 DEF Init, Echo, Putting, Erasing, Moving, Clearing

\* Every step keeps the echo; an interrupt that writes to the screen ends it.
LEMMA EchoNext == IInv /\ EchoInv /\ [Next]_vars => EchoInv'
<1> SUFFICES ASSUME IInv, EchoInv, [Next]_vars, noise' = 0 PROVE Echo'
  BY DEF EchoInv
<1>1. noise \in Nat
  BY LineAssumption DEF IInv, TypeOK
<1>2. ~Unhandled /\ ~refresh
  BY <1>1 DEF Unhandled, refresh
<1>3. CASE UNCHANGED vars
  <2>1. UNCHANGED <<vidmem, x, y, pc, ch, reg, row, addr, out, line, noise>> /\ At' = At
    BY <1>3 DEF vars, screen, locals, At
  <2>3. Moving'
    BY <2>1 DEF EchoInv, Echo, Moving, Settled
  <2> QED
    BY <2>1, <2>3 DEF EchoInv, Echo, Ready, Putting, Erasing, Clearing
<1>4. CASE NewLine \/ WriteCell \/ Backspace \/ Wrap \/ Scroll \/ Clear \/ PutNext
  <2>1. noise = 0
    BY <1>4 DEF NewLine, WriteCell, Backspace, Wrap, Scroll, Clear, PutNext,
       StoreX, StoreY, LoadY, Step
  <2> QED
    BY <1>4, <2>1, EchoNewLine, EchoWriteCell, EchoBackspace, EchoWrap, EchoScroll,
       EchoClear, EchoPutNext DEF EchoInv
<1>5. CASE Erase \/ Enter \/ \E c \in Chars : Type(c)
  <2>1. noise = 0
    BY <1>5 DEF Erase, Enter, Type
  <2> QED
    BY <1>5, <2>1, EchoEdit DEF EchoInv
<1> QED
  BY <1>2, <1>3, <1>4, <1>5 DEF Next

\* With no interrupt on the screen the user sees the line that the shell will get,
\* through wrapping, erasing over the edge and scrolling, on a screen of any size.
THEOREM EchoIsTheLine == Spec => []EchoIsLine
<1>1. EchoInv => EchoIsLine
  <2> SUFFICES ASSUME EchoInv, pc = "idle", out = <<>>, noise = 0
               PROVE  EchoIsLine
    BY DEF EchoIsLine
  <2>1. /\ out # <<BS>> /\ \A c \in Printable : out # <<c>>
        /\ out \notin {<<NL, Prompt>>, <<NL, Clr, Prompt>>, <<Clr, Prompt>>}
    OBVIOUS
  <2>2. Shows(vidmem, At, line)
    BY <2>1 DEF EchoInv, Echo, Ready
  <2> QED
    BY <2>2 DEF Shows, BlankFrom, At, EchoIsLine
<1>2. Spec => []EchoInv
  BY Invariance, EchoInit, EchoNext, PTL DEF Spec
<1> QED
  BY <1>1, <1>2, PTL
=============================================================================
