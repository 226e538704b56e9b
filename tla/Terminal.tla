------------------------------ MODULE Terminal ------------------------------
(***************************************************************************)
(* The text screen (kernel/src/stdio.cpp) and the line editor on top of it *)
(* (istream >> char* of iostream.cpp, called by the shell's prompt loop).  *)
(* put_char is split at every access to the cursor and the video memory,   *)
(* as the build does not optimise: an interrupt that nobody handles prints *)
(* through the same object, from generic_handler, between any two of them. *)
(* Page up and page down repaint the screen from their interrupt. What a   *)
(* timer interrupt does to AL (module Keyboard) is left out here.          *)
(***************************************************************************)
EXTENDS Integers, Sequences

CONSTANTS
  W, R,           \* columns and rows (80, 25)
  Chars,          \* characters typed, newline and backspace apart
  MaxLine,        \* bound: characters in a line; the code stores them unchecked
  MaxNoise        \* bound: interrupts that write to the screen

Blank == " "
Prompt == ">"
NL == "nl"
BS == "bs"
Clr == "clr"      \* not a character: cmd_clear, between two of them
Message == "!"    \* what generic_handler prints between two newlines
Unknown == "?"    \* what refresh copies, screen_buffer being never written

Cells == 0 .. W * R - 1

ASSUME SizeAssumption == W \in Nat /\ R \in Nat /\ W >= 2 /\ R >= 2

ASSUME LineAssumption ==
  /\ MaxLine \in Nat /\ MaxLine + 1 <= W * (R - 1)
  /\ MaxNoise \in Nat
  /\ Chars \cap {NL, BS, Clr} = {}

VARIABLES
  vidmem, x, y,   \* Terminal; the colour is left out
  pc,             \* put_char of main: "idle" outside
  ch,             \* its argument
  reg,            \* x or y, loaded to be changed
  row, addr,      \* y, loaded for the address, and the address
  out,            \* what main still prints
  line,           \* input[0 .. i - 1]
  noise           \* interrupts so far

screen == <<vidmem, x, y>>
locals == <<ch, reg, row, addr>>
vars == <<screen, pc, locals, out, line, noise>>

Init ==
  /\ vidmem = [i \in Cells |-> Blank] /\ x = 0 /\ y = 0
  /\ pc = "idle" /\ ch = NL
  /\ reg = 0 /\ row = 0 /\ addr = 0
  /\ out = <<Prompt>>
  /\ line = <<>>
  /\ noise = 0

-----------------------------------------------------------------------------
(* Terminal::put_char, one step an access. *)

Step(from, to) ==
  /\ pc = from
  /\ pc' = to
  /\ UNCHANGED <<out, line, noise>>

LoadY(from, to) ==
  /\ Step(from, to) /\ reg' = y
  /\ UNCHANGED <<screen, ch, row, addr>>

StoreY(from, to, v) ==
  /\ Step(from, to) /\ y' = v
  /\ UNCHANGED <<vidmem, x, locals>>

StoreX(from, to, v) ==
  /\ Step(from, to) /\ x' = v
  /\ UNCHANGED <<vidmem, y, locals>>

\* A character or the end of the line, whose next step is a store to x.
NewLine ==
  \/ StoreX("nl", "nl_load", 0)
  \/ LoadY("nl_load", "nl_store")
  \/ StoreY("nl_store", "wrap", reg + 1)

\* The address is made of y, then x; the cell is written; another character than
\* a backspace moves x on.
WriteCell ==
  \/ /\ Step("row", "addr") /\ row' = y
     /\ UNCHANGED <<screen, ch, reg, addr>>
  \/ /\ Step("addr", "write") /\ addr' = row * W + x
     /\ UNCHANGED <<screen, ch, reg, row>>
  \/ /\ Step("write", IF ch = BS THEN "idle" ELSE "x_load")
     /\ vidmem' = [vidmem EXCEPT ![addr] = IF ch = BS THEN Blank ELSE ch]
     /\ UNCHANGED <<x, y, locals>>
  \/ /\ Step("x_load", "x_store") /\ reg' = x
     /\ UNCHANGED <<screen, ch, row, addr>>
  \/ StoreX("x_store", "wrap", reg + 1)

\* Mutant: in the first column the cursor does not move to the last one.
Backspace_NoColumn ==
  \/ /\ Step("bs", IF x > 0 THEN "bs_load" ELSE "bs_y")
     /\ UNCHANGED <<screen, locals>>
  \/ /\ Step("bs_load", "bs_store") /\ reg' = x
     /\ UNCHANGED <<screen, ch, row, addr>>
  \/ StoreX("bs_store", "row", reg - 1)
  \/ /\ Step("bs_y", IF y > 0 THEN "bsy_load" ELSE "idle")
     /\ UNCHANGED <<screen, locals>>
  \/ LoadY("bsy_load", "bsy_store")
  \/ StoreY("bsy_store", "row", reg - 1)

Backspace ==
  \/ /\ Step("bs", IF x > 0 THEN "bs_load" ELSE "bs_y")
     /\ UNCHANGED <<screen, locals>>
  \/ /\ Step("bs_load", "bs_store") /\ reg' = x
     /\ UNCHANGED <<screen, ch, row, addr>>
  \/ StoreX("bs_store", "row", reg - 1)
  \/ /\ Step("bs_y", IF y > 0 THEN "bsy_load" ELSE "idle")
     /\ UNCHANGED <<screen, locals>>
  \/ LoadY("bsy_load", "bsy_store")
  \/ StoreY("bsy_store", "bs_x", reg - 1)
  \/ StoreX("bs_x", "row", W - 1)

\* Mutant: the test for the edge is off by one.
Wrap_Late ==
  \/ /\ Step("wrap", IF x > W THEN "wrap_x" ELSE "scroll")
     /\ UNCHANGED <<screen, locals>>
  \/ StoreX("wrap_x", "wrap_load", 0)
  \/ LoadY("wrap_load", "wrap_store")
  \/ StoreY("wrap_store", "scroll", reg + 1)

Wrap ==
  \/ /\ Step("wrap", IF x >= W THEN "wrap_x" ELSE "scroll")
     /\ UNCHANGED <<screen, locals>>
  \/ StoreX("wrap_x", "wrap_load", 0)
  \/ LoadY("wrap_load", "wrap_store")
  \/ StoreY("wrap_store", "scroll", reg + 1)

Scrolled(v) ==
  [i \in Cells |-> IF i < W * (R - 1) THEN v[i + W] ELSE Blank]

\* Mutant: the screen moves up, y stays below it.
Scroll_NoRow ==
  \/ /\ y < R /\ Step("scroll", "idle")
     /\ UNCHANGED <<screen, locals>>
  \/ /\ y >= R /\ Step("scroll", "idle")
     /\ vidmem' = Scrolled(vidmem)
     /\ UNCHANGED <<x, y, locals>>

\* The copying loop is one step: nothing but the contents of the cells depends
\* on an interrupt inside it.
Scroll ==
  \/ /\ y < R /\ Step("scroll", "idle")
     /\ UNCHANGED <<screen, locals>>
  \/ /\ y >= R /\ Step("scroll", "scroll_y")
     /\ vidmem' = Scrolled(vidmem)
     /\ UNCHANGED <<x, y, locals>>
  \/ StoreY("scroll_y", "idle", R - 1)

\* Terminal::clear.
Clear ==
  \/ /\ Step("clear", "clear_x")
     /\ vidmem' = [i \in Cells |-> Blank]
     /\ UNCHANGED <<x, y, locals>>
  \/ StoreX("clear_x", "clear_y", 0)
  \/ StoreY("clear_y", "idle", 0)

\* Terminal::print goes to the next character.
PutNext ==
  /\ pc = "idle"
  /\ out # <<>>
  /\ ch' = Head(out)
  /\ out' = Tail(out)
  /\ pc' = CASE Head(out) = NL -> "nl"
             [] Head(out) = BS -> "bs"
             [] Head(out) = Clr -> "clear"
             [] OTHER -> "row"
  /\ UNCHANGED <<screen, reg, row, addr, line, noise>>

-----------------------------------------------------------------------------
(* istream >> char*, and the prompt the shell prints after each line. *)

\* Mutant: backspace is echoed at the start of the line too.
Erase_Always ==
  /\ pc = "idle" /\ out = <<>>
  /\ out' = <<BS>>
  /\ line' = IF line = <<>> THEN line ELSE SubSeq(line, 1, Len(line) - 1)
  /\ UNCHANGED <<screen, pc, locals, noise>>

Erase ==
  /\ pc = "idle" /\ out = <<>>
  /\ line # <<>>
  /\ out' = <<BS>>
  /\ line' = SubSeq(line, 1, Len(line) - 1)
  /\ UNCHANGED <<screen, pc, locals, noise>>

Type(c) ==
  /\ pc = "idle" /\ out = <<>>
  /\ Len(line) < MaxLine
  /\ out' = <<c>>
  /\ line' = Append(line, c)
  /\ UNCHANGED <<screen, pc, locals, noise>>

\* The line goes to the shell, which clears the screen or not, and prompts.
Enter ==
  /\ pc = "idle" /\ out = <<>>
  /\ out' \in {<<NL, Prompt>>, <<NL, Clr, Prompt>>}
  /\ line' = <<>>
  /\ UNCHANGED <<screen, pc, locals, noise>>

-----------------------------------------------------------------------------
(* Interrupts. *)

\* put_char as a whole, on a screen s; a newline or a character.
PutChar(s, c) ==
  LET v1 == IF c = NL THEN s.v ELSE [s.v EXCEPT ![s.y * W + s.x] = c]
      x1 == IF c = NL THEN 0 ELSE s.x + 1
      y1 == IF c = NL THEN s.y + 1 ELSE s.y
      y2 == IF x1 >= W THEN y1 + 1 ELSE y1
  IN [v |-> IF y2 >= R THEN Scrolled(v1) ELSE v1,
      x |-> IF x1 >= W THEN 0 ELSE x1,
      y |-> IF y2 >= R THEN R - 1 ELSE y2]

\* generic_handler runs with interrupts off: a newline, the message, a newline.
Unhandled ==
  LET s == PutChar(PutChar(PutChar([v |-> vidmem, x |-> x, y |-> y], NL),
                           Message), NL)
  IN /\ noise < MaxNoise
     /\ noise' = noise + 1
     /\ vidmem' = s.v /\ x' = s.x /\ y' = s.y
     /\ UNCHANGED <<pc, locals, out, line>>

\* Terminal::refresh, from irq1_handler.
refresh ==
  /\ noise < MaxNoise
  /\ noise' = noise + 1
  /\ vidmem' = [i \in Cells |-> Unknown]
  /\ UNCHANGED <<x, y, pc, locals, out, line>>

Next ==
  \/ NewLine \/ WriteCell \/ Backspace \/ Wrap \/ Scroll \/ Clear \/ PutNext
  \/ Erase \/ Enter
  \/ \E c \in Chars : Type(c)
  \/ Unhandled \/ refresh

Spec == Init /\ [][Next]_vars

-----------------------------------------------------------------------------
(* Properties. *)

Glyphs == Chars \cup {Blank, Prompt, Message, Unknown}
Steps == {"idle", "nl", "nl_load", "nl_store", "row", "addr", "write", "x_load",
          "x_store", "bs", "bs_load", "bs_store", "bs_y", "bsy_load",
          "bsy_store", "bs_x", "wrap", "wrap_x", "wrap_load", "wrap_store",
          "scroll", "scroll_y", "clear", "clear_x", "clear_y"}

\* Every variable has its type; the cursor is at most one cell off the screen.
TypeOK ==
  /\ vidmem \in [Cells -> Glyphs]
  /\ x \in -1 .. W /\ y \in 0 .. R
  /\ pc \in Steps
  /\ ch \in Chars \cup {Prompt, NL, BS, Clr}
  /\ reg \in -1 .. W + R /\ row \in 0 .. R - 1 /\ addr \in Int
  /\ out \in Seq(Chars \cup {Prompt, NL, BS, Clr})
  /\ line \in Seq(Chars) /\ Len(line) <= MaxLine
  /\ noise \in 0 .. MaxNoise

\* No write leaves the video memory, whatever interrupt moves the cursor between
\* the tests of put_char and what they guard: an interrupt between x > 0 and x--
\* leaves x = -1, but below the first row.
WritesInVideo == pc = "write" => addr \in Cells

\* Between two characters the cursor is on the screen, or one cell before the
\* start of a row that is not the first.
CursorOnScreen ==
  pc = "idle" => /\ y \in 0 .. R - 1
                 /\ x \in 0 .. W - 1 \/ (x = -1 /\ y > 0 /\ noise > 0)

\* What the user sees is what the shell gets: with no interrupt on the screen the
\* cells before the cursor are the prompt and the line in the buffer, through
\* wrapping, erasing back over the edge and scrolling, and those after it are blank.
EchoIsLine ==
  pc = "idle" /\ out = <<>> /\ noise = 0 =>
    LET at == y * W + x
        start == at - Len(line)
    IN /\ start > 0
       /\ vidmem[start - 1] = Prompt
       /\ \A i \in 1 .. Len(line) : vidmem[start + i - 1] = line[i]
       /\ \A i \in Cells : i >= at => vidmem[i] = Blank

=============================================================================
