------------------------------ MODULE Keyboard ------------------------------
(***************************************************************************)
(* Keyboard input of the kernel: the interrupt controller, the stubs of    *)
(* interrupts.asm, irq1_handler, the ring of idt.cpp, and the shell        *)
(* reading it through std::cin.  Two actors share the ring: the main       *)
(* program pops, the keyboard interrupt pushes between any two of its      *)
(* instructions.  Handlers run behind interrupt gates, so the interrupt    *)
(* flag is set exactly when no handler runs.                               *)
(*                                                                         *)
(* The state is the one after kernel.cpp's sti.  The multitasking of       *)
(* task.cpp is never started, so irq32's schedule() returns at once and    *)
(* there is no foreground task for Ctrl+C to kill.                         *)
(***************************************************************************)
EXTENDS Integers, Sequences, FiniteSetsExt

CONSTANTS
  N,              \* size of kbd_buffer (256)
  Plain,          \* scan codes of presses that no branch of irq1_handler tests
  kbd_us,         \* Plain -> character, 0 when there is none
  kbd_us_shift,
  MaxKeys,        \* bound: scan codes sent
  TickAnywhere    \* whether a tick may come while AL holds a value of main's

Special == {"ctrl", "ctrl_up", "shift", "shift_up", "pgup", "pgdn", "c", "up"}
Scancodes == Plain \cup Special

EOI == 32                        \* 0x20, in AL when irq32 returns; also ' '

ASSUME RingAssumption == N \in Nat /\ N > 1

ASSUME KeyAssumption ==
  /\ "c" \in DOMAIN kbd_us /\ "c" \in DOMAIN kbd_us_shift
  /\ Plain \cap (Special \cup {"empty"}) = {}
  /\ kbd_us \in [Plain \cup {"c"} -> Nat]
  /\ kbd_us_shift \in [Plain \cup {"c"} -> Nat]

ASSUME EnvironmentAssumption ==
  /\ MaxKeys \in Nat
  /\ TickAnywhere \in BOOLEAN

Chars == {kbd_us[k] : k \in Plain \cup {"c"}}
           \cup {kbd_us_shift[k] : k \in Plain \cup {"c"}}

VARIABLES
  kbd_buffer, kbd_head, kbd_tail,
  shift_pressed, ctrl_pressed,
  view_offset,    \* term.view_offset; the repainting itself is the terminal's
  irr, isr,       \* 8259A: requested and in-service lines, of {0, 1}
  handler,        \* interrupt stub that runs, "none" when main runs
  halted,         \* main is in hlt
  pc,             \* main: next step of istream >> char and of kbd_pop in it
  al,             \* main's register AL
  c,              \* kbd_pop: the character, on the stack
  ch,             \* istream >> char: what it got, 0 for nothing
  port60,         \* scan code in the keyboard controller, "empty" if none
  sent            \* number of scan codes so far

ring == <<kbd_buffer, kbd_head, kbd_tail>>
mods == <<shift_pressed, ctrl_pressed>>
pic == <<irr, isr>>
main == <<pc, al, c, ch>>
keys == <<port60, sent>>
vars == <<ring, mods, view_offset, pic, handler, halted, main, keys>>

-----------------------------------------------------------------------------
\* Mutant: the timer line stays masked.
Unmasked_NoTimer == {1}

\* PIC::init masks every line, Interrupts::init unmasks two.
Unmasked == {0, 1}

\* The 8259A, fully nested: the lowest requested line that is not masked, when
\* no line of its priority or above is in service.
Grantable(n) ==
  /\ n \in irr \cap Unmasked
  /\ \A m \in irr \cap Unmasked : n <= m
  /\ \A m \in isr : n < m

\* PIC::send_eoi: a non-specific EOI ends the highest line in service.
AfterEoi(s) == IF s = {} THEN {} ELSE s \ {Min(s)}

\* Mutant: the index does not wrap.
Succ_NoWrap(i) == i + 1

Succ(i) == (i + 1) % N

Init ==
  /\ kbd_buffer = [i \in 0 .. N - 1 |-> 0] /\ kbd_head = 0 /\ kbd_tail = 0
  /\ shift_pressed = FALSE /\ ctrl_pressed = FALSE
  /\ view_offset = 0
  /\ irr = {} /\ isr = {}
  /\ handler = "none"
  /\ halted = FALSE
  /\ pc = "check" /\ al = 0 /\ c = 0 /\ ch = 0
  /\ port60 = "empty" /\ sent = 0

-----------------------------------------------------------------------------
(* Devices. *)

\* The keyboard puts a scan code in the empty port and raises line 1.
SendKey(k) ==
  /\ port60 = "empty"
  /\ sent < MaxKeys
  /\ port60' = k
  /\ sent' = sent + 1
  /\ irr' = irr \cup {1}
  /\ UNCHANGED <<ring, mods, view_offset, isr, handler, halted, main>>

\* The timer's period (55 ms) is longer than its stub runs.
Tick ==
  /\ 0 \notin irr
  /\ handler # "irq32"
  /\ irr' = irr \cup {0}
  /\ UNCHANGED <<ring, mods, view_offset, isr, handler, halted, main, keys>>

-----------------------------------------------------------------------------
(* Interrupts. *)

\* AL holds a value main still needs: the new tail, or what kbd_pop returns.
AlIsLive == pc \in {"settail", "store"}

Take(n) ==
  /\ handler = "none"
  /\ Grantable(n)
  /\ n = 0 /\ AlIsLive => TickAnywhere
  /\ irr' = irr \ {n}
  /\ isr' = isr \cup {n}
  /\ handler' = IF n = 0 THEN "irq32" ELSE "irq33"
  /\ halted' = FALSE
  /\ UNCHANGED <<ring, mods, view_offset, main, keys>>

\* The stub pops rax and only then loads AL for the EOI.
irq32 ==
  /\ handler = "irq32"
  /\ isr' = AfterEoi(isr)
  /\ al' = EOI
  /\ handler' = "none"
  /\ UNCHANGED <<ring, mods, view_offset, irr, halted, pc, c, ch, keys>>

\* Mutant: nothing keeps the head from running over the tail.
kbd_push_Always(x) ==
  /\ kbd_buffer' = [kbd_buffer EXCEPT ![kbd_head] = x]
  /\ kbd_head' = Succ(kbd_head)
  /\ UNCHANGED kbd_tail

kbd_push(x) ==
  /\ IF Succ(kbd_head) # kbd_tail
     THEN /\ kbd_buffer' = [kbd_buffer EXCEPT ![kbd_head] = x]
          /\ kbd_head' = Succ(kbd_head)
     ELSE UNCHANGED <<kbd_buffer, kbd_head>>
  /\ UNCHANGED kbd_tail

\* The press of a key with a character, Ctrl+C apart.
PushKey(k) ==
  LET x == IF shift_pressed THEN kbd_us_shift[k] ELSE kbd_us[k] IN
  IF x > 0 THEN kbd_push(x) ELSE UNCHANGED ring

\* Mutant: the handler leaves the port unread.
irq1_handler_NoRead ==
  /\ handler = "irq33"
  /\ handler' = "irq33_eoi"
  /\ UNCHANGED <<ring, mods, view_offset, pic, halted, main, keys>>

irq1_handler ==
  /\ handler = "irq33"
  /\ port60' = "empty"
  /\ ctrl_pressed' = CASE port60 = "ctrl" -> TRUE
                       [] port60 = "ctrl_up" -> FALSE
                       [] OTHER -> ctrl_pressed
  /\ shift_pressed' = CASE port60 = "shift" -> TRUE
                        [] port60 = "shift_up" -> FALSE
                        [] OTHER -> shift_pressed
  /\ view_offset' = CASE port60 = "pgup" -> view_offset - 1
                      [] port60 = "pgdn" -> view_offset + 1
                      [] OTHER -> view_offset
  /\ IF port60 \in Plain \/ (port60 = "c" /\ ~ ctrl_pressed)
     THEN PushKey(port60)
     ELSE UNCHANGED ring
  /\ handler' = "irq33_eoi"
  /\ UNCHANGED <<pic, halted, main, sent>>

\* Mutant: the handler returns without an EOI.
irq33_return_NoEoi ==
  /\ handler = "irq33_eoi"
  /\ handler' = "none"
  /\ UNCHANGED <<ring, mods, view_offset, pic, halted, main, keys>>

irq33_return ==
  /\ handler = "irq33_eoi"
  /\ isr' = AfterEoi(isr)
  /\ handler' = "none"
  /\ UNCHANGED <<ring, mods, view_offset, irr, halted, main, keys>>

\* Any other vector, a spurious interrupt for one.
Unhandled ==
  /\ handler = "none"
  /\ handler' = "generic"
  /\ halted' = FALSE
  /\ UNCHANGED <<ring, mods, view_offset, pic, main, keys>>

\* send_eoi(0), then send_eoi(8), which reaches the master too.
generic_handler ==
  /\ handler = "generic"
  /\ isr' = AfterEoi(AfterEoi(isr))
  /\ handler' = "none"
  /\ UNCHANGED <<ring, mods, view_offset, irr, halted, main, keys>>

-----------------------------------------------------------------------------
(* The main program: istream >> char, with kbd_pop inside. *)

Running == handler = "none" /\ ~ halted

PopEmpty ==
  /\ Running /\ pc = "check"
  /\ kbd_head = kbd_tail
  /\ c' = 0 /\ al' = 0
  /\ pc' = "store"
  /\ UNCHANGED <<ring, mods, view_offset, pic, handler, halted, ch, keys>>

PopLoad ==
  /\ Running /\ pc = "check"
  /\ kbd_head # kbd_tail
  /\ c' = kbd_buffer[kbd_tail]
  /\ al' = Succ(kbd_tail)
  /\ pc' = "settail"
  /\ UNCHANGED <<ring, mods, view_offset, pic, handler, halted, ch, keys>>

\* The value in AL is below 256 whatever put it there, so % N is what the code
\* has computed already, or 0x20.
PopSetTail ==
  /\ Running /\ pc = "settail"
  /\ kbd_tail' = al % N
  /\ al' = c
  /\ pc' = "store"
  /\ UNCHANGED <<kbd_buffer, kbd_head, mods, view_offset, pic, handler, halted,
                 c, ch, keys>>

\* istream >> char looks at what it got; with nothing it goes on to hlt.
Store ==
  /\ Running /\ pc = "store"
  /\ ch' = al
  /\ pc' = IF al # 0 THEN "check" ELSE "hlt"
  /\ UNCHANGED <<ring, mods, view_offset, pic, handler, halted, al, c, keys>>

Halt ==
  /\ Running /\ pc = "hlt"
  /\ halted' = TRUE
  /\ pc' = "check"
  /\ UNCHANGED <<ring, mods, view_offset, pic, handler, al, c, ch, keys>>

Main == PopEmpty \/ PopLoad \/ PopSetTail \/ Store \/ Halt

Stub == irq32 \/ irq1_handler \/ irq33_return \/ generic_handler

Next ==
  \/ \E k \in Scancodes : SendKey(k)
  \/ Tick
  \/ \E n \in {0, 1} : Take(n)
  \/ Stub
  \/ Unhandled
  \/ Main

Spec == Init /\ [][Next]_vars

(***************************************************************************)
(* The timer ticks, a stub runs to its end, a request that can be granted  *)
(* is granted, and main gets between interrupts to its next instruction:   *)
(* it is interrupted infinitely often, hence strong fairness.              *)
(***************************************************************************)
Fairness ==
  /\ WF_vars(Tick)
  /\ WF_vars(Stub)
  /\ SF_vars(Take(0)) /\ SF_vars(Take(1))
  /\ SF_vars(Main)

FairSpec == Spec /\ Fairness

-----------------------------------------------------------------------------
(* Properties. *)

\* Every variable has its type; the indices of the ring stay inside it.
TypeOK ==
  /\ kbd_buffer \in [0 .. N - 1 -> Chars \cup {0}]
  /\ kbd_head \in 0 .. N - 1 /\ kbd_tail \in 0 .. N - 1
  /\ shift_pressed \in BOOLEAN /\ ctrl_pressed \in BOOLEAN
  /\ view_offset \in Int
  /\ irr \subseteq {0, 1} /\ isr \subseteq {0, 1}
  /\ handler \in {"none", "irq32", "irq33", "irq33_eoi", "generic"}
  /\ halted \in BOOLEAN
  /\ pc \in {"check", "settail", "store", "hlt"}
  /\ al \in Nat
  /\ c \in Chars \cup {0}
  /\ ch \in Nat
  /\ port60 \in Scancodes \cup {"empty"}
  /\ sent \in 0 .. MaxKeys

\* Each stub ends the line it serves and no other: whenever main runs nothing is
\* in service, so no line is blocked, and the two EOIs of generic_handler, which
\* serves no line of the controller, take nothing away.
InService ==
  isr = CASE handler = "irq32" -> {0}
          [] handler \in {"irq33", "irq33_eoi"} -> {1}
          [] OTHER -> {}

\* A scan code waits in the port exactly while line 1 is requested or its handler
\* has not read it yet: no code is read twice, none is left behind unannounced.
PortAnnounced ==
  port60 # "empty" <=> (1 \in irr \/ handler = "irq33")

\* Between two steps of kbd_pop the keyboard interrupt never writes the slot
\* being read, and the ring stays non-empty.
ReaderSlotStable ==
  pc = "settail" => kbd_head # kbd_tail /\ c = kbd_buffer[kbd_tail]

\* The characters in the ring, oldest first.
Count == (kbd_head + N - kbd_tail) % N
Contents == [i \in 1 .. Count |-> kbd_buffer[(kbd_tail + i - 1) % N]]

Queue == INSTANCE KeyQueue WITH queue <- Contents, Capacity <- N - 1

\* kbd_push and kbd_pop, interleaved step by step, are a queue that keeps order
\* and drops only what comes while N - 1 characters wait.
IsQueue == Queue!Spec

\* A character in the ring is eventually popped, also when the keyboard interrupt
\* comes after kbd_pop found the ring empty and before the hlt: then it is the
\* timer that ends the hlt.
KeysConsumed == (kbd_head # kbd_tail) ~> (pc = "store" /\ c # 0)

\* Every scan code the keyboard sends is eventually read.
PortDrained == (port60 # "empty") ~> (port60 = "empty")

\* idt.hpp:33 says the stubs save the general purpose registers: what istream
\* gets is what kbd_pop returned.
ReadReturnsPopped == [][pc = "store" /\ pc' # "store" => ch' = c]_vars

=============================================================================
