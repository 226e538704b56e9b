------------------------------- MODULE Shell -------------------------------
(***************************************************************************)
(* The prompt loop of the shell (kernel/src/tsh.cpp): history, repeating a *)
(* command by its number, and the look-up of the command. Characters are   *)
(* ASCII codes, as the code calculates with them; the history is the array *)
(* of bytes that it is, in which strings end at a zero.                    *)
(***************************************************************************)
EXTENDS Integers, Sequences

CONSTANTS
  HISTORY_SIZE,   \* entries (10)
  Width,          \* bytes in an entry (64)
  Slack,          \* bytes after the last entry that belong to other variables
  Lines,          \* lines that are typed, each shorter than an entry
  Names,          \* names in cmd_table
  MaxLines        \* bound: lines that are run

ASSUME SizeAssumption ==
  /\ HISTORY_SIZE \in Nat \ {0} /\ Width \in Nat \ {0} /\ Slack \in Nat
  /\ MaxLines \in Nat
ASSUME LinesAssumption ==
  \A s \in Lines : s \in Seq(1 .. 127) /\ Len(s) < Width

Bang == 33
Space == 32
One == 49

VARIABLES
  memory,         \* history[0][0] and what follows
  history_count,
  ran,            \* the line that was run last, and whether a command was found
  typed,          \* the line typed last
  log             \* history variable: every line that was run

vars == <<memory, history_count, ran, typed, log>>

Bytes == 0 .. HISTORY_SIZE * Width + Slack - 1

Init ==
  /\ memory = [i \in Bytes |-> 0]
  /\ history_count = 0
  /\ ran = [found |-> FALSE, line |-> <<>>]
  /\ typed = <<>>
  /\ log = <<>>

-----------------------------------------------------------------------------
(* Strings in memory. *)

\* The string at address a.
StringAt(m, a) ==
  LET end == CHOOSE e \in a .. HISTORY_SIZE * Width + Slack :
               /\ e \notin Bytes \/ m[e] = 0
               /\ \A i \in a .. e - 1 : m[i] # 0
  IN [i \in 1 .. end - a |-> m[a + i - 1]]

strcpy(m, a, s) ==
  [i \in Bytes |-> IF i \in a .. a + Len(s) - 1 THEN s[i - a + 1]
                   ELSE IF i = a + Len(s) THEN 0 ELSE m[i]]

Entry(i) == i * Width

\* What cmd_history shows.
Shown == [i \in 1 .. history_count |-> StringAt(memory, Entry(i - 1))]

\* The memory after each round of the loop that copies entry i to the one before it.
Shifting(m) ==
  LET after[i \in 0 .. HISTORY_SIZE - 1] ==
        IF i = 0 THEN m
        ELSE LET n == after[i - 1] IN strcpy(n, Entry(i - 1), StringAt(n, Entry(i)))
  IN after

\* Mutant: the loop ends one entry early.
Shift_Short(m) == Shifting(m)[HISTORY_SIZE - 2]

Shift(m) == Shifting(m)[HISTORY_SIZE - 1]

\* Mutant: a full history grows.
add_to_history_NoLimit(s) ==
  IF s = <<>> THEN UNCHANGED <<memory, history_count>>
  ELSE /\ memory' = strcpy(memory, Entry(history_count), s)
       /\ history_count' = history_count + 1

add_to_history(s) ==
  IF s = <<>> THEN UNCHANGED <<memory, history_count>>
  ELSE IF history_count = HISTORY_SIZE
  THEN /\ memory' = strcpy(Shift(memory), Entry(HISTORY_SIZE - 1), s)
       /\ UNCHANGED history_count
  ELSE /\ memory' = strcpy(memory, Entry(history_count), s)
       /\ history_count' = history_count + 1

-----------------------------------------------------------------------------
(* Shell::run, one action a line. *)

\* Where the first space is, or the end.
SpaceIn(s) == CHOOSE k \in 1 .. Len(s) + 1 :
  /\ k = Len(s) + 1 \/ s[k] = Space
  /\ \A i \in 1 .. k - 1 : s[i] # Space

Word(s) == SubSeq(s, 1, SpaceIn(s) - 1)

\* Mutant: the line is stored after it has been cut at the space.
Run_CutFirst(s) ==
  /\ add_to_history(Word(s))
  /\ ran' = [found |-> Word(s) \in Names, line |-> s]
  /\ log' = IF s = <<>> THEN log ELSE Append(log, s)

Run(s) ==
  /\ add_to_history(s)
  /\ ran' = [found |-> Word(s) \in Names, line |-> s]
  /\ log' = IF s = <<>> THEN log ELSE Append(log, s)

IsRepeat(s) == Len(s) > 1 /\ s[1] = Bang

\* Mutant: numbers from 0.
Index_FromZero(s) == s[2] - One + 1

Index(s) == s[2] - One

\* A command, whatever it is.
Command(s) ==
  /\ Len(log) < MaxLines /\ ~IsRepeat(s)
  /\ typed' = s
  /\ Run(s)

\* !n with an entry n: it is run and is the newest entry.
Repeat(s) ==
  /\ Len(log) < MaxLines /\ IsRepeat(s)
  /\ Index(s) >= 0 /\ Index(s) < history_count
  /\ typed' = s
  /\ Run(StringAt(memory, Entry(Index(s))))

\* "No such command in history."
RepeatRefused(s) ==
  /\ IsRepeat(s)
  /\ Index(s) < 0 \/ Index(s) >= history_count
  /\ typed' = s
  /\ UNCHANGED <<memory, history_count, ran, log>>

Next == \E s \in Lines : Command(s) \/ Repeat(s) \/ RepeatRefused(s)

Spec == Init /\ [][Next]_vars

-----------------------------------------------------------------------------
(* Properties. *)

\* Memory holds characters, and the count never passes the size of the history.
TypeOK ==
  /\ \A i \in Bytes : memory[i] \in 0 .. 127
  /\ DOMAIN memory = Bytes
  /\ history_count \in 0 .. HISTORY_SIZE
  /\ Len(log) <= MaxLines

\* The history shows the last HISTORY_SIZE lines that were run, whole and in order.
HistoryIsLog ==
  Shown = SubSeq(log, Len(log) - history_count + 1, Len(log))

\* !1 to !9 run the lines that the history has under these numbers.
DigitRepeats ==
  [][\A n \in 1 .. 9 : n <= history_count /\ typed' = <<Bang, 48 + n>> =>
       ran'.line = log[Len(log) - history_count + n]]_vars

\* The digits of a number below 100.
Digits(n) == IF n < 10 THEN <<48 + n>> ELSE <<48 + (n \div 10), 48 + (n % 10)>>

\* !n runs the line that the history shows under n, for every n that it shows
\* (README.md:20).
NumberRepeats ==
  [][\A n \in 1 .. history_count : typed' = <<Bang>> \o Digits(n) =>
       ran'.line = Shown[n]]_vars
=============================================================================
