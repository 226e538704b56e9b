---------------------------- MODULE ShellProofs ----------------------------
(* Theorems about Shell, for a history of any size and lines of any length that *)
(* fits in an entry.                                                            *)
EXTENDS Shell, WellFoundedInduction, TLAPS

(***************************************************************************)
(* The inductive invariant: each entry of the history holds, up to its     *)
(* zero, the line of the log that stands as far from the end.              *)
(***************************************************************************)
Fitting == {s \in Seq(1 .. 127) : Len(s) < Width}
Memory == [Bytes -> 0 .. 127]

\* The memory m has the string s at address a.
Holds(m, a, s) ==
  /\ s \in Fitting
  /\ \A j \in 1 .. Len(s) : m[a + j - 1] = s[j]
  /\ m[a + Len(s)] = 0

IInv ==
  /\ memory \in Memory /\ history_count \in 0 .. HISTORY_SIZE
  /\ log \in Seq(Fitting) /\ Len(log) <= MaxLines /\ history_count <= Len(log)
  /\ \A i \in Nat : i < history_count =>
       Holds(memory, Entry(i), log[Len(log) - history_count + (i + 1)])

-----------------------------------------------------------------------------
(* Addresses. *)

LEMMA Sizes ==
  /\ HISTORY_SIZE \in Nat /\ HISTORY_SIZE >= 1 /\ Width \in Nat /\ Width >= 1
  /\ Slack \in Nat /\ MaxLines \in Nat
BY SizeAssumption

\* An entry ends before the next one begins, and the last one before the end.
LEMMA Apart ==
  /\ \A i \in Nat : Entry(i) \in Nat
  /\ \A i, j \in Nat : i < j => Entry(i) + Width <= Entry(j)
  /\ \A i \in Nat : i < HISTORY_SIZE => Entry(i) + Width <= Entry(HISTORY_SIZE)
  /\ \A a \in Nat : a < Entry(HISTORY_SIZE) => a \in Bytes
  /\ Bytes \subseteq Nat /\ Entry(HISTORY_SIZE) \in Nat
<1>1. \A i \in Nat : Entry(i) \in Nat
  BY Sizes DEF Entry
<1>2. ASSUME NEW i \in Nat, NEW j \in Nat, i < j
      PROVE  Entry(i) + Width <= Entry(j)
  <2>1. PICK d \in Nat : j = i + 1 + d
    <3>1. j - i - 1 \in Nat /\ j = i + 1 + (j - i - 1)
      BY <1>2
    <3> QED
      BY <3>1
  <2>2. j * Width = i * Width + Width + d * Width /\ d * Width \in Nat /\ i * Width \in Nat
    BY <2>1, Sizes
  <2> QED
    BY <2>2, Sizes DEF Entry
<1>3. \A a \in Nat : a < Entry(HISTORY_SIZE) => a \in Bytes
  <2>1. HISTORY_SIZE * Width \in Nat
    BY Sizes
  <2> QED
    BY <2>1, Sizes DEF Entry, Bytes
<1>4. Bytes \subseteq Nat
  BY DEF Bytes
<1> QED
  BY <1>1, <1>2, <1>3, <1>4, Sizes

\* A line is characters, none of them the zero.
LEMMA Characters ==
  ASSUME NEW s \in Fitting
  PROVE  /\ s \in Seq(1 .. 127) /\ Len(s) \in Nat /\ Len(s) < Width
         /\ \A j \in 1 .. Len(s) : s[j] \in 0 .. 127 /\ s[j] # 0
<1>1. \A S : \A t \in Seq(S) : \A j \in 1 .. Len(t) : t[j] \in S
  OBVIOUS
<1>2. s \in Seq(1 .. 127)
  BY DEF Fitting
<1>3. \A j \in 1 .. Len(s) : s[j] \in 1 .. 127
  BY <1>1, <1>2
<1>4. Len(s) \in Nat /\ Len(s) < Width
  BY <1>2 DEF Fitting
<1>5. \A i \in 1 .. 127 : i \in 0 .. 127 /\ i # 0
  OBVIOUS
<1> QED
  BY <1>2, <1>3, <1>4, <1>5

\* What StringAt reads of a string that ends inside the history is the string.
LEMMA Reading ==
  ASSUME NEW m \in Memory, NEW a \in Nat, NEW s, Holds(m, a, s),
         a + Width <= Entry(HISTORY_SIZE)
  PROVE  StringAt(m, a) = s
<1> DEFINE top == HISTORY_SIZE * Width + Slack
           IsEnd(e) == /\ e \notin Bytes \/ m[e] = 0
                       /\ \A i \in a .. e - 1 : m[i] # 0
           end == a + Len(s)
<1>1. /\ s \in Seq(1 .. 127) /\ Len(s) \in Nat /\ Len(s) < Width
      /\ \A j \in 1 .. Len(s) : m[a + j - 1] = s[j] /\ s[j] # 0
      /\ m[a + Len(s)] = 0
  BY Characters DEF Holds
<1>2. end \in a .. top /\ end \in Nat
  <2>1. HISTORY_SIZE * Width \in Nat
    BY Sizes
  <2> QED
    BY <1>1, <2>1, Sizes DEF Entry
<1>3. ASSUME NEW i \in a .. end - 1
      PROVE  m[i] # 0 /\ i \in Bytes
  <2>1. i - a + 1 \in 1 .. Len(s) /\ a + (i - a + 1) - 1 = i
    BY <1>1
  <2>2. m[i] = s[i - a + 1] /\ s[i - a + 1] # 0
    BY <1>1, <2>1
  <2>3. i \in Nat /\ i < Entry(HISTORY_SIZE)
    BY <1>1, Apart, Sizes
  <2> QED
    BY <2>2, <2>3, Apart
<1>4. IsEnd(end)
  BY <1>1, <1>3
<1>5. ASSUME NEW e \in a .. top, IsEnd(e)
      PROVE  e = end
  <2>1. CASE e < end
    <3>1. e \in a .. end - 1
      BY <1>2, <2>1
    <3> QED
      BY <1>3, <1>5, <3>1
  <2>2. CASE e > end
    <3>1. end \in a .. e - 1
      BY <1>2, <2>2
    <3> QED
      BY <1>1, <1>5, <3>1
  <2> QED
    BY <1>2, <2>1, <2>2
<1>6. (CHOOSE e \in a .. top : IsEnd(e)) = end
  BY <1>2, <1>4, <1>5
<1>7. StringAt(m, a) = [i \in 1 .. end - a |-> m[a + i - 1]]
  BY <1>6 DEF StringAt
<1>8. end - a = Len(s)
  BY <1>1
<1>9. s = [i \in 1 .. Len(s) |-> s[i]]
  BY <1>1
<1> QED
  BY <1>1, <1>7, <1>8, <1>9

\* strcpy writes the string, and nothing of an entry before or after.
LEMMA Copying ==
  ASSUME NEW m \in Memory, NEW a \in Nat, NEW s \in Fitting,
         a + Width <= Entry(HISTORY_SIZE)
  PROVE  /\ strcpy(m, a, s) \in Memory
         /\ Holds(strcpy(m, a, s), a, s)
         /\ \A b \in Nat, t \in Fitting :
              /\ Holds(m, b, t) /\ b + Width <= Entry(HISTORY_SIZE)
              /\ b + Width <= a \/ a + Width <= b
              => Holds(strcpy(m, a, s), b, t)
<1> DEFINE n == strcpy(m, a, s)
<1>1. s \in Seq(1 .. 127) /\ Len(s) \in Nat /\ Len(s) < Width
  BY Characters
<1>2. n = [i \in Bytes |-> IF i \in a .. a + Len(s) - 1 THEN s[i - a + 1]
                           ELSE IF i = a + Len(s) THEN 0 ELSE m[i]]
  BY DEF strcpy
<1> HIDE DEF n
<1>3. n \in Memory
  <2>1. ASSUME NEW i \in Bytes, i \in a .. a + Len(s) - 1
        PROVE  s[i - a + 1] \in 0 .. 127
    <3>1. i - a + 1 \in 1 .. Len(s)
      BY <1>1, <2>1
    <3> QED
      BY <3>1, Characters
  <2> QED
    BY <1>2, <2>1 DEF Memory
<1>4. Holds(n, a, s)
  <2>1. ASSUME NEW j \in 1 .. Len(s)
        PROVE  n[a + j - 1] = s[j]
    <3>1. /\ a + j - 1 \in a .. a + Len(s) - 1 /\ (a + j - 1) - a + 1 = j
          /\ a + j - 1 \in Nat /\ a + j - 1 < Entry(HISTORY_SIZE)
      BY <1>1, Apart, Sizes
    <3> QED
      BY <1>2, <3>1, Apart
  <2>2. n[a + Len(s)] = 0
    <3>1. a + Len(s) \notin a .. a + Len(s) - 1
      BY <1>1
    <3>2. Entry(HISTORY_SIZE) \in Nat /\ Width \in Nat
      BY Apart, Sizes
    <3>3. a + Len(s) \in Nat /\ a + Len(s) < Entry(HISTORY_SIZE)
      BY <1>1, <3>2
    <3>4. a + Len(s) \in Bytes
      BY <3>3, Apart
    <3> QED
      BY <1>2, <3>1, <3>4
  <2> QED
    BY <2>1, <2>2 DEF Holds
<1>5. ASSUME NEW b \in Nat, NEW t \in Fitting,
             Holds(m, b, t), b + Width <= Entry(HISTORY_SIZE),
             b + Width <= a \/ a + Width <= b
      PROVE  Holds(n, b, t)
  <2>1. /\ Len(t) \in Nat /\ Len(t) < Width
        /\ \A j \in 1 .. Len(t) : m[b + j - 1] = t[j]
        /\ m[b + Len(t)] = 0
    BY <1>5, Characters DEF Holds
  <2>2. ASSUME NEW i \in Nat, i >= b, i < b + Width
        PROVE  n[i] = m[i]
    <3>1. i \notin a .. a + Len(s) - 1 /\ i # a + Len(s)
      BY <1>1, <1>5, <2>2, Sizes
    <3>2. i < Entry(HISTORY_SIZE)
      BY <1>5, <2>2, Apart, Sizes
    <3> QED
      BY <1>2, <3>1, <3>2, Apart
  <2>3. ASSUME NEW j \in 1 .. Len(t)
        PROVE  n[b + j - 1] = t[j]
    <3>1. b + j - 1 \in Nat /\ b + j - 1 >= b /\ b + j - 1 < b + Width
      BY <2>1, Sizes
    <3> QED
      BY <2>1, <2>2, <3>1
  <2>4. n[b + Len(t)] = 0
    <3>1. b + Len(t) \in Nat /\ b + Len(t) >= b /\ b + Len(t) < b + Width
      BY <2>1, Sizes
    <3> QED
      BY <2>1, <2>2, <3>1
  <2> QED
    BY <2>3, <2>4 DEF Holds
<1> QED
  BY <1>3, <1>4, <1>5 DEF n

-----------------------------------------------------------------------------
(* The loop that shifts a full history. *)

\* Induction, by the smallest number that is not in the set.
LEMMA Induction ==
  ASSUME NEW S, 0 \in S, \A n \in Nat : n \in S => n + 1 \in S
  PROVE  \A n \in Nat : n \in S
<1> SUFFICES ASSUME NEW m \in Nat, m \notin S PROVE FALSE
  OBVIOUS
<1> DEFINE T == {n \in Nat : n \notin S}
           R == OpToRel(<, Nat)
<1>1. IsWellFoundedOn(R, Nat)
  BY NatLessThanWellFounded
<1>2. \A x, y \in Nat : x < y => <<x, y>> \in R
  BY DEF OpToRel
<1>3. T \in SUBSET Nat /\ T # {}
  OBVIOUS
<1> HIDE DEF R, T
<1>4. PICK x \in T : \A y \in T : ~ (<<y, x>> \in R)
  BY <1>1, <1>3, WFMin
<1>5. \A y \in T : ~ (y < x)
  BY <1>2, <1>3, <1>4
<1>6. x \in Nat /\ x \notin S /\ x # 0
  BY <1>4 DEF T
<1>7. x - 1 \in Nat /\ x - 1 < x /\ (x - 1) + 1 = x
  BY <1>6
<1>8. x - 1 \in S
  BY <1>5, <1>7 DEF T
<1> QED
  BY <1>6, <1>7, <1>8

\* The recursive definition of Shifting has a solution.
LEMMA ShiftingDef ==
  ASSUME NEW m
  PROVE  Shifting(m) =
           [i \in 0 .. HISTORY_SIZE - 1 |->
              IF i = 0 THEN m
              ELSE strcpy(Shifting(m)[i - 1], Entry(i - 1),
                          StringAt(Shifting(m)[i - 1], Entry(i)))]
<1> DEFINE Round(n, i) == strcpy(n, Entry(i - 1), StringAt(n, Entry(i)))
           After(f, n) == [i \in 0 .. n |-> IF i = 0 THEN m ELSE Round(f[i - 1], i)]
           S == {n \in Nat : \E f : f = After(f, n)}
<1> HIDE DEF Round
<1>1. 0 \in S
  <2> DEFINE f == [i \in 0 .. 0 |-> m]
  <2>1. f = After(f, 0)
    OBVIOUS
  <2> QED
    BY <2>1
<1>2. ASSUME NEW n \in Nat, n \in S
      PROVE  n + 1 \in S
  <2>1. PICK f : f = After(f, n)
    BY <1>2
  <2> DEFINE g == [i \in 0 .. n + 1 |-> IF i = n + 1 THEN Round(f[n], n + 1) ELSE f[i]]
  <2>2. ASSUME NEW i \in 0 .. n + 1
        PROVE  g[i] = IF i = 0 THEN m ELSE Round(g[i - 1], i)
    <3>1. CASE i = n + 1
      <4>1. g[i] = Round(f[n], n + 1) /\ g[i - 1] = f[n]
        BY <3>1
      <4> QED
        BY <3>1, <4>1
    <3>2. CASE i # n + 1
      <4>1. i \in 0 .. n /\ g[i] = f[i]
        BY <3>2
      <4>2. f[i] = IF i = 0 THEN m ELSE Round(f[i - 1], i)
        BY <2>1, <4>1
      <4>3. i # 0 => g[i - 1] = f[i - 1]
        BY <3>2, <4>1
      <4> QED
        BY <4>1, <4>2, <4>3
    <3> QED
      BY <3>1, <3>2
  <2> HIDE DEF g
  <2>3. g = After(g, n + 1)
    <3>1. g = [i \in 0 .. n + 1 |-> g[i]]
      BY DEF g
    <3> QED
      BY <2>2, <3>1
  <2> QED
    BY <2>3
<1> HIDE DEF S
<1>3. HISTORY_SIZE - 1 \in Nat
  BY Sizes
<1>4. HISTORY_SIZE - 1 \in S
  BY <1>1, <1>2, <1>3, Induction
<1>5. PICK f : f = After(f, HISTORY_SIZE - 1)
  BY <1>4 DEF S
<1>6. Shifting(m) = CHOOSE g : g = After(g, HISTORY_SIZE - 1)
  BY DEF Shifting, Round
<1> QED
  BY <1>5, <1>6 DEF Round

\* After the loop every entry but the last has what the next one had.
LEMMA ShiftFact ==
  ASSUME NEW m \in Memory, NEW line,
         \A i \in Nat : i < HISTORY_SIZE => Holds(m, Entry(i), line[i])
  PROVE  /\ Shift(m) \in Memory
         /\ \A i \in Nat : i + 1 < HISTORY_SIZE => Holds(Shift(m), Entry(i), line[i + 1])
<1> DEFINE f == Shifting(m)
           Done(n) == /\ f[n] \in Memory
                      /\ \A i \in Nat : i < n => Holds(f[n], Entry(i), line[i + 1])
                      /\ \A i \in Nat : i >= n /\ i < HISTORY_SIZE =>
                           Holds(f[n], Entry(i), line[i])
           S == {n \in Nat : n < HISTORY_SIZE => Done(n)}
<1>1. f = [i \in 0 .. HISTORY_SIZE - 1 |->
             IF i = 0 THEN m
             ELSE strcpy(f[i - 1], Entry(i - 1), StringAt(f[i - 1], Entry(i)))]
  BY ShiftingDef
<1> HIDE DEF f
<1>2. 0 \in S
  <2>1. f[0] = m
    BY <1>1, Sizes
  <2> QED
    BY <2>1
<1>3. ASSUME NEW n \in Nat, n \in S
      PROVE  n + 1 \in S
  <2> SUFFICES ASSUME n + 1 < HISTORY_SIZE PROVE Done(n + 1)
    OBVIOUS
  <2>1. Done(n)
    BY <1>3, Sizes
  <2> DEFINE s == line[n + 1]
             w == f[n]
  <2>2. /\ w \in Memory /\ Holds(w, Entry(n + 1), s) /\ s \in Fitting
        /\ Entry(n) \in Nat /\ Entry(n + 1) \in Nat
        /\ Entry(n) + Width <= Entry(HISTORY_SIZE)
        /\ Entry(n + 1) + Width <= Entry(HISTORY_SIZE)
    <3>1. Holds(w, Entry(n + 1), s)
      BY <2>1, Sizes
    <3>2. Entry(n) \in Nat /\ Entry(n + 1) \in Nat
      BY Apart
    <3>3. Entry(n) + Width <= Entry(HISTORY_SIZE)
      BY Apart, Sizes
    <3>4. Entry(n + 1) + Width <= Entry(HISTORY_SIZE)
      BY Apart, Sizes
    <3> QED
      BY <2>1, <3>1, <3>2, <3>3, <3>4 DEF Holds
  <2>3. StringAt(w, Entry(n + 1)) = s
    BY <2>2, Reading
  <2>4. f[n + 1] = strcpy(w, Entry(n), s)
    <3>1. n + 1 \in 0 .. HISTORY_SIZE - 1 /\ n + 1 # 0 /\ (n + 1) - 1 = n
      BY Sizes
    <3> QED
      BY <1>1, <2>3, <3>1
  <2>5. /\ f[n + 1] \in Memory /\ Holds(f[n + 1], Entry(n), s)
        /\ \A b \in Nat, t \in Fitting :
             /\ Holds(w, b, t) /\ b + Width <= Entry(HISTORY_SIZE)
             /\ b + Width <= Entry(n) \/ Entry(n) + Width <= b
             => Holds(f[n + 1], b, t)
    BY <2>2, <2>4, Copying
  <2>6. ASSUME NEW i \in Nat, i # n, i < HISTORY_SIZE, NEW t, Holds(w, Entry(i), t)
        PROVE  Holds(f[n + 1], Entry(i), t)
    <3>1. t \in Fitting /\ Entry(i) \in Nat /\ Entry(i) + Width <= Entry(HISTORY_SIZE)
      BY <2>6, Apart DEF Holds
    <3>2. i < n \/ n < i
      BY <2>6
    <3>3. Entry(i) + Width <= Entry(n) \/ Entry(n) + Width <= Entry(i)
      BY <3>2, Apart
    <3> QED
      BY <2>5, <2>6, <3>1, <3>3
  <2>7. ASSUME NEW i \in Nat, i < n + 1
        PROVE  Holds(f[n + 1], Entry(i), line[i + 1])
    <3>1. CASE i = n
      BY <2>5, <3>1
    <3>2. CASE i # n
      <4>1. i < n /\ i < HISTORY_SIZE
        BY <2>7, <3>2, Sizes
      <4>2. Holds(w, Entry(i), line[i + 1])
        BY <2>1, <4>1
      <4> QED
        BY <2>6, <3>2, <4>1, <4>2
    <3> QED
      BY <3>1, <3>2
  <2>8. ASSUME NEW i \in Nat, i >= n + 1, i < HISTORY_SIZE
        PROVE  Holds(f[n + 1], Entry(i), line[i])
    <3>1. i # n /\ i >= n
      BY <2>8
    <3>2. Holds(w, Entry(i), line[i])
      BY <2>1, <2>8, <3>1
    <3> QED
      BY <2>6, <2>8, <3>1, <3>2
  <2> QED
    BY <2>5, <2>7, <2>8
<1> HIDE DEF S
<1>4. HISTORY_SIZE - 1 \in Nat /\ HISTORY_SIZE - 1 < HISTORY_SIZE
  BY Sizes
<1>5. HISTORY_SIZE - 1 \in S
  BY <1>2, <1>3, <1>4, Induction
<1>6. Done(HISTORY_SIZE - 1)
  BY <1>4, <1>5 DEF S
<1>7. Shift(m) = f[HISTORY_SIZE - 1]
  BY DEF Shift, f
<1>8. \A i \in Nat : i + 1 < HISTORY_SIZE => i < HISTORY_SIZE - 1
  BY Sizes
<1> QED
  BY <1>6, <1>7, <1>8

-----------------------------------------------------------------------------
(* The invariant. *)

LEMMA InitInv == Init => IInv
<1> SUFFICES ASSUME Init PROVE IInv
  OBVIOUS
<1>1. memory \in Memory
  BY DEF Init, Memory
<1>2. log = <<>> /\ <<>> \in Seq(Fitting) /\ Len(<<>>) = 0 /\ history_count = 0
  BY DEF Init
<1>3. \A i \in Nat : ~ (i < 0)
  OBVIOUS
<1> QED
  BY <1>1, <1>2, <1>3, Sizes DEF IInv

\* What add_to_history leaves of a line that the log gets too.
LEMMA Adding ==
  ASSUME IInv, NEW s \in Fitting, s # <<>>, add_to_history(s),
         log' = Append(log, s), Len(log) < MaxLines
  PROVE  IInv'
<1>1. /\ memory \in Memory /\ history_count \in 0 .. HISTORY_SIZE
      /\ log \in Seq(Fitting) /\ history_count <= Len(log) /\ Len(log) \in Nat
      /\ \A i \in Nat : i < history_count =>
           Holds(memory, Entry(i), log[Len(log) - history_count + (i + 1)])
  BY DEF IInv
<1>2. /\ log' \in Seq(Fitting) /\ Len(log') = Len(log) + 1 /\ log'[Len(log) + 1] = s
      /\ \A i \in 1 .. Len(log) : log'[i] = log[i]
      /\ Len(log') <= MaxLines
  <2>1. /\ Append(log, s) \in Seq(Fitting) /\ Len(Append(log, s)) = Len(log) + 1
        /\ Append(log, s)[Len(log) + 1] = s
        /\ \A i \in 1 .. Len(log) : Append(log, s)[i] = log[i]
    BY <1>1
  <2> QED
    BY <1>1, <2>1, Sizes
<1>3. CASE history_count = HISTORY_SIZE
  <2> DEFINE n == Shift(memory)
             line == [i \in Nat |-> log[Len(log) - history_count + (i + 1)]]
             last == HISTORY_SIZE - 1
  <2>1. memory' = strcpy(n, Entry(last), s) /\ history_count' = history_count
    BY <1>3 DEF add_to_history
  <2>2. /\ n \in Memory
        /\ \A i \in Nat : i + 1 < HISTORY_SIZE => Holds(n, Entry(i), line[i + 1])
    <3>1. \A i \in Nat : i < HISTORY_SIZE => Holds(memory, Entry(i), line[i])
      BY <1>1, <1>3
    <3> HIDE DEF line
    <3> QED
      BY <1>1, <3>1, ShiftFact
  <2> HIDE DEF n
  <2>3. last \in Nat /\ last < HISTORY_SIZE
    BY Sizes
  <2>4. Entry(last) \in Nat /\ Entry(last) + Width <= Entry(HISTORY_SIZE)
    BY <2>3, Apart
  <2>5. /\ memory' \in Memory /\ Holds(memory', Entry(last), s)
        /\ \A b \in Nat, t \in Fitting :
             /\ Holds(n, b, t) /\ b + Width <= Entry(HISTORY_SIZE)
             /\ b + Width <= Entry(last) \/ Entry(last) + Width <= b
             => Holds(memory', b, t)
    BY <2>1, <2>2, <2>4, Copying
  <2>6. ASSUME NEW i \in Nat, i < history_count'
        PROVE  Holds(memory', Entry(i), log'[Len(log') - history_count' + (i + 1)])
    <3>1. CASE i = last
      <4>1. Len(log') - history_count' + (i + 1) = Len(log) + 1
        BY <1>1, <1>2, <1>3, <2>1, <3>1, Sizes
      <4> QED
        BY <1>2, <2>5, <3>1, <4>1
    <3>2. CASE i # last
      <4>1. i + 1 < HISTORY_SIZE /\ i < last /\ i < HISTORY_SIZE
        BY <1>3, <2>1, <2>6, <3>2, Sizes
      <4>2. Holds(n, Entry(i), line[i + 1])
        BY <2>2, <4>1
      <4>3. line[i + 1] = log[Len(log) - history_count + ((i + 1) + 1)]
        OBVIOUS
      <4>4. /\ Len(log) - history_count + ((i + 1) + 1) \in 1 .. Len(log)
            /\ Len(log') - history_count' + (i + 1) = Len(log) - history_count + ((i + 1) + 1)
        BY <1>1, <1>2, <1>3, <2>1, <4>1, Sizes
      <4>5. line[i + 1] = log'[Len(log') - history_count' + (i + 1)]
        BY <1>2, <4>3, <4>4
      <4>6. line[i + 1] \in Fitting
        BY <4>2 DEF Holds
      <4>7. /\ Entry(i) \in Nat /\ Entry(i) + Width <= Entry(HISTORY_SIZE)
            /\ Entry(i) + Width <= Entry(last)
        BY <2>3, <4>1, Apart
      <4>8. Holds(memory', Entry(i), line[i + 1])
        BY <2>5, <4>2, <4>6, <4>7
      <4> QED
        BY <4>5, <4>8
    <3> QED
      BY <3>1, <3>2
  <2>7. history_count' \in 0 .. HISTORY_SIZE /\ history_count' <= Len(log')
    BY <1>1, <1>2, <2>1
  <2> QED
    BY <1>2, <2>5, <2>6, <2>7 DEF IInv
<1>4. CASE history_count # HISTORY_SIZE
  <2> DEFINE c == history_count
  <2>1. memory' = strcpy(memory, Entry(c), s) /\ history_count' = c + 1
    BY <1>4 DEF add_to_history
  <2>2. c \in Nat /\ c < HISTORY_SIZE
    BY <1>1, <1>4, Sizes
  <2>3. Entry(c) \in Nat /\ Entry(c) + Width <= Entry(HISTORY_SIZE)
    BY <2>2, Apart
  <2>4. /\ memory' \in Memory /\ Holds(memory', Entry(c), s)
        /\ \A b \in Nat, t \in Fitting :
             /\ Holds(memory, b, t) /\ b + Width <= Entry(HISTORY_SIZE)
             /\ b + Width <= Entry(c) \/ Entry(c) + Width <= b
             => Holds(memory', b, t)
    BY <1>1, <2>1, <2>3, Copying
  <2>5. ASSUME NEW i \in Nat, i < history_count'
        PROVE  Holds(memory', Entry(i), log'[Len(log') - history_count' + (i + 1)])
    <3>1. CASE i = c
      <4>1. Len(log') - history_count' + (i + 1) = Len(log) + 1
        BY <1>1, <1>2, <2>1, <2>2, <3>1
      <4> QED
        BY <1>2, <2>4, <3>1, <4>1
    <3>2. CASE i # c
      <4> DEFINE t == log[Len(log) - history_count + (i + 1)]
      <4>1. i < c /\ i < HISTORY_SIZE
        BY <2>1, <2>2, <2>5, <3>2, Sizes
      <4>2. Holds(memory, Entry(i), t) /\ t \in Fitting
        BY <1>1, <4>1 DEF Holds
      <4>3. /\ Len(log) - history_count + (i + 1) \in 1 .. Len(log)
            /\ Len(log') - history_count' + (i + 1) = Len(log) - history_count + (i + 1)
        BY <1>1, <1>2, <2>1, <2>2, <4>1
      <4>4. t = log'[Len(log') - history_count' + (i + 1)]
        BY <1>2, <4>3
      <4>5. /\ Entry(i) \in Nat /\ Entry(i) + Width <= Entry(HISTORY_SIZE)
            /\ Entry(i) + Width <= Entry(c)
        BY <2>2, <4>1, Apart
      <4> HIDE DEF t
      <4>6. Holds(memory', Entry(i), t)
        BY <2>4, <4>2, <4>5
      <4> QED
        BY <4>4, <4>6
    <3> QED
      BY <3>1, <3>2
  <2>6. history_count' \in 0 .. HISTORY_SIZE /\ history_count' <= Len(log')
    BY <1>1, <1>2, <2>1, <2>2, Sizes
  <2> QED
    BY <1>2, <2>4, <2>5, <2>6 DEF IInv
<1> QED
  BY <1>3, <1>4

\* Run keeps the invariant, whatever line it gets.
LEMMA Running ==
  ASSUME IInv, NEW s \in Fitting, Run(s), Len(log) < MaxLines
  PROVE  IInv'
<1>1. CASE s = <<>>
  <2>1. memory' = memory /\ history_count' = history_count /\ log' = log
    BY <1>1 DEF Run, add_to_history
  <2> QED
    BY <2>1 DEF IInv
<1>2. CASE s # <<>>
  <2>1. add_to_history(s) /\ log' = Append(log, s)
    BY <1>2 DEF Run
  <2> QED
    BY <1>2, <2>1, Adding
<1> QED
  BY <1>1, <1>2

\* An entry of the history is a line of the log.
LEMMA EntryIsLine ==
  ASSUME IInv, NEW i \in Nat, i < history_count
  PROVE  /\ StringAt(memory, Entry(i)) = log[Len(log) - history_count + (i + 1)]
         /\ StringAt(memory, Entry(i)) \in Fitting
<1> DEFINE s == log[Len(log) - history_count + (i + 1)]
<1>1. Holds(memory, Entry(i), s) /\ memory \in Memory /\ i < HISTORY_SIZE
  BY Sizes DEF IInv
<1>2. Entry(i) \in Nat /\ Entry(i) + Width <= Entry(HISTORY_SIZE)
  BY <1>1, Apart
<1> HIDE DEF s
<1>3. StringAt(memory, Entry(i)) = s
  BY <1>1, <1>2, Reading
<1> QED
  BY <1>1, <1>3 DEF s, Holds

LEMMA StepInv == IInv /\ [Next]_vars => IInv'
<1> SUFFICES ASSUME IInv, [Next]_vars PROVE IInv'
  OBVIOUS
<1>1. ASSUME NEW s \in Lines, Command(s)
      PROVE  IInv'
  <2>1. s \in Fitting /\ Run(s) /\ Len(log) < MaxLines
    BY <1>1, LinesAssumption DEF Command, Fitting
  <2> QED
    BY <2>1, Running
<1>2. ASSUME NEW s \in Lines, Repeat(s)
      PROVE  IInv'
  <2> DEFINE i == Index(s)
  <2>1. i \in Nat /\ i < history_count
    <3>1. s \in Fitting /\ Len(s) > 1
      BY <1>2, LinesAssumption DEF Repeat, IsRepeat, Fitting
    <3>2. 2 \in 1 .. Len(s) /\ \A c \in 0 .. 127 : c \in Int
      BY <3>1, Characters
    <3>3. s[2] \in Int
      BY <3>1, <3>2, Characters
    <3> QED
      BY <1>2, <3>3 DEF Repeat, Index, One
  <2>2. Run(StringAt(memory, Entry(i))) /\ Len(log) < MaxLines
    BY <1>2 DEF Repeat
  <2> HIDE DEF i
  <2>3. StringAt(memory, Entry(i)) \in Fitting
    BY <2>1, EntryIsLine
  <2> QED
    BY <2>2, <2>3, Running
<1>3. ASSUME NEW s \in Lines, RepeatRefused(s)
      PROVE  IInv'
  BY <1>3 DEF RepeatRefused, IInv
<1>4. CASE UNCHANGED vars
  BY <1>4 DEF vars, IInv
<1> QED
  BY <1>1, <1>2, <1>3, <1>4 DEF Next

\* What every state satisfies: the memory of the history has the end of the log.
THEOREM Invariance == Spec => []IInv
<1>1. Init => IInv
  BY InitInv
<1>2. IInv /\ [Next]_vars => IInv'
  BY StepInv
<1> QED
  BY <1>1, <1>2, PTL DEF Spec

-----------------------------------------------------------------------------
(* The properties. *)

\* The shell's history memory holds characters and its count stays in bounds.
THEOREM TypeCorrect == Spec => []TypeOK
<1>1. IInv => TypeOK
  BY DEF IInv, TypeOK, Memory
<1> QED
  BY <1>1, Invariance, PTL

\* cmd_history shows the last lines that run has executed, whole and in order, before
\* and after add_to_history has shifted a full history.
THEOREM ShowsTheLog == Spec => []HistoryIsLog
<1>1. IInv => HistoryIsLog
  <2> SUFFICES ASSUME IInv PROVE HistoryIsLog
    OBVIOUS
  <2> DEFINE first == Len(log) - history_count + 1
             sub == SubSeq(log, first, Len(log))
  <2>1. /\ log \in Seq(Fitting) /\ Len(log) \in Nat /\ history_count \in Nat
        /\ history_count <= Len(log)
    BY Sizes DEF IInv
  <2>2. sub = [i \in 1 .. history_count |-> log[first + i - 1]]
    BY <2>1
  <2>3. ASSUME NEW i \in 1 .. history_count
        PROVE  StringAt(memory, Entry(i - 1)) = log[first + i - 1]
    <3>1. /\ i - 1 \in Nat /\ i - 1 < history_count
          /\ Len(log) - history_count + ((i - 1) + 1) = first + i - 1
      BY <2>1
    <3> QED
      BY <3>1, EntryIsLine
  <2> QED
    BY <2>2, <2>3 DEF HistoryIsLog, Shown
<1> QED
  BY <1>1, Invariance, PTL

\* run: with one digit after the "!", the line that is run is the one that the history
\* has under this number.
THEOREM DigitsRepeat == Spec => DigitRepeats
<1>1. IInv /\ [Next]_vars =>
        [\A n \in 1 .. 9 : n <= history_count /\ typed' = <<Bang, 48 + n>> =>
           ran'.line = log[Len(log) - history_count + n]]_vars
  <2> SUFFICES ASSUME IInv, Next, NEW n \in 1 .. 9, n <= history_count,
                      typed' = <<Bang, 48 + n>>
               PROVE  ran'.line = log[Len(log) - history_count + n]
    OBVIOUS
  <2> DEFINE s == <<Bang, 48 + n>>
  <2>1. IsRepeat(s) /\ Index(s) = n - 1
    BY DEF IsRepeat, Index, One
  <2>2. n - 1 \in Nat /\ n - 1 < history_count /\ (n - 1) + 1 = n
    BY Sizes DEF IInv
  <2> HIDE DEF s
  <2>3. Command(s) \/ Repeat(s) \/ RepeatRefused(s)
    BY DEF Next, Command, Repeat, RepeatRefused, s
  <2>4. Repeat(s)
    BY <2>1, <2>2, <2>3, Sizes DEF Command, RepeatRefused, IInv
  <2>5. ran'.line = StringAt(memory, Entry(n - 1))
    BY <2>1, <2>4 DEF Repeat, Run
  <2> QED
    BY <2>2, <2>5, EntryIsLine
<1> QED
  BY <1>1, Invariance, PTL DEF Spec, DigitRepeats
=============================================================================
