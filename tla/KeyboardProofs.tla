-------------------------- MODULE KeyboardProofs --------------------------
(* Theorems about Keyboard, for every size of the ring and every key map, and   *)
(* with ticks between any two instructions or only where AL is not in use.      *)
EXTENDS Keyboard, SequenceTheorems, TLAPS

\* While main is inside kbd_pop, AL is the new tail or what irq32 left there.
TailInAl == pc = "settail" => al \in {Succ(kbd_tail), EOI}

\* The keyboard controller sends no second code before the first is read.
OneRequest == handler = "irq33" => 1 \notin irr

IInv ==
  /\ TypeOK /\ InService /\ PortAnnounced /\ ReaderSlotStable
  /\ TailInAl /\ OneRequest

-----------------------------------------------------------------------------
\* The next index without the remainder.
LEMMA SuccFact ==
  \A i \in 0 .. N - 1 :
    /\ Succ(i) = IF i = N - 1 THEN 0 ELSE i + 1
    /\ Succ(i) \in 0 .. N - 1
BY RingAssumption, SMT DEF Succ

\* A remainder is an index, and an index is its own remainder.
LEMMA ModFact ==
  /\ \A a \in Nat : a % N \in 0 .. N - 1
  /\ \A a \in 0 .. N - 1 : a % N = a
BY RingAssumption, SMT

\* Ending the only line in service.
LEMMA EoiFact == AfterEoi({}) = {} /\ AfterEoi({0}) = {} /\ AfterEoi({1}) = {}
<1>1. Min({0}) = 0 /\ Min({1}) = 1
  BY DEF Min
<1> QED
  BY <1>1 DEF AfterEoi

\* The characters are natural numbers.
LEMMA CharFact ==
  /\ Chars \subseteq Nat
  /\ \A k \in Plain \cup {"c"} : kbd_us[k] \in Chars /\ kbd_us_shift[k] \in Chars
BY KeyAssumption DEF Chars

-----------------------------------------------------------------------------
\* The state after sti satisfies the invariant.
LEMMA InitInv == Init => IInv
<1> SUFFICES ASSUME Init PROVE IInv
  OBVIOUS
<1>1. TypeOK
  <2>1. kbd_head \in 0 .. N - 1 /\ kbd_tail \in 0 .. N - 1 /\ sent \in 0 .. MaxKeys
    <3>1. kbd_head = 0 /\ kbd_tail = 0 /\ sent = 0
      BY DEF Init
    <3> QED
      BY <3>1, RingAssumption, EnvironmentAssumption
  <2>2. kbd_buffer \in [0 .. N - 1 -> Chars \cup {0}]
    <3>1. kbd_buffer = [i \in 0 .. N - 1 |-> 0]
      BY DEF Init
    <3> QED
      BY <3>1
  <2>3. al \in Nat /\ ch \in Nat /\ view_offset \in Int
    <3>1. al = 0 /\ ch = 0 /\ view_offset = 0
      BY DEF Init
    <3> QED
      BY <3>1
  <2> QED
    BY <2>1, <2>2, <2>3 DEF Init, TypeOK
<1>2. InService /\ PortAnnounced /\ ReaderSlotStable /\ TailInAl /\ OneRequest
  BY DEF Init, InService, PortAnnounced, ReaderSlotStable, TailInAl, OneRequest
<1> QED
  BY <1>1, <1>2 DEF IInv

\* The keyboard's and the timer's own steps.
LEMMA DeviceStep ==
  ASSUME IInv,
         (\E k \in Scancodes : SendKey(k)) \/ Tick
  PROVE  IInv'
<1> USE DEF ring, mods, pic, main, keys
<1>1. ASSUME NEW k \in Scancodes, SendKey(k) PROVE IInv'
  <2>1. k # "empty"
    BY KeyAssumption DEF Scancodes, Special
  <2>2. TypeOK'
    <3>1. sent' \in 0 .. MaxKeys
      <4>1. sent \in 0 .. MaxKeys /\ sent < MaxKeys /\ sent' = sent + 1
        BY <1>1 DEF IInv, TypeOK, SendKey
      <4> QED
        BY <4>1, EnvironmentAssumption
    <3> QED
      BY <1>1, <3>1 DEF IInv, TypeOK, SendKey
  <2>3. InService' /\ ReaderSlotStable' /\ TailInAl'
    BY <1>1 DEF IInv, InService, ReaderSlotStable, TailInAl, SendKey
  <2>4. PortAnnounced' /\ OneRequest'
    BY <1>1, <2>1 DEF IInv, PortAnnounced, OneRequest, SendKey
  <2> QED
    BY <2>2, <2>3, <2>4 DEF IInv
<1>2. CASE Tick
  <2>1. TypeOK'
    BY <1>2 DEF IInv, TypeOK, Tick
  <2>2. InService' /\ ReaderSlotStable' /\ TailInAl'
    BY <1>2 DEF IInv, InService, ReaderSlotStable, TailInAl, Tick
  <2>3. PortAnnounced' /\ OneRequest'
    <3>1. /\ UNCHANGED <<port60, handler>>
          /\ 1 \in irr' <=> 1 \in irr
      BY <1>2 DEF Tick
    <3> QED
      BY <3>1 DEF IInv, PortAnnounced, OneRequest
  <2> QED
    BY <2>1, <2>2, <2>3 DEF IInv
<1> QED
  BY <1>1, <1>2

\* The CPU takes a request, or an interrupt that is no request of the 8259A.
LEMMA TakeStep ==
  ASSUME IInv,
         (\E n \in {0, 1} : Take(n)) \/ Unhandled
  PROVE  IInv'
<1> USE DEF ring, mods, pic, main, keys
<1>1. ASSUME NEW n \in {0, 1}, Take(n) PROVE IInv'
  <2>1. n \in irr /\ isr = {}
    BY <1>1 DEF IInv, InService, Take, Grantable
  <2>2. TypeOK'
    BY <1>1 DEF IInv, TypeOK, Take
  <2>3. InService'
    BY <1>1, <2>1 DEF Take, InService
  <2>4. ReaderSlotStable' /\ TailInAl'
    BY <1>1 DEF IInv, ReaderSlotStable, TailInAl, Take, AlIsLive
  <2>5. PortAnnounced' /\ OneRequest'
    <3>1. /\ UNCHANGED port60
          /\ handler = "none"
          /\ handler' = IF n = 0 THEN "irq32" ELSE "irq33"
          /\ 1 \in irr' <=> 1 \in irr /\ n = 0
      BY <1>1 DEF Take
    <3> QED
      BY <2>1, <3>1 DEF IInv, PortAnnounced, OneRequest
  <2> QED
    BY <2>2, <2>3, <2>4, <2>5 DEF IInv
<1>2. CASE Unhandled
  <2>1. TypeOK'
    BY <1>2 DEF IInv, TypeOK, Unhandled
  <2>2. InService' /\ ReaderSlotStable' /\ TailInAl'
    BY <1>2 DEF IInv, InService, ReaderSlotStable, TailInAl, Unhandled
  <2>3. PortAnnounced' /\ OneRequest'
    BY <1>2 DEF IInv, PortAnnounced, OneRequest, Unhandled
  <2> QED
    BY <2>1, <2>2, <2>3 DEF IInv
<1> QED
  BY <1>1, <1>2

\* What kbd_push leaves of the ring: its indices stay inside, the slot being read
\* is not written, and a ring that is not empty stays so.
LEMMA PushFact ==
  ASSUME TypeOK, NEW x \in Chars, kbd_push(x)
  PROVE  /\ kbd_buffer' \in [0 .. N - 1 -> Chars \cup {0}]
         /\ kbd_head' \in 0 .. N - 1
         /\ kbd_tail' = kbd_tail
         /\ kbd_head # kbd_tail =>
              /\ kbd_head' # kbd_tail'
              /\ kbd_buffer'[kbd_tail] = kbd_buffer[kbd_tail]
<1>1. /\ kbd_buffer \in [0 .. N - 1 -> Chars \cup {0}]
      /\ kbd_head \in 0 .. N - 1 /\ kbd_tail \in 0 .. N - 1
  BY DEF TypeOK
<1> QED
  BY <1>1, SuccFact DEF kbd_push

\* The same of a key press.
LEMMA PressFact ==
  ASSUME TypeOK, NEW k \in Plain \cup {"c"}, PushKey(k)
  PROVE  \/ UNCHANGED ring
         \/ \E x \in Chars : kbd_push(x)
BY CharFact DEF PushKey

\* The handlers: each ends what it serves.
LEMMA StubStep ==
  ASSUME IInv, Stub
  PROVE  IInv'
<1> USE DEF ring, mods, pic, main, keys
<1>1. CASE irq32
  <2>1. isr' = {}
    BY <1>1, EoiFact DEF IInv, InService, irq32
  <2>2. TypeOK'
    BY <1>1, <2>1 DEF IInv, TypeOK, irq32, EOI
  <2>3. InService' /\ ReaderSlotStable' /\ TailInAl'
    BY <1>1, <2>1 DEF IInv, InService, ReaderSlotStable, TailInAl, irq32, Succ
  <2>4. PortAnnounced' /\ OneRequest'
    BY <1>1 DEF IInv, PortAnnounced, OneRequest, irq32
  <2> QED
    BY <2>2, <2>3, <2>4 DEF IInv
<1>2. CASE irq1_handler
  <2>1. /\ kbd_buffer' \in [0 .. N - 1 -> Chars \cup {0}]
        /\ kbd_head' \in 0 .. N - 1
        /\ kbd_tail' = kbd_tail
        /\ kbd_head # kbd_tail =>
             /\ kbd_head' # kbd_tail'
             /\ kbd_buffer'[kbd_tail] = kbd_buffer[kbd_tail]
    <3>1. TypeOK
      BY DEF IInv
    <3>2. UNCHANGED ring \/ \E x \in Chars : kbd_push(x)
      BY <1>2, <3>1, PressFact DEF irq1_handler
    <3>3. CASE UNCHANGED ring
      BY <3>1, <3>3 DEF TypeOK
    <3>4. ASSUME NEW x \in Chars, kbd_push(x)
          PROVE  <2>1
      BY <3>1, <3>4, PushFact
    <3> QED
      BY <3>2, <3>3, <3>4
  <2>2. view_offset' \in Int /\ shift_pressed' \in BOOLEAN /\ ctrl_pressed' \in BOOLEAN
    <3>1. /\ view_offset \in Int
          /\ view_offset' \in {view_offset, view_offset - 1, view_offset + 1}
      BY <1>2 DEF IInv, TypeOK, irq1_handler
    <3>2. shift_pressed' \in BOOLEAN
      BY <1>2 DEF IInv, TypeOK, irq1_handler
    <3>3. ctrl_pressed' \in BOOLEAN
      BY <1>2 DEF IInv, TypeOK, irq1_handler
    <3> QED
      BY <3>1, <3>2, <3>3
  <2>3. TypeOK'
    BY <1>2, <2>1, <2>2 DEF IInv, TypeOK, irq1_handler
  <2>4. InService' /\ TailInAl'
    BY <1>2, <2>1 DEF IInv, InService, TailInAl, irq1_handler
  <2>5. ReaderSlotStable'
    BY <1>2, <2>1 DEF IInv, ReaderSlotStable, irq1_handler
  <2>6. PortAnnounced' /\ OneRequest'
    BY <1>2 DEF IInv, PortAnnounced, OneRequest, irq1_handler
  <2> QED
    BY <2>3, <2>4, <2>5, <2>6 DEF IInv
<1>3. CASE irq33_return
  <2>1. isr' = {}
    BY <1>3, EoiFact DEF IInv, InService, irq33_return
  <2>2. TypeOK'
    BY <1>3, <2>1 DEF IInv, TypeOK, irq33_return
  <2>3. InService' /\ ReaderSlotStable' /\ TailInAl'
    BY <1>3, <2>1 DEF IInv, InService, ReaderSlotStable, TailInAl, irq33_return
  <2>4. PortAnnounced' /\ OneRequest'
    BY <1>3 DEF IInv, PortAnnounced, OneRequest, irq33_return
  <2> QED
    BY <2>2, <2>3, <2>4 DEF IInv
<1>4. CASE generic_handler
  <2>1. isr' = {}
    BY <1>4, EoiFact DEF IInv, InService, generic_handler
  <2>2. TypeOK'
    BY <1>4, <2>1 DEF IInv, TypeOK, generic_handler
  <2>3. InService' /\ ReaderSlotStable' /\ TailInAl'
    BY <1>4, <2>1 DEF IInv, InService, ReaderSlotStable, TailInAl, generic_handler
  <2>4. PortAnnounced' /\ OneRequest'
    BY <1>4 DEF IInv, PortAnnounced, OneRequest, generic_handler
  <2> QED
    BY <2>2, <2>3, <2>4 DEF IInv
<1> QED
  BY <1>1, <1>2, <1>3, <1>4 DEF Stub

\* The main program's steps.
LEMMA MainStep ==
  ASSUME IInv, Main
  PROVE  IInv'
<1> USE DEF ring, mods, pic, main, keys
<1>1. /\ TypeOK
      /\ kbd_tail \in 0 .. N - 1
      /\ Chars \cup {0} \subseteq Nat
  BY CharFact DEF IInv, TypeOK
<1>2. InService' /\ PortAnnounced' /\ OneRequest'
  BY DEF Main, PopEmpty, PopLoad, PopSetTail, Store, Halt, Running,
         IInv, InService, PortAnnounced, OneRequest
<1>3. CASE PopEmpty
  <2>1. TypeOK'
    BY <1>1, <1>3 DEF TypeOK, PopEmpty
  <2>2. ReaderSlotStable' /\ TailInAl'
    BY <1>3 DEF ReaderSlotStable, TailInAl, PopEmpty
  <2> QED
    BY <1>2, <2>1, <2>2 DEF IInv
<1>4. CASE PopLoad
  <2>1. Succ(kbd_tail) \in Nat
    BY <1>1, SuccFact, RingAssumption
  <2>2. kbd_buffer[kbd_tail] \in Chars \cup {0}
    BY <1>1 DEF TypeOK
  <2>3. TypeOK'
    BY <1>1, <1>4, <2>1, <2>2 DEF TypeOK, PopLoad
  <2>4. ReaderSlotStable' /\ TailInAl'
    BY <1>4 DEF ReaderSlotStable, TailInAl, PopLoad, Succ
  <2> QED
    BY <1>2, <2>3, <2>4 DEF IInv
<1>5. CASE PopSetTail
  <2>1. al % N \in 0 .. N - 1
    BY <1>1, ModFact DEF TypeOK
  <2>2. c \in Nat
    BY <1>1 DEF TypeOK
  <2>3. TypeOK'
    BY <1>1, <1>5, <2>1, <2>2 DEF TypeOK, PopSetTail
  <2>4. ReaderSlotStable' /\ TailInAl'
    BY <1>5 DEF ReaderSlotStable, TailInAl, PopSetTail
  <2> QED
    BY <1>2, <2>3, <2>4 DEF IInv
<1>6. CASE Store
  <2>1. TypeOK'
    BY <1>1, <1>6 DEF TypeOK, Store
  <2>2. ReaderSlotStable' /\ TailInAl'
    BY <1>6 DEF ReaderSlotStable, TailInAl, Store
  <2> QED
    BY <1>2, <2>1, <2>2 DEF IInv
<1>7. CASE Halt
  <2>1. TypeOK'
    BY <1>1, <1>7 DEF TypeOK, Halt
  <2>2. ReaderSlotStable' /\ TailInAl'
    BY <1>7 DEF ReaderSlotStable, TailInAl, Halt
  <2> QED
    BY <1>2, <2>1, <2>2 DEF IInv
<1> QED
  BY <1>3, <1>4, <1>5, <1>6, <1>7 DEF Main

\* The inductive invariant holds in every reachable state.
THEOREM Invariance == Spec => []IInv
<1>1. Init => IInv
  BY InitInv
<1>2. IInv /\ [Next]_vars => IInv'
  <2> SUFFICES ASSUME IInv, [Next]_vars PROVE IInv'
    OBVIOUS
  <2>1. CASE UNCHANGED vars
    BY <2>1 DEF vars, ring, mods, pic, main, keys, IInv, TypeOK, InService,
                PortAnnounced, ReaderSlotStable, TailInAl, OneRequest, Succ
  <2>2. CASE Next
    BY <2>2, DeviceStep, TakeStep, StubStep, MainStep DEF Next
  <2> QED
    BY <2>1, <2>2
<1> QED
  BY <1>1, <1>2, PTL DEF Spec

-----------------------------------------------------------------------------
(* The ring is a queue. *)

\* The slot of the i-th character, without the remainder.
Slot(i) == IF kbd_tail + i <= N THEN kbd_tail + i - 1 ELSE kbd_tail + i - 1 - N

\* A remainder of a number below 2 * N takes N away once or not at all.
LEMMA Wrap == \A a \in 0 .. 2 * N - 1 : a % N = IF a < N THEN a ELSE a - N
BY RingAssumption, SMT

\* How many characters the ring holds.
CountIs ==
  /\ Count = IF kbd_head >= kbd_tail THEN kbd_head - kbd_tail
                                     ELSE kbd_head + N - kbd_tail
  /\ Count \in 0 .. N - 1

\* head and tail determine it.
LEMMA CountFact == TypeOK => CountIs
<1> SUFFICES ASSUME TypeOK PROVE CountIs
  OBVIOUS
<1>1. N \in Nat /\ N > 1 /\ kbd_head \in 0 .. N - 1 /\ kbd_tail \in 0 .. N - 1
  BY RingAssumption DEF TypeOK
<1>2. kbd_head + N - kbd_tail \in 0 .. 2 * N - 1
  BY <1>1
<1> QED
  BY <1>1, <1>2, Wrap DEF Count, CountIs

\* The sequence of the characters in the ring.
ContentsIs ==
  /\ Contents \in Seq(Chars \cup {0})
  /\ Len(Contents) = Count
  /\ \A i \in 1 .. Count : /\ Slot(i) \in 0 .. N - 1
                           /\ Contents[i] = kbd_buffer[Slot(i)]

\* Its length and its elements.
LEMMA ContentsFact == TypeOK => ContentsIs
<1> SUFFICES ASSUME TypeOK PROVE ContentsIs
  OBVIOUS
<1>1. N \in Nat /\ N > 1 /\ kbd_tail \in 0 .. N - 1 /\ Count \in 0 .. N - 1
  BY RingAssumption, CountFact DEF TypeOK, CountIs
<1>2. \A i \in 1 .. Count : kbd_tail + i - 1 \in 0 .. 2 * N - 1
  BY <1>1
<1>3. \A i \in 1 .. Count :
        Slot(i) \in 0 .. N - 1 /\ (kbd_tail + i - 1) % N = Slot(i)
  BY <1>1, <1>2, Wrap DEF Slot
<1>4. Contents = [i \in 1 .. Count |-> kbd_buffer[Slot(i)]]
  BY <1>3 DEF Contents
<1>5. \A i \in 1 .. Count : kbd_buffer[Slot(i)] \in Chars \cup {0}
  BY <1>3 DEF TypeOK
<1>6. Contents \in [1 .. Count -> Chars \cup {0}]
  BY <1>4, <1>5
<1>7. Contents \in Seq(Chars \cup {0})
  BY <1>1, <1>6, SeqDef
<1>8. Len(Contents) = Count
  <2>1. DOMAIN Contents = 1 .. Count
    BY <1>6
  <2> QED
    BY <1>1, <1>7, <2>1, LenProperties
<1> QED
  BY <1>3, <1>4, <1>7, <1>8 DEF ContentsIs

\* Both facts, before and after a step.
LEMMA RingFact ==
  ASSUME TypeOK, TypeOK'
  PROVE  CountIs /\ CountIs' /\ ContentsIs /\ ContentsIs'
<1>1. (TypeOK => CountIs)' /\ (TypeOK => ContentsIs)'
  BY CountFact, ContentsFact, PTL
<1> QED
  BY <1>1, CountFact, ContentsFact

\* kbd_push appends, or drops what comes.
LEMMA PushIsPush ==
  ASSUME TypeOK, TypeOK', NEW x \in Chars, kbd_push(x)
  PROVE  Contents' = Contents \/ Queue!Push(x)
<1>1. /\ N \in Nat /\ N > 1 /\ kbd_head \in 0 .. N - 1 /\ kbd_tail \in 0 .. N - 1
      /\ kbd_buffer \in [0 .. N - 1 -> Chars \cup {0}]
  BY RingAssumption DEF TypeOK
<1>2. CASE Succ(kbd_head) = kbd_tail
  <2>1. UNCHANGED <<kbd_buffer, kbd_head, kbd_tail>>
    BY <1>2 DEF kbd_push
  <2> QED
    BY <2>1 DEF Contents, Count
<1>3. CASE Succ(kbd_head) # kbd_tail
  <2>1. /\ kbd_head' = Succ(kbd_head)
        /\ kbd_tail' = kbd_tail
        /\ kbd_buffer' = [kbd_buffer EXCEPT ![kbd_head] = x]
    BY <1>3 DEF kbd_push
  <2>2. Count' = Count + 1 /\ Count < N - 1 /\ Count \in Nat
    <3>1. /\ Count = IF kbd_head >= kbd_tail THEN kbd_head - kbd_tail
                                             ELSE kbd_head + N - kbd_tail
          /\ Count' = IF kbd_head' >= kbd_tail' THEN kbd_head' - kbd_tail'
                                                ELSE kbd_head' + N - kbd_tail'
      BY RingFact DEF CountIs
    <3>2. /\ kbd_head' = IF kbd_head = N - 1 THEN 0 ELSE kbd_head + 1
          /\ kbd_head' # kbd_tail
      BY <1>1, <1>3, <2>1, SuccFact
    <3> QED
      BY <1>1, <2>1, <3>1, <3>2
  <2>3. /\ Contents \in Seq(Chars \cup {0}) /\ Len(Contents) = Count
        /\ Contents' \in Seq(Chars \cup {0}) /\ Len(Contents') = Count'
    BY RingFact DEF ContentsIs
  <2>4. /\ Append(Contents, x) \in Seq(Chars \cup {0})
        /\ Len(Append(Contents, x)) = Count + 1
        /\ \A i \in 1 .. Count : Append(Contents, x)[i] = Contents[i]
        /\ Append(Contents, x)[Count + 1] = x
    BY <2>3, AppendProperties
  <2>5. ASSUME NEW i \in 1 .. Count + 1
        PROVE  Contents'[i] = Append(Contents, x)[i]
    <3>1. Slot(i)' = Slot(i) /\ Contents'[i] = kbd_buffer'[Slot(i)]
      <4>1. Slot(i)' = Slot(i)
        BY <2>1 DEF Slot
      <4>2. i \in 1 .. Count'
        BY <2>2
      <4> QED
        BY <4>1, <4>2, RingFact DEF ContentsIs
    <3>2. CASE i = Count + 1
      <4>1. Slot(i) = kbd_head
        BY <1>1, <2>2, <3>2, RingFact DEF Slot, CountIs
      <4> QED
        BY <1>1, <2>1, <2>4, <3>1, <3>2, <4>1
    <3>3. CASE i # Count + 1
      <4>1. i \in 1 .. Count
        BY <2>2, <3>3
      <4>2. Slot(i) # kbd_head
        BY <1>1, <2>2, <4>1, RingFact DEF Slot, CountIs
      <4>3. Slot(i) \in 0 .. N - 1 /\ Contents[i] = kbd_buffer[Slot(i)]
        BY <4>1, RingFact DEF ContentsIs
      <4> QED
        BY <1>1, <2>1, <2>4, <3>1, <4>1, <4>2, <4>3
    <3> QED
      BY <3>2, <3>3
  <2>6. Contents' = Append(Contents, x)
    BY <2>2, <2>3, <2>4, <2>5, SeqEqual
  <2> QED
    BY <2>2, <2>3, <2>6 DEF Queue!Push
<1> QED
  BY <1>2, <1>3

\* The store of the new tail takes the oldest character off.
LEMMA PopIsPop ==
  ASSUME TypeOK, TypeOK', kbd_head # kbd_tail,
         kbd_tail' = Succ(kbd_tail), UNCHANGED <<kbd_buffer, kbd_head>>
  PROVE  Queue!Pop
<1>1. /\ N \in Nat /\ N > 1 /\ kbd_head \in 0 .. N - 1 /\ kbd_tail \in 0 .. N - 1
  BY RingAssumption DEF TypeOK
<1>2. kbd_tail' = IF kbd_tail = N - 1 THEN 0 ELSE kbd_tail + 1
  BY <1>1, SuccFact
<1>3. Count' = Count - 1 /\ Count > 0 /\ Count \in 0 .. N - 1
  <2>1. /\ Count = IF kbd_head >= kbd_tail THEN kbd_head - kbd_tail
                                           ELSE kbd_head + N - kbd_tail
        /\ Count' = IF kbd_head' >= kbd_tail' THEN kbd_head' - kbd_tail'
                                              ELSE kbd_head' + N - kbd_tail'
    BY RingFact DEF CountIs
  <2> QED
    BY <1>1, <1>2, <2>1
<1>4. /\ Contents \in Seq(Chars \cup {0}) /\ Len(Contents) = Count
      /\ Contents' \in Seq(Chars \cup {0}) /\ Len(Contents') = Count'
  BY RingFact DEF ContentsIs
<1>5. Contents # <<>>
  BY <1>3, <1>4, EmptySeq
<1>6. /\ Tail(Contents) \in Seq(Chars \cup {0})
      /\ Len(Tail(Contents)) = Count - 1
      /\ \A i \in 1 .. Count - 1 : Tail(Contents)[i] = Contents[i + 1]
  BY <1>4, <1>5, HeadTailProperties
<1>7. ASSUME NEW i \in 1 .. Count - 1
      PROVE  Contents'[i] = Tail(Contents)[i]
  <2>1. i + 1 \in 1 .. Count /\ i \in 1 .. Count'
    BY <1>3
  <2>2. Slot(i)' = Slot(i + 1)
    BY <1>1, <1>2, <1>3 DEF Slot
  <2>3. Contents'[i] = kbd_buffer'[Slot(i)'] /\ Contents[i + 1] = kbd_buffer[Slot(i + 1)]
    BY <2>1, RingFact DEF ContentsIs
  <2> QED
    BY <1>6, <2>2, <2>3
<1>8. Contents' = Tail(Contents)
  BY <1>3, <1>4, <1>6, <1>7, SeqEqual
<1> QED
  BY <1>5, <1>8 DEF Queue!Pop

\* The ring starts empty.
LEMMA InitIsInit == Init => Queue!Init
<1> SUFFICES ASSUME Init PROVE Contents = <<>>
  BY DEF Queue!Init
<1>1. TypeOK /\ kbd_head = 0 /\ kbd_tail = 0
  BY InitInv DEF IInv, Init
<1>2. Count = 0
  BY <1>1, CountFact DEF CountIs
<1> QED
  BY <1>1, <1>2, ContentsFact, EmptySeq DEF ContentsIs

\* kbd_pop stores as the new tail what a timer interrupt has left in AL.
TailFromTimer == PopSetTail /\ al = EOI /\ al # Succ(kbd_tail)

\* Only a key press and the store of the tail change the queue.
LEMMA StepIsStep ==
  ASSUME IInv, IInv', [Next]_vars, ~ TailFromTimer
  PROVE  [Queue!Next]_Contents
<1> USE DEF ring, mods, pic, main, keys
<1>1. TypeOK /\ TypeOK'
  BY DEF IInv
<1>2. ASSUME UNCHANGED ring PROVE UNCHANGED Contents
  BY <1>2 DEF Contents, Count
<1>3. CASE irq1_handler
  <2>1. UNCHANGED ring \/ \E x \in Chars : kbd_push(x)
    BY <1>1, <1>3, PressFact DEF irq1_handler
  <2>2. ASSUME NEW x \in Chars, kbd_push(x) PROVE [Queue!Next]_Contents
    BY <1>1, <2>2, PushIsPush DEF Queue!Next
  <2> QED
    BY <1>2, <2>1, <2>2
<1>4. CASE PopSetTail
  <2>1. /\ kbd_tail' = Succ(kbd_tail)
        /\ kbd_head # kbd_tail
        /\ UNCHANGED <<kbd_buffer, kbd_head>>
    <3>1. kbd_tail' = al % N /\ al = Succ(kbd_tail) /\ Succ(kbd_tail) \in 0 .. N - 1
      BY <1>1, <1>4, SuccFact DEF IInv, TypeOK, TailInAl, PopSetTail, TailFromTimer
    <3>2. kbd_head # kbd_tail /\ UNCHANGED <<kbd_buffer, kbd_head>>
      BY <1>4 DEF IInv, ReaderSlotStable, PopSetTail
    <3> QED
      BY <3>1, <3>2, ModFact
  <2> QED
    BY <1>1, <2>1, PopIsPop DEF Queue!Next
<1>5. CASE UNCHANGED ring
  BY <1>2, <1>5
<1>6. irq1_handler \/ PopSetTail \/ UNCHANGED ring
  BY DEF Next, vars, Stub, Main, SendKey, Tick, Take, Unhandled, irq32, irq33_return,
         generic_handler, PopEmpty, PopLoad, Store, Halt
<1> QED
  BY <1>3, <1>4, <1>5, <1>6

\* Every step of every actor is a step of the bounded queue or none, but the one
\* in which kbd_pop stores the timer's AL as its tail.
THEOREM StepsAreQueueSteps == Spec => [][[Queue!Next]_Contents \/ TailFromTimer]_vars
<1>1. IInv /\ IInv' /\ [Next]_vars => [[Queue!Next]_Contents \/ TailFromTimer]_vars
  BY StepIsStep
<1> QED
  BY <1>1, Invariance, PTL DEF Spec

\* The ring that the keyboard interrupt fills and main empties is a bounded queue,
\* for every size of the ring, unless a tick comes between the two instructions of
\* kbd_pop that calculate the tail and store it.
THEOREM RingIsQueue == Spec => IsQueue \/ <><<TailFromTimer>>_vars
<1>1. IInv /\ IInv' /\ [Next]_vars /\ ~ <<TailFromTimer>>_vars
        => [Queue!Next]_Contents
  <2> SUFFICES ASSUME IInv, IInv', [Next]_vars, ~ <<TailFromTimer>>_vars
               PROVE  [Queue!Next]_Contents
    OBVIOUS
  <2>1. CASE UNCHANGED vars
    BY <2>1 DEF vars, ring, Contents, Count
  <2>2. CASE ~ TailFromTimer
    BY <2>2, StepIsStep
  <2> QED
    BY <2>1, <2>2
<1> QED
  BY <1>1, Invariance, InitIsInit, PTL DEF Spec, IsQueue, Queue!Spec

\* No index leaves the ring, whatever is typed.
THEOREM TypeCorrect == Spec => []TypeOK
<1>1. IInv => TypeOK
  BY DEF IInv
<1> QED
  BY <1>1, Invariance, PTL

\* Whenever main runs, no line is in service.
THEOREM LinesAreReleased == Spec => []InService
<1>1. IInv => InService
  BY DEF IInv
<1> QED
  BY <1>1, Invariance, PTL

\* No scan code waits unannounced and none is read twice.
THEOREM CodesAreAnnounced == Spec => []PortAnnounced
<1>1. IInv => PortAnnounced
  BY DEF IInv
<1> QED
  BY <1>1, Invariance, PTL

\* The slot kbd_pop reads is not written while it reads.
THEOREM ReaderIsSafe == Spec => []ReaderSlotStable
<1>1. IInv => ReaderSlotStable
  BY DEF IInv
<1> QED
  BY <1>1, Invariance, PTL
=============================================================================
