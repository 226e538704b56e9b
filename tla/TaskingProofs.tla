--------------------------- MODULE TaskingProofs ---------------------------
(* Theorems about Tasking, for every number of tasks and of stacks. *)
EXTENDS Tasking, FiniteSetTheorems, TLAPS

(***************************************************************************)
(* The inductive invariant.  M is the number of tasks on the list, the     *)
(* entries 0 to M - 1.  A new task is put in behind task 0, so every other *)
(* task leads to the one made before it and task 0 to the newest.          *)
(***************************************************************************)
Making == pc \in {"fields", "next", "link"}
M == IF Making THEN task_pool_idx - 1 ELSE task_pool_idx

\* What main has in its hands.
InHand ==
  /\ pc # "idle" => stack \in Stacks /\ stack < task_stack_idx
  /\ Making => task_pool_idx > 0 /\ task = task_pool_idx - 1
  /\ pc = "wait" => task \in Pool
  /\ foreground_task # Null => foreground_task < M

\* The shape of the list, once there is one.
Shape ==
  current_task # Null =>
    /\ task_list = 0 /\ M >= 1 /\ current_task < M
    /\ next[0] = M - 1
    /\ \A t \in 1 .. M - 1 : next[t] = t - 1
    /\ pc = "link" => next[task] = M - 1

\* Nothing outside the list leads anywhere but into it.
NoWayOut ==
  current_task # Null =>
    \A t \in Pool : next[t] # Null => next[t] < M

\* Before the first switch every task but the current one has its frame.
Framed ==
  ~ switched /\ current_task # Null =>
    /\ current_task = 0
    /\ \A t \in 1 .. M - 1 : stack_top[t] = "frame"
    /\ pc \in {"next", "link"} => stack_top[task] = "frame"

IInv == TypeOK /\ InHand /\ Shape /\ NoWayOut /\ Framed

\* The numbers among the variables and constants.
LEMMA Numbers ==
  ASSUME TypeOK
  PROVE  /\ PoolSize \in Nat /\ PoolSize > 0 /\ StackCount \in Nat
         /\ task_pool_idx \in Nat /\ task_pool_idx <= PoolSize
         /\ task_stack_idx \in Nat /\ task_stack_idx <= StackCount
<1>1. task_pool_idx \in 0 .. PoolSize /\ task_stack_idx \in 0 .. StackCount
  BY DEF TypeOK
<1> QED
  BY <1>1, SizeAssumption

LEMMA PoolIs ==
  /\ \A t : t \in Pool <=> t \in Nat /\ t < PoolSize
  /\ \A s : s \in Stacks <=> s \in Nat /\ s < StackCount
  /\ Null \notin Pool /\ Null \notin Stacks /\ 0 \in Pool /\ Null \in Int
BY SizeAssumption DEF Pool, Stacks, Null

\* The types of the functions, and of what is applied to them.
LEMMA FieldTypes ==
  ASSUME TypeOK
  PROVE  /\ next \in [Pool \cup {Null} -> Pool \cup {Null}]
         /\ stack_top \in [Pool -> {"null", "frame", "return address"}]
         /\ stack_base \in [Pool -> Stacks \cup {Null}]
         /\ current_task \in Pool \cup {Null} /\ task_list \in Pool \cup {Null}
         /\ foreground_task \in Pool \cup {Null}
         /\ task \in Pool \cup {Null} /\ stack \in Stacks \cup {Null}
BY DEF TypeOK

\* The tasks are numbered from 0.
LEMMA TasksAre ==
  ASSUME TypeOK, InHand
  PROVE  Tasks = 0 .. M - 1 /\ M \in 0 .. PoolSize
<1>1. task_pool_idx \in Nat /\ task_pool_idx <= PoolSize /\ PoolSize \in Nat
  BY Numbers
<1>2. CASE Making
  <2>1. task = task_pool_idx - 1 /\ task_pool_idx > 0 /\ M = task_pool_idx - 1
    BY <1>2 DEF InHand, M
  <2>2. Tasks = {t \in 0 .. task_pool_idx - 1 : t # task}
    BY <1>2 DEF Tasks, Making
  <2> QED
    BY <1>1, <2>1, <2>2
<1>3. CASE ~ Making
  BY <1>1, <1>3 DEF Tasks, Making, M
<1> QED
  BY <1>2, <1>3

LEMMA TasksAreInPool ==
  ASSUME TypeOK, InHand
  PROVE  Tasks \subseteq Pool /\ \A t \in Tasks : t \in Nat /\ t < M
<1>1. Tasks = 0 .. M - 1 /\ M \in 0 .. PoolSize /\ PoolSize \in Nat
  BY TasksAre, Numbers
<1>2. \A t \in Tasks : t \in Nat /\ t < M /\ t < PoolSize
  BY <1>1
<1> QED
  BY <1>2, PoolIs

\* A call of schedule changes nothing, or switches to a task that can run.
LEMMA ScheduleFact ==
  ASSUME IInv, NEW st \in [Pool -> {"running", "blocked", "zombie"}],
         schedule(st)
  PROVE  \/ UNCHANGED cpu
         \/ /\ current_task # Null
            /\ \E t \in Pool : /\ t # current_task /\ t < M
                               /\ st[t] = "running"
                               /\ do_switch(t)
<1>1. CASE current_task = Null
  BY <1>1 DEF schedule
<1>2. CASE current_task # Null
  <2>1. PICK n \in 1 .. PoolSize : \E p \in [1 .. n -> Pool] :
          /\ p[1] = next[current_task]
          /\ \A i \in 1 .. n - 1 : ~ LoopStops(st, p[i]) /\ p[i + 1] = next[p[i]]
          /\ LoopStops(st, p[n])
          /\ IF p[n] = current_task THEN UNCHANGED cpu ELSE do_switch(p[n])
    BY <1>2 DEF schedule
  <2>2. PICK p \in [1 .. n -> Pool] :
          /\ p[1] = next[current_task]
          /\ \A i \in 1 .. n - 1 : p[i + 1] = next[p[i]]
          /\ LoopStops(st, p[n])
          /\ IF p[n] = current_task THEN UNCHANGED cpu ELSE do_switch(p[n])
    BY <2>1
  <2>3. current_task \in Pool /\ PoolSize \in Nat
    BY <1>2, SizeAssumption DEF IInv, TypeOK
  <2>4. p[n] \in Pool /\ p[n] # Null
    BY <2>3 DEF Pool, Null
  <2>5. \E t \in Pool : p[n] = next[t]
    <3>1. CASE n = 1
      BY <2>2, <2>3, <3>1
    <3>2. CASE n # 1
      <4>1. n - 1 \in 1 .. n - 1 /\ (n - 1) + 1 = n /\ n - 1 \in 1 .. n
        BY <2>3, <3>2
      <4> QED
        BY <2>2, <4>1
    <3> QED
      BY <3>1, <3>2
  <2>6. p[n] < M
    BY <1>2, <2>4, <2>5 DEF IInv, NoWayOut
  <2> QED
    BY <1>2, <2>2, <2>4, <2>6 DEF LoopStops
<1> QED
  BY <1>1, <1>2

\* The same steps of schedule, as the invariant sees them: only the switch itself
\* matters, and after it nothing runs.
LEMMA ScheduleInv ==
  ASSUME IInv, ~ switched, NEW st \in [Pool -> {"running", "blocked", "zombie"}],
         schedule(st), state' \in [Pool -> {"running", "blocked", "zombie"}],
         UNCHANGED <<heads, pools, next, stack_base, pc, locals>>
  PROVE  IInv'
<1> USE DEF heads, pools, locals
<1>1. TypeOK /\ InHand /\ Shape /\ NoWayOut /\ Framed
  BY DEF IInv
<1>2. M' = M /\ Making' = Making
  BY DEF M, Making
<1>3. CASE UNCHANGED cpu
  <2>1. TypeOK'
    BY <1>1, <1>3 DEF TypeOK, cpu
  <2>2. InHand' /\ Shape' /\ NoWayOut' /\ Framed'
    BY <1>1, <1>2, <1>3 DEF InHand, Shape, NoWayOut, Framed, cpu
  <2> QED
    BY <2>1, <2>2 DEF IInv
<1>4. ASSUME current_task # Null, NEW t \in Pool, t < M, do_switch(t)
      PROVE  IInv'
  <2>1. /\ current_task' = t /\ switched' = TRUE /\ t # Null
        /\ stack_top' = [stack_top EXCEPT ![current_task] = "return address"]
    BY <1>4, PoolIs DEF do_switch
  <2>2. TypeOK'
    BY <1>1, <2>1 DEF TypeOK
  <2>3. InHand' /\ Shape' /\ NoWayOut' /\ Framed'
    BY <1>1, <1>2, <1>4, <2>1 DEF InHand, Shape, NoWayOut, Framed
  <2> QED
    BY <2>2, <2>3 DEF IInv
<1> QED
  BY <1>3, <1>4, ScheduleFact

LEMMA InitInv == Init => IInv
<1> SUFFICES ASSUME Init PROVE IInv
  OBVIOUS
<1> USE SizeAssumption DEF Init
<1>1. TypeOK
  <2>1. task_pool_idx \in 0 .. PoolSize /\ task_stack_idx \in 0 .. StackCount
    OBVIOUS
  <2>2. next \in [Pool \cup {Null} -> Pool \cup {Null}]
    BY PoolIs
  <2> QED
    BY <2>1, <2>2, PoolIs DEF TypeOK
<1>2. Making = FALSE /\ M = task_pool_idx
  BY DEF Making, M
<1>3. InHand
  BY <1>2 DEF InHand, Null
<1>4. Shape /\ NoWayOut /\ Framed
  BY <1>2 DEF Shape, NoWayOut, Framed, Pool, Null
<1> QED
  BY <1>1, <1>3, <1>4 DEF IInv

LEMMA AllocStackInv == ASSUME IInv, alloc_stack PROVE IInv'
<1> USE DEF heads, pools, fields, locals
<1>1. TypeOK /\ InHand /\ Shape /\ NoWayOut /\ Framed
  BY DEF IInv
<1>2. /\ pc = "idle" /\ pc' = "frame" /\ stack' = task_stack_idx
      /\ task_stack_idx' = task_stack_idx + 1 /\ task_stack_idx < StackCount
      /\ UNCHANGED <<current_task, heads, task_pool_idx, fields, switched, task>>
      /\ editing' \in BOOLEAN
  BY DEF alloc_stack
<1>3. Making = FALSE /\ Making' = FALSE /\ M' = M
  BY <1>2 DEF M, Making
<1>4. TypeOK'
  <2>1. task_stack_idx' \in 0 .. StackCount /\ stack' \in Stacks
    BY <1>1, <1>2, Numbers, PoolIs
  <2> QED
    BY <1>1, <1>2, <2>1 DEF TypeOK
<1>5. InHand'
  <2>1. stack' \in Stacks /\ stack' < task_stack_idx'
    BY <1>1, <1>2, Numbers, PoolIs
  <2> QED
    BY <1>1, <1>2, <1>3, <2>1 DEF InHand
<1>6. Shape' /\ NoWayOut' /\ Framed'
  BY <1>1, <1>2, <1>3 DEF Shape, NoWayOut, Framed
<1> QED
  BY <1>4, <1>5, <1>6 DEF IInv

LEMMA AllocTaskInv == ASSUME IInv, alloc_task PROVE IInv'
<1> USE DEF heads, pools, fields, locals
<1>1. TypeOK /\ InHand /\ Shape /\ NoWayOut /\ Framed
  BY DEF IInv
<1>2. /\ pc = "frame"
      /\ UNCHANGED <<current_task, heads, task_stack_idx, switched, stack, editing>>
  BY DEF alloc_task
<1>3. CASE pc' = "idle" /\ UNCHANGED <<task, task_pool_idx, fields>>
  <2>1. Making = FALSE /\ Making' = FALSE /\ M' = M
    BY <1>2, <1>3 DEF M, Making
  <2>2. TypeOK'
    BY <1>1, <1>2, <1>3 DEF TypeOK
  <2>3. InHand' /\ Shape' /\ NoWayOut' /\ Framed'
    BY <1>1, <1>2, <1>3, <2>1 DEF InHand, Shape, NoWayOut, Framed
  <2> QED
    BY <2>2, <2>3 DEF IInv
<1>4. CASE /\ task_pool_idx < PoolSize
           /\ task' = task_pool_idx
           /\ task_pool_idx' = task_pool_idx + 1
           /\ state' = [state EXCEPT ![task_pool_idx] = "running"]
           /\ next' = [next EXCEPT ![task_pool_idx] = Null]
           /\ stack_base' = [stack_base EXCEPT ![task_pool_idx] = Null]
           /\ stack_top' = [stack_top EXCEPT ![task_pool_idx] = "null"]
           /\ pc' = "fields"
  <2>1. Making = FALSE /\ Making' = TRUE /\ M = task_pool_idx /\ M' = M
    BY <1>1, <1>2, <1>4, Numbers DEF M, Making
  <2>2. task_pool_idx \in Pool /\ task_pool_idx # Null
    BY <1>1, <1>4, Numbers, PoolIs
  <2>3. TypeOK'
    <3>1. task_pool_idx' \in 0 .. PoolSize
      BY <1>1, <1>4, Numbers
    <3> QED
      BY <1>1, <1>2, <1>4, <2>2, <3>1 DEF TypeOK
  <2>4. InHand'
    BY <1>1, <1>2, <1>4, <2>1, <2>2, Numbers DEF InHand
  <2>5. Shape'
    <3>1. \A t \in 0 .. M - 1 : next'[t] = next[t]
      <4> SUFFICES ASSUME NEW t \in 0 .. M - 1 PROVE next'[t] = next[t]
        OBVIOUS
      <4>1. t \in Pool /\ t # task_pool_idx
        BY <1>1, <2>1, Numbers, PoolIs
      <4> QED
        BY <1>1, <1>4, <4>1, FieldTypes
    <3> QED
      BY <1>1, <1>2, <1>4, <2>1, <3>1, Numbers DEF Shape
  <2>6. NoWayOut'
    BY <1>1, <1>2, <1>4, <2>1, <2>2 DEF NoWayOut, TypeOK
  <2>7. Framed'
    <3>1. \A t \in 1 .. M - 1 : stack_top'[t] = stack_top[t]
      <4> SUFFICES ASSUME NEW t \in 1 .. M - 1 PROVE stack_top'[t] = stack_top[t]
        OBVIOUS
      <4>1. t \in Pool /\ t # task_pool_idx
        BY <1>1, <2>1, Numbers, PoolIs
      <4> QED
        BY <1>1, <1>4, <4>1, FieldTypes
    <3> QED
      BY <1>1, <1>2, <1>4, <2>1, <3>1 DEF Framed
  <2> QED
    BY <2>3, <2>4, <2>5, <2>6, <2>7 DEF IInv
<1> QED
  BY <1>3, <1>4 DEF alloc_task

LEMMA SetFieldsInv == ASSUME IInv, SetFields PROVE IInv'
<1> USE DEF heads, pools, locals
<1>1. TypeOK /\ InHand /\ Shape /\ NoWayOut /\ Framed
  BY DEF IInv
<1>2. /\ pc = "fields" /\ pc' = "next"
      /\ stack_top' = [stack_top EXCEPT ![task] = "frame"]
      /\ stack_base' = [stack_base EXCEPT ![task] = stack]
      /\ state' = [state EXCEPT ![task] = "running"]
      /\ UNCHANGED <<current_task, heads, pools, next, switched, locals>>
  BY DEF SetFields
<1>3. Making = TRUE /\ Making' = TRUE /\ M' = M /\ M = task_pool_idx - 1 /\ task = M
  BY <1>1, <1>2 DEF M, Making, InHand
<1>4. task \in Pool /\ stack \in Stacks
  BY <1>1, <1>2, Numbers, PoolIs DEF InHand, Making
<1>5. TypeOK'
  BY <1>1, <1>2, <1>4 DEF TypeOK
<1>6. InHand' /\ Shape' /\ NoWayOut'
  BY <1>1, <1>2, <1>3 DEF InHand, Shape, NoWayOut
<1>7. Framed'
  <2>1. \A t \in 1 .. M - 1 : stack_top'[t] = stack_top[t]
    <3> SUFFICES ASSUME NEW t \in 1 .. M - 1 PROVE stack_top'[t] = stack_top[t]
      OBVIOUS
    <3>1. t \in Pool /\ t # task
      BY <1>1, <1>3, Numbers, PoolIs
    <3> QED
      BY <1>1, <1>2, <3>1, FieldTypes
  <2>2. stack_top'[task] = "frame"
    BY <1>1, <1>2, <1>4, FieldTypes
  <2> QED
    BY <1>1, <1>2, <1>3, <2>1, <2>2 DEF Framed
<1> QED
  BY <1>5, <1>6, <1>7 DEF IInv

LEMMA LinkNextInv == ASSUME IInv, LinkNext PROVE IInv'
<1> USE DEF heads, pools, locals
<1>1. TypeOK /\ InHand /\ Shape /\ NoWayOut /\ Framed
  BY DEF IInv
<1>2. /\ pc = "next" /\ pc' = "link"
      /\ next' = [next EXCEPT ![task] = next[task_list]]
      /\ UNCHANGED <<current_task, heads, pools, state, stack_base, stack_top,
                     switched, locals>>
  BY DEF LinkNext
<1>3. Making = TRUE /\ Making' = TRUE /\ M' = M /\ M = task_pool_idx - 1 /\ task = M
  BY <1>1, <1>2 DEF M, Making, InHand
<1>4. task \in Pool /\ task # Null
  BY <1>1, <1>2, Numbers, PoolIs DEF InHand, Making
<1>5. TypeOK'
  BY <1>1, <1>2, <1>4 DEF TypeOK
<1>6. InHand' /\ Framed'
  BY <1>1, <1>2, <1>3 DEF InHand, Framed
<1>7. Shape'
  <2> SUFFICES ASSUME current_task # Null PROVE Shape'
    BY <1>2 DEF Shape
  <2>1. task_list = 0 /\ M >= 1 /\ next[0] = M - 1
    BY <1>1 DEF Shape
  <2>2. \A t \in 0 .. M - 1 : next'[t] = next[t]
    <3> SUFFICES ASSUME NEW t \in 0 .. M - 1 PROVE next'[t] = next[t]
      OBVIOUS
    <3>1. t \in Pool /\ t # task
      BY <1>1, <1>3, Numbers, PoolIs
    <3> QED
      BY <1>1, <1>2, <3>1, FieldTypes
  <2>3. next'[task] = M - 1
    BY <1>1, <1>2, <1>4, <2>1, FieldTypes
  <2> QED
    BY <1>1, <1>2, <1>3, <2>1, <2>2, <2>3, Numbers DEF Shape
<1>8. NoWayOut'
  <2> SUFFICES ASSUME current_task # Null, NEW t \in Pool, next'[t] # Null
               PROVE  next'[t] < M
    BY <1>2, <1>3 DEF NoWayOut
  <2>1. task_list \in Pool /\ task_list = 0
    BY <1>1, SizeAssumption DEF Shape, Pool
  <2>2. next'[t] = next[t] \/ next'[t] = next[task_list]
    BY <1>1, <1>2, <1>4 DEF TypeOK
  <2> QED
    BY <1>1, <2>1, <2>2 DEF NoWayOut
<1> QED
  BY <1>5, <1>6, <1>7, <1>8 DEF IInv

\* The new task enters the list: it is the newest, and task 0 leads to it.
LEMMA LinkTaskInv == ASSUME IInv, LinkTask PROVE IInv'
<1> USE DEF heads, pools, locals
<1>1. TypeOK /\ InHand /\ Shape /\ NoWayOut /\ Framed
  BY DEF IInv
<1>2. /\ pc = "link" /\ pc' \in {"wait", "idle"}
      /\ next' = [next EXCEPT ![task_list] = task]
      /\ UNCHANGED <<current_task, heads, pools, state, stack_base, stack_top,
                     switched, locals>>
  BY DEF LinkTask
<1>3. /\ Making = TRUE /\ Making' = FALSE /\ task = M /\ M' = M + 1
      /\ M = task_pool_idx - 1 /\ M \in Nat
  BY <1>1, <1>2, Numbers DEF M, Making, InHand
<1>4. task \in Pool /\ task # Null
  BY <1>1, <1>2, Numbers, PoolIs DEF InHand, Making
<1>5. TypeOK'
  BY <1>1, <1>2, <1>4 DEF TypeOK
<1>6. InHand'
  <2>1. foreground_task # Null => foreground_task < M + 1
    <3>1. foreground_task # Null => foreground_task \in Nat /\ foreground_task < M
      BY <1>1, FieldTypes, PoolIs DEF InHand
    <3> QED
      BY <1>3, <3>1
  <2> QED
    BY <1>1, <1>2, <1>3, <1>4, <2>1 DEF InHand
<1>7. Shape'
  <2> SUFFICES ASSUME current_task # Null PROVE Shape'
    BY <1>2 DEF Shape
  <2>1. task_list = 0 /\ M >= 1 /\ current_task < M /\ current_task \in Nat
    BY <1>1, FieldTypes, PoolIs DEF Shape
  <2>2. next'[0] = M
    BY <1>1, <1>2, <1>3, <2>1, FieldTypes, PoolIs
  <2>3. ASSUME NEW t \in 1 .. M PROVE next'[t] = t - 1
    <3>1. t \in Pool /\ t # 0
      BY <1>1, <1>3, Numbers, PoolIs
    <3>2. next'[t] = next[t]
      BY <1>1, <1>2, <2>1, <3>1, FieldTypes
    <3>3. next[t] = t - 1
      BY <1>1, <1>2, <1>3 DEF Shape
    <3> QED
      BY <3>2, <3>3
  <2> QED
    BY <1>2, <1>3, <2>1, <2>2, <2>3 DEF Shape
<1>8. NoWayOut'
  <2> SUFFICES ASSUME current_task # Null, NEW t \in Pool, next'[t] # Null
               PROVE  next'[t] < M + 1
    BY <1>2, <1>3 DEF NoWayOut
  <2>1. next'[t] = next[t] \/ next'[t] = task
    BY <1>1, <1>2 DEF TypeOK
  <2>2. next[t] \in Pool \cup {Null}
    BY <1>1 DEF TypeOK
  <2> QED
    BY <1>1, <1>3, <2>1, <2>2, SizeAssumption DEF NoWayOut, Pool, Null
<1>9. Framed'
  BY <1>1, <1>2, <1>3 DEF Framed
<1> QED
  BY <1>5, <1>6, <1>7, <1>8, <1>9 DEF IInv

\* What the other actions change is a state of a task, or nothing of the list.
LEMMA SetStateType ==
  ASSUME TypeOK, NEW t \in Pool, NEW s \in {"running", "blocked", "zombie"},
         SetState(t, s)
  PROVE  /\ state' \in [Pool -> {"running", "blocked", "zombie"}]
         /\ UNCHANGED <<heads, pools, next, stack_base, pc, locals>>
BY DEF TypeOK, SetState

LEMMA StateOnlyInv ==
  ASSUME IInv, state' \in [Pool -> {"running", "blocked", "zombie"}],
         UNCHANGED <<cpu, heads, pools, next, stack_base, pc, locals>>
  PROVE  IInv'
<1> USE DEF cpu, heads, pools, locals
<1>1. M' = M /\ Making' = Making
  BY DEF M, Making
<1>2. TypeOK'
  BY DEF IInv, TypeOK
<1>3. InHand' /\ Shape' /\ NoWayOut' /\ Framed'
  BY <1>1 DEF IInv, InHand, Shape, NoWayOut, Framed
<1> QED
  BY <1>2, <1>3 DEF IInv

LEMMA ForegroundInv ==
  ASSUME IInv, NEW t \in Tasks \cup {Null}, set_foreground_task(t)
  PROVE  IInv'
<1> USE DEF pools, fields, locals
<1>1. /\ pc = "idle" /\ foreground_task' = t
      /\ UNCHANGED <<current_task, task_list, pools, fields, switched, pc, locals>>
  BY DEF set_foreground_task
<1>2. M' = M /\ Making = FALSE /\ Making' = FALSE
  BY <1>1 DEF M, Making
<1>3. t \in Pool \cup {Null} /\ (t # Null => t < M)
  BY TasksAreInPool DEF IInv
<1>4. TypeOK'
  BY <1>1, <1>3 DEF IInv, TypeOK
<1>5. InHand' /\ Shape' /\ NoWayOut' /\ Framed'
  BY <1>1, <1>2, <1>3 DEF IInv, InHand, Shape, NoWayOut, Framed
<1> QED
  BY <1>4, <1>5 DEF IInv

\* Every step of main, of the timer and of the keyboard keeps the invariant.
LEMMA StepInv == IInv /\ [Next]_vars => IInv'
<1> SUFFICES ASSUME IInv, [Next]_vars PROVE IInv'
  OBVIOUS
<1>1. TypeOK /\ InHand
  BY DEF IInv
<1>2. Tasks \subseteq Pool
  BY <1>1, TasksAreInPool
<1>3. state \in [Pool -> {"running", "blocked", "zombie"}]
  BY <1>1 DEF TypeOK
<1>4. CASE Tick
  BY <1>3, <1>4, ScheduleInv DEF Tick
<1>5. CASE CtrlC
  <2>1. foreground_task \in Pool /\ SetState(foreground_task, "zombie") /\ UNCHANGED cpu
    BY <1>1, <1>5, FieldTypes DEF CtrlC
  <2> QED
    BY <1>1, <2>1, SetStateType, StateOnlyInv
<1>6. CASE Main
  <2>1. CASE yield
    BY <1>3, <1>6, <2>1, ScheduleInv DEF yield, Main
  <2> QED
    BY <1>6, <2>1, AllocTaskInv, SetFieldsInv, LinkNextInv, LinkTaskInv DEF Main
<1>7. CASE ~ switched /\ Calls
  <2>1. CASE NoStack
    BY <1>3, <2>1, StateOnlyInv
       DEF NoStack, vars, cpu, heads, pools, fields, locals
  <2>2. CASE alloc_stack
    BY <2>2, AllocStackInv
  <2>3. ASSUME NEW t \in Tasks \cup {Null}, set_foreground_task(t) PROVE IInv'
    BY <2>3, ForegroundInv
  <2>4. ASSUME NEW t \in Tasks, unblock(t) PROVE IInv'
    BY <1>1, <1>2, <2>4, SetStateType, StateOnlyInv DEF unblock
  <2>5. ASSUME NEW s \in {"blocked", "zombie"}, StopCurrent(s) PROVE IInv'
    <3>1. current_task \in Pool /\ SetState(current_task, s)
          /\ schedule([state EXCEPT ![current_task] = s])
      BY <1>1, <2>5, FieldTypes DEF StopCurrent
    <3>2. [state EXCEPT ![current_task] = s]
            \in [Pool -> {"running", "blocked", "zombie"}]
      BY <1>3, <3>1
    <3>3. /\ state' \in [Pool -> {"running", "blocked", "zombie"}]
          /\ UNCHANGED <<heads, pools, next, stack_base, pc, locals>>
      BY <1>1, <3>1, SetStateType
    <3> QED
      BY <1>7, <3>1, <3>2, <3>3, ScheduleInv
  <2> QED
    BY <1>7, <2>1, <2>2, <2>3, <2>4, <2>5 DEF Calls
<1>8. CASE UNCHANGED vars
  BY <1>3, <1>8, StateOnlyInv DEF vars, cpu, heads, pools, fields, locals
<1> QED
  BY <1>4, <1>5, <1>6, <1>7, <1>8 DEF Next

\* Every index stays in its pool, for every size of the pools.
THEOREM TypeCorrect == Spec => []TypeOK
<1>1. IInv => TypeOK
  BY DEF IInv
<1> QED
  BY <1>1, InitInv, StepInv, PTL DEF Spec

\* The first switch goes to a task on the list that can run and has its frame.
THEOREM SwitchIsSafe == Spec => SwitchToFrame
<1> DEFINE Safe(t) == t \in Tasks /\ state'[t] = "running" /\ stack_top[t] = "frame"
<1>1. ASSUME IInv, NEW st \in [Pool -> {"running", "blocked", "zombie"}],
             ~ switched, schedule(st), state' = st, current_task' # current_task
      PROVE  Safe(current_task')
  <2>1. PICK t \in Pool : /\ current_task # Null /\ t # current_task /\ t < M
                          /\ st[t] = "running" /\ current_task' = t
    BY <1>1, ScheduleFact DEF cpu, do_switch
  <2>2. t \in Tasks
    BY <1>1, <2>1, TasksAre, PoolIs DEF IInv
  <2>3. current_task = 0 /\ \A u \in 1 .. M - 1 : stack_top[u] = "frame"
    BY <1>1, <2>1 DEF IInv, Framed
  <2>4. t \in 1 .. M - 1
    <3>1. t \in Nat /\ t # 0
      BY <2>1, <2>3, PoolIs
    <3>2. M \in Nat
      BY <1>1, TasksAre, Numbers DEF IInv
    <3> QED
      BY <2>1, <3>1, <3>2
  <2> QED
    BY <1>1, <2>1, <2>2, <2>3, <2>4
<1>2. ASSUME IInv, [Next]_vars, current_task' # current_task
      PROVE  Safe(current_task')
  <2>1. TypeOK /\ state \in [Pool -> {"running", "blocked", "zombie"}]
    BY <1>2 DEF IInv, TypeOK
  <2>2. CASE Tick \/ (~ switched /\ yield)
    BY <1>1, <1>2, <2>1, <2>2 DEF Tick, yield
  <2>3. ASSUME NEW s \in {"blocked", "zombie"}, ~ switched, StopCurrent(s)
        PROVE  Safe(current_task')
    <3>1. current_task \in Pool
      BY <2>1, <2>3, FieldTypes DEF StopCurrent
    <3>2. [state EXCEPT ![current_task] = s]
            \in [Pool -> {"running", "blocked", "zombie"}]
      BY <2>1, <3>1
    <3> QED
      BY <1>1, <1>2, <2>3, <3>2 DEF StopCurrent, SetState
  <2>4. \/ Tick \/ (~ switched /\ yield)
        \/ \E s \in {"blocked", "zombie"} : ~ switched /\ StopCurrent(s)
    BY <1>2 DEF Next, CtrlC, Main, Calls, NoStack, alloc_stack, alloc_task,
       SetFields, LinkNext, LinkTask, set_foreground_task, unblock,
       vars, cpu
  <2> QED
    BY <2>2, <2>3, <2>4
<1>3. IInv /\ [Next]_vars =>
        [current_task' # current_task =>
           /\ current_task' \in Tasks
           /\ state'[current_task'] = "running"
           /\ stack_top[current_task'] = "frame"]_vars
  BY <1>2
<1> QED
  BY <1>3, InitInv, StepInv, PTL DEF Spec, SwitchToFrame

-----------------------------------------------------------------------------
\* From the current task the list goes down to task 0, then to the newest task
\* and down again to where it started.
LEMMA RingFromShape == IInv => RunListIsRing
<1> SUFFICES ASSUME IInv, current_task # Null
             PROVE  \E p \in [1 .. Cardinality(Tasks) -> Pool] :
                      /\ p[1] = next[current_task]
                      /\ \A i \in 1 .. Cardinality(Tasks) - 1 : p[i + 1] = next[p[i]]
                      /\ p[Cardinality(Tasks)] = current_task
                      /\ Range(p) = Tasks
  BY DEF RunListIsRing
<1>1. /\ M \in Nat /\ M >= 1 /\ M <= PoolSize /\ PoolSize \in Nat
      /\ Tasks = 0 .. M - 1
  BY TasksAre, Numbers DEF IInv, Shape
<1>2. current_task \in 0 .. M - 1
  <2>1. current_task \in Nat /\ current_task < M
    BY FieldTypes, PoolIs DEF IInv, Shape
  <2> QED
    BY <1>1, <2>1
<1>3. Cardinality(Tasks) = M
  BY <1>1, FS_Interval
<1>4. next[0] = M - 1 /\ \A t \in 1 .. M - 1 : next[t] = t - 1
  BY DEF IInv, Shape
<1> DEFINE c == current_task
           p == [i \in 1 .. M |-> IF i <= c THEN c - i ELSE c - i + M]
<1>5. \A i \in 1 .. M : p[i] \in 0 .. M - 1
  BY <1>1, <1>2
<1>6. \A t \in 0 .. M - 1 : t \in Pool
  BY <1>1, PoolIs
<1>7. p \in [1 .. M -> Pool]
  BY <1>5, <1>6
<1>8. p[1] = next[c]
  <2>1. CASE c = 0
    BY <1>1, <1>4, <2>1
  <2>2. CASE c # 0
    BY <1>1, <1>2, <1>4, <2>2
  <2> QED
    BY <2>1, <2>2
<1>9. ASSUME NEW i \in 1 .. M - 1 PROVE p[i + 1] = next[p[i]]
  <2>1. i \in 1 .. M /\ i + 1 \in 1 .. M /\ i \in Nat /\ c \in Nat
    BY <1>1, <1>2
  <2>2. CASE i = c
    <3>1. p[i] = 0 /\ p[i + 1] = M - 1
      BY <1>1, <2>1, <2>2
    <3> QED
      BY <1>4, <3>1
  <2>3. CASE i # c
    <3>1. p[i + 1] = p[i] - 1 /\ p[i] \in 1 .. M - 1
      BY <1>1, <1>2, <2>1, <2>3
    <3> QED
      BY <1>4, <3>1
  <2> QED
    BY <2>2, <2>3
<1>10. p[M] = c
  BY <1>1, <1>2
<1>11. Range(p) = Tasks
  <2>1. ASSUME NEW t \in Tasks PROVE \E i \in 1 .. M : p[i] = t
    <3>1. CASE t < c
      <4>1. c - t \in 1 .. M /\ p[c - t] = t
        BY <1>1, <1>2, <3>1
      <4> QED
        BY <4>1
    <3>2. CASE ~ (t < c)
      <4>1. c - t + M \in 1 .. M /\ p[c - t + M] = t
        BY <1>1, <1>2, <3>2
      <4> QED
        BY <4>1
    <3> QED
      BY <3>1, <3>2
  <2> QED
    BY <1>1, <1>5, <2>1 DEF Range
<1> QED
  BY <1>3, <1>7, <1>8, <1>9, <1>10, <1>11

\* Whenever the timer comes, the list is a ring of all tasks.
THEOREM RunListHolds == Spec => []RunListIsRing
BY InitInv, StepInv, RingFromShape, PTL DEF Spec

-----------------------------------------------------------------------------
(***************************************************************************)
(* What the stacks rest on: a task has a stack that was given out, and the *)
(* one that create_task holds in its hands belongs to no task yet.         *)
(***************************************************************************)
Held(s) == pc \in {"frame", "fields"} /\ s = stack

StackInv ==
  /\ \A t \in Pool : stack_base[t] # Null =>
       /\ t < task_pool_idx /\ stack_base[t] < task_stack_idx
       /\ ~ Held(stack_base[t])
  /\ \A t, u \in Pool : stack_base[t] # Null /\ stack_base[t] = stack_base[u] => t = u
  /\ \A s \in Stacks : s < task_stack_idx =>
       \/ task_pool_idx = PoolSize \/ Held(s)
       \/ \E t \in Pool : stack_base[t] = s
  /\ pc = "fields" => stack_base[task] = Null

LEMMA StackInit == Init => StackInv
<1> SUFFICES ASSUME Init PROVE StackInv
  OBVIOUS
<1>1. \A t \in Pool : stack_base[t] = Null
  BY DEF Init
<1>2. task_stack_idx = 0 /\ pc = "idle"
  BY DEF Init
<1>3. \A s \in Stacks : ~ (s < task_stack_idx)
  BY <1>2, PoolIs
<1> QED
  BY <1>1, <1>2, <1>3 DEF StackInv

LEMMA StackStep == IInv /\ StackInv /\ [Next]_vars => StackInv'
<1> SUFFICES ASSUME IInv, StackInv, [Next]_vars PROVE StackInv'
  OBVIOUS
<1> USE DEF pools, fields, locals
<1>1. TypeOK /\ InHand
  BY DEF IInv
<1>2. ASSUME UNCHANGED <<pools, stack_base, stack, task>>,
             pc' = pc \/ {pc, pc'} \cap {"frame", "fields"} = {}
      PROVE  StackInv'
  BY <1>2 DEF StackInv, Held
<1>3. CASE alloc_stack
  <2>1. /\ ~ (pc \in {"frame", "fields"}) /\ pc' = "frame" /\ stack' = task_stack_idx
        /\ task_stack_idx' = task_stack_idx + 1
        /\ task_pool_idx' = task_pool_idx /\ stack_base' = stack_base
    BY <1>3 DEF alloc_stack
  <2>2. task_stack_idx \in Nat /\ \A t \in Pool : stack_base[t] # Null => stack_base[t] \in Nat
    BY <1>1, Numbers, FieldTypes, PoolIs
  <2>3. \A t \in Pool : stack_base'[t] # Null =>
          /\ t < task_pool_idx' /\ stack_base'[t] < task_stack_idx'
          /\ stack_base'[t] # stack'
    BY <2>1, <2>2 DEF StackInv
  <2>4. ASSUME NEW s \in Stacks, s < task_stack_idx'
        PROVE  \/ task_pool_idx' = PoolSize \/ s = stack'
               \/ \E t \in Pool : stack_base'[t] = s
    <3>1. s < task_stack_idx \/ s = task_stack_idx
      BY <2>1, <2>2, <2>4, PoolIs
    <3> QED
      BY <2>1, <3>1 DEF StackInv, Held
  <2> QED
    BY <2>1, <2>3, <2>4 DEF StackInv, Held
<1>4. CASE alloc_task
  <2>1. pc = "frame" /\ UNCHANGED <<task_stack_idx, stack>>
    BY <1>4 DEF alloc_task
  <2>2. CASE /\ task_pool_idx >= PoolSize /\ pc' = "idle"
             /\ UNCHANGED <<task, task_pool_idx, fields>>
    <3>1. task_pool_idx = PoolSize
      BY <1>1, <2>2, Numbers
    <3> QED
      BY <2>1, <2>2, <3>1 DEF StackInv, Held
  <2>3. CASE /\ task_pool_idx < PoolSize /\ pc' = "fields"
             /\ task_pool_idx' = task_pool_idx + 1
             /\ stack_base' = [stack_base EXCEPT ![task_pool_idx] = Null]
    <3>1. task_pool_idx \in Pool /\ task_pool_idx \in Nat
      BY <1>1, <2>3, Numbers, PoolIs
    <3>2. stack_base[task_pool_idx] = Null
      BY <3>1 DEF StackInv
    <3>3. stack_base' = stack_base
      BY <1>1, <2>3, <3>1, <3>2, FieldTypes
    <3>4. \A t \in Pool : t < task_pool_idx => t < task_pool_idx'
      BY <2>3, <3>1, PoolIs
    <3>5. task_pool_idx # PoolSize
      BY <1>1, <2>3, Numbers
    <3>6. stack_base'[task'] = Null
      BY <1>4, <2>3, <3>2, <3>3 DEF alloc_task
    <3> QED
      BY <2>1, <2>3, <3>3, <3>4, <3>5, <3>6 DEF StackInv, Held
  <2> QED
    BY <1>4, <2>2, <2>3 DEF alloc_task
<1>5. CASE SetFields
  <2>1. /\ pc = "fields" /\ pc' = "next"
        /\ stack_base' = [stack_base EXCEPT ![task] = stack]
        /\ UNCHANGED <<pools, locals>>
    BY <1>5 DEF SetFields
  <2>2. task < task_pool_idx /\ task \in Pool /\ stack \in Stacks /\ stack < task_stack_idx
    BY <1>1, <2>1, Numbers, PoolIs DEF InHand, Making
  <2>3. /\ stack_base'[task] = stack
        /\ \A t \in Pool : t # task => stack_base'[t] = stack_base[t]
    BY <1>1, <2>1, <2>2, FieldTypes
  <2>4. stack_base[task] = Null
    BY <2>1 DEF StackInv
  <2>5. \A t \in Pool : stack_base[t] # Null => stack_base[t] # stack
    BY <2>1 DEF StackInv, Held
  <2>6. \A t \in Pool : stack_base'[t] # Null =>
          /\ t < task_pool_idx' /\ stack_base'[t] < task_stack_idx' /\ ~ Held(stack_base[t])'
    BY <2>1, <2>2, <2>3 DEF StackInv, Held
  <2>7. \A t, u \in Pool :
          stack_base'[t] # Null /\ stack_base'[t] = stack_base'[u] => t = u
    <3> SUFFICES ASSUME NEW t \in Pool, NEW u \in Pool,
                        stack_base'[t] # Null, stack_base'[t] = stack_base'[u]
                 PROVE  t = u
      OBVIOUS
    <3>1. CASE t = task \/ u = task
      BY <2>2, <2>3, <2>5, <3>1, PoolIs
    <3>2. CASE t # task /\ u # task
      BY <2>3, <3>2 DEF StackInv
    <3> QED
      BY <3>1, <3>2
  <2>8. ASSUME NEW s \in Stacks, s < task_stack_idx'
        PROVE  task_pool_idx' = PoolSize \/ \E t \in Pool : stack_base'[t] = s
    <3>1. CASE s = stack
      BY <2>2, <2>3, <3>1
    <3>2. CASE s # stack
      <4>1. s # Null
        BY PoolIs
      <4> QED
        BY <2>1, <2>2, <2>3, <2>4, <2>8, <3>2, <4>1 DEF StackInv, Held
    <3> QED
      BY <3>1, <3>2
  <2> QED
    BY <2>1, <2>6, <2>7, <2>8 DEF StackInv, Held
<1>6. \/ alloc_stack \/ alloc_task \/ SetFields
      \/ /\ UNCHANGED <<pools, stack_base, stack, task>>
         /\ pc' = pc \/ {pc, pc'} \cap {"frame", "fields"} = {}
  <2>1. CASE LinkTask
    BY <2>1 DEF LinkTask
  <2>2. CASE LinkNext \/ NoStack \/ UNCHANGED vars
    BY <2>2 DEF LinkNext, NoStack, vars
  <2>3. CASE Tick \/ yield
    BY <2>3 DEF Tick, yield
  <2>4. CASE CtrlC \/ (\E t \in Tasks : unblock(t))
               \/ (\E s \in {"blocked", "zombie"} : StopCurrent(s))
    BY <2>4 DEF CtrlC, unblock, StopCurrent, SetState
  <2>5. CASE \E t \in Tasks \cup {Null} : set_foreground_task(t)
    BY <2>5 DEF set_foreground_task
  <2> QED
    BY <2>1, <2>2, <2>3, <2>4, <2>5 DEF Next, Main, Calls
<1> QED
  BY <1>2, <1>3, <1>4, <1>5, <1>6

\* No two tasks share a stack, and a stack is lost only when the tasks are used up.
THEOREM StacksAreAccounted == Spec => []StacksAccounted
<1>1. ASSUME IInv, StackInv PROVE StacksAccounted
  <2> DEFINE owners(s) == {t \in 0 .. task_pool_idx - 1 : stack_base[t] = s}
  <2>1. ASSUME NEW s \in Stacks
        PROVE  /\ s # Null
               /\ \A t \in owners(s) : t \in Pool /\ stack_base[t] = s
               /\ \A t \in Pool : stack_base[t] = s => t \in owners(s)
    <3>1. s # Null /\ task_pool_idx \in Nat /\ task_pool_idx <= PoolSize
          /\ PoolSize \in Nat
      BY <1>1, Numbers, PoolIs DEF IInv
    <3>2. \A t \in 0 .. task_pool_idx - 1 : t \in Pool
      BY <3>1, PoolIs
    <3>3. \A t \in Pool : t < task_pool_idx => t \in 0 .. task_pool_idx - 1
      BY <3>1, PoolIs
    <3> QED
      BY <1>1, <3>1, <3>2, <3>3 DEF StackInv
  <2> HIDE DEF owners
  <2>2. ASSUME NEW s \in Stacks
        PROVE  /\ \A t, u \in owners(s) : t = u
               /\ owners(s) # {} => s < task_stack_idx
               /\ s < task_stack_idx /\ owners(s) = {} =>
                    task_pool_idx = PoolSize
                    \/ (pc \in {"frame", "fields"} /\ s = stack)
    BY <1>1, <2>1 DEF StackInv, Held
  <2> QED
    BY <2>2 DEF StacksAccounted, owners
<1> QED
  BY <1>1, InitInv, StepInv, StackInit, StackStep, PTL DEF Spec

-----------------------------------------------------------------------------
(* The wait of edit. *)

\* The task that is being made is not the foreground task, nothing has stopped it,
\* and without a scheduler there is no foreground task at all.
WaitInv ==
  /\ Making \/ pc = "wait" => task \in Pool /\ foreground_task # task
  /\ pc \in {"next", "link", "wait"} => state[task] = "running"
  /\ current_task = Null => foreground_task = Null

LEMMA WaitInit == Init => WaitInv
BY DEF Init, WaitInv, Making

\* schedule moves current_task between tasks, if there are any.
LEMMA ScheduleKeepsNull ==
  ASSUME IInv, NEW st \in [Pool -> {"running", "blocked", "zombie"}], schedule(st)
  PROVE  /\ current_task' = Null <=> current_task = Null
         /\ current_task = Null => UNCHANGED cpu
<1>1. CASE current_task = Null
  BY <1>1 DEF schedule, cpu
<1>2. CASE current_task # Null
  BY <1>2, ScheduleFact, PoolIs DEF cpu, do_switch
<1> QED
  BY <1>1, <1>2

LEMMA WaitStep == IInv /\ WaitInv /\ [Next]_vars => WaitInv'
<1> SUFFICES ASSUME IInv, WaitInv, [Next]_vars PROVE WaitInv'
  OBVIOUS
<1> USE DEF heads, pools, fields, locals
<1>1. TypeOK /\ InHand /\ state \in [Pool -> {"running", "blocked", "zombie"}]
  BY DEF IInv, TypeOK
<1>2. CASE Tick \/ yield
  <2>1. current_task' = Null <=> current_task = Null
    BY <1>1, <1>2, ScheduleKeepsNull DEF Tick, yield
  <2>2. UNCHANGED <<heads, state, pc, locals>>
    BY <1>2 DEF Tick, yield
  <2> QED
    BY <2>1, <2>2 DEF WaitInv, Making
<1>3. CASE CtrlC
  <2>1. /\ state' = [state EXCEPT ![foreground_task] = "zombie"]
        /\ UNCHANGED <<current_task, heads, pc, locals>>
    BY <1>3 DEF CtrlC, SetState, cpu
  <2> QED
    BY <1>1, <2>1 DEF WaitInv, Making
<1>4. CASE alloc_task
  <2>1. /\ UNCHANGED <<current_task, heads>>
        /\ \/ pc' = "idle"
           \/ /\ pc = "frame" /\ pc' = "fields" /\ task' = task_pool_idx
              /\ task_pool_idx < PoolSize
    BY <1>4 DEF alloc_task
  <2>2. CASE pc' = "idle"
    BY <2>1, <2>2 DEF WaitInv, Making
  <2>3. CASE /\ pc = "frame" /\ pc' = "fields" /\ task' = task_pool_idx
             /\ task_pool_idx < PoolSize
    <3>1. task_pool_idx \in Pool /\ foreground_task # task_pool_idx
      BY <1>1, <2>3, Numbers, PoolIs DEF InHand, M, Making
    <3> QED
      BY <2>1, <2>3, <3>1 DEF WaitInv, Making
  <2> QED
    BY <2>1, <2>2, <2>3
<1>5. CASE SetFields
  <2>1. /\ pc = "fields" /\ pc' = "next"
        /\ state' = [state EXCEPT ![task] = "running"]
        /\ UNCHANGED <<current_task, heads, locals>>
    BY <1>5 DEF SetFields
  <2> QED
    BY <1>1, <2>1 DEF WaitInv, Making
<1>6. CASE LinkNext \/ LinkTask
  <2>1. /\ pc \in {"next", "link"}
        /\ UNCHANGED <<current_task, heads, state, locals>>
    BY <1>6 DEF LinkNext, LinkTask
  <2>2. pc' \in {"link", "wait", "idle"}
    BY <1>6 DEF LinkNext, LinkTask
  <2> QED
    BY <2>1, <2>2 DEF WaitInv, Making
<1>7. CASE UNCHANGED vars
  BY <1>7 DEF WaitInv, Making, vars
<1>8. CASE Calls
  <2>1. CASE NoStack
    BY <1>7, <2>1 DEF NoStack
  <2>2. CASE alloc_stack
    <3>1. pc' = "frame" /\ UNCHANGED <<current_task, heads>>
      BY <2>2 DEF alloc_stack
    <3> QED
      BY <3>1 DEF WaitInv, Making
  <2>3. ASSUME NEW t \in Tasks \cup {Null}, set_foreground_task(t) PROVE WaitInv'
    <3>1. pc' = "idle" /\ current_task' # Null
      BY <2>3 DEF set_foreground_task
    <3> QED
      BY <3>1 DEF WaitInv, Making
  <2>4. ASSUME NEW t \in Tasks, unblock(t) PROVE WaitInv'
    <3>1. pc' = "idle" /\ current_task' # Null
      BY <2>4 DEF unblock, SetState, cpu
    <3> QED
      BY <3>1 DEF WaitInv, Making
  <2>5. ASSUME NEW s \in {"blocked", "zombie"}, StopCurrent(s) PROVE WaitInv'
    <3>1. /\ pc' = "idle" /\ current_task # Null
          /\ schedule([state EXCEPT ![current_task] = s])
      BY <2>5 DEF StopCurrent, SetState
    <3>2. [state EXCEPT ![current_task] = s]
            \in [Pool -> {"running", "blocked", "zombie"}]
      BY <1>1, <3>1, FieldTypes
    <3>3. current_task' # Null
      BY <3>1, <3>2, ScheduleKeepsNull
    <3> QED
      BY <3>1, <3>3 DEF WaitInv, Making
  <2> QED
    BY <1>8, <2>1, <2>2, <2>3, <2>4, <2>5 DEF Calls
<1> QED
  BY <1>2, <1>3, <1>4, <1>5, <1>6, <1>7, <1>8 DEF Next, Main

\* Whatever runs meanwhile, the task that edit waits for is never a zombie, and
\* without a scheduler nothing happens any more.
THEOREM EditNeverReturns == Spec => EditWaits
<1>1. ASSUME IInv, WaitInv, WaitInv', Next, ~ UNCHANGED vars
      PROVE  /\ pc' = "wait" => state'[task'] = "running"
             /\ pc = "wait" => current_task # Null
  <2>1. pc' = "wait" => state'[task'] = "running"
    BY <1>1 DEF WaitInv
  <2>2. ASSUME pc = "wait", current_task = Null PROVE FALSE
    <3>1. Tick \/ yield
      BY <1>1, <2>2 DEF Next, Main, CtrlC, Calls, WaitInv, NoStack, alloc_stack,
         alloc_task, SetFields, LinkNext, LinkTask, set_foreground_task, unblock,
         StopCurrent
    <3>2. UNCHANGED <<cpu, heads, pools, state, next, stack_base, pc, locals>>
      <4>1. state \in [Pool -> {"running", "blocked", "zombie"}]
        BY <1>1 DEF IInv, TypeOK
      <4> QED
        BY <1>1, <2>2, <3>1, <4>1, ScheduleKeepsNull DEF Tick, yield
    <3> QED
      BY <1>1, <3>2 DEF vars, cpu, fields
  <2> QED
    BY <2>1, <2>2
<1>2. IInv /\ WaitInv /\ WaitInv' /\ [Next]_vars =>
        [/\ pc' = "wait" => state'[task'] = "running"
         /\ pc = "wait" => current_task # Null]_vars
  BY <1>1
<1> QED
  BY <1>2, InitInv, StepInv, WaitInit, WaitStep, PTL DEF Spec, EditWaits
=============================================================================
