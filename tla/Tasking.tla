------------------------------ MODULE Tasking ------------------------------
(***************************************************************************)
(* The tasks of the kernel (kernel/src/task.cpp) and the two clients they  *)
(* have: the timer, whose interrupt calls schedule between any two steps,  *)
(* and cmd_edit of the shell (tsh.cpp).  The kernel calls no               *)
(* Tasking::init; both the kernel as built and one that has called it are  *)
(* initial states.                                                         *)
(*                                                                         *)
(* The model ends at the first switch.  The frame that create_task builds  *)
(* has 0x08 for cs, which in the GDT of boot.asm is the 32-bit segment     *)
(* (the kernel runs in 0x18), so what the CPU does next is not the task.   *)
(***************************************************************************)
EXTENDS Integers, Functions, FiniteSets

CONSTANTS
  PoolSize,       \* entries of task_pool (16)
  StackCount      \* entries of task_stacks (16)

ASSUME SizeAssumption == PoolSize \in Nat \ {0} /\ StackCount \in Nat

Null == -1                        \* nullptr
Pool == 0 .. PoolSize - 1
Stacks == 0 .. StackCount - 1

VARIABLES
  current_task, task_list,       \* entries of the pool, or Null
  foreground_task,
  task_pool_idx, task_stack_idx, \* entries given out
  state,                         \* Task::state
  next,                          \* Task::next; [Null] is the word at address 40
  stack_base,                    \* Task::stack_base, an entry of task_stacks
  stack_top,                     \* what Task::stack_top points at
  switched,                      \* do_switch has run
  pc,                            \* where main is
  stack, task,                   \* create_task: its locals
  editing                        \* create_task was called by cmd_edit

heads == <<task_list, foreground_task>>
pools == <<task_pool_idx, task_stack_idx>>
fields == <<state, next, stack_base, stack_top>>
cpu == <<current_task, stack_top, switched>>
locals == <<stack, task, editing>>
vars == <<current_task, heads, pools, fields, switched, pc, locals>>

\* The tasks that create_task or init has returned.
Tasks == {t \in 0 .. task_pool_idx - 1 :
            pc \in {"fields", "next", "link"} => t # task}

-----------------------------------------------------------------------------
\* Nothing has been called, or init has made the running program task 0.
Init ==
  /\ \/ current_task = Null /\ task_list = Null /\ task_pool_idx = 0
     \/ current_task = 0 /\ task_list = 0 /\ task_pool_idx = 1
  /\ next = [t \in Pool \cup {Null} |->
               IF t = 0 /\ task_pool_idx = 1 THEN 0 ELSE Null]
  /\ foreground_task = Null
  /\ task_stack_idx = 0
  /\ state = [t \in Pool |-> "running"]
  /\ stack_base = [t \in Pool |-> Null]
  /\ stack_top = [t \in Pool |-> "null"]
  /\ switched = FALSE
  /\ pc = "idle"
  /\ stack = Null /\ task = Null /\ editing = FALSE

-----------------------------------------------------------------------------
(* schedule, with interrupts off. *)

\* do_switch: the old stack top is the return address of the call, the new one
\* is taken for a frame.
do_switch(t) ==
  /\ current_task' = t
  /\ stack_top' = [stack_top EXCEPT ![current_task] = "return address"]
  /\ switched' = TRUE

\* Mutant: the loop passes over blocked tasks only.
LoopStops_Zombie(st, t) == t = current_task \/ st[t] # "blocked"

LoopStops(st, t) == t = current_task \/ st[t] = "running"

\* Follows next from the current task, up to the first task to run or round to
\* itself.
schedule(st) ==
  IF current_task = Null THEN UNCHANGED cpu
  ELSE \E n \in 1 .. PoolSize : \E p \in [1 .. n -> Pool] :
         /\ p[1] = next[current_task]
         /\ \A i \in 1 .. n - 1 : ~ LoopStops(st, p[i]) /\ p[i + 1] = next[p[i]]
         /\ LoopStops(st, p[n])
         /\ IF p[n] = current_task THEN UNCHANGED cpu ELSE do_switch(p[n])

\* irq32: the timer interrupts main anywhere.
Tick ==
  /\ ~ switched
  /\ schedule(state)
  /\ UNCHANGED <<heads, pools, state, next, stack_base, pc, locals>>

-----------------------------------------------------------------------------
(* create_task, one step for each thing that is taken or linked. *)

NoStack == pc = "idle" /\ task_stack_idx >= StackCount /\ UNCHANGED vars

\* Mutant: the limit is not tested.
alloc_stack_NoLimit ==
  /\ pc = "idle"
  /\ stack' = task_stack_idx
  /\ task_stack_idx' = task_stack_idx + 1
  /\ pc' = "frame"
  /\ editing' \in IF current_task = Null THEN {TRUE} ELSE BOOLEAN
  /\ UNCHANGED <<current_task, heads, task_pool_idx, fields, switched, task>>

\* Mutant: the stack is not marked as taken.
alloc_stack_Shared ==
  /\ pc = "idle" /\ task_stack_idx < StackCount
  /\ stack' = task_stack_idx
  /\ pc' = "frame"
  /\ editing' \in IF current_task = Null THEN {TRUE} ELSE BOOLEAN
  /\ UNCHANGED <<current_task, heads, pools, fields, switched, task>>

\* In the kernel as built only cmd_edit creates tasks.
alloc_stack ==
  /\ pc = "idle" /\ task_stack_idx < StackCount
  /\ stack' = task_stack_idx
  /\ task_stack_idx' = task_stack_idx + 1
  /\ pc' = "frame"
  /\ editing' \in IF current_task = Null THEN {TRUE} ELSE BOOLEAN
  /\ UNCHANGED <<current_task, heads, task_pool_idx, fields, switched, task>>

\* The frame is built; without a free entry the stack is not given back.
alloc_task ==
  /\ pc = "frame"
  /\ \/ /\ task_pool_idx >= PoolSize
        /\ pc' = "idle"
        /\ UNCHANGED <<task, task_pool_idx, fields>>
     \/ /\ task_pool_idx < PoolSize
        /\ task' = task_pool_idx
        /\ task_pool_idx' = task_pool_idx + 1
        /\ state' = [state EXCEPT ![task_pool_idx] = "running"]
        /\ next' = [next EXCEPT ![task_pool_idx] = Null]
        /\ stack_base' = [stack_base EXCEPT ![task_pool_idx] = Null]
        /\ stack_top' = [stack_top EXCEPT ![task_pool_idx] = "null"]
        /\ pc' = "fields"
  /\ UNCHANGED <<current_task, heads, task_stack_idx, switched,
                 stack, editing>>

\* Mutant: a new task has to be unblocked first.
SetFields_Blocked ==
  /\ pc = "fields"
  /\ stack_top' = [stack_top EXCEPT ![task] = "frame"]
  /\ stack_base' = [stack_base EXCEPT ![task] = stack]
  /\ state' = [state EXCEPT ![task] = "blocked"]
  /\ pc' = "next"
  /\ UNCHANGED <<current_task, heads, pools, next, switched, locals>>

SetFields ==
  /\ pc = "fields"
  /\ stack_top' = [stack_top EXCEPT ![task] = "frame"]
  /\ stack_base' = [stack_base EXCEPT ![task] = stack]
  /\ state' = [state EXCEPT ![task] = "running"]
  /\ pc' = "next"
  /\ UNCHANGED <<current_task, heads, pools, next, switched, locals>>

\* Mutant: the two links are set in the other order.
LinkNext_Swapped ==
  /\ pc = "next"
  /\ next' = [next EXCEPT ![task_list] = task]
  /\ pc' = "link"
  /\ UNCHANGED <<current_task, heads, pools, state,
                 stack_base, stack_top, switched, locals>>

\* task->next = task_list->next, address 40 when task_list is null.
LinkNext ==
  /\ pc = "next"
  /\ next' = [next EXCEPT ![task] = next[task_list]]
  /\ pc' = "link"
  /\ UNCHANGED <<current_task, heads, pools, state,
                 stack_base, stack_top, switched, locals>>

\* Mutant: cmd_edit makes its task the foreground task.
LinkTask_Foreground ==
  /\ pc = "link"
  /\ next' = [next EXCEPT ![task_list] = task]
  /\ foreground_task' = IF editing THEN task ELSE foreground_task
  /\ pc' = IF editing THEN "wait" ELSE "idle"
  /\ UNCHANGED <<current_task, task_list, pools, state,
                 stack_base, stack_top, switched, locals>>

\* task_list->next = task, and create_task returns.
LinkTask ==
  /\ pc = "link"
  /\ next' = [next EXCEPT ![task_list] = task]
  /\ pc' = IF editing THEN "wait" ELSE "idle"
  /\ UNCHANGED <<current_task, heads, pools, state,
                 stack_base, stack_top, switched, locals>>

-----------------------------------------------------------------------------
(* cmd_edit, which yields while its task is no zombie.  The end of the loop   *)
(* has no action: EditWaits says that its condition never comes true.         *)

yield ==
  /\ pc = "wait" /\ state[task] # "zombie"
  /\ schedule(state)
  /\ UNCHANGED <<heads, pools, state, next, stack_base, pc, locals>>

-----------------------------------------------------------------------------
(* What else a kernel with tasks may call. *)

set_foreground_task(t) ==
  /\ pc = "idle" /\ current_task # Null
  /\ foreground_task' = t
  /\ UNCHANGED <<current_task, task_list, pools, fields, switched, pc, locals>>

SetState(t, s) ==
  /\ state' = [state EXCEPT ![t] = s]
  /\ UNCHANGED <<heads, pools, next, stack_base, pc, locals>>

\* irq1_handler on Ctrl+C: kill_task, between any two steps of main.
CtrlC ==
  /\ ~ switched /\ foreground_task # Null
  /\ SetState(foreground_task, "zombie")
  /\ UNCHANGED cpu

unblock(t) ==
  /\ pc = "idle" /\ current_task # Null
  /\ SetState(t, "running")
  /\ UNCHANGED cpu

\* block_current and exit_current return to the caller when no task can run.
StopCurrent(s) ==
  /\ pc = "idle" /\ current_task # Null
  /\ SetState(current_task, s)
  /\ schedule([state EXCEPT ![current_task] = s])

Main ==
  /\ ~ switched
  /\ alloc_task \/ SetFields \/ LinkNext \/ LinkTask \/ yield

Calls ==
  \/ NoStack
  \/ alloc_stack
  \/ \E t \in Tasks \cup {Null} : set_foreground_task(t)
  \/ \E t \in Tasks : unblock(t)
  \/ \E s \in {"blocked", "zombie"} : StopCurrent(s)

Next == Tick \/ CtrlC \/ Main \/ (~ switched /\ Calls)

Spec == Init /\ [][Next]_vars

-----------------------------------------------------------------------------
(* Properties. *)

\* Every variable has its type, and neither pool gives out more than it has.
TypeOK ==
  /\ current_task \in Pool \cup {Null} /\ task_list \in Pool \cup {Null}
  /\ foreground_task \in Pool \cup {Null}
  /\ task_pool_idx \in 0 .. PoolSize /\ task_stack_idx \in 0 .. StackCount
  /\ state \in [Pool -> {"running", "blocked", "zombie"}]
  /\ next \in [Pool \cup {Null} -> Pool \cup {Null}]
  /\ stack_base \in [Pool -> Stacks \cup {Null}]
  /\ stack_top \in [Pool -> {"null", "frame", "return address"}]
  /\ pc \in {"idle", "frame", "fields", "next", "link", "wait"}
  /\ switched \in BOOLEAN
  /\ stack \in Stacks \cup {Null} /\ task \in Pool \cup {Null}
  /\ editing \in BOOLEAN

\* Whenever the timer comes, in the middle of create_task too, the loop of
\* schedule gets back to where it started, and on the way it passes every task
\* that create_task has returned and no other.
RunListIsRing ==
  current_task # Null =>
    \E p \in [1 .. Cardinality(Tasks) -> Pool] :
      /\ p[1] = next[current_task]
      /\ \A i \in 1 .. Cardinality(Tasks) - 1 : p[i + 1] = next[p[i]]
      /\ p[Cardinality(Tasks)] = current_task
      /\ Range(p) = Tasks

\* No two tasks share a stack, and a stack is lost (create_task takes it before
\* it finds that there is no task) only when every task is in use.
StacksAccounted ==
  LET owners(s) == {t \in 0 .. task_pool_idx - 1 : stack_base[t] = s} IN
  \A s \in Stacks :
    /\ \A t, u \in owners(s) : t = u
    /\ owners(s) # {} => s < task_stack_idx
    /\ s < task_stack_idx /\ owners(s) = {} =>
         task_pool_idx = PoolSize \/ (pc \in {"frame", "fields"} /\ s = stack)

\* A switch goes to a task that create_task has returned, that is neither
\* blocked nor a zombie, and whose stack top is the frame do_switch expects.
SwitchToFrame ==
  [][current_task' # current_task =>
       /\ current_task' \in Tasks
       /\ state'[current_task'] = "running"
       /\ stack_top[current_task'] = "frame"]_vars

\* Nothing ends the wait of edit: its task is not the foreground task, so Ctrl+C
\* never makes it a zombie, and without a scheduler neither the yield nor the timer
\* nor a key changes anything any more, so the shell does not come back.
EditWaits ==
  [][/\ pc' = "wait" => state'[task'] = "running"
     /\ pc = "wait" => current_task # Null]_vars
=============================================================================
