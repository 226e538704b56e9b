------------------------------ MODULE KeyQueue ------------------------------
(* What the keyboard ring promises: a bounded queue of characters that drops   *)
(* what comes while it is full.                                                *)
EXTENDS Naturals, Sequences

CONSTANTS Chars, Capacity

VARIABLE queue

Init == queue = <<>>

Push(c) == Len(queue) < Capacity /\ queue' = Append(queue, c)

Pop == queue # <<>> /\ queue' = Tail(queue)

Next == (\E c \in Chars : Push(c)) \/ Pop

Spec == Init /\ [][Next]_queue
=============================================================================
