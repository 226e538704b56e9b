-------------------------------- MODULE Pmm --------------------------------
(***************************************************************************)
(* The physical page allocator (kernel/src/pmm.cpp): a bitmap with one bit *)
(* a page, set when the page is taken, and a byte counter kept beside it.  *)
(* free_page does not ask who calls: memory is put at the allocator's      *)
(* disposal by freeing pages that nobody allocated.  Its clients are       *)
(* modelled by the pages they hold; they may free any page, held or not,   *)
(* that is not locked.                                                     *)
(***************************************************************************)
EXTENDS Naturals, FiniteSetsExt

CONSTANTS
  max_pages,      \* total_memory / PAGE_SIZE
  PAGE_SIZE

ASSUME SizeAssumption ==
  max_pages \in Nat \ {0} /\ PAGE_SIZE \in Nat \ {0}

Pages == 0 .. max_pages - 1
NULL == 0                        \* nullptr, and the address of page 0
total_memory == max_pages * PAGE_SIZE

VARIABLES
  set,            \* pages whose bit is set
  free_memory,
  lock_at,        \* pmm_lock_pages: next page of the loop
  lock_end,       \* and the one after its last; equal outside the call
  locked,         \* pages passed to pmm_lock_pages so far
  held            \* pages the clients hold

vars == <<set, free_memory, lock_at, lock_end, locked, held>>

-----------------------------------------------------------------------------
\* The loop of pmm_init writes max_pages / 8 whole bytes; the bits of an
\* incomplete last byte keep what the memory held.
WholeBytes == {p \in Pages : p < 8 * (max_pages \div 8)}

\* pmm_init
Init ==
  /\ set \in {WholeBytes \cup s : s \in SUBSET (Pages \ WholeBytes)}
  /\ free_memory = total_memory
  /\ lock_at = 0 /\ lock_end = 0
  /\ locked = {} /\ held = {}

\* pmm_lock_pages(addr, count), whose loop is one step per page.  kernel.cpp
\* calls it once, before there are clients.
LockCall(start, end) ==
  /\ lock_at = lock_end
  /\ locked = {} /\ held = {}
  /\ lock_at' = start
  /\ lock_end' = end
  /\ UNCHANGED <<set, free_memory, locked, held>>

\* Mutant: the counter is lowered for pages that were taken already.
LockPage_Always ==
  /\ lock_at < lock_end
  /\ set' = set \cup {lock_at}
  /\ free_memory' = free_memory - PAGE_SIZE
  /\ lock_at' = lock_at + 1
  /\ locked' = locked \cup {lock_at}
  /\ UNCHANGED <<lock_end, held>>

\* Mutant: the counter is lowered but the bit is not set.
LockPage_NoSet ==
  /\ lock_at < lock_end
  /\ free_memory' = free_memory - PAGE_SIZE
  /\ lock_at' = lock_at + 1
  /\ locked' = locked \cup {lock_at}
  /\ UNCHANGED <<set, lock_end, held>>

LockPage ==
  /\ lock_at < lock_end
  /\ IF lock_at \in set
     THEN UNCHANGED <<set, free_memory>>
     ELSE /\ set' = set \cup {lock_at}
          /\ free_memory' = free_memory - PAGE_SIZE
  /\ lock_at' = lock_at + 1
  /\ locked' = locked \cup {lock_at}
  /\ UNCHANGED <<lock_end, held>>

\* Mutant: the bit of the page found is not set.
alloc_page_NoSet ==
  /\ lock_at = lock_end
  /\ Pages \ set # {}
  /\ free_memory' = free_memory - PAGE_SIZE
  /\ held' = held \cup {Min(Pages \ set)}
  /\ UNCHANGED <<set, lock_at, lock_end, locked>>

\* The first page whose bit is clear, or nullptr.  A client cannot tell page 0
\* from nullptr: it does not hold it.
alloc_page ==
  /\ lock_at = lock_end
  /\ \/ /\ Pages \subseteq set
        /\ UNCHANGED <<set, free_memory, held>>
     \/ /\ ~ (Pages \subseteq set)
        /\ LET i == Min(Pages \ set) IN
           /\ set' = set \cup {i}
           /\ held' = IF i * PAGE_SIZE = NULL THEN held ELSE held \cup {i}
        /\ free_memory' = free_memory - PAGE_SIZE
  /\ UNCHANGED <<lock_at, lock_end, locked>>

free_page(p) ==
  /\ lock_at = lock_end
  /\ p \notin locked
  /\ IF p \in set
     THEN /\ set' = set \ {p}
          /\ free_memory' = free_memory + PAGE_SIZE
     ELSE UNCHANGED <<set, free_memory>>
  /\ held' = held \ {p}
  /\ UNCHANGED <<lock_at, lock_end, locked>>

Next ==
  \/ \E s, e \in 0 .. max_pages : s <= e /\ LockCall(s, e)
  \/ LockPage
  \/ alloc_page
  \/ \E p \in Pages : free_page(p)

Spec == Init /\ [][Next]_vars

-----------------------------------------------------------------------------
(* Properties. *)

\* Every variable has its type.
TypeOK ==
  /\ set \in SUBSET Pages /\ locked \in SUBSET Pages /\ held \in SUBSET Pages
  /\ free_memory \in Nat
  /\ lock_at \in 0 .. max_pages /\ lock_end \in 0 .. max_pages
  /\ lock_at <= lock_end

\* A page that a client holds or that is locked is never granted again: its bit
\* stays set through every sequence of locks, grants and frees, and no client
\* holds a locked page.
NoDoubleGrant ==
  /\ held \cup locked \subseteq set
  /\ held \cap locked = {}

Free == Pages \ set

\* free_memory follows the bitmap: every step changes it by one PAGE_SIZE for
\* every bit it changes, freeing a free page and locking a taken one included.
FollowsBitmap ==
  free_memory' + PAGE_SIZE * Cardinality(Free)
    = free_memory + PAGE_SIZE * Cardinality(Free')
Accounting == [][FollowsBitmap]_vars
=============================================================================
