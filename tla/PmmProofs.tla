----------------------------- MODULE PmmProofs -----------------------------
(* Theorems about Pmm, for every number of pages and every page size. *)
EXTENDS Pmm, FiniteSetTheorems, WellFoundedInduction, TLAPS

\* What the type of free_memory rests on: the counter covers the free pages, so
\* taking one of them never takes it below zero.
Covers == free_memory >= PAGE_SIZE * Cardinality(Free)

\* While pmm_lock_pages runs nobody holds a page yet.
LockFirst == lock_at < lock_end => held = {}

IInv == TypeOK /\ NoDoubleGrant /\ Covers /\ LockFirst

\* The set of free pages is finite.
LEMMA FreeIsFinite == IsFiniteSet(Free) /\ Cardinality(Free) \in Nat
<1>1. IsFiniteSet(Pages)
  BY SizeAssumption, FS_Interval DEF Pages
<1>2. Free \subseteq Pages
  BY DEF Free
<1> QED
  BY <1>1, <1>2, FS_Subset, FS_CardinalityType

\* Taking a free page and giving back a taken one change the number of free
\* pages by one.
LEMMA TakeOne ==
  ASSUME set \in SUBSET Pages, NEW p \in Pages \ set, set' = set \cup {p}
  PROVE  Cardinality(Free') = Cardinality(Free) - 1
<1>1. Free' = Free \ {p} /\ p \in Free
  BY DEF Free
<1> QED
  BY <1>1, FreeIsFinite, FS_RemoveElement

\* The other direction: a taken page comes back.
LEMMA GiveOne ==
  ASSUME set \in SUBSET Pages, NEW p \in set, set' = set \ {p}
  PROVE  Cardinality(Free') = Cardinality(Free) + 1
<1>1. Free' = Free \cup {p} /\ p \notin Free
  BY DEF Free
<1> QED
  BY <1>1, FreeIsFinite, FS_AddElement

\* Min of a non-empty set of naturals is one of its members.
LEMMA MinFact ==
  ASSUME NEW S \in SUBSET Nat, S # {}
  PROVE  Min(S) \in S
<1> DEFINE R == OpToRel(<, Nat)
<1>1. IsWellFoundedOn(R, Nat)
  BY NatLessThanWellFounded
<1>2. \A x, y \in Nat : x < y => <<x, y>> \in R
  BY DEF OpToRel
<1> HIDE DEF R
<1>3. PICK x \in S : \A y \in S : ~ (<<y, x>> \in R)
  BY <1>1, WFMin
<1>4. \A y \in S : ~ (y < x)
  BY <1>2, <1>3
<1>5. \A y \in S : x <= y
  BY <1>4
<1> QED
  BY <1>5 DEF Min

\* A step leaves the bitmap and the counter alone, or takes one free page, or
\* gives back one taken page, with the counter moved by PAGE_SIZE.
Moves ==
  \/ UNCHANGED <<set, free_memory>>
  \/ \E p \in Pages \ set : /\ set' = set \cup {p}
                            /\ free_memory' = free_memory - PAGE_SIZE
  \/ \E p \in set : /\ set' = set \ {p}
                    /\ free_memory' = free_memory + PAGE_SIZE

\* Each operation of pmm.cpp makes one of these three moves.
LEMMA StepMoves ==
  ASSUME IInv, [Next]_vars
  PROVE  Moves
<1>1. TypeOK
  BY DEF IInv
<1>2. ASSUME NEW s \in 0 .. max_pages, NEW e \in 0 .. max_pages, LockCall(s, e)
      PROVE  Moves
  BY <1>2 DEF LockCall, Moves
<1>3. CASE LockPage
  <2>1. lock_at \in Pages
    BY <1>1, <1>3, SizeAssumption DEF LockPage, TypeOK, Pages
  <2> QED
    BY <1>3, <2>1 DEF LockPage, Moves
<1>4. CASE alloc_page
  <2>1. CASE Pages \subseteq set
    BY <1>4, <2>1 DEF alloc_page, Moves
  <2>2. CASE ~ (Pages \subseteq set)
    <3>1. Pages \ set \in SUBSET Nat /\ Pages \ set # {}
      BY <2>2, SizeAssumption DEF Pages
    <3>2. Min(Pages \ set) \in Pages \ set
      BY <3>1, MinFact
    <3> QED
      BY <1>4, <2>2, <3>2 DEF alloc_page, Moves
  <2> QED
    BY <2>1, <2>2
<1>5. ASSUME NEW p \in Pages, free_page(p) PROVE Moves
  BY <1>5 DEF free_page, Moves
<1>6. CASE UNCHANGED vars
  BY <1>6 DEF vars, Moves
<1> QED
  BY <1>2, <1>3, <1>4, <1>5, <1>6 DEF Next

\* Every such move keeps the counter in step with the bitmap.
LEMMA MovesFollow ==
  ASSUME TypeOK, Moves
  PROVE  FollowsBitmap
<1>1. /\ set \in SUBSET Pages /\ free_memory \in Nat /\ PAGE_SIZE \in Nat
      /\ Cardinality(Free) \in Nat
  BY SizeAssumption, FreeIsFinite DEF TypeOK
<1>2. CASE UNCHANGED <<set, free_memory>>
  BY <1>1, <1>2 DEF FollowsBitmap, Free
<1>3. ASSUME NEW p \in Pages \ set, set' = set \cup {p},
             free_memory' = free_memory - PAGE_SIZE
      PROVE  FollowsBitmap
  <2>1. Cardinality(Free') = Cardinality(Free) - 1
    BY <1>1, <1>3, TakeOne
  <2> QED
    BY <1>1, <1>3, <2>1 DEF FollowsBitmap
<1>4. ASSUME NEW p \in set, set' = set \ {p},
             free_memory' = free_memory + PAGE_SIZE
      PROVE  FollowsBitmap
  <2>1. Cardinality(Free') = Cardinality(Free) + 1
    BY <1>1, <1>4, GiveOne
  <2> QED
    BY <1>1, <1>4, <2>1 DEF FollowsBitmap
<1> QED
  BY <1>2, <1>3, <1>4 DEF Moves

\* pmm_init establishes the invariant.
LEMMA InitInv == Init => IInv
<1> SUFFICES ASSUME Init PROVE IInv
  OBVIOUS
<1>1. set \in SUBSET Pages
  BY DEF Init, WholeBytes
<1>2. total_memory \in Nat /\ PAGE_SIZE \in Nat /\ max_pages \in Nat
  BY SizeAssumption DEF total_memory
<1>3. TypeOK
  BY <1>1, <1>2 DEF Init, TypeOK
<1>4. NoDoubleGrant /\ LockFirst
  BY DEF Init, NoDoubleGrant, LockFirst
<1>5. Cardinality(Free) <= max_pages
  <2>1. IsFiniteSet(Pages) /\ Cardinality(Pages) = max_pages
    BY SizeAssumption, FS_Interval DEF Pages
  <2>2. Free \subseteq Pages
    BY DEF Free
  <2> QED
    BY <2>1, <2>2, FS_Subset
<1>6. Covers
  <2>1. \A a, b, k \in Nat : a <= b => b * k >= k * a
    BY SMT
  <2>2. max_pages * PAGE_SIZE >= PAGE_SIZE * Cardinality(Free)
    BY <1>2, <1>5, <2>1, FreeIsFinite
  <2> QED
    BY <2>2 DEF Init, Covers, total_memory
<1> QED
  BY <1>3, <1>4, <1>6 DEF IInv

\* The counter stays a natural number and keeps covering the free pages.
LEMMA CounterStep ==
  ASSUME IInv, [Next]_vars
  PROVE  free_memory' \in Nat /\ Covers'
<1>1. /\ TypeOK /\ Covers /\ Moves /\ FollowsBitmap
  BY StepMoves, MovesFollow DEF IInv
<1>2. /\ set \in SUBSET Pages /\ free_memory \in Nat /\ PAGE_SIZE \in Nat
      /\ Cardinality(Free) \in Nat
  BY <1>1, SizeAssumption, FreeIsFinite DEF TypeOK
<1>3. CASE UNCHANGED <<set, free_memory>>
  BY <1>1, <1>2, <1>3 DEF Covers, Free
<1>4. ASSUME NEW p \in Pages \ set, set' = set \cup {p},
             free_memory' = free_memory - PAGE_SIZE
      PROVE  free_memory' \in Nat /\ Covers'
  <2>1. Cardinality(Free') = Cardinality(Free) - 1 /\ Cardinality(Free) >= 1
    <3>1. Cardinality(Free') = Cardinality(Free) - 1
      BY <1>2, <1>4, TakeOne
    <3>2. Cardinality(Free) # 0
      BY <1>4, FreeIsFinite, FS_EmptySet DEF Free
    <3> QED
      BY <1>2, <3>1, <3>2
  <2>2. PAGE_SIZE * Cardinality(Free)
          = PAGE_SIZE + PAGE_SIZE * (Cardinality(Free) - 1)
    BY <1>2, <2>1
  <2>3. PAGE_SIZE * (Cardinality(Free) - 1) \in Nat
    BY <1>2, <2>1
  <2> QED
    BY <1>1, <1>2, <1>4, <2>1, <2>2, <2>3 DEF Covers
<1>5. ASSUME NEW p \in set, set' = set \ {p},
             free_memory' = free_memory + PAGE_SIZE
      PROVE  free_memory' \in Nat /\ Covers'
  <2>1. Cardinality(Free') = Cardinality(Free) + 1
    BY <1>2, <1>5, GiveOne
  <2>2. PAGE_SIZE * (Cardinality(Free) + 1)
          = PAGE_SIZE + PAGE_SIZE * Cardinality(Free)
    BY <1>2
  <2> QED
    BY <1>1, <1>2, <1>5, <2>1, <2>2 DEF Covers
<1> QED
  BY <1>1, <1>3, <1>4, <1>5 DEF Moves

\* Every operation keeps the rest of the invariant.
LEMMA StepInv ==
  ASSUME IInv, [Next]_vars
  PROVE  IInv'
<1>1. TypeOK /\ NoDoubleGrant /\ LockFirst /\ max_pages \in Nat
  BY SizeAssumption DEF IInv
<1>2. free_memory' \in Nat /\ Covers'
  BY CounterStep
<1>3. ASSUME NEW s \in 0 .. max_pages, NEW e \in 0 .. max_pages, s <= e,
             LockCall(s, e)
      PROVE  TypeOK' /\ NoDoubleGrant' /\ LockFirst'
  BY <1>1, <1>2, <1>3 DEF LockCall, TypeOK, NoDoubleGrant, LockFirst
<1>4. ASSUME LockPage PROVE TypeOK' /\ NoDoubleGrant' /\ LockFirst'
  <2>1. lock_at \in Pages /\ lock_at + 1 <= lock_end /\ lock_at + 1 \in 0 .. max_pages
    BY <1>1, <1>4, SizeAssumption DEF LockPage, TypeOK, Pages
  <2>2. TypeOK'
    BY <1>1, <1>2, <1>4, <2>1 DEF LockPage, TypeOK
  <2>3. NoDoubleGrant' /\ LockFirst'
    BY <1>1, <1>4 DEF LockPage, NoDoubleGrant, LockFirst
  <2> QED
    BY <2>2, <2>3
<1>5. ASSUME alloc_page PROVE TypeOK' /\ NoDoubleGrant' /\ LockFirst'
  <2>1. CASE Pages \subseteq set
    BY <1>1, <1>2, <1>5, <2>1 DEF alloc_page, TypeOK, NoDoubleGrant, LockFirst
  <2>2. CASE ~ (Pages \subseteq set)
    <3>1. Pages \ set \in SUBSET Nat /\ Pages \ set # {}
      BY <2>2, SizeAssumption DEF Pages
    <3>2. PICK i \in Pages \ set : i = Min(Pages \ set)
      BY <3>1, MinFact
    <3>3. /\ lock_at = lock_end
          /\ set' = set \cup {i}
          /\ held' = held \/ held' = held \cup {i}
          /\ UNCHANGED <<lock_at, lock_end, locked>>
      BY <1>5, <2>2, <3>2 DEF alloc_page
    <3>4. TypeOK' /\ NoDoubleGrant'
      BY <1>1, <1>2, <3>3 DEF TypeOK, NoDoubleGrant
    <3>5. LockFirst'
      BY <1>1, <3>3 DEF TypeOK, LockFirst
    <3> QED
      BY <3>4, <3>5
  <2> QED
    BY <2>1, <2>2
<1>6. ASSUME NEW p \in Pages, free_page(p)
      PROVE  TypeOK' /\ NoDoubleGrant' /\ LockFirst'
  BY <1>1, <1>2, <1>6 DEF free_page, TypeOK, NoDoubleGrant, LockFirst
<1>7. ASSUME UNCHANGED vars PROVE TypeOK' /\ NoDoubleGrant' /\ LockFirst'
  BY <1>1, <1>7 DEF vars, TypeOK, NoDoubleGrant, LockFirst
<1>8. TypeOK' /\ NoDoubleGrant' /\ LockFirst'
  BY <1>3, <1>4, <1>5, <1>6, <1>7 DEF Next
<1> QED
  BY <1>2, <1>8 DEF IInv

\* The inductive invariant holds in every reachable state.
THEOREM Invariance == Spec => []IInv
<1>1. Init => IInv
  BY InitInv
<1>2. IInv /\ [Next]_vars => IInv'
  BY StepInv
<1> QED
  BY <1>1, <1>2, PTL DEF Spec

\* free_memory never wraps below zero and no index leaves the bitmap, for every
\* size of memory.
THEOREM TypeCorrect == Spec => []TypeOK
<1>1. IInv => TypeOK
  BY DEF IInv
<1> QED
  BY <1>1, Invariance, PTL

\* alloc_page never grants a page that is held or locked.
THEOREM PagesAreGrantedOnce == Spec => []NoDoubleGrant
<1>1. IInv => NoDoubleGrant
  BY DEF IInv
<1> QED
  BY <1>1, Invariance, PTL

\* The byte counter moves with the bitmap in every step.
THEOREM CounterFollows == Spec => Accounting
<1>1. IInv /\ [Next]_vars => [FollowsBitmap]_vars
  BY StepMoves, MovesFollow DEF IInv
<1> QED
  BY <1>1, Invariance, PTL DEF Spec, Accounting

=============================================================================
