---------------------------- MODULE Fat32Proofs ----------------------------
(* Theorems about Fat32, for every volume, every name and every path. *)
EXTENDS Fat32, WellFoundedInduction, TLAPS

(***************************************************************************)
(* The inductive invariant.  What it adds to the properties:               *)
(*  - a free cluster is blank, so taking one overwrites nothing;           *)
(*  - the directories the driver stands in are allocated, so the cluster   *)
(*    mkdir takes is never one of them;                                    *)
(*  - nothing in use lies behind an end entry.                             *)
(***************************************************************************)
FreeIsBlank == \A c \in Clusters : fat[c] = 0 => dir[c] = EmptySector

WorkAllocated ==
  /\ fat[RootCluster] = EOC
  /\ fat[current_dir_cluster] = EOC
  /\ pc = "cd" => old_cluster \in Clusters /\ fat[old_cluster] = EOC

EndIsLast ==
  \A c \in Clusters, s, t \in Slots :
     t < s /\ dir[c][t].st = "end" => dir[c][s].st # "used"

\* The parts that speak of the disk alone.
DiskInv ==
  /\ FreeIsBlank
  /\ LinkedIsAllocated
  /\ ParentLinks
  /\ NoSharedCluster
  /\ EndIsLast

IInv ==
  /\ TypeOK
  /\ DiskInv
  /\ WorkAllocated
  /\ MkdirInFlight

-----------------------------------------------------------------------------
(* Facts about the operators. *)

\* Min of a non-empty set of naturals is its smallest member.
LEMMA MinFact ==
  ASSUME NEW S \in SUBSET Nat, S # {}
  PROVE  Min(S) \in S /\ \A y \in S : Min(S) <= y
<1> DEFINE R == OpToRel(<, Nat)
<1>1. IsWellFoundedOn(R, Nat)
  BY NatLessThanWellFounded
<1>2. \A x, y \in Nat : x < y => <<x, y>> \in R
  BY DEF OpToRel
<1> HIDE DEF R
<1>3. PICK x \in S : \A y \in S : ~ (<<y, x>> \in R)
  BY <1>1, WFMin
<1>4. \A y \in S : ~ (y < x)
  BY <1>2, <1>3
<1>5. \A y \in S : x <= y
  BY <1>4
<1> QED
  BY <1>5 DEF Min

\* The mark of a chain's end is not the mark of a free cell.
LEMMA EOCNotZero == EOC # 0
  BY SMT DEF EOC

\* Cluster numbers are naturals, and 0 is none of them.
LEMMA ClustersAreNat == Clusters \subseteq Nat /\ 0 \notin Clusters
  BY GeometryAssumption DEF Clusters

\* Slots are naturals, and every sector has the two of the dot entries.
LEMMA SlotsAreNat ==
  Slots \subseteq Nat /\ 1 \in Slots /\ 2 \in Slots
  BY GeometryAssumption DEF Slots

\* The entries the handlers build are entries.
LEMMA EntryTypes ==
  /\ End \in Entry /\ Deleted \in Entry
  /\ \A b \in Base \cup {Dot, DotDot}, c \in {0} \cup Clusters :
       DirEntry(b, c) \in Entry /\ FileEntry(b, c) \in Entry
  /\ EmptySector \in [Slots -> Entry]
  BY NameAssumption DEF Entry, End, Deleted, DirEntry, FileEntry, EmptySector

\* The sector mkdir builds: two dot entries, then nothing.
LEMMA DotSectorType ==
  ASSUME NEW c \in Clusters, NEW p \in Clusters
  PROVE  /\ DotSector(c, p) \in [Slots -> Entry]
         /\ DotSector(c, p)[1] = DirEntry(Dot, c)
         /\ DotSector(c, p)[2] = DirEntry(DotDot, IF p = 2 THEN 0 ELSE p)
         /\ \A s \in Slots \ {1, 2} : DotSector(c, p)[s] = End
  BY EntryTypes, SlotsAreNat DEF DotSector

\* What fat32_find_free_cluster returns is 0 or a free cluster.
LEMMA FreeClusterFact ==
  ASSUME fat32_find_free_cluster # 0
  PROVE  fat32_find_free_cluster \in Clusters /\ fat[fat32_find_free_cluster] = 0
<1>1. FreeClusters # {} /\ fat32_find_free_cluster = Min(FreeClusters)
  BY DEF fat32_find_free_cluster
<1>2. FreeClusters \in SUBSET Nat
  BY ClustersAreNat DEF FreeClusters
<1> QED
  BY <1>1, <1>2, MinFact DEF FreeClusters

\* The slot touch and mkdir fill is not in use and everything before it is.
LEMMA FreeSlotFact ==
  ASSUME NEW sector, FreeSlots(sector) # {}
  PROVE  LET s == Min(FreeSlots(sector)) IN
         /\ s \in Slots
         /\ sector[s].st # "used"
         /\ \A t \in Slots : t < s => sector[t].st = "used"
<1>1. FreeSlots(sector) \in SUBSET Nat
  BY SlotsAreNat DEF FreeSlots
<1>2. /\ Min(FreeSlots(sector)) \in FreeSlots(sector)
      /\ \A y \in FreeSlots(sector) : Min(FreeSlots(sector)) <= y
  BY <1>1, MinFact
<1>3. \A t \in Slots : t < Min(FreeSlots(sector)) => t \notin FreeSlots(sector)
  BY <1>1, <1>2, SlotsAreNat
<1> QED
  BY <1>2, <1>3 DEF FreeSlots

\* The entry a look-up finds is in use and is no dot entry.
LEMMA MatchFact ==
  ASSUME NEW c \in Clusters, NEW n \in Typed, Matches(c, n) # {}
  PROVE  Min(Matches(c, n)) \in Slots /\ Names(c, Min(Matches(c, n)))
<1>1. Matches(c, n) \in SUBSET Nat
  BY SlotsAreNat DEF Matches
<1>2. Min(Matches(c, n)) \in Matches(c, n)
  BY <1>1, MinFact
<1>3. BaseOf[n] \notin {Dot, DotDot}
  BY NameAssumption
<1> QED
  BY <1>2, <1>3 DEF Matches, Names

\* Paths stay sequences of typed names when a component is added or dropped.
LEMMA SeqFacts ==
  /\ <<>> \in Seq(Typed)
  /\ \A q \in Seq(Typed) : q # <<>> =>
       /\ Head(q) \in Typed
       /\ Tail(q) \in Seq(Typed)
       /\ SubSeq(q, 1, Len(q) - 1) \in Seq(Typed)
  /\ \A q \in Seq(Typed), n \in Typed : Append(q, n) \in Seq(Typed)
  OBVIOUS

-----------------------------------------------------------------------------
(* What a write of one directory entry preserves. *)

\* A step that writes nothing keeps what is true of the disk.
LEMMA DiskKept ==
  ASSUME DiskInv, UNCHANGED disk
  PROVE  DiskInv'
  BY DEF DiskInv, FreeIsBlank, LinkedIsAllocated, ParentLinks, NoSharedCluster,
         EndIsLast, Names, disk

\* touch, rm and the last step of mkdir replace one entry that is no dot entry
\* by e, which marks a deletion or names nothing or names a complete, allocated
\* and so far nameless directory.
LEMMA SlotWrite ==
  ASSUME TypeOK, DiskInv,
         NEW c0 \in Clusters, NEW s0 \in Slots, NEW e \in Entry,
         fat[c0] = EOC,
         fat' = fat,
         dir' = [dir EXCEPT ![c0] = [dir[c0] EXCEPT ![s0] = e]],
         dir[c0][s0].st = "used" => Names(c0, s0),
         e.st # "end",
         e.st = "used" =>
           /\ e.base \notin {Dot, DotDot}
           /\ \A t \in Slots : t < s0 => dir[c0][t].st = "used",
         e.st = "used" /\ e.cl # 0 =>
           /\ fat[e.cl] = EOC
           /\ e.cl # RootCluster
           /\ \A c \in Clusters, s \in Slots : Names(c, s) => dir[c][s].cl # e.cl,
         e.st = "used" /\ e.dir =>
           /\ e.cl \in Clusters \ {c0}
           /\ dir[e.cl][1] = DirEntry(Dot, e.cl)
           /\ dir[e.cl][2] = DirEntry(DotDot, IF c0 = 2 THEN 0 ELSE c0)
  PROVE  DiskInv' /\ dir' \in [Clusters -> [Slots -> Entry]]
<1>1. dir' \in [Clusters -> [Slots -> Entry]]
  BY DEF TypeOK
<1>2. \A c \in Clusters, s \in Slots :
        dir'[c][s] = IF c = c0 /\ s = s0 THEN e ELSE dir[c][s]
  BY DEF TypeOK
<1>3. \A c \in Clusters : c # c0 => dir'[c] = dir[c]
  BY DEF TypeOK
<1>4. FreeIsBlank'
  BY <1>3, EOCNotZero DEF DiskInv, FreeIsBlank, EmptySector
<1>5. LinkedIsAllocated'
  BY <1>2 DEF DiskInv, LinkedIsAllocated
<1>6. \A c \in Clusters, s \in Slots :
        Names(c, s)' => IF c = c0 /\ s = s0 THEN e.st = "used" ELSE Names(c, s)
  BY <1>2 DEF Names
<1>7. ParentLinks'
  <2> SUFFICES ASSUME NEW c \in Clusters, NEW s \in Slots,
                      Names(c, s)', dir'[c][s].dir
               PROVE  LET d == dir'[c][s].cl IN
                      /\ d # 0
                      /\ dir'[d][1] = DirEntry(Dot, d)
                      /\ dir'[d][2] = DirEntry(DotDot, IF c = 2 THEN 0 ELSE c)
    BY DEF ParentLinks
  <2> DEFINE d == dir'[c][s].cl
  <2>1. /\ d \in Clusters
        /\ dir[d][1] = DirEntry(Dot, d)
        /\ dir[d][2] = DirEntry(DotDot, IF c = 2 THEN 0 ELSE c)
    <3>1. CASE c = c0 /\ s = s0
      BY <1>2, <1>6, <3>1
    <3>2. CASE ~ (c = c0 /\ s = s0)
      <4>1. dir'[c][s] = dir[c][s] /\ Names(c, s)
        BY <1>2, <1>6, <3>2
      <4>2. dir[c][s].cl \in {0} \cup Clusters
        <5>1. dir[c][s] \in Entry
          BY DEF TypeOK
        <5> QED
          BY <5>1 DEF Entry
      <4> QED
        BY <4>1, <4>2 DEF DiskInv, ParentLinks
    <3> QED
      BY <3>1, <3>2
  <2>2. ~ (d = c0 /\ s0 \in {1, 2})
    <3>1. SUFFICES ASSUME d = c0, s0 \in {1, 2} PROVE FALSE
      OBVIOUS
    <3>2. dir[c0][s0].st = "used" /\ dir[c0][s0].base \in {Dot, DotDot}
      BY <2>1, <3>1 DEF DirEntry
    <3> QED
      BY <3>2 DEF Names
  <2>3. dir'[d][1] = dir[d][1] /\ dir'[d][2] = dir[d][2]
    BY <1>2, <2>1, <2>2, SlotsAreNat
  <2> QED
    BY <2>1, <2>3, ClustersAreNat
<1>8. NoSharedCluster'
  BY <1>2, <1>6 DEF DiskInv, NoSharedCluster
<1>9. EndIsLast'
  BY <1>2, SlotsAreNat DEF DiskInv, EndIsLast
<1> QED
  BY <1>1, <1>4, <1>5, <1>7, <1>8, <1>9 DEF DiskInv

-----------------------------------------------------------------------------
(* The initial states. *)

\* A freshly made volume satisfies the invariant.
LEMMA InitInv ==
  ASSUME RootCluster = 2, Init
  PROVE  IInv
<1>1. /\ \A s \in 1 .. Len(Preloaded) : Preloaded[s] \in Base
      /\ Len(Preloaded) \in Nat
  BY PreloadedAssumption
<1>2. \A s \in 1 .. Len(Preloaded) : RootCluster + s \in Clusters \ {RootCluster}
  BY <1>1, PreloadedAssumption, GeometryAssumption DEF Clusters
<1>3. \A s \in Slots :
        dir[RootCluster][s] = IF s <= Len(Preloaded)
                              THEN FileEntry(Preloaded[s], RootCluster + s)
                              ELSE End
  BY GeometryAssumption DEF Init
<1>4. \A b, c : /\ FileEntry(b, c).st = "used"
                 /\ FileEntry(b, c).cl = c
                 /\ FileEntry(b, c).dir = FALSE
  BY DEF FileEntry
<1>5. \A c \in Clusters :
         fat[c] = IF c \in RootCluster .. RootCluster + Len(Preloaded)
                  THEN EOC ELSE 0
  BY DEF Init
<1>6. RootCluster \in RootCluster .. RootCluster + Len(Preloaded)
  BY <1>1
<1>7. \A c \in Clusters : c # RootCluster => dir[c] = EmptySector
  BY DEF Init
<1>8. TypeOK
  <2>1. fat \in [Clusters -> {0, EOC}]
    BY DEF Init
  <2>2. \A s \in Slots : dir[RootCluster][s] \in Entry
    <3>1. TAKE s \in Slots
    <3>2. CASE s <= Len(Preloaded)
      <4>1. s \in 1 .. Len(Preloaded)
        BY <1>1, <3>2 DEF Slots
      <4> QED
        BY <1>1, <1>2, <1>3, <3>2, <4>1, EntryTypes
    <3>3. CASE ~ (s <= Len(Preloaded))
      BY <1>3, <3>3, EntryTypes
    <3> QED
      BY <3>2, <3>3
  <2>3. dir \in [Clusters -> [Slots -> Entry]]
    <3>1. \A c \in Clusters : dir[c] \in [Slots -> Entry]
      BY <2>2, <1>7, EntryTypes DEF Init
    <3> QED
      BY <3>1 DEF Init
  <2>4. current_path \in Seq(Typed) /\ todo \in Seq(Typed) /\ old_path \in Seq(Typed)
    BY SeqFacts DEF Init
  <2>5. current_dir_cluster \in Clusters
    BY GeometryAssumption DEF Init
  <2> QED
    BY <2>1, <2>3, <2>4, <2>5, EntryTypes DEF Init, TypeOK
<1>9. \A c \in Clusters, s \in Slots :
        dir[c][s].st = "used" =>
          /\ c = RootCluster
          /\ s \in 1 .. Len(Preloaded)
          /\ dir[c][s].cl = RootCluster + s
          /\ ~ dir[c][s].dir
  <2> SUFFICES ASSUME NEW c \in Clusters, NEW s \in Slots, dir[c][s].st = "used"
               PROVE  /\ c = RootCluster
                      /\ s \in 1 .. Len(Preloaded)
                      /\ dir[c][s].cl = RootCluster + s
                      /\ ~ dir[c][s].dir
    OBVIOUS
  <2>1. End.st # "used"
    BY DEF End
  <2>2. c = RootCluster
    BY <1>7, <2>1 DEF EmptySector
  <2>3. s <= Len(Preloaded)
    BY <1>3, <2>1, <2>2
  <2> QED
    BY <1>1, <1>3, <1>4, <2>2, <2>3 DEF Slots
<1>10. FreeIsBlank
  BY <1>7, <1>5, <1>6, EOCNotZero DEF FreeIsBlank
<1>11. LinkedIsAllocated
  <2>1. \A s \in 1 .. Len(Preloaded) : fat[RootCluster + s] = EOC
    BY <1>1, <1>2, <1>5
  <2> QED
    BY <1>9, <2>1 DEF LinkedIsAllocated
<1>12. ParentLinks
  BY <1>9 DEF ParentLinks, Names
<1>13. NoSharedCluster
  <2>1. \A s, t \in 1 .. Len(Preloaded) :
          /\ RootCluster + s # RootCluster
          /\ RootCluster + s = RootCluster + t => s = t
    BY <1>1, GeometryAssumption DEF Clusters
  <2> QED
    BY <1>9, <2>1 DEF NoSharedCluster, Names
<1>14. EndIsLast
  <2>1. \A s, t \in Slots : t < s /\ s <= Len(Preloaded) => t <= Len(Preloaded)
    BY <1>1, SlotsAreNat
  <2>2. \A s \in Slots : s <= Len(Preloaded) => dir[RootCluster][s].st # "end"
    BY <1>3, <1>4
  <2> QED
    BY <1>9, <2>1, <2>2, SlotsAreNat DEF EndIsLast
<1>15. WorkAllocated
  BY <1>5, <1>6, GeometryAssumption DEF WorkAllocated, Init
<1>16. MkdirInFlight
  BY DEF MkdirInFlight, Init
<1> QED
  BY <1>8, <1>10, <1>11, <1>12, <1>13, <1>14, <1>15, <1>16 DEF IInv, DiskInv

-----------------------------------------------------------------------------
(* The steps.  Outside mkdir MkdirInFlight says nothing. *)

\* The cluster mkdir takes is blank, nameless and not the working directory.
LEMMA MkdirBeginInv ==
  ASSUME RootCluster = 2, IInv, NEW n \in Typed, MkdirBegin(n)
  PROVE  IInv'
<1> USE DEF disk, where, mkdirLocals, cdLocals
<1>1. TypeOK /\ DiskInv /\ WorkAllocated
  BY DEF IInv
<1>2. fat32_find_free_cluster \in Clusters /\ fat[fat32_find_free_cluster] = 0
  BY FreeClusterFact DEF MkdirBegin
<1>3. TypeOK'
  BY <1>1, <1>2 DEF TypeOK, MkdirBegin
<1>4. DiskInv'
  BY <1>1, DiskKept DEF MkdirBegin
<1>5. WorkAllocated'
  BY <1>1 DEF MkdirBegin, WorkAllocated
<1>6. MkdirInFlight'
  <2>1. new_cluster' \in Clusters \ {RootCluster, current_dir_cluster}
    BY <1>1, <1>2, EOCNotZero DEF MkdirBegin, WorkAllocated
  <2>2. dir[new_cluster'] = EmptySector
    BY <1>1, <1>2 DEF MkdirBegin, DiskInv, FreeIsBlank
  <2>3. \A c \in Clusters, s \in Slots :
          Names(c, s) => dir[c][s].cl # new_cluster'
    BY <1>1, <1>2, EOCNotZero, ClustersAreNat
       DEF MkdirBegin, DiskInv, LinkedIsAllocated, Names
  <2> QED
    BY <1>2, <2>1, <2>2, <2>3 DEF MkdirBegin, MkdirInFlight, Names
<1> QED
  BY <1>3, <1>4, <1>5, <1>6 DEF IInv

\* The cell of an unnamed, unused cluster is taken.
LEMMA MkdirFatInv ==
  ASSUME RootCluster = 2, IInv, MkdirFat
  PROVE  IInv'
<1> USE DEF disk, where, mkdirLocals, cdLocals
<1>1. TypeOK /\ DiskInv /\ WorkAllocated /\ MkdirInFlight /\ pc = "mkdir_fat"
  BY DEF IInv, MkdirFat
<1>2. new_cluster \in Clusters
  BY <1>1 DEF MkdirInFlight
<1>3. \A c \in Clusters : fat'[c] = IF c = new_cluster THEN EOC ELSE fat[c]
  BY <1>1, <1>2 DEF MkdirFat, TypeOK
<1>4. TypeOK'
  BY <1>1 DEF TypeOK, MkdirFat
<1>5. DiskInv'
  <2>1. dir' = dir
    BY DEF MkdirFat
  <2>2. FreeIsBlank'
    BY <1>1, <1>3, <2>1, EOCNotZero DEF DiskInv, FreeIsBlank
  <2>3. \A c \in Clusters, s \in Slots : dir[c][s].cl \in {0} \cup Clusters
    <3>1. \A c \in Clusters, s \in Slots : dir[c][s] \in Entry
      BY <1>1 DEF TypeOK
    <3> QED
      BY <3>1 DEF Entry
  <2>4. LinkedIsAllocated'
    BY <1>1, <1>3, <2>1, <2>3 DEF DiskInv, LinkedIsAllocated
  <2> QED
    BY <1>1, <2>1, <2>2, <2>4
       DEF DiskInv, ParentLinks, NoSharedCluster, EndIsLast, Names
<1>6. WorkAllocated'
  BY <1>1, <1>3, GeometryAssumption DEF MkdirFat, WorkAllocated, TypeOK
<1>7. MkdirInFlight'
  BY <1>1, <1>3 DEF MkdirFat, MkdirInFlight, Names
<1> QED
  BY <1>4, <1>5, <1>6, <1>7 DEF IInv

\* The blank sector of the new cluster gets its dot entries.
LEMMA MkdirDotsInv ==
  ASSUME RootCluster = 2, IInv, MkdirDots
  PROVE  IInv'
<1> USE DEF disk, where, mkdirLocals, cdLocals
<1>1. TypeOK /\ DiskInv /\ WorkAllocated /\ MkdirInFlight /\ pc = "mkdir_dots"
  BY DEF IInv, MkdirDots
<1> DEFINE dots == DotSector(new_cluster, current_dir_cluster)
<1>2. /\ new_cluster \in Clusters \ {RootCluster, current_dir_cluster}
      /\ current_dir_cluster \in Clusters
  BY <1>1 DEF MkdirInFlight, TypeOK
<1>3. /\ dots \in [Slots -> Entry]
      /\ dots[1] = DirEntry(Dot, new_cluster)
      /\ dots[2] = DirEntry(DotDot, IF current_dir_cluster = 2 THEN 0
                                    ELSE current_dir_cluster)
      /\ \A s \in Slots \ {1, 2} : dots[s] = End
  BY <1>2, DotSectorType
<1> HIDE DEF dots
<1>4. /\ dir' = [dir EXCEPT ![new_cluster] = dots]
      /\ UNCHANGED <<fat, where, mkdirLocals>>
  BY DEF MkdirDots, dots
<1>5. \A c \in Clusters : dir'[c] = IF c = new_cluster THEN dots ELSE dir[c]
  BY <1>1, <1>4 DEF TypeOK
<1>6. \A s \in Slots : dots[s].st = "used" =>
         /\ s \in {1, 2}
         /\ dots[s].base \in {Dot, DotDot}
         /\ dots[s].cl \in {0, new_cluster, current_dir_cluster}
  <2>1. End.st # "used"
    BY DEF End
  <2>2. \A b, c : DirEntry(b, c).base = b /\ DirEntry(b, c).cl = c
    BY DEF DirEntry
  <2> QED
    BY <1>3, <2>1, <2>2
<1>7. \A c \in Clusters, s \in Slots :
        Names(c, s)' => c # new_cluster /\ Names(c, s) /\ dir'[c][s] = dir[c][s]
  BY <1>5, <1>6 DEF Names
<1>8. TypeOK'
  <2>1. dir' \in [Clusters -> [Slots -> Entry]]
    BY <1>1, <1>3, <1>4 DEF TypeOK
  <2> QED
    BY <1>1, <2>1 DEF TypeOK, MkdirDots
<1>9. DiskInv'
  <2>1. FreeIsBlank'
    BY <1>1, <1>4, <1>5, EOCNotZero DEF DiskInv, FreeIsBlank, MkdirInFlight
  <2>2. LinkedIsAllocated'
    BY <1>1, <1>4, <1>5, <1>6
       DEF DiskInv, LinkedIsAllocated, MkdirInFlight, WorkAllocated
  <2>3. ParentLinks'
    <3> SUFFICES ASSUME NEW c \in Clusters, NEW s \in Slots,
                        Names(c, s)', dir'[c][s].dir
                 PROVE  LET d == dir'[c][s].cl IN
                        /\ d # 0
                        /\ dir'[d][1] = DirEntry(Dot, d)
                        /\ dir'[d][2] = DirEntry(DotDot, IF c = 2 THEN 0 ELSE c)
      BY DEF ParentLinks
    <3>1. Names(c, s) /\ dir'[c][s] = dir[c][s]
      BY <1>7
    <3>2. dir[c][s].cl # new_cluster
      BY <1>1, <3>1 DEF MkdirInFlight
    <3>3. dir[c][s].cl \in {0} \cup Clusters
      <4>1. dir[c][s] \in Entry
        BY <1>1 DEF TypeOK
      <4> QED
        BY <4>1 DEF Entry
    <3>4. LET d == dir[c][s].cl IN
          /\ d # 0
          /\ dir[d][1] = DirEntry(Dot, d)
          /\ dir[d][2] = DirEntry(DotDot, IF c = 2 THEN 0 ELSE c)
      BY <1>1, <3>1 DEF DiskInv, ParentLinks
    <3> QED
      BY <1>5, <3>1, <3>2, <3>3, <3>4
  <2>4. NoSharedCluster'
    BY <1>1, <1>7 DEF DiskInv, NoSharedCluster
  <2>5. \A s, t \in Slots : t < s /\ dots[t].st = "end" => dots[s].st # "used"
    <3>1. dots[1].st = "used" /\ dots[2].st = "used"
      BY <1>3 DEF DirEntry
    <3>2. \A t \in Slots, s \in {1, 2} : t < s => t = 1
      BY SlotsAreNat DEF Slots
    <3> QED
      BY <1>6, <3>1, <3>2
  <2>6. EndIsLast'
    BY <1>1, <1>5, <2>5 DEF DiskInv, EndIsLast
  <2> QED
    BY <2>1, <2>2, <2>3, <2>4, <2>6 DEF DiskInv
<1>10. WorkAllocated'
  BY <1>1 DEF MkdirDots, WorkAllocated
<1>11. MkdirInFlight'
  <2>1. \A c \in Clusters, s \in Slots :
          Names(c, s)' => dir'[c][s].cl # new_cluster
    BY <1>1, <1>7 DEF MkdirInFlight
  <2>2. dir'[new_cluster] = dots /\ dir'[current_dir_cluster] = dir[current_dir_cluster]
    BY <1>2, <1>5
  <2>3. dots = DotSector(new_cluster, current_dir_cluster)
    BY DEF dots
  <2> QED
    BY <1>1, <1>4, <2>1, <2>2, <2>3
       DEF MkdirDots, MkdirInFlight, DotSector
<1> QED
  BY <1>8, <1>9, <1>10, <1>11 DEF IInv

\* The complete directory gets its name, in a slot of the parent that was free.
LEMMA MkdirLinkInv ==
  ASSUME RootCluster = 2, IInv, MkdirLink
  PROVE  IInv'
<1> USE DEF disk, where, mkdirLocals, cdLocals
<1>1. TypeOK /\ DiskInv /\ WorkAllocated /\ MkdirInFlight /\ pc = "mkdir_link"
  BY DEF IInv, MkdirLink
<1>2. /\ current_dir_cluster \in Clusters
      /\ new_cluster \in Clusters \ {RootCluster, current_dir_cluster}
      /\ parent_buffer = dir[current_dir_cluster]
      /\ fat[new_cluster] = EOC
      /\ dir[new_cluster] = DotSector(new_cluster, current_dir_cluster)
      /\ name \in Typed
  BY <1>1 DEF MkdirInFlight, TypeOK
<1>3. DiskInv' /\ dir' \in [Clusters -> [Slots -> Entry]]
  <2>1. CASE FreeSlots(parent_buffer) = {}
    <3>1. UNCHANGED disk
      BY <2>1 DEF MkdirLink
    <3> QED
      BY <1>1, <3>1, DiskKept DEF TypeOK
  <2>2. CASE FreeSlots(parent_buffer) # {}
    <3> DEFINE s0 == Min(FreeSlots(parent_buffer))
               e == DirEntry(BaseOf[name], new_cluster)
    <3>1. /\ s0 \in Slots
          /\ dir[current_dir_cluster][s0].st # "used"
          /\ \A t \in Slots : t < s0 => dir[current_dir_cluster][t].st = "used"
      BY <1>2, <2>2, FreeSlotFact
    <3>2. BaseOf[name] \in Base /\ BaseOf[name] \notin {Dot, DotDot}
      BY <1>2, NameAssumption
    <3>3. /\ e \in Entry /\ e.st = "used" /\ e.base = BaseOf[name]
          /\ e.cl = new_cluster /\ e.dir
      BY <1>2, <3>2 DEF DirEntry, Entry
    <3>4. /\ dir' = [dir EXCEPT ![current_dir_cluster] =
                                  [dir[current_dir_cluster] EXCEPT ![s0] = e]]
          /\ fat' = fat
      BY <1>2, <2>2 DEF MkdirLink
    <3>5. /\ dir[new_cluster][1] = DirEntry(Dot, new_cluster)
          /\ dir[new_cluster][2] =
               DirEntry(DotDot, IF current_dir_cluster = 2 THEN 0
                                ELSE current_dir_cluster)
      BY <1>2, DotSectorType
    <3>6. /\ fat[current_dir_cluster] = EOC
          /\ \A c \in Clusters, s \in Slots :
               Names(c, s) => dir[c][s].cl # new_cluster
      BY <1>1 DEF WorkAllocated, MkdirInFlight
    <3> HIDE DEF s0, e
    <3>7. /\ e.base \notin {Dot, DotDot}
          /\ fat[e.cl] = EOC
          /\ e.cl # RootCluster
          /\ \A c \in Clusters, s \in Slots : Names(c, s) => dir[c][s].cl # e.cl
          /\ e.cl \in Clusters \ {current_dir_cluster}
          /\ dir[e.cl][1] = DirEntry(Dot, e.cl)
          /\ dir[e.cl][2] = DirEntry(DotDot, IF current_dir_cluster = 2 THEN 0
                                             ELSE current_dir_cluster)
      BY <1>2, <3>2, <3>3, <3>5, <3>6
    <3>8. e.st # "end" /\ e \in Entry
      BY <3>3
    <3> QED
      BY <1>1, <1>2, <3>1, <3>4, <3>6, <3>7, <3>8, SlotWrite
  <2> QED
    BY <2>1, <2>2
<1>4. TypeOK'
  BY <1>1, <1>3, EntryTypes DEF TypeOK, MkdirLink, NoMkdir
<1>5. WorkAllocated'
  BY <1>1 DEF MkdirLink, WorkAllocated
<1>6. MkdirInFlight'
  BY DEF MkdirLink, MkdirInFlight
<1> QED
  BY <1>3, <1>4, <1>5, <1>6 DEF IInv

\* touch fills a slot that was free with an entry that names no cluster.
LEMMA TouchInv ==
  ASSUME RootCluster = 2, IInv, NEW n \in Typed, fat32_touch(n)
  PROVE  IInv'
<1> USE DEF disk, where, mkdirLocals, cdLocals
<1>1. TypeOK /\ DiskInv /\ WorkAllocated /\ current_dir_cluster \in Clusters
  BY DEF IInv, TypeOK
<1>2. DiskInv' /\ dir' \in [Clusters -> [Slots -> Entry]]
  <2>1. CASE ~ present \/ FreeSlots(dir[current_dir_cluster]) = {}
    <3>1. UNCHANGED disk
      BY <2>1 DEF fat32_touch
    <3> QED
      BY <1>1, <3>1, DiskKept DEF TypeOK
  <2>2. CASE present /\ FreeSlots(dir[current_dir_cluster]) # {}
    <3> DEFINE s0 == Min(FreeSlots(dir[current_dir_cluster]))
               e == FileEntry(BaseOf[n], 0)
    <3>1. /\ s0 \in Slots
          /\ dir[current_dir_cluster][s0].st # "used"
          /\ \A t \in Slots : t < s0 => dir[current_dir_cluster][t].st = "used"
      BY <2>2, FreeSlotFact
    <3>2. BaseOf[n] \in Base /\ BaseOf[n] \notin {Dot, DotDot}
      BY NameAssumption
    <3>3. /\ e \in Entry /\ e.st # "end" /\ e.base \notin {Dot, DotDot}
          /\ e.cl = 0 /\ ~ e.dir
      BY <3>2 DEF FileEntry, Entry
    <3>4. /\ dir' = [dir EXCEPT ![current_dir_cluster] =
                                  [dir[current_dir_cluster] EXCEPT ![s0] = e]]
          /\ fat' = fat
      BY <2>2 DEF fat32_touch
    <3>5. fat[current_dir_cluster] = EOC
      BY <1>1 DEF WorkAllocated
    <3> HIDE DEF s0, e
    <3> QED
      BY <1>1, <3>1, <3>3, <3>4, <3>5, SlotWrite
  <2> QED
    BY <2>1, <2>2
<1>3. TypeOK'
  BY <1>1, <1>2 DEF TypeOK, fat32_touch
<1>4. WorkAllocated' /\ MkdirInFlight'
  BY <1>1 DEF fat32_touch, WorkAllocated, MkdirInFlight
<1> QED
  BY <1>2, <1>3, <1>4 DEF IInv

\* rm deletes an entry that is no dot entry.
LEMMA RmInv ==
  ASSUME RootCluster = 2, IInv, NEW n \in Typed, fat32_rm(n)
  PROVE  IInv'
<1> USE DEF disk, where, mkdirLocals, cdLocals
<1>1. TypeOK /\ DiskInv /\ WorkAllocated /\ current_dir_cluster \in Clusters
  BY DEF IInv, TypeOK
<1>2. DiskInv' /\ dir' \in [Clusters -> [Slots -> Entry]]
  <2> DEFINE found == Matches(current_dir_cluster, n)
  <2>1. CASE ~ present \/ found = {}
    <3>1. UNCHANGED disk
      BY <2>1 DEF fat32_rm
    <3> QED
      BY <1>1, <3>1, DiskKept DEF TypeOK
  <2>2. CASE present /\ found # {}
    <3> DEFINE s0 == Min(found)
    <3>1. s0 \in Slots /\ Names(current_dir_cluster, s0)
      BY <1>1, <2>2, MatchFact
    <3>2. Deleted \in Entry /\ Deleted.st \notin {"end", "used"}
      BY EntryTypes DEF Deleted
    <3>3. /\ dir' = [dir EXCEPT ![current_dir_cluster] =
                       [dir[current_dir_cluster] EXCEPT ![s0] = Deleted]]
          /\ fat' = fat
      BY <2>2 DEF fat32_rm
    <3>4. fat[current_dir_cluster] = EOC
      BY <1>1 DEF WorkAllocated
    <3> HIDE DEF s0
    <3> QED
      BY <1>1, <3>1, <3>2, <3>3, <3>4, SlotWrite
  <2> QED
    BY <2>1, <2>2
<1>3. TypeOK'
  BY <1>1, <1>2 DEF TypeOK, fat32_rm
<1>4. WorkAllocated' /\ MkdirInFlight'
  BY <1>1 DEF fat32_rm, WorkAllocated, MkdirInFlight
<1> QED
  BY <1>2, <1>3, <1>4 DEF IInv

\* The call of cd starts at an allocated cluster: the one it is called from, or 2.
LEMMA CdCallInv ==
  ASSUME RootCluster = 2, IInv, NEW p \in Paths, NEW c \in Clusters,
         NEW q \in Seq(Typed), fat[c] = EOC, CdCall(p, c, q)
  PROVE  IInv'
<1> USE DEF disk, where, mkdirLocals, cdLocals
<1>1. TypeOK /\ DiskInv /\ WorkAllocated
  BY DEF IInv
<1>2. p.comps \in Seq(Typed) /\ 2 \in Clusters
  BY PathAssumption, GeometryAssumption
<1>3. TypeOK'
  <2>1. /\ current_dir_cluster' \in Clusters
        /\ current_path' \in Seq(Typed)
        /\ todo' \in Seq(Typed)
    BY <1>2, SeqFacts DEF CdCall
  <2> QED
    BY <1>1, <2>1 DEF TypeOK, CdCall
<1>4. DiskInv'
  BY <1>1, DiskKept DEF CdCall
<1>5. WorkAllocated' /\ MkdirInFlight'
  BY <1>1 DEF CdCall, WorkAllocated, MkdirInFlight
<1> QED
  BY <1>3, <1>4, <1>5 DEF IInv

\* ".." leads to what the second entry of an allocated directory names.
LEMMA CdUpInv ==
  ASSUME RootCluster = 2, IInv, CdUp
  PROVE  IInv'
<1> USE DEF disk, where, mkdirLocals, cdLocals
<1>1. TypeOK /\ DiskInv /\ WorkAllocated /\ pc = "cd" /\ current_dir_cluster \in Clusters
  BY DEF IInv, TypeOK, CdUp
<1>2. fat32_get_parent_cluster # 0 =>
        /\ fat32_get_parent_cluster \in Clusters
        /\ fat[fat32_get_parent_cluster] = EOC
  <2> DEFINE e == dir[current_dir_cluster][2]
  <2> SUFFICES ASSUME fat32_get_parent_cluster # 0
               PROVE  e.cl \in Clusters /\ fat[e.cl] = EOC
    BY DEF fat32_get_parent_cluster
  <2>1. e.st = "used" /\ e.cl # 0
    BY DEF fat32_get_parent_cluster
  <2>2. e \in Entry
    BY <1>1, SlotsAreNat DEF TypeOK
  <2>3. e.cl \in Clusters
    BY <2>1, <2>2 DEF Entry
  <2> QED
    BY <1>1, <2>1, <2>3, SlotsAreNat DEF DiskInv, LinkedIsAllocated
<1>3. TypeOK'
  <2>1. /\ current_dir_cluster' \in Clusters
        /\ current_path' \in Seq(Typed)
        /\ todo' \in Seq(Typed)
    BY <1>1, <1>2, SeqFacts DEF CdUp, TypeOK
  <2> QED
    BY <1>1, <2>1 DEF TypeOK, CdUp
<1>4. DiskInv'
  BY <1>1, DiskKept DEF CdUp
<1>5. WorkAllocated' /\ MkdirInFlight'
  BY <1>1, <1>2 DEF CdUp, WorkAllocated, MkdirInFlight
<1> QED
  BY <1>3, <1>4, <1>5 DEF IInv

\* A failed cd returns to the cluster it was called from.
LEMMA CdFailInv ==
  ASSUME RootCluster = 2, IInv, pc = "cd", CdFail
  PROVE  IInv'
<1> USE DEF disk, where, mkdirLocals, cdLocals
<1>1. TypeOK /\ DiskInv /\ WorkAllocated
  BY DEF IInv
<1>2. TypeOK'
  BY <1>1, SeqFacts DEF TypeOK, CdFail, NoCd, WorkAllocated
<1>3. DiskInv'
  BY <1>1, DiskKept DEF CdFail
<1>4. WorkAllocated' /\ MkdirInFlight'
  BY <1>1 DEF CdFail, WorkAllocated, MkdirInFlight
<1> QED
  BY <1>2, <1>3, <1>4 DEF IInv

\* A directory that can be entered is in the volume and allocated.
LEMMA CdIntoInv ==
  ASSUME RootCluster = 2, IInv, CdInto
  PROVE  IInv'
<1> USE DEF disk, where, mkdirLocals, cdLocals
<1> DEFINE found == Matches(current_dir_cluster, Head(todo))
           e == dir[current_dir_cluster][Min(found)]
<1>1. TypeOK /\ DiskInv /\ WorkAllocated /\ pc = "cd" /\ current_dir_cluster \in Clusters
  BY DEF IInv, TypeOK, CdInto
<1>2. CASE ~ (present /\ found # {} /\ e.dir)
  <2>1. CdFail
    BY <1>2 DEF CdInto
  <2> QED
    BY <1>1, <2>1, CdFailInv
<1>3. CASE present /\ found # {} /\ e.dir
  <2>1. todo # <<>> /\ Head(todo) \in Typed
    BY <1>1, SeqFacts DEF CdInto, TypeOK
  <2>2. Min(found) \in Slots /\ Names(current_dir_cluster, Min(found))
    BY <1>1, <1>3, <2>1, MatchFact
  <2>3. e.cl \in Clusters
    <3>1. e \in Entry
      BY <1>1, <2>2 DEF TypeOK
    <3>2. e.cl # 0
      BY <1>1, <1>3, <2>2 DEF DiskInv, ParentLinks
    <3> QED
      BY <3>1, <3>2 DEF Entry
  <2>4. fat[e.cl] = EOC
    BY <1>1, <2>2, <2>3, ClustersAreNat DEF DiskInv, LinkedIsAllocated, Names
  <2>5. /\ current_dir_cluster' = e.cl
        /\ current_path' = Append(current_path, Head(todo))
        /\ todo' = Tail(todo)
        /\ UNCHANGED <<present, disk, pc, mkdirLocals, old_cluster, old_path>>
    BY <1>3 DEF CdInto
  <2>6. TypeOK'
    <3>1. /\ current_dir_cluster' \in Clusters
          /\ current_path' \in Seq(Typed)
          /\ todo' \in Seq(Typed)
      BY <1>1, <2>1, <2>3, <2>5, SeqFacts DEF TypeOK
    <3> QED
      BY <1>1, <2>5, <3>1 DEF TypeOK
  <2>7. DiskInv'
    BY <1>1, <2>5, DiskKept
  <2>8. WorkAllocated' /\ MkdirInFlight'
    BY <1>1, <2>4, <2>5 DEF WorkAllocated, MkdirInFlight
  <2> QED
    BY <2>6, <2>7, <2>8 DEF IInv
<1> QED
  BY <1>2, <1>3

\* Every step of the driver, and every loss of power, keeps the invariant.
LEMMA StepInv ==
  ASSUME RootCluster = 2, IInv, [Next]_vars
  PROVE  IInv'
<1> USE DEF disk, where, mkdirLocals, cdLocals
<1>1. /\ TypeOK /\ DiskInv /\ WorkAllocated /\ MkdirInFlight
      /\ current_dir_cluster \in Clusters /\ current_path \in Seq(Typed)
      /\ RootCluster \in Clusters
  BY GeometryAssumption DEF IInv, TypeOK
<1>2. ASSUME NEW n \in Typed, MkdirRefused(n) PROVE IInv'
  <2>1. TypeOK'
    BY <1>1, <1>2 DEF TypeOK, MkdirRefused, vars
  <2>2. DiskInv' /\ WorkAllocated' /\ MkdirInFlight'
    BY <1>1, <1>2, DiskKept DEF MkdirRefused, vars, WorkAllocated, MkdirInFlight
  <2> QED
    BY <2>1, <2>2 DEF IInv
<1>3. ASSUME NEW n \in Typed, MkdirBegin(n) PROVE IInv'
  BY <1>3, MkdirBeginInv
<1>4. CASE MkdirFat
  BY <1>4, MkdirFatInv
<1>5. CASE MkdirDots
  BY <1>5, MkdirDotsInv
<1>6. CASE MkdirLink
  BY <1>6, MkdirLinkInv
<1>7. ASSUME NEW n \in Typed, fat32_touch(n) PROVE IInv'
  BY <1>7, TouchInv
<1>8. ASSUME NEW n \in Typed, fat32_rm(n) PROVE IInv'
  BY <1>8, RmInv
<1>9. ASSUME NEW p \in Paths, CdBegin(p) PROVE IInv'
  BY <1>1, <1>9, CdCallInv DEF CdBegin, WorkAllocated
<1>10. CASE CdNoArg
  <2>1. PICK p \in Paths : CdCall(p, 2, <<>>)
    BY <1>10 DEF CdNoArg
  <2> QED
    BY <1>1, <2>1, SeqFacts, CdCallInv DEF WorkAllocated
<1>11. CASE CdDone
  <2>1. TypeOK'
    BY <1>1, <1>11, SeqFacts DEF TypeOK, CdDone, NoCd
  <2>2. DiskInv' /\ WorkAllocated' /\ MkdirInFlight'
    BY <1>1, <1>11, DiskKept DEF CdDone, WorkAllocated, MkdirInFlight
  <2> QED
    BY <2>1, <2>2 DEF IInv
<1>12. CASE CdUp
  BY <1>12, CdUpInv
<1>13. CASE CdHere
  <2>1. TypeOK'
    BY <1>1, <1>13, SeqFacts DEF TypeOK, CdHere
  <2>2. DiskInv' /\ WorkAllocated' /\ MkdirInFlight'
    BY <1>1, <1>13, DiskKept DEF CdHere, WorkAllocated, MkdirInFlight
  <2> QED
    BY <2>1, <2>2 DEF IInv
<1>14. CASE CdInto
  BY <1>14, CdIntoInv
<1>15. CASE Restart
  <2>1. TypeOK'
    BY <1>1, <1>15, SeqFacts, EntryTypes
       DEF TypeOK, Restart, fat32_init, NoMkdir, NoCd
  <2>2. DiskInv' /\ WorkAllocated' /\ MkdirInFlight'
    BY <1>1, <1>15, DiskKept DEF Restart, fat32_init, WorkAllocated, MkdirInFlight
  <2> QED
    BY <2>1, <2>2 DEF IInv
<1>16. CASE UNCHANGED vars
  <2>1. TypeOK'
    BY <1>1, <1>16 DEF TypeOK, vars
  <2>2. DiskInv' /\ WorkAllocated'
    BY <1>1, <1>16, DiskKept DEF vars, WorkAllocated
  <2>3. MkdirInFlight'
    BY <1>1, <1>16 DEF vars, MkdirInFlight, Names
  <2> QED
    BY <2>1, <2>2, <2>3 DEF IInv
<1> QED
  BY <1>2, <1>3, <1>4, <1>5, <1>6, <1>7, <1>8, <1>9, <1>10, <1>11, <1>12,
     <1>13, <1>14, <1>15, <1>16 DEF Next

-----------------------------------------------------------------------------
(* The theorems.  The root of the volume is cluster 2, as mkfs.vfat makes it: *)
(* fat32_cd hardcodes it.                                                     *)

\* The invariant holds at every moment, power losses included.
THEOREM Invariance ==
  ASSUME RootCluster = 2
  PROVE  Spec => []IInv
<1>1. Init => IInv
  BY InitInv
<1>2. IInv /\ [Next]_vars => IInv'
  BY StepInv
<1> QED
  BY <1>1, <1>2, PTL DEF Spec

\* No variable of the driver leaves its type: no cluster number it works with is
\* outside the volume.
THEOREM TypeCorrect ==
  ASSUME RootCluster = 2
  PROVE  Spec => []TypeOK
<1>1. IInv => TypeOK
  BY DEF IInv
<1> QED
  BY <1>1, Invariance, PTL

\* After any prefix of fat32_mkdir's writes no entry points to a free cluster.
THEOREM CrashSafeAllocation ==
  ASSUME RootCluster = 2
  PROVE  Spec => []LinkedIsAllocated
<1>1. IInv => LinkedIsAllocated
  BY DEF IInv, DiskInv
<1> QED
  BY <1>1, Invariance, PTL

\* After any prefix of fat32_mkdir's writes every directory that has a name is
\* complete and knows its parent.
THEOREM CrashSafeDirectories ==
  ASSUME RootCluster = 2
  PROVE  Spec => []ParentLinks
<1>1. IInv => ParentLinks
  BY DEF IInv, DiskInv
<1> QED
  BY <1>1, Invariance, PTL

\* No cluster is given out twice.
THEOREM Tree ==
  ASSUME RootCluster = 2
  PROVE  Spec => []NoSharedCluster
<1>1. IInv => NoSharedCluster
  BY DEF IInv, DiskInv
<1> QED
  BY <1>1, Invariance, PTL

\* fat32_ls shows every entry in use although it stops at the first end entry.
THEOREM ListingIsComplete ==
  ASSUME RootCluster = 2
  PROVE  Spec => []ListingComplete
<1>1. IInv => ListingComplete
  <2> SUFFICES ASSUME IInv, NEW c \in Clusters,
                      NEW s \in Slots, dir[c][s].st = "used", NEW t \in 1 .. s
               PROVE  dir[c][t].st # "end"
    BY DEF ListingComplete, fat32_ls
  <2>1. t \in Slots /\ (t < s \/ t = s)
    BY GeometryAssumption DEF Slots
  <2> QED
    BY <2>1 DEF IInv, DiskInv, EndIsLast
<1> QED
  BY <1>1, Invariance, PTL

\* At each of fat32_mkdir's writes what it read before is still true.
THEOREM MkdirIsNotStale ==
  ASSUME RootCluster = 2
  PROVE  Spec => []MkdirInFlight
<1>1. IInv => MkdirInFlight
  BY DEF IInv
<1> QED
  BY <1>1, Invariance, PTL

\* No step but rm's makes an entry in use disappear, and rm's takes only one of
\* the working directory that is no dot entry.
THEOREM EntriesAreKept ==
  ASSUME RootCluster = 2
  PROVE  Spec => EntriesSurvive
<1>1. ASSUME IInv, [Next]_vars PROVE OnlyRmRemoves
  <2> USE DEF disk, where, mkdirLocals, cdLocals
  <2>1. /\ TypeOK /\ MkdirInFlight /\ current_dir_cluster \in Clusters
    BY <1>1 DEF IInv, TypeOK
  <2>2. CASE dir' = dir
    BY <2>2 DEF OnlyRmRemoves
  <2>3. CASE MkdirDots
    <3>1. /\ dir[new_cluster] = EmptySector /\ new_cluster \in Clusters
      BY <2>1, <2>3 DEF MkdirDots, MkdirInFlight
    <3>2. \A s \in Slots : dir[new_cluster][s].st # "used"
      <4>1. End.st # "used"
        BY DEF End
      <4> QED
        BY <3>1, <4>1 DEF EmptySector
    <3>3. \A c \in Clusters : c # new_cluster => dir'[c] = dir[c]
      BY <2>1, <2>3 DEF MkdirDots, TypeOK
    <3> QED
      BY <3>2, <3>3 DEF OnlyRmRemoves
  <2>4. CASE MkdirLink /\ dir' # dir
    <3> DEFINE s0 == Min(FreeSlots(parent_buffer))
    <3>1. FreeSlots(parent_buffer) # {} /\ parent_buffer = dir[current_dir_cluster]
      BY <2>1, <2>4 DEF MkdirLink, MkdirInFlight
    <3>2. s0 \in Slots /\ dir[current_dir_cluster][s0].st # "used"
      BY <3>1, FreeSlotFact
    <3> HIDE DEF s0
    <3>3. PICK e : dir' = [dir EXCEPT ![current_dir_cluster] =
                           [dir[current_dir_cluster] EXCEPT ![s0] = e]]
      BY <2>4, <3>1 DEF MkdirLink, s0
    <3>4. \A c \in Clusters, s \in Slots :
            ~ (c = current_dir_cluster /\ s = s0) => dir'[c][s] = dir[c][s]
      BY <2>1, <3>3 DEF TypeOK
    <3> QED
      BY <3>2, <3>4 DEF OnlyRmRemoves
  <2>5. ASSUME NEW n \in Typed, fat32_touch(n), dir' # dir PROVE OnlyRmRemoves
    <3> DEFINE s0 == Min(FreeSlots(dir[current_dir_cluster]))
    <3>1. FreeSlots(dir[current_dir_cluster]) # {}
      BY <2>5 DEF fat32_touch
    <3>2. s0 \in Slots /\ dir[current_dir_cluster][s0].st # "used"
      BY <3>1, FreeSlotFact
    <3> HIDE DEF s0
    <3>3. PICK e : dir' = [dir EXCEPT ![current_dir_cluster] =
                           [dir[current_dir_cluster] EXCEPT ![s0] = e]]
      BY <2>5, <3>1 DEF fat32_touch, s0
    <3>4. \A c \in Clusters, s \in Slots :
            ~ (c = current_dir_cluster /\ s = s0) => dir'[c][s] = dir[c][s]
      BY <2>1, <3>3 DEF TypeOK
    <3> QED
      BY <3>2, <3>4 DEF OnlyRmRemoves
  <2>6. ASSUME NEW n \in Typed, fat32_rm(n), dir' # dir PROVE OnlyRmRemoves
    <3> DEFINE s0 == Min(Matches(current_dir_cluster, n))
    <3>1. Matches(current_dir_cluster, n) # {} /\ pc = "idle"
      BY <2>6 DEF fat32_rm
    <3>2. s0 \in Slots /\ Names(current_dir_cluster, s0)
      BY <2>1, <3>1, MatchFact
    <3> HIDE DEF s0
    <3>3. dir' = [dir EXCEPT ![current_dir_cluster] =
                    [dir[current_dir_cluster] EXCEPT ![s0] = Deleted]]
      BY <2>6 DEF fat32_rm, s0
    <3>4. \A c \in Clusters, s \in Slots :
            dir'[c][s] = IF c = current_dir_cluster /\ s = s0
                         THEN Deleted ELSE dir[c][s]
      BY <2>1, <3>3 DEF TypeOK
    <3> QED
      BY <3>1, <3>2, <3>4 DEF OnlyRmRemoves
  <2>7. CASE UNCHANGED vars
    BY <2>2, <2>7 DEF vars
  <2>8. CASE Next
    <3>1. dir' = dir \/ MkdirDots \/ MkdirLink
          \/ (\E n \in Typed : fat32_touch(n)) \/ (\E n \in Typed : fat32_rm(n))
      BY <2>8 DEF Next, MkdirRefused, vars, MkdirBegin, MkdirFat, CdBegin, CdNoArg,
                  CdCall, CdDone, CdUp, CdHere, CdInto, CdFail, Restart
    <3> QED
      BY <2>2, <2>3, <2>4, <2>5, <2>6, <3>1
  <2> QED
    BY <1>1, <2>7, <2>8
<1> QED
  BY <1>1, Invariance, PTL DEF Spec, EntriesSurvive


-----------------------------------------------------------------------------
(***************************************************************************)
(* Paths and the refinement of NameTree.  What they need beside IInv:      *)
(*  - the path shown, and the one a failed cd goes back to, lead from the  *)
(*    root down to the directory they stand for through directories that   *)
(*    differ, so a handler, which writes its working directory only, never *)
(*    breaks the way to it, and ".." finds a name to go back to;           *)
(*  - the name a running mkdir was given is still free.                    *)
(***************************************************************************)
Leads(q, path, d) ==
  /\ Len(q) = Len(path) + 1
  /\ q[1] = RootCluster /\ q[Len(q)] = d
  /\ \A i, j \in 1 .. Len(q) : q[i] = q[j] => i = j
  /\ \A i \in 1 .. Len(path) :
       LET found == Matches(q[i], path[i]) IN
       /\ found # {}
       /\ dir[q[i]][Min(found)].dir
       /\ dir[q[i]][Min(found)].cl = q[i + 1]

Walked(path, d) == \E q \in Seq(Clusters) : Leads(q, path, d)

NameIsFree ==
  pc \in {"mkdir_fat", "mkdir_dots", "mkdir_link"} =>
    Matches(current_dir_cluster, name) = {}

PathInv ==
  /\ Walked(current_path, current_dir_cluster)
  /\ pc = "cd" => Walked(old_path, old_cluster)
  /\ NameIsFree

\* The empty path leads to the root.
LEMMA WalkRoot == Walked(<<>>, RootCluster)
<1> DEFINE q == <<RootCluster>>
<1>1. /\ q \in Seq(Clusters) /\ Len(q) = 1 /\ q[1] = RootCluster /\ Len(<<>>) = 0
  BY GeometryAssumption
<1> HIDE DEF q
<1>2. Leads(q, <<>>, RootCluster)
  BY <1>1 DEF Leads
<1> QED
  BY <1>1, <1>2 DEF Walked

\* A way down survives a write to the directory it ends in, and one to a
\* directory without names.
LEMMA WalkKept ==
  ASSUME NEW p \in Seq(Typed), NEW d, Walked(p, d),
         \A c \in Clusters, s \in Slots : Names(c, s) /\ c # d => dir'[c] = dir[c]
  PROVE  Walked(p, d)'
<1>1. PICK q \in Seq(Clusters) : Leads(q, p, d)
  BY DEF Walked
<1>2. \A i \in 1 .. Len(p) : /\ q[i] \in Clusters /\ p[i] \in Typed
                             /\ q[i] # d
                             /\ i \in 1 .. Len(q) /\ Len(q) \in 1 .. Len(q)
  BY <1>1 DEF Leads
<1>3. \A i \in 1 .. Len(p) : dir'[q[i]] = dir[q[i]]
  BY <1>1, <1>2, MatchFact DEF Leads
<1>4. \A i \in 1 .. Len(p) : Matches(q[i], p[i])' = Matches(q[i], p[i])
  BY <1>3 DEF Matches
<1>5. Leads(q, p, d)'
  BY <1>1, <1>3, <1>4 DEF Leads
<1> QED
  BY <1>5 DEF Walked

\* Going down: the directory entered is none of those on the way, for each of
\* them has one name, on the way, and the root has none.
LEMMA WalkDown ==
  ASSUME NEW p \in Seq(Typed), NEW d \in Clusters, NEW n \in Typed, NEW c \in Clusters,
         Walked(p, d), NoSharedCluster,
         Matches(d, n) # {},
         dir[d][Min(Matches(d, n))].dir, dir[d][Min(Matches(d, n))].cl = c
  PROVE  Walked(Append(p, n), c)
<1>1. PICK q \in Seq(Clusters) : Leads(q, p, d)
  BY DEF Walked
<1> DEFINE k == Len(q)
           r == Append(q, c)
           pn == Append(p, n)
<1>2. k \in Nat /\ k >= 1 /\ k = Len(p) + 1 /\ Len(p) \in Nat
  BY <1>1 DEF Leads
<1>3. /\ r \in Seq(Clusters) /\ Len(r) = k + 1 /\ r[k + 1] = c
      /\ \A i \in 1 .. k : r[i] = q[i] /\ q[i] \in Clusters
  BY <1>2
<1>4. /\ Len(pn) = Len(p) + 1 /\ pn[Len(p) + 1] = n
      /\ \A i \in 1 .. Len(p) : pn[i] = p[i] /\ p[i] \in Typed
  BY <1>2
<1> HIDE DEF r, pn
<1>5. c # 0
  BY ClustersAreNat
<1>6. \A i \in 1 .. k : q[i] # c
  <2> SUFFICES ASSUME NEW i \in 1 .. k, q[i] = c PROVE FALSE
    OBVIOUS
  <2> DEFINE s == Min(Matches(d, n))
  <2>1. s \in Slots /\ Names(d, s) /\ dir[d][s].cl = c
    BY MatchFact
  <2>2. c # RootCluster
    BY <2>1, <1>5 DEF NoSharedCluster
  <2>3. i # 1
    BY <1>1, <2>2 DEF Leads
  <2>4. i - 1 \in 1 .. Len(p) /\ i - 1 \in 1 .. k /\ k \in 1 .. k
    BY <1>2, <2>3
  <2> DEFINE t == Min(Matches(q[i - 1], p[i - 1]))
  <2>5. t \in Slots /\ Names(q[i - 1], t)
    BY <1>1, <1>3, <1>4, <2>4, MatchFact DEF Leads
  <2>6. dir[q[i - 1]][t].cl = c
    <3>1. (i - 1) + 1 = i
      BY <1>2
    <3> QED
      BY <1>1, <2>4, <3>1 DEF Leads
  <2> HIDE DEF s, t
  <2>7. q[i - 1] = d
    BY <1>3, <1>5, <2>1, <2>4, <2>5, <2>6 DEF NoSharedCluster
  <2>8. i - 1 = k
    BY <1>1, <2>4, <2>7 DEF Leads
  <2> QED
    BY <1>2, <2>8
<1>7. \A i, j \in 1 .. Len(r) : r[i] = r[j] => i = j
  <2> SUFFICES ASSUME NEW i \in 1 .. k + 1, NEW j \in 1 .. k + 1, r[i] = r[j]
               PROVE  i = j
    BY <1>3
  <2>1. (i \in 1 .. k \/ i = k + 1) /\ (j \in 1 .. k \/ j = k + 1)
    BY <1>2
  <2> QED
    BY <1>1, <1>3, <1>6, <2>1 DEF Leads
<1>8. \A i \in 1 .. Len(pn) :
        LET found == Matches(r[i], pn[i]) IN
        /\ found # {}
        /\ dir[r[i]][Min(found)].dir
        /\ dir[r[i]][Min(found)].cl = r[i + 1]
  <2> SUFFICES ASSUME NEW i \in 1 .. k
               PROVE  /\ Matches(r[i], pn[i]) # {}
                      /\ dir[r[i]][Min(Matches(r[i], pn[i]))].dir
                      /\ dir[r[i]][Min(Matches(r[i], pn[i]))].cl = r[i + 1]
    BY <1>2, <1>4
  <2>1. CASE i = k
    <3>1. r[i] = d /\ pn[i] = n /\ r[i + 1] = c
      BY <1>1, <1>2, <1>3, <1>4, <2>1 DEF Leads
    <3> QED
      BY <3>1
  <2>2. CASE i # k
    <3>1. i \in 1 .. Len(p) /\ i + 1 \in 1 .. k
      BY <1>2, <2>2
    <3>2. r[i] = q[i] /\ pn[i] = p[i] /\ r[i + 1] = q[i + 1]
      BY <1>3, <1>4, <3>1
    <3> QED
      BY <1>1, <3>1, <3>2 DEF Leads
  <2> QED
    BY <2>1, <2>2
<1>9. Leads(r, pn, c)
  BY <1>1, <1>2, <1>3, <1>4, <1>7, <1>8 DEF Leads
<1> QED
  BY <1>3, <1>9 DEF Walked, pn

\* Going up: a directory below the root has a name in the one before it on the way.
LEMMA WalkUp ==
  ASSUME NEW p \in Seq(Typed), NEW d \in Clusters, Walked(p, d), d # RootCluster
  PROVE  /\ p # <<>>
         /\ \E c \in Clusters, s \in Slots :
              /\ Names(c, s) /\ dir[c][s].dir /\ dir[c][s].cl = d
              /\ Walked(SubSeq(p, 1, Len(p) - 1), c)
<1>1. PICK q \in Seq(Clusters) : Leads(q, p, d)
  BY DEF Walked
<1> DEFINE k == Len(p)
           r == SubSeq(q, 1, k)
           pu == SubSeq(p, 1, k - 1)
<1>2. k \in Nat /\ k >= 1 /\ Len(q) = k + 1 /\ p # <<>>
  BY <1>1 DEF Leads
<1>3. r \in Seq(Clusters) /\ Len(r) = k /\ \A i \in 1 .. k : r[i] = q[i] /\ q[i] \in Clusters
  BY <1>2
<1>4. Len(pu) = k - 1 /\ \A i \in 1 .. k - 1 : pu[i] = p[i]
  <2>1. k - 1 \in Nat /\ k - 1 <= k
    BY <1>2
  <2>2. ASSUME NEW j \in Nat, j <= Len(p)
        PROVE  Len(SubSeq(p, 1, j)) = j /\ \A i \in 1 .. j : SubSeq(p, 1, j)[i] = p[i]
    BY <2>2
  <2> QED
    BY <1>2, <2>1, <2>2
<1> HIDE DEF r, pu
<1>5. Leads(r, pu, q[k])
  BY <1>1, <1>2, <1>3, <1>4 DEF Leads
<1> DEFINE s == Min(Matches(q[k], p[k]))
<1>6. k \in 1 .. k /\ p[k] \in Typed /\ q[k] \in Clusters
  BY <1>2, <1>3
<1>7. Matches(q[k], p[k]) # {} /\ dir[q[k]][s].dir /\ dir[q[k]][s].cl = d
  BY <1>1, <1>2, <1>6 DEF Leads
<1>8. s \in Slots /\ Names(q[k], s)
  BY <1>6, <1>7, MatchFact
<1> QED
  BY <1>2, <1>3, <1>5, <1>6, <1>7, <1>8 DEF Walked, pu

\* A write to the working directory keeps the way to it.
LEMMA HereKept ==
  ASSUME TypeOK, PathInv,
         UNCHANGED <<current_path, current_dir_cluster>>,
         \A c \in Clusters, s \in Slots :
           Names(c, s) /\ c # current_dir_cluster => dir'[c] = dir[c]
  PROVE  Walked(current_path, current_dir_cluster)'
<1>1. PICK p \in Seq(Typed), d \in Clusters :
        p = current_path /\ d = current_dir_cluster /\ Walked(p, d)
  BY DEF TypeOK, PathInv
<1>2. Walked(p, d)'
  BY <1>1, WalkKept
<1> QED
  BY <1>1, <1>2

\* A node is an entry in use that is no dot entry.
LEMMA NodesAre ==
  \A e : e \in Nodes <=> \E c \in Clusters, s \in Slots :
                            Names(c, s) /\ e = NodeAt(c, s)
<1> SUFFICES ASSUME NEW e
             PROVE  e \in Nodes <=> \E c \in Clusters, s \in Slots :
                                      Names(c, s) /\ e = NodeAt(c, s)
  OBVIOUS
<1> DEFINE P == {y \in Clusters \X Slots : Names(y[1], y[2])}
<1>1. ASSUME e \in Nodes
      PROVE  \E c \in Clusters, s \in Slots : Names(c, s) /\ e = NodeAt(c, s)
  <2>1. PICK x \in P : e = NodeAt(x[1], x[2])
    BY <1>1 DEF Nodes
  <2>2. x[1] \in Clusters /\ x[2] \in Slots /\ Names(x[1], x[2])
    BY <2>1
  <2> QED
    BY <2>1, <2>2
<1>2. ASSUME NEW c \in Clusters, NEW s \in Slots, Names(c, s), e = NodeAt(c, s)
      PROVE  e \in Nodes
  <2> DEFINE x == <<c, s>>
  <2>1. x[1] = c /\ x[2] = s /\ x \in Clusters \X Slots
    OBVIOUS
  <2> HIDE DEF x
  <2>2. x \in P /\ e = NodeAt(x[1], x[2])
    BY <2>1, <1>2
  <2> QED
    BY <2>2 DEF Nodes
<1> QED
  BY <1>1, <1>2

\* Two nodes differ in their place.
LEMMA NodeFields ==
  ASSUME NEW c, NEW s
  PROVE  /\ NodeAt(c, s).in = c /\ NodeAt(c, s).place = s
         /\ NodeAt(c, s).name = dir[c][s].base
         /\ NodeAt(c, s).to = IF dir[c][s].dir THEN dir[c][s].cl ELSE 0
  BY DEF NodeAt

\* What touch, rm and mkdir do to the tree: the entry at one place.
LEMMA NodeWrite ==
  ASSUME NEW c0 \in Clusters, NEW s0 \in Slots,
         \A c \in Clusters, s \in Slots :
           ~ (c = c0 /\ s = s0) => dir'[c][s] = dir[c][s]
  PROVE  /\ ~ Names(c0, s0) /\ Names(c0, s0)' => Nodes' = Nodes \cup {NodeAt(c0, s0)'}
         /\ Names(c0, s0) /\ ~ Names(c0, s0)' => Nodes' = Nodes \ {NodeAt(c0, s0)}
         /\ ~ Names(c0, s0) /\ ~ Names(c0, s0)' => Nodes' = Nodes
<1>1. (\A e : e \in Nodes <=> \E c \in Clusters, s \in Slots :
                               Names(c, s) /\ e = NodeAt(c, s))'
  BY NodesAre, PTL
<1>2. \A c \in Clusters, s \in Slots :
        ~ (c = c0 /\ s = s0) => /\ Names(c, s)' <=> Names(c, s)
                                /\ NodeAt(c, s)' = NodeAt(c, s)
  BY DEF Names, NodeAt
<1>3. \A c \in Clusters, s \in Slots :
        ~ (c = c0 /\ s = s0) => NodeAt(c, s) # NodeAt(c0, s0)
  BY NodeFields
<1>4. ASSUME ~ Names(c0, s0), Names(c0, s0)' PROVE Nodes' = Nodes \cup {NodeAt(c0, s0)'}
  <2>1. \A e : e \in Nodes' <=> e \in Nodes \/ e = NodeAt(c0, s0)'
    BY <1>1, <1>2, <1>4, NodesAre
  <2> QED
    BY <2>1
<1>5. ASSUME Names(c0, s0), ~ Names(c0, s0)' PROVE Nodes' = Nodes \ {NodeAt(c0, s0)}
  <2>1. \A e : e \in Nodes' <=> e \in Nodes /\ e # NodeAt(c0, s0)
    BY <1>1, <1>2, <1>3, <1>5, NodesAre
  <2> QED
    BY <2>1
<1>6. ASSUME ~ Names(c0, s0), ~ Names(c0, s0)' PROVE Nodes' = Nodes
  <2>1. \A e : e \in Nodes' <=> e \in Nodes
    BY <1>1, <1>2, <1>6, NodesAre
  <2> QED
    BY <2>1
<1> QED
  BY <1>4, <1>5, <1>6

\* A step that writes no name keeps the tree.
LEMMA NodesKept ==
  ASSUME \A c \in Clusters, s \in Slots :
           /\ Names(c, s)' <=> Names(c, s)
           /\ Names(c, s) => dir'[c][s] = dir[c][s]
  PROVE  Nodes' = Nodes
<1>1. (\A e : e \in Nodes <=> \E c \in Clusters, s \in Slots :
                               Names(c, s) /\ e = NodeAt(c, s))'
  BY NodesAre, PTL
<1>2. \A c \in Clusters, s \in Slots :
        Names(c, s) => NodeAt(c, s)' = NodeAt(c, s)
  BY DEF NodeAt
<1>3. \A e : e \in Nodes' <=> e \in Nodes
  BY <1>1, <1>2, NodesAre
<1> QED
  BY <1>3

\* A freshly made volume is a tree of files.
LEMMA InitRef ==
  ASSUME RootCluster = 2, Init
  PROVE  PathInv /\ Promise!Init
<1>1. \A c \in Clusters, s \in Slots :
        Names(c, s) => c = RootCluster /\ ~ dir[c][s].dir
  <2> SUFFICES ASSUME NEW c \in Clusters, NEW s \in Slots, Names(c, s)
               PROVE  c = RootCluster /\ ~ dir[c][s].dir
    OBVIOUS
  <2>1. End.st # "used"
    BY DEF End
  <2>2. c = RootCluster
    BY <2>1 DEF Init, Names, EmptySector
  <2>3. dir[c][s] = IF s <= Len(Preloaded)
                    THEN FileEntry(Preloaded[s], RootCluster + s) ELSE End
    BY <2>2, GeometryAssumption DEF Init
  <2>4. dir[c][s] = FileEntry(Preloaded[s], RootCluster + s)
    BY <2>1, <2>3 DEF Names
  <2> QED
    BY <2>2, <2>4 DEF FileEntry
<1>2. current_dir_cluster = RootCluster /\ pc = "idle"
  BY DEF Init
<1>3. PathInv
  <2>1. current_path = <<>>
    BY DEF Init
  <2> QED
    BY <1>2, <2>1, WalkRoot DEF PathInv, NameIsFree
<1>4. \A e \in Nodes : e.in = RootCluster /\ e.to = 0
  BY <1>1, NodesAre, NodeFields
<1> QED
  BY <1>2, <1>3, <1>4 DEF Promise!Init

\* The last write of mkdir makes the directory, all at once, or the parent is full.
LEMMA MkdirLinkRef ==
  ASSUME RootCluster = 2, IInv, PathInv, MkdirLink
  PROVE  PathInv' /\ [Promise!Next]_Promise!vars
<1> USE DEF disk, where, mkdirLocals, cdLocals
<1>1. /\ TypeOK /\ MkdirInFlight /\ current_dir_cluster \in Clusters /\ new_cluster \in Clusters
      /\ parent_buffer = dir[current_dir_cluster]
      /\ pc = "mkdir_link" /\ pc' = "idle"
      /\ current_dir_cluster' = current_dir_cluster /\ current_path' = current_path
      /\ name \in Typed
  BY DEF IInv, TypeOK, MkdirLink, MkdirInFlight
<1>2. CASE dir' = dir
  <2>1. Nodes' = Nodes
    BY <1>2 DEF Nodes, Names, NodeAt
  <2>2. PathInv'
    BY <1>1, <1>2, HereKept DEF PathInv, NameIsFree
  <2> QED
    BY <1>1, <2>1, <2>2 DEF Promise!vars
<1>3. CASE dir' # dir
  <2>1. FreeSlots(parent_buffer) # {}
    BY <1>3 DEF MkdirLink
  <2>2. PICK c0 \in Clusters, s0 \in Slots, d0 \in Clusters,
               e0 \in {DirEntry(BaseOf[name], new_cluster)} :
          /\ c0 = current_dir_cluster /\ s0 = Min(FreeSlots(parent_buffer))
          /\ d0 = new_cluster
          /\ dir[c0][s0].st # "used"
    BY <1>1, <2>1, FreeSlotFact
  <2>3. dir' = [dir EXCEPT ![c0] = [dir[c0] EXCEPT ![s0] = e0]]
    BY <1>1, <1>3, <2>2 DEF MkdirLink
  <2>4. \A c \in Clusters, s \in Slots :
          dir'[c][s] = IF c = c0 /\ s = s0 THEN e0 ELSE dir[c][s]
    BY <1>1, <2>3 DEF TypeOK
  <2>5. /\ e0.st = "used" /\ e0.base = BaseOf[name] /\ e0.dir /\ e0.cl = d0
        /\ BaseOf[name] \in Base
        /\ BaseOf[name] \notin {Dot, DotDot}
    <3>1. e0 = DirEntry(BaseOf[name], new_cluster)
      OBVIOUS
    <3> QED
      BY <1>1, <2>2, <3>1, NameAssumption DEF DirEntry
  <2>6. ~ Names(c0, s0) /\ Names(c0, s0)'
    BY <1>1, <2>2, <2>4, <2>5 DEF Names
  <2>7. PICK n : n = NodeAt(c0, s0)'
    OBVIOUS
  <2>8. n.in = c0 /\ n.place = s0 /\ n.name = BaseOf[name] /\ n.to = d0
    BY <2>4, <2>5, <2>7 DEF NodeAt
  <2>9. Nodes' = Nodes \cup {n}
    BY <2>4, <2>6, <2>7, NodeWrite
  <2>10. \A f \in Nodes : f.in = c0 => f.place # s0
    BY <2>6, NodesAre, NodeFields
  <2>11. n \in Nodes' \ Nodes
    BY <2>8, <2>9, <2>10
  <2>12. d0 \in Clusters \ {RootCluster, c0} /\ d0 # 0
    BY <1>1, <2>2, ClustersAreNat DEF MkdirInFlight
  <2>13. \A s \in Slots : ~ Names(d0, s)
    <3>1. dir[d0] = DotSector(d0, c0)
      BY <1>1, <2>2 DEF MkdirInFlight
    <3>2. /\ dir[d0][1] = DirEntry(Dot, d0)
          /\ dir[d0][2] = DirEntry(DotDot, IF c0 = 2 THEN 0 ELSE c0)
          /\ \A s \in Slots \ {1, 2} : dir[d0][s] = End
      BY <3>1, DotSectorType
    <3>3. \A b, c : DirEntry(b, c).base = b
      BY DEF DirEntry
    <3>4. End.st # "used"
      BY DEF End
    <3> QED
      BY <3>2, <3>3, <3>4 DEF Names
  <2>14. \A f \in Nodes : f.to # d0 /\ f.in # d0
    <3> SUFFICES ASSUME NEW c \in Clusters, NEW s \in Slots, Names(c, s)
                 PROVE  NodeAt(c, s).to # d0 /\ NodeAt(c, s).in # d0
      BY NodesAre
    <3>1. dir[c][s].cl # d0
      BY <1>1, <2>2 DEF MkdirInFlight
    <3> QED
      BY <2>12, <2>13, <3>1, NodeFields
  <2>15. \A f \in Nodes : f.in = c0 => f.name # BaseOf[name]
    <3> SUFFICES ASSUME NEW s \in Slots, Names(c0, s)
                 PROVE  dir[c0][s].base # BaseOf[name]
      BY NodesAre, NodeFields
    <3> QED
      BY <1>1, <2>2 DEF PathInv, NameIsFree, Matches, Names
  <2>16. Promise!MakeDir
    BY <1>1, <2>2, <2>5, <2>8, <2>9, <2>10, <2>11, <2>12, <2>14, <2>15
       DEF Promise!MakeDir, Promise!Adds
  <2>17. PathInv'
    <3>1. Walked(current_path, current_dir_cluster)'
      BY <1>1, <2>2, <2>3, HereKept DEF TypeOK
    <3> QED
      BY <1>1, <3>1 DEF PathInv, NameIsFree
  <2> QED
    BY <2>16, <2>17 DEF Promise!Next
<1> QED
  BY <1>2, <1>3

\* touch makes one file, or the directory is full.
LEMMA TouchRef ==
  ASSUME RootCluster = 2, IInv, PathInv, NEW n \in Typed, fat32_touch(n)
  PROVE  PathInv' /\ [Promise!Next]_Promise!vars
<1> USE DEF disk, where, mkdirLocals, cdLocals
<1>1. /\ TypeOK /\ current_dir_cluster \in Clusters
      /\ pc = "idle" /\ pc' = "idle"
      /\ current_dir_cluster' = current_dir_cluster /\ current_path' = current_path
  BY DEF IInv, TypeOK, fat32_touch
<1>2. CASE dir' = dir
  <2>1. Nodes' = Nodes
    BY <1>2 DEF Nodes, Names, NodeAt
  <2>2. PathInv'
    BY <1>1, <1>2, HereKept DEF PathInv, NameIsFree
  <2> QED
    BY <1>1, <2>1, <2>2 DEF Promise!vars
<1>3. CASE dir' # dir
  <2>1. FreeSlots(dir[current_dir_cluster]) # {}
    BY <1>3 DEF fat32_touch
  <2>2. PICK c0 \in Clusters, s0 \in Slots, e0 \in {FileEntry(BaseOf[n], 0)} :
          /\ c0 = current_dir_cluster
          /\ s0 = Min(FreeSlots(dir[current_dir_cluster]))
          /\ dir[c0][s0].st # "used"
    BY <1>1, <2>1, FreeSlotFact
  <2>3. dir' = [dir EXCEPT ![c0] = [dir[c0] EXCEPT ![s0] = e0]]
    BY <1>1, <1>3, <2>2 DEF fat32_touch
  <2>4. \A c \in Clusters, s \in Slots :
          dir'[c][s] = IF c = c0 /\ s = s0 THEN e0 ELSE dir[c][s]
    BY <1>1, <2>3 DEF TypeOK
  <2>5. /\ e0.st = "used" /\ e0.base \in Base /\ ~ e0.dir /\ e0.cl = 0
        /\ e0.base \notin {Dot, DotDot}
    <3>1. e0 = FileEntry(BaseOf[n], 0)
      OBVIOUS
    <3> QED
      BY <3>1, NameAssumption DEF FileEntry
  <2>6. ~ Names(c0, s0) /\ Names(c0, s0)'
    BY <2>2, <2>4, <2>5 DEF Names
  <2>7. PICK f : f = NodeAt(c0, s0)'
    OBVIOUS
  <2>8. f.in = c0 /\ f.place = s0 /\ f.name \in Base /\ f.to = 0
    BY <2>4, <2>5, <2>7 DEF NodeAt
  <2>9. Nodes' = Nodes \cup {f}
    BY <2>4, <2>6, <2>7, NodeWrite
  <2>10. \A g \in Nodes : g.in = c0 => g.place # s0
    BY <2>6, NodesAre, NodeFields
  <2>11. f \in Nodes' \ Nodes
    BY <2>8, <2>9, <2>10
  <2>12. Promise!MakeFile
    BY <1>1, <2>2, <2>8, <2>9, <2>10, <2>11 DEF Promise!MakeFile, Promise!Adds
  <2>13. PathInv'
    <3>1. Walked(current_path, current_dir_cluster)'
      BY <1>1, <2>2, <2>3, HereKept DEF TypeOK
    <3> QED
      BY <1>1, <3>1 DEF PathInv, NameIsFree
  <2> QED
    BY <2>12, <2>13 DEF Promise!Next
<1> QED
  BY <1>2, <1>3

\* rm takes one node away, never the one that leads to the working directory.
LEMMA RmRef ==
  ASSUME RootCluster = 2, IInv, PathInv, NEW n \in Typed, fat32_rm(n)
  PROVE  PathInv' /\ [Promise!Next]_Promise!vars
<1> USE DEF disk, where, mkdirLocals, cdLocals
<1>1. /\ TypeOK /\ current_dir_cluster \in Clusters
      /\ pc = "idle" /\ pc' = "idle"
      /\ current_dir_cluster' = current_dir_cluster /\ current_path' = current_path
  BY DEF IInv, TypeOK, fat32_rm
<1>2. CASE dir' = dir
  <2>1. Nodes' = Nodes
    BY <1>2 DEF Nodes, Names, NodeAt
  <2>2. PathInv'
    BY <1>1, <1>2, HereKept DEF PathInv, NameIsFree
  <2> QED
    BY <1>1, <2>1, <2>2 DEF Promise!vars
<1>3. CASE dir' # dir
  <2>1. Matches(current_dir_cluster, n) # {}
    BY <1>3 DEF fat32_rm
  <2>2. PICK c0 \in Clusters, s0 \in Slots :
          /\ c0 = current_dir_cluster
          /\ s0 = Min(Matches(current_dir_cluster, n))
          /\ Names(c0, s0)
    BY <1>1, <2>1, MatchFact
  <2>3. dir' = [dir EXCEPT ![c0] = [dir[c0] EXCEPT ![s0] = Deleted]]
    BY <1>1, <1>3, <2>2 DEF fat32_rm
  <2>4. \A c \in Clusters, s \in Slots :
          dir'[c][s] = IF c = c0 /\ s = s0 THEN Deleted ELSE dir[c][s]
    BY <1>1, <2>3 DEF TypeOK
  <2>5. Deleted.st # "used"
    BY DEF Deleted
  <2>6. ~ Names(c0, s0)'
    BY <2>4, <2>5 DEF Names
  <2>7. PICK f : f = NodeAt(c0, s0)
    OBVIOUS
  <2>8. f \in Nodes /\ f.in = c0
    BY <2>2, <2>7, NodesAre, NodeFields
  <2>9. Nodes' = Nodes \ {f}
    BY <2>2, <2>4, <2>6, <2>7, NodeWrite
  <2>10. Promise!Remove
    BY <1>1, <2>2, <2>8, <2>9 DEF Promise!Remove
  <2>11. PathInv'
    <3>1. Walked(current_path, current_dir_cluster)'
      BY <1>1, <2>2, <2>3, HereKept DEF TypeOK
    <3> QED
      BY <1>1, <3>1 DEF PathInv, NameIsFree
  <2> QED
    BY <2>10, <2>11 DEF Promise!Next
<1> QED
  BY <1>2, <1>3


\* A step that writes no entry keeps the tree and every way down.
LEMMA DirKept ==
  ASSUME UNCHANGED dir
  PROVE  /\ Nodes' = Nodes
         /\ \A p, d : Walked(p, d) => Walked(p, d)'
         /\ \A c, n : Matches(c, n)' = Matches(c, n)
<1>1. Nodes' = Nodes
  BY DEF Nodes, Names, NodeAt
<1>2. \A c, n : Matches(c, n)' = Matches(c, n)
  BY DEF Matches
<1>3. \A q, p, d : Leads(q, p, d) => Leads(q, p, d)'
  BY <1>2 DEF Leads
<1>4. \A p, d : Walked(p, d) => Walked(p, d)'
  BY <1>3 DEF Walked
<1> QED
  BY <1>1, <1>2, <1>4

\* ".." goes to the directory that holds the name of this one, or stays.
LEMMA CdUpRef ==
  ASSUME RootCluster = 2, IInv, PathInv, CdUp
  PROVE  PathInv' /\ [Promise!Next]_Promise!vars
<1> USE DEF disk, where, mkdirLocals, cdLocals
<1>1. PICK p \in Seq(Typed), d \in Clusters, op \in {old_path}, od \in {old_cluster} :
        /\ p = current_path /\ d = current_dir_cluster /\ Walked(p, d)
        /\ Walked(op, od)
  BY DEF IInv, TypeOK, PathInv, CdUp
<1>2. /\ UNCHANGED <<dir, pc, old_cluster, old_path>> /\ pc = "cd"
      /\ DiskInv
  BY DEF IInv, CdUp
<1>3. Nodes' = Nodes /\ Walked(old_path, old_cluster)' /\ NameIsFree'
  BY <1>1, <1>2, DirKept DEF NameIsFree
<1>4. CASE fat32_get_parent_cluster = 0
  <2>1. current_dir_cluster' = current_dir_cluster /\ current_path' = current_path
    BY <1>4 DEF CdUp
  <2>2. Walked(current_path, current_dir_cluster)'
    BY <1>1, <1>2, <2>1, DirKept
  <2> QED
    BY <1>2, <1>3, <2>1, <2>2 DEF PathInv, Promise!vars
<1>5. CASE fat32_get_parent_cluster # 0
  <2>1. d # RootCluster /\ current_dir_cluster' = dir[d][2].cl /\ dir[d][2].cl # 0
    BY <1>1, <1>5 DEF CdUp, fat32_get_parent_cluster
  <2>2. PICK c \in Clusters, s \in Slots :
          /\ Names(c, s) /\ dir[c][s].dir /\ dir[c][s].cl = d
          /\ Walked(SubSeq(p, 1, Len(p) - 1), c)
    BY <1>1, <2>1, WalkUp
  <2>3. p # <<>> /\ current_path' = SubSeq(p, 1, Len(p) - 1)
    BY <1>1, <1>5, <2>1, WalkUp DEF CdUp
  <2>4. dir[d][2] = DirEntry(DotDot, IF c = 2 THEN 0 ELSE c)
    BY <1>2, <2>2 DEF DiskInv, ParentLinks
  <2>5. current_dir_cluster' = c
    BY <2>1, <2>4 DEF DirEntry
  <2>6. NodeAt(c, s) \in Nodes /\ NodeAt(c, s).in = c /\ NodeAt(c, s).to = d
    BY <2>2, NodesAre, NodeFields
  <2>7. Promise!Up
    BY <1>1, <1>2, <1>3, <2>5, <2>6 DEF Promise!Up
  <2>8. Walked(current_path, current_dir_cluster)'
    BY <1>2, <2>2, <2>3, <2>5, DirKept
  <2> QED
    BY <1>2, <1>3, <2>7, <2>8 DEF PathInv, Promise!Next
<1> QED
  BY <1>4, <1>5

\* A failed cd goes back to where it was called.
LEMMA CdFailRef ==
  ASSUME RootCluster = 2, IInv, PathInv, pc = "cd", CdFail
  PROVE  PathInv' /\ [Promise!Next]_Promise!vars
<1> USE DEF disk
<1>1. PICK op, od : op = old_path /\ od = old_cluster /\ Walked(op, od)
  BY DEF PathInv
<1>2. /\ UNCHANGED dir /\ pc' = "idle"
      /\ current_path' = op /\ current_dir_cluster' = od
  BY <1>1 DEF CdFail
<1>3. Nodes' = Nodes /\ Walked(op, od)'
  BY <1>1, <1>2, DirKept
<1>4. Walked(current_path, current_dir_cluster)'
  BY <1>2, <1>3
<1>5. Promise!GiveUp
  BY <1>1, <1>2, <1>3 DEF Promise!GiveUp
<1> QED
  BY <1>2, <1>4, <1>5 DEF PathInv, NameIsFree, Promise!Next

\* A component leads down the tree, or the cd has failed.
LEMMA CdIntoRef ==
  ASSUME RootCluster = 2, IInv, PathInv, CdInto
  PROVE  PathInv' /\ [Promise!Next]_Promise!vars
<1> USE DEF disk, where, mkdirLocals, cdLocals
<1> DEFINE found == Matches(current_dir_cluster, Head(todo))
           e == dir[current_dir_cluster][Min(found)]
<1>1. CASE ~ (present /\ found # {} /\ e.dir)
  <2>1. CdFail /\ pc = "cd"
    BY <1>1 DEF CdInto
  <2> QED
    BY <2>1, CdFailRef
<1>2. CASE present /\ found # {} /\ e.dir
  <2>1. PICK p \in Seq(Typed), d \in Clusters, n \in Typed,
               op \in {old_path}, od \in {old_cluster} :
          /\ p = current_path /\ d = current_dir_cluster /\ Walked(p, d)
          /\ Walked(op, od)
          /\ n = Head(todo)
    BY SeqFacts DEF IInv, TypeOK, PathInv, CdInto
  <2>2. /\ UNCHANGED <<dir, pc, old_cluster, old_path>> /\ pc = "cd"
        /\ current_path' = Append(p, n)
        /\ current_dir_cluster' = e.cl
        /\ TypeOK /\ DiskInv
    BY <1>2, <2>1 DEF CdInto, IInv
  <2>3. PICK s \in Slots : s = Min(found) /\ Names(d, s)
    BY <1>2, <2>1, MatchFact
  <2>4. dir[d][s].cl \in Clusters
    <3>1. dir[d][s] \in Entry
      BY <2>2 DEF TypeOK
    <3>2. dir[d][s].cl # 0
      BY <1>2, <2>1, <2>2, <2>3 DEF DiskInv, ParentLinks
    <3> QED
      BY <3>1, <3>2 DEF Entry
  <2>5. PICK c \in Clusters : c = dir[d][s].cl
    BY <2>4
  <2>6. Walked(Append(p, n), c)
    BY <1>2, <2>1, <2>2, <2>3, <2>5, WalkDown DEF DiskInv
  <2>7. Nodes' = Nodes /\ Walked(old_path, old_cluster)' /\ Walked(Append(p, n), c)'
    BY <2>1, <2>2, <2>6, DirKept
  <2>8. current_dir_cluster' = c
    BY <2>1, <2>2, <2>3, <2>5
  <2>9. NodeAt(d, s) \in Nodes /\ NodeAt(d, s).in = d /\ NodeAt(d, s).to = c
    BY <1>2, <2>1, <2>3, <2>5, NodesAre, NodeFields
  <2>10. Promise!Down
    BY <2>1, <2>2, <2>7, <2>8, <2>9, ClustersAreNat DEF Promise!Down
  <2>11. Walked(current_path, current_dir_cluster)'
    BY <2>2, <2>7, <2>8
  <2> QED
    BY <2>2, <2>7, <2>10, <2>11 DEF PathInv, NameIsFree, Promise!Next
<1> QED
  BY <1>1, <1>2

\* The writes of mkdir before the last one touch no directory that has a name.
LEMMA MkdirWritesRef ==
  ASSUME RootCluster = 2, IInv, PathInv, MkdirFat \/ MkdirDots
  PROVE  PathInv' /\ UNCHANGED Promise!vars
<1> USE DEF disk, where, mkdirLocals, cdLocals
<1>1. PICK c0 \in Clusters, p \in Seq(Typed), nc \in Clusters, n \in {name} :
        /\ c0 = current_dir_cluster /\ p = current_path /\ Walked(p, c0)
        /\ nc = new_cluster /\ nc # c0
        /\ Matches(c0, n) = {}
  BY DEF IInv, TypeOK, PathInv, NameIsFree, MkdirInFlight, MkdirFat, MkdirDots
<1>2. /\ UNCHANGED <<current_dir_cluster, current_path, name>>
      /\ pc \in {"mkdir_fat", "mkdir_dots"} /\ pc' \in {"mkdir_dots", "mkdir_link"}
  BY DEF MkdirFat, MkdirDots
<1>3. \A c \in Clusters : c # nc => dir'[c] = dir[c]
  BY <1>1 DEF IInv, TypeOK, MkdirFat, MkdirDots
<1>4. \A s \in Slots : ~ Names(nc, s) /\ ~ Names(nc, s)'
  <2>1. End.st # "used"
    BY DEF End
  <2>2. dir[nc] = EmptySector
    BY <1>1, <1>2 DEF IInv, MkdirInFlight
  <2>3. \A s \in Slots : ~ Names(nc, s)
    BY <2>1, <2>2 DEF Names, EmptySector
  <2>4. CASE MkdirFat
    BY <2>3, <2>4 DEF MkdirFat, Names
  <2>5. CASE MkdirDots
    <3>1. dir'[nc] = DotSector(nc, c0)
      BY <1>1, <2>5 DEF IInv, TypeOK, MkdirDots
    <3>2. \A s \in Slots : dir'[nc][s].base \in {Dot, DotDot} \/ dir'[nc][s] = End
      <4>1. \A b, c : DirEntry(b, c).base = b
        BY DEF DirEntry
      <4>2. /\ dir'[nc][1] = DirEntry(Dot, nc)
            /\ dir'[nc][2] = DirEntry(DotDot, IF c0 = 2 THEN 0 ELSE c0)
            /\ \A s \in Slots \ {1, 2} : dir'[nc][s] = End
        BY <3>1, DotSectorType
      <4> QED
        BY <4>1, <4>2
    <3> QED
      BY <2>1, <2>3, <3>2 DEF Names
  <2> QED
    BY <2>4, <2>5
<1>5. Nodes' = Nodes
  <2>1. \A c \in Clusters, s \in Slots :
          /\ Names(c, s)' <=> Names(c, s)
          /\ Names(c, s) => dir'[c][s] = dir[c][s]
    BY <1>3, <1>4 DEF Names
  <2> QED
    BY <2>1, NodesKept
<1>6. Walked(p, c0)'
  BY <1>1, <1>3, <1>4, WalkKept
<1>7. Matches(c0, n)' = {}
  BY <1>1, <1>3 DEF Matches
<1>8. PathInv'
  BY <1>1, <1>2, <1>6, <1>7 DEF PathInv, NameIsFree
<1> QED
  BY <1>2, <1>5, <1>8 DEF Promise!vars

\* Every step of the driver is a step of the tree of names, or none.
LEMMA StepRef ==
  ASSUME RootCluster = 2, IInv, PathInv, [Next]_vars
  PROVE  PathInv' /\ [Promise!Next]_Promise!vars
<1> USE DEF disk, where, mkdirLocals, cdLocals
<1>1. PICK c0 \in Clusters, p \in Seq(Typed) :
        c0 = current_dir_cluster /\ p = current_path /\ Walked(p, c0)
  BY DEF IInv, TypeOK, PathInv
<1>2. ASSUME UNCHANGED vars PROVE PathInv' /\ UNCHANGED Promise!vars
  <2>1. UNCHANGED <<dir, pc, current_dir_cluster, current_path, old_cluster, old_path, name>>
    BY <1>2 DEF vars
  <2>2. Nodes' = Nodes /\ Walked(p, c0)'
    BY <1>1, <2>1, DirKept
  <2>3. pc = "cd" => Walked(old_path, old_cluster)'
    <3>1. PICK op, od : op = old_path /\ od = old_cluster
      OBVIOUS
    <3> QED
      BY <2>1, <3>1, DirKept DEF PathInv
  <2>4. NameIsFree'
    BY <2>1 DEF PathInv, NameIsFree, Matches
  <2> QED
    BY <1>1, <2>1, <2>2, <2>3, <2>4 DEF PathInv, Promise!vars
<1>3. ASSUME NEW n \in Typed, MkdirRefused(n)
      PROVE  PathInv' /\ [Promise!Next]_Promise!vars
  BY <1>2, <1>3 DEF MkdirRefused
<1>4. ASSUME NEW n \in Typed, MkdirBegin(n)
      PROVE  PathInv' /\ [Promise!Next]_Promise!vars
  <2>1. /\ UNCHANGED <<dir, current_dir_cluster, current_path, old_cluster>>
        /\ pc = "idle" /\ pc' = "mkdir_fat" /\ name' = n
        /\ Matches(c0, n) = {}
    BY <1>1, <1>4 DEF MkdirBegin
  <2>2. Nodes' = Nodes /\ Walked(p, c0)' /\ Matches(c0, n)' = {}
    BY <1>1, <2>1, DirKept
  <2> QED
    BY <1>1, <2>1, <2>2 DEF PathInv, NameIsFree, Promise!vars
<1>5. CASE MkdirFat \/ MkdirDots
  BY <1>5, MkdirWritesRef
<1>6. CASE MkdirLink
  BY <1>6, MkdirLinkRef
<1>7. ASSUME NEW n \in Typed, fat32_touch(n)
      PROVE  PathInv' /\ [Promise!Next]_Promise!vars
  BY <1>7, TouchRef
<1>8. ASSUME NEW n \in Typed, fat32_rm(n)
      PROVE  PathInv' /\ [Promise!Next]_Promise!vars
  BY <1>8, RmRef
<1>9. ASSUME NEW a \in Paths, CdBegin(a)
      PROVE  PathInv' /\ [Promise!Next]_Promise!vars
  <2>1. /\ UNCHANGED dir /\ pc = "idle" /\ pc' = "cd"
        /\ old_cluster' = c0 /\ old_path' = p
        /\ current_dir_cluster' = IF a.abs THEN RootCluster ELSE c0
        /\ current_path' = IF a.abs THEN <<>> ELSE p
    BY <1>1, <1>9 DEF CdBegin, CdCall
  <2>2. Nodes' = Nodes /\ Walked(p, c0)' /\ Walked(<<>>, RootCluster)'
    BY <1>1, <2>1, DirKept, WalkRoot
  <2>3. PathInv'
    BY <2>1, <2>2 DEF PathInv, NameIsFree
  <2>4. Promise!ToRoot \/ UNCHANGED Promise!vars
    BY <1>1, <2>1, <2>2 DEF Promise!ToRoot, Promise!vars
  <2> QED
    BY <2>3, <2>4 DEF Promise!Next
<1>10. CASE CdNoArg
  <2>1. PICK a \in Paths : CdCall(a, 2, <<>>) /\ pc = "idle"
    BY <1>10 DEF CdNoArg
  <2>2. /\ UNCHANGED dir /\ pc' = "cd"
        /\ old_cluster' = RootCluster /\ old_path' = <<>>
        /\ current_dir_cluster' = RootCluster /\ current_path' = <<>>
    BY <2>1 DEF CdCall
  <2>3. Nodes' = Nodes /\ Walked(<<>>, RootCluster)'
    BY <2>2, DirKept, WalkRoot
  <2>4. Promise!Home
    BY <2>1, <2>2, <2>3 DEF Promise!Home
  <2> QED
    BY <2>2, <2>3, <2>4 DEF PathInv, NameIsFree, Promise!Next
<1>11. CASE CdDone
  <2>1. /\ UNCHANGED <<dir, current_dir_cluster, current_path>>
        /\ pc = "cd" /\ pc' = "idle"
    BY <1>11 DEF CdDone
  <2>2. Nodes' = Nodes /\ Walked(p, c0)'
    BY <1>1, <2>1, DirKept
  <2>3. Promise!Arrive
    BY <2>1, <2>2 DEF Promise!Arrive
  <2> QED
    BY <1>1, <2>1, <2>2, <2>3 DEF PathInv, NameIsFree, Promise!Next
<1>12. CASE CdUp
  BY <1>12, CdUpRef
<1>13. CASE CdHere
  <2>1. /\ UNCHANGED <<dir, current_dir_cluster, current_path, pc, old_cluster, old_path>>
        /\ pc = "cd"
    BY <1>13 DEF CdHere
  <2>2. PICK op, od : op = old_path /\ od = old_cluster /\ Walked(op, od)
    BY <2>1 DEF PathInv
  <2>3. Nodes' = Nodes /\ Walked(p, c0)' /\ Walked(op, od)'
    BY <1>1, <2>1, <2>2, DirKept
  <2> QED
    BY <1>1, <2>1, <2>2, <2>3 DEF PathInv, NameIsFree, Promise!vars
<1>14. CASE CdInto
  BY <1>14, CdIntoRef
<1>15. CASE Restart
  <2>1. /\ UNCHANGED dir /\ pc' = "idle"
        /\ current_dir_cluster' = RootCluster /\ current_path' = <<>>
    BY <1>15 DEF Restart, fat32_init
  <2>2. Nodes' = Nodes /\ Walked(<<>>, RootCluster)'
    BY <2>1, DirKept, WalkRoot
  <2>3. Promise!Home
    BY <2>1, <2>2 DEF Promise!Home
  <2> QED
    BY <2>1, <2>2, <2>3 DEF PathInv, NameIsFree, Promise!Next
<1>16. CASE UNCHANGED vars
  BY <1>2, <1>16
<1> QED
  BY <1>3, <1>4, <1>5, <1>6, <1>7, <1>8, <1>9, <1>10, <1>11, <1>12,
     <1>13, <1>14, <1>15, <1>16 DEF Next

\* Where the names of a path lead is where the way down ends.
LEMMA ResolveIs ==
  ASSUME NEW p \in Seq(Typed), NEW d \in Clusters, Walked(p, d)
  PROVE  Resolve(p) = d
<1>1. PICK q \in Seq(Clusters) : Leads(q, p, d)
  BY DEF Walked
<1> DEFINE S == 0 .. Len(p)
           F(f) == [i \in S |->
                      IF i = 0 THEN RootCluster
                      ELSE IF f[i - 1] = 0 \/ Matches(f[i - 1], p[i]) = {} THEN 0
                      ELSE dir[f[i - 1]][Min(Matches(f[i - 1], p[i]))].cl]
           at == CHOOSE f : f = F(f)
           g == [i \in S |-> q[i + 1]]
<1>2. Len(p) \in Nat /\ Len(q) = Len(p) + 1
  BY <1>1 DEF Leads
<1>3. \A i \in S : i + 1 \in 1 .. Len(q) /\ g[i] \in Clusters /\ g[i] = q[i + 1]
  BY <1>2
<1>4. \A i \in S \ {0} : i - 1 \in S /\ i \in 1 .. Len(p) /\ g[i - 1] = q[i]
  BY <1>2
<1> HIDE DEF g
<1>5. \A i \in S : g[i] = IF i = 0 THEN RootCluster
                           ELSE IF g[i - 1] = 0 \/ Matches(g[i - 1], p[i]) = {} THEN 0
                           ELSE dir[g[i - 1]][Min(Matches(g[i - 1], p[i]))].cl
  <2> SUFFICES ASSUME NEW i \in S
               PROVE  g[i] = IF i = 0 THEN RootCluster
                             ELSE IF g[i - 1] = 0 \/ Matches(g[i - 1], p[i]) = {} THEN 0
                             ELSE dir[g[i - 1]][Min(Matches(g[i - 1], p[i]))].cl
    OBVIOUS
  <2>1. CASE i = 0
    BY <1>1, <1>3, <2>1 DEF Leads
  <2>2. CASE i # 0
    <3>1. i \in 1 .. Len(p) /\ g[i - 1] = q[i] /\ g[i - 1] # 0 /\ g[i] = q[i + 1]
      BY <1>3, <1>4, <2>2, ClustersAreNat
    <3> QED
      BY <1>1, <2>2, <3>1 DEF Leads
  <2> QED
    BY <2>1, <2>2
<1>6. g = F(g)
  BY <1>5 DEF g
<1>7. at = F(at)
  BY <1>6
<1>8. Resolve(p) = at[Len(p)]
  BY DEF Resolve
<1> HIDE DEF at
<1>9. \A i \in S : at[i] = g[i]
  <2> DEFINE B == {i \in S : at[i] # g[i]}
  <2> SUFFICES ASSUME B # {} PROVE FALSE
    OBVIOUS
  <2>1. B \in SUBSET Nat
    BY <1>2
  <2>2. Min(B) \in B /\ \A y \in B : Min(B) <= y
    BY <2>1, MinFact
  <2>3. PICK m \in S : at[m] # g[m] /\ \A y \in B : m <= y
    BY <2>2
  <2>4. m # 0
    BY <1>5, <1>7, <2>3
  <2>5. m - 1 \in S /\ ~ (m <= m - 1)
    BY <1>2, <2>4
  <2>6. at[m - 1] = g[m - 1]
    BY <2>3, <2>5
  <2> QED
    BY <1>5, <1>7, <2>3, <2>4, <2>6
<1>10. Len(p) \in S /\ g[Len(p)] = d
  BY <1>1, <1>2, <1>3 DEF Leads
<1> QED
  BY <1>8, <1>9, <1>10

\* What PathInv says of the working directory is what the prompt promises.
LEMMA PathIsTrue ==
  ASSUME IInv, PathInv
  PROVE  PathResolves
  BY ResolveIs DEF IInv, TypeOK, PathInv, PathResolves

\* Both invariants hold at every moment, power losses included.
THEOREM PathInvariance ==
  ASSUME RootCluster = 2
  PROVE  Spec => [](IInv /\ PathInv)
<1>1. Init => IInv /\ PathInv
  BY InitInv, InitRef
<1>2. IInv /\ PathInv /\ [Next]_vars => IInv' /\ PathInv'
  BY StepInv, StepRef
<1> QED
  BY <1>1, <1>2, PTL DEF Spec

\* The path at the prompt leads to the directory the handlers work on, through
\* any sequence of cd, mkdir, touch and rm and inside a cd too.
THEOREM PromptIsTrue ==
  ASSUME RootCluster = 2
  PROVE  Spec => []PathResolves
<1>1. IInv /\ PathInv => PathResolves
  BY PathIsTrue
<1> QED
  BY <1>1, PathInvariance, PTL

\* The driver implements the tree of names: every handler happens at one of its
\* sector writes or not at all, whenever the power goes.
THEOREM DriverKeepsPromise ==
  ASSUME RootCluster = 2
  PROVE  Spec => KeepsPromise
<1>1. Init => Promise!Init
  BY InitRef
<1>2. IInv /\ PathInv /\ [Next]_vars => [Promise!Next]_Promise!vars
  BY StepRef
<1> QED
  BY <1>1, <1>2, PathInvariance, PTL DEF Spec, KeepsPromise, Promise!Spec
=============================================================================
