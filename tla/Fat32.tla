------------------------------- MODULE Fat32 -------------------------------
(***************************************************************************)
(* The FAT32 driver of the kernel (kernel/src/fat32.cpp): the first FAT,   *)
(* the directory sectors, the working directory, and the handlers the      *)
(* shell calls.  One shell runs one handler at a time, so a handler is     *)
(* split only where the disk changes: every write_sector is a step of its  *)
(* own and the machine can lose power between two of them.                 *)
(*                                                                         *)
(* A directory is the 16 entries of the first sector of its cluster: the   *)
(* driver never follows a chain and never looks at a second sector.        *)
(***************************************************************************)
EXTENDS Naturals, Sequences, FiniteSetsExt

CONSTANTS
  LastCluster,   \* number of the last data cluster of the volume
  ScanLimit,     \* FAT cells that fat32_find_free_cluster looks at (100 * 128)
  RootCluster,   \* bpb->root_cluster
  NSlots,        \* directory entries in a sector (16)
  Typed,         \* names as the user types them
  Base,          \* names as a directory entry stores them
  BaseOf,        \* the conversion: upper case, cut at '.' and at 8 characters
  Paths,         \* arguments of cd: [abs |-> BOOLEAN, comps |-> Seq(Typed)]
  Preloaded      \* stored names of the files on the freshly made volume

Clusters == 2 .. LastCluster
Slots == 1 .. NSlots
EOC == 268435455                  \* 0x0FFFFFFF, end of a cluster chain
Dot == "."
DotDot == ".."

ASSUME GeometryAssumption ==
  /\ LastCluster \in Nat /\ NSlots \in Nat /\ ScanLimit \in Nat
  /\ NSlots >= 3
  /\ RootCluster \in Clusters
  /\ ScanLimit <= LastCluster + 1

\* The conversion stops at the first '.', so no typed name is ever stored as
\* the name of a dot entry.
ASSUME NameAssumption ==
  /\ BaseOf \in [Typed -> Base]
  /\ Dot \notin Base /\ DotDot \notin Base
  /\ "" \in Base                  \* eleven spaces: what "." and "" convert to

ASSUME PathAssumption ==
  \A p \in Paths : p.abs \in BOOLEAN /\ p.comps \in Seq(Typed)

ASSUME PreloadedAssumption ==
  /\ Preloaded \in Seq(Base)
  /\ Len(Preloaded) <= NSlots
  /\ RootCluster + Len(Preloaded) <= LastCluster

(***************************************************************************)
(* Directory entries.  st tells the first byte of the name: 0x00 (end of   *)
(* the directory), 0xE5 (deleted) or anything else.  The other fields of   *)
(* an end or deleted entry are never read before they are written.         *)
(***************************************************************************)
Entry == [st : {"end", "deleted", "used"}, base : Base \cup {Dot, DotDot},
          dir : BOOLEAN, cl : {0} \cup Clusters]

End == [st |-> "end", base |-> "", dir |-> FALSE, cl |-> 0]
Deleted == [st |-> "deleted", base |-> "", dir |-> FALSE, cl |-> 0]
DirEntry(b, c) == [st |-> "used", base |-> b, dir |-> TRUE, cl |-> c]
FileEntry(b, c) == [st |-> "used", base |-> b, dir |-> FALSE, cl |-> c]
EmptySector == [s \in Slots |-> End]

VARIABLES
  present,             \* drive 1 was found by DiskManager::init
  fat,                 \* first copy of the FAT
  dir,                 \* first sector of every cluster, read as entries
  current_dir_cluster,
  current_path,        \* components typed to get here, <<>> for "/"
  pc,                  \* where the running handler is, "idle" at the prompt
  name,                \* fat32_mkdir: its argument
  new_cluster,         \* fat32_mkdir
  parent_buffer,       \* fat32_mkdir: copy of the parent sector
  todo,                \* fat32_cd: components not yet consumed
  old_cluster,         \* fat32_cd: what an error restores
  old_path

disk == <<fat, dir>>
where == <<current_dir_cluster, current_path>>
mkdirLocals == <<name, new_cluster, parent_buffer>>
cdLocals == <<todo, old_cluster, old_path>>
vars == <<present, disk, where, pc, mkdirLocals, cdLocals>>

-----------------------------------------------------------------------------
(* What the handlers look up. *)

\* fat_name_match over the entries in use: the typed name, converted, equals
\* the eight characters of the stored one.
Matches(c, n) ==
  {s \in Slots : dir[c][s].st = "used" /\ dir[c][s].base = BaseOf[n]}

\* Mutant: an entry counts as free when it is no directory.
FreeSlots_Files(sector) == {s \in Slots : sector[s].st # "used" \/ ~ sector[s].dir}

FreeSlots(sector) == {s \in Slots : sector[s].st # "used"}

\* Mutant: the scan does not look at what the FAT cell holds.
FreeClusters_Blind == {c \in Clusters : c < ScanLimit /\ c # RootCluster}

FreeClusters == {c \in Clusters : c < ScanLimit /\ fat[c] = 0}

\* fat32_find_free_cluster, 0 when the scan finds nothing.
fat32_find_free_cluster ==
  IF FreeClusters = {} THEN 0 ELSE Min(FreeClusters)

\* fat32_get_parent_cluster: 0 at cluster 2, and when slot 1 is no dot entry.
fat32_get_parent_cluster ==
  LET e == dir[current_dir_cluster][2] IN
  IF \/ current_dir_cluster = 2
     \/ ~ present
     \/ ~ (e.st = "used" /\ e.base \in {Dot, DotDot})
  THEN 0
  ELSE e.cl

\* fat32_ls stops at the first end entry and skips deleted ones.
fat32_ls(c) ==
  {s \in Slots : /\ dir[c][s].st = "used"
                 /\ \A t \in 1 .. s : dir[c][t].st # "end"}

\* Mutant: ".." is given the new cluster.
DotSector_Self(c, parent) ==
  [s \in Slots |->
     CASE s = 1 -> DirEntry(Dot, c)
       [] s = 2 -> DirEntry(DotDot, c)
       [] OTHER -> End]

DotSector(c, parent) ==
  [s \in Slots |->
     CASE s = 1 -> DirEntry(Dot, c)
       [] s = 2 -> DirEntry(DotDot, IF parent = 2 THEN 0 ELSE parent)
       [] OTHER -> End]

-----------------------------------------------------------------------------
NoMkdir ==
  /\ name' = "" /\ new_cluster' = 0 /\ parent_buffer' = EmptySector

NoCd ==
  /\ todo' = <<>> /\ old_cluster' = 0 /\ old_path' = <<>>

\* fat32_init, at every boot: the working directory is the root of the volume.
\* Without a drive it returns early and the static initial values stay.  The other
\* early return, for a first sector without boot signature, is not taken: the disk
\* is the one of Init, which mkfs.vfat has signed, and no handler writes sector 0.
fat32_init ==
  /\ current_dir_cluster' = IF present THEN RootCluster ELSE 2
  /\ current_path' = <<>>

\* The volume `make prepare_disk` makes: mkfs.vfat on a zero-filled image, then
\* files copied to the root, each one cluster long.
Init ==
  /\ present \in BOOLEAN
  /\ fat = [c \in Clusters |->
              IF c \in RootCluster .. RootCluster + Len(Preloaded)
              THEN EOC ELSE 0]
  /\ dir = [c \in Clusters |->
              IF c = RootCluster
              THEN [s \in Slots |->
                      IF s <= Len(Preloaded)
                      THEN FileEntry(Preloaded[s], RootCluster + s)
                      ELSE End]
              ELSE EmptySector]
  /\ current_dir_cluster = IF present THEN RootCluster ELSE 2
  /\ current_path = <<>>
  /\ pc = "idle"
  /\ name = "" /\ new_cluster = 0 /\ parent_buffer = EmptySector
  /\ todo = <<>> /\ old_cluster = 0 /\ old_path = <<>>

-----------------------------------------------------------------------------
(* fat32_mkdir: three sector writes. *)

\* The name is taken, the parent cannot be read, or no cluster is free.
MkdirRefused(n) ==
  /\ pc = "idle"
  /\ \/ ~ present
     \/ Matches(current_dir_cluster, n) # {}
     \/ fat32_find_free_cluster = 0
  /\ UNCHANGED vars

\* Mutant: the parent sector is not read into the copy.
MkdirBegin_NoCopy(n) ==
  /\ pc = "idle"
  /\ present
  /\ Matches(current_dir_cluster, n) = {}
  /\ fat32_find_free_cluster # 0
  /\ name' = n
  /\ new_cluster' = fat32_find_free_cluster
  /\ parent_buffer' = EmptySector
  /\ pc' = "mkdir_fat"
  /\ UNCHANGED <<present, disk, where, cdLocals>>

\* The parent sector is copied before the cluster is looked for.
MkdirBegin(n) ==
  /\ pc = "idle"
  /\ present
  /\ Matches(current_dir_cluster, n) = {}
  /\ fat32_find_free_cluster # 0
  /\ name' = n
  /\ new_cluster' = fat32_find_free_cluster
  /\ parent_buffer' = dir[current_dir_cluster]
  /\ pc' = "mkdir_fat"
  /\ UNCHANGED <<present, disk, where, cdLocals>>

\* Mutant: the FAT cell is not written.
MkdirFat_NoWrite ==
  /\ pc = "mkdir_fat"
  /\ pc' = "mkdir_dots"
  /\ UNCHANGED <<present, disk, where, mkdirLocals, cdLocals>>

\* fat32_update_fat(new_cluster, 0x0FFFFFFF), in the first FAT only.
MkdirFat ==
  /\ pc = "mkdir_fat"
  /\ fat' = [fat EXCEPT ![new_cluster] = EOC]
  /\ pc' = "mkdir_dots"
  /\ UNCHANGED <<present, dir, where, mkdirLocals, cdLocals>>

MkdirDots ==
  /\ pc = "mkdir_dots"
  /\ dir' = [dir EXCEPT ![new_cluster] =
                           DotSector(new_cluster, current_dir_cluster)]
  /\ pc' = "mkdir_link"
  /\ UNCHANGED <<present, fat, where, mkdirLocals, cdLocals>>

\* The copy taken in MkdirBegin goes back to the disk with one entry filled in;
\* with no entry left the new cluster stays allocated.
MkdirLink ==
  LET free == FreeSlots(parent_buffer) IN
  /\ pc = "mkdir_link"
  /\ \/ free = {} /\ UNCHANGED dir
     \/ /\ free # {}
        /\ dir' = [dir EXCEPT ![current_dir_cluster] =
                     [parent_buffer EXCEPT ![Min(free)] =
                        DirEntry(BaseOf[name], new_cluster)]]
  /\ pc' = "idle"
  /\ NoMkdir
  /\ UNCHANGED <<present, fat, where, cdLocals>>

-----------------------------------------------------------------------------
\* fat32_touch: no look-up first, and silence when the directory is full.
fat32_touch(n) ==
  /\ pc = "idle"
  /\ LET free == FreeSlots(dir[current_dir_cluster]) IN
     dir' = IF present /\ free # {}
            THEN [dir EXCEPT ![current_dir_cluster][Min(free)] =
                               FileEntry(BaseOf[n], 0)]
            ELSE dir
  /\ UNCHANGED <<present, fat, where, pc, mkdirLocals, cdLocals>>

\* Mutant: the removed entry becomes an end entry.
fat32_rm_End(n) ==
  /\ pc = "idle"
  /\ present
  /\ Matches(current_dir_cluster, n) # {}
  /\ dir' = [dir EXCEPT ![current_dir_cluster]
                          [Min(Matches(current_dir_cluster, n))] = End]
  /\ UNCHANGED <<present, fat, where, pc, mkdirLocals, cdLocals>>

\* Mutant: every entry with the name is removed.
fat32_rm_All(n) ==
  LET found == Matches(current_dir_cluster, n) IN
  /\ pc = "idle" /\ present /\ found # {}
  /\ dir' = [dir EXCEPT ![current_dir_cluster] =
               [s \in Slots |-> IF s \in found THEN Deleted ELSE @[s]]]
  /\ UNCHANGED <<present, fat, where, pc, mkdirLocals, cdLocals>>

\* fat32_rm: the first entry that matches is marked deleted, file or directory.
\* Without a drive the unchecked read leaves an uninitialized buffer, in which
\* anything may match, and the write fails.
fat32_rm(n) ==
  LET found == Matches(current_dir_cluster, n) IN
  /\ pc = "idle"
  /\ \/ /\ present /\ found # {}
        /\ dir' = [dir EXCEPT ![current_dir_cluster][Min(found)] = Deleted]
     \/ (~ present \/ found = {}) /\ UNCHANGED dir
  /\ UNCHANGED <<present, fat, where, pc, mkdirLocals, cdLocals>>

-----------------------------------------------------------------------------
(* fat32_cd: no write, one step per component. *)

\* The call of fat32_cd(p) from cluster c and path q.
CdCall(p, c, q) ==
  /\ old_cluster' = c
  /\ old_path' = q
  /\ todo' = p.comps
  /\ current_dir_cluster' = IF p.abs THEN 2 ELSE c
  /\ current_path' = IF p.abs THEN <<>> ELSE q
  /\ pc' = "cd"
  /\ UNCHANGED <<present, disk, mkdirLocals>>

CdBegin(p) ==
  /\ pc = "idle"
  /\ CdCall(p, current_dir_cluster, current_path)

\* cmd_cd without an argument: fat32_cd("/"), and then fat32_cd(nullptr) all the
\* same, which takes the bytes at physical address 0 for its path.
CdNoArg ==
  /\ pc = "idle"
  /\ \E p \in Paths : CdCall(p, 2, <<>>)

CdDone ==
  /\ pc = "cd"
  /\ todo = <<>>
  /\ pc' = "idle"
  /\ NoCd
  /\ UNCHANGED <<present, disk, where, mkdirLocals>>

\* Mutant: the parent cluster is taken without the test for 0.
CdUp_NoTest ==
  /\ pc = "cd"
  /\ todo # <<>> /\ Head(todo) = ".."
  /\ todo' = Tail(todo)
  /\ current_dir_cluster' = fat32_get_parent_cluster
  /\ UNCHANGED <<present, disk, current_path, pc, mkdirLocals,
                 old_cluster, old_path>>

CdUp ==
  LET parent == fat32_get_parent_cluster IN
  /\ pc = "cd"
  /\ todo # <<>> /\ Head(todo) = ".."
  /\ todo' = Tail(todo)
  /\ current_dir_cluster' = IF parent # 0 THEN parent ELSE current_dir_cluster
  /\ current_path' = IF parent # 0 /\ current_path # <<>>
                     THEN SubSeq(current_path, 1, Len(current_path) - 1)
                     ELSE current_path
  /\ UNCHANGED <<present, disk, pc, mkdirLocals, old_cluster, old_path>>

CdHere ==
  /\ pc = "cd"
  /\ todo # <<>> /\ Head(todo) = "."
  /\ todo' = Tail(todo)
  /\ UNCHANGED <<present, disk, where, pc, mkdirLocals,
                 old_cluster, old_path>>

\* Mutant: the path is not put back.
CdFail_PathKept ==
  /\ current_dir_cluster' = old_cluster
  /\ pc' = "idle"
  /\ NoCd
  /\ UNCHANGED <<present, disk, current_path, mkdirLocals>>

CdFail ==
  /\ current_dir_cluster' = old_cluster
  /\ current_path' = old_path
  /\ pc' = "idle"
  /\ NoCd
  /\ UNCHANGED <<present, disk, mkdirLocals>>

CdInto ==
  LET found == Matches(current_dir_cluster, Head(todo))
      e == dir[current_dir_cluster][Min(found)]
  IN
  /\ pc = "cd"
  /\ todo # <<>> /\ Head(todo) \notin {".", ".."}
  /\ \/ ~ present /\ CdFail
     \/ present /\ found = {} /\ CdFail
     \/ present /\ found # {} /\ ~ e.dir /\ CdFail
     \/ /\ present /\ found # {} /\ e.dir
        /\ current_dir_cluster' = e.cl
        /\ current_path' = Append(current_path, Head(todo))
        /\ todo' = Tail(todo)
        /\ UNCHANGED <<present, disk, pc, mkdirLocals,
                       old_cluster, old_path>>

-----------------------------------------------------------------------------
\* Power is lost, at the prompt or inside a handler, and the kernel boots again.
Restart ==
  /\ fat32_init
  /\ pc' = "idle"
  /\ NoMkdir
  /\ NoCd
  /\ UNCHANGED <<present, disk>>

Next ==
  \/ \E n \in Typed : MkdirRefused(n)
  \/ \E n \in Typed : MkdirBegin(n)
  \/ MkdirFat
  \/ MkdirDots
  \/ MkdirLink
  \/ \E n \in Typed : fat32_touch(n)
  \/ \E n \in Typed : fat32_rm(n)
  \/ \E p \in Paths : CdBegin(p)
  \/ CdNoArg
  \/ CdDone
  \/ CdUp
  \/ CdHere
  \/ CdInto
  \/ Restart

Spec == Init /\ [][Next]_vars

-----------------------------------------------------------------------------
(* Properties. *)

\* Every variable has its type; a cluster number is never outside the volume.
TypeOK ==
  /\ present \in BOOLEAN
  /\ fat \in [Clusters -> {0, EOC}]
  /\ dir \in [Clusters -> [Slots -> Entry]]
  /\ current_dir_cluster \in Clusters
  /\ current_path \in Seq(Typed)
  /\ pc \in {"idle", "mkdir_fat", "mkdir_dots", "mkdir_link", "cd"}
  /\ name \in Typed \cup {""}
  /\ new_cluster \in {0} \cup Clusters
  /\ parent_buffer \in [Slots -> Entry]
  /\ todo \in Seq(Typed)
  /\ old_cluster \in {0} \cup Clusters
  /\ old_path \in Seq(Typed)

\* An entry in use that is the only name of what it points to.
Names(c, s) == dir[c][s].st = "used" /\ dir[c][s].base \notin {Dot, DotDot}

\* Whatever sector write the power is lost after, no entry in use points to a
\* cluster that the FAT calls free: fat32_mkdir writes the FAT first.
LinkedIsAllocated ==
  \A c \in Clusters, s \in Slots :
     dir[c][s].st = "used" /\ dir[c][s].cl # 0 => fat[dir[c][s].cl] = EOC

\* Whatever sector write the power is lost after, a directory that can be
\* entered is complete: its "." names itself and its ".." names the directory
\* that holds its entry (0 for cluster 2).  fat32_mkdir links last.
ParentLinks ==
  \A c \in Clusters, s \in Slots :
     Names(c, s) /\ dir[c][s].dir =>
       LET d == dir[c][s].cl IN
       /\ d # 0
       /\ dir[d][1] = DirEntry(Dot, d)
       /\ dir[d][2] = DirEntry(DotDot, IF c = 2 THEN 0 ELSE c)

\* No cluster is given out twice: two names never lead to the same cluster and
\* none leads to the root, so the directories form a tree.
NoSharedCluster ==
  \A c, d \in Clusters, s, t \in Slots :
     Names(c, s) /\ Names(d, t) /\ dir[c][s].cl # 0 =>
       /\ dir[c][s].cl # RootCluster
       /\ dir[c][s].cl = dir[d][t].cl => c = d /\ s = t

\* fat32_ls stops at the first end entry, fat32_find_file does not: they agree
\* because no handler leaves an entry in use behind an end entry.
ListingComplete ==
  \A c \in Clusters : fat32_ls(c) = {s \in Slots : dir[c][s].st = "used"}

\* The sectors fat32_mkdir has read, or found free, are still what it thinks they
\* are at each of its writes: the copy of the parent is the parent, and no entry
\* but the dots of the new directory knows the new cluster.
MkdirInFlight ==
  pc \in {"mkdir_fat", "mkdir_dots", "mkdir_link"} =>
    /\ present
    /\ name \in Typed
    /\ new_cluster \in Clusters \ {RootCluster, current_dir_cluster}
    /\ parent_buffer = dir[current_dir_cluster]
    /\ fat[new_cluster] = IF pc = "mkdir_fat" THEN 0 ELSE EOC
    /\ dir[new_cluster] = IF pc = "mkdir_link"
                          THEN DotSector(new_cluster, current_dir_cluster)
                          ELSE EmptySector
    /\ \A c \in Clusters, s \in Slots :
         Names(c, s) => dir[c][s].cl # new_cluster

\* Where the names of path p lead from the root, 0 when nowhere.
Resolve(p) ==
  LET at[i \in 0 .. Len(p)] ==
        IF i = 0 THEN RootCluster
        ELSE IF at[i - 1] = 0 \/ Matches(at[i - 1], p[i]) = {} THEN 0
        ELSE dir[at[i - 1]][Min(Matches(at[i - 1], p[i]))].cl
  IN at[Len(p)]

\* The prompt tells the truth: at every moment, inside a cd and after a failed
\* one too, the path shown leads from the root to the directory the handlers
\* work on.
PathResolves ==
  present => Resolve(current_path) = current_dir_cluster

OnlyRmRemoves ==
  \A c \in Clusters, s \in Slots :
     dir[c][s].st = "used" =>
       \/ dir'[c][s] = dir[c][s]
       \/ /\ pc = "idle" /\ c = current_dir_cluster
          /\ Names(c, s) /\ dir'[c][s] = Deleted

\* No handler but rm makes an entry disappear, and rm only one of the working
\* directory: fat32_mkdir writes a whole sector back from a copy taken three
\* steps earlier.
EntriesSurvive == [][OnlyRmRemoves]_vars

\* The nodes of NameTree, those of unreachable directories too.
NodeAt(c, s) ==
  [in |-> c, place |-> s, name |-> dir[c][s].base,
   to |-> IF dir[c][s].dir THEN dir[c][s].cl ELSE 0]

Nodes == {NodeAt(x[1], x[2]) : x \in {y \in Clusters \X Slots : Names(y[1], y[2])}}

Promise == INSTANCE NameTree WITH
  Dirs <- Clusters, Root <- RootCluster, Places <- Slots, NameSet <- Base,
  File <- 0, tree <- Nodes, at <- current_dir_cluster,
  home <- IF pc = "cd" THEN old_cluster ELSE current_dir_cluster

\* The shell sees a tree of names: mkdir, touch and rm happen at one sector write
\* or not at all, wherever the power is lost; a new directory is empty and has
\* one name; cd moves along the tree only, ".." to the directory that holds the
\* name, and returns to where it was when it fails.
KeepsPromise == Promise!Spec

\* fat32.cpp:215 says cd supports "..": from a directory below the root it drops
\* the last component.
DotDotGoesUp ==
  [][pc = "cd" /\ todo # <<>> /\ Head(todo) = ".." /\ current_path # <<>>
       /\ todo' = Tail(todo)
     => current_path' = SubSeq(current_path, 1, Len(current_path) - 1)]_vars

=============================================================================
