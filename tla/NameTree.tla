------------------------------ MODULE NameTree ------------------------------
(***************************************************************************)
(* What a file system promises its shell: names in directories, each       *)
(* operation done at once or not at all, whenever the power goes.          *)
(* A node is an entry: where it is, its name, and what it leads to.        *)
(* The working directory moves while a cd is on its way (at); the prompt   *)
(* has the one of the last cd that was finished (home).                    *)
(***************************************************************************)
CONSTANTS
  Dirs, Root,     \* directories
  Places,         \* where in a directory an entry can be
  NameSet,        \* names as they are stored
  File            \* what a file leads to, no directory

VARIABLES
  tree,           \* the nodes
  home, at

vars == <<tree, home, at>>

\* A volume with files in the root.
Init ==
  /\ \A e \in tree : e.in = Root /\ e.to = File
  /\ home = Root /\ at = Root

-----------------------------------------------------------------------------
(* At the prompt. *)

\* One node appears in home, at a place where there is none.
Adds(e) ==
  /\ tree' = tree \cup {e}
  /\ e.in = home /\ e.place \in Places /\ e.name \in NameSet
  /\ \A f \in tree : f.in = home => f.place # e.place

\* A new directory, under a name that home does not have: nothing else leads to
\* it and nothing is in it.
MakeDir ==
  /\ at = home /\ UNCHANGED <<home, at>>
  /\ \E e \in tree' \ tree :
       /\ Adds(e) /\ e.to \in Dirs \ {Root, home}
       /\ \A f \in tree : f.to # e.to /\ f.in # e.to
       /\ \A f \in tree : f.in = home => f.name # e.name

\* A new file, whatever else has its name.
MakeFile ==
  /\ at = home /\ UNCHANGED <<home, at>>
  /\ \E e \in tree' \ tree : Adds(e) /\ e.to = File

\* One node of home goes; what is below it stays and cannot be reached.
Remove ==
  /\ at = home /\ UNCHANGED <<home, at>>
  /\ \E e \in tree \ tree' : e.in = home /\ tree' = tree \ {e}

-----------------------------------------------------------------------------
(* During a cd. *)

Down ==
  /\ home' = home
  /\ \E e \in tree : e.in = at /\ e.to # File /\ at' = e.to
  /\ UNCHANGED tree

Up ==
  /\ home' = home
  /\ \E e \in tree : e.to = at /\ at' = e.in
  /\ UNCHANGED tree

ToRoot == at' = Root /\ UNCHANGED <<tree, home>>

Arrive == home' = at /\ UNCHANGED <<tree, at>>

GiveUp == at' = home /\ UNCHANGED <<tree, home>>

\* Power loss, and a cd without a name.
Home == at' = Root /\ home' = Root /\ UNCHANGED tree

Next ==
  \/ Arrive \/ GiveUp \/ ToRoot \/ Home \/ Up \/ Down
  \/ MakeFile \/ MakeDir \/ Remove

Spec == Init /\ [][Next]_vars
=============================================================================
