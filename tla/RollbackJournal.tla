---------------------------- MODULE RollbackJournal ----------------------------
(***************************************************************************)
(* What rc-rollback.c writes down of a transaction and what it makes of it *)
(* later: the changes of a package's files, the entries of rollback.xml,   *)
(* the actions that lead back to an earlier time, and the restoring of     *)
(* files.                                                                  *)
(*                                                                         *)
(* A package is known by its name and a version, 0 for none, and has one   *)
(* file, regular or a symbolic link.  Of the file it matters whether it is *)
(* gone, what is in it (or where it points), and its mode, each compared   *)
(* with what the package brings.                                           *)
(***************************************************************************)
EXTENDS Naturals, Sequences, FiniteSets, SequencesExt, FiniteSetsExt, Functions

CONSTANTS
  Name,       \* names of packages
  Link,       \* those whose file is a symbolic link
  Version,    \* versions of packages
  Available,  \* the names and versions in the history of some channel's package
  Edit,       \* what a user may put into a file
  STOCK       \* what the package put into it

\* What the constants are, assumed wherever they are given values.
JournalAssumption ==
  /\ Link \subseteq Name
  /\ Version \subseteq Nat \ {0}
  /\ Available \subseteq Name \X Version
  /\ STOCK \notin Edit

Content == Edit \cup {STOCK}
File    == [gone : BOOLEAN, content : Content, chmod : BOOLEAN]
Stock   == [gone |-> FALSE, content |-> STOCK, chmod |-> FALSE]
Spec0   == Version \cup {0}

\* The <file> node of a file that is not as the package brings it.  STOCK stands
\* for a missing link_target and FALSE for a missing mode, which is read as -1.
FileNode(n, f) ==
  IF f.gone THEN [Stock EXCEPT !.gone = TRUE]
  ELSE [f EXCEPT !.content = IF n \in Link THEN @ ELSE STOCK]

IsChanged(f) == f # Stock

\* Regular files that have changed are copied.
IsCopied(n, f) == IsChanged(f) /\ ~f.gone /\ n \notin Link

Entry  == [time : Nat, name : Name, old : Spec0, new : Spec0,
           changed : BOOLEAN, node : File]

\* add_tracked_package.
Track(time, n, old, new, f) ==
  [time |-> time, name |-> n, old |-> old, new |-> new,
   changed |-> old # 0 /\ IsChanged(f),
   node |-> IF old # 0 THEN FileNode(n, f) ELSE Stock]

-----------------------------------------------------------------------------
\* rc_rollback_get_actions.

\* The action that is found for the package of e.  The table's keys have been
\* freed, so that an action that is there may not be found.
OldActions(actions, e) ==
  {{}} \cup {{a} : a \in {b \in actions : b.name = e.name}}

\* Faulty: what was installed is installed again.
UndoingNew(e, system) ==
  IF e.old = 0
  THEN {[name |-> e.name, install |-> TRUE, version |-> e.new,
         time |-> e.time, changed |-> FALSE, node |-> Stock]}
  ELSE {[name |-> e.name, install |-> TRUE, version |-> e.old, time |-> e.time,
         changed |-> e.changed, node |-> e.node] : v \in {e.old} \cap
           {w \in Version : <<e.name, w>> \in Available}}

\* The actions that undo e: removal of what was installed, if it is still there
\* (otherwise the package is NULL, version 0), or installation of what it was
\* before, if that can be had.
Undoing(e, system) ==
  IF e.old = 0
  THEN {[name |-> e.name, install |-> FALSE,
         version |-> IF system[e.name] = e.new THEN e.new ELSE 0,
         time |-> e.time, changed |-> FALSE, node |-> Stock]}
  ELSE {[name |-> e.name, install |-> TRUE, version |-> e.old, time |-> e.time,
         changed |-> e.changed, node |-> e.node] : v \in {e.old} \cap
           {w \in Version : <<e.name, w>> \in Available}}

\* get_action_from_xml_node: an older or equal action stays, a younger one goes.
WithAction(actions, e, system) ==
  {IF \E a \in old : a.time <= e.time THEN actions
   ELSE (actions \ old) \cup Undoing(e, system) : old \in OldActions(actions, e)}

\* The tables that may be built from the entries since when.
ActionTables(journal, when, system) ==
  FoldLeft(LAMBDA tables, e : UNION {WithAction(t, e, system) : t \in tables},
           {{}}, SelectSeq(journal, LAMBDA e : when <= e.time))

HasNoPackage(a) == ~a.install /\ a.version = 0

GetActions(journal, when, system) ==
  {{a \in table : ~HasNoPackage(a)} : table \in ActionTables(journal, when, system)}

\* The system after the actions have been carried out.
Undo(system, actions) ==
  [n \in Name |->
     IF \E a \in actions : a.name = n
     THEN LET a == CHOOSE b \in actions : b.name = n
          IN  IF a.install THEN a.version ELSE 0
     ELSE system[n]]

-----------------------------------------------------------------------------
\* rc_rollback_restore_files, when the package has just been installed.  A file
\* counts as regular only if its mode is in the node, and a link never does; a
\* copy that is not there leaves the file as it is.

Restore(n, node, copies) ==
  IF node.gone THEN [Stock EXCEPT !.gone = TRUE]
  ELSE IF node.chmod /\ n \notin Link
  THEN [Stock EXCEPT !.chmod = TRUE,
                     !.content = IF n \in DOMAIN copies THEN copies[n] ELSE @]
  ELSE [Stock EXCEPT !.chmod = node.chmod]

=============================================================================
