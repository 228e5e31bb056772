----------------------------- MODULE SyntheticWorld -----------------------------
(***************************************************************************)
(* The world of synthetic packages (rc-world-synthetic.c): packages that   *)
(* nothing has installed, which the world keeps in a file.  The file may   *)
(* be absent or unreadable, other programs may write it, and the program   *)
(* may end while it writes it.                                             *)
(***************************************************************************)
EXTENDS Naturals, FiniteSets

CONSTANTS
  Package,     \* synthetic packages; one that is there is not installed again
  InMulti      \* whether a multi world refreshes, which replaces its subworlds by duplicates

\* What the constants are, assumed wherever they are given values.
SyntheticAssumption ==
  InMulti \in BOOLEAN

VARIABLES
  file,        \* what is at the path of the database
  world,       \* NoWorld, or what the program holds: [named, packages]
  pc,          \* "idle", or "writing" between fopen and xmlDocDump
  agree,       \* history: the last load or save went well and no one wrote since
  did          \* history: what the last step was, and what it returned

vars == <<file, world, pc, agree, did>>

NoWorld == [mounted |-> FALSE, named |-> FALSE, packages |-> {}]
Absent == [kind |-> "absent", packages |-> {}]
Broken == [kind |-> "broken", packages |-> {}]
File(S) == [kind |-> "xml", packages |-> S]
Files == {Absent, Broken} \cup {File(S) : S \in SUBSET Package}

TypeOK ==
  /\ file \in Files
  /\ world \in [mounted : BOOLEAN, named : BOOLEAN, packages : SUBSET Package]
  /\ pc \in {"idle", "writing"}
  /\ agree \in BOOLEAN
  /\ did.call \in {"assemble", "load", "duplicate", "transact", "else"}

Idle(call) == did' = [call |-> call, ok |-> TRUE, wanted |-> {}]

Init ==
  /\ file \in Files
  /\ world = NoWorld
  /\ pc = "idle"
  /\ agree = FALSE
  /\ did = [call |-> "else", ok |-> TRUE, wanted |-> {}]

\* Whether rc_world_synthetic_load_packages returns TRUE, and what the world then has.  The
\* store is cleared only once the file has been parsed.
LoadSucceeds(w) == w.named => file.kind # "broken"

\* Faulty: what was there is not cleared.
LoadedOver(w) == IF w.named THEN w.packages \cup file.packages ELSE w.packages

Loaded(w) == IF w.named /\ file.kind = "xml" THEN file.packages ELSE w.packages

\* rc_world_synthetic_init: a new object has no name of a file, so its load does nothing.
Created == [mounted |-> TRUE, named |-> FALSE, packages |-> {}]
ErrorFlag == ~LoadSucceeds(Created)

\* rc_world_synthetic_assemble, with a URL that names a path: what the load returns is not
\* looked at.
Assemble ==
  LET named == [Created EXCEPT !.named = TRUE]
  IN  /\ pc = "idle" /\ ~world.mounted
      /\ ~ErrorFlag
      /\ world' = [named EXCEPT !.packages = Loaded(named)]
      /\ agree' = (file.kind = "xml")
      /\ did' = [call |-> "assemble", ok |-> TRUE, wanted |-> {}]
      /\ UNCHANGED <<file, pc>>

Unmount ==
  /\ pc = "idle" /\ world.mounted
  /\ world' = NoWorld
  /\ agree' = FALSE
  /\ Idle("else")
  /\ UNCHANGED <<file, pc>>

\* rc_world_synthetic_refresh, of the world itself.
Refresh ==
  /\ pc = "idle" /\ world.mounted
  /\ world' = [world EXCEPT !.packages = Loaded(world)]
  /\ agree' = IF world.named /\ file.kind = "xml" THEN TRUE ELSE agree
  /\ Idle("load")
  /\ UNCHANGED <<file, pc>>

\* The refresh of a multi world puts a duplicate in its place: rc_world_service_dup copies
\* the url, the name and the id, and rc_world_store_dup_fn makes a new object of the type.
RefreshOfMulti ==
  /\ InMulti
  /\ pc = "idle" /\ world.mounted
  /\ world' = [Created EXCEPT !.packages = Loaded(Created)]
  /\ Idle("duplicate")
  /\ UNCHANGED <<file, pc, agree>>

Changed(installs, removes) == (world.packages \cup installs) \ removes

\* rc_world_synthetic_transact: the store changes, then the file is opened, which empties it.
Transact ==
  \E installs \in SUBSET (Package \ world.packages), removes \in SUBSET world.packages,
     opens \in BOOLEAN :
    /\ pc = "idle" /\ world.mounted
    /\ installs \cup removes # {}
    /\ world' = [world EXCEPT !.packages = Changed(installs, removes)]
    /\ pc' = IF world.named /\ opens THEN "writing" ELSE "idle"
    /\ file' = IF world.named /\ opens THEN Broken ELSE file
    /\ agree' = FALSE
    /\ did' = [call |-> IF pc' = "writing" THEN "else" ELSE "transact",
               ok |-> (world.named => opens), wanted |-> Changed(installs, removes)]

Dumped == File(world.packages)

\* The rest of rc_world_synthetic_save_packages: it returns TRUE, whether xmlDocDump and
\* fclose have written all of the file or not.
Write ==
  \E written \in BOOLEAN :
    /\ pc = "writing"
    /\ file' = IF written THEN Dumped ELSE Broken
    /\ pc' = "idle"
    /\ agree' = written
    /\ did' = [did EXCEPT !.call = "transact", !.ok = TRUE]
    /\ UNCHANGED world

\* The program ends, and the next one finds what is in the file.
Crash ==
  /\ world.mounted
  /\ world' = NoWorld
  /\ pc' = "idle"
  /\ agree' = FALSE
  /\ Idle("else")
  /\ UNCHANGED file

\* Another program, or a person, writes the file.
Edit ==
  \E f \in Files \ {file} :
    /\ pc = "idle"
    /\ file' = f
    /\ agree' = FALSE
    /\ Idle("else")
    /\ UNCHANGED <<world, pc>>

Next ==
  \/ Assemble \/ Unmount \/ Refresh \/ RefreshOfMulti \/ Transact \/ Write \/ Crash \/ Edit

Spec == Init /\ [][Next]_vars

-----------------------------------------------------------------------------
\* What the world shows is what its file has, from a load or a save that went well to the
\* next edit of the file (load_packages clears the store, save_packages writes all of it).
SavedIsShown ==
  world.mounted /\ world.named /\ agree => file = File(world.packages)

\* A transaction that returns TRUE has left in the file what it was asked for
\* (rc_world_synthetic_transact ends with rc_world_synthetic_save_packages), unless it was
\* not written: the writing failed, which no one looks at (rc-world-synthetic.c:131), or the
\* world is a duplicate without a file name.
TransactionsAreSaved ==
  did.call = "transact" /\ did.ok /\ agree => file = File(did.wanted)

\* TransactionsAreSaved without the exception.  It does not hold.
OkMeansSaved ==
  did.call = "transact" /\ did.ok => file = File(did.wanted)

\* A file that cannot be read is told to whoever mounts the world (error_flag).
UnreadableIsReported ==
  [][did'.call = "assemble" /\ did'.ok => file.kind # "broken"]_vars
=============================================================================
